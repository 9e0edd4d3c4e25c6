------------------------------ MODULE MCNvmData ------------------------------
(***************************************************************************)
(* Small instances of NvmData.                                             *)
(***************************************************************************)
EXTENDS NvmData
=============================================================================
