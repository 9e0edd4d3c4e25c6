--------------------------- MODULE MCHciTransport ---------------------------
(***************************************************************************)
(* Small instances of HciTransport.                                        *)
(***************************************************************************)
EXTENDS HciTransport
Operation == {"up"}
Anytime == Phases
=============================================================================
