--------------------------- MODULE MCWsfScheduler ---------------------------
(***************************************************************************)
(* Small instances of WsfScheduler.                                        *)
(***************************************************************************)
EXTENDS WsfScheduler
CONSTANTS t1, t2
Two == {t1, t2}
=============================================================================
