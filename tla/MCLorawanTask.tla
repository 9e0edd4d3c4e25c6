---------------------------- MODULE MCLorawanTask ----------------------------
(***************************************************************************)
(* Small instances of LorawanTask.  A second is two units; the first       *)
(* window opens after one second and the second after two, and the port    *)
(* stays on for two and a half, as 8 seconds are for the windows of a join *)
(* after 5 and 6.                                                          *)
(***************************************************************************)
EXTENDS LorawanTask
CONSTANTS cli, app
OneSender == {cli}
TwoSenders == {cli, app}
=============================================================================
