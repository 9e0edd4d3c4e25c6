----------------------------- MODULE MCLoraTimer -----------------------------
(***************************************************************************)
(* Small instances of LoraTimer.                                           *)
(***************************************************************************)
EXTENDS LoraTimer, TLC, FiniteSetsExt
CONSTANTS t1, t2, t3

\* Three timers with interrupts taken at once, or any two of them under load.
PromptOrLoaded ==
    {[timers |-> Timers, durations |-> {1, 2, 3}, delay |-> 0, end |-> 4]}
    \cup {[timers |-> T, durations |-> {1, 2}, delay |-> n, end |-> 8 - n] :
             T \in kSubset(2, Timers), n \in {1, 2}}

Symmetry == Permutations(Timers)
=============================================================================
