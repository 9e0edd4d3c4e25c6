--------------------------- MODULE MCFragmentation ---------------------------
(***************************************************************************)
(* Small instances of Fragmentation.                                       *)
(***************************************************************************)
EXTENDS Fragmentation

\* ParityAssumption for more numbers of rows, and coded fragments, than the
\* instances have; a draw is repeated only for powers of two.
ASSUME DrawsEnd ==
    \A n \in 1 .. 8, m \in 1 .. 40 \cup {64, 128, 256} : ParityRow(n, m) \subseteq 0 .. m - 1
=============================================================================
