---------------------------- MODULE EepromStore ----------------------------
(***************************************************************************)
(* What the emulated EEPROM (utils/eeprom_emulation.c) promises its caller,*)
(* said without pages, words or transfers: a durable map from virtual      *)
(* addresses to values that every step of an operation leaves as a restart *)
(* would find it.  A power failure therefore changes nothing in the map:   *)
(* it only drops the operations that have not taken effect yet.            *)
(*                                                                         *)
(* Two weaknesses of the code are part of the promise, because callers see *)
(* them.  A deletion is not atomic: while it runs, and for ever when the   *)
(* power fails in the middle of it, the variable may hold a value it held  *)
(* before.  And a write to a new address when Capacity addresses are in    *)
(* use takes effect at the price of some other variable.                   *)
(***************************************************************************)
EXTENDS Integers, FiniteSets, Sequences

CONSTANTS Vars,      \* the virtual addresses
          Data,      \* the 16-bit values
          Capacity   \* how many variables the store holds

None == -1           \* no value: eeprom_read returns false

\* The primitive operations every call of the API is made of.
Ops == [kind : {"write", "put"}, va : Vars, data : Data]
         \cup [kind : {"delete"}, va : Vars]

VARIABLES store,   \* the value a restart would find, or None
          past,    \* the values of each variable still in flash
          script,  \* the operations of the current call still to take effect
          up       \* the store has been opened (or formatted) since power-on

vars == <<store, past, script, up>>

Live == {v \in Vars : store[v] # None}

\* `past` and `store` may only lose copies: a value in the store has one.
Consistent == \A v \in Live : store[v] \in past[v]

TypeOK == /\ store \in [Vars -> Data \cup {None}]
          /\ past \in [Vars -> SUBSET Data]
          /\ script \in Seq(Ops)
          /\ up \in BOOLEAN
          /\ Consistent

Init == /\ store = [v \in Vars |-> None]
        /\ past = [v \in Vars |-> {}]
        /\ script = <<>>
        /\ up = FALSE

----------------------------------------------------------------------------

\* A call is accepted when the previous one has returned.
Call == /\ up
        /\ script = <<>>
        /\ script' \in Seq(Ops)
        /\ UNCHANGED <<store, past, up>>

\* A write takes effect at once; when the store is full of other variables
\* one of them is lost.
Put == /\ up
       /\ script # <<>>
       /\ Head(script).kind \in {"write", "put"}
       /\ LET v == Head(script).va
              d == Head(script).data
          IN  /\ IF v \notin Live /\ Cardinality(Live) >= Capacity
                 THEN \E u \in Live :
                         store' = [store EXCEPT ![v] = d, ![u] = None]
                 ELSE store' = [store EXCEPT ![v] = d]
              /\ past' = [past EXCEPT ![v] = @ \cup {d}]
       /\ script' = Tail(script)
       /\ UNCHANGED up

\* A deletion removes the copies of the variable one by one, and the value
\* read in between is one of those that remain.
Fade == /\ up
        /\ script # <<>>
        /\ Head(script).kind = "delete"
        /\ LET v == Head(script).va
           IN  /\ past'[v] \in SUBSET past[v]
               /\ past' = [past EXCEPT ![v] = past'[v]]
               /\ store'[v] \in past'[v] \cup {None}
               /\ store' = [store EXCEPT ![v] = store'[v]]
        /\ UNCHANGED <<script, up>>

\* A deletion returns only when no copy is left that could come back.
Deleted == /\ up
           /\ script # <<>>
           /\ Head(script).kind = "delete"
           /\ store[Head(script).va] = None
           /\ past[Head(script).va] = {}
           /\ script' = Tail(script)
           /\ UNCHANGED <<store, past, up>>

\* Old copies disappear when a page is erased.
Compact == /\ past' \in [Vars -> SUBSET Data]
           /\ \A v \in Vars : past'[v] \subseteq past[v]
           /\ \A v \in Live : store[v] \in past'[v]
           /\ UNCHANGED <<store, script, up>>

\* Formatting empties the store.
Clear == /\ up
         /\ script = <<>>
         /\ store' = [v \in Vars |-> None]
         /\ past' = [v \in Vars |-> {}]
         /\ UNCHANGED <<script, up>>

\* Power loss at any moment, and the restart that follows it.
PowerLoss == /\ up' = FALSE
             /\ script' = <<>>
             /\ UNCHANGED <<store, past>>

Open == /\ ~up
        /\ script = <<>>
        /\ up' = TRUE
        /\ UNCHANGED <<store, past, script>>

Next == \/ Call
        \/ Put \/ Fade \/ Deleted \/ Compact \/ Clear \/ PowerLoss \/ Open

Spec == Init /\ [][Next]_vars
============================================================================
