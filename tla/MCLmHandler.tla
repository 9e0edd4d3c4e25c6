---------------------------- MODULE MCLmHandler ----------------------------
(***************************************************************************)
(* A small instance of LmHandler.  A behaviour follows one of four        *)
(* scenarios, which share the MAC's queue, its flags and the task's loop.  *)
(***************************************************************************)
EXTENDS LmHandler

\* The switch to class B, with a join, a time request or another class in its
\* way.
ClassB == [commands |-> {"join", "syncMac", "A", "B", "C"}, count |-> 2,
           answers |-> {"time", "slot"}, trans |-> {}, data |-> {}, more |-> {FALSE}]

\* Clock synchronisation by the application server and the network server.
Clock == [commands |-> {"syncApp"}, count |-> 1, answers |-> {"time"},
          trans |-> {1, 2}, data |-> {"answer", "resync"}, more |-> {FALSE}]

\* Multicast sessions.
Mcast == [commands |-> {}, count |-> 0, answers |-> {}, trans |-> {},
          data |-> {"session"}, more |-> {FALSE}]

\* Uplinks that fetch what the server still has.
Fetch == [commands |-> {"A", "C"}, count |-> 1, answers |-> {"time"}, trans |-> {2},
          data |-> {}, more |-> BOOLEAN]

Covered == {ClassB, Clock, Mcast, Fetch}

ASSUME ScenariosFit == JoinsAskNothing
============================================================================
