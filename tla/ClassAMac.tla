------------------------------ MODULE ClassAMac ------------------------------
(***************************************************************************)
(* What LoRaMac.c and LmHandler.c do for a class A device, as functions of *)
(* a record m of the MAC's state: each operator yields the set of records  *)
(* a call may leave behind.  Frames carry no data, the answer to a request *)
(* of the region (credits, channels) is free, and the class C reception of *)
(* a multicast session is left out.                                        *)
(*                                                                         *)
(*   state      LORAMAC_STOPPED, LORAMAC_IDLE or anything else (busy)      *)
(*   radio      what Radio.GetStatus() reports                             *)
(*   irq        the radio event that LmHandlerProcess will find            *)
(*   win        units until RxWindowTimer1, 2 fire, None when not running  *)
(*   joined     NetworkActivation is not ACTIVATION_TYPE_NONE              *)
(*   joining    the frame in flight is a join request                      *)
(*   confirmed  NodeAckRequested                                           *)
(*   count      ChannelsNbTransCounter                                     *)
(*   ack        units until RetransmitTimeoutTimer fires, or None          *)
(*   retry      RetransmitTimeoutRetry                                     *)
(*   done       MacFlags.Bits.MacDone                                      *)
(*   flush      IsUplinkTxPending of LmHandler.c                           *)
(*   refused    the region refused the last request                        *)
(*   stale      timers of an earlier session of the stack survived a start *)
(*   mcast      LmhpRemoteMcastSetup.c: the request its timers left for    *)
(*              the task, whether a session is started, whether            *)
(*              SessionStartTimer and SessionStopTimer run, and the        *)
(*              sessions that the server will still set up                 *)
(***************************************************************************)
EXTENDS Integers

CONSTANTS RxDelays,     \* delays of the first receive window
          Second,       \* units of time in a second
          AckTimeouts,  \* PHY_RETRANSMIT_TIMEOUT, 1 to 3 seconds
          NbTrans,      \* ChannelsNbTrans, as the server last set it
          MaxSessions,  \* multicast sessions that the server sets up
          None          \* a timer that is not running

Deadline == Nat \cup {None}
Mcast == [flag : {"idle", "start", "stop"}, started : BOOLEAN,
          starts : BOOLEAN, stops : BOOLEAN, left : 0 .. MaxSessions]
Mac == [state : {"stopped", "idle", "busy"}, radio : {"idle", "tx", "rx"},
        irq : {"none", "sent", "frame", "timeout"}, win : [1 .. 2 -> Deadline],
        joined : BOOLEAN, joining : BOOLEAN, confirmed : BOOLEAN, count : Nat,
        ack : Deadline, retry : BOOLEAN, done : BOOLEAN, flush : BOOLEAN,
        refused : BOOLEAN, stale : BOOLEAN, mcast : Mcast]

NoWindows == [k \in 1 .. 2 |-> None]

----------------------------------------------------------------------------
(* Requests.                                                               *)

IsBusy(m) == m.state # "idle"

Sent(m, join) ==
    [m EXCEPT !.state = "busy", !.radio = "tx", !.joining = join,
              !.refused = FALSE, !.count = @ + 1]

\* The MAC forgets its session before the region refuses the request.
JoinRequest(m) ==
    IF IsBusy(m) THEN {m}
    ELSE LET r == [m EXCEPT !.joined = FALSE, !.confirmed = FALSE, !.count = 0,
                            !.retry = FALSE]
         IN  {Sent(r, TRUE), [r EXCEPT !.refused = TRUE]}

Send(m, confirmed) ==
    IF ~m.joined THEN JoinRequest(m)
    ELSE IF IsBusy(m) THEN {m}
    ELSE LET r == [m EXCEPT !.confirmed = confirmed]
         IN  {[Sent(r, FALSE) EXCEPT !.flush = FALSE], [r EXCEPT !.refused = TRUE]}

----------------------------------------------------------------------------
(* The end of a request, when MacDone is set.                              *)

\* The request is over and the MAC idle.
Over(m) ==
    [m EXCEPT !.state = "idle", !.joining = FALSE, !.confirmed = FALSE,
              !.count = 0, !.retry = FALSE, !.done = FALSE]

\* The same frame again, unless the region refuses it.
Resent(m) ==
    {Sent([m EXCEPT !.done = FALSE, !.retry = FALSE], FALSE), Over(m)}

Stops(m, heard, acked) ==
    IF m.confirmed THEN m.retry /\ (m.count >= NbTrans \/ acked)
                   ELSE m.count >= NbTrans \/ heard

\* A confirmed frame waits for RetransmitTimeoutTimer before it is sent again
\* or given up, and the MAC stays busy.
Ended(m, heard, acked) ==
    IF ~IsBusy(m) \/ Stops(m, heard, acked) THEN {Over(m)}
    ELSE IF m.confirmed /\ ~m.retry THEN {m}
    ELSE Resent(m)

\* A join that failed is asked for again by its confirmation.
JoinEnded(m, accepted) == IF accepted THEN {[Over(m) EXCEPT !.joined = TRUE]}
                                      ELSE JoinRequest(Over(m))

----------------------------------------------------------------------------
(* Radio events.                                                           *)

Quiet(m) == [m EXCEPT !.irq = "none", !.radio = "idle"]
Timeout(m, retry) == [m EXCEPT !.retry = retry, !.ack = None]

Armed(m, d, a) ==
    [Quiet(m) EXCEPT !.win = [k \in 1 .. 2 |-> IF k = 1 THEN d ELSE d + Second],
                     !.ack = IF m.confirmed THEN d + Second + a ELSE @]
SentFrame(m) == {Armed(m, d, a) : d \in RxDelays, a \in AckTimeouts}

TxTimeout(m) == [Quiet(m) EXCEPT !.retry = @ \/ m.confirmed, !.done = TRUE]

Finished(m, heard, acked) ==
    IF m.joining THEN JoinEnded(m, FALSE) ELSE Ended(m, heard, acked)

\* What a frame for the device may tell it besides: to send an uplink, or (the
\* server does not do both at once) to prepare a session, which it answers.
Indicated(m) ==
    {m, [m EXCEPT !.flush = TRUE]}
      \cup (IF m.mcast.left = 0 THEN {}
            ELSE Send([m EXCEPT !.mcast.starts = TRUE, !.mcast.left = @ - 1], FALSE))

\* A frame is damaged, or for the device, with or without an acknowledgement.
Frame(m) ==
    LET r == [Quiet(m) EXCEPT !.win[2] = None, !.done = TRUE]
    IN  IF m.joining THEN UNION {JoinEnded(r, accepted) : accepted \in BOOLEAN}
        ELSE (IF m.confirmed THEN Ended(Timeout(r, TRUE), TRUE, FALSE) ELSE {Over(r)})
             \cup UNION {Indicated(n) : n \in
                    (IF m.confirmed THEN Ended(Timeout(r, TRUE), TRUE, TRUE) ELSE {})
                      \cup Ended(r, TRUE, FALSE)}

\* The clock counts whole seconds.  A frame that was sent `phase' after the
\* second's start seems to be that much older than it is.
SecondWindowLooksPast(m) ==
    m.win[2] # None => \E phase \in 0 .. Second - 1 : phase >= m.win[2]

Unanswered(m) ==
    (IF m.win[2] # None \/ m.stale THEN {Quiet(m)} ELSE {})
      \cup (IF SecondWindowLooksPast(m)
            THEN Finished([Quiet(m) EXCEPT !.win[2] = None, !.done = TRUE],
                          FALSE, FALSE)
            ELSE {})

\* LoRaMacProcess: the radio's event, or what waits for RetransmitTimeoutTimer.
MacProcess(m) ==
    CASE m.irq = "none" -> IF m.done THEN Finished(m, FALSE, FALSE) ELSE {m}
      [] m.irq = "sent" -> SentFrame(m)
      [] m.irq = "frame" -> Frame(m)
      [] m.irq = "timeout" /\ m.radio = "tx" -> Finished(TxTimeout(m), FALSE, FALSE)
      [] m.irq = "timeout" /\ m.radio # "tx" -> Unanswered(m)

\* The multicast package takes the request that a timer left.
McastProcess(m) ==
    CASE m.mcast.flag = "idle" -> m
      [] m.mcast.flag = "start" ->
           [m EXCEPT !.mcast.flag = "idle", !.mcast.started = TRUE, !.mcast.stops = TRUE]
      [] m.mcast.flag = "stop" ->
           [m EXCEPT !.mcast.flag = "idle", !.mcast.started = FALSE]

\* The empty uplink that the server asked for.
FlushServer(m) == IF m.flush /\ ~IsBusy(m) THEN Send(m, FALSE) ELSE {m}

----------------------------------------------------------------------------
(* Timers, in the interrupt.                                               *)

Opened(m, k) ==
    IF k = 2 /\ m.radio = "rx" THEN [m EXCEPT !.win[2] = None]
    ELSE [m EXCEPT !.radio = "rx", !.win[k] = None]

\* Mutation: the frame is not to be tried again.
ForgetsRetry(m) == Timeout(m, m.retry)
RetransmitTimeout(m) == Timeout(m, m.retry \/ m.confirmed)

SessionStart(m) == [m EXCEPT !.mcast.starts = FALSE, !.mcast.flag = "start"]
SessionStop(m) == [m EXCEPT !.mcast.stops = FALSE, !.mcast.flag = "stop"]

----------------------------------------------------------------------------
(* Start and stop.                                                         *)

\* TimerInit on timers that still are in the list keeps some of them.
StartedWith(m, kept, restored) ==
    [state |-> "idle", radio |-> "idle", irq |-> "none",
     win |-> [k \in 1 .. 2 |-> IF k \in kept THEN m.win[k] ELSE None],
     joined |-> restored, joining |-> FALSE, confirmed |-> FALSE, count |-> 0,
     ack |-> IF 3 \in kept THEN m.ack ELSE None, retry |-> FALSE, done |-> FALSE,
     flush |-> FALSE, refused |-> FALSE,
     stale |-> \/ \E k \in kept \cap (1 .. 2) : m.win[k] # None
               \/ 3 \in kept /\ m.ack # None,
     mcast |-> [m.mcast EXCEPT !.started = FALSE,
                               !.starts = @ /\ 4 \in kept,
                               !.stops = @ /\ 5 \in kept]]
Started(m) == {StartedWith(m, kept, restored) :
                 kept \in SUBSET (1 .. 5), restored \in BOOLEAN}

\* LoRaMacStop refuses while the MAC is busy, and nobody looks.
Stopped(m) ==
    IF m.state = "busy" THEN m
    ELSE [m EXCEPT !.state = "stopped", !.win = NoWindows, !.joined = FALSE,
                   !.radio = "idle"]
=============================================================================
