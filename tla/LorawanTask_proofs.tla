-------------------------- MODULE LorawanTask_proofs --------------------------
(***************************************************************************)
(* The safety of the LoRaWAN task: no command is slept on, a packet is     *)
(* tried again, and the SPI port is on whenever the radio is used, for     *)
(* every number of senders, every length of the queues, all delays of the  *)
(* receive windows and every timeout of the port that is longer.           *)
(***************************************************************************)
EXTENDS LorawanTask, TLAPS, FiniteSetTheorems

----------------------------------------------------------------------------
(* The inductive invariant.                                                *)

Windows == 1 .. 2
Awake == {"command", "process", "uplink"}

\* No window is further off than the port's timeout when it is armed.
WindowsSoon == \A k \in Windows : mac.win[k] # None => mac.win[k] < PortTimeout

\* The port's timer runs only with power management and, while the stack does,
\* only while the task is asleep.
TimerAsleep == /\ ~pm => portTimer = None
               /\ started /\ portTimer # None => pc \in {"wait", "wake"}

\* Without power management the port is never taken down.
PortStays == started => /\ port # "none"
                        /\ ~pm => port = "on"

\* A window to come has the port on and, if its timer runs, opens before that
\* expires.
PortOutlasts ==
    started => \A k \in Windows : mac.win[k] # None =>
                  /\ port = "on"
                  /\ portTimer # None => mac.win[k] < portTimer

\* A session that is started has its end to come, or a request of its timers.
SessionTimed == mac.mcast.started => mac.mcast.stops \/ mac.mcast.flag # "idle"

\* What the session's timers ask for is seen in this round or in the next.
RequestNoticed ==
    started /\ mac.mcast.flag # "idle" =>
        notes > 0 \/ pc \in {"wake", "command", "process"}

\* Whoever queues a packet notifies the task; the task has tried the others.
PacketsTried ==
    started /\ txs > 0 /\ pc \in {"sleep", "wait"} =>
        \/ IsBusy(mac) \/ mac.refused \/ mac.mcast.started
        \/ notes > 0 \/ giving # {}

Sessions == SessionTimed /\ RequestNoticed /\ PacketsTried

IInv ==
    /\ TypeOK /\ CommandsCovered
    /\ WindowsSoon /\ TimerAsleep /\ PortStays /\ PortOnForTask /\ PortOutlasts
    /\ Sessions

----------------------------------------------------------------------------
(* What the MAC's functions return.                                        *)

\* The same windows and the same session.
SameSession(m, n) == /\ n.mcast.started = m.mcast.started
                     /\ n.mcast.stops = m.mcast.stops
                     /\ n.mcast.flag = m.mcast.flag
Same(m, n) == n \in Mac /\ n.win = m.win /\ SameSession(m, n)

\* A frame that is sent keeps the windows of the one before.
LEMMA SentReturns ==
    ASSUME NEW m \in Mac, NEW join \in BOOLEAN
    PROVE  Same(m, Sent(m, join)) /\ IsBusy(Sent(m, join))
<1>1. m.count + 1 \in Nat
  BY DEF Mac
<1>. DEFINE c == m.count + 1
<1>2. Sent(m, join) = [m EXCEPT !.state = "busy", !.radio = "tx", !.joining = join,
                                !.refused = FALSE, !.count = c]
  BY DEF Sent, Mac
<1>3. c \in Nat
  BY <1>1
<1>. HIDE DEF c
<1>. QED  BY <1>2, <1>3 DEF Mac, Same, SameSession, IsBusy

\* A join request is sent, refused or ignored by a busy MAC.
LEMMA JoinRequestReturns ==
    ASSUME NEW m \in Mac, NEW n \in JoinRequest(m)
    PROVE  Same(m, n) /\ (IsBusy(n) \/ n.refused)
<1>1. CASE IsBusy(m)
  BY <1>1 DEF JoinRequest, Same, SameSession
<1>2. CASE ~IsBusy(m)
  <2>. DEFINE r == [m EXCEPT !.joined = FALSE, !.confirmed = FALSE, !.count = 0,
                             !.retry = FALSE]
  <2>1. Same(m, r)
    BY DEF Mac, Same, SameSession
  <2>2. n = Sent(r, TRUE) \/ n = [r EXCEPT !.refused = TRUE]
    BY <1>2 DEF JoinRequest
  <2>. HIDE DEF r
  <2>3. CASE n = Sent(r, TRUE)
    BY <2>1, <2>3, SentReturns DEF Same, SameSession
  <2>4. CASE n = [r EXCEPT !.refused = TRUE]
    BY <2>1, <2>4 DEF Mac, Same, SameSession
  <2>. QED  BY <2>2, <2>3, <2>4
<1>. QED  BY <1>1, <1>2

\* So is an uplink.
LEMMA SendReturns ==
    ASSUME NEW m \in Mac, NEW confirmed \in BOOLEAN, NEW n \in Send(m, confirmed)
    PROVE  Same(m, n) /\ (IsBusy(n) \/ n.refused)
<1>1. CASE ~m.joined
  BY <1>1, JoinRequestReturns DEF Send
<1>2. CASE m.joined /\ IsBusy(m)
  BY <1>2 DEF Send, Same, SameSession
<1>3. CASE m.joined /\ ~IsBusy(m)
  <2>. DEFINE r == [m EXCEPT !.confirmed = confirmed]
  <2>1. Same(m, r)
    BY DEF Mac, Same, SameSession
  <2>2. n = [Sent(r, FALSE) EXCEPT !.flush = FALSE] \/ n = [r EXCEPT !.refused = TRUE]
    BY <1>3 DEF Send
  <2>. HIDE DEF r
  <2>3. CASE n = [Sent(r, FALSE) EXCEPT !.flush = FALSE]
    <3>1. Same(r, Sent(r, FALSE)) /\ IsBusy(Sent(r, FALSE))
      BY <2>1, SentReturns DEF Same
    <3>. QED  BY <2>1, <2>3, <3>1 DEF Mac, Same, SameSession, IsBusy
  <2>4. CASE n = [r EXCEPT !.refused = TRUE]
    BY <2>1, <2>4 DEF Mac, Same, SameSession
  <2>. QED  BY <2>2, <2>3, <2>4
<1>. QED  BY <1>1, <1>2, <1>3

\* What LmHandlerProcess leaves of the windows: those there were, none, or
\* the two of the frame that was sent.
KeepsWindows(m, n) ==
    \A k \in Windows : \/ n.win[k] \in {None, m.win[k]}
                       \/ n.win[k] \in Nat /\ n.win[k] < PortTimeout
Keeps(m, n) == n \in Mac /\ KeepsWindows(m, n) /\ SameSession(m, n)

\* What keeps the same keeps what it follows.
LEMMA KeepsSame ==
    ASSUME NEW m, NEW r, NEW n, Keeps(m, r), Same(r, n)
    PROVE  Keeps(m, n)
BY DEF Keeps, Same, KeepsWindows, SameSession

\* A request that is over has no window of its own.
LEMMA OverReturns ==
    ASSUME NEW m \in Mac
    PROVE  Same(m, Over(m))
BY DEF Over, Mac, Same, SameSession

\* A request that ends is over, waits or is sent again.
LEMMA EndedReturns ==
    ASSUME NEW m \in Mac, NEW heard \in BOOLEAN, NEW acked \in BOOLEAN,
           NEW n \in Ended(m, heard, acked)
    PROVE  Same(m, n)
<1>. DEFINE r == [m EXCEPT !.done = FALSE, !.retry = FALSE]
<1>1. Same(m, r)
  BY DEF Mac, Same, SameSession
<1>2. n = Over(m) \/ n = m \/ n = Sent(r, FALSE)
  BY DEF Ended, Resent
<1>. HIDE DEF r
<1>3. CASE n = Over(m)
  BY <1>3, OverReturns
<1>4. CASE n = m
  BY <1>4 DEF Same, SameSession
<1>5. CASE n = Sent(r, FALSE)
  BY <1>1, <1>5, SentReturns DEF Same, SameSession
<1>. QED  BY <1>2, <1>3, <1>4, <1>5

\* A join that ends has joined or asks again.
LEMMA JoinEndedReturns ==
    ASSUME NEW m \in Mac, NEW accepted \in BOOLEAN, NEW n \in JoinEnded(m, accepted)
    PROVE  Same(m, n)
<1>1. Same(m, Over(m))
  BY OverReturns
<1>2. CASE accepted
  <2>1. n = [Over(m) EXCEPT !.joined = TRUE]
    BY <1>2 DEF JoinEnded
  <2>. QED  BY <1>1, <2>1 DEF Mac, Same, SameSession
<1>3. CASE ~accepted
  BY <1>1, <1>3, JoinRequestReturns DEF JoinEnded, Same, SameSession
<1>. QED  BY <1>2, <1>3

\* Either kind of request.
LEMMA FinishedReturns ==
    ASSUME NEW m \in Mac, NEW heard \in BOOLEAN, NEW acked \in BOOLEAN,
           NEW n \in Finished(m, heard, acked)
    PROVE  Same(m, n)
BY EndedReturns, JoinEndedReturns DEF Finished

\* The radio is quiet, the windows are not touched.
LEMMA QuietReturns ==
    ASSUME NEW m \in Mac
    PROVE  Same(m, Quiet(m))
BY DEF Quiet, Mac, Same, SameSession

\* The timer of the acknowledgement is stopped.
LEMMA TimeoutReturns ==
    ASSUME NEW m \in Mac, NEW retry \in BOOLEAN
    PROVE  Same(m, Timeout(m, retry))
BY DEF Timeout, Mac, Deadline, Same, SameSession

\* What a frame tells besides leaves the windows alone.
LEMMA IndicatedReturns ==
    ASSUME NEW m \in Mac, NEW n \in Indicated(m)
    PROVE  Same(m, n)
<1>. DEFINE r == [m EXCEPT !.mcast.starts = TRUE, !.mcast.left = @ - 1]
<1>1. CASE n = m \/ n = [m EXCEPT !.flush = TRUE]
  BY <1>1 DEF Mac, Same, SameSession
<1>2. CASE m.mcast.left # 0 /\ n \in Send(r, FALSE)
  <2>1. r.mcast = [m.mcast EXCEPT !.starts = TRUE, !.left = @ - 1]
    BY DEF Mac
  <2>2. m.mcast \in Mcast
    BY DEF Mac
  <2>3. m.mcast.left - 1 \in 0 .. MaxSessions
    BY <1>2, <2>2, Assumptions DEF Mcast, Assumptions, BoundsAssumption
  <2>. DEFINE c == [m.mcast EXCEPT !.starts = TRUE, !.left = @ - 1]
  <2>4. c \in Mcast /\ c.started = m.mcast.started /\ c.stops = m.mcast.stops
        /\ c.flag = m.mcast.flag
    BY <2>2, <2>3 DEF Mcast
  <2>5. r = [m EXCEPT !.mcast = c]
    BY DEF Mac, Mcast
  <2>. HIDE DEF c, r
  <2>6. Same(m, r)
    BY <2>4, <2>5 DEF Mac, Same, SameSession
  <2>. QED  BY <1>2, <2>6, SendReturns DEF Same, SameSession
<1>. QED  BY <1>1, <1>2 DEF Indicated

\* The frame that was sent arms both windows.
LEMMA SentFrameReturns ==
    ASSUME NEW m \in Mac, NEW n \in SentFrame(m)
    PROVE  Keeps(m, n)
<1>1. PICK d \in RxDelays, a \in AckTimeouts : n = Armed(m, d, a)
  BY DEF SentFrame
<1>2. /\ d \in Nat /\ d + Second \in Nat /\ d < PortTimeout /\ d + Second < PortTimeout
      /\ d + Second + a \in Nat
  BY Assumptions DEF Assumptions, DelayAssumption, SecondAssumption, BoundsAssumption
<1>. DEFINE w == [k \in 1 .. 2 |-> IF k = 1 THEN d ELSE d + Second]
            t == IF m.confirmed THEN d + Second + a ELSE Quiet(m).ack
<1>3. Same(m, Quiet(m))
  BY QuietReturns
<1>4. w \in [1 .. 2 -> Deadline] /\ t \in Deadline
  BY <1>2, <1>3 DEF Mac, Deadline, Same
<1>5. \A k \in Windows : w[k] \in Nat /\ w[k] < PortTimeout
  BY <1>2 DEF Windows
<1>. HIDE DEF w, t
<1>6. n = [Quiet(m) EXCEPT !.win = w, !.ack = t]
  BY <1>1 DEF w, t, Armed
<1>. QED  BY <1>3, <1>4, <1>5, <1>6 DEF Mac, Keeps, KeepsWindows, Same, SameSession

\* A frame for the device arms none.
LEMMA FrameReturns ==
    ASSUME NEW m \in Mac, NEW n \in Frame(m)
    PROVE  Keeps(m, n)
<1>. DEFINE r == [Quiet(m) EXCEPT !.win[2] = None, !.done = TRUE]
<1>1. Keeps(m, r)
  <2>1. Same(m, Quiet(m))
    BY QuietReturns
  <2>. QED  BY <2>1 DEF Mac, Deadline, Same, Keeps, KeepsWindows, SameSession, Windows
<1>2. PICK q : /\ q = r \/ q = Timeout(r, TRUE)
               /\ \/ \E accepted \in BOOLEAN : n \in JoinEnded(q, accepted)
                  \/ n = Over(q)
                  \/ \E acked \in BOOLEAN : n \in Ended(q, TRUE, acked)
                  \/ \E acked \in BOOLEAN : \E e \in Ended(q, TRUE, acked) : n \in Indicated(e)
  <2>. HIDE DEF r
  <2>1. \/ \E accepted \in BOOLEAN : n \in JoinEnded(r, accepted)
        \/ n = Over(r)
        \/ n \in Ended(Timeout(r, TRUE), TRUE, FALSE)
        \/ \E e \in Ended(Timeout(r, TRUE), TRUE, TRUE) : n \in Indicated(e)
        \/ \E e \in Ended(r, TRUE, FALSE) : n \in Indicated(e)
    BY DEF Frame, r
  <2>. QED  BY <2>1
<1>. HIDE DEF r
<1>3. r \in Mac /\ Same(r, q)
  <2>1. r \in Mac
    BY <1>1 DEF Keeps
  <2>2. Same(r, r)
    BY <2>1 DEF Same, SameSession
  <2>3. Same(r, Timeout(r, TRUE))
    BY <2>1, TimeoutReturns
  <2>. QED  BY <1>2, <2>1, <2>2, <2>3
<1>4. Same(q, n)
  <2>. q \in Mac
    BY <1>3 DEF Same
  <2>1. CASE \E accepted \in BOOLEAN : n \in JoinEnded(q, accepted)
    BY <2>1, JoinEndedReturns
  <2>2. CASE n = Over(q)
    BY <2>2, OverReturns
  <2>3. CASE \E acked \in BOOLEAN : n \in Ended(q, TRUE, acked)
    BY <2>3, EndedReturns
  <2>4. CASE \E acked \in BOOLEAN : \E e \in Ended(q, TRUE, acked) : n \in Indicated(e)
    <3>0. PICK acked \in BOOLEAN : \E e \in Ended(q, TRUE, acked) : n \in Indicated(e)
      BY <2>4
    <3>1. PICK e \in Ended(q, TRUE, acked) : n \in Indicated(e)
      BY <3>0
    <3>2. Same(q, e)
      BY EndedReturns
    <3>3. Same(e, n)
      BY <3>1, <3>2, IndicatedReturns DEF Same
    <3>. QED  BY <3>2, <3>3 DEF Same, SameSession
  <2>. QED  BY <1>2, <2>1, <2>2, <2>3, <2>4
<1>. QED  BY <1>1, <1>3, <1>4, KeepsSame

\* Nor does a window without one.
LEMMA UnansweredReturns ==
    ASSUME NEW m \in Mac, NEW n \in Unanswered(m)
    PROVE  Keeps(m, n)
<1>. DEFINE r == [Quiet(m) EXCEPT !.win[2] = None, !.done = TRUE]
<1>1. Same(m, Quiet(m))
  BY QuietReturns
<1>2. Keeps(m, Quiet(m))
  BY <1>1 DEF Same, Keeps, KeepsWindows
<1>3. Keeps(m, r)
  BY <1>1 DEF Mac, Deadline, Same, Keeps, KeepsWindows, SameSession, Windows
<1>4. n = Quiet(m) \/ n \in Finished(r, FALSE, FALSE)
  BY DEF Unanswered
<1>. HIDE DEF r
<1>5. CASE n \in Finished(r, FALSE, FALSE)
  <2>1. Same(r, n)
    BY <1>3, <1>5, FinishedReturns DEF Keeps
  <2>. QED  BY <1>3, <2>1, KeepsSame
<1>. QED  BY <1>2, <1>4, <1>5

\* Whatever the radio reports, LoRaMacProcess keeps the windows so.
LEMMA MacProcessReturns ==
    ASSUME NEW m \in Mac, NEW n \in MacProcess(m)
    PROVE  Keeps(m, n)
<1>0. Keeps(m, m)
  BY DEF Keeps, KeepsWindows, SameSession
<1>1. CASE m.irq = "none"
  <2>1. n = m \/ n \in Finished(m, FALSE, FALSE)
    BY <1>1 DEF MacProcess
  <2>2. Same(m, n)
    BY <2>1, FinishedReturns DEF Same, SameSession
  <2>. QED  BY <1>0, <2>2, KeepsSame
<1>2. CASE m.irq = "sent"
  BY <1>2, SentFrameReturns DEF MacProcess
<1>3. CASE m.irq = "frame"
  BY <1>3, FrameReturns DEF MacProcess
<1>4. CASE m.irq = "timeout" /\ m.radio = "tx"
  <2>1. n \in Finished(TxTimeout(m), FALSE, FALSE)
    BY <1>4 DEF MacProcess
  <2>2. Same(m, Quiet(m)) /\ Quiet(m) \in Mac
    BY QuietReturns DEF Same
  <2>3. Same(m, TxTimeout(m))
    BY <2>2 DEF TxTimeout, Mac, Same, SameSession
  <2>4. Same(TxTimeout(m), n)
    BY <2>1, <2>3, FinishedReturns DEF Same
  <2>5. Same(m, n)
    BY <2>3, <2>4 DEF Same, SameSession
  <2>. QED  BY <1>0, <2>5, KeepsSame
<1>5. CASE m.irq = "timeout" /\ m.radio # "tx"
  BY <1>5, UnansweredReturns DEF MacProcess
<1>. QED  BY <1>1, <1>2, <1>3, <1>4, <1>5 DEF Mac

\* The multicast package takes the request of its timers, and a session that it
\* starts has its end to come.
LEMMA McastProcessReturns ==
    ASSUME NEW m \in Mac
    PROVE  /\ McastProcess(m) \in Mac /\ McastProcess(m).win = m.win
           /\ McastProcess(m).mcast.flag = "idle"
           /\ (McastProcess(m).mcast.started =>
                 \/ McastProcess(m).mcast.stops
                 \/ /\ m.mcast.flag = "idle" /\ m.mcast.started
                    /\ McastProcess(m).mcast.stops = m.mcast.stops)
<1>0. m.mcast \in Mcast
  BY DEF Mac
<1>1. CASE m.mcast.flag = "idle"
  BY <1>1 DEF McastProcess
<1>2. CASE m.mcast.flag = "start"
  <2>. DEFINE c == [m.mcast EXCEPT !.flag = "idle", !.started = TRUE, !.stops = TRUE]
  <2>1. McastProcess(m) = [m EXCEPT !.mcast = c]
    BY <1>2 DEF McastProcess, Mac
  <2>2. c \in Mcast /\ c.flag = "idle" /\ c.stops
    BY <1>0 DEF Mcast
  <2>. HIDE DEF c
  <2>. QED  BY <2>1, <2>2 DEF Mac
<1>3. CASE m.mcast.flag = "stop"
  <2>. DEFINE c == [m.mcast EXCEPT !.flag = "idle", !.started = FALSE]
  <2>1. McastProcess(m) = [m EXCEPT !.mcast = c]
    BY <1>3 DEF McastProcess, Mac
  <2>2. c \in Mcast /\ c.flag = "idle" /\ ~c.started
    BY <1>0 DEF Mcast
  <2>. HIDE DEF c
  <2>. QED  BY <2>1, <2>2 DEF Mac
<1>. QED  BY <1>0, <1>1, <1>2, <1>3 DEF Mcast

\* The empty uplink leaves the windows alone.
LEMMA FlushServerReturns ==
    ASSUME NEW m \in Mac, NEW n \in FlushServer(m)
    PROVE  Same(m, n)
BY SendReturns DEF FlushServer, Same, SameSession

\* A start keeps none but windows there were.
LEMMA StartedReturns ==
    ASSUME NEW m \in Mac, NEW n \in Started(m)
    PROVE  /\ n \in Mac /\ ~n.mcast.started
           /\ \A k \in Windows : n.win[k] \in {None, m.win[k]}
<1>0. PICK kept \in SUBSET (1 .. 5), restored \in BOOLEAN :
         n = StartedWith(m, kept, restored)
  BY DEF Started
<1>1. n = [state |-> "idle", radio |-> "idle", irq |-> "none",
           win |-> [k \in 1 .. 2 |-> IF k \in kept THEN m.win[k] ELSE None],
           joined |-> restored, joining |-> FALSE, confirmed |-> FALSE, count |-> 0,
           ack |-> IF 3 \in kept THEN m.ack ELSE None, retry |-> FALSE,
           done |-> FALSE, flush |-> FALSE, refused |-> FALSE,
           stale |-> \/ \E k \in kept \cap (1 .. 2) : m.win[k] # None
                     \/ 3 \in kept /\ m.ack # None,
           mcast |-> [m.mcast EXCEPT !.started = FALSE,
                                     !.starts = @ /\ 4 \in kept,
                                     !.stops = @ /\ 5 \in kept]]
  BY <1>0 DEF StartedWith
<1>2. n.win \in [1 .. 2 -> Deadline] /\ n.ack \in Deadline
  <2>1. m.win \in [1 .. 2 -> Deadline] /\ m.ack \in Deadline /\ None \in Deadline
    BY DEF Mac, Deadline
  <2>2. n.win = [k \in 1 .. 2 |-> IF k \in kept THEN m.win[k] ELSE None]
    BY <1>1
  <2>3. n.ack = IF 3 \in kept THEN m.ack ELSE None
    BY <1>1
  <2>. QED  BY <2>1, <2>2, <2>3
<1>3. n.stale \in BOOLEAN
  BY <1>1
<1>4. n.mcast \in Mcast /\ ~n.mcast.started
  <2>1. m.mcast \in Mcast
    BY DEF Mac
  <2>2. n.mcast = [m.mcast EXCEPT !.started = FALSE,
                                  !.starts = @ /\ 4 \in kept,
                                  !.stops = @ /\ 5 \in kept]
    BY <1>1
  <2>. QED  BY <2>1, <2>2 DEF Mcast
<1>5. \A k \in Windows : n.win[k] \in {None, m.win[k]}
  BY <1>1 DEF Windows
<1>6. n \in Mac
  <2>. DEFINE w == n.win  a == n.ack  s == n.stale  c == n.mcast
  <2>1. n = [state |-> "idle", radio |-> "idle", irq |-> "none", win |-> w,
             joined |-> restored, joining |-> FALSE, confirmed |-> FALSE, count |-> 0,
             ack |-> a, retry |-> FALSE, done |-> FALSE, flush |-> FALSE,
             refused |-> FALSE, stale |-> s, mcast |-> c]
    BY <1>1
  <2>2. /\ w \in [1 .. 2 -> Deadline] /\ a \in Deadline
        /\ s \in BOOLEAN /\ c \in Mcast
    BY <1>2, <1>3, <1>4
  <2>. HIDE DEF w, a, s, c
  <2>. QED  BY <2>1, <2>2 DEF Mac
<1>. QED  BY <1>4, <1>5, <1>6

\* A stop keeps no window, or all if the MAC is busy.
LEMMA StoppedReturns ==
    ASSUME NEW m \in Mac
    PROVE  /\ Stopped(m) \in Mac /\ SameSession(m, Stopped(m))
           /\ \A k \in Windows : Stopped(m).win[k] \in {None, m.win[k]}
<1>1. CASE m.state = "busy"
  BY <1>1 DEF Stopped, SameSession
<1>2. CASE m.state # "busy"
  <2>1. Stopped(m) = [m EXCEPT !.state = "stopped", !.win = NoWindows,
                               !.joined = FALSE, !.radio = "idle"]
    BY <1>2 DEF Stopped
  <2>2. NoWindows \in [1 .. 2 -> Deadline] /\ \A k \in Windows : NoWindows[k] = None
    BY DEF NoWindows, Deadline, Windows
  <2>3. Stopped(m).win = NoWindows /\ Stopped(m).mcast = m.mcast
    BY <2>1 DEF Mac
  <2>4. Stopped(m) \in Mac
    BY <2>1, <2>2 DEF Mac
  <2>. QED  BY <2>2, <2>3, <2>4 DEF SameSession
<1>. QED  BY <1>1, <1>2

----------------------------------------------------------------------------
(* The invariant holds initially and every step keeps it.                  *)

\* No command, no packet and a stack that does not run.
LEMMA InitIInv == Init => IInv
<1>. SUFFICES ASSUME Init PROVE IInv
  OBVIOUS
<1>1. TypeOK
  <2>1. mac \in Mac
    BY Assumptions DEF Init, Mac, Mcast, Deadline, NoWindows, Assumptions, BoundsAssumption
  <2>2. cmds \in Seq(Commands) /\ Len(cmds) <= QueueLen
    BY Assumptions DEF Init, Assumptions, BoundsAssumption
  <2>3. txs \in 0 .. QueueLen /\ sends \in 0 .. MaxSends
    BY Assumptions DEF Init, Assumptions, BoundsAssumption
  <2>. QED
    BY <2>1, <2>2, <2>3 DEF Init, TypeOK, Deadline
<1>2. CommandsCovered
  BY FS_EmptySet DEF Init, CommandsCovered
<1>3. WindowsSoon
  BY DEF Init, WindowsSoon, NoWindows, Windows
<1>. QED
  BY <1>1, <1>2, <1>3
     DEF Init, IInv, TimerAsleep, PortStays, PortOnForTask, PortOutlasts, Sessions,
     SessionTimed,
     RequestNoticed, PacketsTried

\* The notifications on their way, as a number.
LEMMA GivingCounts ==
    ASSUME TypeOK
    PROVE  /\ IsFiniteSet(giving) /\ Cardinality(giving) \in Nat
           /\ \A s \in Senders \ giving :
                 Cardinality(giving \cup {s}) = Cardinality(giving) + 1
           /\ \A s \in giving :
                 Cardinality(giving \ {s}) = Cardinality(giving) - 1
<1>1. IsFiniteSet(giving)
  BY Assumptions, FS_Subset DEF TypeOK, Assumptions, BoundsAssumption
<1>. QED
  BY <1>1, FS_CardinalityType, FS_AddElement, FS_RemoveElement

\* A sender that queues a command owes its notification.
LEMMA SendCommandKeeps ==
    ASSUME IInv, NEW s \in Senders, NEW c \in Commands, SendCommand(s, c)
    PROVE  IInv'
<1>. USE DEF SendCommand, CanSend, queues, power
<1>1. TypeOK'
  BY Assumptions DEF IInv, TypeOK, Assumptions, BoundsAssumption
<1>2. CommandsCovered'
  <2>1. Len(cmds') <= Len(cmds) + 1
    BY DEF IInv, TypeOK
  <2>2. Cardinality(giving') = Cardinality(giving) + 1
    BY GivingCounts DEF IInv
  <2>. QED
    BY <2>1, <2>2, GivingCounts DEF IInv, TypeOK, CommandsCovered
<1>. QED
  BY <1>1, <1>2 DEF IInv, WindowsSoon, TimerAsleep, PortStays, PortOnForTask,
     PortOutlasts, Sessions, SessionTimed,
     RequestNoticed, PacketsTried

\* A sender that queues a packet owes its notification too.
LEMMA TransmitKeeps ==
    ASSUME IInv, NEW s \in Senders, Transmit(s)
    PROVE  IInv'
<1>. USE DEF Transmit, CanSend, queues, power
<1>1. TypeOK'
  BY Assumptions DEF IInv, TypeOK, Assumptions, BoundsAssumption
<1>2. CommandsCovered'
  <2>1. Cardinality(giving') = Cardinality(giving) + 1
    BY GivingCounts DEF IInv
  <2>. QED
    BY <2>1, GivingCounts DEF IInv, TypeOK, CommandsCovered
<1>. QED
  BY <1>1, <1>2 DEF IInv, WindowsSoon, TimerAsleep, PortStays, PortOnForTask,
     PortOutlasts, Sessions, SessionTimed,
     RequestNoticed, PacketsTried

\* The notification that is given was owed.
LEMMA GiveKeeps ==
    ASSUME IInv, NEW s \in Senders, Give(s)
    PROVE  IInv'
<1>. USE DEF Give, queues, power
<1>1. TypeOK'
  BY DEF IInv, TypeOK
<1>2. CommandsCovered'
  <2>1. Cardinality(giving') = Cardinality(giving) - 1
    BY GivingCounts DEF IInv
  <2>. QED
    BY <2>1, GivingCounts DEF IInv, TypeOK, CommandsCovered
<1>3. Sessions'
  BY DEF IInv, TypeOK, Sessions, SessionTimed,
     RequestNoticed, PacketsTried
<1>. QED
  BY <1>1, <1>2, <1>3 DEF IInv, WindowsSoon, TimerAsleep, PortStays, PortOnForTask,
     PortOutlasts

\* Power management is registered with the port on and no timer running.
LEMMA RegisterKeeps ==
    ASSUME IInv, RegisterPowerManagement
    PROVE  IInv'
BY DEF RegisterPowerManagement, queues, IInv, TypeOK, CommandsCovered, WindowsSoon,
   TimerAsleep, PortStays, PortOnForTask, PortOutlasts, Sessions, SessionTimed,
     RequestNoticed, PacketsTried

\* A command leaves the queue shorter or finds it empty; a stack that starts
\* has the port on and no timer for it.
LEMMA HandleCommandKeeps ==
    ASSUME IInv, HandleCommand
    PROVE  IInv'
<1>. USE DEF IInv
<1>1. /\ pc = "command" /\ pc' = IF started' THEN "process" ELSE "sleep"
      /\ UNCHANGED <<notes, giving, sends, pm>>
  BY DEF HandleCommand, At
<1>2. /\ cmds' \in Seq(Commands) /\ Len(cmds') <= QueueLen
      /\ (cmds = <<>> => cmds' = cmds)
      /\ (cmds # <<>> => Len(cmds') = Len(cmds) - 1)
  <2>1. CASE cmds = <<>>
    BY <2>1 DEF HandleCommand, TypeOK
  <2>2. CASE cmds # <<>>
    <3>1. cmds' = Tail(cmds) /\ cmds \in Seq(Commands) /\ Len(cmds) <= QueueLen
      BY <2>2 DEF HandleCommand, TypeOK
    <3>2. Len(cmds') = Len(cmds) - 1 /\ cmds' \in Seq(Commands)
      BY <2>2, <3>1
    <3>3. QueueLen \in Nat /\ Len(cmds) \in Nat
      BY <3>1, Assumptions DEF Assumptions, BoundsAssumption
    <3>4. Len(cmds') <= QueueLen
      BY <3>1, <3>2, <3>3
    <3>. QED
      BY <2>2, <3>2, <3>4
  <2>. QED
    BY <2>1, <2>2
<1>3. CommandsCovered'
  <2>1. cmds = <<>> => Len(cmds') = 0
    BY <1>2
  <2>. QED
    BY <1>1, <1>2, <2>1, GivingCounts DEF TypeOK, CommandsCovered
<1>4. CASE UNCHANGED <<txs, started, powered, port, portTimer, mac>>
  <2>1. TypeOK'
    BY <1>1, <1>2, <1>4 DEF TypeOK
  <2>. QED
    BY <1>1, <1>3, <1>4, <2>1 DEF WindowsSoon, TimerAsleep, PortStays, PortOnForTask,
       PortOutlasts, Sessions, SessionTimed,
     RequestNoticed, PacketsTried
<1>5. CASE StackStart
  <2>1. /\ started' = TRUE /\ port' = "on" /\ powered' = TRUE /\ txs' = txs
        /\ portTimer' = None
    BY <1>5 DEF StackStart, TimerAsleep
  <2>2. /\ mac' \in Mac /\ ~mac'.mcast.started
        /\ \A k \in Windows : mac'.win[k] \in {None, mac.win[k]}
    BY <1>5, StartedReturns DEF StackStart, TypeOK
  <2>3. TypeOK'
    BY <1>1, <1>2, <2>1, <2>2 DEF TypeOK, Deadline
  <2>4. WindowsSoon'
    BY <2>2 DEF WindowsSoon
  <2>5. TimerAsleep' /\ PortStays' /\ PortOnForTask' /\ PortOutlasts'
    BY <1>1, <2>1 DEF TimerAsleep, PortStays, PortOnForTask, PortOutlasts
  <2>6. Sessions'
    BY <1>1, <2>1, <2>2 DEF Sessions, SessionTimed, RequestNoticed, PacketsTried
  <2>. QED
    BY <1>3, <2>3, <2>4, <2>5, <2>6
<1>6. CASE StackStop
  <2>1. /\ started' = FALSE /\ port' = "none" /\ powered' = FALSE /\ txs' = 0
        /\ portTimer' \in {PortTimeout, portTimer} /\ (~pm => portTimer' = portTimer)
    BY <1>6 DEF StackStop
  <2>2. /\ mac' \in Mac /\ SameSession(mac, mac')
        /\ \A k \in Windows : mac'.win[k] \in {None, mac.win[k]}
    BY <1>6, StoppedReturns DEF StackStop, TypeOK
  <2>5. txs' \in 0 .. QueueLen /\ portTimer' \in Deadline
    BY <2>1, Assumptions DEF TypeOK, Deadline, Assumptions, BoundsAssumption
  <2>3. TypeOK'
    BY <1>1, <1>2, <2>1, <2>2, <2>5 DEF TypeOK
  <2>4. WindowsSoon'
    BY <2>2 DEF WindowsSoon
  <2>6. TimerAsleep' /\ PortStays' /\ PortOnForTask' /\ PortOutlasts'
    BY <1>1, <2>1 DEF TimerAsleep, PortStays, PortOnForTask, PortOutlasts
  <2>7. Sessions'
    BY <1>1, <2>1, <2>2 DEF Sessions, SessionTimed, RequestNoticed, PacketsTried,
       SameSession
  <2>. QED
    BY <1>3, <2>3, <2>4, <2>6, <2>7
<1>7. CASE Join
  <2>1. UNCHANGED <<txs, started, powered, port, portTimer>> /\ started
    BY <1>7 DEF Join
  <2>2. mac' \in Mac /\ mac'.win = mac.win /\ SameSession(mac, mac')
    BY <1>7, JoinRequestReturns DEF Join, TypeOK, Same
  <2>3. TypeOK'
    BY <1>1, <1>2, <2>1, <2>2 DEF TypeOK
  <2>4. Sessions'
    BY <1>1, <2>1, <2>2 DEF Sessions, SessionTimed, RequestNoticed, PacketsTried,
       SameSession
  <2>. QED
    BY <1>1, <1>3, <2>1, <2>2, <2>3, <2>4 DEF WindowsSoon, TimerAsleep, PortStays,
       PortOnForTask, PortOutlasts
<1>. QED
  BY <1>4, <1>5, <1>6, <1>7 DEF HandleCommand

\* What the radio's events do to the windows keeps them before the port's
\* expiry, with the port on.
LEMMA LmHandlerProcessKeeps ==
    ASSUME IInv, LmHandlerProcess
    PROVE  IInv'
<1>. USE DEF IInv
<1>1. /\ pc = "process" /\ pc' = "uplink"
      /\ UNCHANGED <<cmds, txs, giving, sends, started, powered, port, portTimer, pm>>
  BY DEF LmHandlerProcess, At, queues, power
<1>2. /\ mac' \in Mac /\ KeepsWindows(mac, mac')
      /\ notes' \in Nat /\ notes' >= notes
      /\ mac'.mcast.flag = "idle"
      /\ mac'.mcast.started => mac'.mcast.stops
  <2>1. PICK m \in MacProcess(mac) :
          /\ mac' \in FlushServer(McastProcess(m))
          /\ \E again \in 0 .. 1 :
               notes' = notes + (IF mac.irq # "none" THEN 1 ELSE 0) + again
                              + (IF m.flush /\ IsBusy(m) THEN 1 ELSE 0)
    <3>1. (IF mac.irq = "frame" /\ mac.confirmed THEN 0 .. 1 ELSE {0}) \subseteq 0 .. 1
      OBVIOUS
    <3>. QED  BY <3>1 DEF LmHandlerProcess
  <2>2. Keeps(mac, m) /\ m \in Mac
    BY <2>1, MacProcessReturns DEF TypeOK, Keeps
  <2>. DEFINE p == McastProcess(m)
  <2>3. p \in Mac /\ p.win = m.win /\ p.mcast.flag = "idle"
    BY <2>2, McastProcessReturns
  <2>4. p.mcast.started =>
          p.mcast.stops \/ (m.mcast.flag = "idle" /\ m.mcast.started /\ p.mcast.stops = m.mcast.stops)
    BY <2>2, McastProcessReturns
  <2>5. p.mcast.started => p.mcast.stops
    BY <2>2, <2>4 DEF Keeps, SameSession, Sessions, SessionTimed
  <2>. HIDE DEF p
  <2>6. Same(p, mac')
    BY <2>1, <2>3, FlushServerReturns DEF p
  <2>7. notes' \in Nat /\ notes' >= notes
    BY <2>1 DEF TypeOK
  <2>. QED
    BY <2>2, <2>3, <2>5, <2>6, <2>7 DEF Keeps, KeepsWindows, Same, SameSession
<1>3. TypeOK'
  BY <1>1, <1>2 DEF TypeOK
<1>4. CommandsCovered'
  BY <1>1, <1>2, GivingCounts DEF TypeOK, CommandsCovered
<1>5. WindowsSoon'
  BY <1>2 DEF WindowsSoon, KeepsWindows
<1>6. TimerAsleep' /\ PortStays' /\ PortOnForTask'
  BY <1>1 DEF TimerAsleep, PortStays, PortOnForTask
<1>7. PortOutlasts'
  <2>1. started => portTimer' = None /\ port' = "on"
    BY <1>1 DEF TimerAsleep, PortOnForTask
  <2>. QED
    BY <1>1, <2>1 DEF PortOutlasts
<1>8. Sessions'
  BY <1>1, <1>2 DEF Sessions, SessionTimed, RequestNoticed, PacketsTried
<1>. QED
  BY <1>3, <1>4, <1>5, <1>6, <1>7, <1>8

\* The task goes to sleep with its packets sent, on their way or refused.
LEMMA HandleUplinkKeeps ==
    ASSUME IInv, HandleUplink
    PROVE  IInv'
<1>. USE DEF IInv
<1>1. /\ pc = "uplink" /\ pc' = "sleep"
      /\ UNCHANGED <<cmds, notes, giving, sends, started, powered, port, portTimer, pm>>
  BY DEF HandleUplink, At, power
<1>2. /\ mac' \in Mac /\ mac'.win = mac.win /\ SameSession(mac, mac')
      /\ txs' \in 0 .. QueueLen
      /\ txs' = 0 \/ IsBusy(mac') \/ mac'.refused \/ mac'.mcast.started
  <2>. USE DEF TypeOK
  <2>1. CASE mac.mcast.started \/ txs = 0
    BY <2>1 DEF HandleUplink, SameSession
  <2>2. CASE ~mac.mcast.started /\ txs > 0 /\ (IsBusy(mac) \/ ~mac.joined)
    <3>1. mac' \in JoinRequest(mac) /\ txs' = txs
      BY <2>2 DEF HandleUplink
    <3>. QED
      BY <3>1, JoinRequestReturns DEF Same
  <2>3. CASE ~mac.mcast.started /\ txs > 0 /\ ~(IsBusy(mac) \/ ~mac.joined)
    <3>1. PICK confirmed \in BOOLEAN : txs' = txs - 1 /\ mac' \in Send(mac, confirmed)
      BY <2>3 DEF HandleUplink
    <3>2. txs' \in 0 .. QueueLen
      BY <2>3, <3>1, Assumptions DEF Assumptions, BoundsAssumption
    <3>. QED
      BY <3>1, <3>2, SendReturns DEF Same
  <2>. QED
    BY <2>1, <2>2, <2>3
<1>3. TypeOK'
  BY <1>1, <1>2 DEF TypeOK
<1>4. CommandsCovered'
  BY <1>1, GivingCounts DEF TypeOK, CommandsCovered
<1>5. Sessions'
  BY <1>1, <1>2 DEF Sessions, SessionTimed, RequestNoticed, PacketsTried, SameSession
<1>. QED
  BY <1>1, <1>2, <1>3, <1>4, <1>5 DEF WindowsSoon, TimerAsleep, PortStays,
     PortOnForTask, PortOutlasts

\* The port's timer is armed for longer than any window has to come.
LEMMA PowerSleepKeeps ==
    ASSUME IInv, PowerSleep
    PROVE  IInv'
<1>. USE DEF IInv
<1>1. /\ pc = "sleep" /\ pc' = "wait"
      /\ UNCHANGED <<cmds, txs, notes, giving, sends, started, powered, port, pm, mac>>
      /\ portTimer' \in {portTimer, PortTimeout} /\ (~pm => portTimer' = portTimer)
  BY DEF PowerSleep, At, queues
<1>2. TypeOK'
  BY <1>1, Assumptions DEF TypeOK, Deadline, Assumptions, BoundsAssumption
<1>3. CommandsCovered'
  BY <1>1, GivingCounts DEF TypeOK, CommandsCovered
<1>4. PortOutlasts'
  <2>1. started => portTimer = None
    BY <1>1 DEF TimerAsleep
  <2>. QED
    BY <1>1, <2>1 DEF PortOutlasts, WindowsSoon
<1>. QED
  BY <1>1, <1>2, <1>3, <1>4 DEF WindowsSoon, TimerAsleep, PortStays, PortOnForTask,
     Sessions, SessionTimed,
     RequestNoticed, PacketsTried

\* The task takes one notification for the command it will handle.
LEMMA TakeKeeps ==
    ASSUME IInv, Take
    PROVE  IInv'
<1>. USE DEF IInv
<1>1. /\ pc = "wait" /\ pc' = "wake" /\ notes > 0 /\ notes' = notes - 1
      /\ UNCHANGED <<cmds, txs, giving, sends, started, powered, port, portTimer,
                     pm, mac>>
  BY DEF Take, At, Decremented, queues, power
<1>2. TypeOK'
  BY <1>1 DEF TypeOK
<1>3. CommandsCovered'
  BY <1>1, GivingCounts DEF TypeOK, CommandsCovered
<1>. QED
  BY <1>1, <1>2, <1>3 DEF WindowsSoon, TimerAsleep, PortStays, PortOnForTask,
     PortOutlasts, Sessions, SessionTimed,
     RequestNoticed, PacketsTried

\* The port is on again before the task does anything.
LEMMA PowerWakeKeeps ==
    ASSUME IInv, PowerWake
    PROVE  IInv'
<1>. USE DEF IInv
<1>1. /\ pc = "wake" /\ pc' = "command"
      /\ UNCHANGED <<cmds, txs, notes, giving, sends, started, pm, mac>>
  BY DEF PowerWake, At, queues
<1>2. /\ portTimer' = None
      /\ port' \in {"none", "on", "asleep"} /\ powered' \in BOOLEAN
      /\ started => port' = "on" /\ powered' = TRUE
  <2>1. CASE pm
    BY <2>1 DEF PowerWake, Wake, PortStays, PortOnForTask, TypeOK
  <2>2. CASE ~pm
    BY <2>2 DEF PowerWake, TimerAsleep, PortStays, PortOnForTask, TypeOK
  <2>. QED
    BY <2>1, <2>2
<1>3. TypeOK'
  BY <1>1, <1>2 DEF TypeOK, Deadline
<1>4. CommandsCovered'
  BY <1>1, GivingCounts DEF TypeOK, CommandsCovered
<1>. QED
  BY <1>1, <1>2, <1>3, <1>4 DEF WindowsSoon, TimerAsleep, PortStays, PortOnForTask,
     PortOutlasts, Sessions, SessionTimed,
     RequestNoticed, PacketsTried

\* A radio event leaves the windows alone and notifies the task.
LEMMA RadioEventKeeps ==
    ASSUME IInv, RadioEvent
    PROVE  IInv'
<1>. USE DEF IInv
<1>1. /\ UNCHANGED <<cmds, txs, giving, sends, pc, started, powered, port, portTimer, pm>>
      /\ notes' = notes + 1
  BY DEF RadioEvent, queues, power
<1>2. mac' \in Mac /\ mac'.win = mac.win /\ mac'.mcast = mac.mcast
  BY DEF RadioEvent, TypeOK, Mac
<1>3. TypeOK'
  BY <1>1, <1>2 DEF TypeOK
<1>4. CommandsCovered'
  BY <1>1, GivingCounts DEF TypeOK, CommandsCovered
<1>5. Sessions'
  BY <1>1, <1>2 DEF Sessions, SessionTimed,
     RequestNoticed, PacketsTried, TypeOK
<1>. QED
  BY <1>1, <1>2, <1>3, <1>4, <1>5 DEF WindowsSoon, TimerAsleep, PortStays,
     PortOnForTask, PortOutlasts

\* A window that opens is no longer to come.
LEMMA RxWindowKeeps ==
    ASSUME IInv, NEW k \in Windows, RxWindow(k)
    PROVE  IInv'
<1>. USE DEF IInv
<1>1. /\ UNCHANGED <<cmds, txs, giving, sends, pc, started, powered, port, portTimer, pm>>
      /\ notes' = notes + 1
  BY DEF RxWindow, queues, power
<1>2. /\ mac' \in Mac /\ mac'.mcast = mac.mcast
      /\ \A j \in Windows : mac'.win[j] \in {None, mac.win[j]}
  BY DEF RxWindow, Opened, TypeOK, Mac, Windows, Deadline
<1>3. TypeOK'
  BY <1>1, <1>2 DEF TypeOK
<1>4. CommandsCovered'
  BY <1>1, GivingCounts DEF TypeOK, CommandsCovered
<1>5. Sessions'
  BY <1>1, <1>2 DEF Sessions, SessionTimed,
     RequestNoticed, PacketsTried, TypeOK
<1>6. WindowsSoon' /\ PortOutlasts'
  BY <1>1, <1>2 DEF WindowsSoon, PortOutlasts
<1>. QED
  BY <1>1, <1>3, <1>4, <1>5, <1>6 DEF TimerAsleep, PortStays, PortOnForTask

\* The MAC's other timers leave the windows alone and notify the task.
LEMMA InterruptKeeps ==
    ASSUME IInv, NEW m \in Mac, m.win = mac.win, Interrupt(m),
           m.mcast.started => m.mcast.stops \/ m.mcast.flag # "idle"
    PROVE  IInv'
<1>. USE DEF IInv
<1>1. /\ UNCHANGED <<cmds, txs, giving, sends, pc, started, powered, port, portTimer, pm>>
      /\ notes' = notes + 1 /\ mac' = m
  BY DEF Interrupt, queues, power
<1>2. TypeOK'
  BY <1>1 DEF TypeOK
<1>3. CommandsCovered'
  BY <1>1, GivingCounts DEF TypeOK, CommandsCovered
<1>4. Sessions'
  BY <1>1 DEF Sessions, SessionTimed, RequestNoticed, PacketsTried, TypeOK
<1>. QED
  BY <1>1, <1>2, <1>3, <1>4 DEF WindowsSoon, TimerAsleep, PortStays,
     PortOnForTask, PortOutlasts

\* The wait for an acknowledgement ends.
LEMMA RetransmitTimerKeeps ==
    ASSUME IInv, RetransmitTimer
    PROVE  IInv'
<1>1. mac \in Mac
  BY DEF IInv, TypeOK
<1>2. mac.retry \/ mac.confirmed \in BOOLEAN
  BY <1>1 DEF Mac
<1>3. Same(mac, RetransmitTimeout(mac))
  BY <1>1, <1>2, TimeoutReturns DEF RetransmitTimeout
<1>. QED
  BY <1>3, InterruptKeeps DEF RetransmitTimer, IInv, Sessions, SessionTimed, Same, SameSession

\* A session's timer leaves its request.
LEMMA SessionTimerKeeps ==
    ASSUME IInv, SessionStartTimer \/ SessionStopTimer
    PROVE  IInv'
<1>1. mac \in Mac /\ mac.mcast \in Mcast
  BY DEF IInv, TypeOK, Mac
<1>2. CASE SessionStartTimer
  <2>. DEFINE c == [mac.mcast EXCEPT !.starts = FALSE, !.flag = "start"]
  <2>1. SessionStart(mac) = [mac EXCEPT !.mcast = c]
    BY <1>1 DEF SessionStart, Mac
  <2>2. c \in Mcast /\ c.flag # "idle"
    BY <1>1 DEF Mcast
  <2>. HIDE DEF c
  <2>3. SessionStart(mac) \in Mac /\ SessionStart(mac).win = mac.win
        /\ SessionStart(mac).mcast.flag # "idle"
    BY <1>1, <2>1, <2>2 DEF Mac
  <2>. QED  BY <1>2, <2>3, InterruptKeeps DEF SessionStartTimer
<1>3. CASE SessionStopTimer
  <2>. DEFINE c == [mac.mcast EXCEPT !.stops = FALSE, !.flag = "stop"]
  <2>1. SessionStop(mac) = [mac EXCEPT !.mcast = c]
    BY <1>1 DEF SessionStop, Mac
  <2>2. c \in Mcast /\ c.flag # "idle"
    BY <1>1 DEF Mcast
  <2>. HIDE DEF c
  <2>3. SessionStop(mac) \in Mac /\ SessionStop(mac).win = mac.win
        /\ SessionStop(mac).mcast.flag # "idle"
    BY <1>1, <2>1, <2>2 DEF Mac
  <2>. QED  BY <1>3, <2>3, InterruptKeeps DEF SessionStopTimer
<1>. QED  BY <1>2, <1>3

\* When the port's timer has expired, no window is to come.
LEMMA PortCallbackKeeps ==
    ASSUME IInv, PortCallback
    PROVE  IInv'
<1>. USE DEF IInv
<1>1. /\ UNCHANGED <<cmds, txs, notes, giving, sends, pc, started, pm, mac>>
      /\ portTimer = 0 /\ portTimer' = None /\ powered' = FALSE
      /\ port' = IF powered /\ port = "on" THEN "asleep" ELSE port
  BY DEF PortCallback, queues
<1>2. TypeOK'
  BY <1>1 DEF TypeOK, Deadline
<1>3. CommandsCovered'
  BY <1>1, GivingCounts DEF TypeOK, CommandsCovered
<1>4. portTimer # None
  BY <1>1, Assumptions DEF Assumptions, NoneAssumption
<1>5. started => pm /\ pc \in {"wait", "wake"}
  BY <1>4 DEF TimerAsleep
<1>6. started => \A k \in Windows : mac.win[k] = None
  <2>1. \A k \in Windows : mac.win[k] \in Nat \cup {None}
    BY DEF TypeOK, Mac, Deadline, Windows
  <2>. QED
    BY <1>1, <1>4, <2>1 DEF PortOutlasts
<1>. QED
  BY <1>1, <1>2, <1>3, <1>5, <1>6 DEF WindowsSoon, TimerAsleep, PortStays,
     PortOnForTask, PortOutlasts, Sessions, SessionTimed,
     RequestNoticed, PacketsTried

\* Time brings the windows and the expiry of the port nearer alike.
LEMMA TickKeeps ==
    ASSUME IInv, Tick
    PROVE  IInv'
<1>. USE DEF IInv
<1>1. /\ UNCHANGED <<cmds, txs, notes, giving, sends, pc, started, powered, port, pm>>
      /\ portTimer' = IF portTimer = None \/ portTimer = 0 THEN portTimer
                      ELSE portTimer - 1
      /\ mac' = [mac EXCEPT !.win = [k \in 1 .. 2 |-> Earlier(mac.win[k])],
                            !.ack = Earlier(mac.ack)]
      /\ mac.ack # 0 /\ mac \in Mac
  BY DEF Tick, Earlier, queues, TypeOK, Mac
<1>2. \A k \in Windows : mac.win[k] \in Deadline /\ mac.win[k] # 0
  BY DEF TypeOK, Mac, Windows, Tick
<1>3. \A k \in Windows : mac'.win[k] = IF mac.win[k] = None THEN None
                                      ELSE mac.win[k] - 1
  <2>1. \A k \in Windows : mac'.win[k] = Earlier(mac.win[k])
    BY <1>1 DEF Windows, TypeOK, Mac
  <2>. QED
    BY <1>2, <2>1 DEF Earlier
<1>4. portTimer' \in Deadline /\ (portTimer' # None => portTimer # None)
  BY <1>1 DEF TypeOK, Deadline
<1>5. /\ mac' \in Mac /\ IsBusy(mac') = IsBusy(mac) /\ mac'.refused = mac.refused
      /\ mac'.mcast = mac.mcast
  <2>1. \A k \in 1 .. 2 : Earlier(mac.win[k]) \in Deadline
    BY <1>2 DEF Earlier, Deadline, Windows
  <2>2. [k \in 1 .. 2 |-> Earlier(mac.win[k])] \in [1 .. 2 -> Deadline]
    BY <2>1
  <2>3. Earlier(mac.ack) \in Deadline
    BY <1>1 DEF Earlier, Deadline, Mac
  <2>. QED
    BY <1>1, <2>2, <2>3 DEF Mac, IsBusy
<1>6. TypeOK'
  BY <1>1, <1>4, <1>5 DEF TypeOK
<1>7. CommandsCovered'
  BY <1>1, GivingCounts DEF TypeOK, CommandsCovered
<1>8. WindowsSoon'
  BY <1>2, <1>3, Assumptions DEF WindowsSoon, Deadline, Assumptions, BoundsAssumption
<1>9. TimerAsleep'
  BY <1>1, <1>4 DEF TimerAsleep
<1>10. PortOutlasts'
  <2>. SUFFICES ASSUME started, NEW k \in Windows, mac'.win[k] # None
                PROVE  port = "on" /\ (portTimer' # None => mac'.win[k] < portTimer')
    BY <1>1 DEF PortOutlasts
  <2>1. /\ mac.win[k] # None /\ mac.win[k] \in Nat \ {0}
        /\ mac'.win[k] = mac.win[k] - 1
    BY <1>2, <1>3 DEF Deadline
  <2>2. port = "on" /\ (portTimer # None => mac.win[k] < portTimer)
    BY <2>1 DEF PortOutlasts
  <2>3. portTimer # None => portTimer \in Nat
    BY DEF TypeOK, Deadline
  <2>. QED
    BY <1>1, <1>4, <2>1, <2>2, <2>3
<1>. QED
  BY <1>1, <1>5, <1>6, <1>7, <1>8, <1>9, <1>10 DEF PortStays, PortOnForTask, Sessions, SessionTimed,
     RequestNoticed, PacketsTried

\* Every step keeps the invariant.
LEMMA NextKeeps == IInv /\ [Next]_vars => IInv'
<1>. SUFFICES ASSUME IInv, [Next]_vars PROVE IInv'
  OBVIOUS
<1>1. CASE Next
  BY <1>1, SendCommandKeeps, TransmitKeeps, GiveKeeps, RegisterKeeps,
     HandleCommandKeeps, LmHandlerProcessKeeps, HandleUplinkKeeps, PowerSleepKeeps,
     TakeKeeps, PowerWakeKeeps, RadioEventKeeps, RxWindowKeeps, RetransmitTimerKeeps,
     SessionTimerKeeps, PortCallbackKeeps, TickKeeps DEF Next, Windows
<1>2. CASE UNCHANGED vars
  BY <1>2 DEF vars, queues, power, IInv, TypeOK, CommandsCovered, WindowsSoon,
     TimerAsleep, PortStays, PortOnForTask, PortOutlasts, Sessions, SessionTimed,
     RequestNoticed, PacketsTried
<1>. QED
  BY <1>1, <1>2

\* The LoRaWAN task keeps the inductive invariant.
THEOREM Inductive == Spec => []IInv
<1>. QED  BY InitIInv, NextKeeps, PTL DEF Spec

----------------------------------------------------------------------------
(* The properties.                                                         *)

\* The queues of the LoRaWAN task stay within their length, and every
\* variable within its type.
THEOREM TypeCorrect == Spec => []TypeOK
<1>1. IInv => TypeOK
  BY DEF IInv
<1>. QED  BY <1>1, Inductive, PTL

\* Every command in the queue has a notification on its way
\* (lorawan_send_command gives it after xQueueSend, as a step of its own).
THEOREM CommandsAreCovered == Spec => []CommandsCovered
<1>1. IInv => CommandsCovered
  BY DEF IInv
<1>. QED  BY <1>1, Inductive, PTL

\* The SPI port is on whenever the task may use the radio
\* (lorawan_port_callback takes it down while the task sleeps).
THEOREM PortIsOnForTask == Spec => []PortOnForTask
<1>1. IInv => PortOnForTask
  BY DEF IInv
<1>. QED  BY <1>1, Inductive, PTL

\* The SPI port is on when the interrupt of a receive window's timer opens
\* the window, because the port's timeout is longer than both windows' delays.
THEOREM PortIsOnForWindow == Spec => []PortOnForWindow
<1>1. IInv => PortOnForWindow
  BY Assumptions DEF IInv, PortOnForWindow, PortOutlasts, Windows, Assumptions,
     NoneAssumption
<1>. QED  BY <1>1, Inductive, PTL

\* A packet that the task sleeps on waits for the MAC, for the region or for the
\* end of a multicast session (lorawan_task_handle_uplink), whose timer runs.
THEOREM UplinkIsTriedAgain == Spec => []UplinkTriedAgain
<1>1. IInv => UplinkTriedAgain
  BY DEF IInv, TypeOK, UplinkTriedAgain, Sessions, SessionTimed,
     RequestNoticed, PacketsTried
<1>. QED  BY <1>1, Inductive, PTL
=============================================================================
