------------------------------ MODULE LmHandler ------------------------------
(***************************************************************************)
(* The application's use of the MAC: LmHandler.c with its packages for     *)
(* clock synchronisation and multicast sessions, the callbacks of          *)
(* lmh_callbacks.c, and the MAC underneath as far as they see it: requests *)
(* and the queue of their confirmations, the device class and the beacon.  *)
(*                                                                         *)
(* Everything but the timers of a session runs in the LoRaWAN task.  A     *)
(* handler is an operator that maps the device to the devices it may       *)
(* become: the region's regulations refuse a transmission now and then.    *)
(***************************************************************************)
EXTENDS Integers, Sequences, FiniteSets

CONSTANTS QueueLen,     \* LORA_MAC_MLME_CONFIRM_QUEUE_LEN (5 in the code)
          Tokens,       \* number of values of TokenReq (16 in the code)
          MaxResync,    \* largest NbTransmissions of a resync command (7)
          Scenarios     \* the kinds of behaviour a run covers: records of the
                        \* application's commands and how many, of what the
                        \* server sends, and of whether it answers time requests

Classes == {"A", "B", "C"}
Requests == {"join", "time", "acquisition", "slot"}
Commands == {"join", "syncApp", "syncMac"} \cup Classes
NbTrans == 1 .. 2
Errors == -1 .. 1

ASSUME LmHandlerAssumption ==
    /\ QueueLen \in Nat \ {0}
    /\ Tokens \in Nat \ {0, 1}
    /\ MaxResync \in Nat
    /\ \A s \in Scenarios : /\ s.commands \subseteq Commands /\ s.count \in Nat
                           /\ s.trans \subseteq NbTrans

\* An element of the queue.  own: RestrictCommonReadyToHandle.
Elements == [req : Requests, ok : BOOLEAN, ready : BOOLEAN, own : BOOLEAN]

Device ==
    [tx : {"none", "join", "frame"},  \* what holds LORAMAC_TX_RUNNING
     joined : BOOLEAN,                \* NetworkActivation
     class : Classes,                 \* DeviceClass
     locked : BOOLEAN,                \* BeaconMode
     seeking : BOOLEAN,               \* AcquisitionPending
     slot : BOOLEAN,                  \* PingSlotCtx.Ctrl.Assigned
     queue : Seq(Elements),           \* MlmeConfirmQueue
     mlme : BOOLEAN,                  \* MacFlags.Bits.MlmeReq
     cmds : SUBSET {"time", "slot"},  \* MAC commands of the next uplink
     sent : SUBSET {"time", "slot"},  \* MAC commands of the frame under way
     adr : BOOLEAN,                   \* AdrCtrlOn
     trans : NbTrans,                 \* ChannelsNbTrans
     server : NbTrans,                \* the NbTrans the server set last
     classB : BOOLEAN,                \* IsClassBSwitchPending
     refused : BOOLEAN,               \* the switch's last request was refused
     halted : BOOLEAN,                \* a join ended a search for a beacon
     told : Classes,                  \* the class OnClassChange was last given
     flush : BOOLEAN,                 \* IsUplinkTxPending
     pending : BOOLEAN,               \* AppTimeReqPending
     prevAdr : BOOLEAN,               \* AdrEnabledPrev
     prevTrans : NbTrans,             \* NbTransPrev
     resync : 0 .. MaxResync,         \* NbTransmissions
     token : 0 .. Tokens - 1,         \* TokenReq
     error : Errors,                  \* seconds the clock is ahead of the time
     late : BOOLEAN,                  \* DeviceTimeAns came before an AppTimeAns
     asked : SUBSET [token : 0 .. Tokens - 1, error : Errors]]
                                      \* requests the server has received

VARIABLES dev,         \* the device
          pc,          \* where the task is in its loop
          flag,        \* LmhpRemoteMcastSetupState.SessionState
          taken,       \* the copy of flag that Process works on
          session,     \* McSessionData[0].SessionState is SESSION_STARTED
          startTimer,  \* SessionStartTimer runs
          stopTimer,   \* SessionStopTimer runs
          scenario,    \* the one of this behaviour
          left         \* commands the application still sends

mcast == <<flag, taken, session, startTimer, stopTimer>>
vars == <<dev, pc, mcast, scenario, left>>

Busy(s) == s.tx # "none"

----------------------------------------------------------------------------
(* The MAC's queue of confirmations (LoRaMacConfirmQueue.c).               *)

Queued(q, s) == \E i \in DOMAIN s.queue : s.queue[i].req = q

First(q, s) == CHOOSE i \in DOMAIN s.queue :
                  /\ s.queue[i].req = q
                  /\ \A j \in DOMAIN s.queue : s.queue[j].req = q => i <= j

SetStatus(q, ok, s) ==
    IF Queued(q, s)
    THEN [s EXCEPT !.queue[First(q, s)].ok = ok,
                   !.queue[First(q, s)].ready = TRUE]
    ELSE s

\* An error of the frame, the status of all elements.
SetStatusCmn(s) ==
    [s EXCEPT !.queue = [i \in DOMAIN s.queue |->
        [s.queue[i] EXCEPT !.ok = FALSE, !.ready = @ \/ ~s.queue[i].own]]]

----------------------------------------------------------------------------
(* Requests to the MAC.                                                    *)

\* LoRaMacClassBInit, and InitClassBDefaults.
ClassBReset(s) == [s EXCEPT !.locked = FALSE, !.seeking = FALSE, !.slot = FALSE]

\* Mutation: a full queue does not turn a request down.
AcceptsAll(s) == ~Busy(s)
Accepts(s) == ~Busy(s) /\ Len(s.queue) < QueueLen

\* LoRaMacMlmeRequest.  A request that is turned down leaves MlmeReq set when
\* others wait, even if it came from the callback that answers the last one.
Request(q, granted, s) ==
    IF ~Accepts(s) THEN s
    ELSE IF ~granted THEN [s EXCEPT !.mlme = s.queue # <<>>]
    ELSE [s EXCEPT !.mlme = TRUE,
                   !.queue = Append(@, [req |-> q, ok |-> FALSE, ready |-> FALSE,
                                        own |-> q = "acquisition"])]

Granted(r, s) == Len(r.queue) > Len(s.queue)

\* LmHandlerJoin.  A join in the middle of a switch to class B ends its search
\* for a beacon, whose element stays queued.
Join(s) ==
    IF ~Accepts(s) THEN {s}
    ELSE LET r == [ClassBReset(s) EXCEPT !.joined = FALSE, !.halted = @ \/ s.seeking]
         IN  {Request("join", FALSE, r), [Request("join", TRUE, r) EXCEPT !.tx = "join"]}

DeviceTimeReq(s) ==
    LET r == Request("time", TRUE, s)
    IN  IF Granted(r, s) THEN [r EXCEPT !.cmds = @ \cup {"time"}] ELSE r

BeaconReq(s) ==
    LET r == Request("acquisition", ~s.seeking, s)
    IN  IF Granted(r, s)
        THEN [r EXCEPT !.seeking = TRUE, !.refused = FALSE, !.halted = FALSE]
        ELSE [r EXCEPT !.refused = @ \/ ~s.seeking \/ ~Queued("acquisition", s)]

\* LmHandlerSend; asked is what it asks the application server, which no longer
\* answers a request when its token is about to be used again.
Send(asked, s) ==
    IF ~s.joined THEN Join(s)
    ELSE IF Busy(s) THEN {s}
    ELSE {s, [s EXCEPT !.tx = "frame", !.sent = s.cmds, !.cmds = {},
                       !.flush = FALSE,
                       !.asked = asked \cup {a \in @ : a.token # (s.token + 1) % Tokens}]}

PingSlotReq(s) ==
    LET r == Request("slot", s.class = "A", s)
    IN  IF Granted(r, s)
        THEN Send({}, [r EXCEPT !.cmds = @ \cup {"slot"}, !.refused = FALSE])
        ELSE {[r EXCEPT !.refused = TRUE]}

----------------------------------------------------------------------------
(* The device class.                                                       *)

\* LoRaMacMibSetRequestConfirm with MIB_DEVICE_CLASS: nothing while a frame is
\* under way.
SwitchClass(c, s) ==
    IF Busy(s) THEN s
    ELSE CASE c = "A" /\ s.class = "B" -> [ClassBReset(s) EXCEPT !.class = "A"]
           [] c = "A" /\ s.class = "C" -> [s EXCEPT !.class = "A"]
           [] c = "C" /\ s.class = "A" -> [s EXCEPT !.class = "C"]
           [] c = "B" /\ s.class = "A" /\ s.locked /\ s.slot -> [s EXCEPT !.class = "B"]
           [] OTHER -> s

\* OnClassChange.
Tell(c, s) == [s EXCEPT !.told = c]

RequestClass(c, s) ==
    IF s.class = c THEN s
    ELSE IF c = "B"
    THEN LET r == DeviceTimeReq(s)
         IN  [r EXCEPT !.classB = TRUE,
                           !.refused = ~Granted(r, s) /\ (s.classB => @)]
    ELSE LET r == SwitchClass(c, s)
         IN  IF r.class = c THEN Tell(c, r) ELSE r

----------------------------------------------------------------------------
(* The handlers of the MAC's notifications.                                *)

OnJoinRequest(ok, s) ==
    IF ok THEN {DeviceTimeReq(RequestClass("A", s))} ELSE Join(s)

\* Every confirmation leads to the next request of the switch to class B, but
\* an answer to a time request whatever its status.
MlmeConfirm(e, s) ==
    CASE e.req = "join" -> OnJoinRequest(e.ok, s)
      [] e.req = "time" -> {IF s.classB THEN BeaconReq(s) ELSE s}
      [] e.req = "acquisition" ->
           IF e.ok THEN PingSlotReq(s)
           ELSE LET r == DeviceTimeReq(s)
                IN  {[r EXCEPT !.refused = ~Granted(r, s)]}
      [] e.req = "slot" ->
           IF e.ok THEN {[Tell("B", SwitchClass("B", s)) EXCEPT !.classB = FALSE]}
           ELSE PingSlotReq(s)

\* One turn of LoRaMacConfirmQueueHandleCb.  An element that is not ready goes
\* to the end, its ReadyToHandle never written.
HandleFirst(s) ==
    LET e == Head(s.queue)
        rest(r) == [r EXCEPT !.queue = Tail(@)]
    IN  IF e.ready THEN {rest(r) : r \in MlmeConfirm(e, s)}
        ELSE {[s EXCEPT !.queue = Append(Tail(@), [e EXCEPT !.ready = b])] :
                 b \in BOOLEAN}

Turn(S) == UNION {HandleFirst(s) : s \in S}

HandleCb(s) ==
    LET turns[n \in Nat] == IF n = 0 THEN {s} ELSE Turn(turns[n - 1])
    IN  turns[Len(s.queue)]

\* Mutation: the settings are restored only where a downlink left none of its own.
ClockSyncConfirmUnset(s) ==
    IF s.pending /\ s.trans = s.prevTrans
    THEN [s EXCEPT !.adr = s.prevAdr, !.pending = FALSE]
    ELSE [s EXCEPT !.pending = FALSE]
\* LmhpClockSyncOnMcpsConfirm.
ClockSyncConfirm(s) ==
    IF s.pending
    THEN [s EXCEPT !.adr = s.prevAdr, !.trans = s.prevTrans, !.pending = FALSE]
    ELSE s

\* Mutation: MlmeReq not set again for confirmations that are not ready.
RequestEventsForgets(s) ==
    LET r == IF s.tx = "frame" THEN ClockSyncConfirm([s EXCEPT !.tx = "none"])
             ELSE [s EXCEPT !.tx = "none"]
    IN  IF s.mlme
        THEN HandleCb([r EXCEPT !.mlme = FALSE, !.sent = {}])
        ELSE {[r EXCEPT !.sent = {}]}
\* LoRaMacHandleRequestEvents, once nothing is under way any more.
RequestEvents(s) ==
    LET r == IF s.tx = "frame" THEN ClockSyncConfirm([s EXCEPT !.tx = "none"])
             ELSE [s EXCEPT !.tx = "none"]
    IN  IF s.mlme
        THEN {[t EXCEPT !.mlme = @ \/ t.queue # <<>>] :
                 t \in HandleCb([r EXCEPT !.mlme = FALSE, !.sent = {}])}
        ELSE {[r EXCEPT !.sent = {}]}

\* MlmeIndication with MLME_BEACON_LOST.
BeaconLostIndication(s) == DeviceTimeReq(Tell("A", SwitchClass("A", s)))

----------------------------------------------------------------------------
(* What LoRaMacProcess may find.                                           *)

\* The frame is not answered: its time-out, or those of its windows.
FrameTimesOut(s) ==
    IF s.tx = "frame" THEN RequestEvents(SetStatusCmn(s)) ELSE {}

JoinEnds(s) ==
    IF s.tx = "join"
    THEN RequestEvents(SetStatusCmn(s))
         \cup RequestEvents(SetStatus("join", TRUE,
                                     [s EXCEPT !.joined = TRUE, !.trans = 1, !.server = 1]))
    ELSE {}

BeaconFound(s) ==
    IF s.seeking /\ ~Busy(s)
    THEN RequestEvents(LET r == [s EXCEPT !.locked = TRUE, !.seeking = FALSE]
                       IN  IF r.mlme THEN SetStatus("acquisition", TRUE, r) ELSE r)
    ELSE {}

\* Mutation: an acquisition is not told that there is no beacon.
BeaconLostQuietly(s) ==
    IF ~(IF s.locked THEN ~Busy(s) ELSE s.seeking) THEN {}
    ELSE IF s.mlme THEN RequestEvents(ClassBReset(s))
    ELSE {BeaconLostIndication(r) : r \in RequestEvents(ClassBReset(s))}
\* The state BEACON_STATE_LOST: nothing found, or no beacon for two hours.  The
\* search keeps the time-outs of a frame's windows from ending the frame; its
\* own end does.  The indication gives way to any confirmation.
BeaconLost(s) ==
    IF ~(IF s.locked THEN ~Busy(s) ELSE s.seeking) THEN {}
    ELSE IF s.mlme
    THEN RequestEvents(ClassBReset(SetStatus("acquisition", FALSE, s)))
    ELSE {BeaconLostIndication(r) : r \in RequestEvents(ClassBReset(s))}

\* A downlink: the MAC commands it answers, NbTrans if it has a LinkADRReq,
\* which server sends to a device with ADR on, what it holds for a package, and
\* whether it asks for another uplink.
Other(kind) == [kind |-> kind, token |-> 0, error |-> 0]
Data(s) == {Other(k) : k \in {"none"} \cup (scenario.data \ {"answer"})}
           \cup (IF "answer" \in scenario.data
                 THEN {[kind |-> "answer", token |-> a.token, error |-> a.error] :
                          a \in s.asked}
                 ELSE {})
Downlinks(s) ==
    [answers : SUBSET (s.sent \cap scenario.answers),
     trans : IF s.adr THEN {s.server} \cup scenario.trans ELSE {s.server},
     data : Data(s), more : scenario.more, second : BOOLEAN]

\* An answer of the application server is under way whose correction no longer
\* fits the clock once DeviceTimeAns has set it.
Outdated(s) == \E a \in s.asked : a.token = s.token /\ a.error # 0

\* DeviceTimeAnsReceived.
Exact(d, s) == "time" \in d.answers /\ Queued("time", s)

\* The MAC commands of a downlink.  The first window has timed out before the
\* second opens.
MacCommands(d, s) ==
    LET r == IF d.second THEN SetStatusCmn(s) ELSE s
        t == IF Exact(d, r) THEN [SetStatus("time", TRUE, r) EXCEPT
                                   !.error = 0, !.late = @ \/ Outdated(s)]
             ELSE r
        u == IF "slot" \in d.answers /\ Queued("slot", t)
             THEN [SetStatus("slot", TRUE, t) EXCEPT !.slot = TRUE] ELSE t
    IN  IF d.trans = s.server THEN u
        ELSE [u EXCEPT !.trans = d.trans, !.server = d.trans]

\* Mutation: the answer's token is not compared.
AppTimeAnsAny(d, exact, s) ==
    IF exact THEN [s EXCEPT !.resync = 0]
    ELSE [s EXCEPT !.resync = 0, !.error = IF @ - d.data.error \in Errors
                                           THEN @ - d.data.error ELSE @,
                   !.token = (@ + 1) % Tokens, !.late = FALSE]
\* LmhpClockSyncOnMcpsIndication.
AppTimeAns(d, exact, s) ==
    IF exact \/ d.data.token # s.token THEN [s EXCEPT !.resync = 0]
    ELSE [s EXCEPT !.resync = 0, !.error = @ - d.data.error,
                   !.token = (@ + 1) % Tokens, !.late = FALSE]

\* McpsIndication and the package its data is for.
McpsIndication(d, exact, s) ==
    {[r EXCEPT !.flush = @ \/ d.more] :
       r \in CASE d.data.kind = "answer" -> {AppTimeAns(d, exact, s)}
              [] d.data.kind = "resync" -> {[s EXCEPT !.resync = MaxResync]}
              [] d.data.kind = "session" -> Send({}, s)
              [] OTHER -> {s}}

FrameReceived(d, s) ==
    UNION {McpsIndication(d, Exact(d, s), r) : r \in RequestEvents(MacCommands(d, s))}

----------------------------------------------------------------------------
(* The task's loop.                                                        *)

Init ==
    /\ dev = [tx |-> "none", joined |-> FALSE, class |-> "A", locked |-> FALSE,
              seeking |-> FALSE, slot |-> FALSE, queue |-> <<>>, mlme |-> FALSE,
              cmds |-> {}, sent |-> {}, adr |-> TRUE, trans |-> 1, server |-> 1,
              classB |-> FALSE, refused |-> FALSE, halted |-> FALSE, told |-> "A", flush |-> FALSE,
              pending |-> FALSE, prevAdr |-> FALSE, prevTrans |-> 1,
              resync |-> 0, token |-> 0, error |-> 1, late |-> FALSE, asked |-> {}]
    /\ pc = "command" /\ flag = "idle" /\ taken = "idle"
    /\ session = FALSE /\ startTimer = FALSE /\ stopTimer = FALSE
    /\ scenario \in Scenarios /\ left = scenario.count

\* Mutation: the settings saved again while a request is pending.
AppTimeReqSavesAgain(s) ==
    IF Busy(s) THEN {s}
    ELSE IF ~s.joined THEN Join(s)
    ELSE LET r == DeviceTimeReq([s EXCEPT !.prevAdr = s.adr, !.prevTrans = s.trans,
                                          !.adr = FALSE, !.trans = 1])
         IN  Send({[token |-> s.token, error |-> s.error]}, [r EXCEPT !.pending = TRUE])
\* LmhpClockSyncAppTimeReq, with LmHandlerIsBusy.
AppTimeReq(s) ==
    IF Busy(s) THEN {s}
    ELSE IF ~s.joined THEN Join(s)
    ELSE LET r == IF s.pending THEN s
                  ELSE DeviceTimeReq([s EXCEPT !.prevAdr = s.adr,
                                               !.prevTrans = s.trans,
                                               !.adr = FALSE, !.trans = 1])
         IN  Send({[token |-> s.token, error |-> s.error]}, [r EXCEPT !.pending = TRUE])

Command(c, s) == CASE c = "join" -> Join(s)
                   [] c = "syncApp" -> AppTimeReq(s)
                   [] c = "syncMac" -> {DeviceTimeReq(s)}
                   [] OTHER -> {RequestClass(c, s)}

HandleCommand ==
    /\ pc = "command" /\ pc' = "process"
    /\ \/ /\ left > 0 /\ left' = left - 1
          /\ \E c \in scenario.commands : dev' \in Command(c, dev)
       \/ UNCHANGED <<left, dev>>
    /\ UNCHANGED <<mcast, scenario>>

Goes(next) == pc = "process" /\ pc' = next /\ UNCHANGED <<scenario, left>>

MacIdle == Goes("packages") /\ UNCHANGED <<dev, mcast>>
MacJoin == Goes("packages") /\ dev' \in JoinEnds(dev) /\ UNCHANGED mcast
MacTimeout == Goes("packages") /\ dev' \in FrameTimesOut(dev) /\ UNCHANGED mcast
MacBeacon == Goes("packages") /\ dev' \in BeaconFound(dev) /\ UNCHANGED mcast
MacNoBeacon == Goes("packages") /\ dev' \in BeaconLost(dev) /\ UNCHANGED mcast

\* A session request sets SessionStartTimer, unless the session is over.
MacFrame(d) ==
    /\ Goes("packages")
    /\ dev.tx = "frame" /\ dev' \in FrameReceived(d, dev)
    /\ startTimer' \in {startTimer, startTimer \/ d.data.kind = "session"}
    /\ UNCHANGED <<flag, taken, session, stopTimer>>

\* LmhpClockSyncProcess, and the flag that LmhpRemoteMcastSetupProcess takes.
PackagesProcess ==
    /\ pc = "packages" /\ pc' = "session"
    /\ \E r \in IF dev.resync > 0 THEN AppTimeReq(dev) ELSE {dev} :
         dev' = [r EXCEPT !.resync = IF ~Busy(dev) /\ r.tx = "frame" THEN @ - 1 ELSE @]
    /\ taken' = flag /\ flag' = "idle"
    /\ UNCHANGED <<session, startTimer, stopTimer, scenario, left>>

\* The rest of LmhpRemoteMcastSetupProcess and of LmHandlerProcess, with a
\* frame that fetches what the server still has.
Flush(s) == IF s.flush /\ ~Busy(s) THEN Send({}, s) ELSE {s}

\* Mutation: the session stays if the MAC does not change class now.
SessionProcessIfIdle ==
    /\ pc = "session" /\ pc' = "uplink"
    /\ CASE taken = "start" -> /\ dev' \in Flush(RequestClass("C", dev))
                               /\ session' = TRUE /\ stopTimer' = TRUE
                               /\ UNCHANGED flag
         [] taken = "stop" -> /\ dev' \in Flush(RequestClass("A", dev))
                              /\ session' = Busy(dev) /\ flag' = "idle"
                              /\ UNCHANGED stopTimer
         [] OTHER -> /\ dev' \in Flush(dev)
                     /\ UNCHANGED <<session, flag, stopTimer>>
    /\ UNCHANGED <<taken, startTimer, scenario, left>>
SessionProcess ==
    /\ pc = "session" /\ pc' = "uplink"
    /\ CASE taken = "start" -> /\ dev' \in Flush(RequestClass("C", dev))
                               /\ session' = TRUE /\ stopTimer' = TRUE
                               /\ UNCHANGED flag
         [] taken = "stop" -> /\ dev' \in Flush(RequestClass("A", dev))
                              /\ session' = FALSE /\ flag' = "idle"
                              /\ UNCHANGED stopTimer
         [] OTHER -> /\ dev' \in Flush(dev)
                     /\ UNCHANGED <<session, flag, stopTimer>>
    /\ UNCHANGED <<taken, startTimer, scenario, left>>

\* lorawan_task_handle_uplink, with a packet queued or not.
HandleUplink ==
    /\ pc = "uplink" /\ pc' = "command"
    /\ \/ ~session /\ ~Busy(dev) /\ dev.joined /\ dev' \in Send({}, dev)
       \/ ~session /\ ~dev.joined
            /\ dev' \in UNION {Join(r) : r \in Join(dev)}
       \/ UNCHANGED dev
    /\ UNCHANGED <<mcast, scenario, left>>

\* OnSessionStartTimer and OnSessionStopTimer, in the interrupt.
SessionStarts ==
    /\ startTimer /\ startTimer' = FALSE /\ flag' = "start"
    /\ UNCHANGED <<dev, pc, taken, session, stopTimer, scenario, left>>
SessionStops ==
    /\ stopTimer /\ stopTimer' = FALSE /\ flag' = "stop"
    /\ UNCHANGED <<dev, pc, taken, session, startTimer, scenario, left>>

Next ==
    \/ HandleCommand \/ PackagesProcess \/ SessionProcess \/ HandleUplink
    \/ MacIdle \/ MacJoin \/ MacTimeout \/ MacBeacon \/ MacNoBeacon
    \/ (\E d \in Downlinks(dev) : MacFrame(d))
    \/ SessionStarts \/ SessionStops

Spec == Init /\ [][Next]_vars

----------------------------------------------------------------------------
\* Every variable has its type, and the queue its length.
TypeOK ==
    /\ dev \in Device /\ Len(dev.queue) <= QueueLen
    /\ pc \in {"command", "process", "packages", "session", "uplink"}
    /\ {flag, taken} \subseteq {"idle", "start", "stop"}
    /\ session \in BOOLEAN /\ startTimer \in BOOLEAN /\ stopTimer \in BOOLEAN
    /\ scenario \in Scenarios /\ left \in 0 .. scenario.count

\* The device is not told to join again while it may have a time request
\* pending: joining sets NbTrans to 1, and the request's end sets it to what it
\* was before.
JoinsAskNothing ==
    \A c \in Scenarios : "join" \in c.commands =>
        "syncApp" \notin c.commands /\ "resync" \notin c.data

\* With JoinsAskNothing, and no time request to the application server pending,
\* adaptive data rate is on and a frame is sent as often as the network server
\* last asked, however requests, their answers, resync commands and refused
\* frames interleave.
SettingsRestored == ~dev.pending => dev.adr /\ dev.trans = dev.server

\* As long as confirmations are queued, MlmeReq is set: without it nobody
\* handles them, and the request behind one never ends.
Requested == dev.queue # <<>> => dev.mlme

\* A switch to class B stands unless its last request was turned down, for which
\* there is no retry: its time request or its ping slot request is queued, or its
\* search for a beacon is, and that is under way, about to be answered or was
\* ended by a join, whatever joins, other time requests, repeated class requests,
\* lost frames and lost beacons come in between.
SwitchGoesOn ==
    dev.classB /\ ~dev.refused =>
        \E e \in {dev.queue[i] : i \in DOMAIN dev.queue} :
            \/ e.req \in {"time", "slot"}
            \/ e.req = "acquisition" /\ (e.ready \/ dev.seeking \/ dev.halted)

\* A step leaves the clock as it was or sets it right, with the two servers
\* answering late, twice, in the same frame or after a resync.  After a
\* DeviceTimeAns that outruns the answer to the current token this is not so:
\* the token stays, and the correction is applied to the clock already set.
ClockStaysRight == [][~dev.late => dev'.error \in {dev.error, 0}]_vars

TaskStep == \/ HandleCommand \/ PackagesProcess \/ SessionProcess \/ HandleUplink
            \/ MacIdle \/ MacJoin \/ MacTimeout \/ MacBeacon \/ MacNoBeacon
            \/ (\E d \in Downlinks(dev) : MacFrame(d))

\* The task goes round, the session timers expire, a join is accepted if it is
\* tried again and again, the radio or a timer ends each frame, and packets keep
\* coming that the region lets through.
FairSpec ==
    /\ Spec /\ WF_vars(TaskStep) /\ WF_vars(SessionStarts) /\ WF_vars(SessionStops)
    /\ SF_vars(MacJoin /\ dev'.joined) /\ SF_vars(MacTimeout)
    /\ SF_vars(HandleUplink /\ ~Busy(dev) /\ Busy(dev'))

\* Adaptive data rate that a time request turned off is turned on again.
AdrReturns == ~dev.adr ~> dev.adr

\* A multicast session, which holds back the application's packets, ends.
SessionEnds == session ~> ~session
=============================================================================
