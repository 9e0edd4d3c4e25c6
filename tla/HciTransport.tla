---------------------------- MODULE HciTransport ----------------------------
(***************************************************************************)
(* The host's side of the HCI: the command queue of hci_cmd.c, the reset   *)
(* sequence of hci_vs_apollo3.c, the write queue and the blocking handler  *)
(* of hci_drv_apollo3.c, with the controller behind the serial link.       *)
(*                                                                         *)
(* Handlers run one after the other in the BLE task, in any order (a       *)
(* superset of the order WsfScheduler gives them); the controller goes on  *)
(* at every step.  Of the sequence's commands three are told apart, for    *)
(* its start, its middle and its end.  ACL packets share the write queue;  *)
(* the connections of hci_core.c are taken as one link, with the buffers   *)
(* and the queue that they share.                                          *)
(***************************************************************************)
EXTENDS Integers, Sequences

CONSTANTS Slots,            \* NUM_HCI_WRITE_BUFFERS (8 in the code)
          MaxTransactions,  \* HCI_DRV_MAX_HCI_TRANSACTIONS (1000 in the code)
          MaxReads,         \* HCI_DRV_MAX_READ_PACKET (4 in the code)
          MaxAcl,           \* numBufs, the controller's buffers for ACL packets
          MaxQueue,         \* commands in cmdQueue that leave no buffer for another
          MaxSends,         \* bound: commands and packets of the application
          MaxReports,       \* bound: events the controller sends unasked
          MaxFaults,        \* bound: faults
          FaultPhases       \* when they happen: a subset of Phases

Phases == {"up", "reset"}

ASSUME Assumptions ==
    /\ {Slots, MaxTransactions, MaxReads, MaxAcl} \subseteq Nat \ {0}
    /\ MaxReads < MaxTransactions
    /\ {MaxQueue, MaxSends, MaxReports, MaxFaults} \subseteq Nat
    /\ FaultPhases \subseteq Phases

\* The commands: the reset sequence, the vendor's command for the address, and
\* any other, HciReadLocalVerInfoCmd of the heartbeat included.
Sequence == <<"reset", "mask", "rand">>
Required == {"reset", "address", "mask", "rand"}
Commands == Required \cup {"other"}
Packets == Commands \cup {"acl"}

\* What the controller sends unasked: the first connection opens, the last one
\* closes, anything else.
Unasked == {"open", "close", "report"}
Received == Packets \cup Unasked

VARIABLES cmdQueue,    \* hciCmdCb.cmdQueue
          numCmdPkts,  \* hciCmdCb.numCmdPkts
          cmdTimer,    \* hciCmdCb.cmdTimer is started
          link,        \* hciCoreCb: a connection is open, availBufs, and the packets
                       \* and fragments queued in aclQueue and the connections
          lost,        \* history: a command of a reset met a full write queue
          writeQueue,  \* g_sWriteQueue
          events,      \* event flags: "transfer" of the driver, "rx" of the core
          heartbeat,   \* g_HeartBeatTimer is started
          rxQueue,     \* hciCb.rxQueue; a completion is named by what it completes
          resetting,   \* hciCb.resetting and dmCb.resetting
          resets,      \* messages DM_DEV_MSG_API_RESET under way
          handler,     \* the handler that runs: "none", "driver" or "core"
          transactions, reads,  \* HciDrvHandler's two counts
          ctl,         \* the controller: its state, packets in and out, and the
                       \* required commands it has had since it was booted
          sends, reports, faults   \* how much of the bounds has been used

commandVars == <<cmdQueue, numCmdPkts, cmdTimer, link, lost>>
driverVars == <<writeQueue, heartbeat, handler, transactions, reads>>
coreVars == <<rxQueue, resetting, resets>>
bounds == <<sends, reports, faults>>
vars == <<commandVars, events, driverVars, coreVars, ctl, bounds>>

----------------------------------------------------------------------------
(* hci_cmd.c, hci_core.c and hciDrvWrite.  An operator F(..., h) maps the  *)
(* record h of the queues on the way to the controller to the next one.    *)

Host == [cmdQueue |-> cmdQueue, numCmdPkts |-> numCmdPkts, cmdTimer |-> cmdTimer,
         writeQueue |-> writeQueue, events |-> events, link |-> link, lost |-> lost]

Becomes(h) == /\ cmdQueue' = h.cmdQueue /\ numCmdPkts' = h.numCmdPkts
              /\ cmdTimer' = h.cmdTimer /\ writeQueue' = h.writeQueue
              /\ events' = h.events /\ link' = h.link /\ lost' = h.lost

\* A packet that finds the queue full is dropped, and reported as written.
DrvWrite(p, h) ==
    IF Len(h.writeQueue) = Slots THEN [h EXCEPT !.lost = @ \/ p \in Required]
    ELSE [h EXCEPT !.writeQueue = Append(@, p), !.events = @ \cup {"transfer"}]

\* Mutation: the answer is not waited for.
CmdServiceUntimed(h) ==
    IF h.numCmdPkts = 0 \/ h.cmdQueue = <<>> THEN h
    ELSE DrvWrite(Head(h.cmdQueue),
                  [h EXCEPT !.cmdQueue = Tail(@), !.numCmdPkts = @ - 1])
CmdService(h) ==
    IF h.numCmdPkts = 0 \/ h.cmdQueue = <<>> THEN h
    ELSE DrvWrite(Head(h.cmdQueue),
                  [h EXCEPT !.cmdQueue = Tail(@), !.numCmdPkts = @ - 1,
                            !.cmdTimer = TRUE])

CmdSend(c, h) == CmdService([h EXCEPT !.cmdQueue = Append(@, c)])

RecvCmpl(h) == CmdService([h EXCEPT !.cmdTimer = FALSE, !.numCmdPkts = 1])

\* Mutation: the command itself is not sent.
ResetCmdClearsOnly(h) == [h EXCEPT !.cmdQueue = <<>>, !.numCmdPkts = 1]
\* HciResetCmd, with hciClearCmdQueue.
ResetCmd(h) == CmdSend("reset", [h EXCEPT !.cmdQueue = <<>>, !.numCmdPkts = 1])

\* hciCoreTxReady.  Packets wait only while there is no buffer, so that one more
\* buffer, or one more packet, sends one at most.
TxReady(h) ==
    IF h.link.avail = 0 \/ h.link.queued = 0 THEN h
    ELSE DrvWrite("acl", [h EXCEPT !.link.avail = @ - 1, !.link.queued = @ - 1])

Links == [open : BOOLEAN, avail : 0 .. MaxAcl, queued : Nat]

\* No connection, and the controller has all buffers.
Closed == [open |-> FALSE, avail |-> MaxAcl, queued |-> 0]

\* hciEvtProcessMsg, for what it does to the queues.
Process(e, h) ==
    CASE e \in Commands -> RecvCmpl(h)
      [] e = "acl" /\ h.link.open ->
            TxReady([h EXCEPT !.link.avail = IF @ < MaxAcl THEN @ + 1 ELSE @])
      [] e = "open" -> [h EXCEPT !.link.open = TRUE]
      [] e = "close" -> [h EXCEPT !.link = Closed]
      [] OTHER -> h

\* HciResetSequence closes one connection after the other.  The buffers of one are
\* used for packets of the next, so that up to n of those that waited are written.
CloseAll(n, h) ==
    LET room == Slots - Len(h.writeQueue)
        written == [i \in 1 .. (IF n < room THEN n ELSE room) |-> "acl"]
    IN  [h EXCEPT !.link = Closed, !.writeQueue = @ \o written,
                  !.events = IF written = <<>> THEN @ ELSE @ \cup {"transfer"}]

----------------------------------------------------------------------------
(* The controller's faults, and restarting it.                             *)

Phase == IF resetting \/ resets > 0 THEN "reset" ELSE "up"

\* f is 1 if a fault happens in a step and 0 if not.
May(f, phase) == f = 1 => phase \in FaultPhases
Spend(f) == faults + f <= MaxFaults /\ faults' = faults + f

Booted(s) == [state |-> s, in |-> <<>>, out |-> <<>>, had |-> {}]

\* HciDrvRadioShutdown and HciDrvRadioBoot.  A boot may fail, which its callers
\* ignore: the interface is not initialised, the write queue not emptied, and
\* the driver library takes what is written to it for sent.
Reboot(f, h) == /\ May(f, "reset")
                /\ ctl' = Booted(IF f = 0 THEN "ok" ELSE "off")
                /\ Becomes(IF f = 0 THEN [h EXCEPT !.writeQueue = <<>>] ELSE h)
                /\ heartbeat' = FALSE

\* With DmDevReset, as hciCmdTimeout does, and ERROR_RECOVER, which also empties
\* the queue.
Restart(f, h) == Reboot(f, h) /\ resets' = resets + 1
Recover(f, h) == Restart(f, [h EXCEPT !.writeQueue = <<>>])

----------------------------------------------------------------------------
(* HciDrvHandler called for BLE_TRANSFER_NEEDED_EVENT.                     *)

DriverStart == /\ handler = "none" /\ "transfer" \in events
               /\ handler' = "driver"
               /\ events' = events \ {"transfer"}
               /\ transactions' = 0 /\ reads' = 0
               /\ UNCHANGED <<commandVars, writeQueue, heartbeat, coreVars, ctl, bounds>>

Irq == ctl.out # <<>>
InLoop == handler = "driver"

\* The loop's last round.  Only a break from it meets the check after the loop:
\* else the loop's condition counts once more.
LastRound == transactions + 1 = MaxTransactions
OrGiveUp == handler' = IF LastRound THEN "none" ELSE handler

\* A packet is handed to the core, or dropped because no buffer is left for it.
Deliver(p, f) == /\ May(f, Phase)
                 /\ rxQueue' = IF f = 1 THEN rxQueue ELSE Append(rxQueue, p)
Notified(f, h) == IF f = 1 THEN h ELSE [h EXCEPT !.events = @ \cup {"rx"}]

DriverRead ==
    /\ InLoop /\ Irq /\ reads + 1 < MaxReads
    /\ \E f \in {0, 1} : /\ Deliver(Head(ctl.out), f)
                         /\ Becomes(Notified(f, Host))
                         /\ Spend(f)
    /\ ctl' = [ctl EXCEPT !.out = Tail(@)]
    /\ heartbeat' = TRUE
    /\ transactions' = transactions + 1 /\ reads' = reads + 1
    /\ OrGiveUp
    /\ UNCHANGED <<resetting, resets, sends, reports>>

\* Mutation: no event after the last read in a row.
ComeBackNot(h) == h
ComeBack(h) == [h EXCEPT !.events = @ \cup {"transfer"}]

DriverReadLast ==
    /\ InLoop /\ Irq /\ reads + 1 = MaxReads
    /\ \E f, g \in {0, 1} :
          LET h == ComeBack(Notified(f, Host))
          IN  /\ Deliver(Head(ctl.out), f)
              /\ IF LastRound THEN Recover(g, h)
                 ELSE /\ g = 0 /\ Becomes(h)
                      /\ ctl' = [ctl EXCEPT !.out = Tail(@)]
                      /\ heartbeat' = TRUE
                      /\ UNCHANGED resets
              /\ Spend(f + g)
    /\ handler' = "none"
    /\ UNCHANGED <<transactions, reads, resetting, sends, reports>>

DriverReadFails ==
    /\ InLoop /\ Irq
    /\ May(1, Phase)
    /\ \E f \in {0, 1} : Recover(f, Host) /\ Spend(1 + f)
    /\ handler' = "none"
    /\ UNCHANGED <<transactions, reads, rxQueue, resetting, sends, reports>>

DriverWrites ==
    /\ InLoop /\ ~Irq /\ writeQueue # <<>>
    /\ ctl.state \in {"ok", "off"}
    /\ ctl' = IF ctl.state = "off" THEN ctl
              ELSE [ctl EXCEPT !.in = Append(@, Head(writeQueue))]
    /\ writeQueue' = Tail(writeQueue)
    /\ heartbeat' = TRUE
    /\ transactions' = 0
    /\ UNCHANGED <<commandVars, events, handler, reads, coreVars, bounds>>

DriverWriteFails ==
    /\ InLoop /\ ~Irq /\ writeQueue # <<>>
    /\ ctl.state \in {"stalled", "hung"}
    /\ transactions' = transactions + 1
    /\ OrGiveUp
    /\ UNCHANGED <<commandVars, events, writeQueue, heartbeat, reads, coreVars,
                   ctl, bounds>>

DriverDone ==
    /\ InLoop /\ ~Irq /\ writeQueue = <<>>
    /\ \E f \in {0, 1} :
          /\ IF LastRound THEN Recover(f, Host)
             ELSE /\ f = 0
                  /\ UNCHANGED <<commandVars, events, writeQueue, heartbeat, resets, ctl>>
          /\ Spend(f)
    /\ handler' = "none"
    /\ UNCHANGED <<transactions, reads, rxQueue, resetting, sends, reports>>

----------------------------------------------------------------------------
(* HciCoreHandler called for HCI_EVT_RX, with the reset sequence.          *)

CoreStart == /\ handler = "none" /\ "rx" \in events
             /\ handler' = "core"
             /\ events' = events \ {"rx"}
             /\ UNCHANGED <<commandVars, writeQueue, heartbeat, transactions, reads,
                            coreVars, ctl, bounds>>

\* Mutation: the sequence ends a command too soon.
EndsSoon(c) == c = Sequence[Len(Sequence) - 1]
Ends(c) == c = Sequence[Len(Sequence)]

\* hciCoreResetSequence: the next command, unless the event is no completion of
\* the sequence's.
Continue(c, h) ==
    IF \E i \in 1 .. Len(Sequence) - 1 : Sequence[i] = c
    THEN CmdSend(Sequence[(CHOOSE i \in DOMAIN Sequence : Sequence[i] = c) + 1], h)
    ELSE h

CoreEvent ==
    /\ handler = "core" /\ rxQueue # <<>>
    /\ rxQueue' = Tail(rxQueue)
    /\ LET e == Head(rxQueue)
           h == Process(e, Host)
       IN  /\ Becomes(IF resetting THEN Continue(e, h) ELSE h)
           /\ resetting' = (resetting /\ ~Ends(e))
    /\ UNCHANGED <<heartbeat, handler, transactions, reads, resets, ctl, bounds>>

CoreDone == /\ handler = "core" /\ rxQueue = <<>>
            /\ handler' = "none"
            /\ UNCHANGED <<commandVars, events, writeQueue, heartbeat, transactions,
                           reads, coreVars, ctl, bounds>>

\* dmDevActReset: a reset that comes during another is forgotten.
DmReset ==
    /\ handler = "none" /\ resets > 0
    /\ resets' = resets - 1
    /\ IF resetting
       THEN UNCHANGED <<commandVars, events, writeQueue, rxQueue, resetting>>
       ELSE /\ resetting' = TRUE
            /\ rxQueue' = <<>>
            /\ \E n \in 0 .. link.queued :
                  Becomes(CmdSend("address", ResetCmd(CloseAll(n, Host))))
    /\ UNCHANGED <<heartbeat, handler, transactions, reads, ctl, bounds>>

----------------------------------------------------------------------------
(* The application, the timers and the controller.                         *)

\* HciSendAclData, while a connection is open, whatever goes on below it.
SendAcl(h) == TxReady([h EXCEPT !.link.queued = @ + 1])

AppSends ==
    /\ handler = "none" /\ sends < MaxSends
    /\ sends' = sends + 1
    /\ \/ Becomes(CmdSend("other", Host))
       \/ link.open /\ Becomes(SendAcl(Host))
    /\ UNCHANGED <<heartbeat, handler, transactions, reads, coreVars, ctl, reports, faults>>

\* Nothing goes on but time.
Quiet == /\ handler = "none" /\ events = {} /\ resets = 0
         /\ ctl.in # <<>> => ctl.state \in {"stalled", "hung"}

\* After ten seconds without an answer or, a fault, just before a late one to a
\* command that was written.
CmdTimeout ==
    /\ handler = "none" /\ cmdTimer
    /\ \E f, g \in {0, 1} :
          /\ f = 0 => Quiet
          /\ f = 1 => ~Quiet /\ writeQueue = <<>> /\ May(1, Phase)
          /\ Restart(g, [Host EXCEPT !.cmdTimer = FALSE])
          /\ Spend(f + g)
    /\ UNCHANGED <<handler, transactions, reads, rxQueue, resetting, sends, reports>>

\* BLE_HEARTBEAT_EVENT after ten seconds without a transfer.  A command that
\* finds no buffer is not sent.
Heartbeat ==
    /\ Quiet /\ heartbeat
    /\ Becomes(IF Len(cmdQueue) < MaxQueue THEN CmdSend("other", Host) ELSE Host)
    /\ UNCHANGED <<heartbeat, handler, transactions, reads, coreVars, ctl, bounds>>

\* The interrupt of a packet that becomes ready may be missed during a transfer.
Raise == \E seen \in IF handler = "driver" THEN BOOLEAN ELSE {TRUE} :
            events' = IF seen THEN events \cup {"transfer"} ELSE events

\* A controller that is not initialised has no connection for an ACL packet.
CtlAnswers ==
    /\ ctl.state = "ok" /\ ctl.in # <<>>
    /\ LET p == Head(ctl.in)
       IN  IF p = "acl" /\ ctl.had # Required
           THEN ctl' = [ctl EXCEPT !.in = Tail(@)] /\ UNCHANGED events
           ELSE /\ ctl' = [ctl EXCEPT !.in = Tail(@), !.out = Append(@, p),
                                      !.had = IF p = "reset" THEN {p}
                                              ELSE @ \cup ({p} \cap Required)]
                /\ Raise
    /\ UNCHANGED <<commandVars, driverVars, coreVars, bounds>>

\* A connection that has opened closes once.
Unclosed == link.open /\ \A q \in {ctl.out, rxQueue} : \A i \in DOMAIN q : q[i] # "close"

CtlReports ==
    /\ ctl.state = "ok"
    /\ \E e \in Unasked :
          /\ e # "report" => ctl.had = Required
          /\ IF e = "close" THEN Unclosed /\ UNCHANGED reports
             ELSE reports < MaxReports /\ reports' = reports + 1
          /\ ctl' = [ctl EXCEPT !.out = Append(@, e)]
    /\ Raise
    /\ UNCHANGED <<commandVars, driverVars, coreVars, sends, faults>>

CtlFails == /\ ctl.state = "ok"
            /\ May(1, Phase) /\ Spend(1)
            /\ \E s \in {"stalled", "hung"} : ctl' = [ctl EXCEPT !.state = s]
            /\ UNCHANGED <<commandVars, events, driverVars, coreVars, sends, reports>>

CtlGoesOn == /\ ctl.state = "stalled"
             /\ ctl' = [ctl EXCEPT !.state = "ok"]
             /\ UNCHANGED <<commandVars, events, driverVars, coreVars, bounds>>

----------------------------------------------------------------------------
\* The radio booted, hciCmdInit done, and DmDevReset called by the application.
Init == /\ cmdQueue = <<>> /\ numCmdPkts = 1 /\ cmdTimer = FALSE
        /\ link = Closed /\ lost = FALSE
        /\ writeQueue = <<>> /\ events = {} /\ heartbeat = FALSE
        /\ rxQueue = <<>> /\ resetting = FALSE /\ resets = 1
        /\ handler = "none" /\ transactions = 0 /\ reads = 0
        /\ ctl = Booted("ok")
        /\ sends = 0 /\ reports = 0 /\ faults = 0

Driver == \/ DriverStart \/ DriverRead \/ DriverReadLast \/ DriverReadFails
          \/ DriverWrites \/ DriverWriteFails \/ DriverDone
Core == CoreStart \/ CoreEvent \/ CoreDone
Controller == CtlAnswers \/ CtlReports \/ CtlFails \/ CtlGoesOn

Next == Driver \/ Core \/ DmReset \/ AppSends \/ CmdTimeout \/ Heartbeat \/ Controller

Spec == Init /\ [][Next]_vars

\* The BLE task runs its handlers, the timers run out, and a controller that is
\* not hung goes on.
Fairness == /\ WF_vars(Driver) /\ WF_vars(Core) /\ WF_vars(DmReset)
            /\ WF_vars(CmdTimeout /\ Quiet) /\ WF_vars(Heartbeat)
            /\ WF_vars(CtlAnswers) /\ WF_vars(CtlGoesOn)

FairSpec == Spec /\ Fairness

----------------------------------------------------------------------------
\* Types; hciCmdRecvCmpl keeps at most one credit.
TypeOK == /\ cmdQueue \in Seq(Commands)
          /\ numCmdPkts \in 0 .. 1
          /\ writeQueue \in Seq(Packets) /\ Len(writeQueue) <= Slots
          /\ rxQueue \in Seq(Received)
          /\ events \subseteq {"transfer", "rx"}
          /\ link \in Links
          /\ lost \in BOOLEAN /\ cmdTimer \in BOOLEAN /\ heartbeat \in BOOLEAN /\ resetting \in BOOLEAN
          /\ resets \in Nat
          /\ handler \in {"none", "driver", "core"}
          /\ transactions \in 0 .. MaxTransactions /\ reads \in 0 .. MaxReads
          /\ ctl \in [state : {"ok", "stalled", "hung", "off"}, in : Seq(Packets),
                     out : Seq(Received), had : SUBSET Required]

\* The task does not sleep on a packet: what waits to be read or written has an
\* event or, when the loop gave up, a timer or a reset that will come to it.
Attended == handler = "none" =>
    /\ rxQueue # <<>> => "rx" \in events
    /\ ctl.out # <<>> \/ writeQueue # <<>> =>
          \/ "transfer" \in events
          \/ transactions = MaxTransactions /\ (heartbeat \/ cmdTimer \/ resets > 0)

\* When a reset is complete, the controller has had every command of it since
\* it was booted, unless one of them met a full write queue: hciDrvWrite drops it
\* and a reset may complete without it.
UpMeansInitialised == Phase = "up" => ctl.had = Required \/ lost

\* Every fault in operation is overcome: the controller comes up again and all
\* packets are sent.  It fails only when a command of the reset itself is dropped
\* by hciDrvWrite: its timeout asks for a reset that the one under way ignores.
Settles == []<>(\/ lost
                \/ /\ Phase = "up" /\ ctl.state = "ok"
                   /\ cmdQueue = <<>> /\ writeQueue = <<>>)

\* A controller that was booted is initialised, as hciCmdTimeout's comment says,
\* with the same exception.
Reinitialised == ctl.had = {} ~> ctl.had = Required \/ lost
=============================================================================
