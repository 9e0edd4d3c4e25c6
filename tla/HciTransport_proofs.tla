-------------------------- MODULE HciTransport_proofs --------------------------
(***************************************************************************)
(* For every size of the write queue, every number of reads and            *)
(* transactions of the handler, and any number of faults in operation, but *)
(* none during a reset:                                                    *)
(*  - the driver never leaves a packet behind: what waits to be read or    *)
(*    written always has an event or the heartbeat that will come to it;   *)
(*  - a reset that completes has initialised the controller, unless a full *)
(*    write queue has dropped one of its commands.                         *)
(***************************************************************************)
EXTENDS HciTransport, TLAPS

----------------------------------------------------------------------------
(* What the operators on the host's queues return.                         *)

HostType == [cmdQueue : Seq(Commands), numCmdPkts : 0 .. 1, cmdTimer : BOOLEAN,
             writeQueue : {q \in Seq(Packets) : Len(q) <= Slots},
             events : SUBSET {"transfer", "rx"}, link : Links, lost : BOOLEAN]

\* Nothing but a packet that is written changes the write queue, and it comes
\* with an event.  What was lost remains so.
Announced(h, n) == /\ h.events \subseteq n.events
                   /\ h.lost => n.lost
                   /\ n.writeQueue = h.writeQueue \/ "transfer" \in n.events

\* hciDrvWrite announces what it queues.
LEMMA DrvWriteAnnounces ==
    ASSUME NEW p \in Packets, NEW h \in HostType
    PROVE  DrvWrite(p, h) \in HostType /\ Announced(h, DrvWrite(p, h))
<1>1. CASE Len(h.writeQueue) = Slots
  <2>1. DrvWrite(p, h) = [h EXCEPT !.lost = h.lost \/ p \in Required]
    BY <1>1 DEF DrvWrite
  <2>2. (h.lost \/ p \in Required) \in BOOLEAN
    BY DEF HostType
  <2>3. DrvWrite(p, h).lost = (h.lost \/ p \in Required)
    BY <2>1 DEF HostType
  <2>. QED
    BY <2>1, <2>2, <2>3 DEF HostType, Announced
<1>2. CASE Len(h.writeQueue) # Slots
  <2>1. /\ h.writeQueue \in Seq(Packets) /\ Len(h.writeQueue) \in Nat
        /\ Len(h.writeQueue) <= Slots /\ Slots \in Nat
    BY Assumptions DEF HostType, Assumptions
  <2>2. /\ Append(h.writeQueue, p) \in Seq(Packets)
        /\ Len(Append(h.writeQueue, p)) <= Slots
    BY <1>2, <2>1
  <2>3. DrvWrite(p, h) = [h EXCEPT !.writeQueue = Append(h.writeQueue, p),
                                   !.events = h.events \cup {"transfer"}]
    BY <1>2 DEF DrvWrite
  <2>. QED
    BY <2>2, <2>3 DEF HostType, Announced
<1>. QED  BY <1>1, <1>2

\* hciCmdService sends at most one command.
LEMMA CmdServiceAnnounces ==
    ASSUME NEW h \in HostType
    PROVE  CmdService(h) \in HostType /\ Announced(h, CmdService(h))
<1>1. CASE h.numCmdPkts = 0 \/ h.cmdQueue = <<>>
  BY <1>1 DEF CmdService, Announced
<1>2. CASE ~(h.numCmdPkts = 0 \/ h.cmdQueue = <<>>)
  <2>. DEFINE n == [h EXCEPT !.cmdQueue = Tail(h.cmdQueue),
                             !.numCmdPkts = h.numCmdPkts - 1, !.cmdTimer = TRUE]
  <2>1. Head(h.cmdQueue) \in Packets /\ Tail(h.cmdQueue) \in Seq(Commands)
    BY <1>2 DEF HostType, Packets
  <2>2. h.numCmdPkts - 1 \in 0 .. 1
    BY <1>2 DEF HostType
  <2>3. n \in HostType /\ n.events = h.events /\ n.writeQueue = h.writeQueue
        /\ n.lost = h.lost
    BY <2>1, <2>2 DEF HostType
  <2>4. CmdService(h) = DrvWrite(Head(h.cmdQueue), n)
    BY <1>2 DEF CmdService
  <2>. HIDE DEF n
  <2>. QED
    BY <2>1, <2>3, <2>4, DrvWriteAnnounces DEF Announced
<1>. QED  BY <1>1, <1>2

\* hciCmdSend.
LEMMA CmdSendAnnounces ==
    ASSUME NEW c \in Commands, NEW h \in HostType
    PROVE  CmdSend(c, h) \in HostType /\ Announced(h, CmdSend(c, h))
<1>. DEFINE n == [h EXCEPT !.cmdQueue = Append(h.cmdQueue, c)]
<1>3. Append(h.cmdQueue, c) \in Seq(Commands)
  BY DEF HostType
<1>1. n \in HostType /\ n.events = h.events /\ n.writeQueue = h.writeQueue
        /\ n.lost = h.lost
  BY <1>3 DEF HostType
<1>2. CmdSend(c, h) = CmdService(n)
  BY DEF CmdSend
<1>. HIDE DEF n
<1>. QED  BY <1>1, <1>2, CmdServiceAnnounces DEF Announced

\* hciCmdRecvCmpl.
LEMMA RecvCmplAnnounces ==
    ASSUME NEW h \in HostType
    PROVE  RecvCmpl(h) \in HostType /\ Announced(h, RecvCmpl(h))
<1>. DEFINE n == [h EXCEPT !.cmdTimer = FALSE, !.numCmdPkts = 1]
<1>3. FALSE \in BOOLEAN /\ 1 \in 0 .. 1
  OBVIOUS
<1>1. n \in HostType /\ n.events = h.events /\ n.writeQueue = h.writeQueue
        /\ n.lost = h.lost
  BY <1>3 DEF HostType
<1>2. RecvCmpl(h) = CmdService(n)
  BY DEF RecvCmpl
<1>. HIDE DEF n
<1>. QED  BY <1>1, <1>2, CmdServiceAnnounces DEF Announced

\* HciResetCmd.
LEMMA ResetCmdAnnounces ==
    ASSUME NEW h \in HostType
    PROVE  ResetCmd(h) \in HostType /\ Announced(h, ResetCmd(h))
<1>. DEFINE n == [h EXCEPT !.cmdQueue = <<>>, !.numCmdPkts = 1]
<1>4. <<>> \in Seq(Commands) /\ 1 \in 0 .. 1
  OBVIOUS
<1>1. n \in HostType /\ n.events = h.events /\ n.writeQueue = h.writeQueue
        /\ n.lost = h.lost
  BY <1>4 DEF HostType
<1>2. ResetCmd(h) = CmdSend("reset", n)
  BY DEF ResetCmd
<1>3. "reset" \in Commands
  BY DEF Commands, Required
<1>. HIDE DEF n
<1>. QED  BY <1>1, <1>2, <1>3, CmdSendAnnounces DEF Announced

\* hciCoreResetSequence.
LEMMA ContinueAnnounces ==
    ASSUME NEW c, NEW h \in HostType
    PROVE  Continue(c, h) \in HostType /\ Announced(h, Continue(c, h))
<1>1. CASE \E i \in 1 .. Len(Sequence) - 1 : Sequence[i] = c
  <2>. DEFINE j == CHOOSE i \in DOMAIN Sequence : Sequence[i] = c
  <2>1. /\ DOMAIN Sequence = 1 .. 3 /\ Len(Sequence) = 3
        /\ Sequence[1] = "reset" /\ Sequence[2] = "mask" /\ Sequence[3] = "rand"
    BY DEF Sequence
  <2>2. j \in {1, 2}
    BY <1>1, <2>1
  <2>4. Continue(c, h) = CmdSend(Sequence[j + 1], h)
    BY <1>1 DEF Continue
  <2>. HIDE DEF j
  <2>3. Sequence[j + 1] \in Commands
    <3>1. Sequence[2] \in Commands /\ Sequence[3] \in Commands
      BY <2>1 DEF Commands, Required
    <3>2. j + 1 = 2 \/ j + 1 = 3
      BY <2>2
    <3>. QED
      BY <3>1, <3>2
  <2>. QED
    BY <2>3, <2>4, CmdSendAnnounces
<1>2. CASE ~ \E i \in 1 .. Len(Sequence) - 1 : Sequence[i] = c
  BY <1>2 DEF Continue, Announced
<1>. QED  BY <1>1, <1>2

\* hciCoreTxReady sends at most one packet.
LEMMA TxReadyAnnounces ==
    ASSUME NEW h \in HostType
    PROVE  TxReady(h) \in HostType /\ Announced(h, TxReady(h))
<1>1. CASE h.link.avail = 0 \/ h.link.queued = 0
  BY <1>1 DEF TxReady, Announced
<1>2. CASE ~(h.link.avail = 0 \/ h.link.queued = 0)
  <2>. DEFINE l == [h.link EXCEPT !.avail = h.link.avail - 1, !.queued = h.link.queued - 1]
              n == [h EXCEPT !.link = l]
  <2>1. h.link \in Links /\ MaxAcl \in Nat
    BY Assumptions DEF HostType, Assumptions
  <2>2. h.link.avail - 1 \in 0 .. MaxAcl /\ h.link.queued - 1 \in Nat
    BY <1>2, <2>1 DEF Links
  <2>3. l \in Links
    BY <2>1, <2>2 DEF Links
  <2>4. TxReady(h) = DrvWrite("acl", n)
    BY <1>2 DEF TxReady
  <2>. HIDE DEF l
  <2>5. n \in HostType /\ n.events = h.events /\ n.writeQueue = h.writeQueue
        /\ n.lost = h.lost
    BY <2>3 DEF HostType
  <2>6. "acl" \in Packets
    BY DEF Packets
  <2>. HIDE DEF n
  <2>. QED
    BY <2>4, <2>5, <2>6, DrvWriteAnnounces DEF Announced
<1>. QED  BY <1>1, <1>2

\* What changes no more than the link.
Linked(h, n) == /\ n.cmdQueue = h.cmdQueue /\ n.numCmdPkts = h.numCmdPkts
                /\ n.writeQueue = h.writeQueue /\ n.events = h.events /\ n.lost = h.lost

\* Another link is as good.
LEMMA LinkTyped ==
    ASSUME NEW h \in HostType, NEW l \in Links
    PROVE  [h EXCEPT !.link = l] \in HostType /\ Linked(h, [h EXCEPT !.link = l])
BY DEF HostType, Linked

\* The link when a buffer comes back, when it opens, and with a packet more.
More(l) == [l EXCEPT !.avail = IF l.avail < MaxAcl THEN l.avail + 1 ELSE l.avail]
Opened(l) == [l EXCEPT !.open = TRUE]
Queued(l) == [l EXCEPT !.queued = l.queued + 1]

\* They are links.
LEMMA LinksTyped ==
    ASSUME NEW l \in Links
    PROVE  /\ More(l) \in Links /\ Opened(l) \in Links /\ Queued(l) \in Links
           /\ Closed \in Links
<1>1. MaxAcl \in Nat /\ l.avail \in 0 .. MaxAcl /\ l.queued \in Nat
  BY Assumptions DEF Links, Assumptions
<1>2. (IF l.avail < MaxAcl THEN l.avail + 1 ELSE l.avail) \in 0 .. MaxAcl
  BY <1>1
<1>3. l.queued + 1 \in Nat /\ MaxAcl \in 0 .. MaxAcl /\ 0 \in Nat
  BY <1>1
<1>4. More(l) \in Links
  BY <1>2 DEF More, Links
<1>5. Opened(l) \in Links
  BY DEF Opened, Links
<1>6. Queued(l) \in Links
  BY <1>3 DEF Queued, Links
<1>7. Closed \in Links
  BY <1>3 DEF Closed, Links
<1>. QED  BY <1>4, <1>5, <1>6, <1>7

\* What the completion of a command does.
LEMMA CommandsProcessed ==
    ASSUME NEW e \in Commands, NEW h
    PROVE  Process(e, h) = RecvCmpl(h)
<1>1. e # "acl" /\ e # "open" /\ e # "close"
  BY DEF Commands, Required
<1>. QED  BY <1>1 DEF Process

\* What an event that is no completion of a command does.
LEMMA ProcessIs ==
    ASSUME NEW e, NEW h \in HostType
    PROVE  IF e \in Commands THEN Process(e, h) = RecvCmpl(h)
           ELSE \E l \in Links : \/ Process(e, h) = TxReady([h EXCEPT !.link = l])
                                \/ Process(e, h) = [h EXCEPT !.link = l]
<1>1. h.link \in Links /\ h = [h EXCEPT !.link = h.link]
  BY DEF HostType
<1>2. CASE e \in Commands
  <2>1. Process(e, h) = RecvCmpl(h)
    BY <1>2, CommandsProcessed
  <2>. QED  BY <1>2, <2>1
<1>3. CASE e \notin Commands /\ e = "acl" /\ h.link.open
  <2>1. Process(e, h) = TxReady([h EXCEPT !.link = More(h.link)])
    BY <1>3 DEF Process, More
  <2>. QED
    BY <1>1, <1>3, <2>1, LinksTyped
<1>4. CASE e \notin Commands /\ e = "open"
  <2>1. Process(e, h) = [h EXCEPT !.link = Opened(h.link)]
    BY <1>4 DEF Process, Opened
  <2>. QED
    BY <1>1, <1>4, <2>1, LinksTyped
<1>5. CASE e \notin Commands /\ e = "close"
  <2>1. Process(e, h) = [h EXCEPT !.link = Closed]
    BY <1>5 DEF Process
  <2>. QED
    BY <1>1, <1>5, <2>1, LinksTyped
<1>6. CASE e \notin Commands /\ ~(e = "acl" /\ h.link.open) /\ e # "open" /\ e # "close"
  <2>1. Process(e, h) = h
    BY <1>6 DEF Process
  <2>. QED
    BY <1>1, <1>6, <2>1
<1>. QED  BY <1>2, <1>3, <1>4, <1>5, <1>6

\* hciEvtProcessMsg.
LEMMA ProcessAnnounces ==
    ASSUME NEW e, NEW h \in HostType
    PROVE  Process(e, h) \in HostType /\ Announced(h, Process(e, h))
<1>1. CASE e \in Commands
  BY <1>1, ProcessIs, RecvCmplAnnounces
<1>2. CASE e \notin Commands
  <2>1. PICK l \in Links : \/ Process(e, h) = TxReady([h EXCEPT !.link = l])
                           \/ Process(e, h) = [h EXCEPT !.link = l]
    BY <1>2, ProcessIs
  <2>. DEFINE m == [h EXCEPT !.link = l]
  <2>2. m \in HostType /\ Linked(h, m)
    BY LinkTyped
  <2>. HIDE DEF m
  <2>3. TxReady(m) \in HostType /\ Announced(m, TxReady(m))
    BY <2>2, TxReadyAnnounces
  <2>. QED
    BY <2>1, <2>2, <2>3 DEF Linked, Announced, m
<1>. QED  BY <1>1, <1>2

\* HciSendAclData.
LEMMA SendAclIs ==
    ASSUME NEW h \in HostType
    PROVE  \E l \in Links : SendAcl(h) = TxReady([h EXCEPT !.link = l])
<1>1. h.link \in Links
  BY DEF HostType
<1>2. SendAcl(h) = TxReady([h EXCEPT !.link = Queued(h.link)])
  BY DEF SendAcl, Queued
<1>. QED  BY <1>1, <1>2, LinksTyped

\* n of them, and no more than there is room for.
Acls(n) == [i \in 1 .. n |-> "acl"]

\* As many of n as there is room for.
LEMMA Fitted ==
    ASSUME NEW n \in Nat, NEW len \in Nat, NEW slots \in Nat, len <= slots
    PROVE  LET k == IF n < slots - len THEN n ELSE slots - len
           IN  k \in Nat /\ len + k <= slots
OBVIOUS

\* The packets written while the connections close find room.
LEMMA CloseAllIs ==
    ASSUME NEW n \in Nat, NEW h \in HostType
    PROVE  \E k \in Nat : LET m == CloseAll(n, h)
           IN  /\ m \in HostType /\ Announced(h, m)
               /\ m.writeQueue = h.writeQueue \o Acls(k)
               /\ m.cmdQueue = h.cmdQueue /\ m.lost = h.lost /\ m.link = Closed
<1>. DEFINE room == Slots - Len(h.writeQueue)
            k == IF n < room THEN n ELSE room
            w == h.writeQueue \o Acls(k)
            v == IF Acls(k) = <<>> THEN h.events ELSE h.events \cup {"transfer"}
            m == CloseAll(n, h)
<1>1. /\ h.writeQueue \in Seq(Packets) /\ Len(h.writeQueue) \in Nat
      /\ Len(h.writeQueue) <= Slots /\ Slots \in Nat
  BY Assumptions DEF HostType, Assumptions
<1>2. k \in Nat /\ Len(h.writeQueue) + k <= Slots
  BY <1>1, Fitted
<1>. HIDE DEF k
<1>3. Acls(k) \in Seq(Packets) /\ Len(Acls(k)) = k
  BY <1>2 DEF Acls, Packets
<1>4. w \in Seq(Packets) /\ Len(w) <= Slots
  BY <1>1, <1>2, <1>3
<1>5. v \in SUBSET {"transfer", "rx"} /\ h.events \subseteq v
  BY DEF HostType
<1>6. w = h.writeQueue \/ "transfer" \in v
  <2>1. CASE Acls(k) = <<>>
    BY <1>1, <2>1
  <2>. QED
    BY <2>1
<1>7. m = [h EXCEPT !.link = Closed, !.writeQueue = w, !.events = v]
  BY DEF CloseAll, Acls, k
<1>8. h.link \in Links
  BY DEF HostType
<1>9. Closed \in Links
  BY <1>8, LinksTyped
<1>. HIDE DEF w, v, m
<1>10. /\ m \in HostType /\ m.events = v /\ m.writeQueue = w
       /\ m.cmdQueue = h.cmdQueue /\ m.lost = h.lost /\ m.link = Closed
  BY <1>4, <1>5, <1>7, <1>9 DEF HostType
<1>11. Announced(h, m)
  BY <1>5, <1>6, <1>10 DEF Announced
<1>. QED  BY <1>2, <1>10, <1>11 DEF w, m

----------------------------------------------------------------------------
(* The inductive invariant, for faults in operation.                       *)

\* A reset itself is not disturbed (FaultPhases of the runs with FairSpec).
Undisturbed == "reset" \notin FaultPhases

\* A packet for the core has its event until the core's handler runs.
RxAnnounced == handler # "core" /\ rxQueue # <<>> => "rx" \in events

\* So have the packets of the driver; where its loop gave up, the heartbeat.
TransferAnnounced ==
    handler # "driver" /\ (ctl.out # <<>> \/ writeQueue # <<>>) =>
        "transfer" \in events \/ (transactions = MaxTransactions /\ heartbeat)

\* The loop goes on only below its bounds, and while nothing fails it counts no
\* more transactions than reads.
LoopBounded ==
    handler = "driver" => /\ transactions < MaxTransactions /\ reads < MaxReads
                          /\ Phase = "reset" => transactions <= reads

\* During a reset the controller answers, and it is not over before the
\* heartbeat's timer runs again.
ResetClean ==
    /\ Phase = "reset" => ctl.state = "ok"
    /\ ~heartbeat => Phase = "reset" /\ (resetting => rxQueue = <<>>)

IInv == /\ TypeOK
        /\ RxAnnounced /\ TransferAnnounced /\ LoopBounded /\ ResetClean

\* The host's queues have their type.
LEMMA HostTyped == TypeOK => Host \in HostType
BY DEF TypeOK, Host, HostType

\* What Becomes assigns.
LEMMA BecomesTyped ==
    ASSUME NEW h \in HostType, Becomes(h), Announced(Host, h)
    PROVE  /\ cmdQueue' \in Seq(Commands) /\ numCmdPkts' \in 0 .. 1
           /\ cmdTimer' \in BOOLEAN
           /\ writeQueue' \in Seq(Packets) /\ Len(writeQueue') <= Slots
           /\ link' \in Links /\ lost' \in BOOLEAN
           /\ events' \subseteq {"transfer", "rx"}
           /\ events \subseteq events' /\ (lost => lost')
           /\ writeQueue' = writeQueue \/ "transfer" \in events'
BY DEF Becomes, HostType, Host, Announced

\* A boot leaves the controller and the driver with nothing.
LEMMA RestartClears ==
    ASSUME Undisturbed, NEW f \in {0, 1}, NEW h \in HostType, Restart(f, h)
    PROVE  /\ f = 0
           /\ cmdQueue' = h.cmdQueue /\ numCmdPkts' = h.numCmdPkts
           /\ cmdTimer' = h.cmdTimer /\ link' = h.link /\ lost' = h.lost
           /\ writeQueue' = <<>> /\ events' = h.events
           /\ heartbeat' = FALSE /\ resets' = resets + 1
           /\ ctl' = Booted("ok")
<1>1. f = 0
  BY DEF Undisturbed, Restart, Reboot, May
<1>. QED  BY <1>1 DEF Restart, Reboot, Becomes, HostType

----------------------------------------------------------------------------
(* The invariant holds initially and every step keeps it.                  *)

\* The bounds of the driver's loop, one by one.
LEMMA Bounds == /\ Slots \in Nat \ {0} /\ MaxTransactions \in Nat \ {0}
                /\ MaxReads \in Nat \ {0} /\ MaxReads < MaxTransactions
BY Assumptions DEF Assumptions

\* The radio has been booted and the application asks for the reset.
LEMMA InitIInv == Init => IInv
<1>. SUFFICES ASSUME Init PROVE IInv
  OBVIOUS
<1>1. TypeOK
  <2>1. ctl \in [state : {"ok", "stalled", "hung", "off"}, in : Seq(Packets),
                 out : Seq(Received), had : SUBSET Required]
    BY DEF Init, Booted
  <2>2. writeQueue \in Seq(Packets) /\ Len(writeQueue) <= Slots
    BY Assumptions DEF Init, Assumptions
  <2>3. transactions \in 0 .. MaxTransactions /\ reads \in 0 .. MaxReads
    BY Assumptions DEF Init, Assumptions
  <2>4. cmdQueue \in Seq(Commands) /\ rxQueue \in Seq(Received)
    BY DEF Init
  <2>5. numCmdPkts \in 0 .. 1 /\ resets \in Nat
    BY DEF Init
  <2>6. link \in Links
    BY Assumptions DEF Init, Closed, Links, Assumptions
  <2>. QED
    BY <2>1, <2>2, <2>3, <2>4, <2>5, <2>6 DEF Init, TypeOK
<1>. QED
  BY <1>1 DEF Init, IInv, RxAnnounced, TransferAnnounced, LoopBounded, ResetClean,
     Phase, Booted

\* The driver's handler begins with its counts at zero.
LEMMA DriverStartKeeps ==
    ASSUME IInv, DriverStart
    PROVE  IInv'
<1>. USE DEF DriverStart, IInv, commandVars, coreVars, bounds
<1>1. {0} \subseteq 0 .. MaxTransactions \cap 0 .. MaxReads /\ 0 < MaxTransactions
        /\ 0 < MaxReads
  BY Assumptions DEF Assumptions
<1>2. TypeOK'
  BY <1>1 DEF TypeOK
<1>. QED
  BY <1>1, <1>2 DEF RxAnnounced, TransferAnnounced, LoopBounded, ResetClean, Phase

\* A packet that is read is in the core's queue with an event, or dropped.
LEMMA DeliverKeeps ==
    ASSUME TypeOK, NEW p \in Received, NEW f \in {0, 1}, Deliver(p, f)
    PROVE  /\ rxQueue' \in Seq(Received)
           /\ Notified(f, Host) \in HostType
           /\ Announced(Host, Notified(f, Host))
           /\ Notified(f, Host).writeQueue = writeQueue
           /\ rxQueue' = rxQueue \/ "rx" \in Notified(f, Host).events
<1>1. rxQueue' \in Seq(Received)
  BY DEF Deliver, TypeOK
<1>2. Host \in HostType /\ Host.writeQueue = writeQueue
  BY HostTyped DEF Host
<1>3. CASE f = 1
  BY <1>1, <1>2, <1>3 DEF Deliver, Notified, Announced
<1>4. CASE f = 0
  <2>1. Notified(f, Host) = [Host EXCEPT !.events = Host.events \cup {"rx"}]
    BY <1>4 DEF Notified
  <2>2. Host.events \cup {"rx"} \in SUBSET {"transfer", "rx"}
    BY <1>2 DEF HostType
  <2>. QED
    BY <1>1, <1>2, <2>1, <2>2 DEF HostType, Announced
<1>. QED  BY <1>3, <1>4

\* A read below the bounds: the loop goes on, or gives up with the heartbeat
\* started.
LEMMA DriverReadKeeps ==
    ASSUME IInv, DriverRead
    PROVE  IInv'
<1>. USE DEF IInv
<1>1. /\ handler = "driver" /\ ctl.out # <<>> /\ reads + 1 < MaxReads
      /\ ctl' = [ctl EXCEPT !.out = Tail(ctl.out)]
      /\ heartbeat' = TRUE /\ transactions' = transactions + 1 /\ reads' = reads + 1
      /\ handler' = IF transactions + 1 = MaxTransactions THEN "none" ELSE "driver"
      /\ resetting' = resetting /\ resets' = resets
  BY DEF DriverRead, InLoop, Irq, OrGiveUp, LastRound
<1>2. PICK f \in {0, 1} : Deliver(Head(ctl.out), f) /\ Becomes(Notified(f, Host))
  BY DEF DriverRead
<1>3. Head(ctl.out) \in Received /\ Tail(ctl.out) \in Seq(Received)
  BY <1>1 DEF TypeOK
<1>4. /\ rxQueue' \in Seq(Received)
      /\ rxQueue' = rxQueue \/ "rx" \in events'
      /\ Notified(f, Host) \in HostType /\ Announced(Host, Notified(f, Host))
  BY <1>2, <1>3, DeliverKeeps DEF Becomes
<1>5. transactions' \in 0 .. MaxTransactions /\ reads' \in 0 .. MaxReads
  <2>1. transactions \in 0 .. MaxTransactions /\ transactions < MaxTransactions
    BY <1>1 DEF TypeOK, LoopBounded
  <2>2. reads \in 0 .. MaxReads
    BY DEF TypeOK
  <2>. QED
    BY <1>1, <2>1, <2>2, Bounds
<1>6. ctl' \in [state : {"ok", "stalled", "hung", "off"}, in : Seq(Packets),
                out : Seq(Received), had : SUBSET Required]
        /\ ctl'.state = ctl.state
  BY <1>1, <1>3 DEF TypeOK
<1>7. TypeOK'
  BY <1>1, <1>2, <1>4, <1>5, <1>6, BecomesTyped DEF TypeOK
<1>8. RxAnnounced'
  BY <1>1, <1>2, <1>4, BecomesTyped DEF RxAnnounced
<1>9. TransferAnnounced'
  BY <1>1 DEF TransferAnnounced
<1>10. LoopBounded'
  <2>. SUFFICES ASSUME handler' = "driver"
                PROVE  /\ transactions' < MaxTransactions /\ reads' < MaxReads
                       /\ Phase' = "reset" => transactions' <= reads'
    BY DEF LoopBounded
  <2>1. /\ transactions < MaxTransactions /\ transactions + 1 # MaxTransactions
        /\ Phase = "reset" => transactions <= reads
    BY <1>1 DEF LoopBounded
  <2>2. transactions \in Nat /\ reads \in Nat
    BY Bounds DEF TypeOK
  <2>. QED
    BY <1>1, <2>1, <2>2, Bounds DEF Phase
<1>11. ResetClean'
  BY <1>1, <1>6 DEF ResetClean, Phase
<1>. QED  BY <1>7, <1>8, <1>9, <1>10, <1>11

\* A restart from the driver's loop: not in a reset, whose loop is never at its
\* bounds, and nothing is left to transfer.
LEMMA RecoverKeeps ==
    ASSUME IInv, Undisturbed, Phase = "up", handler = "driver",
           NEW f \in {0, 1}, NEW h \in HostType, Announced(Host, h), Recover(f, h),
           rxQueue' \in Seq(Received),
           rxQueue' = rxQueue \/ "rx" \in h.events,
           handler' = "none", UNCHANGED <<transactions, reads, resetting>>
    PROVE  IInv'
<1>. USE DEF IInv
<1>. DEFINE n == [h EXCEPT !.writeQueue = <<>>]
<1>1. n \in HostType /\ n.events = h.events
  <2>1. <<>> \in {q \in Seq(Packets) : Len(q) <= Slots}
    BY Assumptions DEF Assumptions
  <2>. QED
    BY <2>1 DEF HostType
<1>2. Restart(f, n)
  BY DEF Recover
<1>. HIDE DEF n
<1>3. /\ cmdQueue' = n.cmdQueue /\ numCmdPkts' = n.numCmdPkts /\ cmdTimer' = n.cmdTimer
      /\ link' = n.link /\ lost' = n.lost
      /\ writeQueue' = <<>> /\ events' = h.events
      /\ heartbeat' = FALSE /\ resets' = resets + 1 /\ ctl' = Booted("ok")
  BY <1>1, <1>2, RestartClears
<1>4. resetting = FALSE /\ events \subseteq events' /\ events' \subseteq {"transfer", "rx"}
  BY <1>3 DEF Phase, Announced, Host, HostType, TypeOK
<1>5. resets' \in Nat /\ resets' > 0
  BY <1>3 DEF TypeOK
<1>6. ctl' \in [state : {"ok", "stalled", "hung", "off"}, in : Seq(Packets),
                out : Seq(Received), had : SUBSET Required]
        /\ ctl'.state = "ok" /\ ctl'.out = <<>>
  BY <1>3 DEF Booted
<1>7. TypeOK'
  <2>1. /\ cmdQueue' \in Seq(Commands) /\ numCmdPkts' \in 0 .. 1
        /\ cmdTimer' \in BOOLEAN /\ link' \in Links /\ lost' \in BOOLEAN
    BY <1>1, <1>3 DEF HostType
  <2>2. writeQueue' \in Seq(Packets) /\ Len(writeQueue') <= Slots
    BY <1>3, Assumptions DEF Assumptions
  <2>. QED
    BY <1>3, <1>4, <1>5, <1>6, <2>1, <2>2 DEF TypeOK
<1>. QED
  BY <1>3, <1>4, <1>5, <1>6, <1>7 DEF RxAnnounced, TransferAnnounced, LoopBounded,
     ResetClean, Phase

\* The last read of a run of them: the event is set again, or the loop's bound
\* is met and the controller restarted.
LEMMA DriverReadLastKeeps ==
    ASSUME IInv, Undisturbed, DriverReadLast
    PROVE  IInv'
<1>. USE DEF IInv
<1>1. /\ handler = "driver" /\ ctl.out # <<>> /\ reads + 1 = MaxReads
      /\ handler' = "none" /\ UNCHANGED <<transactions, reads, resetting>>
  BY DEF DriverReadLast, InLoop, Irq
<1>2. Head(ctl.out) \in Received /\ Tail(ctl.out) \in Seq(Received)
  BY <1>1 DEF TypeOK
<1>3. PICK f \in {0, 1}, g \in {0, 1} :
        LET h == ComeBack(Notified(f, Host))
        IN  /\ Deliver(Head(ctl.out), f)
            /\ IF LastRound THEN Recover(g, h)
               ELSE /\ g = 0 /\ Becomes(h)
                    /\ ctl' = [ctl EXCEPT !.out = Tail(ctl.out)]
                    /\ heartbeat' = TRUE
                    /\ UNCHANGED resets
  BY DEF DriverReadLast
<1>. DEFINE h == ComeBack(Notified(f, Host))
<1>4. /\ rxQueue' \in Seq(Received)
      /\ rxQueue' = rxQueue \/ "rx" \in Notified(f, Host).events
      /\ Notified(f, Host) \in HostType /\ Announced(Host, Notified(f, Host))
  BY <1>2, <1>3, DeliverKeeps
<1>5. /\ h \in HostType /\ "transfer" \in h.events
      /\ Notified(f, Host).events \subseteq h.events
      /\ Announced(Host, h)
  BY <1>4 DEF ComeBack, HostType, Announced
<1>. HIDE DEF h
<1>6. CASE LastRound
  <2>1. Recover(g, h)
    BY <1>3, <1>6 DEF h
  <2>2. Phase = "up"
    BY <1>1, <1>6, Bounds DEF LastRound, LoopBounded, Phase, TypeOK
  <2>. QED
    BY <1>1, <1>4, <1>5, <2>1, <2>2, RecoverKeeps
<1>7. CASE ~LastRound
  <2>1. /\ Becomes(h) /\ ctl' = [ctl EXCEPT !.out = Tail(ctl.out)]
        /\ heartbeat' = TRUE /\ resets' = resets
    BY <1>3, <1>7 DEF h
  <2>2. ctl' \in [state : {"ok", "stalled", "hung", "off"}, in : Seq(Packets),
                  out : Seq(Received), had : SUBSET Required]
          /\ ctl'.state = ctl.state
    BY <1>2, <2>1 DEF TypeOK
  <2>3. events' = h.events
    BY <2>1 DEF Becomes
  <2>4. TypeOK'
    BY <1>1, <1>4, <1>5, <2>1, <2>2, BecomesTyped DEF TypeOK
  <2>5. RxAnnounced'
    <3>1. events \subseteq events'
      BY <1>5, <2>1, BecomesTyped
    <3>2. rxQueue' = rxQueue \/ "rx" \in events'
      BY <1>4, <1>5, <2>3
    <3>. QED
      BY <1>1, <3>1, <3>2 DEF RxAnnounced
  <2>6. TransferAnnounced'
    BY <1>5, <2>3 DEF TransferAnnounced
  <2>. QED
    BY <1>1, <2>1, <2>2, <2>4, <2>5, <2>6 DEF LoopBounded, ResetClean, Phase
<1>. QED  BY <1>6, <1>7

\* A read that fails, in operation.
LEMMA DriverReadFailsKeeps ==
    ASSUME IInv, Undisturbed, DriverReadFails
    PROVE  IInv'
<1>1. /\ handler = "driver" /\ handler' = "none"
      /\ UNCHANGED <<transactions, reads, rxQueue, resetting>>
      /\ Phase \in FaultPhases
  BY DEF DriverReadFails, InLoop, May
<1>2. PICK f \in {0, 1} : Recover(f, Host)
  BY DEF DriverReadFails
<1>3. Phase = "up"
  BY <1>1 DEF Undisturbed, Phase
<1>4. Host \in HostType /\ Announced(Host, Host)
  BY HostTyped DEF IInv, Announced
<1>. QED  BY <1>1, <1>2, <1>3, <1>4, RecoverKeeps DEF IInv, TypeOK

\* A packet that is written is the controller's.
LEMMA DriverWritesKeeps ==
    ASSUME IInv, DriverWrites
    PROVE  IInv'
<1>. USE DEF IInv
<1>1. /\ handler = "driver" /\ writeQueue # <<>> /\ writeQueue' = Tail(writeQueue)
      /\ heartbeat' = TRUE /\ transactions' = 0
      /\ UNCHANGED <<cmdQueue, numCmdPkts, cmdTimer, link, lost, events, handler, reads, rxQueue,
                     resetting, resets>>
      /\ ctl' = IF ctl.state = "off" THEN ctl
                ELSE [ctl EXCEPT !.in = Append(ctl.in, Head(writeQueue))]
  BY DEF DriverWrites, InLoop, commandVars, coreVars
<1>2. /\ Head(writeQueue) \in Packets /\ Tail(writeQueue) \in Seq(Packets)
      /\ Len(Tail(writeQueue)) <= Slots
  <2>1. writeQueue \in Seq(Packets) /\ Len(writeQueue) <= Slots
    BY DEF TypeOK
  <2>2. /\ Head(writeQueue) \in Packets /\ Tail(writeQueue) \in Seq(Packets)
        /\ Len(Tail(writeQueue)) = Len(writeQueue) - 1 /\ Len(writeQueue) \in Nat
    BY <1>1, <2>1
  <2>. QED
    BY <2>1, <2>2, Bounds
<1>3. Append(ctl.in, Head(writeQueue)) \in Seq(Packets)
  BY <1>2 DEF TypeOK
<1>4. ctl' \in [state : {"ok", "stalled", "hung", "off"}, in : Seq(Packets),
                out : Seq(Received), had : SUBSET Required]
        /\ ctl'.state = ctl.state
  BY <1>1, <1>3 DEF TypeOK
<1>5. transactions' \in 0 .. MaxTransactions /\ transactions' < MaxTransactions
        /\ transactions' <= reads
  BY <1>1, Bounds DEF TypeOK
<1>6. TypeOK'
  BY <1>1, <1>2, <1>4, <1>5 DEF TypeOK
<1>. QED
  BY <1>1, <1>4, <1>5, <1>6 DEF RxAnnounced, TransferAnnounced, LoopBounded,
     ResetClean, Phase

\* A write that fails: the controller stalls or hangs, so no reset is under way
\* and the heartbeat runs.
LEMMA DriverWriteFailsKeeps ==
    ASSUME IInv, DriverWriteFails
    PROVE  IInv'
<1>. USE DEF IInv
<1>1. /\ handler = "driver" /\ ctl.state # "ok"
      /\ transactions' = transactions + 1
      /\ handler' = IF transactions + 1 = MaxTransactions THEN "none" ELSE "driver"
      /\ UNCHANGED <<cmdQueue, numCmdPkts, cmdTimer, link, lost, events, writeQueue, heartbeat,
                     reads, rxQueue, resetting, resets, ctl>>
  BY DEF DriverWriteFails, InLoop, OrGiveUp, LastRound, commandVars, coreVars
<1>2. Phase = "up" /\ Phase' = "up" /\ heartbeat = TRUE
  BY <1>1 DEF ResetClean, Phase, TypeOK
<1>3. /\ transactions' \in 0 .. MaxTransactions
      /\ handler' = "driver" => transactions' < MaxTransactions
  <2>1. transactions \in 0 .. MaxTransactions /\ transactions < MaxTransactions
    BY <1>1 DEF TypeOK, LoopBounded
  <2>. QED
    BY <1>1, <2>1, Bounds
<1>4. TypeOK'
  BY <1>1, <1>3 DEF TypeOK
<1>. QED
  BY <1>1, <1>2, <1>3, <1>4 DEF RxAnnounced, TransferAnnounced, LoopBounded, ResetClean

\* The loop ends with nothing left, or at its bound.
LEMMA DriverDoneKeeps ==
    ASSUME IInv, Undisturbed, DriverDone
    PROVE  IInv'
<1>. USE DEF IInv
<1>1. /\ handler = "driver" /\ ctl.out = <<>> /\ writeQueue = <<>> /\ handler' = "none"
      /\ UNCHANGED <<transactions, reads, rxQueue, resetting>>
  BY DEF DriverDone, InLoop, Irq
<1>2. CASE LastRound
  <2>1. PICK f \in {0, 1} : Recover(f, Host)
    BY <1>2 DEF DriverDone
  <2>2. Phase = "up"
    BY <1>1, <1>2, Bounds DEF LastRound, LoopBounded, Phase, TypeOK
  <2>3. Host \in HostType /\ Announced(Host, Host)
    BY HostTyped DEF Announced
  <2>. QED
    BY <1>1, <2>1, <2>2, <2>3, RecoverKeeps DEF TypeOK
<1>3. CASE ~LastRound
  <2>1. UNCHANGED <<cmdQueue, numCmdPkts, cmdTimer, link, lost, events, writeQueue, heartbeat,
                    resets, ctl>>
    BY <1>3 DEF DriverDone, commandVars
  <2>2. TypeOK'
    BY <1>1, <2>1 DEF TypeOK
  <2>. QED
    BY <1>1, <2>1, <2>2 DEF RxAnnounced, TransferAnnounced, LoopBounded, ResetClean,
       Phase
<1>. QED  BY <1>2, <1>3

\* The core's handler takes the event.
LEMMA CoreStartKeeps ==
    ASSUME IInv, CoreStart
    PROVE  IInv'
<1>. USE DEF CoreStart, IInv, commandVars, coreVars
<1>1. TypeOK'
  BY DEF TypeOK
<1>. QED
  BY <1>1 DEF RxAnnounced, TransferAnnounced, LoopBounded, ResetClean, Phase

\* An event ends a reset only when a packet was read, which started the
\* heartbeat.
LEMMA CoreEventKeeps ==
    ASSUME IInv, CoreEvent
    PROVE  IInv'
<1>. USE DEF IInv
<1>1. /\ handler = "core" /\ handler' = "core" /\ rxQueue # <<>>
      /\ rxQueue' = Tail(rxQueue)
      /\ UNCHANGED <<heartbeat, transactions, reads, resets, ctl>>
      /\ resetting' \in BOOLEAN /\ (resetting' => resetting)
  BY DEF CoreEvent
<1>2. rxQueue' \in Seq(Received)
  BY <1>1 DEF TypeOK
<1>3. PICK h \in HostType : Becomes(h) /\ Announced(Host, h)
  <2>. DEFINE e == Head(rxQueue)
              g == Process(e, Host)
  <2>1. Host \in HostType
    BY HostTyped
  <2>2. g \in HostType /\ Announced(Host, g)
    BY <2>1, ProcessAnnounces
  <2>3. Becomes(IF resetting THEN Continue(e, g) ELSE g)
    BY DEF CoreEvent
  <2>. HIDE DEF g, e
  <2>4. /\ Continue(e, g) \in HostType /\ Announced(g, Continue(e, g))
    BY <2>2, ContinueAnnounces
  <2>5. Announced(Host, Continue(e, g))
    BY <2>2, <2>4 DEF Announced
  <2>. QED
    BY <2>2, <2>3, <2>4, <2>5
<1>4. TypeOK'
  BY <1>1, <1>2, <1>3, BecomesTyped DEF TypeOK
<1>5. RxAnnounced' /\ LoopBounded'
  BY <1>1 DEF RxAnnounced, LoopBounded
<1>6. TransferAnnounced'
  BY <1>1, <1>3, BecomesTyped DEF TransferAnnounced
<1>7. ResetClean'
  <2>1. Phase' = "reset" => Phase = "reset"
    BY <1>1 DEF Phase
  <2>2. ~heartbeat => resets > 0 /\ ~resetting
    BY <1>1 DEF ResetClean, Phase
  <2>. QED
    BY <1>1, <2>1, <2>2 DEF ResetClean, Phase
<1>. QED  BY <1>4, <1>5, <1>6, <1>7

\* The core's handler leaves with its queue empty.
LEMMA CoreDoneKeeps ==
    ASSUME IInv, CoreDone
    PROVE  IInv'
<1>. USE DEF CoreDone, IInv, commandVars, coreVars
<1>1. TypeOK'
  BY DEF TypeOK
<1>. QED
  BY <1>1 DEF RxAnnounced, TransferAnnounced, LoopBounded, ResetClean, Phase

\* A step that does no more than send or queue something for the controller,
\* between handlers.
LEMMA HostStepKeeps ==
    ASSUME IInv, handler = "none", NEW h \in HostType, Announced(Host, h), Becomes(h),
           UNCHANGED <<heartbeat, handler, transactions, reads, rxQueue, resetting,
                       resets, ctl>>
    PROVE  IInv'
<1>. USE DEF IInv
<1>1. TypeOK'
  BY BecomesTyped DEF TypeOK
<1>2. RxAnnounced' /\ TransferAnnounced'
  BY BecomesTyped DEF RxAnnounced, TransferAnnounced
<1>. QED  BY <1>1, <1>2 DEF LoopBounded, ResetClean, Phase

\* A reset empties the core's queue, or is forgotten.
LEMMA DmResetKeeps ==
    ASSUME IInv, DmReset
    PROVE  IInv'
<1>. USE DEF IInv
<1>1. /\ handler = "none" /\ resets > 0 /\ resets' = resets - 1 /\ resets' \in Nat
      /\ UNCHANGED <<heartbeat, handler, transactions, reads, ctl>>
  BY DEF DmReset, TypeOK
<1>2. CASE resetting
  <2>1. UNCHANGED <<cmdQueue, numCmdPkts, cmdTimer, link, lost, events, writeQueue, rxQueue,
                    resetting>>
    BY <1>2 DEF DmReset, commandVars
  <2>2. TypeOK'
    BY <1>1, <2>1 DEF TypeOK
  <2>. QED
    BY <1>1, <1>2, <2>1, <2>2 DEF RxAnnounced, TransferAnnounced, LoopBounded,
       ResetClean, Phase
<1>3. CASE ~resetting
  <2>. PICK n \in 0 .. link.queued : Becomes(CmdSend("address", ResetCmd(CloseAll(n, Host))))
    BY <1>3 DEF DmReset
  <2>1. resetting' = TRUE /\ rxQueue' = <<>>
    BY <1>3 DEF DmReset
  <2>. DEFINE m == CloseAll(n, Host)
              h == CmdSend("address", ResetCmd(m))
  <2>2. h \in HostType /\ Announced(Host, h)
    <3>1. Host \in HostType /\ "address" \in Commands /\ n \in Nat
      BY HostTyped DEF Commands, Required, TypeOK, Links
    <3>4. m \in HostType /\ Announced(Host, m)
      BY <3>1, CloseAllIs
    <3>. HIDE DEF m
    <3>2. ResetCmd(m) \in HostType /\ Announced(m, ResetCmd(m))
      BY <3>4, ResetCmdAnnounces
    <3>3. h \in HostType /\ Announced(ResetCmd(m), h)
      BY <3>1, <3>2, CmdSendAnnounces
    <3>. QED
      BY <3>2, <3>3, <3>4 DEF Announced
  <2>. HIDE DEF h
  <2>3. Becomes(h)
    BY DEF h
  <2>4. <<>> \in Seq(Received)
    OBVIOUS
  <2>5. TypeOK'
    BY <1>1, <2>1, <2>2, <2>3, <2>4, BecomesTyped DEF TypeOK
  <2>6. RxAnnounced' /\ LoopBounded'
    BY <1>1, <2>1 DEF RxAnnounced, LoopBounded
  <2>7. TransferAnnounced'
    BY <1>1, <2>2, <2>3, BecomesTyped DEF TransferAnnounced
  <2>8. ResetClean'
    BY <1>1, <2>1 DEF ResetClean, Phase
  <2>. QED  BY <2>5, <2>6, <2>7, <2>8
<1>. QED  BY <1>2, <1>3

\* A command or a packet of the application.
LEMMA AppSendsKeeps ==
    ASSUME IInv, AppSends
    PROVE  IInv'
<1>1. /\ handler = "none"
      /\ UNCHANGED <<heartbeat, handler, transactions, reads, rxQueue, resetting,
                     resets, ctl>>
      /\ Becomes(CmdSend("other", Host)) \/ Becomes(SendAcl(Host))
  BY DEF AppSends, coreVars
<1>2. Host \in HostType /\ "other" \in Commands
  BY HostTyped DEF IInv, Commands
<1>3. SendAcl(Host) \in HostType /\ Announced(Host, SendAcl(Host))
  <2>1. PICK l \in Links : SendAcl(Host) = TxReady([Host EXCEPT !.link = l])
    BY <1>2, SendAclIs
  <2>. DEFINE m == [Host EXCEPT !.link = l]
  <2>2. m \in HostType /\ Linked(Host, m)
    BY <1>2, LinkTyped
  <2>. HIDE DEF m
  <2>3. TxReady(m) \in HostType /\ Announced(m, TxReady(m))
    BY <2>2, TxReadyAnnounces
  <2>. QED
    BY <2>1, <2>2, <2>3 DEF Linked, Announced, m
<1>. QED  BY <1>1, <1>2, <1>3, CmdSendAnnounces, HostStepKeeps

\* The heartbeat's command.
LEMMA HeartbeatKeeps ==
    ASSUME IInv, Heartbeat
    PROVE  IInv'
<1>1. /\ handler = "none"
      /\ UNCHANGED <<heartbeat, handler, transactions, reads, rxQueue, resetting,
                     resets, ctl>>
      /\ Becomes(CmdSend("other", Host)) \/ Becomes(Host)
  BY DEF Heartbeat, Quiet, coreVars
<1>2. Host \in HostType /\ "other" \in Commands /\ Announced(Host, Host)
  BY HostTyped DEF IInv, Commands, Announced
<1>. QED  BY <1>1, <1>2, CmdSendAnnounces, HostStepKeeps

\* The time-out of a command restarts the controller: when all is quiet, with
\* the core's queue empty, or in operation.
LEMMA CmdTimeoutKeeps ==
    ASSUME IInv, Undisturbed, CmdTimeout
    PROVE  IInv'
<1>. USE DEF IInv
<1>1. /\ handler = "none"
      /\ UNCHANGED <<handler, transactions, reads, rxQueue, resetting>>
  BY DEF CmdTimeout
<1>. DEFINE h == [Host EXCEPT !.cmdTimer = FALSE]
<1>3. h \in HostType /\ h.events = events /\ FALSE \in BOOLEAN
  BY HostTyped DEF HostType, Host
<1>. HIDE DEF h
<1>2. PICK f \in {0, 1}, g \in {0, 1} :
        (f = 0 => Quiet) /\ (f = 1 => May(1, Phase)) /\ Restart(g, h)
  BY DEF CmdTimeout, h
<1>4. /\ cmdQueue' = h.cmdQueue /\ numCmdPkts' = h.numCmdPkts /\ cmdTimer' = h.cmdTimer
      /\ link' = h.link /\ lost' = h.lost
      /\ writeQueue' = <<>> /\ events' = events
      /\ heartbeat' = FALSE /\ resets' = resets + 1 /\ ctl' = Booted("ok")
  BY <1>2, <1>3, RestartClears
<1>5. resets' \in Nat /\ resets' > 0
  BY <1>4 DEF TypeOK
<1>6. ctl' \in [state : {"ok", "stalled", "hung", "off"}, in : Seq(Packets),
                out : Seq(Received), had : SUBSET Required]
        /\ ctl'.state = "ok" /\ ctl'.out = <<>>
  BY <1>4 DEF Booted
<1>7. TypeOK'
  <2>1. /\ cmdQueue' \in Seq(Commands) /\ numCmdPkts' \in 0 .. 1
        /\ cmdTimer' \in BOOLEAN /\ link' \in Links /\ lost' \in BOOLEAN
    BY <1>3, <1>4 DEF HostType
  <2>2. writeQueue' \in Seq(Packets) /\ Len(writeQueue') <= Slots
    BY <1>4, Bounds
  <2>. QED
    BY <1>1, <1>4, <1>5, <1>6, <2>1, <2>2 DEF TypeOK
<1>8. resetting => rxQueue = <<>>
  <2>1. CASE f = 0
    BY <1>1, <1>2, <2>1 DEF Quiet, RxAnnounced
  <2>2. CASE f = 1
    BY <1>2, <2>2 DEF May, Undisturbed, Phase
  <2>. QED  BY <2>1, <2>2
<1>. QED
  BY <1>1, <1>4, <1>5, <1>6, <1>7, <1>8 DEF RxAnnounced, TransferAnnounced,
     LoopBounded, ResetClean, Phase

\* A step of the controller that fills its output with an interrupt, or is seen
\* by the driver's loop.
LEMMA ControllerKeeps ==
    ASSUME IInv,
           ctl' \in [state : {"ok", "stalled", "hung", "off"}, in : Seq(Packets),
                     out : Seq(Received), had : SUBSET Required],
           ctl'.state = "ok",
           Raise \/ (ctl'.out = ctl.out /\ events' = events),
           UNCHANGED <<cmdQueue, numCmdPkts, cmdTimer, link, lost, writeQueue, heartbeat, handler,
                       transactions, reads, rxQueue, resetting, resets>>
    PROVE  IInv'
<1>. USE DEF IInv
<1>1. /\ events \subseteq events' /\ events' \subseteq {"transfer", "rx"}
      /\ handler # "driver" => ctl'.out = ctl.out \/ "transfer" \in events'
  BY DEF Raise, TypeOK
<1>2. TypeOK'
  BY <1>1 DEF TypeOK
<1>. QED
  BY <1>1, <1>2 DEF RxAnnounced, TransferAnnounced, LoopBounded, ResetClean, Phase

\* An answer, a report, or going on after a stall.
LEMMA CtlAnswersKeeps ==
    ASSUME IInv, CtlAnswers \/ CtlReports \/ CtlGoesOn
    PROVE  IInv'
<1>. USE DEF IInv
<1>1. UNCHANGED <<cmdQueue, numCmdPkts, cmdTimer, link, lost, writeQueue, heartbeat, handler,
                  transactions, reads, rxQueue, resetting, resets>>
  BY DEF CtlAnswers, CtlReports, CtlGoesOn, commandVars, driverVars, coreVars
<1>2. CASE CtlAnswers
  <2>. DEFINE p == Head(ctl.in)
              had == IF p = "reset" THEN {p} ELSE ctl.had \cup ({p} \cap Required)
              in == Tail(ctl.in)
              out == Append(ctl.out, p)
  <2>1. /\ ctl.state = "ok" /\ ctl.in # <<>>
        /\ \/ ctl' = [ctl EXCEPT !.in = in] /\ events' = events
           \/ ctl' = [ctl EXCEPT !.in = in, !.out = out, !.had = had] /\ Raise
    BY <1>2 DEF CtlAnswers
  <2>2. p \in Packets /\ in \in Seq(Packets)
    BY <2>1 DEF TypeOK
  <2>3. out \in Seq(Received)
    BY <2>2 DEF TypeOK, Received
  <2>4. had \in SUBSET Required
    BY DEF TypeOK, Required
  <2>. HIDE DEF p, had, in, out
  <2>5. /\ ctl' \in [state : {"ok", "stalled", "hung", "off"}, in : Seq(Packets),
                     out : Seq(Received), had : SUBSET Required]
        /\ ctl'.state = "ok"
        /\ Raise \/ (ctl'.out = ctl.out /\ events' = events)
    BY <2>1, <2>2, <2>3, <2>4 DEF TypeOK
  <2>. QED  BY <1>1, <2>5, ControllerKeeps
<1>3. CASE CtlReports
  <2>1. PICK e \in Unasked : ctl' = [ctl EXCEPT !.out = Append(ctl.out, e)]
    BY <1>3 DEF CtlReports
  <2>. DEFINE out == Append(ctl.out, e)
  <2>2. ctl.state = "ok" /\ Raise /\ ctl' = [ctl EXCEPT !.out = out]
    BY <1>3, <2>1 DEF CtlReports
  <2>3. out \in Seq(Received)
    BY DEF TypeOK, Received
  <2>. HIDE DEF out
  <2>4. ctl' \in [state : {"ok", "stalled", "hung", "off"}, in : Seq(Packets),
                  out : Seq(Received), had : SUBSET Required]
          /\ ctl'.state = "ok"
    BY <2>2, <2>3 DEF TypeOK
  <2>. QED  BY <1>1, <2>2, <2>4, ControllerKeeps
<1>4. CASE CtlGoesOn
  <2>1. /\ ctl' \in [state : {"ok", "stalled", "hung", "off"}, in : Seq(Packets),
                     out : Seq(Received), had : SUBSET Required]
        /\ ctl'.state = "ok" /\ ctl'.out = ctl.out /\ events' = events
    BY <1>4 DEF CtlGoesOn, TypeOK
  <2>. QED  BY <1>1, <2>1, ControllerKeeps
<1>. QED  BY <1>2, <1>3, <1>4

\* The controller stalls or hangs in operation only.
LEMMA CtlFailsKeeps ==
    ASSUME IInv, Undisturbed, CtlFails
    PROVE  IInv'
<1>. USE DEF IInv
<1>1. /\ UNCHANGED <<cmdQueue, numCmdPkts, cmdTimer, link, lost, events, writeQueue, heartbeat,
                     handler, transactions, reads, rxQueue, resetting, resets>>
      /\ Phase = "up"
      /\ \E s \in {"stalled", "hung"} : ctl' = [ctl EXCEPT !.state = s]
  BY DEF CtlFails, May, Undisturbed, Phase, commandVars, driverVars, coreVars
<1>2. ctl' \in [state : {"ok", "stalled", "hung", "off"}, in : Seq(Packets),
                out : Seq(Received), had : SUBSET Required]
        /\ ctl'.out = ctl.out
  BY <1>1 DEF TypeOK
<1>3. TypeOK'
  BY <1>1, <1>2 DEF TypeOK
<1>. QED
  BY <1>1, <1>2, <1>3 DEF RxAnnounced, TransferAnnounced, LoopBounded, ResetClean, Phase

\* Every step keeps the invariant.
LEMMA NextKeeps == Undisturbed /\ IInv /\ [Next]_vars => IInv'
<1>. SUFFICES ASSUME Undisturbed, IInv, [Next]_vars PROVE IInv'
  OBVIOUS
<1>1. CASE Driver
  BY <1>1, DriverStartKeeps, DriverReadKeeps, DriverReadLastKeeps, DriverReadFailsKeeps,
     DriverWritesKeeps, DriverWriteFailsKeeps, DriverDoneKeeps DEF Driver
<1>2. CASE Core \/ DmReset \/ AppSends \/ CmdTimeout \/ Heartbeat
  BY <1>2, CoreStartKeeps, CoreEventKeeps, CoreDoneKeeps, DmResetKeeps, AppSendsKeeps,
     CmdTimeoutKeeps, HeartbeatKeeps DEF Core
<1>3. CASE Controller
  BY <1>3, CtlAnswersKeeps, CtlFailsKeeps DEF Controller
<1>4. CASE UNCHANGED vars
  BY <1>4 DEF vars, commandVars, driverVars, coreVars, IInv, TypeOK, RxAnnounced,
     TransferAnnounced, LoopBounded, ResetClean, Phase
<1>. QED  BY <1>1, <1>2, <1>3, <1>4 DEF Next

\* With faults in operation only, the HCI keeps the inductive invariant.
THEOREM Inductive == ASSUME Undisturbed PROVE Spec => []IInv
<1>1. Init => IInv
  BY InitIInv
<1>2. IInv /\ [Next]_vars => IInv'
  BY NextKeeps
<1>. QED  BY <1>1, <1>2, PTL DEF Spec

----------------------------------------------------------------------------
(* The properties.                                                         *)

\* The host's queues, the driver's counts and the controller have their types;
\* hciCmdRecvCmpl keeps at most one credit and g_sWriteQueue its length.
THEOREM TypeCorrect == ASSUME Undisturbed PROVE Spec => []TypeOK
<1>1. IInv => TypeOK
  BY DEF IInv
<1>2. Spec => []IInv
  BY Inductive
<1>. QED  BY <1>1, <1>2, PTL

\* The BLE task never sleeps on a packet: HciDrvHandler leaves one only with an
\* event set, or with the heartbeat's timer running when it gave up after
\* HCI_DRV_MAX_HCI_TRANSACTIONS.
THEOREM PacketsAttended == ASSUME Undisturbed PROVE Spec => []Attended
<1>1. IInv => Attended
  BY DEF IInv, Attended, RxAnnounced, TransferAnnounced
<1>2. Spec => []IInv
  BY Inductive
<1>. QED  BY <1>1, <1>2, PTL

----------------------------------------------------------------------------
(* A reset that completes has initialised the controller.  The packets on  *)
(* their way are one line: they come to the core in the order in which the *)
(* host put them into its queue of commands.                               *)

\* The order of a reset's commands.
Precedes(p, q) == \/ p = "reset" /\ q \in {"address", "mask", "rand"}
                  \/ p = "address" /\ q \in {"mask", "rand"}
                  \/ p = "mask" /\ q = "rand"

In(q) == {q[i] : i \in DOMAIN q}
Req(q) == In(q) \cap Required
Lower(S, T) == \A p \in S, q \in T : Precedes(p, q)
Sorted(q) == \A i, j \in DOMAIN q :
    i < j /\ q[i] \in Required /\ q[j] \in Required => Precedes(q[i], q[j])

\* Those the controller has answered, and those on the way to it.
Answered == Req(rxQueue) \cup Req(ctl.out)
Waiting == Req(ctl.in) \cup Req(writeQueue) \cup Req(cmdQueue)
Carried == Answered \cup Waiting

\* They come in their order.
Lined == /\ Sorted(rxQueue) /\ Sorted(ctl.out) /\ Sorted(ctl.in)
         /\ Sorted(writeQueue) /\ Sorted(cmdQueue)
         /\ Lower(Req(rxQueue), Req(ctl.out)) /\ Lower(Answered, Waiting)
         /\ Lower(Req(ctl.in), Req(writeQueue) \cup Req(cmdQueue))
         /\ Lower(Req(writeQueue), Req(cmdQueue))

\* How far a reset has come, by the commands on their way.
Stages == {{"reset", "address"}, {"address", "mask"}, {"mask"}, {"rand"}}
Staged == IF resetting THEN Carried \in Stages ELSE Carried = {}

\* The controller has had the commands of the stages that are over, and those it
\* has answered.
Done(S) == {p \in Required : Lower({p}, S)}
HadDone == /\ Phase = "up" => ctl.had = Required
           /\ resetting => ctl.had = Done(Carried) \cup Answered

\* A reset comes alone, to a controller that was booted.
OneReset == resets <= 1 /\ (resetting => resets = 0)
Fresh == resets > 0 => ctl.had = {} /\ "open" \notin In(ctl.out)

\* A connection opens only behind the end of a reset, so that none is open in one
\* and ACL packets stay ahead of its commands.
AfterRand(q) == \A i \in DOMAIN q : q[i] = "open" => \E j \in DOMAIN q : j < i /\ q[j] = "rand"
OpenLate == resetting => /\ ~link.open /\ AfterRand(rxQueue)
                         /\ AfterRand(ctl.out) \/ "rand" \in In(rxQueue)
Backed(q) == q # <<>> => q[Len(q)] \in Commands
Closing == OpenLate /\ (resetting => Backed(writeQueue))

\* It does not time out: its packets have an event, and while a command waits for
\* its credit, another one is under way.
TransferInReset ==
    handler # "driver" /\ Phase = "reset" /\ (ctl.out # <<>> \/ writeQueue # <<>>) =>
        "transfer" \in events
UnderWay == In(rxQueue) \cup In(ctl.out) \cup In(ctl.in) \cup In(writeQueue)
Credit == resetting => /\ cmdQueue # <<>> => numCmdPkts = 0
                       /\ numCmdPkts = 0 => UnderWay \cap Commands # {}

JInv == /\ Lined /\ Staged /\ HadDone /\ OneReset /\ TransferInReset /\ Credit
        /\ Fresh /\ Closing

----------------------------------------------------------------------------
(* What the queues hold.                                                   *)

All == Received

\* Every queue holds packets.
LEMMA QueuesTyped ==
    /\ Seq(Packets) \subseteq Seq(All) /\ Seq(Commands) \subseteq Seq(All)
    /\ Seq(Received) = Seq(All)
<1>1. Packets \subseteq All /\ Commands \subseteq All
  BY DEF All, Packets, Received
<1>2. \A q : q \in Seq(Packets) \/ q \in Seq(Commands) => q \in Seq(All)
  BY <1>1
<1>. QED  BY <1>2 DEF All

\* r is q with x behind it.
Joined(q, x, r) ==
    /\ In(r) = In(q) \cup {x}
    /\ Sorted(q) /\ (x \in Required => Lower(Req(q), {x})) => Sorted(r)

\* r is q without its first packet x.
Taken(q, x, r) ==
    /\ In(q) = In(r) \cup {x}
    /\ Sorted(q) => Sorted(r) /\ Lower({x} \cap Required, Req(r))

\* A packet is added at the end of a queue.
LEMMA AppendHolds ==
    ASSUME NEW q \in Seq(All), NEW x \in All
    PROVE  Joined(q, x, Append(q, x))
<1>. DEFINE r == Append(q, x)
<1>1. /\ Len(q) \in Nat /\ DOMAIN q = 1 .. Len(q)
      /\ r \in Seq(All) /\ Len(r) = Len(q) + 1 /\ DOMAIN r = 1 .. Len(q) + 1
      /\ \A i \in 1 .. Len(q) : r[i] = q[i]
      /\ r[Len(q) + 1] = x
  OBVIOUS
<1>. HIDE DEF r
<1>2. DOMAIN r = DOMAIN q \cup {Len(q) + 1}
  BY <1>1
<1>3. In(r) = In(q) \cup {x}
  BY <1>1, <1>2 DEF In
<1>4. ASSUME Sorted(q), x \in Required => Lower(Req(q), {x})
      PROVE  Sorted(r)
  <2>. SUFFICES ASSUME NEW i \in DOMAIN r, NEW j \in DOMAIN r, i < j,
                       r[i] \in Required, r[j] \in Required
                PROVE  Precedes(r[i], r[j])
    BY DEF Sorted
  <2>1. i \in DOMAIN q /\ r[i] = q[i]
    BY <1>1
  <2>2. CASE j \in DOMAIN q
    <3>1. r[j] = q[j]
      BY <1>1, <2>2
    <3>. QED
      BY <1>4, <2>1, <2>2, <3>1 DEF Sorted
  <2>3. CASE j = Len(q) + 1
    <3>1. q[i] \in Req(q)
      BY <2>1 DEF Req, In
    <3>. QED
      BY <1>1, <1>4, <2>1, <2>3, <3>1 DEF Lower
  <2>. QED  BY <1>2, <2>2, <2>3
<1>. QED  BY <1>3, <1>4 DEF Joined, r

\* The first packet is taken from a queue.
LEMMA TailHolds ==
    ASSUME NEW q \in Seq(All), q # <<>>
    PROVE  Taken(q, Head(q), Tail(q))
<1>. DEFINE x == Head(q)
            r == Tail(q)
<1>1. /\ Len(q) \in Nat /\ Len(q) >= 1 /\ DOMAIN q = 1 .. Len(q)
      /\ x = q[1]
      /\ r \in Seq(All) /\ Len(r) = Len(q) - 1 /\ DOMAIN r = 1 .. Len(q) - 1
      /\ \A i \in 1 .. Len(q) - 1 : r[i] = q[i + 1]
  OBVIOUS
<1>. HIDE DEF x, r
<1>2. \A i \in DOMAIN r : i + 1 \in DOMAIN q /\ r[i] = q[i + 1] /\ i \in Nat
  BY <1>1
<1>3. \A i \in DOMAIN q : i = 1 \/ (i - 1 \in DOMAIN r /\ q[i] = r[i - 1])
  BY <1>1
<1>4. 1 \in DOMAIN q
  BY <1>1
<1>5. In(q) = In(r) \cup {x}
  <2>1. In(r) \subseteq In(q) /\ x \in In(q)
    BY <1>1, <1>2, <1>4 DEF In
  <2>2. \A i \in DOMAIN q : q[i] \in In(r) \cup {x}
    BY <1>1, <1>3 DEF In
  <2>. QED
    BY <2>1, <2>2 DEF In
<1>6. ASSUME Sorted(q)
      PROVE  Sorted(r) /\ Lower({x} \cap Required, Req(r))
  <2>1. Sorted(r)
    <3>. SUFFICES ASSUME NEW i \in DOMAIN r, NEW j \in DOMAIN r, i < j,
                         r[i] \in Required, r[j] \in Required
                  PROVE  Precedes(r[i], r[j])
      BY DEF Sorted
    <3>1. i + 1 < j + 1
      BY <1>2
    <3>. QED
      BY <1>2, <1>6, <3>1 DEF Sorted
  <2>2. ASSUME NEW i \in DOMAIN r, r[i] \in Required, x \in Required
        PROVE  Precedes(x, r[i])
    <3>1. 1 < i + 1
      BY <1>1
    <3>. QED
      BY <1>1, <1>2, <1>4, <1>6, <2>2, <3>1 DEF Sorted
  <2>. QED
    BY <2>1, <2>2 DEF Lower, Req, In
<1>. QED  BY <1>5, <1>6 DEF Taken, x, r

\* No command of a reset comes before itself.
LEMMA NotBeforeItself == \A p : ~Precedes(p, p)
BY DEF Precedes

\* The first packet x of r has gone to the end of q.
Moved(q, r, x, s, t) ==
    /\ In(s) = In(q) \cup {x}
    /\ In(r) = In(t) \cup {x}
    /\ Req(s) \cup Req(t) = Req(q) \cup Req(r)
    /\ Sorted(q) /\ Sorted(r) /\ Lower(Req(q), Req(r)) =>
          Sorted(s) /\ Sorted(t) /\ Lower(Req(s), Req(t))

\* It goes from a queue to the end of the next.
LEMMA MoveHolds ==
    ASSUME NEW q \in Seq(All), NEW r \in Seq(All), r # <<>>
    PROVE  Moved(q, r, Head(r), Append(q, Head(r)), Tail(r))
<1>. DEFINE x == Head(r)
            s == Append(q, x)
            t == Tail(r)
<1>1. x \in All
  OBVIOUS
<1>2. Joined(q, x, s) /\ Taken(r, x, t)
  BY <1>1, AppendHolds, TailHolds
<1>. HIDE DEF x, s, t
<1>. SUFFICES Moved(q, r, x, s, t)
  BY DEF x, s, t
<1>3. Req(s) \cup Req(t) = Req(q) \cup Req(r)
  BY <1>2 DEF Joined, Taken, Req
<1>4. ASSUME Sorted(q), Sorted(r), Lower(Req(q), Req(r))
      PROVE  Sorted(s) /\ Sorted(t) /\ Lower(Req(s), Req(t))
  <2>1. x \in Required => Lower(Req(q), {x})
    BY <1>2, <1>4 DEF Joined, Taken, Req, Lower
  <2>2. Lower(Req(s), Req(t))
    BY <1>2, <1>4 DEF Joined, Taken, Req, Lower
  <2>. QED
    BY <1>2, <1>4, <2>1, <2>2 DEF Joined, Taken
<1>. QED  BY <1>2, <1>3, <1>4 DEF Moved, Joined, Taken

\* A packet that is no connection's goes behind one that is.
LEMMA AppendLate ==
    ASSUME NEW q \in Seq(All), NEW x \in All, AfterRand(q), x = "open" => "rand" \in In(q)
    PROVE  AfterRand(Append(q, x))
<1>. DEFINE r == Append(q, x)
<1>1. /\ Len(q) \in Nat /\ DOMAIN q = 1 .. Len(q)
      /\ DOMAIN r = 1 .. Len(q) + 1
      /\ \A i \in 1 .. Len(q) : r[i] = q[i]
      /\ r[Len(q) + 1] = x
  OBVIOUS
<1>. HIDE DEF r
<1>. SUFFICES ASSUME NEW i \in DOMAIN r, r[i] = "open"
              PROVE  \E j \in DOMAIN r : j < i /\ r[j] = "rand"
  BY DEF AfterRand, r
<1>2. CASE i \in DOMAIN q
  <2>1. PICK j \in DOMAIN q : j < i /\ q[j] = "rand"
    BY <1>1, <1>2 DEF AfterRand
  <2>. QED
    BY <1>1, <2>1
<1>3. CASE i \notin DOMAIN q
  <2>1. i = Len(q) + 1 /\ x = "open"
    BY <1>1, <1>3
  <2>2. PICK j \in DOMAIN q : q[j] = "rand"
    BY <2>1 DEF In
  <2>. QED
    BY <1>1, <2>1, <2>2
<1>. QED  BY <1>2, <1>3

\* The first packet opens nothing, and what is behind it waits for the end of the
\* reset, if it is not that.
LEMMA TailLate ==
    ASSUME NEW q \in Seq(All), q # <<>>, AfterRand(q)
    PROVE  Head(q) # "open" /\ (Head(q) # "rand" => AfterRand(Tail(q)))
<1>. DEFINE r == Tail(q)
<1>1. /\ Len(q) \in Nat /\ Len(q) >= 1 /\ DOMAIN q = 1 .. Len(q) /\ Head(q) = q[1]
      /\ DOMAIN r = 1 .. Len(q) - 1
      /\ \A i \in 1 .. Len(q) - 1 : r[i] = q[i + 1]
  OBVIOUS
<1>. HIDE DEF r
<1>2. Head(q) # "open"
  <2>1. 1 \in DOMAIN q /\ \A j \in DOMAIN q : ~(j < 1)
    BY <1>1
  <2>. QED
    BY <1>1, <2>1 DEF AfterRand
<1>3. ASSUME Head(q) # "rand"
      PROVE  AfterRand(r)
  <2>. SUFFICES ASSUME NEW i \in DOMAIN r, r[i] = "open"
                PROVE  \E j \in DOMAIN r : j < i /\ r[j] = "rand"
    BY DEF AfterRand
  <2>1. i + 1 \in DOMAIN q /\ q[i + 1] = "open"
    BY <1>1
  <2>2. PICK j \in DOMAIN q : j < i + 1 /\ q[j] = "rand"
    BY <2>1 DEF AfterRand
  <2>3. j # 1
    BY <1>1, <1>3, <2>2
  <2>4. j - 1 \in DOMAIN r /\ r[j - 1] = q[j] /\ j - 1 < i
    BY <1>1, <2>2, <2>3
  <2>. QED
    BY <2>2, <2>4
<1>. QED  BY <1>2, <1>3 DEF r

\* From the controller's queue to the core's.
LEMMA MoveLate ==
    ASSUME NEW q \in Seq(All), NEW r \in Seq(All), r # <<>>, AfterRand(q),
           AfterRand(r) \/ "rand" \in In(q),
           NEW s, s = Append(q, Head(r))
    PROVE  AfterRand(s) /\ (AfterRand(Tail(r)) \/ "rand" \in In(s))
<1>1. Head(r) \in All /\ In(s) = In(q) \cup {Head(r)}
  <2>1. Head(r) \in All
    OBVIOUS
  <2>. QED
    BY <2>1, AppendHolds DEF Joined
<1>2. Head(r) = "open" => "rand" \in In(q)
  BY TailLate
<1>3. AfterRand(s)
  BY <1>1, <1>2, AppendLate
<1>4. AfterRand(Tail(r)) \/ "rand" \in In(s)
  BY <1>1, TailLate
<1>. QED  BY <1>3, <1>4

\* The last packet of a queue.
LEMMA AppendBacks ==
    ASSUME NEW q \in Seq(All), NEW x \in Commands
    PROVE  Backed(Append(q, x))
<1>1. x \in All
  BY QueuesTyped DEF All, Received, Packets
<1>2. Len(Append(q, x)) = Len(q) + 1 /\ Append(q, x)[Len(q) + 1] = x
  BY <1>1
<1>. QED  BY <1>2 DEF Backed

\* It stays when the first one goes.
LEMMA TailBacked ==
    ASSUME NEW q \in Seq(All), q # <<>>, Backed(q)
    PROVE  Backed(Tail(q))
<1>1. /\ Len(q) \in Nat /\ Len(q) >= 1 /\ Len(Tail(q)) = Len(q) - 1
      /\ Tail(q) \in Seq(All)
      /\ \A i \in 1 .. Len(q) - 1 : Tail(q)[i] = q[i + 1]
  OBVIOUS
<1>2. CASE Tail(q) # <<>>
  <2>1. Len(Tail(q)) >= 1
    BY <1>1, <1>2
  <2>2. Tail(q)[Len(q) - 1] = q[Len(q)]
    BY <1>1, <2>1
  <2>. QED
    BY <1>1, <2>2 DEF Backed
<1>. QED  BY <1>2 DEF Backed

\* ACL packets behind a queue.
LEMMA AclsHold ==
    ASSUME NEW q \in Seq(All), NEW k \in Nat
    PROVE  /\ q \o Acls(k) \in Seq(All)
           /\ Req(q \o Acls(k)) = Req(q)
<1>. DEFINE r == q \o Acls(k)
<1>1. Acls(k) \in Seq(All) /\ Len(Acls(k)) = k /\ \A i \in 1 .. k : Acls(k)[i] = "acl"
  BY DEF Acls, All, Received, Packets
<1>2. /\ Len(q) \in Nat /\ DOMAIN q = 1 .. Len(q) /\ r \in Seq(All)
      /\ Len(r) = Len(q) + k /\ DOMAIN r = 1 .. Len(q) + k
      /\ \A i \in 1 .. Len(q) : r[i] = q[i]
      /\ \A i \in 1 .. Len(q) + k : i > Len(q) => r[i] = Acls(k)[i - Len(q)]
  BY <1>1
<1>. HIDE DEF r
<1>3. \A i \in DOMAIN r : (i \in DOMAIN q /\ r[i] = q[i]) \/ r[i] = "acl"
  BY <1>1, <1>2
<1>4. \A i \in DOMAIN q : i \in DOMAIN r /\ r[i] = q[i]
  BY <1>2
<1>5. "acl" \notin Required
  BY DEF Required
<1>6. In(q) \subseteq In(r) /\ In(r) \subseteq In(q) \cup {"acl"}
  BY <1>3, <1>4 DEF In
<1>. QED  BY <1>2, <1>5, <1>6 DEF Req, r

----------------------------------------------------------------------------
(* What the operators do to the line.                                      *)

HostReq(h) == Req(h.writeQueue) \cup Req(h.cmdQueue)
HostLined(h) == /\ Sorted(h.writeQueue) /\ Sorted(h.cmdQueue)
                /\ Lower(Req(h.writeQueue), Req(h.cmdQueue))

\* n has the order of h, and waits for a credit only while a command is under way.
Sends(h, n) == /\ HostLined(h) => HostLined(n)
               /\ n.cmdQueue # <<>> => n.numCmdPkts = 0
               /\ In(h.writeQueue) \subseteq In(n.writeQueue)
               /\ Backed(h.writeQueue) =>
                     /\ Backed(n.writeQueue)
                     /\ n.numCmdPkts = 0 =>
                           h.numCmdPkts = 0 \/ In(n.writeQueue) \cap Commands # {}

\* The queues of a host hold packets.
LEMMA HostHolds ==
    ASSUME NEW h \in HostType
    PROVE  /\ h.writeQueue \in Seq(All) /\ h.cmdQueue \in Seq(All)
           /\ h.writeQueue \in Seq(Packets) /\ h.cmdQueue \in Seq(Commands)
           /\ h.numCmdPkts \in {0, 1}
BY QueuesTyped DEF HostType

\* The last packet is in the queue.
LEMMA BackedIn ==
    ASSUME NEW q \in Seq(All), Backed(q), Len(q) > 0
    PROVE  In(q) \cap Commands # {}
<1>1. Len(q) \in Nat /\ Len(q) \in DOMAIN q /\ q # <<>>
  OBVIOUS
<1>. QED  BY <1>1 DEF In, Backed

\* hciCmdService moves a command on, or loses it.
LEMMA ServiceSends ==
    ASSUME NEW h \in HostType, NEW n, n = CmdService(h)
    PROVE  /\ n \in HostType /\ n.link = h.link
           /\ HostReq(n) \subseteq HostReq(h)
           /\ ~n.lost => HostReq(n) = HostReq(h) /\ Sends(h, n)
<1>0. n \in HostType
  BY CmdServiceAnnounces
<1>1. CASE h.numCmdPkts = 0 \/ h.cmdQueue = <<>>
  <2>1. n = h
    BY <1>1 DEF CmdService
  <2>. QED
    BY <1>0, <1>1, <2>1 DEF Sends
<1>2. CASE ~(h.numCmdPkts = 0 \/ h.cmdQueue = <<>>)
  <2>. DEFINE x == Head(h.cmdQueue)
              t == Tail(h.cmdQueue)
              w == Append(h.writeQueue, x)
              m == [h EXCEPT !.cmdQueue = t, !.numCmdPkts = h.numCmdPkts - 1,
                             !.cmdTimer = TRUE]
  <2>1. /\ x \in Commands /\ x \in Packets /\ t \in Seq(Commands)
        /\ h.numCmdPkts - 1 = 0
    BY <1>2, HostHolds DEF Packets
  <2>2. n = DrvWrite(x, m)
    BY <1>2 DEF CmdService
  <2>3. /\ m.cmdQueue = t /\ m.numCmdPkts = 0 /\ m.writeQueue = h.writeQueue
        /\ m.events = h.events /\ m.link = h.link /\ m.lost = h.lost
        /\ DOMAIN m = {"cmdQueue", "numCmdPkts", "cmdTimer", "writeQueue", "events",
                       "link", "lost"}
    BY <2>1 DEF HostType
  <2>4. /\ In(w) = In(h.writeQueue) \cup {x}
        /\ In(h.cmdQueue) = In(t) \cup {x}
        /\ Req(w) \cup Req(t) = HostReq(h)
        /\ HostLined(h) => Sorted(w) /\ Sorted(t) /\ Lower(Req(w), Req(t))
        /\ HostLined(h) => Sorted(h.writeQueue) /\ Lower(Req(h.writeQueue), Req(h.cmdQueue))
        /\ Backed(w)
    <3>. DEFINE a == h.writeQueue
                b == h.cmdQueue
    <3>1. a \in Seq(All) /\ b \in Seq(All) /\ b # <<>>
      BY <1>2, HostHolds
    <3>2. Moved(a, b, x, w, t) /\ Backed(w)
      BY <2>1, <3>1, MoveHolds, AppendBacks
    <3>. HIDE DEF x, t, w
    <3>. QED
      BY <3>2 DEF Moved, HostReq, HostLined
  <2>5. Len(h.writeQueue) \in Nat /\ Len(h.writeQueue) <= Slots /\ Slots \in Nat \ {0}
    BY HostHolds, Bounds DEF HostType
  <2>. HIDE DEF x, t, w, m
  <2>6. CASE Len(h.writeQueue) = Slots
    <3>1. n = [m EXCEPT !.lost = m.lost \/ x \in Required]
      BY <2>2, <2>3, <2>6 DEF DrvWrite
    <3>2. /\ n.cmdQueue = t /\ n.numCmdPkts = 0 /\ n.writeQueue = h.writeQueue
          /\ n.link = h.link /\ n.lost = (h.lost \/ x \in Required)
      BY <2>3, <3>1
    <3>3. HostReq(n) \subseteq HostReq(h)
      BY <2>4, <3>2 DEF HostReq, Req
    <3>4. ASSUME ~n.lost
          PROVE  HostReq(n) = HostReq(h) /\ Sends(h, n)
      <4>1. x \notin Required
        BY <3>2, <3>4
      <4>2. Req(t) = Req(h.cmdQueue)
        BY <2>4, <4>1 DEF Req
      <4>3. HostLined(h) => HostLined(n)
        BY <2>4, <3>2, <4>2 DEF HostLined
      <4>4. Backed(h.writeQueue) => In(n.writeQueue) \cap Commands # {}
        BY <2>5, <2>6, <3>2, HostHolds, BackedIn
      <4>. QED
        BY <3>2, <4>2, <4>3, <4>4 DEF HostReq, Sends
    <3>. QED
      BY <1>0, <3>2, <3>3, <3>4
  <2>7. CASE Len(h.writeQueue) # Slots
    <3>1. n = [m EXCEPT !.writeQueue = w, !.events = m.events \cup {"transfer"}]
      BY <2>2, <2>3, <2>7 DEF DrvWrite, w
    <3>2. n.writeQueue = w /\ n.cmdQueue = t /\ n.numCmdPkts = 0 /\ n.link = h.link
      BY <2>3, <3>1
    <3>3. HostReq(n) = HostReq(h)
      BY <2>4, <3>2 DEF HostReq
    <3>4. Sends(h, n)
      <4>1. x \in In(w) \cap Commands
        BY <2>1, <2>4
      <4>2. HostLined(h) => HostLined(n)
        BY <2>4, <3>2 DEF HostLined
      <4>. QED
        BY <2>4, <3>2, <4>1, <4>2 DEF Sends
    <3>. QED
      BY <1>0, <3>2, <3>3, <3>4
  <2>. QED  BY <2>6, <2>7
<1>. QED  BY <1>1, <1>2

\* hciCmdSend puts a command behind all others.
LEMMA SendSends ==
    ASSUME NEW h \in HostType, NEW c \in Commands, NEW n, n = CmdSend(c, h)
    PROVE  /\ n \in HostType /\ n.link = h.link
           /\ HostReq(n) \subseteq HostReq(h) \cup ({c} \cap Required)
           /\ ~n.lost /\ (c \in Required => Lower(HostReq(h), {c})) =>
                 /\ HostReq(n) = HostReq(h) \cup ({c} \cap Required)
                 /\ Sends(h, n)
<1>. DEFINE q == Append(h.cmdQueue, c)
            m == [h EXCEPT !.cmdQueue = q]
<1>1. q \in Seq(Commands) /\ c \in All
  BY HostHolds DEF All, Packets, Received
<1>2. /\ m \in HostType /\ m.cmdQueue = q /\ m.writeQueue = h.writeQueue
      /\ m.numCmdPkts = h.numCmdPkts /\ m.link = h.link
  BY <1>1 DEF HostType
<1>3. n = CmdService(m)
  BY DEF CmdSend
<1>4. Joined(h.cmdQueue, c, q)
  BY <1>1, HostHolds, AppendHolds
<1>. HIDE DEF q, m
<1>5. /\ n \in HostType /\ n.link = m.link
      /\ HostReq(n) \subseteq HostReq(m)
      /\ ~n.lost => HostReq(n) = HostReq(m) /\ Sends(m, n)
  BY <1>2, <1>3, ServiceSends
<1>6. HostReq(m) = HostReq(h) \cup ({c} \cap Required)
  BY <1>2, <1>4 DEF Joined, HostReq, Req
<1>8. ASSUME c \in Required => Lower(HostReq(h), {c}), HostLined(h)
      PROVE  HostLined(m)
  <2>1. c \in Required => Lower(Req(h.cmdQueue), {c})
    BY <1>8 DEF Lower, HostReq
  <2>2. Lower(Req(h.writeQueue), Req(q))
    BY <1>4, <1>8 DEF Joined, Lower, HostReq, HostLined, Req
  <2>. QED
    BY <1>2, <1>4, <1>8, <2>1, <2>2 DEF Joined, HostLined
<1>. QED  BY <1>2, <1>5, <1>6, <1>8 DEF Sends

\* hciCmdRecvCmpl: the credit is used at once if a command waits for it.
LEMMA CmplSends ==
    ASSUME NEW h \in HostType, NEW n, n = RecvCmpl(h)
    PROVE  /\ n \in HostType /\ n.link = h.link
           /\ HostReq(n) \subseteq HostReq(h)
           /\ ~n.lost => /\ HostReq(n) = HostReq(h)
                         /\ Sends([h EXCEPT !.numCmdPkts = 1], n)
<1>. DEFINE m == [h EXCEPT !.cmdTimer = FALSE, !.numCmdPkts = 1]
            g == [h EXCEPT !.numCmdPkts = 1]
<1>1. FALSE \in BOOLEAN /\ 1 \in 0 .. 1
  OBVIOUS
<1>2. /\ m \in HostType /\ m.cmdQueue = h.cmdQueue /\ m.writeQueue = h.writeQueue
      /\ m.numCmdPkts = 1 /\ m.link = h.link
      /\ g.cmdQueue = h.cmdQueue /\ g.writeQueue = h.writeQueue /\ g.numCmdPkts = 1
  BY <1>1 DEF HostType
<1>3. n = CmdService(m)
  BY DEF RecvCmpl
<1>. HIDE DEF m, g
<1>4. /\ n \in HostType /\ n.link = m.link
      /\ HostReq(n) \subseteq HostReq(m)
      /\ ~n.lost => HostReq(n) = HostReq(m) /\ Sends(m, n)
  BY <1>2, <1>3, ServiceSends
<1>5. HostReq(m) = HostReq(h)
  BY <1>2 DEF HostReq
<1>6. Sends(m, n) => Sends(g, n)
  BY <1>2 DEF Sends, HostLined
<1>. QED  BY <1>2, <1>4, <1>5, <1>6 DEF g

\* hciCoreTxReady puts none of a reset's commands into the queues.
LEMMA TxReadySends ==
    ASSUME NEW h \in HostType
    PROVE  HostReq(TxReady(h)) = HostReq(h)
<1>1. CASE h.link.avail = 0 \/ h.link.queued = 0
  BY <1>1 DEF TxReady
<1>2. CASE ~(h.link.avail = 0 \/ h.link.queued = 0)
  <2>. DEFINE m == [h EXCEPT !.link = [h.link EXCEPT !.avail = h.link.avail - 1,
                                                   !.queued = h.link.queued - 1]]
              w == Append(h.writeQueue, "acl")
  <2>1. TxReady(h) = DrvWrite("acl", m)
    BY <1>2 DEF TxReady
  <2>2. /\ m.cmdQueue = h.cmdQueue /\ m.writeQueue = h.writeQueue
        /\ DOMAIN m = {"cmdQueue", "numCmdPkts", "cmdTimer", "writeQueue", "events",
                       "link", "lost"}
    BY DEF HostType
  <2>. HIDE DEF m
  <2>3. /\ DrvWrite("acl", m).cmdQueue = h.cmdQueue
        /\ DrvWrite("acl", m).writeQueue \in {h.writeQueue, w}
    BY <2>2 DEF DrvWrite
  <2>4. Req(w) = Req(h.writeQueue)
    <3>1. "acl" \in All /\ "acl" \notin Required
      BY DEF All, Received, Packets, Required
    <3>2. Joined(h.writeQueue, "acl", w)
      BY <3>1, HostHolds, AppendHolds
    <3>. QED
      BY <3>1, <3>2 DEF Joined, Req
  <2>. HIDE DEF w
  <2>. QED
    BY <2>1, <2>3, <2>4 DEF HostReq
<1>. QED  BY <1>1, <1>2

\* Nor does anything else that happens to the link.
LEMMA ProcessSends ==
    ASSUME NEW e, NEW h \in HostType
    PROVE  HostReq(Process(e, h)) \subseteq HostReq(h)
<1>1. CASE e \in Commands
  BY <1>1, ProcessIs, CmplSends
<1>2. CASE e \notin Commands
  <2>1. PICK l \in Links : \/ Process(e, h) = TxReady([h EXCEPT !.link = l])
                           \/ Process(e, h) = [h EXCEPT !.link = l]
    BY <1>2, ProcessIs
  <2>. DEFINE m == [h EXCEPT !.link = l]
  <2>2. m \in HostType /\ Linked(h, m)
    BY LinkTyped
  <2>. HIDE DEF m
  <2>3. HostReq(m) = HostReq(h) /\ HostReq(TxReady(m)) = HostReq(m)
    BY <2>2, TxReadySends DEF Linked, HostReq
  <2>. QED
    BY <2>1, <2>3 DEF m
<1>. QED  BY <1>1, <1>2

----------------------------------------------------------------------------
(* The line from state to state.                                           *)

\* Both ends of the line, and its places.
LEMMA QueuesHold ==
    ASSUME TypeOK
    PROVE  /\ rxQueue \in Seq(All) /\ ctl.out \in Seq(All) /\ ctl.in \in Seq(All)
           /\ writeQueue \in Seq(All) /\ cmdQueue \in Seq(All)
           /\ Host \in HostType /\ Host.writeQueue = writeQueue
           /\ Host.cmdQueue = cmdQueue /\ Host.numCmdPkts = numCmdPkts
           /\ Host.link = link /\ Host.lost = lost
<1>1. /\ rxQueue \in Seq(All) /\ ctl.out \in Seq(All) /\ ctl.in \in Seq(All)
      /\ writeQueue \in Seq(All) /\ cmdQueue \in Seq(All)
  BY QueuesTyped DEF TypeOK
<1>. QED  BY <1>1, HostTyped DEF Host

\* A queue without a reset's commands is in order.
LEMMA EmptySorted == \A q : Req(q) = {} => Sorted(q)
<1>. SUFFICES ASSUME NEW q, Req(q) = {}, NEW i \in DOMAIN q, q[i] \in Required
              PROVE  FALSE
  BY DEF Sorted
<1>. QED  BY DEF Req, In

\* While no reset is under way, there are none.
LEMMA IdleHolds ==
    ASSUME ~resetting', Carried' = {}, resets' <= 1, Phase' = "up" => ctl'.had = Required,
           Fresh', TransferInReset'
    PROVE  JInv'
<1>1. /\ Req(rxQueue') = {} /\ Req(ctl'.out) = {} /\ Req(ctl'.in) = {}
      /\ Req(writeQueue') = {} /\ Req(cmdQueue') = {}
  BY DEF Carried, Answered, Waiting
<1>2. Lined'
  BY <1>1, EmptySorted DEF Lined, Lower, Answered, Waiting
<1>. QED  BY <1>2 DEF JInv, Staged, HadDone, OneReset, Credit, Closing, OpenLate

\* While no reset comes or ends, a step that puts none of its commands into the
\* line.
LEMMA IdleKeeps ==
    ASSUME JInv, ~resetting, ~resetting', resets' <= 1,
           Phase' = "up" => ctl'.had = Required, Fresh', TransferInReset',
           Req(rxQueue') \subseteq Carried, Req(ctl'.out) \subseteq Carried,
           Req(ctl'.in) \subseteq Carried, Req(writeQueue') \subseteq Carried,
           Req(cmdQueue') \subseteq Carried
    PROVE  JInv'
<1>1. Carried = {}
  BY DEF JInv, Staged
<1>2. Carried' = {}
  BY <1>1 DEF Carried, Answered, Waiting
<1>. QED  BY <1>2, IdleHolds

\* During a reset, a step that moves packets on to the next queue.
LEMMA ResetKeeps ==
    ASSUME JInv, resetting, UNCHANGED <<resetting, resets, numCmdPkts, cmdQueue>>,
           Lined', Answered' = Answered, Waiting' = Waiting, ctl'.had = ctl.had,
           TransferInReset', UnderWay \cap Commands \subseteq UnderWay', Closing'
    PROVE  JInv'
<1>1. Carried' = Carried /\ Phase' = Phase
  BY DEF Carried, Phase
<1>2. Staged' /\ HadDone' /\ OneReset' /\ Credit' /\ Fresh'
  BY <1>1 DEF JInv, Staged, HadDone, OneReset, Credit, Fresh
<1>. QED  BY <1>2 DEF JInv

\* A step that leaves all queues alone.
LEMMA StillKeeps ==
    ASSUME JInv, TransferInReset', UNCHANGED <<resetting, resets, numCmdPkts, cmdQueue,
           link, writeQueue, rxQueue>>,
           ctl'.in = ctl.in, ctl'.out = ctl.out, ctl'.had = ctl.had
    PROVE  JInv'
<1>1. Lined' /\ Answered' = Answered /\ Waiting' = Waiting /\ UnderWay' = UnderWay
  BY DEF JInv, Lined, Answered, Waiting, UnderWay
<1>2. Carried' = Carried /\ Phase' = Phase
  BY <1>1 DEF Carried, Phase
<1>3. Staged' /\ HadDone' /\ OneReset' /\ Credit'
  BY <1>1, <1>2 DEF JInv, Staged, HadDone, OneReset, Credit
<1>4. Fresh' /\ Closing'
  BY DEF JInv, Fresh, Closing, OpenLate
<1>. QED  BY <1>1, <1>3, <1>4 DEF JInv

----------------------------------------------------------------------------
(* The driver and the controller.                                          *)

\* A packet that is read goes to the core's queue.
LEMMA ReadMoves ==
    ASSUME TypeOK, JInv, ctl.out # <<>>,
           rxQueue' = Append(rxQueue, Head(ctl.out)),
           ctl' = [ctl EXCEPT !.out = Tail(ctl.out)],
           UNCHANGED <<writeQueue, cmdQueue, numCmdPkts, link, resetting, resets>>,
           TransferInReset'
    PROVE  JInv'
<1>1. ctl'.in = ctl.in /\ ctl'.had = ctl.had /\ ctl'.out = Tail(ctl.out)
  BY DEF TypeOK
<1>. DEFINE x == Head(ctl.out)
<1>2. Moved(rxQueue, ctl.out, x, rxQueue', ctl'.out)
  BY <1>1, QueuesHold, MoveHolds
<1>. HIDE DEF x
<1>3. Answered' = Answered /\ Waiting' = Waiting
  BY <1>1, <1>2 DEF Moved, Answered, Waiting
<1>4. Lined'
  BY <1>1, <1>2, <1>3 DEF JInv, Lined, Moved
<1>5. UnderWay' = UnderWay
  BY <1>1, <1>2 DEF Moved, UnderWay
<1>6. CASE resetting
  <2>1. /\ AfterRand(rxQueue)
        /\ AfterRand(ctl.out) \/ "rand" \in In(rxQueue)
        /\ rxQueue \in Seq(All) /\ ctl.out \in Seq(All)
    BY <1>6, QueuesHold DEF JInv, Closing, OpenLate
  <2>2. AfterRand(rxQueue') /\ (AfterRand(ctl'.out) \/ "rand" \in In(rxQueue'))
    BY <1>1, <2>1, MoveLate
  <2>3. Closing'
    BY <2>2 DEF JInv, Closing, OpenLate
  <2>. QED
    BY <1>1, <1>3, <1>4, <1>5, <1>6, <2>3, ResetKeeps
<1>7. CASE ~resetting
  <2>1. Carried' = {}
    BY <1>3, <1>7 DEF JInv, Staged, Carried
  <2>2. Fresh'
    BY <1>1, <1>2 DEF JInv, Fresh, Moved
  <2>. QED
    BY <1>1, <1>7, <2>1, <2>2, IdleHolds DEF JInv, OneReset, HadDone, Phase
<1>. QED  BY <1>6, <1>7

\* One that is dropped, in operation.
LEMMA ReadDrops ==
    ASSUME TypeOK, JInv, Phase = "up", ctl.out # <<>>,
           rxQueue' = rxQueue, ctl' = [ctl EXCEPT !.out = Tail(ctl.out)],
           UNCHANGED <<writeQueue, cmdQueue, numCmdPkts, resetting, resets>>
    PROVE  JInv'
<1>1. ctl'.in = ctl.in /\ ctl'.had = ctl.had /\ ctl'.out = Tail(ctl.out)
  BY DEF TypeOK
<1>2. In(ctl'.out) \subseteq In(ctl.out)
  <2>1. Taken(ctl.out, Head(ctl.out), ctl'.out)
    BY <1>1, QueuesHold, TailHolds
  <2>. QED  BY <2>1 DEF Taken
<1>3. ~resetting /\ Phase' = "up" /\ TransferInReset' /\ Fresh'
  BY DEF Phase, TransferInReset, Fresh
<1>. QED
  BY <1>1, <1>2, <1>3, IdleKeeps DEF JInv, OneReset, HadDone, Carried, Answered, Waiting,
     Req

\* A restart of the controller, in operation, empties all but the core's queue.
LEMMA RestartHolds ==
    ASSUME TypeOK, JInv, Undisturbed, Phase = "up", NEW f \in {0, 1}, NEW h \in HostType,
           Restart(f, h), h.cmdQueue = cmdQueue, UNCHANGED resetting,
           Req(rxQueue') \subseteq Carried
    PROVE  JInv'
<1>1. /\ cmdQueue' = cmdQueue /\ writeQueue' = <<>> /\ resets' = resets + 1
      /\ ctl' = Booted("ok")
  BY RestartClears
<1>2. resetting = FALSE /\ resets = 0
  BY DEF Phase, TypeOK
<1>3. ctl'.in = <<>> /\ ctl'.out = <<>> /\ Req(<<>>) = {}
  BY <1>1 DEF Booted, Req, In
<1>4. Phase' = "reset" /\ resets' <= 1 /\ TransferInReset' /\ Fresh'
  BY <1>1, <1>2, <1>3 DEF Phase, TransferInReset, Fresh, Booted, In
<1>. QED
  BY <1>1, <1>2, <1>3, <1>4, IdleKeeps DEF Carried, Waiting

\* The driver reads, and its loop is not at its bound during a reset.
LEMMA DriverReadMoves ==
    ASSUME IInv, JInv, Undisturbed, DriverRead
    PROVE  JInv'
<1>1. /\ ctl.out # <<>> /\ ctl' = [ctl EXCEPT !.out = Tail(ctl.out)]
      /\ handler = "driver" /\ reads + 1 < MaxReads
      /\ handler' = IF transactions + 1 = MaxTransactions THEN "none" ELSE "driver"
      /\ UNCHANGED <<resetting, resets>>
  BY DEF DriverRead, InLoop, Irq, OrGiveUp, LastRound
<1>2. PICK f \in {0, 1} : Deliver(Head(ctl.out), f) /\ Becomes(Notified(f, Host))
  BY DEF DriverRead
<1>3. UNCHANGED <<writeQueue, cmdQueue, numCmdPkts, link>>
  BY <1>2 DEF Becomes, Notified, Host
<1>4. TypeOK
  BY DEF IInv
<1>5. Phase = "reset" => handler' = "driver"
  <2>1. transactions \in Nat /\ reads \in Nat
    BY <1>4, Bounds DEF TypeOK
  <2>2. Phase = "reset" => transactions <= reads
    BY <1>1 DEF IInv, LoopBounded
  <2>. QED
    BY <1>1, <2>1, <2>2, Bounds
<1>6. TransferInReset'
  BY <1>1, <1>5 DEF TransferInReset, Phase
<1>7. CASE f = 0
  <2>1. rxQueue' = Append(rxQueue, Head(ctl.out))
    BY <1>2, <1>7 DEF Deliver
  <2>. QED
    BY <1>1, <1>3, <1>4, <1>6, <2>1, ReadMoves
<1>8. CASE f = 1
  <2>1. rxQueue' = rxQueue /\ Phase = "up"
    BY <1>2, <1>8 DEF Deliver, May, Undisturbed, Phase
  <2>. QED
    BY <1>1, <1>3, <1>4, <2>1, ReadDrops
<1>. QED  BY <1>7, <1>8

\* A restart from the loop, in operation.
LEMMA RecoverHolds ==
    ASSUME TypeOK, JInv, Undisturbed, Phase = "up", NEW f \in {0, 1}, NEW h \in HostType,
           Recover(f, h), h.cmdQueue = cmdQueue, UNCHANGED resetting,
           Req(rxQueue') \subseteq Carried
    PROVE  JInv'
<1>. DEFINE n == [h EXCEPT !.writeQueue = <<>>]
<1>1. n \in HostType /\ n.cmdQueue = cmdQueue
  <2>1. <<>> \in {q \in Seq(Packets) : Len(q) <= Slots}
    BY Bounds
  <2>. QED
    BY <2>1 DEF HostType
<1>2. Restart(f, n)
  BY DEF Recover
<1>. HIDE DEF n
<1>. QED  BY <1>1, <1>2, RestartHolds

\* The last read in a row.
LEMMA DriverReadLastMoves ==
    ASSUME IInv, JInv, Undisturbed, DriverReadLast
    PROVE  JInv'
<1>1. /\ handler = "driver" /\ ctl.out # <<>> /\ reads + 1 = MaxReads
      /\ UNCHANGED resetting /\ TypeOK
  BY DEF DriverReadLast, InLoop, Irq, IInv
<1>3. PICK f \in {0, 1}, g \in {0, 1} :
        LET h == ComeBack(Notified(f, Host))
        IN  /\ Deliver(Head(ctl.out), f)
            /\ IF LastRound THEN Recover(g, h)
               ELSE /\ g = 0 /\ Becomes(h)
                    /\ ctl' = [ctl EXCEPT !.out = Tail(ctl.out)]
                    /\ heartbeat' = TRUE
                    /\ UNCHANGED resets
  BY DEF DriverReadLast
<1>. DEFINE h == ComeBack(Notified(f, Host))
<1>4. /\ h \in HostType /\ "transfer" \in h.events
      /\ h.cmdQueue = cmdQueue /\ h.writeQueue = writeQueue /\ h.numCmdPkts = numCmdPkts
      /\ h.link = link
  <2>1. Host \in HostType /\ Host.cmdQueue = cmdQueue /\ Host.writeQueue = writeQueue
          /\ Host.numCmdPkts = numCmdPkts /\ Host.link = link
    BY <1>1, QueuesHold
  <2>2. Host.events \in SUBSET {"transfer", "rx"}
    BY <2>1 DEF HostType
  <2>. QED
    BY <2>1, <2>2 DEF ComeBack, Notified, HostType
<1>5. Deliver(Head(ctl.out), f)
  BY <1>3
<1>6. CASE LastRound
  <2>1. Recover(g, h)
    BY <1>3, <1>6
  <2>2. Phase = "up"
    BY <1>1, <1>6, Bounds DEF IInv, LastRound, LoopBounded, Phase, TypeOK
  <2>. DEFINE x == Head(ctl.out)
  <2>3. Moved(rxQueue, ctl.out, x, Append(rxQueue, x), Tail(ctl.out))
    BY <1>1, QueuesHold, MoveHolds
  <2>4. rxQueue' = rxQueue \/ rxQueue' = Append(rxQueue, x)
    BY <1>5 DEF Deliver
  <2>. HIDE DEF h, x
  <2>5. Req(rxQueue') \subseteq Carried
    BY <2>3, <2>4 DEF Moved, Carried, Answered
  <2>. QED
    BY <1>1, <1>4, <2>1, <2>2, <2>5, RecoverHolds
<1>7. CASE ~LastRound
  <2>1. /\ Becomes(h) /\ ctl' = [ctl EXCEPT !.out = Tail(ctl.out)]
        /\ resets' = resets
    BY <1>3, <1>7
  <2>. HIDE DEF h
  <2>2. UNCHANGED <<writeQueue, cmdQueue, numCmdPkts, link>> /\ "transfer" \in events'
    BY <1>4, <2>1 DEF Becomes
  <2>3. TransferInReset'
    BY <2>2 DEF TransferInReset
  <2>4. CASE f = 0
    <3>1. rxQueue' = Append(rxQueue, Head(ctl.out))
      BY <1>5, <2>4 DEF Deliver
    <3>. QED
      BY <1>1, <2>1, <2>2, <2>3, <3>1, ReadMoves
  <2>5. CASE f = 1
    <3>1. rxQueue' = rxQueue /\ Phase = "up"
      BY <1>5, <2>5 DEF Deliver, May, Undisturbed, Phase
    <3>. QED
      BY <1>1, <2>1, <2>2, <3>1, ReadDrops
  <2>. QED  BY <2>4, <2>5
<1>. QED  BY <1>6, <1>7

\* A packet that is written goes to the controller.
LEMMA DriverWritesMoves ==
    ASSUME IInv, JInv, DriverWrites
    PROVE  JInv'
<1>1. /\ handler' = "driver" /\ writeQueue # <<>> /\ writeQueue' = Tail(writeQueue)
      /\ UNCHANGED <<cmdQueue, numCmdPkts, link, rxQueue, resetting, resets>>
      /\ ctl' = IF ctl.state = "off" THEN ctl
                ELSE [ctl EXCEPT !.in = Append(ctl.in, Head(writeQueue))]
  BY DEF DriverWrites, InLoop, commandVars, coreVars
<1>2. TypeOK /\ (Phase = "reset" => ctl.state = "ok")
  BY DEF IInv, ResetClean
<1>. DEFINE x == Head(writeQueue)
            a == Append(ctl.in, x)
<1>3. Moved(ctl.in, writeQueue, x, a, writeQueue')
  BY <1>1, <1>2, QueuesHold, MoveHolds
<1>4. TransferInReset'
  BY <1>1 DEF TransferInReset
<1>5. ctl' = IF ctl.state = "off" THEN ctl ELSE [ctl EXCEPT !.in = a]
  BY <1>1
<1>. HIDE DEF x, a
<1>6. CASE ctl.state = "off"
  <2>1. Phase = "up" /\ Phase' = "up" /\ ~resetting /\ ctl' = ctl /\ Fresh'
    BY <1>1, <1>2, <1>5, <1>6 DEF Phase, JInv, Fresh
  <2>. QED
    BY <1>1, <1>3, <1>4, <2>1, IdleKeeps DEF JInv, OneReset, HadDone, Moved, Req, Carried,
       Answered, Waiting
<1>7. CASE ctl.state # "off"
  <2>1. ctl'.in = a /\ ctl'.out = ctl.out /\ ctl'.had = ctl.had
    BY <1>2, <1>5, <1>7 DEF TypeOK
  <2>2. Answered' = Answered /\ Waiting' = Waiting
    BY <1>1, <1>3, <2>1 DEF Moved, Answered, Waiting
  <2>3. Lined'
    <3>1. Lower(Req(a), Req(writeQueue') \cup Req(cmdQueue))
      BY <1>3 DEF JInv, Lined, Moved, Lower, Req
    <3>2. Lower(Req(writeQueue'), Req(cmdQueue))
      BY <1>3 DEF JInv, Lined, Moved, Lower, Req
    <3>3. Sorted(a) /\ Sorted(writeQueue')
      <4>1. Lower(Req(ctl.in), Req(writeQueue))
        BY DEF JInv, Lined, Lower
      <4>. QED
        BY <1>3, <4>1 DEF JInv, Lined, Moved
    <3>. QED
      BY <1>1, <2>1, <2>2, <3>1, <3>2, <3>3 DEF JInv, Lined
  <2>4. UnderWay' = UnderWay
    BY <1>1, <1>3, <2>1 DEF Moved, UnderWay
  <2>5. CASE resetting
    <3>1. Backed(writeQueue')
      BY <1>1, <1>2, <2>5, QueuesHold, TailBacked DEF JInv, Closing
    <3>2. Closing'
      BY <1>1, <2>1, <3>1 DEF JInv, Closing, OpenLate
    <3>. QED
      BY <1>1, <1>4, <2>1, <2>2, <2>3, <2>4, <2>5, <3>2, ResetKeeps
  <2>6. CASE ~resetting
    <3>1. Carried' = {}
      BY <2>2, <2>6 DEF JInv, Staged, Carried
    <3>2. Fresh'
      BY <1>1, <2>1 DEF JInv, Fresh
    <3>. QED
      BY <1>1, <1>4, <2>1, <2>6, <3>1, <3>2, IdleHolds DEF JInv, OneReset, HadDone, Phase
  <2>. QED  BY <2>5, <2>6
<1>. QED  BY <1>6, <1>7

\* What the driver does that moves no packet, and its last round.
LEMMA DriverElseKeeps ==
    ASSUME IInv, JInv, Undisturbed,
           DriverStart \/ DriverReadFails \/ DriverWriteFails \/ DriverDone
    PROVE  JInv'
<1>1. TypeOK /\ Host \in HostType /\ Host.cmdQueue = cmdQueue
  BY QueuesHold DEF IInv
<1>2. CASE DriverStart
  BY <1>2, StillKeeps DEF DriverStart, TransferInReset, commandVars, coreVars
<1>3. CASE DriverReadFails
  <2>1. UNCHANGED <<rxQueue, resetting>> /\ Phase = "up"
    BY <1>3 DEF DriverReadFails, May, Undisturbed, Phase
  <2>2. PICK f \in {0, 1} : Recover(f, Host)
    BY <1>3 DEF DriverReadFails
  <2>. QED
    BY <1>1, <2>1, <2>2, RecoverHolds DEF Carried, Answered
<1>4. CASE DriverWriteFails
  <2>1. /\ UNCHANGED <<cmdQueue, numCmdPkts, link, writeQueue, rxQueue, resetting, resets,
                       ctl>>
        /\ ctl.state # "ok"
    BY <1>4 DEF DriverWriteFails, commandVars, coreVars
  <2>2. Phase = "up" /\ Phase' = "up"
    BY <2>1 DEF IInv, ResetClean, Phase
  <2>. QED
    BY <2>1, <2>2, StillKeeps DEF TransferInReset
<1>5. CASE DriverDone
  <2>1. /\ handler = "driver" /\ UNCHANGED <<rxQueue, resetting>>
        /\ ctl.out = <<>> /\ writeQueue = <<>>
    BY <1>5 DEF DriverDone, InLoop, Irq
  <2>2. CASE LastRound
    <3>1. PICK f \in {0, 1} : Recover(f, Host)
      BY <1>5, <2>2 DEF DriverDone
    <3>2. Phase = "up"
      BY <1>1, <2>1, <2>2, Bounds DEF IInv, LastRound, LoopBounded, Phase, TypeOK
    <3>. QED
      BY <1>1, <2>1, <3>1, <3>2, RecoverHolds DEF Carried, Answered
  <2>3. CASE ~LastRound
    <3>1. UNCHANGED <<cmdQueue, numCmdPkts, link, writeQueue, resets, ctl>>
      BY <1>5, <2>3 DEF DriverDone, commandVars
    <3>. QED
      BY <2>1, <3>1, StillKeeps DEF TransferInReset
  <2>. QED  BY <2>2, <2>3
<1>. QED  BY <1>2, <1>3, <1>4, <1>5

\* What Raise leaves for the driver.
LEMMA RaiseAnnounces ==
    ASSUME Raise, UNCHANGED handler
    PROVE  TransferInReset'
BY DEF Raise, TransferInReset

\* The controller drops the next packet, which is no command.
LEMMA CtlDropsMoves ==
    ASSUME TypeOK, JInv, ctl.in # <<>>, Head(ctl.in) = "acl",
           ctl' = [ctl EXCEPT !.in = Tail(ctl.in)], TransferInReset',
           UNCHANGED <<cmdQueue, numCmdPkts, link, writeQueue, rxQueue, resetting, resets>>
    PROVE  JInv'
<1>1. ctl'.in = Tail(ctl.in) /\ ctl'.out = ctl.out /\ ctl'.had = ctl.had
  BY DEF TypeOK
<1>2. Taken(ctl.in, "acl", ctl'.in)
  BY <1>1, QueuesHold, TailHolds
<1>3. "acl" \notin Required /\ "acl" \notin Commands
  BY DEF Required, Commands
<1>4. Req(ctl'.in) = Req(ctl.in) /\ (Sorted(ctl.in) => Sorted(ctl'.in))
  BY <1>2, <1>3 DEF Taken, Req
<1>5. Answered' = Answered /\ Waiting' = Waiting
  BY <1>1, <1>4 DEF Answered, Waiting
<1>6. Lined'
  BY <1>1, <1>4, <1>5 DEF JInv, Lined
<1>7. Fresh' /\ Closing'
  BY <1>1 DEF JInv, Fresh, Closing, OpenLate
<1>8. CASE resetting
  <2>1. UnderWay \cap Commands \subseteq UnderWay'
    BY <1>1, <1>2, <1>3 DEF Taken, UnderWay
  <2>. QED
    BY <1>1, <1>5, <1>6, <1>7, <1>8, <2>1, ResetKeeps
<1>9. CASE ~resetting
  <2>1. Carried' = {}
    BY <1>5, <1>9 DEF JInv, Staged, Carried
  <2>. QED
    BY <1>1, <1>7, <1>9, <2>1, IdleHolds DEF JInv, OneReset, HadDone, Phase
<1>. QED  BY <1>8, <1>9

\* It answers the next packet, and has had it.
LEMMA CtlTakesMoves ==
    ASSUME TypeOK, JInv, ctl.in # <<>>, Raise,
           NEW had, had = IF Head(ctl.in) = "reset" THEN {Head(ctl.in)}
                          ELSE ctl.had \cup ({Head(ctl.in)} \cap Required),
           ctl' = [ctl EXCEPT !.in = Tail(ctl.in), !.out = Append(ctl.out, Head(ctl.in)),
                              !.had = had],
           UNCHANGED <<cmdQueue, numCmdPkts, link, writeQueue, handler, rxQueue, resetting,
                       resets>>
    PROVE  JInv'
<1>. DEFINE x == Head(ctl.in)
            b == Append(ctl.out, x)
            c == Tail(ctl.in)
<1>1. /\ ctl.in # <<>> /\ ctl' = [ctl EXCEPT !.in = c, !.out = b, !.had = had]
      /\ Raise
      /\ UNCHANGED <<cmdQueue, numCmdPkts, link, writeQueue, handler, rxQueue, resetting,
                     resets>>
      /\ TypeOK
  OBVIOUS
<1>2. Moved(ctl.out, ctl.in, x, b, c)
  BY <1>1, QueuesHold, MoveHolds
<1>3. ctl'.in = c /\ ctl'.out = b /\ ctl'.had = had
  BY <1>1 DEF TypeOK
<1>4. TransferInReset'
  BY <1>1, RaiseAnnounces
<1>5. had = IF x = "reset" THEN {x} ELSE ctl.had \cup ({x} \cap Required)
  OBVIOUS
<1>11. /\ x # "open" /\ x \in All /\ ctl.out \in Seq(All)
       /\ AfterRand(ctl.out) => AfterRand(b)
  <2>1. x \in Packets
    BY <1>1 DEF TypeOK
  <2>2. x # "open" /\ x \in All /\ ctl.out \in Seq(All)
    BY <1>1, <2>1, QueuesHold DEF Packets, Commands, Required, All, Received
  <2>. QED
    BY <2>2, AppendLate
<1>. HIDE DEF x, b, c
<1>6. Carried' = Carried
  BY <1>1, <1>2, <1>3 DEF Moved, Carried, Answered, Waiting
<1>7. Answered' = Answered \cup ({x} \cap Required)
  BY <1>1, <1>2, <1>3 DEF Moved, Answered, Req
<1>8. UnderWay' = UnderWay
  BY <1>1, <1>2, <1>3 DEF Moved, UnderWay
<1>9. CASE ~resetting
  <2>1. Carried = {} /\ Carried' = {}
    BY <1>6, <1>9 DEF JInv, Staged
  <2>2. x \notin Required
    BY <1>7, <2>1 DEF Carried
  <2>3. had = ctl.had
    BY <1>5, <2>2 DEF Required
  <2>4. Fresh'
    BY <1>1, <1>2, <1>3, <1>11, <2>3 DEF JInv, Fresh, Moved
  <2>. QED
    BY <1>1, <1>3, <1>4, <1>9, <2>1, <2>3, <2>4, IdleHolds DEF JInv, OneReset, HadDone, Phase
<1>10. CASE resetting
  <2>1. x \in Required => x \in Req(ctl.in) /\ x \in Waiting /\ x \in Carried
    BY <1>2 DEF Moved, Req, Waiting, Carried
  <2>2. /\ Sorted(ctl.out) /\ Sorted(ctl.in) /\ Lower(Req(ctl.out), Req(ctl.in))
        /\ Lower(Req(rxQueue), Req(ctl.out)) /\ Lower(Req(rxQueue), Req(ctl.in))
        /\ Lower(Answered, Waiting)
        /\ Lower(Req(ctl.in), Req(writeQueue) \cup Req(cmdQueue))
    BY DEF JInv, Lined, Lower, Answered, Waiting
  <2>3. Sorted(b) /\ Sorted(c) /\ Lower(Req(b), Req(c))
    BY <1>2, <2>2 DEF Moved
  <2>4. Waiting' = Req(c) \cup Req(writeQueue) \cup Req(cmdQueue)
    BY <1>1, <1>3 DEF Waiting
  <2>5. Req(b) = Req(ctl.out) \cup ({x} \cap Required) /\ Req(c) \subseteq Req(ctl.in)
    BY <1>2 DEF Moved, Req
  <2>6. Lower({x} \cap Required, Waiting')
    BY <2>1, <2>2, <2>3, <2>4, <2>5 DEF Lower
  <2>7. Waiting' \subseteq Waiting
    BY <2>4, <2>5 DEF Waiting
  <2>8. Lined'
    <3>1. Lower(Answered', Waiting')
      BY <1>7, <2>2, <2>6, <2>7 DEF Lower
    <3>2. Lower(Req(rxQueue), Req(b))
      BY <2>1, <2>2, <2>5 DEF Lower
    <3>3. Lower(Req(c), Req(writeQueue) \cup Req(cmdQueue))
      BY <2>2, <2>5 DEF Lower
    <3>. QED
      BY <1>1, <1>3, <2>3, <3>1, <3>2, <3>3 DEF JInv, Lined
  <2>9. had = Done(Carried) \cup Answered'
    <3>1. CASE x # "reset"
      BY <1>5, <1>7, <1>10, <3>1 DEF JInv, HadDone
    <3>2. CASE x = "reset"
      <4>1. "reset" \in Required
        BY DEF Required
      <4>2. Answered = {}
        <5>1. \A p \in Answered : Precedes(p, "reset")
          BY <2>1, <2>2, <3>2, <4>1 DEF Lower
        <5>. QED
          BY <5>1 DEF Precedes
      <4>3. Done(Carried) = {}
        <5>1. \A p : ~Precedes(p, "reset")
          BY DEF Precedes
        <5>. QED
          BY <2>1, <3>2, <4>1, <5>1 DEF Done, Lower
      <4>. QED
        BY <1>5, <1>7, <3>2, <4>1, <4>2, <4>3
    <3>. QED  BY <3>1, <3>2
  <2>10. Phase' = "reset" /\ resets' = resets
    BY <1>1, <1>10 DEF Phase
  <2>11. Staged' /\ HadDone' /\ OneReset' /\ Credit'
    BY <1>1, <1>3, <1>6, <1>8, <1>10, <2>9, <2>10 DEF JInv, Staged, HadDone, OneReset,
       Credit
  <2>12. Fresh'
    BY <1>1, <1>10 DEF JInv, OneReset, Fresh
  <2>13. AfterRand(ctl'.out) \/ "rand" \in In(rxQueue')
    BY <1>1, <1>3, <1>10, <1>11 DEF JInv, Closing, OpenLate
  <2>14. ~link'.open /\ AfterRand(rxQueue') /\ Backed(writeQueue')
    BY <1>1, <1>10 DEF JInv, Closing, OpenLate
  <2>15. Closing'
    BY <2>13, <2>14 DEF Closing, OpenLate
  <2>. QED  BY <1>4, <2>8, <2>11, <2>12, <2>15 DEF JInv
<1>. QED  BY <1>9, <1>10

\* The controller's turn.
LEMMA CtlAnswersMoves ==
    ASSUME IInv, JInv, CtlAnswers
    PROVE  JInv'
<1>. DEFINE had == IF Head(ctl.in) = "reset" THEN {Head(ctl.in)}
                   ELSE ctl.had \cup ({Head(ctl.in)} \cap Required)
<1>1. /\ ctl.in # <<>> /\ TypeOK
      /\ UNCHANGED <<cmdQueue, numCmdPkts, link, writeQueue, handler, rxQueue, resetting,
                     resets>>
  BY DEF CtlAnswers, commandVars, driverVars, coreVars, IInv
<1>2. CASE Head(ctl.in) = "acl" /\ ctl.had # Required
  <2>1. ctl' = [ctl EXCEPT !.in = Tail(ctl.in)] /\ events' = events
    BY <1>2 DEF CtlAnswers
  <2>2. ctl'.out = ctl.out
    BY <1>1, <2>1 DEF TypeOK
  <2>3. TransferInReset'
    BY <1>1, <2>1, <2>2 DEF JInv, TransferInReset, Phase
  <2>. QED
    BY <1>1, <1>2, <2>1, <2>3, CtlDropsMoves
<1>3. CASE ~(Head(ctl.in) = "acl" /\ ctl.had # Required)
  <2>1. /\ Raise
        /\ ctl' = [ctl EXCEPT !.in = Tail(ctl.in), !.out = Append(ctl.out, Head(ctl.in)),
                              !.had = had]
    BY <1>3 DEF CtlAnswers
  <2>. QED
    BY <1>1, <2>1, CtlTakesMoves
<1>. QED  BY <1>2, <1>3

\* Reports, and the controller's stalls.
LEMMA CtlElseMoves ==
    ASSUME IInv, JInv, Undisturbed, CtlReports \/ CtlFails \/ CtlGoesOn
    PROVE  JInv'
<1>1. /\ UNCHANGED <<cmdQueue, numCmdPkts, link, writeQueue, handler, rxQueue, resetting,
                     resets>>
      /\ TypeOK
  BY DEF CtlReports, CtlFails, CtlGoesOn, commandVars, driverVars, coreVars, IInv
<1>2. CASE CtlReports
  <2>20. PICK e \in Unasked : /\ ctl' = [ctl EXCEPT !.out = Append(ctl.out, e)]
                              /\ e = "open" => ctl.had = Required
    BY <1>2 DEF CtlReports
  <2>. DEFINE b == Append(ctl.out, e)
  <2>1. ctl' = [ctl EXCEPT !.out = b] /\ Raise
    BY <1>2, <2>20 DEF CtlReports
  <2>2. e \in All /\ e \notin Required /\ ctl.out \in Seq(All)
    BY <1>1, QueuesHold DEF All, Received, Unasked, Required
  <2>3. Joined(ctl.out, e, b)
    BY <2>2, AppendHolds
  <2>21. AfterRand(ctl.out) /\ (e = "open" => "rand" \in In(ctl.out)) => AfterRand(b)
    BY <2>2, AppendLate
  <2>. HIDE DEF b
  <2>4. ctl'.in = ctl.in /\ ctl'.out = b /\ ctl'.had = ctl.had
    BY <1>1, <2>1 DEF TypeOK
  <2>5. TransferInReset'
    BY <1>1, <2>1, RaiseAnnounces
  <2>6. Req(b) = Req(ctl.out) /\ (Sorted(ctl.out) => Sorted(b))
    BY <2>2, <2>3 DEF Joined, Req
  <2>7. Answered' = Answered /\ Waiting' = Waiting
    BY <1>1, <2>4, <2>6 DEF Answered, Waiting
  <2>8. Lined'
    BY <1>1, <2>4, <2>6, <2>7 DEF JInv, Lined
  <2>9. UnderWay \subseteq UnderWay'
    BY <1>1, <2>3, <2>4 DEF UnderWay, Joined
  <2>10. CASE resetting
    <3>1. e = "open" => "rand" \in Answered
      <4>1. ctl.had = Done(Carried) \cup Answered /\ Carried \in Stages
        BY <2>10 DEF JInv, HadDone, Staged
      <4>2. "rand" \notin Done(Carried)
        <5>1. \A p : ~Precedes("rand", p)
          BY DEF Precedes
        <5>2. Carried # {}
          BY <4>1 DEF Stages
        <5>. QED
          BY <5>1, <5>2 DEF Done, Lower
      <4>. QED
        BY <2>20, <4>1, <4>2 DEF Required
    <3>2. e = "open" => "rand" \in In(rxQueue) \/ "rand" \in In(ctl.out)
      BY <3>1 DEF Answered, Req
    <3>3. AfterRand(b) \/ "rand" \in In(rxQueue)
      BY <2>10, <2>21, <3>2 DEF JInv, Closing, OpenLate
    <3>4. Closing'
      BY <1>1, <2>4, <2>10, <3>3 DEF JInv, Closing, OpenLate
    <3>. QED
      BY <1>1, <2>4, <2>5, <2>7, <2>8, <2>9, <2>10, <3>4, ResetKeeps
  <2>11. CASE ~resetting
    <3>1. Carried' = {}
      BY <2>7, <2>11 DEF JInv, Staged, Carried
    <3>2. Fresh'
      <4>1. ctl.had = {} => e # "open"
        BY <2>20 DEF Required
      <4>. QED
        BY <1>1, <2>3, <2>4, <4>1 DEF JInv, Fresh, Joined
    <3>. QED
      BY <1>1, <2>4, <2>5, <2>11, <3>1, <3>2, IdleHolds DEF JInv, OneReset, HadDone, Phase
  <2>. QED  BY <2>10, <2>11
<1>3. CASE CtlFails \/ CtlGoesOn
  <2>1. events' = events /\ \E t : ctl' = [ctl EXCEPT !.state = t]
    BY <1>3 DEF CtlFails, CtlGoesOn
  <2>2. ctl'.in = ctl.in /\ ctl'.out = ctl.out /\ ctl'.had = ctl.had
    BY <1>1, <2>1 DEF TypeOK
  <2>3. TransferInReset'
    BY <1>1, <2>1, <2>2 DEF JInv, TransferInReset, Phase
  <2>. QED  BY <1>1, <2>2, <2>3, StillKeeps
<1>. QED  BY <1>2, <1>3

----------------------------------------------------------------------------
(* The host.                                                               *)

\* The host's part of the line.
LEMMA HostLine ==
    ASSUME TypeOK, JInv
    PROVE  /\ HostReq(Host) = Req(writeQueue) \cup Req(cmdQueue) /\ HostLined(Host)
           /\ HostReq(Host) \subseteq Waiting
           /\ Lower(Req(ctl.in), HostReq(Host))
           /\ resetting => Backed(Host.writeQueue)
BY QueuesHold DEF HostReq, HostLined, JInv, Lined, Waiting, Closing

\* During a reset, a step that sends a command of nobody's.
LEMMA SendKeeps ==
    ASSUME TypeOK, JInv, resetting, NEW h \in HostType, Becomes(h),
           HostReq(h) = HostReq(Host), Sends(Host, h), h.link = link,
           UNCHANGED <<rxQueue, ctl, resetting, resets>>, TransferInReset'
    PROVE  JInv'
<1>1. /\ cmdQueue' = h.cmdQueue /\ writeQueue' = h.writeQueue
      /\ numCmdPkts' = h.numCmdPkts /\ link' = link
  BY DEF Becomes
<1>2. /\ HostReq(Host) = Req(writeQueue) \cup Req(cmdQueue) /\ HostLined(Host)
      /\ Host.writeQueue = writeQueue /\ Host.numCmdPkts = numCmdPkts
      /\ Backed(Host.writeQueue)
  BY HostLine, QueuesHold
<1>3. Req(writeQueue') \cup Req(cmdQueue') = Req(writeQueue) \cup Req(cmdQueue)
  BY <1>1, <1>2 DEF HostReq
<1>4. Answered' = Answered /\ Waiting' = Waiting
  BY <1>3 DEF Answered, Waiting
<1>5. HostLined(h)
  BY <1>2 DEF Sends
<1>6. Lined'
  BY <1>1, <1>3, <1>4, <1>5 DEF JInv, Lined, HostLined
<1>7. Credit'
  <2>1. In(writeQueue) \subseteq In(writeQueue')
    BY <1>1, <1>2 DEF Sends
  <2>2. UnderWay \subseteq UnderWay'
    BY <2>1 DEF UnderWay
  <2>3. /\ cmdQueue' # <<>> => numCmdPkts' = 0
        /\ numCmdPkts' = 0 => numCmdPkts = 0 \/ In(writeQueue') \cap Commands # {}
    BY <1>1, <1>2 DEF Sends
  <2>4. numCmdPkts = 0 => UnderWay \cap Commands # {}
    BY DEF JInv, Credit
  <2>5. In(writeQueue') \subseteq UnderWay'
    BY DEF UnderWay
  <2>. QED  BY <2>2, <2>3, <2>4, <2>5 DEF Credit
<1>8. Carried' = Carried /\ Phase' = Phase
  BY <1>4 DEF Carried, Phase
<1>9. Staged' /\ HadDone' /\ OneReset'
  BY <1>4, <1>8 DEF JInv, Staged, HadDone, OneReset
<1>10. Backed(writeQueue')
  BY <1>1, <1>2 DEF Sends
<1>11. Fresh' /\ Closing'
  BY <1>1, <1>10 DEF JInv, Fresh, Closing, OpenLate
<1>. QED  BY <1>6, <1>7, <1>9, <1>11 DEF JInv

\* While none is under way, a step that puts none of a reset's into the queues.
LEMMA IdleSendKeeps ==
    ASSUME TypeOK, JInv, ~resetting, NEW h \in HostType, Becomes(h),
           HostReq(h) \subseteq HostReq(Host), Req(rxQueue') \subseteq Carried,
           UNCHANGED <<ctl, resets>>, ~resetting', TransferInReset'
    PROVE  JInv'
<1>1. HostReq(h) = Req(writeQueue') \cup Req(cmdQueue')
  BY DEF Becomes, HostReq
<1>2. Req(writeQueue') \cup Req(cmdQueue') \subseteq Carried
  BY <1>1, HostLine DEF Carried
<1>3. Fresh'
  BY DEF JInv, Fresh
<1>. QED
  BY <1>2, <1>3, IdleKeeps DEF JInv, OneReset, HadDone, Phase, Carried, Answered, Waiting

\* What the host queues for the driver comes with its event.
LEMMA AnnouncedInReset ==
    ASSUME TypeOK, JInv, handler # "driver", NEW h \in HostType, Announced(Host, h),
           Becomes(h), UNCHANGED <<handler, ctl>>, Phase' = "reset" => Phase = "reset"
    PROVE  TransferInReset'
BY BecomesTyped DEF JInv, TransferInReset

\* A command or a packet of the application, or the heartbeat's.
LEMMA AppMoves ==
    ASSUME IInv, JInv, ~lost', AppSends \/ Heartbeat
    PROVE  JInv'
<1>1. /\ handler = "none" /\ TypeOK
      /\ UNCHANGED <<handler, rxQueue, resetting, resets, ctl>>
      /\ \/ Becomes(CmdSend("other", Host))
         \/ link.open /\ Becomes(SendAcl(Host))
         \/ Becomes(Host)
  BY DEF AppSends, Heartbeat, Quiet, coreVars, IInv
<1>2. Host \in HostType /\ "other" \in Commands /\ "other" \notin Required
  BY <1>1, HostTyped DEF Commands, Required
<1>3. Phase' = Phase /\ Req(rxQueue') \subseteq Carried
  BY <1>1 DEF Phase, Carried, Answered
<1>4. CASE Becomes(CmdSend("other", Host))
  <2>. DEFINE h == CmdSend("other", Host)
  <2>1. /\ h \in HostType /\ h.link = Host.link
        /\ HostReq(h) \subseteq HostReq(Host) \cup ({"other"} \cap Required)
        /\ ~h.lost /\ ("other" \in Required => Lower(HostReq(Host), {"other"})) =>
              /\ HostReq(h) = HostReq(Host) \cup ({"other"} \cap Required)
              /\ Sends(Host, h)
    BY <1>2, SendSends
  <2>2. Announced(Host, h)
    BY <1>2, CmdSendAnnounces
  <2>3. Becomes(h)
    BY <1>4
  <2>. HIDE DEF h
  <2>4. TransferInReset'
    BY <1>1, <1>3, <2>1, <2>2, <2>3, AnnouncedInReset
  <2>5. HostReq(h) \subseteq HostReq(Host)
    BY <1>2, <2>1
  <2>6. CASE resetting
    <3>1. ~h.lost /\ h.link = link
      BY <1>1, <2>1, <2>3, QueuesHold DEF Becomes
    <3>2. HostReq(h) = HostReq(Host) /\ Sends(Host, h)
      BY <1>2, <2>1, <3>1
    <3>. QED
      BY <1>1, <2>1, <2>3, <2>4, <2>6, <3>1, <3>2, SendKeeps
  <2>7. CASE ~resetting
    BY <1>1, <1>3, <2>1, <2>3, <2>4, <2>5, <2>7, IdleSendKeeps
  <2>. QED  BY <2>6, <2>7
<1>5. CASE link.open /\ Becomes(SendAcl(Host))
  <2>1. PICK l \in Links : SendAcl(Host) = TxReady([Host EXCEPT !.link = l])
    BY <1>2, SendAclIs
  <2>. DEFINE m == [Host EXCEPT !.link = l]
              h == TxReady(m)
  <2>2. m \in HostType /\ Linked(Host, m)
    BY <1>2, LinkTyped
  <2>3. Becomes(h)
    BY <1>5, <2>1
  <2>. HIDE DEF m
  <2>4. h \in HostType /\ Announced(m, h) /\ HostReq(h) = HostReq(m)
    BY <2>2, TxReadyAnnounces, TxReadySends
  <2>. HIDE DEF h
  <2>5. Announced(Host, h) /\ HostReq(h) \subseteq HostReq(Host)
    BY <2>2, <2>4 DEF Linked, Announced, HostReq
  <2>6. TransferInReset'
    BY <1>1, <1>3, <2>3, <2>4, <2>5, AnnouncedInReset
  <2>7. ~resetting
    BY <1>5 DEF JInv, Closing, OpenLate
  <2>. QED
    BY <1>1, <1>3, <2>3, <2>4, <2>5, <2>6, <2>7, IdleSendKeeps
<1>6. CASE Becomes(Host)
  <2>1. UNCHANGED <<cmdQueue, numCmdPkts, link, writeQueue, events>>
    BY <1>6 DEF Becomes, Host
  <2>. QED
    BY <1>1, <2>1, StillKeeps DEF JInv, TransferInReset, Phase
<1>. QED  BY <1>1, <1>4, <1>5, <1>6

\* HciResetCmd empties the queue of commands and sends its own, unless it is lost.
LEMMA ResetCmdSends ==
    ASSUME NEW h \in HostType, Req(h.writeQueue) = {}, NEW n, n = ResetCmd(h), ~n.lost
    PROVE  /\ n \in HostType /\ n.link = h.link
           /\ HostReq(n) = {"reset"} /\ HostLined(n) /\ Backed(n.writeQueue)
           /\ "reset" \in In(n.writeQueue)
<1>. DEFINE x == "reset"
            w == Append(h.writeQueue, x)
            q == <<x>>
            m == [h EXCEPT !.cmdQueue = <<>>, !.numCmdPkts = 1]
            k == [m EXCEPT !.cmdQueue = q]
            d == [k EXCEPT !.cmdQueue = <<>>, !.numCmdPkts = 0, !.cmdTimer = TRUE]
<1>1. n \in HostType
  BY ResetCmdAnnounces
<1>2. x \in Commands /\ x \in Required /\ x \in All
  BY QueuesTyped DEF Commands, Required, All, Packets, Received
<1>3. /\ Append(<<>>, x) = q /\ Head(q) = x /\ Tail(q) = <<>> /\ q # <<>>
  OBVIOUS
<1>4. /\ m.cmdQueue = <<>>
      /\ k.cmdQueue = q /\ k.numCmdPkts = 1
      /\ d.writeQueue = h.writeQueue /\ d.cmdQueue = <<>> /\ d.link = h.link
      /\ d.numCmdPkts = 0 /\ d.lost = h.lost
      /\ DOMAIN d = {"cmdQueue", "numCmdPkts", "cmdTimer", "writeQueue", "events",
                     "link", "lost"}
  BY DEF HostType
<1>5. n = CmdService(k)
  BY <1>3, <1>4 DEF ResetCmd, CmdSend
<1>6. CmdService(k) = DrvWrite(x, d)
  BY <1>3, <1>4 DEF CmdService
<1>. HIDE DEF d, k, m
<1>7. Len(h.writeQueue) # Slots
  <2>1. CASE Len(d.writeQueue) = Slots
    <3>1. n = [d EXCEPT !.lost = d.lost \/ x \in Required]
      BY <1>5, <1>6, <2>1 DEF DrvWrite
    <3>2. n.lost
      BY <1>2, <1>4, <3>1
    <3>. QED  BY <3>2
  <2>. QED  BY <1>4, <2>1
<1>8. n = [d EXCEPT !.writeQueue = w, !.events = d.events \cup {"transfer"}]
  BY <1>4, <1>5, <1>6, <1>7 DEF DrvWrite
<1>9. n.writeQueue = w /\ n.cmdQueue = <<>> /\ n.link = h.link
  BY <1>4, <1>8
<1>10. h.writeQueue \in Seq(All)
  BY HostHolds
<1>11. Joined(h.writeQueue, x, w) /\ Backed(w)
  BY <1>2, <1>10, AppendHolds, AppendBacks
<1>12. Req(<<>>) = {}
  BY DEF Req, In
<1>13. Req(w) = {x} /\ x \in In(w)
  BY <1>2, <1>11 DEF Joined, Req
<1>14. Sorted(w)
  BY <1>11, EmptySorted DEF Joined, Lower
<1>15. HostLined(n)
  BY <1>9, <1>12, <1>14, EmptySorted DEF HostLined, Lower
<1>. QED  BY <1>1, <1>9, <1>11, <1>12, <1>13, <1>15 DEF HostReq

\* The reset's first two commands.
LEMMA DmResetMoves ==
    ASSUME IInv, JInv, ~lost', DmReset
    PROVE  JInv'
<1>1. /\ handler = "none" /\ resets > 0 /\ resets' = resets - 1
      /\ UNCHANGED <<handler, ctl>> /\ TypeOK
  BY DEF DmReset, IInv
<1>2. ~resetting /\ resets = 1 /\ resets' = 0
  <2>1. resets \in Nat /\ resets <= 1 /\ (resetting => resets = 0)
    BY <1>1 DEF JInv, OneReset, TypeOK
  <2>. QED
    BY <1>1, <2>1
<1>. PICK n \in 0 .. link.queued : Becomes(CmdSend("address", ResetCmd(CloseAll(n, Host))))
  BY <1>2 DEF DmReset
<1>. DEFINE m == CloseAll(n, Host)
            g == ResetCmd(m)
            h == CmdSend("address", g)
<1>3. resetting' = TRUE /\ rxQueue' = <<>> /\ Becomes(h)
  BY <1>2 DEF DmReset
<1>4. Host \in HostType /\ Host.writeQueue = writeQueue /\ writeQueue \in Seq(All) /\ n \in Nat
  BY <1>1, QueuesHold DEF TypeOK, Links
<1>5. /\ "reset" \in Commands /\ "address" \in Commands
      /\ "reset" \in Required /\ "address" \in Required
  BY DEF Commands, Required
<1>6. Req(<<>>) = {} /\ In(<<>>) = {} /\ Sorted(<<>>)
  <2>1. Req(<<>>) = {} /\ In(<<>>) = {}
    BY DEF Req, In
  <2>. QED  BY <2>1, EmptySorted
<1>7. Carried = {} /\ Req(writeQueue) = {} /\ Req(ctl.out) = {} /\ Req(ctl.in) = {}
  <2>1. Carried = {}
    BY <1>2 DEF JInv, Staged
  <2>. QED  BY <2>1 DEF Carried, Answered, Waiting
<1>8. /\ m \in HostType /\ Announced(Host, m) /\ m.link = Closed
      /\ Req(m.writeQueue) = {}
  <2>1. PICK k \in Nat : /\ m \in HostType /\ Announced(Host, m) /\ m.link = Closed
                         /\ m.writeQueue = Host.writeQueue \o Acls(k)
    BY <1>4, CloseAllIs
  <2>. QED
    BY <1>4, <1>7, <2>1, AclsHold
<1>. HIDE DEF m
<1>9. g \in HostType /\ Announced(m, g)
  BY <1>8, ResetCmdAnnounces
<1>. HIDE DEF g
<1>10. h \in HostType /\ Announced(g, h)
  BY <1>5, <1>9, CmdSendAnnounces
<1>. HIDE DEF h
<1>11. ~h.lost /\ ~g.lost
  BY <1>3, <1>10 DEF Becomes, Announced
<1>12. /\ g.link = Closed /\ HostReq(g) = {"reset"} /\ HostLined(g) /\ Backed(g.writeQueue)
       /\ "reset" \in In(g.writeQueue)
  BY <1>8, <1>11, ResetCmdSends DEF g
<1>13. h.link = Closed /\ HostReq(h) = {"reset", "address"} /\ Sends(g, h)
  <2>1. Lower(HostReq(g), {"address"})
    BY <1>12 DEF Lower, Precedes
  <2>2. /\ h.link = g.link
        /\ ~h.lost /\ ("address" \in Required => Lower(HostReq(g), {"address"})) =>
              HostReq(h) = HostReq(g) \cup ({"address"} \cap Required) /\ Sends(g, h)
    BY <1>5, <1>9, SendSends DEF h
  <2>. QED
    BY <1>5, <1>11, <1>12, <2>1, <2>2
<1>14. Announced(Host, h)
  BY <1>8, <1>9, <1>10 DEF Announced
<1>15. /\ cmdQueue' = h.cmdQueue /\ writeQueue' = h.writeQueue
       /\ numCmdPkts' = h.numCmdPkts /\ link' = Closed
  BY <1>3, <1>13 DEF Becomes
<1>16. Req(writeQueue') \cup Req(cmdQueue') = {"reset", "address"}
  BY <1>13, <1>15 DEF HostReq
<1>17. Answered' = {} /\ Waiting' = {"reset", "address"}
  BY <1>1, <1>3, <1>6, <1>7, <1>16 DEF Answered, Waiting
<1>18. Lined'
  <2>1. HostLined(h)
    BY <1>12, <1>13 DEF Sends
  <2>. QED
    BY <1>1, <1>3, <1>6, <1>7, <1>15, <1>17, <2>1 DEF JInv, Lined, HostLined, Lower
<1>19. Carried' = {"reset", "address"}
  BY <1>17 DEF Carried
<1>20. Credit'
  <2>1. In(writeQueue') \cap Commands # {}
    BY <1>5, <1>12, <1>13, <1>15 DEF Sends
  <2>2. cmdQueue' # <<>> => numCmdPkts' = 0
    BY <1>13, <1>15 DEF Sends
  <2>. QED
    BY <2>1, <2>2 DEF Credit, UnderWay
<1>21. TransferInReset'
  <2>1. Phase = "reset"
    BY <1>1 DEF Phase
  <2>. QED
    BY <1>1, <1>3, <1>10, <1>14, <2>1, AnnouncedInReset
<1>22. ctl'.had = {} /\ "open" \notin In(ctl'.out)
  BY <1>1, <1>2 DEF JInv, Fresh
<1>23. HadDone'
  <2>1. Phase' = "reset"
    BY <1>3 DEF Phase
  <2>2. Done(Carried') = {}
    BY <1>19 DEF Done, Lower, Precedes, Required
  <2>. QED
    BY <1>17, <1>22, <2>1, <2>2 DEF HadDone
<1>24. Staged' /\ OneReset' /\ Fresh'
  BY <1>2, <1>3, <1>19 DEF Staged, Stages, OneReset, Fresh
<1>25. Closing'
  <2>1. AfterRand(rxQueue') /\ AfterRand(ctl'.out)
    BY <1>3, <1>22 DEF AfterRand, In
  <2>2. Backed(writeQueue')
    BY <1>12, <1>13, <1>15 DEF Sends
  <2>. QED
    BY <1>15, <2>1, <2>2 DEF Closing, OpenLate, Closed
<1>. QED  BY <1>18, <1>20, <1>21, <1>23, <1>24, <1>25 DEF JInv

\* A command times out in operation only: in a reset, one is under way and has an
\* event.
LEMMA CmdTimeoutMoves ==
    ASSUME IInv, JInv, Undisturbed, CmdTimeout
    PROVE  JInv'
<1>1. handler = "none" /\ UNCHANGED <<rxQueue, resetting>> /\ TypeOK
  BY DEF CmdTimeout, IInv
<1>. DEFINE h == [Host EXCEPT !.cmdTimer = FALSE]
<1>2. h \in HostType /\ h.cmdQueue = cmdQueue
  <2>1. Host \in HostType /\ Host.cmdQueue = cmdQueue /\ FALSE \in BOOLEAN
    BY <1>1, QueuesHold
  <2>. QED
    BY <2>1 DEF HostType
<1>. HIDE DEF h
<1>3. PICK f \in {0, 1}, g \in {0, 1} :
        (f = 0 => Quiet) /\ (f = 1 => May(1, Phase)) /\ Restart(g, h)
  BY DEF CmdTimeout, h
<1>4. Phase = "up"
  <2>1. CASE f = 1
    BY <1>3, <2>1 DEF May, Undisturbed, Phase
  <2>2. CASE f = 0
    <3>1. SUFFICES ASSUME Phase # "up" PROVE FALSE
      OBVIOUS
    <3>2. Quiet
      BY <1>3, <2>2
    <3>3. resetting /\ Phase = "reset" /\ ctl.state = "ok"
      BY <1>1, <3>1, <3>2 DEF Phase, Quiet, TypeOK, IInv, ResetClean
    <3>4. rxQueue = <<>> /\ ctl.in = <<>> /\ ctl.out = <<>> /\ writeQueue = <<>>
      BY <1>1, <3>2, <3>3 DEF IInv, RxAnnounced, JInv, TransferInReset, Quiet
    <3>5. In(<<>>) = {} /\ Req(<<>>) = {}
      BY DEF In, Req
    <3>6. UnderWay = {} /\ Carried = Req(cmdQueue)
      BY <3>4, <3>5 DEF UnderWay, Carried, Answered, Waiting
    <3>7. cmdQueue # <<>>
      BY <3>3, <3>5, <3>6 DEF JInv, Staged, Stages
    <3>. QED
      BY <3>3, <3>6, <3>7 DEF JInv, Credit
  <2>. QED  BY <2>1, <2>2
<1>. QED
  BY <1>1, <1>2, <1>3, <1>4, RestartHolds DEF Carried, Answered

----------------------------------------------------------------------------
(* The core takes an event.                                                *)

\* What hciCoreResetSequence sends next.
After(e) == IF e = "reset" THEN {"mask"} ELSE IF e = "mask" THEN {"rand"} ELSE {}

\* The commands of the sequence, and the one that ends it.
LEMMA SequenceIs ==
    ASSUME NEW h, NEW e
    PROVE  /\ Continue(e, h) = IF e = "reset" THEN CmdSend("mask", h)
                               ELSE IF e = "mask" THEN CmdSend("rand", h) ELSE h
           /\ Ends(e) <=> e = "rand"
<1>1. /\ DOMAIN Sequence = 1 .. 3 /\ Len(Sequence) = 3
      /\ Sequence[1] = "reset" /\ Sequence[2] = "mask" /\ Sequence[3] = "rand"
  BY DEF Sequence
<1>2. Ends(e) <=> e = "rand"
  BY <1>1 DEF Ends
<1>. DEFINE j == CHOOSE i \in DOMAIN Sequence : Sequence[i] = e
<1>3. CASE e = "reset"
  <2>1. j = 1
    BY <1>1, <1>3
  <2>2. \E i \in 1 .. Len(Sequence) - 1 : Sequence[i] = e
    BY <1>1, <1>3
  <2>3. Continue(e, h) = CmdSend(Sequence[j + 1], h)
    BY <2>2 DEF Continue
  <2>. HIDE DEF j
  <2>. QED
    BY <1>1, <1>2, <1>3, <2>1, <2>3
<1>4. CASE e = "mask"
  <2>1. j = 2
    BY <1>1, <1>4
  <2>2. \E i \in 1 .. Len(Sequence) - 1 : Sequence[i] = e
    BY <1>1, <1>4
  <2>3. Continue(e, h) = CmdSend(Sequence[j + 1], h)
    BY <2>2 DEF Continue
  <2>. HIDE DEF j
  <2>. QED
    BY <1>1, <1>2, <1>4, <2>1, <2>3
<1>5. CASE e # "reset" /\ e # "mask"
  <2>1. ~ \E i \in 1 .. Len(Sequence) - 1 : Sequence[i] = e
    BY <1>1, <1>5
  <2>. QED
    BY <1>2, <1>5, <2>1 DEF Continue
<1>. QED  BY <1>3, <1>4, <1>5

\* A completion sends the command that waited for the credit, or the next of the
\* sequence.
LEMMA ContinueSends ==
    ASSUME NEW h \in HostType, NEW e \in Commands, Backed(h.writeQueue),
           HostLined(h), Lower(HostReq(h), After(e)),
           NEW n, n = Continue(e, RecvCmpl(h)), ~n.lost
    PROVE  /\ n \in HostType /\ HostLined(n) /\ n.link = h.link /\ Backed(n.writeQueue)
           /\ HostReq(n) = HostReq(h) \cup After(e)
           /\ n.cmdQueue # <<>> => n.numCmdPkts = 0
           /\ n.numCmdPkts = 0 => In(n.writeQueue) \cap Commands # {}
<1>. DEFINE m == [h EXCEPT !.numCmdPkts = 1]
            g == RecvCmpl(h)
<1>1. m.numCmdPkts = 1 /\ m.writeQueue = h.writeQueue /\ m.cmdQueue = h.cmdQueue
  BY DEF HostType
<1>2. g \in HostType
  BY RecvCmplAnnounces
<1>3. ~g.lost
  BY <1>2, ContinueAnnounces DEF Announced
<1>4. g.link = h.link /\ HostReq(g) = HostReq(h) /\ Sends(m, g)
  BY <1>3, CmplSends
<1>5. n = IF e = "reset" THEN CmdSend("mask", g)
          ELSE IF e = "mask" THEN CmdSend("rand", g) ELSE g
  BY SequenceIs
<1>. HIDE DEF m, g
<1>6. HostLined(m)
  BY <1>1 DEF HostLined
<1>7. /\ HostLined(g) /\ Backed(g.writeQueue)
      /\ g.cmdQueue # <<>> => g.numCmdPkts = 0
      /\ g.numCmdPkts = 0 => In(g.writeQueue) \cap Commands # {}
  BY <1>1, <1>4, <1>6 DEF Sends
<1>8. ASSUME NEW c \in {"mask", "rand"}, After(e) = {c}, n = CmdSend(c, g)
      PROVE  /\ n \in HostType /\ n.link = g.link
             /\ HostReq(n) = HostReq(g) \cup {c} /\ Sends(g, n)
  <2>1. c \in Commands /\ c \in Required
    BY <1>8 DEF Commands, Required
  <2>2. Lower(HostReq(g), {c})
    BY <1>4, <1>8
  <2>3. /\ n \in HostType /\ n.link = g.link
        /\ ~n.lost /\ (c \in Required => Lower(HostReq(g), {c})) =>
              /\ HostReq(n) = HostReq(g) \cup ({c} \cap Required)
              /\ Sends(g, n)
    BY <1>2, <1>8, <2>1, SendSends
  <2>. QED
    BY <2>1, <2>2, <2>3
<1>9. CASE e = "reset" \/ e = "mask"
  <2>1. /\ n \in HostType /\ n.link = g.link
        /\ HostReq(n) = HostReq(g) \cup After(e) /\ Sends(g, n)
    BY <1>5, <1>8, <1>9 DEF After
  <2>. QED
    BY <1>4, <1>7, <2>1 DEF Sends
<1>10. CASE e # "reset" /\ e # "mask"
  BY <1>2, <1>4, <1>5, <1>7, <1>10 DEF After
<1>. QED  BY <1>9, <1>10

\* What is over at each stage.
LEMMA DoneIs ==
    /\ Done({"reset", "address"}) = {}
    /\ Done({"address", "mask"}) = {"reset"}
    /\ Done({"mask"}) = {"reset", "address"}
    /\ Done({"rand"}) = {"reset", "address", "mask"}
BY DEF Done, Lower, Precedes, Required

\* What other events do to a closed link.
LEMMA ProcessClosed ==
    ASSUME NEW e, e \notin Commands, e # "open", NEW h \in HostType, ~h.link.open
    PROVE  \E l \in Links : ~l.open /\ Process(e, h) = [h EXCEPT !.link = l]
<1>1. h.link \in Links /\ h = [h EXCEPT !.link = h.link]
  BY DEF HostType
<1>2. CASE e = "close"
  <2>1. Process(e, h) = [h EXCEPT !.link = Closed]
    BY <1>2 DEF Process
  <2>2. Closed \in Links /\ ~Closed.open
    BY <1>1, LinksTyped DEF Closed
  <2>. QED
    BY <2>1, <2>2
<1>3. CASE e # "close"
  <2>1. Process(e, h) = h
    BY <1>3 DEF Process
  <2>. QED
    BY <1>1, <2>1
<1>. QED  BY <1>2, <1>3

\* An event that is no completion of a reset's, during one.
LEMMA OtherEventMoves ==
    ASSUME IInv, JInv, ~lost', resetting, CoreEvent, Head(rxQueue) \notin Required
    PROVE  JInv'
<1>. DEFINE e == Head(rxQueue)
            n == Process(e, Host)
<1>1. /\ handler = "core" /\ rxQueue # <<>> /\ rxQueue' = Tail(rxQueue) /\ TypeOK
      /\ UNCHANGED <<handler, resets, ctl>>
      /\ Becomes(Continue(e, n))
      /\ resetting' = (resetting /\ ~Ends(e))
  BY DEF CoreEvent, IInv
<1>2. Taken(rxQueue, e, rxQueue')
  BY <1>1, QueuesHold, TailHolds
<1>3. e \notin Required /\ e # "reset" /\ e # "mask" /\ e # "rand"
  BY DEF Required
<1>4. e # "open" /\ AfterRand(rxQueue')
  BY <1>1, <1>3, QueuesHold, TailLate DEF JInv, Closing, OpenLate
<1>5. /\ Host \in HostType /\ Host.writeQueue = writeQueue /\ Host.cmdQueue = cmdQueue
      /\ Host.numCmdPkts = numCmdPkts /\ ~Host.link.open
      /\ HostReq(Host) = Req(writeQueue) \cup Req(cmdQueue) /\ HostLined(Host)
      /\ Backed(writeQueue)
  BY <1>1, QueuesHold, HostLine DEF JInv, Closing, OpenLate
<1>6. n \in HostType /\ Announced(Host, n)
  BY <1>5, ProcessAnnounces
<1>7. e \in Commands => n = RecvCmpl(Host)
  BY <1>5, ProcessIs
<1>8. e \notin Commands => \E l \in Links : ~l.open /\ n = [Host EXCEPT !.link = l]
  BY <1>4, <1>5, ProcessClosed
<1>. HIDE DEF e, n
<1>9. resetting' = resetting /\ Becomes(n)
  BY <1>1, <1>3, SequenceIs
<1>10. /\ cmdQueue' = n.cmdQueue /\ writeQueue' = n.writeQueue
       /\ numCmdPkts' = n.numCmdPkts /\ link' = n.link /\ ~n.lost
  BY <1>9 DEF Becomes
<1>11. /\ HostLined(n) /\ HostReq(n) = HostReq(Host) /\ ~n.link.open /\ Backed(n.writeQueue)
       /\ n.cmdQueue # <<>> => n.numCmdPkts = 0
       /\ In(writeQueue) \subseteq In(n.writeQueue)
       /\ \/ n.numCmdPkts = 0 => In(n.writeQueue) \cap Commands # {}
          \/ n.numCmdPkts = numCmdPkts /\ e \notin Commands
  <2>1. CASE e \in Commands
    <3>. DEFINE m == [Host EXCEPT !.numCmdPkts = 1]
    <3>1. m.numCmdPkts = 1 /\ m.writeQueue = writeQueue /\ m.cmdQueue = cmdQueue
      BY <1>5 DEF HostType
    <3>2. n.link = Host.link /\ HostReq(n) = HostReq(Host) /\ Sends(m, n)
      BY <1>5, <1>7, <1>10, <2>1, CmplSends
    <3>. HIDE DEF m
    <3>3. HostLined(m)
      BY <1>5, <3>1 DEF HostLined
    <3>. QED
      BY <1>5, <3>1, <3>2, <3>3 DEF Sends
  <2>2. CASE e \notin Commands
    <3>1. PICK l \in Links : ~l.open /\ n = [Host EXCEPT !.link = l]
      BY <1>8, <2>2
    <3>2. /\ n.cmdQueue = cmdQueue /\ n.writeQueue = writeQueue
          /\ n.numCmdPkts = numCmdPkts /\ n.link = l
      BY <1>5, <3>1 DEF HostType
    <3>3. cmdQueue # <<>> => numCmdPkts = 0
      BY DEF JInv, Credit
    <3>4. HostLined(n) /\ HostReq(n) = HostReq(Host)
      BY <1>5, <3>2 DEF HostLined, HostReq
    <3>. QED
      BY <1>5, <2>2, <3>1, <3>2, <3>3, <3>4
  <2>. QED  BY <2>1, <2>2
<1>12. Req(rxQueue') = Req(rxQueue) /\ Sorted(rxQueue')
  BY <1>2, <1>3 DEF Taken, Req, JInv, Lined
<1>13. Req(writeQueue') \cup Req(cmdQueue') = Req(writeQueue) \cup Req(cmdQueue)
  BY <1>5, <1>10, <1>11 DEF HostReq
<1>14. Answered' = Answered /\ Waiting' = Waiting
  BY <1>1, <1>12, <1>13 DEF Answered, Waiting
<1>15. Lined'
  BY <1>1, <1>10, <1>11, <1>12, <1>13, <1>14 DEF JInv, Lined, HostLined
<1>16. TransferInReset'
  BY <1>1, <1>6, <1>9, AnnouncedInReset DEF Phase
<1>17. Carried' = Carried /\ Phase' = Phase
  <2>1. resets' = resets /\ resetting' = resetting
    BY <1>1, <1>9
  <2>. QED
    BY <1>14, <2>1 DEF Carried, Phase
<1>18. Credit'
  <2>1. CASE numCmdPkts' = 0 => In(writeQueue') \cap Commands # {}
    BY <1>10, <1>11, <2>1 DEF Credit, UnderWay
  <2>2. CASE numCmdPkts' = numCmdPkts /\ e \notin Commands
    <3>1. UnderWay \cap Commands \subseteq UnderWay'
      BY <1>1, <1>2, <1>10, <1>11, <2>2 DEF Taken, UnderWay
    <3>. QED
      BY <1>10, <1>11, <2>2, <3>1 DEF JInv, Credit
  <2>. QED  BY <1>10, <1>11, <2>1, <2>2
<1>19. Staged' /\ HadDone' /\ OneReset' /\ Fresh'
  <2>1. resets' = resets /\ resetting' = resetting /\ ctl' = ctl
    BY <1>1, <1>9
  <2>2. Staged' /\ HadDone'
    BY <1>14, <1>17, <2>1 DEF JInv, Staged, HadDone
  <2>. QED
    BY <2>1, <2>2 DEF JInv, OneReset, Fresh
<1>20. Closing'
  <2>1. "rand" \in In(rxQueue) => "rand" \in In(rxQueue')
    BY <1>2, <1>3 DEF Taken
  <2>. QED
    BY <1>1, <1>4, <1>10, <1>11, <2>1 DEF JInv, Closing, OpenLate
<1>. QED  BY <1>15, <1>16, <1>18, <1>19, <1>20 DEF JInv

\* A completion of the sequence goes on to its next stage.
LEMMA SequenceMoves ==
    ASSUME IInv, JInv, ~lost', resetting, CoreEvent, Head(rxQueue) \in Required
    PROVE  JInv'
<1>. DEFINE e == Head(rxQueue)
            n == Continue(e, RecvCmpl(Host))
<1>1. /\ handler = "core" /\ rxQueue # <<>> /\ rxQueue' = Tail(rxQueue) /\ TypeOK
      /\ UNCHANGED <<handler, resets, ctl>>
      /\ Becomes(n) /\ e \in Commands
      /\ resetting' = (resetting /\ ~Ends(e))
  <2>1. e \in Commands
    BY DEF Commands
  <2>2. Process(e, Host) = RecvCmpl(Host)
    BY <2>1, CommandsProcessed
  <2>. QED
    BY <2>1, <2>2 DEF CoreEvent, IInv
<1>2. Taken(rxQueue, e, rxQueue')
  BY <1>1, QueuesHold, TailHolds
<1>3. n = Continue(e, RecvCmpl(Host)) /\ e \in Required
  OBVIOUS
<1>. HIDE DEF e, n
<1>4. resetting' = (e # "rand") /\ resets = 0
  BY <1>1, SequenceIs DEF JInv, OneReset
<1>5. /\ Req(rxQueue) = Req(rxQueue') \cup {e} /\ Sorted(rxQueue')
      /\ Lower({e}, Req(rxQueue'))
  BY <1>2, <1>3 DEF Taken, Req, JInv, Lined
<1>6. /\ e \in Answered /\ e \in Carried
      /\ Lower({e}, Req(rxQueue') \cup Req(ctl.out)) /\ Lower({e}, Waiting)
      /\ Answered = {e} \cup Req(rxQueue') \cup Req(ctl.out)
  BY <1>5 DEF JInv, Lined, Lower, Answered, Carried
<1>7. Answered' = Req(rxQueue') \cup Req(ctl.out)
  BY <1>1 DEF Answered
<1>8. e \notin Answered' /\ Answered = Answered' \cup {e} /\ e \notin Waiting
  BY <1>6, <1>7, NotBeforeItself DEF Lower
<1>9. \A p \in Carried : p = e \/ Precedes(e, p)
  BY <1>6, <1>7, <1>8 DEF Lower, Carried
<1>10. \/ Carried = {"reset", "address"} /\ e = "reset"
       \/ Carried = {"address", "mask"} /\ e = "address"
       \/ Carried = {"mask"} /\ e = "mask"
       \/ Carried = {"rand"} /\ e = "rand"
  <2>1. Carried \in Stages
    BY DEF JInv, Staged
  <2>2. CASE Carried = {"reset", "address"}
    BY <1>6, <1>9, <2>2 DEF Precedes
  <2>3. CASE Carried = {"address", "mask"}
    BY <1>6, <1>9, <2>3 DEF Precedes
  <2>. QED
    BY <1>6, <2>1, <2>2, <2>3 DEF Stages
<1>11. Lower(Carried \ {e}, After(e))
  BY <1>10 DEF Lower, Precedes, After
<1>12. Host \in HostType
  BY <1>1, QueuesHold
<1>13. /\ HostReq(Host) = Req(writeQueue) \cup Req(cmdQueue) /\ HostLined(Host)
       /\ HostReq(Host) \subseteq Waiting /\ Lower(Req(ctl.in), HostReq(Host))
       /\ Backed(Host.writeQueue) /\ Host.link = link
  BY <1>1, HostLine, QueuesHold
<1>14. Lower(HostReq(Host), After(e)) /\ Lower(Req(ctl.in), After(e))
         /\ Lower(Answered', After(e))
  BY <1>8, <1>11, <1>13 DEF Lower, Carried, Waiting
<1>15. /\ n \in HostType /\ HostLined(n) /\ n.link = link /\ Backed(n.writeQueue)
       /\ HostReq(n) = HostReq(Host) \cup After(e)
       /\ n.cmdQueue # <<>> => n.numCmdPkts = 0
       /\ n.numCmdPkts = 0 => In(n.writeQueue) \cap Commands # {}
  <2>1. ~n.lost
    BY <1>1 DEF Becomes
  <2>. QED
    BY <1>1, <1>3, <1>12, <1>13, <1>14, <2>1, ContinueSends
<1>16. Announced(Host, n)
  <2>1. RecvCmpl(Host) \in HostType /\ Announced(Host, RecvCmpl(Host))
    BY <1>12, RecvCmplAnnounces
  <2>2. Announced(RecvCmpl(Host), n)
    BY <1>3, <2>1, ContinueAnnounces
  <2>. QED
    BY <2>1, <2>2 DEF Announced
<1>17. /\ cmdQueue' = n.cmdQueue /\ writeQueue' = n.writeQueue
       /\ numCmdPkts' = n.numCmdPkts /\ link' = link
  BY <1>1, <1>15 DEF Becomes
<1>18. Req(writeQueue') \cup Req(cmdQueue') = HostReq(Host) \cup After(e)
  BY <1>15, <1>17 DEF HostReq
<1>19. Waiting' = Waiting \cup After(e)
  BY <1>1, <1>13, <1>18 DEF Waiting
<1>20. Carried' = (Carried \ {e}) \cup After(e)
  BY <1>8, <1>19 DEF Carried
<1>21. Lined'
  <2>1. Lower(Answered', Waiting')
    BY <1>8, <1>14, <1>19 DEF JInv, Lined, Lower
  <2>2. Lower(Req(ctl.in), Req(writeQueue') \cup Req(cmdQueue'))
    BY <1>13, <1>14, <1>18 DEF Lower
  <2>3. Lower(Req(rxQueue'), Req(ctl.out))
    BY <1>5 DEF JInv, Lined, Lower
  <2>. QED
    BY <1>1, <1>5, <1>15, <1>17, <2>1, <2>2, <2>3 DEF JInv, Lined, HostLined
<1>22. Credit'
  BY <1>15, <1>17 DEF Credit, UnderWay
<1>23. TransferInReset'
  <2>1. Phase = "reset"
    BY DEF Phase
  <2>. QED
    BY <1>1, <1>15, <1>16, <2>1, AnnouncedInReset
<1>24. Staged'
  BY <1>4, <1>10, <1>20 DEF Staged, Stages, After
<1>25. ctl.had = Done(Carried) \cup Answered
  BY DEF JInv, HadDone
<1>26. HadDone'
  <2>1. CASE e = "rand"
    <3>1. ctl.had = Required
      <4>1. Done(Carried) = {"reset", "address", "mask"}
        BY <1>10, <2>1, DoneIs
      <4>. QED
        BY <1>1, <1>6, <1>25, <2>1, <4>1 DEF TypeOK, Required
    <3>. QED
      BY <1>1, <1>4, <2>1, <3>1 DEF HadDone
  <2>2. CASE e # "rand"
    <3>1. ctl.had = Done(Carried') \cup Answered'
      <4>1. CASE e = "reset"
        <5>1. Done(Carried) = {} /\ Carried' = {"address", "mask"}
          BY <1>10, <1>20, <4>1, DoneIs DEF After
        <5>. QED
          BY <1>8, <1>25, <4>1, <5>1, DoneIs
      <4>2. CASE e = "address"
        <5>1. Done(Carried) = {"reset"} /\ Carried' = {"mask"}
          BY <1>10, <1>20, <4>2, DoneIs DEF After
        <5>. QED
          BY <1>8, <1>25, <4>2, <5>1, DoneIs
      <4>3. CASE e = "mask"
        <5>1. Done(Carried) = {"reset", "address"} /\ Carried' = {"rand"}
          BY <1>10, <1>20, <4>3, DoneIs DEF After
        <5>. QED
          BY <1>8, <1>25, <4>3, <5>1, DoneIs
      <4>. QED  BY <1>10, <2>2, <4>1, <4>2, <4>3
    <3>2. Phase' = "reset"
      BY <1>4, <2>2 DEF Phase
    <3>. QED
      BY <1>1, <3>1, <3>2 DEF HadDone
  <2>. QED  BY <2>1, <2>2
<1>27. OneReset' /\ Fresh'
  BY <1>1, <1>4 DEF OneReset, Fresh
<1>28. Closing'
  <2>. SUFFICES ASSUME e # "rand" PROVE Closing'
    BY <1>4 DEF Closing, OpenLate
  <2>1. AfterRand(rxQueue')
    BY <1>1, QueuesHold, TailLate DEF JInv, Closing, OpenLate, e
  <2>2. "rand" \in In(rxQueue) => "rand" \in In(rxQueue')
    BY <1>2 DEF Taken
  <2>. QED
    BY <1>1, <1>15, <1>17, <2>1, <2>2 DEF JInv, Closing, OpenLate
<1>. QED  BY <1>21, <1>22, <1>23, <1>24, <1>26, <1>27, <1>28 DEF JInv

\* An event while no reset is under way.
LEMMA IdleEventMoves ==
    ASSUME IInv, JInv, ~resetting, CoreEvent
    PROVE  JInv'
<1>. DEFINE e == Head(rxQueue)
            n == Process(e, Host)
<1>1. /\ handler = "core" /\ rxQueue # <<>> /\ rxQueue' = Tail(rxQueue) /\ TypeOK
      /\ UNCHANGED <<handler, resets, ctl>>
      /\ Becomes(n) /\ ~resetting'
  BY DEF CoreEvent, IInv
<1>2. Taken(rxQueue, e, rxQueue')
  BY <1>1, QueuesHold, TailHolds
<1>3. Host \in HostType
  BY <1>1, QueuesHold
<1>4. n \in HostType /\ Announced(Host, n) /\ HostReq(n) \subseteq HostReq(Host)
  BY <1>3, ProcessAnnounces, ProcessSends
<1>. HIDE DEF e, n
<1>5. Req(rxQueue') \subseteq Carried
  BY <1>2 DEF Taken, Req, Carried, Answered
<1>6. TransferInReset'
  BY <1>1, <1>4, AnnouncedInReset DEF Phase
<1>. QED  BY <1>1, <1>4, <1>5, <1>6, IdleSendKeeps

----------------------------------------------------------------------------
(* Every step keeps the line in order.                                     *)

\* The queues are empty and the reset is still to come.
LEMMA InitJInv == Init => JInv
<1>. SUFFICES ASSUME Init PROVE JInv
  OBVIOUS
<1>1. Req(<<>>) = {}
  BY DEF Req, In
<1>2. Sorted(<<>>)
  BY <1>1, EmptySorted
<1>3. Answered = {} /\ Waiting = {} /\ Carried = {}
  BY <1>1 DEF Init, Booted, Answered, Waiting, Carried
<1>4. Lined
  BY <1>1, <1>2, <1>3 DEF Init, Booted, Lined, Lower
<1>5. Staged /\ HadDone /\ OneReset /\ TransferInReset /\ Credit
  BY <1>3 DEF Init, Booted, Staged, HadDone, OneReset, TransferInReset, Credit, Phase
<1>6. Fresh /\ Closing
  BY DEF Init, Booted, Fresh, Closing, OpenLate, In
<1>. QED  BY <1>4, <1>5, <1>6 DEF JInv

\* What was lost once remains so.
LEMMA LostStays ==
    ASSUME TypeOK, lost, [Next]_vars
    PROVE  lost'
<1>1. Host \in HostType /\ Host.lost = lost
  BY QueuesHold
<1>2. ASSUME NEW f, NEW h \in HostType, h.lost, Restart(f, h)
      PROVE  lost'
  <2>1. [h EXCEPT !.writeQueue = <<>>].lost = h.lost
    BY DEF HostType
  <2>. QED
    BY <1>2, <2>1 DEF Restart, Reboot, Becomes
<1>3. ASSUME NEW f, NEW h \in HostType, h.lost, Recover(f, h)
      PROVE  lost'
  <2>. DEFINE m == [h EXCEPT !.writeQueue = <<>>]
  <2>1. m \in HostType /\ m.lost = h.lost
    <3>1. <<>> \in {q \in Seq(Packets) : Len(q) <= Slots}
      BY Bounds
    <3>. QED  BY <3>1 DEF HostType
  <2>2. Restart(f, m)
    BY <1>3 DEF Recover
  <2>. HIDE DEF m
  <2>. QED  BY <1>2, <1>3, <2>1, <2>2
<1>4. ASSUME NEW h \in HostType, Announced(Host, h), Becomes(h)
      PROVE  lost'
  BY <1>1, <1>4 DEF Announced, Becomes
<1>5. ASSUME NEW f \in {0, 1}
      PROVE  /\ Notified(f, Host) \in HostType /\ Announced(Host, Notified(f, Host))
             /\ ComeBack(Notified(f, Host)) \in HostType
             /\ Announced(Host, ComeBack(Notified(f, Host)))
  BY <1>1 DEF Notified, ComeBack, HostType, Announced
<1>6. CASE UNCHANGED lost
  BY <1>6
<1>7. CASE DriverRead
  <2>1. PICK f \in {0, 1} : Becomes(Notified(f, Host))
    BY <1>7 DEF DriverRead
  <2>. QED
    BY <1>4, <1>5, <2>1
<1>8. CASE DriverReadLast
  <2>1. PICK f \in {0, 1}, g \in {0, 1} :
           \/ Recover(g, ComeBack(Notified(f, Host)))
           \/ Becomes(ComeBack(Notified(f, Host)))
    BY <1>8 DEF DriverReadLast
  <2>. DEFINE h == ComeBack(Notified(f, Host))
  <2>2. h \in HostType /\ Announced(Host, h)
    BY <1>5
  <2>. HIDE DEF h
  <2>3. h.lost
    BY <1>1, <2>2 DEF Announced
  <2>. QED
    BY <1>3, <1>4, <2>1, <2>2, <2>3 DEF h
<1>9. CASE DriverReadFails \/ DriverDone
  <2>1. UNCHANGED lost \/ \E f \in {0, 1} : Recover(f, Host)
    BY <1>9 DEF DriverReadFails, DriverDone, commandVars
  <2>. QED
    BY <1>1, <1>3, <1>6, <2>1
<1>10. CASE CoreEvent
  <2>. DEFINE e == Head(rxQueue)
              n == Process(e, Host)
  <2>1. Becomes(Continue(e, n)) \/ Becomes(n)
    BY <1>10 DEF CoreEvent
  <2>2. n \in HostType /\ Announced(Host, n)
    BY <1>1, ProcessAnnounces
  <2>. HIDE DEF e, n
  <2>3. Continue(e, n) \in HostType /\ Announced(n, Continue(e, n))
    BY <2>2, ContinueAnnounces
  <2>. QED
    BY <1>4, <2>1, <2>2, <2>3 DEF Announced
<1>11. CASE DmReset
  <2>1. CASE resetting
    BY <1>11, <2>1 DEF DmReset, commandVars
  <2>2. CASE ~resetting
    <3>. PICK n \in 0 .. link.queued :
            Becomes(CmdSend("address", ResetCmd(CloseAll(n, Host))))
      BY <1>11, <2>2 DEF DmReset
    <3>. DEFINE m == CloseAll(n, Host)
                g == ResetCmd(m)
                h == CmdSend("address", g)
    <3>0. n \in Nat /\ "address" \in Commands
      BY DEF TypeOK, Links, Commands, Required
    <3>1. m \in HostType /\ Announced(Host, m)
      BY <1>1, <3>0, CloseAllIs
    <3>. HIDE DEF m
    <3>2. g \in HostType /\ Announced(m, g)
      BY <3>1, ResetCmdAnnounces
    <3>. HIDE DEF g
    <3>3. h \in HostType /\ Announced(g, h)
      BY <3>0, <3>2, CmdSendAnnounces
    <3>4. Announced(Host, h)
      BY <3>1, <3>2, <3>3 DEF Announced
    <3>. QED
      BY <1>4, <3>3, <3>4 DEF h, g, m
  <2>. QED  BY <2>1, <2>2
<1>12. CASE AppSends \/ Heartbeat
  <2>1. \/ Becomes(CmdSend("other", Host))
        \/ Becomes(SendAcl(Host))
        \/ Becomes(Host)
    BY <1>12 DEF AppSends, Heartbeat
  <2>2. "other" \in Commands
    BY DEF Commands
  <2>3. /\ CmdSend("other", Host) \in HostType
        /\ Announced(Host, CmdSend("other", Host))
    BY <1>1, <2>2, CmdSendAnnounces
  <2>4. SendAcl(Host) \in HostType /\ Announced(Host, SendAcl(Host))
    <3>1. PICK l \in Links : SendAcl(Host) = TxReady([Host EXCEPT !.link = l])
      BY <1>1, SendAclIs
    <3>. DEFINE m == [Host EXCEPT !.link = l]
    <3>2. m \in HostType /\ Linked(Host, m)
      BY <1>1, LinkTyped
    <3>. HIDE DEF m
    <3>3. TxReady(m) \in HostType /\ Announced(m, TxReady(m))
      BY <3>2, TxReadyAnnounces
    <3>. QED
      BY <3>1, <3>2, <3>3 DEF Linked, Announced, m
  <2>5. CASE Becomes(Host)
    BY <1>1, <2>5 DEF Becomes
  <2>. QED  BY <1>4, <2>1, <2>3, <2>4, <2>5
<1>13. CASE CmdTimeout
  <2>. DEFINE h == [Host EXCEPT !.cmdTimer = FALSE]
  <2>1. h \in HostType /\ h.lost
    <3>1. FALSE \in BOOLEAN
      OBVIOUS
    <3>. QED  BY <1>1, <3>1 DEF HostType
  <2>. HIDE DEF h
  <2>2. \E g \in {0, 1} : Restart(g, h)
    BY <1>13 DEF CmdTimeout, h
  <2>. QED  BY <1>2, <2>1, <2>2
<1>14. CASE \/ DriverStart \/ DriverWrites \/ DriverWriteFails \/ CoreStart \/ CoreDone
            \/ Controller \/ UNCHANGED vars
  BY <1>14 DEF DriverStart, DriverWrites, DriverWriteFails, CoreStart, CoreDone, Controller,
     CtlAnswers, CtlReports, CtlFails, CtlGoesOn, vars, commandVars
<1>. QED
  BY <1>7, <1>8, <1>9, <1>10, <1>11, <1>12, <1>13, <1>14 DEF Next, Driver, Core

\* As long as no command of a reset is lost.
LEMMA NextKeepsLine ==
    Undisturbed /\ IInv /\ (lost \/ JInv) /\ [Next]_vars => (lost \/ JInv)'
<1>. SUFFICES ASSUME Undisturbed, IInv, lost \/ JInv, [Next]_vars, ~lost' PROVE JInv'
  OBVIOUS
<1>0. JInv
  BY LostStays DEF IInv
<1>1. CASE Driver
  BY <1>0, <1>1, DriverReadMoves, DriverReadLastMoves, DriverWritesMoves, DriverElseKeeps
  DEF Driver
<1>2. CASE CoreStart \/ CoreDone
  BY <1>0, <1>2, StillKeeps DEF CoreStart, CoreDone, commandVars, coreVars, JInv,
     TransferInReset, Phase
<1>3. CASE CoreEvent
  BY <1>0, <1>3, OtherEventMoves, SequenceMoves, IdleEventMoves
<1>4. CASE DmReset \/ AppSends \/ CmdTimeout \/ Heartbeat
  BY <1>0, <1>4, DmResetMoves, AppMoves, CmdTimeoutMoves
<1>5. CASE Controller
  BY <1>0, <1>5, CtlAnswersMoves, CtlElseMoves DEF Controller
<1>6. CASE UNCHANGED vars
  BY <1>0, <1>6, StillKeeps DEF vars, commandVars, driverVars, coreVars, JInv,
     TransferInReset, Phase
<1>. QED  BY <1>1, <1>2, <1>3, <1>4, <1>5, <1>6 DEF Next, Core

\* A reset that completes has given the controller all its commands since it was
\* booted, with faults in operation only, for any number of other commands,
\* packets and answers under way.  The one exception is a reset of which a command
\* was dropped by a full write queue.
THEOREM UpIsInitialised == ASSUME Undisturbed PROVE Spec => []UpMeansInitialised
<1>1. Init => lost \/ JInv
  BY InitJInv
<1>2. IInv /\ (lost \/ JInv) /\ [Next]_vars => (lost \/ JInv)'
  BY NextKeepsLine
<1>3. lost \/ JInv => UpMeansInitialised
  BY DEF JInv, HadDone, UpMeansInitialised
<1>4. Spec => []IInv
  BY Inductive
<1>. QED  BY <1>1, <1>2, <1>3, <1>4, PTL DEF Spec
=============================================================================
