----------------------------- MODULE LorawanTask -----------------------------
(***************************************************************************)
(* The LoRaWAN task: lorawan_task.c on top of a class A MAC.  Tasks that   *)
(* send it commands and packets, the radio's and the timers' interrupts,   *)
(* and the timer that takes the radio's SPI port down interleave with its  *)
(* loop.  The power handler, commands that leave the modelled state alone  *)
(* ("sync") and the packages of LmHandler, but for the multicast sessions  *)
(* that hold its packets back, are abstracted.                             *)
(***************************************************************************)
EXTENDS ClassAMac, Sequences, FiniteSets

CONSTANTS Senders,      \* tasks that call lorawan_send_command, lorawan_transmit
          QueueLen,     \* length of both queues (8 in the code)
          PortTimeout,  \* LORAWAN_SPI_PORT_TIMEOUT
          MaxSends,     \* commands and packets that a run sends
          MaxNotes      \* notifications beyond which the radio and time wait

\* What the 8 seconds of the port have to be longer than.
DelayAssumption == \A d \in RxDelays : d \in Nat /\ d + Second < PortTimeout
SecondAssumption == Second \in Nat \ {0} /\ AckTimeouts \subseteq Nat
NoneAssumption == None \notin Nat
BoundsAssumption == /\ {QueueLen, PortTimeout, MaxSends, MaxNotes, MaxSessions, NbTrans}
                         \subseteq Nat
                    /\ IsFiniteSet(Senders)
ASSUME Assumptions == /\ DelayAssumption /\ SecondAssumption /\ NoneAssumption
                      /\ BoundsAssumption

Commands == {"start", "stop", "join", "sync"}

VARIABLES cmds,       \* lorawan_task_command_queue
          txs,        \* packets in lorawan_task_transmit_queue
          notes,      \* the task's notification value
          giving,     \* senders between xQueueSend and the notification
          sends,      \* commands and packets sent
          pc,         \* where the task is in its loop
          started,    \* lorawan_stack_started
          powered,    \* lorawan_spi_port_powered
          port,       \* the SPI module: not initialised, on or asleep
          portTimer,  \* units until lorawan_port_callback, or None
          pm,         \* a power management callback is registered
          mac         \* the MAC and the radio

queues == <<cmds, txs>>
power == <<powered, port, portTimer, pm>>
vars == <<queues, notes, giving, sends, pc, started, power, mac>>

Init ==
    /\ cmds = <<>> /\ txs = 0 /\ notes = 0 /\ giving = {} /\ sends = 0
    /\ pc = "command" /\ started = FALSE
    /\ powered = FALSE /\ port = "none" /\ portTimer = None /\ pm = FALSE
    /\ mac = [state |-> "stopped", radio |-> "idle", irq |-> "none",
              win |-> NoWindows, joined |-> FALSE, joining |-> FALSE,
              confirmed |-> FALSE, count |-> 0, ack |-> None, retry |-> FALSE,
              done |-> FALSE, flush |-> FALSE, refused |-> FALSE, stale |-> FALSE,
              mcast |-> [flag |-> "idle", started |-> FALSE, starts |-> FALSE,
                         stops |-> FALSE, left |-> MaxSessions]]

----------------------------------------------------------------------------
(* The tasks that use the stack.  The notification is a step of its own:   *)
(* the critical section around the two is commented out.                   *)

CanSend(s) == s \notin giving /\ sends < MaxSends

SendCommand(s, c) ==
    /\ CanSend(s)
    /\ cmds' = IF Len(cmds) < QueueLen THEN Append(cmds, c) ELSE cmds
    /\ giving' = giving \cup {s} /\ sends' = sends + 1
    /\ UNCHANGED <<txs, notes, pc, started, power, mac>>

Transmit(s) ==
    /\ CanSend(s)
    /\ txs' = IF txs < QueueLen THEN txs + 1 ELSE txs
    /\ giving' = giving \cup {s} /\ sends' = sends + 1
    /\ UNCHANGED <<cmds, notes, pc, started, power, mac>>

Give(s) ==
    /\ s \in giving
    /\ giving' = giving \ {s} /\ notes' = notes + 1
    /\ UNCHANGED <<queues, sends, pc, started, power, mac>>

RegisterPowerManagement ==
    /\ ~pm /\ pm' = TRUE
    /\ UNCHANGED <<queues, notes, giving, sends, pc, started, powered, port,
                   portTimer, mac>>

----------------------------------------------------------------------------
(* The task.  The timer daemon outranks it.                                *)

At(label) == pc = label /\ portTimer # 0

StackStart ==
    /\ ~started /\ started' = TRUE
    /\ port' = "on" /\ powered' = TRUE
    /\ portTimer' = IF pm THEN None ELSE portTimer
    /\ mac' \in Started(mac)
    /\ UNCHANGED txs

StackStop ==
    /\ started /\ started' = FALSE
    /\ mac' = Stopped(mac)
    /\ port' = "none" /\ powered' = FALSE
    /\ portTimer' = IF pm /\ mac'.radio = "idle" THEN PortTimeout ELSE portTimer
    /\ txs' = 0

Join ==
    /\ started /\ mac' \in JoinRequest(mac)
    /\ UNCHANGED <<txs, started, powered, port, portTimer>>

Ignored(c) == CASE c = "start" -> started
                [] c = "sync" -> TRUE
                [] OTHER -> ~started

HandleCommand ==
    /\ At("command")
    /\ IF cmds = <<>>
       THEN UNCHANGED <<cmds, txs, started, powered, port, portTimer, mac>>
       ELSE /\ cmds' = Tail(cmds)
            /\ \/ Head(cmds) = "start" /\ StackStart
               \/ Head(cmds) = "stop" /\ StackStop
               \/ Head(cmds) = "join" /\ Join
               \/ /\ Ignored(Head(cmds))
                  /\ UNCHANGED <<txs, started, powered, port, portTimer, mac>>
    /\ pc' = IF started' THEN "process" ELSE "sleep"
    /\ UNCHANGED <<notes, giving, sends, pm>>

\* The radio's callbacks, a frame that ends the wait for an acknowledgement
\* and a flush that has to wait notify the task itself.
LmHandlerProcess ==
    /\ At("process")
    /\ \E m \in MacProcess(mac) :
         /\ mac' \in FlushServer(McastProcess(m))
         /\ \E again \in IF mac.irq = "frame" /\ mac.confirmed THEN 0 .. 1 ELSE {0} :
              notes' = notes + (IF mac.irq # "none" THEN 1 ELSE 0) + again
                             + (IF m.flush /\ IsBusy(m) THEN 1 ELSE 0)
    /\ pc' = "uplink"
    /\ UNCHANGED <<queues, giving, sends, started, power>>

\* Mutation: a device that has not joined is busy, and does not join.
HandleUplinkJoined ==
    /\ At("uplink")
    /\ IF mac.mcast.started \/ txs = 0 \/ IsBusy(mac) \/ ~mac.joined
       THEN UNCHANGED <<txs, mac>>
       ELSE txs' = txs - 1 /\ \E confirmed \in BOOLEAN : mac' \in Send(mac, confirmed)
    /\ pc' = "sleep"
    /\ UNCHANGED <<cmds, notes, giving, sends, started, power>>
HandleUplink ==
    /\ At("uplink")
    /\ CASE mac.mcast.started \/ txs = 0 -> UNCHANGED <<txs, mac>>
         [] ~mac.mcast.started /\ txs > 0 /\ (IsBusy(mac) \/ ~mac.joined) ->
              mac' \in JoinRequest(mac) /\ UNCHANGED txs
         [] OTHER -> /\ txs' = txs - 1
                     /\ \E confirmed \in BOOLEAN : mac' \in Send(mac, confirmed)
    /\ pc' = "sleep"
    /\ UNCHANGED <<cmds, notes, giving, sends, started, power>>

\* Mutation: the port goes to sleep with the task.
PortSleepsAtOnce ==
    /\ At("sleep")
    /\ IF pm /\ mac.radio = "idle"
       THEN /\ powered' = FALSE
            /\ port' = IF port = "on" THEN "asleep" ELSE port
       ELSE UNCHANGED <<powered, port>>
    /\ pc' = "wait"
    /\ UNCHANGED <<queues, notes, giving, sends, started, portTimer, pm, mac>>
PowerSleep ==
    /\ At("sleep")
    /\ portTimer' = IF pm /\ mac.radio = "idle" THEN PortTimeout ELSE portTimer
    /\ pc' = "wait"
    /\ UNCHANGED <<queues, notes, giving, sends, started, powered, port, pm, mac>>

\* Mutation: ulTaskNotifyTake(pdTRUE).
Cleared == 0
Decremented == notes - 1
Take ==
    /\ At("wait") /\ notes > 0
    /\ notes' = Decremented
    /\ pc' = "wake"
    /\ UNCHANGED <<queues, giving, sends, started, power, mac>>

\* Mutation: the port's timer goes on running.
WakeKeepsTimer ==
    /\ portTimer' = portTimer
    /\ port' = IF ~powered /\ port = "asleep" THEN "on" ELSE port
    /\ powered' = TRUE
Wake ==
    /\ portTimer' = None
    /\ port' = IF ~powered /\ port = "asleep" THEN "on" ELSE port
    /\ powered' = TRUE

PowerWake ==
    /\ At("wake")
    /\ IF pm THEN Wake ELSE UNCHANGED <<portTimer, port, powered>>
    /\ pc' = "command"
    /\ UNCHANGED <<queues, notes, giving, sends, started, pm, mac>>

----------------------------------------------------------------------------
(* Interrupts, the timer daemon and time.                                  *)

\* The task keeps up with the world, but for a flush that waits until an
\* uplink is over, when it notifies itself in every round.
Quick == notes <= MaxNotes \/ (mac.flush /\ IsBusy(mac) /\ mac.joined)

\* Without the SPI module's initialisation the radio's interrupt is off; the
\* time-out of a transmission comes from a timer.
RadioEvent ==
    /\ mac.radio # "idle" /\ mac.irq = "none" /\ port # "none"
    /\ Quick
    /\ \E e \in IF mac.radio = "tx" THEN {"sent", "timeout"}
                ELSE {"frame", "timeout"} :
         mac' = [mac EXCEPT !.irq = e]
    /\ notes' = notes + 1
    /\ UNCHANGED <<queues, giving, sends, pc, started, power>>

RxWindow(k) ==
    /\ mac.win[k] = 0
    /\ mac' = Opened(mac, k)
    /\ notes' = notes + 1
    /\ UNCHANGED <<queues, giving, sends, pc, started, power>>

\* The other timers of the LoRaWAN stack.
Interrupt(m) ==
    /\ mac' = m
    /\ notes' = notes + 1
    /\ UNCHANGED <<queues, giving, sends, pc, started, power>>

RetransmitTimer == mac.ack = 0 /\ Interrupt(RetransmitTimeout(mac))

\* Sessions take their time.
SessionStartTimer ==
    mac.mcast.starts /\ Quick /\ Interrupt(SessionStart(mac))
SessionStopTimer ==
    mac.mcast.stops /\ Quick /\ Interrupt(SessionStop(mac))

PortCallback ==
    /\ portTimer = 0
    /\ portTimer' = None
    /\ powered' = FALSE
    /\ port' = IF powered /\ port = "on" THEN "asleep" ELSE port
    /\ UNCHANGED <<queues, notes, giving, sends, pc, started, pm, mac>>

Earlier(t) == IF t = None \/ t = 0 THEN t ELSE t - 1

\* The MAC's timers are interrupts and prompt, the daemon may be late.
Tick ==
    /\ mac.ack # 0 /\ \A k \in 1 .. 2 : mac.win[k] # 0
    /\ \/ portTimer \notin {None, 0}
       \/ mac.win # NoWindows \/ mac.ack # None
    /\ Quick
    /\ portTimer' = Earlier(portTimer)
    /\ mac' = [mac EXCEPT !.win = [k \in 1 .. 2 |-> Earlier(mac.win[k])],
                          !.ack = Earlier(@)]
    /\ UNCHANGED <<queues, notes, giving, sends, pc, started, powered, port, pm>>

----------------------------------------------------------------------------
TaskStep == \/ HandleCommand \/ LmHandlerProcess \/ HandleUplink
            \/ PowerSleep \/ Take \/ PowerWake

Next ==
    \/ \E s \in Senders : Transmit(s) \/ Give(s)
    \/ \E s \in Senders, c \in Commands : SendCommand(s, c)
    \/ RegisterPowerManagement
    \/ HandleCommand \/ LmHandlerProcess \/ HandleUplink
    \/ PowerSleep \/ Take \/ PowerWake
    \/ RadioEvent \/ (\E k \in 1 .. 2 : RxWindow(k)) \/ RetransmitTimer
    \/ SessionStartTimer \/ SessionStopTimer
    \/ PortCallback \/ Tick

Spec == Init /\ [][Next]_vars

\* The server has no more frames to fetch.
ServerContent ==
    /\ LmHandlerProcess
    /\ mac.irq = "frame" /\ ~mac.joining
    /\ mac'.state = "idle" /\ ~mac'.flush

\* The scheduler runs every task that is ready, the radio ends what it
\* began, interrupts are taken, time passes, and the server does not ask for
\* another uplink with every frame it sends.
FairSpec ==
    /\ Spec
    /\ WF_vars(TaskStep) /\ WF_vars(RadioEvent) /\ WF_vars(Tick)
    /\ WF_vars(PortCallback) /\ SF_vars(ServerContent)
    /\ \A s \in Senders : WF_vars(Give(s))
    /\ \A k \in 1 .. 2 : WF_vars(RxWindow(k))
    /\ WF_vars(RetransmitTimer) /\ WF_vars(SessionStopTimer)

----------------------------------------------------------------------------
(* Properties.                                                             *)

\* Every variable has its type, and the queues stay within their length.
TypeOK ==
    /\ cmds \in Seq(Commands) /\ Len(cmds) <= QueueLen
    /\ txs \in 0 .. QueueLen
    /\ notes \in Nat /\ sends \in 0 .. MaxSends
    /\ giving \subseteq Senders
    /\ pc \in {"command", "process", "uplink", "sleep", "wait", "wake"}
    /\ started \in BOOLEAN /\ powered \in BOOLEAN /\ pm \in BOOLEAN
    /\ port \in {"none", "on", "asleep"}
    /\ portTimer \in Deadline
    /\ mac \in Mac

\* One notification is on its way for every command in the queue, so that the
\* task, which takes one of each per round, never sleeps on a command: though
\* xQueueSend and the notification of lorawan_send_command are not atomic.
CommandsCovered ==
    Len(cmds) <= notes + Cardinality(giving)
                   + (IF pc \in {"wake", "command"} THEN 1 ELSE 0)

\* While the stack runs, lorawan_spi_port_powered tells whether the SPI port
\* is on, and it is whenever the task runs code that talks to the radio.
PortOnForTask ==
    started => /\ powered <=> port = "on"
               /\ pc \in {"command", "process", "uplink"} => port = "on"

\* A receive window opens in an interrupt, with the task asleep and its port's
\* timer running: the port is still on then.
PortOnForWindow == started => \A k \in 1 .. 2 : mac.win[k] = 0 => port = "on"

\* The task sleeps on a packet only while the MAC is busy, after the region
\* refused a request, or in a multicast session whose timer has still to fire
\* and wakes the task to end it.
UplinkTriedAgain ==
    (/\ started /\ txs > 0 /\ pc = "wait" /\ notes = 0 /\ giving = {})
      => \/ IsBusy(mac) \/ mac.refused
         \/ mac.mcast.started /\ mac.mcast.stops

\* A joined device sends the packets that are queued, whatever frames before
\* them are repeated or wait for an acknowledgement and whatever multicast
\* sessions hold them back, unless the region refuses one, or the stack was
\* stopped or restarted while the MAC was busy.
UplinksEnd ==
    started /\ mac.joined /\ txs > 0
      ~> txs = 0 \/ ~started \/ ~mac.joined \/ mac.refused \/ mac.stale

\* The second window is given up for a frame in the first, or because the
\* first is still open when the second is due; a first window that ended
\* without an answer before that leaves it armed.
SecondWindowKept ==
    [][(/\ pc = "process" /\ mac.irq = "timeout"
        /\ mac.win[2] \notin {None, 0} /\ LmHandlerProcess)
         => mac'.win[2] = mac.win[2]]_vars
=============================================================================
