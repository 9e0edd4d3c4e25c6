---------------------------- MODULE WsfScheduler ----------------------------
(***************************************************************************)
(* The BLE task: the loop of ble_task.c around the event dispatcher        *)
(* (wsf_os.c), the timers (wsf_timer.c) and the messages (wsf_msg.c) of    *)
(* the BLE stack, with the interrupts of the radio and of the free-running *)
(* counter STIMER.                                                         *)
(*                                                                         *)
(* A handler of the stack is any sequence of calls of the scheduler's      *)
(* interface.  Each call runs in a critical section.  The console task     *)
(* outranks the BLE task, so what it calls is one step too.                *)
(***************************************************************************)
EXTENDS Integers, FiniteSets, Sequences, SequencesExt

CONSTANTS NumHandlers,  \* the handlers registered with WsfOsSetNextHandler
          Driver,       \* g_HciDrvHandleID
          Timers,       \* the objects of type wsfTimer_t
          Durations,    \* in ticks of WSF_MS_PER_TICK
          Clk,          \* CLK_TICKS_PER_WSF_TICKS
          Modulus,      \* values of the counter (2^32 in the code)
          MaxMessages,  \* messages the buffer pools hold
          CommandLen,   \* length of ble_task_command_queue (8 in the code)
          MaxWork,      \* bound: calls and interrupts until the task sleeps
          MaxHeld,      \* bound: counts that pass until the task sleeps
          MaxAge,       \* bound: ages of timers told apart
          Slack         \* lateness in counts that NotLate allows

ASSUME Assumptions ==
    /\ NumHandlers \in Nat \ {0} /\ Driver \in 0 .. NumHandlers - 1
    /\ Durations \subseteq Nat \ {0}
    /\ {Clk, Modulus, CommandLen, MaxMessages} \subseteq Nat \ {0}
    /\ {MaxWork, MaxHeld, MaxAge} \subseteq Nat

Handlers == 0 .. NumHandlers - 1
Kinds == {"message", "timer", "handler"}   \* WSF_MSG_QUEUE_EVENT, ...
Never == -1

VARIABLES commands,   \* BLE_STARTs in ble_task_command_queue
          started,    \* ble_stack_started
          notified,   \* the task's notification state is "received"
          pc,         \* the statement the task is at
          inHandler,  \* a handler runs
          index,      \* wsfOsDispatcher's i
          todo,       \* wsfOsDispatcher's taskEventMask
          mask,       \* wsfOs.task.taskEventMask
          events,     \* handlers whose handlerEventMask is not zero
          messages,   \* messages in wsfOs.task.msgQueue
          queue,      \* wsfTimerTimerQueue
          ticks,      \* ticks of each timer
          elapsed,    \* the counter minus wsfTimerRtcLastTicks
          alarm,      \* compare interrupts E and F of the counter
          work, held, \* how much MaxWork and MaxHeld have been used
          asked       \* how long ago each timer was started, and for how long

osvars == <<mask, events, messages>>
timervars == <<queue, ticks, elapsed, asked>>
loopvars == <<commands, started, pc, index, todo>>
vars == <<osvars, timervars, loopvars, notified, inHandler, alarm, work, held>>

Elements(q) == {q[i] : i \in DOMAIN q}
Running == Elements(queue)   \* timers with isStarted

TypeOK ==
    /\ commands \in 0 .. CommandLen
    /\ started \in BOOLEAN /\ notified \in BOOLEAN /\ inHandler \in BOOLEAN
    /\ pc \in {"command", "init", "dispatch", "messages", "timers", "handlers",
               "update", "arm", "clear", "ready", "wait"}
    /\ index \in 0 .. NumHandlers
    /\ todo \subseteq Kinds /\ mask \subseteq Kinds
    /\ events \subseteq Handlers
    /\ messages \in 0 .. MaxMessages
    /\ queue \in Seq(Timers) /\ ticks \in [Timers -> Nat]
    /\ elapsed \in 0 .. Modulus - 1
    /\ alarm \in [left : Nat \union {Never}, enabled : BOOLEAN, pending : BOOLEAN]
    /\ work \in 0 .. MaxWork /\ held \in 0 .. MaxHeld
    /\ asked \in [Timers -> [age : 0 .. MaxAge, for : Durations \union {0}]]

NotAsked == [age |-> 0, for |-> 0]
NoAlarm == [left |-> Never, enabled |-> FALSE, pending |-> FALSE]

Init ==
    /\ commands = 0 /\ started = FALSE /\ notified = FALSE
    /\ pc = "command" /\ inHandler = FALSE /\ index = NumHandlers /\ todo = {}
    /\ mask = {} /\ events = {} /\ messages = 0
    /\ queue = <<>> /\ ticks = [t \in Timers |-> 0] /\ elapsed = 0
    /\ asked = [t \in Timers |-> NotAsked]
    /\ alarm = NoAlarm /\ work = 0 /\ held = 0

----------------------------------------------------------------------------
(* The interface of the scheduler.                                         *)

\* Mutation: the task is not notified.
SetReadyQuietly(kind) == mask' = mask \union {kind} /\ UNCHANGED notified
SetReady(kind) == mask' = mask \union {kind} /\ notified' = TRUE

\* Mutation: the task's mask is left as it was.
WsfSetEventUnmasked(h) ==
    /\ events' = events \union {h}
    /\ UNCHANGED <<mask, messages, notified, timervars>>

WsfSetEvent(h) ==
    /\ events' = events \union {h}
    /\ SetReady("handler")
    /\ UNCHANGED <<messages, timervars>>

\* WsfMsgAlloc and WsfMsgSend.
WsfMsgSend ==
    /\ messages < MaxMessages
    /\ messages' = messages + 1
    /\ SetReady("message")
    /\ UNCHANGED <<events, timervars>>

Without(q, t) ==
    IF t \in Elements(q) THEN RemoveAt(q, CHOOSE i \in DOMAIN q : q[i] = t) ELSE q

\* The queue q with t before the first timer that expires later than it.
Inserted(q, t, n) ==
    LET later == {i \in DOMAIN q : n < ticks[q[i]]}
        place == IF later = {} THEN Len(q) + 1 ELSE CHOOSE i \in later : \A j \in later : i <= j
    IN  InsertAt(q, place, t)

WsfTimerStart(t, n) ==
    /\ queue' = Inserted(Without(queue, t), t, n)
    /\ ticks' = [ticks EXCEPT ![t] = n]
    /\ asked' = [asked EXCEPT ![t] = [age |-> 0, for |-> n]]
    /\ UNCHANGED <<osvars, notified, elapsed>>

WsfTimerStop(t) ==
    /\ t \in Running
    /\ queue' = Without(queue, t)
    /\ ticks' = [ticks EXCEPT ![t] = 0]   \* not read before the next start
    /\ asked' = [asked EXCEPT ![t] = NotAsked]
    /\ UNCHANGED <<osvars, notified, elapsed>>

Works == work < MaxWork /\ work' = work + 1

HandlerCalls ==
    /\ inHandler
    /\ Works
    /\ \/ \E h \in Handlers : WsfSetEvent(h)
       \/ WsfMsgSend
       \/ \E t \in Timers, n \in Durations : WsfTimerStart(t, n)
       \/ \E t \in Timers : WsfTimerStop(t)
    /\ UNCHANGED <<loopvars, inHandler, alarm, held>>

HandlerReturns ==
    /\ inHandler
    /\ inHandler' = FALSE
    /\ UNCHANGED <<osvars, timervars, loopvars, notified, alarm, work, held>>

----------------------------------------------------------------------------
(* The task's loop.                                                        *)

At(label) == pc = label /\ ~inHandler

\* HciDrvRadioBoot is the part of ble_stack_start before the initialization:
\* from then on the radio interrupts.
HandleCommand ==
    /\ At("command")
    /\ commands' = IF commands > 0 THEN commands - 1 ELSE 0
    /\ pc' = IF started THEN "dispatch"
             ELSE IF commands > 0 THEN "init" ELSE "ready"
    /\ UNCHANGED <<osvars, timervars, started, notified, inHandler, index, todo, alarm, work, held>>

\* WsfOsInit clears what the radio's interrupt may have set, and TagStart
\* ends with the message that DmDevReset sends.
StackInit ==
    /\ At("init")
    /\ events' = {} /\ messages' = 1 /\ mask' = {"message"} /\ notified' = TRUE
    /\ queue' = <<>> /\ ticks' = [t \in Timers |-> 0] /\ elapsed' = 0
    /\ asked' = [t \in Timers |-> NotAsked]
    /\ alarm' = [alarm EXCEPT !.enabled = TRUE]
    /\ started' = TRUE
    /\ pc' = "dispatch"
    /\ UNCHANGED <<commands, inHandler, index, todo, work, held>>

Dispatch ==
    /\ At("dispatch")
    /\ todo' = mask /\ mask' = {}
    /\ pc' = IF mask = {} THEN "update" ELSE "messages"
    /\ UNCHANGED <<events, messages, timervars, commands, started, index, notified, inHandler, alarm, work, held>>

ServiceMessages ==
    /\ At("messages")
    /\ IF "message" \in todo /\ messages > 0
       THEN messages' = messages - 1 /\ inHandler' = TRUE /\ UNCHANGED pc
       ELSE pc' = "timers" /\ UNCHANGED <<messages, inHandler>>
    /\ UNCHANGED <<mask, events, timervars, commands, started, index, todo, notified, alarm, work, held>>

Expired == queue # <<>> /\ ticks[Head(queue)] = 0

ServiceTimers ==
    /\ At("timers")
    /\ IF "timer" \in todo /\ Expired
       THEN /\ queue' = Tail(queue)
            /\ asked' = [asked EXCEPT ![Head(queue)] = NotAsked]
            /\ inHandler' = TRUE
            /\ UNCHANGED <<pc, index>>
       ELSE /\ pc' = "handlers"
            /\ index' = IF "handler" \in todo THEN 0 ELSE NumHandlers
            /\ UNCHANGED <<queue, asked, inHandler>>
    /\ UNCHANGED <<osvars, ticks, elapsed, commands, started, todo, notified, alarm, work, held>>

ServiceHandlers ==
    /\ At("handlers")
    /\ IF index < NumHandlers
       THEN index' = index + 1 /\ UNCHANGED pc
       ELSE pc' = "dispatch" /\ UNCHANGED index
    /\ events' = events \ {index}
    /\ inHandler' = (index \in events)
    /\ UNCHANGED <<mask, messages, timervars, commands, started, todo, notified, alarm, work, held>>

\* Mutation: the subtraction may underflow.
MinusUnchecked(n, m) == n - m

Minus(n, m) == IF n > m THEN n - m ELSE 0

\* wsfTimerRtcLastTicks moves only when a whole tick has passed.
CountOfCall == 0   \* mutation: it moves at every call
CountLeft == IF elapsed \div Clk > 0 THEN 0 ELSE elapsed

\* WsfTimerSleepUpdate and WsfTimerUpdate.
SleepUpdate ==
    /\ At("update")
    /\ LET passed == elapsed \div Clk
           updated == [t \in Timers |-> IF t \in Running THEN Minus(ticks[t], passed) ELSE ticks[t]]
       IN  IF passed > 0
           THEN /\ ticks' = updated
                /\ IF \E t \in Running : updated[t] = 0
                   THEN SetReady("timer")
                   ELSE UNCHANGED <<mask, notified>>
           ELSE UNCHANGED <<ticks, mask, notified>>
    /\ elapsed' = CountLeft
    /\ pc' = "arm"
    /\ UNCHANGED <<events, messages, queue, asked, commands, started, index, todo, inHandler, alarm, work, held>>

\* WsfTimerSleep up to am_hal_stimer_compare_delta_set.
SleepArm ==
    /\ At("arm")
    /\ IF queue # <<>> /\ ticks[Head(queue)] > 0
       THEN /\ alarm' = [alarm EXCEPT !.left = ticks[Head(queue)] * Clk]
            /\ pc' = "clear"
       ELSE /\ alarm' = [alarm EXCEPT !.enabled = FALSE, !.pending = FALSE]
            /\ pc' = "ready"
    /\ UNCHANGED <<osvars, timervars, commands, started, index, todo, notified, inHandler, work, held>>

\* WsfTimerSleep from am_hal_stimer_int_clear.
SleepEnable ==
    /\ At("clear")
    /\ alarm' = [alarm EXCEPT !.enabled = TRUE, !.pending = FALSE]
    /\ pc' = "ready"
    /\ UNCHANGED <<osvars, timervars, commands, started, index, todo, notified, inHandler, work, held>>

\* wsfOsReadyToSleep.
Ready ==
    /\ At("ready")
    /\ IF mask = {}
       THEN pc' = "wait" /\ work' = 0 /\ held' = 0
       ELSE pc' = "command" /\ UNCHANGED <<work, held>>
    /\ UNCHANGED <<osvars, timervars, commands, started, index, todo, notified, inHandler, alarm>>

\* xTaskNotifyWait.
Wait ==
    /\ At("wait")
    /\ notified
    /\ notified' = FALSE
    /\ pc' = "command"
    /\ UNCHANGED <<osvars, timervars, commands, started, index, todo, inHandler, alarm, work, held>>

----------------------------------------------------------------------------
(* The interrupts, the other tasks, and time.                              *)

\* am_stimer_cmpr4_isr and am_stimer_cmpr5_isr.
AlarmIsr ==
    /\ alarm.enabled /\ alarm.pending
    /\ alarm' = [alarm EXCEPT !.pending = FALSE]
    /\ SetReady("timer")
    /\ UNCHANGED <<events, messages, timervars, loopvars, inHandler, work, held>>

\* am_ble_isr.
RadioIsr ==
    /\ started \/ pc = "init"
    /\ Works
    /\ WsfSetEvent(Driver)
    /\ UNCHANGED <<loopvars, inHandler, alarm, held>>

\* The console's ble adv, through AppAdvStart; before the stack is started
\* there is no buffer for the message.
ConsoleSends ==
    /\ started
    /\ Works
    /\ WsfMsgSend
    /\ UNCHANGED <<loopvars, inHandler, alarm, held>>

\* ble_send_command.
SendCommand ==
    /\ Works
    /\ commands' = IF commands < CommandLen THEN commands + 1 ELSE commands
    /\ notified' = TRUE
    /\ UNCHANGED <<osvars, timervars, started, pc, index, todo, inHandler, alarm, held>>

Asleep == pc = "wait" /\ ~notified

\* The counter advances while the task sleeps or, for a bounded while, works.
\* The task is assumed not to be held up for the whole delay of an alarm
\* between am_hal_stimer_compare_delta_set and am_hal_stimer_int_clear.
Tick ==
    /\ ~(alarm.enabled /\ alarm.pending)
    /\ \/ Asleep /\ UNCHANGED held
       \/ ~Asleep /\ held < MaxHeld /\ held' = held + 1
    /\ pc = "clear" => alarm.left > 1
    /\ elapsed' = (elapsed + 1) % Modulus
    /\ alarm' = CASE alarm.left = Never -> alarm
                  [] alarm.left = 1     -> [alarm EXCEPT !.left = Never, !.pending = TRUE]
                  [] OTHER              -> [alarm EXCEPT !.left = @ - 1]
    /\ asked' = [t \in Timers |-> IF t \in Running /\ asked[t].age < MaxAge
                                  THEN [asked[t] EXCEPT !.age = @ + 1] ELSE asked[t]]
    /\ UNCHANGED <<osvars, queue, ticks, loopvars, notified, inHandler, work>>

TaskStep ==
    \/ HandlerReturns \/ HandleCommand \/ StackInit \/ Dispatch
    \/ ServiceMessages \/ ServiceTimers \/ ServiceHandlers
    \/ SleepUpdate \/ SleepArm \/ SleepEnable \/ Ready \/ Wait

Next ==
    \/ TaskStep \/ HandlerCalls
    \/ AlarmIsr \/ RadioIsr \/ ConsoleSends \/ SendCommand \/ Tick

Spec == Init /\ [][Next]_vars

FairSpec == Spec /\ WF_vars(TaskStep) /\ WF_vars(AlarmIsr) /\ WF_vars(Tick)

----------------------------------------------------------------------------
(* Properties.                                                             *)

\* Whenever the BLE task is about to sleep for good (it waits and nobody has
\* notified it) every event has been handled, every message delivered, and a
\* running timer has the alarm set early enough to wake the task for it:
\* whatever interrupted the dispatcher, the check of taskEventMask and the
\* wait, at whatever step.
SleepsCovered ==
    Asleep =>
      /\ mask = {} /\ (started => events = {} /\ messages = 0)
      /\ queue # <<>> =>
           /\ ticks[Head(queue)] > 0
           /\ alarm.enabled
           /\ alarm.pending \/ alarm.left \in 1 .. ticks[Head(queue)] * Clk

\* The timers are serviced in time: no timer is in the queue for more than
\* twice its duration (every update of the timers drops the fraction of a
\* tick that has passed) and the time that handlers take.
NotLate == \A t \in Running : asked[t].age <= 2 * Clk * asked[t].for + Slack

\* What a handler, an interrupt or another task leaves for a handler is
\* taken, although the dispatcher clears the task's mask before it looks.
WorkEnds == events # {} \/ messages > 0 ~> events = {} /\ messages = 0

=============================================================================
