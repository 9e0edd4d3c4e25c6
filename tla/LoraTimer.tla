------------------------------ MODULE LoraTimer ------------------------------
(***************************************************************************)
(* The timers of the LoRaWAN stack: the list of system/timer.c on top of   *)
(* the alarm of rtc-board.c, with its two compare interrupts C and D of    *)
(* the free-running counter STIMER.                                        *)
(*                                                                         *)
(* Timers are set, started and stopped by the LoRaWAN task and by the      *)
(* callbacks, which run in the interrupt.  A call runs in a critical       *)
(* section and takes no time; an interrupt may be taken late, because of   *)
(* critical sections and of other interrupts, and a callback takes time.   *)
(***************************************************************************)
EXTENDS Integers, FiniteSets, Sequences

CONSTANTS Timers,      \* the objects of type TimerEvent_t
          Width,       \* bits of the counter (32 in the code)
          MinTicks,    \* MIN_ALARM_DELAY (3 in the code)
          Scenarios,   \* the kinds of behaviour a run covers: records of the
                       \* timers used, their durations in ticks, the ticks that
                       \* an interrupt may wait or a callback take (delay), and
                       \* the last time (end)
          None         \* no timer: NULL

Modulus == 2^Width

ASSUME TimerAssumption ==
          /\ None \notin Timers
          /\ Modulus \in Nat \ {0}
          /\ MinTicks \in 1 .. Modulus - 1
          /\ \A s \in Scenarios : /\ s.timers \subseteq Timers /\ s.timers # {}
                                 /\ IsFiniteSet(s.timers)
                                 /\ s.durations \subseteq 0 .. Modulus - 1
                                 /\ s.delay \in Nat

Counter == 0 .. Modulus - 1

VARIABLES now,       \* STTMR
          ref,       \* RtcTimerContext.Ref_Ticks
          alarm,     \* RtcTimerContext.Alarm_Ticks
          running,   \* RtcTimerContext.Running
          compare,   \* the compare registers of C and D
          enabled,   \* the interrupts enabled, a subset of {"C", "D"}
          pending,   \* the interrupts pending in the NVIC
          list,      \* TimerListHead and the objects after it
          stamp,     \* Timestamp of each object
          reload,    \* ReloadValue of each object
          next,      \* objects with IsNext2Expire
          callback,  \* the object whose callback runs, or None
          waited,    \* ticks an interrupt has waited or a callback has taken
          scenario,  \* the one of this behaviour
          left       \* real time: ticks until each listed timer is due

\* The lateness that NotLate allows: every other timer may come first, its alarm
\* at least MinTicks away and its interrupt and callback delayed.
Slack == (Cardinality(scenario.timers) - 1) * (MinTicks + scenario.delay)
         + scenario.delay

rtc == <<ref, alarm, running, compare, enabled>>
timers == <<list, stamp, reload, next>>
vars == <<now, rtc, pending, timers, callback, waited, scenario, left>>

----------------------------------------------------------------------------
(* rtc-board.c.  An operator F(..., r) maps the record r of the RTC's and  *)
(* the list's state to the next one.                                       *)

State == [ref |-> ref, alarm |-> alarm, running |-> running,
          compare |-> compare, enabled |-> enabled,
          list |-> list, stamp |-> stamp, reload |-> reload, next |-> next]

Becomes(r) == /\ ref' = r.ref /\ alarm' = r.alarm /\ running' = r.running
              /\ compare' = r.compare /\ enabled' = r.enabled
              /\ list' = r.list /\ stamp' = r.stamp
              /\ reload' = r.reload /\ next' = r.next

ElapsedSince(r) == (now - r.ref) % Modulus

\* Clearing the interrupts in the STIMER leaves them pending in the NVIC.
StopAlarm(r) == [r EXCEPT !.enabled = {}, !.running = FALSE]

\* Mutation: the alarm set at now + timeout.
StartAlarmFromNow(timeout, r) ==
    [StopAlarm(r) EXCEPT
       !.alarm = timeout, !.running = TRUE,
       !.compare = [C |-> (now + timeout) % Modulus,
                    D |-> (now + timeout + 1) % Modulus],
       !.enabled = {"C", "D"}]
StartAlarm(timeout, r) ==
    LET relative == (timeout - ElapsedSince(r)) % Modulus
    IN  [StopAlarm(r) EXCEPT
           !.alarm = timeout, !.running = TRUE,
           !.compare = [C |-> (now + relative) % Modulus,
                        D |-> (now + relative + 1) % Modulus],
           !.enabled = {"C", "D"}]

----------------------------------------------------------------------------
(* timer.c.                                                                *)

\* TimerSetTimeout: the head is not due before MinTicks from now.
SetTimeout(r) ==
    LET t == Head(r.list)
        soon == (ElapsedSince(r) + MinTicks) % Modulus
        s == IF r.stamp[t] < soon THEN soon ELSE r.stamp[t]
    IN  StartAlarm(s, [r EXCEPT !.stamp[t] = s, !.next = @ \cup {t}])

Listed(r) == {r.list[i] : i \in DOMAIN r.list}
InsertAt(s, i, t) == [j \in 1 .. Len(s) + 1 |->
                        IF j < i THEN s[j] ELSE IF j = i THEN t ELSE s[j - 1]]
Without(s, t) == LET i == CHOOSE i \in DOMAIN s : s[i] = t
                 IN  [j \in 1 .. Len(s) - 1 |-> IF j < i THEN s[j] ELSE s[j + 1]]

InsertNewHead(t, r) ==
    SetTimeout([r EXCEPT !.next = IF r.list = <<>> THEN @ ELSE @ \ {Head(r.list)},
                         !.list = <<t>> \o @])

\* Mutation: at the end, whatever is there.
Appended(t, r) == [r EXCEPT !.list = @ \o <<t>>]
\* TimerInsertTimer: before the first object after the head that is not due
\* earlier.
InsertAfterHead(t, r) ==
    LET later == {i \in 2 .. Len(r.list) : r.stamp[r.list[i]] >= r.stamp[t]}
        place == IF later = {} THEN Len(r.list) + 1
                 ELSE CHOOSE i \in later : \A j \in later : i <= j
    IN  [r EXCEPT !.list = InsertAt(@, place, t)]

\* Mutation: the time since the reference forgotten.
StartedSinceRef(t, r) ==
    LET r1 == [r EXCEPT !.stamp[t] = r.reload[t], !.next = @ \ {t}]
    IN  IF r.list = <<>> THEN InsertNewHead(t, [r1 EXCEPT !.ref = now])
        ELSE IF r1.stamp[t] < r.stamp[Head(r.list)]
             THEN InsertNewHead(t, r1) ELSE InsertAfterHead(t, r1)
Started(t, r) ==
    LET r1 == [r EXCEPT !.next = @ \ {t},
                        !.stamp[t] = IF r.list = <<>> THEN r.reload[t]
                                     ELSE (r.reload[t] + ElapsedSince(r)) % Modulus]
    IN  IF r.list = <<>> THEN InsertNewHead(t, [r1 EXCEPT !.ref = now])
        ELSE IF r1.stamp[t] < r.stamp[Head(r.list)]
             THEN InsertNewHead(t, r1) ELSE InsertAfterHead(t, r1)

\* Mutation: the alarm left as it was when the head is stopped.
StoppedSilently(t, r) ==
    IF t \notin Listed(r) THEN r
    ELSE [r EXCEPT !.list = Without(@, t), !.next = @ \ {t}]
Stopped(t, r) ==
    LET rest == Without(r.list, t)
        r1 == [r EXCEPT !.list = rest, !.next = @ \ {t}]
    IN  IF t \notin Listed(r) THEN r
        ELSE IF t # Head(r.list) THEN [r EXCEPT !.list = rest]
        ELSE IF t \notin r.next THEN [r EXCEPT !.list = rest]
        ELSE IF rest = <<>> THEN StopAlarm(r1) ELSE SetTimeout(r1)

----------------------------------------------------------------------------
(* The calls, from the task or from a callback.                            *)

\* A task calls while interrupts are pending only if they may wait.
CanCall == callback # None \/ (pending # {} => waited < scenario.delay)

TimerStart(t) == /\ CanCall
                 /\ t \notin Listed(State)
                 /\ reload[t] > 0
                 /\ Becomes(Started(t, State))
                 /\ left' = [left EXCEPT ![t] = reload[t]]
                 /\ UNCHANGED <<now, pending, callback, waited, scenario>>

TimerStop(t) == /\ CanCall
                /\ t \in Listed(State)
                /\ Becomes(Stopped(t, State))
                /\ UNCHANGED <<now, pending, callback, waited, scenario, left>>

TimerSetValue(t) ==
    /\ CanCall
    /\ \E d \in scenario.durations :
          LET ticks == IF d < MinTicks THEN MinTicks ELSE d
          IN  /\ reload[t] # ticks
              /\ Becomes([Stopped(t, State) EXCEPT !.stamp[t] = ticks,
                                                   !.reload[t] = ticks])
    /\ UNCHANGED <<now, pending, callback, waited, scenario, left>>

----------------------------------------------------------------------------
(* The interrupts.                                                         *)

\* Take the head off the list and run its callback.
Run(r) == /\ Becomes([r EXCEPT !.list = Tail(@)])
          /\ callback' = Head(r.list)

\* TimerIrqHandler up to its first callback: the reference becomes now.  The
\* list is empty when a callback took longer than the timer it started.
IrqHandler(r) ==
    LET delta == ElapsedSince(r)
        later == Listed(r) \ {Head(r.list)}
        r1 == [r EXCEPT !.ref = now, !.running = FALSE]
    IN  IF r.list = <<>> THEN Becomes(r1) /\ UNCHANGED callback
        ELSE Run([r1 EXCEPT !.stamp = [t \in Timers |->
                                IF t \notin later THEN @[t]
                                ELSE IF @[t] > delta THEN @[t] - delta ELSE 0]])

\* The counter is compared with Alarm_Ticks, which counts from Ref_Ticks.
Due(r) == r.running /\ now >= r.alarm

Isr(i) == /\ callback = None
          /\ i \in pending
          /\ i = "D" => "C" \notin pending
          /\ LET r == IF i = "C" THEN [State EXCEPT !.enabled = @ \ {"D"}] ELSE State
             IN  IF Due(r) THEN IrqHandler(r) ELSE Becomes(r) /\ UNCHANGED callback
          /\ pending' = pending \ {i}
          /\ waited' = 0
          /\ UNCHANGED <<now, scenario, left>>

\* Mutation: due a tick too early.
ExpiredEarly(r) == r.list # <<>> /\ r.stamp[Head(r.list)] <= ElapsedSince(r) + 1
Expired(r) == r.list # <<>> /\ r.stamp[Head(r.list)] < ElapsedSince(r)

\* A callback returns: the next expired timer, or the alarm for the head.
CallbackReturns ==
    /\ callback # None
    /\ IF Expired(State)
       THEN Run(State)
       ELSE /\ callback' = None
            /\ Becomes(IF list # <<>> /\ Head(list) \notin next
                       THEN SetTimeout(State) ELSE State)
    /\ waited' = 0
    /\ UNCHANGED <<now, pending, scenario, left>>

\* The counter advances; a compare register that matches raises its interrupt.
Tick ==
    /\ callback # None \/ pending # {} => waited < scenario.delay
    /\ now # scenario.end
    /\ now' = (now + 1) % Modulus
    /\ pending' = pending \cup {i \in enabled : compare[i] = now'}
    /\ waited' = IF callback # None \/ pending # {} THEN waited + 1 ELSE 0
    /\ left' = [t \in Timers |-> IF t \in Listed(State) /\ left[t] >= -Slack
                                 THEN left[t] - 1 ELSE left[t]]
    /\ UNCHANGED <<rtc, timers, callback, scenario>>

----------------------------------------------------------------------------
Init == /\ now = 0
        /\ ref = 0 /\ alarm = 0 /\ running = FALSE
        /\ compare = [C |-> 0, D |-> 0]
        /\ enabled = {"C", "D"}
        /\ pending = {}
        /\ list = <<>>
        /\ stamp = [t \in Timers |-> 0]
        /\ reload = [t \in Timers |-> 0]
        /\ next = {}
        /\ callback = None
        /\ waited = 0
        /\ scenario \in Scenarios
        /\ left = [t \in Timers |-> 0]

Next == \/ \E t \in scenario.timers : TimerStart(t) \/ TimerStop(t) \/ TimerSetValue(t)
        \/ \E i \in {"C", "D"} : Isr(i)
        \/ CallbackReturns
        \/ Tick

Spec == Init /\ [][Next]_vars

----------------------------------------------------------------------------
\* Types; and an object is in the list once, only the head is next to expire.
TypeOK == /\ now \in Counter /\ ref \in Counter /\ alarm \in Counter
          /\ running \in BOOLEAN
          /\ compare \in [{"C", "D"} -> Counter]
          /\ enabled \subseteq {"C", "D"} /\ pending \subseteq {"C", "D"}
          /\ list \in Seq(Timers)
          /\ \A i, j \in DOMAIN list : list[i] = list[j] => i = j
          /\ stamp \in [Timers -> Counter]
          /\ reload \in [Timers -> Counter]
          /\ next \subseteq Timers
          /\ callback \in Timers \cup {None}
          /\ \A i \in 2 .. Len(list) : list[i] \notin next

\* Between interrupts the head of the list always has the alarm.
AlarmForHead ==
    callback = None /\ list # <<>> =>
       /\ running
       /\ Head(list) \in next
       /\ "C" \in enabled
       /\ alarm = stamp[Head(list)]
       /\ pending = {} => 0 < (compare["C"] - now) % Modulus

Called(t) == callback' = t /\ (callback = None \/ CallbackReturns)

\* If interrupts are taken at once, a callback is called when its time is up,
\* not before.
NeverEarly == [][scenario.delay = 0 => \A t \in Timers : 
                    Called(t) => left[t] <= 0]_vars

\* Callbacks are called in the order in which their times are up, however long
\* interrupts wait and callbacks take.
InOrder == [][\A t \in Timers : Called(t) =>
                 \A u \in Listed(State) : left[t] <= left[u]]_vars

\* No timer waits longer than Slack after its time is up.
NotLate == \A t \in Listed(State) : left[t] >= -Slack
=============================================================================
