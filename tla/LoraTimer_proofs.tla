-------------------------- MODULE LoraTimer_proofs --------------------------
(***************************************************************************)
(* For any number of timers, any durations and any delay of interrupts and *)
(* callbacks, as long as the counter does not wrap: the head of the list   *)
(* always has the alarm; timers are called in the order in which their times*)
(* are up; none is called early when interrupts are taken at once; and none*)
(* is called later than NotLate allows.                                    *)
(***************************************************************************)
EXTENDS LoraTimer, WellFoundedInduction, SequenceTheorems, FiniteSetTheorems, TLAPS

\* The counter ends before it wraps (rtc-board.c:80 compares it with times that
\* count from Ref_Ticks, so an alarm beyond the wrap is lost).
Unwrapped == \A s \in Scenarios : s.end \in Nat /\ s.end + MinTicks < Modulus

----------------------------------------------------------------------------
(* Arithmetic and lists.                                                   *)

LEMMA Ticks == /\ Modulus \in Nat \ {0} /\ Modulus \in Nat
               /\ MinTicks \in Nat /\ 1 <= MinTicks /\ MinTicks < Modulus
BY TimerAssumption

LEMMA CounterIsNat == \A x \in Counter : x \in Nat /\ x < Modulus
BY TimerAssumption DEF Counter

\* The remainder of numbers near the modulus.
LEMMA Remainder ==
    ASSUME NEW x \in Int, NEW M \in Nat \ {0}
    PROVE  /\ x % M \in 0 .. M - 1
           /\ 0 <= x /\ x < M => x % M = x
           /\ M <= x /\ x < M + M => x % M = x - M
           /\ -M <= x /\ x < 0 => x % M = x + M
<1>1. PICK q \in Int, r \in 0 .. M - 1 : x = q * M + r /\ r = x % M
  <2>1. x % M \in 0 .. M - 1 /\ x \div M \in Int /\ x = (x \div M) * M + (x % M)
    OBVIOUS
  <2> QED
    BY <2>1
<1>2. 0 <= x /\ x < M => q = 0
  BY <1>1
<1>3. M <= x /\ x < M + M => q = 1
  BY <1>1
<1>4. -M <= x /\ x < 0 => q = -1
  BY <1>1
<1> QED
  BY <1>1, <1>2, <1>3, <1>4

\* The first of some places in a list.
LEMMA FirstPlace == ASSUME NEW S, S \subseteq Nat, S # {}
                    PROVE  \E k \in S : \A j \in S : k <= j
<1> DEFINE R == OpToRel(<, Nat)
<1>1. IsWellFoundedOn(R, Nat)
  BY NatLessThanWellFounded
<1>2. PICK k \in S : \A j \in S : ~(<<j, k>> \in R)
  <2> HIDE DEF R
  <2> QED
    BY <1>1, WFMin
<1>3. \A j \in S : ~(j < k)
  BY <1>2 DEF OpToRel
<1> QED
  BY <1>3

\* No timer is in the list twice, and none after the head is next to expire.
Linked(l, n) == /\ \A i, j \in 1 .. Len(l) : l[i] = l[j] => i = j
                /\ \A i \in 2 .. Len(l) : l[i] \notin n

\* A function on an interval is a list.
LEMMA ListOf == ASSUME NEW n \in Nat, NEW f \in [1 .. n -> Timers]
                PROVE  f \in Seq(Timers) /\ Len(f) = n
<1>1. f \in Seq(Timers)
  OBVIOUS
<1> QED
  BY <1>1, LenProperties

\* The head of a list, and what is after it.
LEMMA HeadTail ==
    ASSUME NEW l \in Seq(Timers), l # <<>>, NEW n, Linked(l, n)
    PROVE  /\ Len(l) \in Nat \ {0} /\ Head(l) = l[1] /\ Head(l) \in Timers
           /\ Tail(l) \in Seq(Timers) /\ Linked(Tail(l), n)
           /\ Tail(l) # <<>> => Head(Tail(l)) \notin n /\ Head(Tail(l)) # Head(l)
<1>1. Len(l) \in Nat \ {0} /\ Head(l) = l[1] /\ Head(l) \in Timers
  OBVIOUS
<1>2. /\ Tail(l) \in Seq(Timers) /\ Len(Tail(l)) = Len(l) - 1
      /\ \A i \in 1 .. Len(Tail(l)) : Tail(l)[i] = l[i + 1]
  BY HeadTailProperties
<1>3. Linked(Tail(l), n)
  BY <1>1, <1>2 DEF Linked
<1>4. Tail(l) # <<>> => Head(Tail(l)) \notin n /\ Head(Tail(l)) # Head(l)
  <2> SUFFICES ASSUME Tail(l) # <<>>
               PROVE  Head(Tail(l)) \notin n /\ Head(Tail(l)) # Head(l)
    OBVIOUS
  <2>1. Head(Tail(l)) = l[2] /\ 2 \in 2 .. Len(l)
    BY <1>1, <1>2
  <2> QED
    BY <1>1, <2>1 DEF Linked
<1> QED
  BY <1>1, <1>2, <1>3, <1>4

\* A new timer in the list.
LEMMA Inserted ==
    ASSUME NEW l \in Seq(Timers), NEW n, Linked(l, n), NEW i \in 1 .. Len(l) + 1,
           NEW t \in Timers, \A j \in 1 .. Len(l) : l[j] # t,
           i = 1 => l = <<>> \/ l[1] \notin n,
           i # 1 => t \notin n
    PROVE  /\ InsertAt(l, i, t) \in Seq(Timers) /\ InsertAt(l, i, t) # <<>>
           /\ Linked(InsertAt(l, i, t), n)
           /\ Head(InsertAt(l, i, t)) = IF i = 1 THEN t ELSE l[1]
<1> DEFINE m == InsertAt(l, i, t)
           N == Len(l) + 1
<1>1. N \in Nat \ {0}
  OBVIOUS
<1>2. m \in [1 .. N -> Timers]
  BY DEF InsertAt
<1>3. \A j \in 1 .. N : m[j] = IF j < i THEN l[j] ELSE IF j = i THEN t ELSE l[j - 1]
  BY DEF InsertAt
<1> HIDE DEF m
<1>4. m \in Seq(Timers) /\ Len(m) = N
  BY <1>1, <1>2, ListOf
<1>5. Linked(m, n)
  <2>1. ASSUME NEW j \in 1 .. N, NEW k \in 1 .. N, m[j] = m[k] PROVE j = k
    <3> DEFINE old(x) == IF x < i THEN x ELSE x - 1
    <3>1. \A x \in 1 .. N : x # i => old(x) \in 1 .. Len(l) /\ m[x] = l[old(x)]
      BY <1>3
    <3>2. \A x \in 1 .. N : x = i <=> m[x] = t
      BY <1>3, <3>1
    <3>3. CASE j = i
      BY <2>1, <3>2, <3>3
    <3>4. CASE j # i
      <4>1. k # i
        BY <2>1, <3>2, <3>4
      <4>2. old(j) = old(k)
        <5> HIDE DEF old
        <5> QED
          BY <2>1, <3>1, <3>4, <4>1 DEF Linked
      <4> QED
        BY <3>4, <4>1, <4>2
    <3> QED
      BY <3>3, <3>4
  <2>2. ASSUME NEW j \in 2 .. N PROVE m[j] \notin n
    <3>1. CASE j < i
      BY <1>3, <3>1 DEF Linked
    <3>2. CASE j = i
      BY <1>3, <3>2
    <3>3. CASE j > i
      <4>1. m[j] = l[j - 1] /\ j - 1 \in 1 .. Len(l)
        BY <1>3, <3>3
      <4>2. CASE j - 1 \in 2 .. Len(l)
        BY <4>1, <4>2 DEF Linked
      <4>3. CASE j - 1 = 1
        BY <3>3, <4>1, <4>3
      <4> QED
        BY <4>1, <4>2, <4>3
    <3> QED
      BY <3>1, <3>2, <3>3
  <2> QED
    BY <1>4, <2>1, <2>2 DEF Linked
<1>6. m # <<>> /\ Head(m) = m[1]
  BY <1>1, <1>4
<1> QED
  BY <1>1, <1>3, <1>4, <1>5, <1>6 DEF m

\* A timer taken out of the list.
LEMMA Removed ==
    ASSUME NEW l \in Seq(Timers), NEW n, Linked(l, n),
           NEW t, \E j \in 1 .. Len(l) : l[j] = t
    PROVE  /\ l # <<>>
           /\ Without(l, t) \in Seq(Timers) /\ Linked(Without(l, t), n)
           /\ \A j \in 1 .. Len(Without(l, t)) : Without(l, t)[j] # t
           /\ Without(l, t) # <<>> =>
                 Head(Without(l, t)) = IF t = Head(l) THEN l[2] ELSE Head(l)
           /\ t = Head(l) /\ Without(l, t) # <<>> => l[2] \notin n
<1> DEFINE m == Without(l, t)
           i == CHOOSE j \in DOMAIN l : l[j] = t
           N == Len(l) - 1
<1>1. i \in 1 .. Len(l) /\ l[i] = t /\ Len(l) \in Nat /\ N \in Nat
  <2>1. DOMAIN l = 1 .. Len(l) /\ Len(l) \in Nat
    OBVIOUS
  <2>2. i \in 1 .. Len(l) /\ l[i] = t
    BY <2>1
  <2> QED
    BY <2>1, <2>2
<1>2. m = [j \in 1 .. N |-> IF j < i THEN l[j] ELSE l[j + 1]]
  BY DEF Without
<1> HIDE DEF m, i
<1>3. m \in [1 .. N -> Timers]
  BY <1>1, <1>2
<1>4. \A j \in 1 .. N : m[j] = IF j < i THEN l[j] ELSE l[j + 1]
  BY <1>2
<1>5. m \in Seq(Timers) /\ Len(m) = N
  BY <1>1, <1>3, ListOf
<1>6. Linked(m, n)
  <2>1. ASSUME NEW j \in 1 .. N, NEW k \in 1 .. N, m[j] = m[k] PROVE j = k
    BY <1>1, <1>4, <2>1 DEF Linked
  <2>2. ASSUME NEW j \in 2 .. N PROVE m[j] \notin n
    BY <1>1, <1>4 DEF Linked
  <2> QED
    BY <1>5, <2>1, <2>2 DEF Linked
<1>7. \A j \in 1 .. N : m[j] # t
  BY <1>1, <1>4 DEF Linked
<1>8. l # <<>> /\ Head(l) = l[1]
  BY <1>1
<1>9. t = Head(l) <=> i = 1
  BY <1>1, <1>8 DEF Linked
<1>10. m # <<>> => Head(m) = m[1] /\ 1 \in 1 .. N /\ 2 \in 2 .. Len(l)
  BY <1>5
<1>11. m # <<>> => Head(m) = IF t = Head(l) THEN l[2] ELSE Head(l)
  BY <1>1, <1>4, <1>8, <1>9, <1>10
<1>12. t = Head(l) /\ m # <<>> => l[2] \notin n
  BY <1>10 DEF Linked
<1> QED
  BY <1>5, <1>6, <1>7, <1>8, <1>11, <1>12 DEF m
----------------------------------------------------------------------------
(* The operators of the RTC and of the list.                               *)

Records == [ref : Counter, alarm : Counter, running : BOOLEAN,
            compare : [{"C", "D"} -> Counter], enabled : SUBSET {"C", "D"},
            list : Seq(Timers), stamp : [Timers -> Counter],
            reload : [Timers -> Counter], next : SUBSET Timers]

\* When the head is the next to expire the alarm is set for it, and while no
\* interrupt of p is pending its time (from the reference) is after n.
Armed(r, n, p) ==
    r.list # <<>> /\ Head(r.list) \in r.next =>
       /\ r.running /\ "C" \in r.enabled
       /\ r.alarm = r.stamp[Head(r.list)]
       /\ r.compare["C"] = (r.ref + r.alarm) % Modulus
       /\ p = {} => n < r.ref + r.alarm

Good(r, n, p) == /\ r \in Records /\ Linked(r.list, r.next)
                 /\ Armed(r, n, p) /\ r.ref <= n

\* The counter is not about to wrap.
Early == now \in Nat /\ now + MinTicks < Modulus

\* The time since the reference.
LEMMA Elapsed ==
    ASSUME Early, NEW r, r.ref \in Counter, r.ref <= now
    PROVE  ElapsedSince(r) = now - r.ref /\ now - r.ref \in 0 .. Modulus - 1
<1> DEFINE x == now - r.ref
<1>1. Modulus \in Nat \ {0} /\ MinTicks \in Nat /\ r.ref \in Nat
  BY TimerAssumption DEF Counter
<1>2. x \in Int /\ 0 <= x /\ x < Modulus
  BY <1>1 DEF Early
<1> HIDE DEF x
<1>3. x % Modulus = x
  BY <1>1, <1>2, Remainder
<1> QED
  BY <1>1, <1>2, <1>3 DEF ElapsedSince, x

\* TimerSetTimeout in numbers: only the head's time may be put off.
LEMMA SetTimeoutIs ==
    ASSUME Early, NEW r \in Records, r.list # <<>>, Linked(r.list, r.next), r.ref <= now
    PROVE  \E s \in Counter :
              LET t == Head(r.list)
                  q == SetTimeout(r)
              IN  /\ s = IF r.stamp[t] < now - r.ref + MinTicks
                         THEN now - r.ref + MinTicks ELSE r.stamp[t]
                  /\ q \in Records /\ Linked(q.list, q.next) /\ now < q.ref + s
                  /\ q.stamp = [r.stamp EXCEPT ![t] = s]
                  /\ q.ref = r.ref /\ q.list = r.list /\ q.reload = r.reload
                  /\ q.next = r.next \cup {t} /\ q.running /\ q.alarm = s
                  /\ q.enabled = {"C", "D"}
                  /\ q.compare["C"] = (r.ref + s) % Modulus
                  /\ q.compare["D"] = (r.ref + s + 1) % Modulus
<1> DEFINE t == Head(r.list)
           elapsed == ElapsedSince(r)
           soon == (elapsed + MinTicks) % Modulus
           s == IF r.stamp[t] < soon THEN soon ELSE r.stamp[t]
           r1 == [r EXCEPT !.stamp[t] = s, !.next = @ \cup {t}]
           relative == (s - ElapsedSince(r1)) % Modulus
           c == [C |-> (now + relative) % Modulus, D |-> (now + relative + 1) % Modulus]
           r2 == [StopAlarm(r1) EXCEPT !.alarm = s, !.running = TRUE,
                                       !.compare = c, !.enabled = {"C", "D"}]
<1>1. SetTimeout(r) = r2
  BY DEF SetTimeout, StartAlarm
<1>2. /\ Modulus \in Nat \ {0} /\ MinTicks \in 1 .. Modulus - 1
      /\ now \in Nat /\ now + MinTicks < Modulus
  BY TimerAssumption DEF Early
<1>3. t \in Timers /\ r.stamp[t] \in 0 .. Modulus - 1 /\ r.ref \in Nat /\ r.ref <= now
  <2>1. t \in Timers
    BY HeadTail DEF Records
  <2> QED
    BY <1>2, <2>1 DEF Records, Counter
<1>4. elapsed = now - r.ref
  BY Elapsed DEF Records
<1>5. soon = now - r.ref + MinTicks
  <2>1. elapsed + MinTicks \in Int /\ 0 <= elapsed + MinTicks /\ elapsed + MinTicks < Modulus
    BY <1>2, <1>3, <1>4
  <2>2. soon = elapsed + MinTicks
    BY <1>2, <2>1, Remainder
  <2> QED
    BY <1>2, <1>3, <1>4, <2>2
<1>s. s = IF r.stamp[t] < now - r.ref + MinTicks THEN now - r.ref + MinTicks ELSE r.stamp[t]
  BY <1>5
<1> HIDE DEF soon, elapsed, t
<1>6. s \in 0 .. Modulus - 1 /\ s >= now - r.ref + MinTicks
  BY <1>2, <1>3, <1>5
<1>7. /\ r1 \in Records /\ r1.ref = r.ref /\ r1.list = r.list
      /\ r1.next = r.next \cup {t} /\ r1.reload = r.reload
      /\ r1.stamp = [r.stamp EXCEPT ![t] = s]
  <2> HIDE DEF s
  <2> QED
    BY <1>3, <1>6 DEF Records, Counter
<1> HIDE DEF s, r1
<1>8. relative = s - (now - r.ref)
  <2>1. ElapsedSince(r1) = now - r.ref
    BY <1>3, <1>7, Elapsed DEF Records
  <2>2. s - (now - r.ref) \in Int /\ 0 <= s - (now - r.ref) /\ s - (now - r.ref) < Modulus
    BY <1>2, <1>3, <1>6
  <2> QED
    BY <1>2, <2>1, <2>2, Remainder
<1> HIDE DEF relative
<1>9. /\ c \in [{"C", "D"} -> Counter]
      /\ c["C"] = (r.ref + s) % Modulus /\ c["D"] = (r.ref + s + 1) % Modulus
  <2>1. now + relative = r.ref + s /\ now + relative \in Int /\ now + relative + 1 \in Int
    BY <1>2, <1>3, <1>6, <1>8
  <2>2. (now + relative) % Modulus \in Counter /\ (now + relative + 1) % Modulus \in Counter
    BY <1>2, <2>1, Remainder DEF Counter
  <2> QED
    BY <2>1, <2>2
<1> HIDE DEF c
<1>10. /\ r2 \in Records /\ r2.ref = r.ref /\ r2.list = r.list
       /\ r2.next = r.next \cup {t} /\ r2.reload = r.reload
       /\ r2.stamp = [r.stamp EXCEPT ![t] = s]
       /\ r2.running /\ r2.enabled = {"C", "D"} /\ r2.alarm = s /\ r2.compare = c
  BY <1>6, <1>7, <1>9 DEF StopAlarm, Records, Counter
<1> HIDE DEF r2
<1>11. Linked(r2.list, r2.next)
  <2>1. \A i \in 2 .. Len(r.list) : r.list[i] # t
    <3>1. t = r.list[1] /\ Len(r.list) \in Nat \ {0}
      BY HeadTail DEF Records, t
    <3> QED
      BY <3>1 DEF Linked
  <2> QED
    BY <1>10, <2>1 DEF Linked
<1>12. now < r2.ref + r2.alarm
  BY <1>2, <1>3, <1>6, <1>10
<1>13. s \in Counter
  BY <1>6 DEF Counter
<1> QED
  BY <1>s, <1>1, <1>9, <1>10, <1>11, <1>12, <1>13 DEF t

\* TimerSetTimeout sets the alarm for the head.
LEMMA SetTimeoutArms ==
    ASSUME Early, NEW r \in Records, r.list # <<>>, Linked(r.list, r.next), r.ref <= now
    PROVE  /\ Good(SetTimeout(r), now, pending)
           /\ SetTimeout(r).list = r.list /\ Head(r.list) \in SetTimeout(r).next
<1>1. PICK q : q = SetTimeout(r)
  OBVIOUS
<1>2. PICK s \in Counter :
         /\ q \in Records /\ Linked(q.list, q.next) /\ now < q.ref + s
         /\ q.stamp = [r.stamp EXCEPT ![Head(r.list)] = s]
         /\ q.ref = r.ref /\ q.list = r.list /\ q.next = r.next \cup {Head(r.list)}
         /\ q.running /\ q.alarm = s /\ q.enabled = {"C", "D"}
         /\ q.compare["C"] = (r.ref + s) % Modulus
  BY <1>1, SetTimeoutIs
<1>3. q.stamp[Head(r.list)] = s
  <2>1. Head(r.list) \in Timers /\ r.stamp \in [Timers -> Counter]
    BY HeadTail DEF Records
  <2> QED
    BY <1>2, <2>1
<1>4. Armed(q, now, pending)
  BY <1>2, <1>3 DEF Armed
<1> QED
  BY <1>1, <1>2, <1>4 DEF Good

\* The head of the list, if there is one, is the next to expire.
Headed(r) == r.list # <<>> => Head(r.list) \in r.next

\* TimerInsertNewHeadTimer puts the timer first and sets its alarm.
LEMMA NewHead ==
    ASSUME Early, NEW r \in Records, Linked(r.list, r.next), r.ref <= now,
           NEW t \in Timers, t \notin Listed(r)
    PROVE  Good(InsertNewHead(t, r), now, pending) /\ Headed(InsertNewHead(t, r))
<1> DEFINE n == IF r.list = <<>> THEN r.next ELSE r.next \ {Head(r.list)}
           l == <<t>> \o r.list
           q == [r EXCEPT !.next = n, !.list = l]
<1>1. InsertNewHead(t, r) = SetTimeout(q)
  BY DEF InsertNewHead
<1>2. r.list \in Seq(Timers) /\ Len(r.list) \in Nat
  BY DEF Records
<1>3. /\ l \in Seq(Timers) /\ Len(l) = Len(r.list) + 1 /\ l # <<>>
      /\ l[1] = t /\ \A i \in 2 .. Len(l) : i - 1 \in 1 .. Len(r.list) /\ l[i] = r.list[i - 1]
  BY <1>2
<1>4. \A j \in 1 .. Len(r.list) : r.list[j] # t /\ r.list[j] \notin n
  <2>1. ASSUME NEW j \in 1 .. Len(r.list) PROVE r.list[j] # t /\ r.list[j] \notin n
    <3>1. r.list[j] # t
      BY <1>2 DEF Listed
    <3>2. r.list # <<>> /\ Head(r.list) = r.list[1]
      BY <1>2
    <3>3. j # 1 => r.list[j] \notin r.next
      BY <1>2 DEF Linked
    <3> QED
      BY <3>1, <3>2, <3>3
  <2> QED
    BY <2>1
<1>5. n \subseteq Timers
  BY DEF Records
<1> HIDE DEF l, n
<1>6. Linked(l, n)
  <2>1. ASSUME NEW i \in 1 .. Len(l), NEW j \in 1 .. Len(l), l[i] = l[j] PROVE i = j
    <3>1. CASE i = 1 \/ j = 1
      BY <1>2, <1>3, <1>4, <2>1, <3>1
    <3>2. CASE i \in 2 .. Len(l) /\ j \in 2 .. Len(l)
      <4>1. r.list[i - 1] = r.list[j - 1] /\ i - 1 \in 1 .. Len(r.list)
            /\ j - 1 \in 1 .. Len(r.list)
        BY <1>3, <2>1, <3>2
      <4>2. i - 1 = j - 1
        BY <4>1 DEF Linked
      <4> QED
        BY <4>2
    <3> QED
      BY <1>2, <1>3, <3>1, <3>2
  <2>2. \A i \in 2 .. Len(l) : l[i] \notin n
    BY <1>3, <1>4
  <2> QED
    BY <2>1, <2>2 DEF Linked
<1>7. q \in Records /\ q.list = l /\ q.next = n /\ q.ref = r.ref
  BY <1>3, <1>5 DEF Records
<1> HIDE DEF q
<1> QED
  BY <1>1, <1>3, <1>6, <1>7, SetTimeoutArms DEF Headed

\* TimerInsertTimer leaves the head and its alarm.
LEMMA AfterHead ==
    ASSUME NEW r, NEW N, NEW p, Good(r, N, p), r.list # <<>>,
           NEW t \in Timers, t \notin Listed(r), t \notin r.next
    PROVE  /\ Good(InsertAfterHead(t, r), N, p)
           /\ Headed(r) => Headed(InsertAfterHead(t, r))
<1> DEFINE later == {i \in 2 .. Len(r.list) : r.stamp[r.list[i]] >= r.stamp[t]}
           place == IF later = {} THEN Len(r.list) + 1
                    ELSE CHOOSE i \in later : \A j \in later : i <= j
           l == InsertAt(r.list, place, t)
           q == [r EXCEPT !.list = l]
<1>1. InsertAfterHead(t, r) = q
  BY DEF InsertAfterHead
<1>2. r \in Records /\ r.list \in Seq(Timers) /\ Len(r.list) \in Nat \ {0}
      /\ Linked(r.list, r.next) /\ Head(r.list) = r.list[1]
  BY DEF Records, Good
<1>3. place \in 2 .. Len(r.list) + 1
  <2>1. CASE later = {}
    BY <1>2, <2>1
  <2>2. CASE later # {}
    <3>1. later \subseteq 2 .. Len(r.list) /\ later \subseteq Nat
      BY <1>2
    <3> HIDE DEF later
    <3>2. \E i \in later : \A j \in later : i <= j
      BY <2>2, <3>1, FirstPlace
    <3>3. place \in later
      BY <2>2, <3>2
    <3> HIDE DEF place
    <3> QED
      BY <1>2, <3>1, <3>3
  <2> QED
    BY <2>1, <2>2
<1> HIDE DEF place
<1>4. \A j \in 1 .. Len(r.list) : r.list[j] # t
  BY <1>2 DEF Listed
<1>5. l \in Seq(Timers) /\ l # <<>> /\ Linked(l, r.next) /\ Head(l) = Head(r.list)
  <2>1. place \in 1 .. Len(r.list) + 1 /\ place # 1
    BY <1>2, <1>3
  <2> QED
    BY <1>2, <1>4, <2>1, Inserted
<1> HIDE DEF l
<1>6. q \in Records /\ q.list = l /\ q.next = r.next /\ q.ref = r.ref
      /\ q.running = r.running /\ q.enabled = r.enabled /\ q.alarm = r.alarm
      /\ q.stamp = r.stamp /\ q.compare = r.compare
  BY <1>2, <1>5 DEF Records
<1> HIDE DEF q
<1>7. Armed(q, N, p)
  BY <1>5, <1>6 DEF Armed, Good
<1> QED
  BY <1>1, <1>5, <1>6, <1>7 DEF Good, Headed

\* TimerStart.
LEMMA StartedGood ==
    ASSUME Early, NEW r, Good(r, now, pending), NEW t \in Timers, t \notin Listed(r)
    PROVE  /\ Good(Started(t, r), now, pending)
           /\ Headed(r) => Headed(Started(t, r))
<1> DEFINE s == IF r.list = <<>> THEN r.reload[t]
                ELSE (r.reload[t] + ElapsedSince(r)) % Modulus
           r1 == [r EXCEPT !.next = @ \ {t}, !.stamp[t] = s]
           r0 == [r1 EXCEPT !.ref = now]
<1>1. Started(t, r) = IF r.list = <<>> THEN InsertNewHead(t, r0)
                      ELSE IF r1.stamp[t] < r.stamp[Head(r.list)]
                           THEN InsertNewHead(t, r1) ELSE InsertAfterHead(t, r1)
  BY DEF Started
<1>2. r \in Records /\ Linked(r.list, r.next) /\ r.ref <= now
  BY DEF Good
<1>3. s \in Counter
  <2>1. Modulus \in Nat \ {0} /\ now \in Int /\ r.ref \in Int /\ r.reload[t] \in Int
    BY <1>2, TimerAssumption DEF Early, Records, Counter
  <2>2. ElapsedSince(r) \in Int
    BY <1>2, <2>1, Elapsed DEF Records
  <2> DEFINE x == r.reload[t] + ElapsedSince(r)
  <2>3. x \in Int
    BY <2>1, <2>2
  <2> HIDE DEF x
  <2>4. x % Modulus \in Counter
    BY <2>1, <2>3, Remainder DEF Counter
  <2> QED
    BY <1>2, <2>4 DEF Records, x
<1> HIDE DEF s
<1>4. now \in Counter
  BY TimerAssumption DEF Early, Counter
<1>5. /\ r1 \in Records /\ r1.list = r.list /\ r1.next = r.next \ {t} /\ r1.ref = r.ref
      /\ r1.running = r.running /\ r1.enabled = r.enabled /\ r1.alarm = r.alarm
      /\ r1.compare = r.compare
      /\ \A u \in Timers : u # t => r1.stamp[u] = r.stamp[u]
  BY <1>2, <1>3 DEF Records
<1> HIDE DEF r1
<1>6. r0 \in Records /\ r0.list = r.list /\ r0.next = r.next \ {t} /\ r0.ref = now
  BY <1>4, <1>5 DEF Records
<1> HIDE DEF r0
<1>7. Linked(r.list, r.next \ {t})
  BY <1>2 DEF Linked
<1>8. t \notin Listed(r0) /\ t \notin Listed(r1)
  BY <1>5, <1>6 DEF Listed
<1>9. CASE r.list = <<>>
  <2>1. now <= now
    BY DEF Early
  <2> QED
    BY <1>1, <1>6, <1>7, <1>8, <1>9, <2>1, NewHead
<1>10. CASE r.list # <<>> /\ r1.stamp[t] < r.stamp[Head(r.list)]
  BY <1>1, <1>2, <1>5, <1>7, <1>8, <1>10, NewHead
<1>11. CASE r.list # <<>> /\ ~(r1.stamp[t] < r.stamp[Head(r.list)])
  <2>1. Head(r.list) \in Timers /\ Head(r.list) # t
    BY <1>2, <1>11 DEF Listed, Records
  <2>2. Armed(r1, now, pending)
    BY <1>5, <2>1 DEF Armed, Good
  <2>3. Good(r1, now, pending)
    BY <1>2, <1>5, <1>7, <2>2 DEF Good
  <2>4. Headed(r) => Headed(r1)
    BY <1>5, <2>1 DEF Headed
  <2> QED
    BY <1>1, <1>5, <1>8, <1>11, <2>3, <2>4, AfterHead
<1> QED
  BY <1>9, <1>10, <1>11

\* TimerStop.
LEMMA StoppedGood ==
    ASSUME Early, NEW r, Good(r, now, pending), NEW t \in Timers
    PROVE  /\ Good(Stopped(t, r), now, pending)
           /\ Headed(r) => Headed(Stopped(t, r))
           /\ t \notin Listed(Stopped(t, r))
<1> DEFINE rest == Without(r.list, t)
           n == r.next \ {t}
           q == [r EXCEPT !.list = rest]
           r1 == [r EXCEPT !.list = rest, !.next = n]
<1>1. r \in Records /\ r.list \in Seq(Timers) /\ Linked(r.list, r.next) /\ r.ref <= now
  BY DEF Good, Records
<1>2. CASE t \notin Listed(r)
  BY <1>2 DEF Stopped
<1>3. CASE t \in Listed(r)
  <2>1. \E j \in 1 .. Len(r.list) : r.list[j] = t
    BY <1>1, <1>3 DEF Listed
  <2>2. Stopped(t, r) = IF t # Head(r.list) THEN q
                        ELSE IF t \notin r.next THEN q
                        ELSE IF rest = <<>> THEN StopAlarm(r1) ELSE SetTimeout(r1)
    BY <1>3 DEF Stopped
  <2>3. /\ r.list # <<>> /\ rest \in Seq(Timers) /\ Linked(rest, r.next)
        /\ \A j \in 1 .. Len(rest) : rest[j] # t
        /\ rest # <<>> => Head(rest) = IF t = Head(r.list) THEN r.list[2] ELSE Head(r.list)
        /\ t = Head(r.list) /\ rest # <<>> => r.list[2] \notin r.next
    BY <1>1, <2>1, Removed
  <2> HIDE DEF rest
  <2>4. /\ q \in Records /\ q.list = rest /\ q.next = r.next /\ q.ref = r.ref
        /\ q.running = r.running /\ q.enabled = r.enabled /\ q.alarm = r.alarm
        /\ q.stamp = r.stamp /\ q.compare = r.compare
    BY <1>1, <2>3 DEF Records
  <2>5. r1 \in Records /\ r1.list = rest /\ r1.next = n /\ r1.ref = r.ref
    BY <1>1, <2>3 DEF Records
  <2> HIDE DEF q, r1
  <2>6. Linked(rest, n)
    BY <2>3 DEF Linked
  <2>7. DOMAIN rest = 1 .. Len(rest)
    BY <2>3
  <2>8. t \notin Listed(q) /\ t \notin Listed(r1)
    BY <2>3, <2>4, <2>5, <2>7 DEF Listed
  <2>9. CASE t # Head(r.list)
    <3>1. Armed(q, now, pending)
      BY <2>3, <2>4, <2>9 DEF Armed, Good
    <3>2. Headed(r) => Headed(q)
      BY <2>3, <2>4, <2>9 DEF Headed
    <3> QED
      BY <1>1, <2>2, <2>3, <2>4, <2>8, <2>9, <3>1, <3>2 DEF Good
  <2>10. CASE t = Head(r.list) /\ t \notin r.next
    <3>1. Armed(q, now, pending)
      BY <2>3, <2>4, <2>10 DEF Armed
    <3>2. ~Headed(r)
      BY <2>3, <2>10 DEF Headed
    <3> QED
      BY <1>1, <2>2, <2>3, <2>4, <2>8, <2>10, <3>1, <3>2 DEF Good
  <2>11. CASE t = Head(r.list) /\ t \in r.next /\ rest = <<>>
    <3> DEFINE z == StopAlarm(r1)
    <3>1. z \in Records /\ z.list = rest /\ z.next = n /\ z.ref = r.ref
      BY <2>5 DEF StopAlarm, Records
    <3> HIDE DEF z
    <3>2. Stopped(t, r) = z
      BY <2>2, <2>11 DEF z
    <3>3. Armed(z, now, pending) /\ Headed(z) /\ t \notin Listed(z)
      BY <2>11, <3>1 DEF Armed, Headed, Listed
    <3> QED
      BY <1>1, <2>6, <3>1, <3>2, <3>3 DEF Good
  <2>12. CASE t = Head(r.list) /\ t \in r.next /\ rest # <<>>
    <3>1. Stopped(t, r) = SetTimeout(r1)
      BY <2>2, <2>12
    <3>2. /\ Good(SetTimeout(r1), now, pending)
          /\ SetTimeout(r1).list = r1.list /\ Head(r1.list) \in SetTimeout(r1).next
      BY <1>1, <2>5, <2>6, <2>12, SetTimeoutArms
    <3> QED
      BY <2>8, <3>1, <3>2 DEF Headed, Listed
  <2> QED
    BY <2>9, <2>10, <2>11, <2>12
<1> QED
  BY <1>2, <1>3
----------------------------------------------------------------------------
(* The invariant.                                                          *)

\* The alarm of the head is set, and between interrupts the head has one.
IInv == /\ scenario \in Scenarios
        /\ now \in 0 .. scenario.end
        /\ pending \subseteq {"C", "D"}
        /\ callback \in Timers \cup {None}
        /\ Good(State, now, pending)
        /\ callback = None => Headed(State)

LEMMA InvIsEarly == ASSUME Unwrapped, IInv
                    PROVE  /\ Early /\ now \in Counter /\ scenario.end \in Nat
                           /\ scenario.end + MinTicks < Modulus
<1>1. scenario.end \in Nat /\ scenario.end + MinTicks < Modulus
  BY DEF Unwrapped, IInv
<1>2. now \in Nat /\ now <= scenario.end /\ MinTicks \in Nat /\ Modulus \in Nat
  BY <1>1, TimerAssumption DEF IInv
<1> QED
  BY <1>1, <1>2 DEF Early, Counter

LEMMA InvTypes == ASSUME Unwrapped, IInv PROVE TypeOK
<1>1. now \in Counter
  BY InvIsEarly
<1>2. State \in Records /\ Linked(list, next)
  BY DEF IInv, Good, State
<1>3. DOMAIN list = 1 .. Len(list)
  BY <1>2 DEF Records, State
<1> QED
  BY <1>1, <1>2, <1>3 DEF IInv, TypeOK, Records, State, Linked

\* A compare register that counts from the reference is ahead of the counter.
LEMMA AlarmAhead ==
    ASSUME Modulus \in Nat \ {0}, NEW n \in Counter, NEW b \in Counter, b <= n,
           NEW a \in Counter, n < b + a
    PROVE  0 < (((b + a) % Modulus) - n) % Modulus
<1> DEFINE M == Modulus
           x == b + a
           y == x % M
           z == y - n
<1>1. M \in Nat \ {0} /\ n \in 0 .. M - 1 /\ b \in 0 .. M - 1 /\ a \in 0 .. M - 1
  BY DEF Counter
<1> HIDE DEF M
<1>2. x \in Int /\ 0 <= x /\ n < x /\ x < n + M /\ x < M + M
  BY <1>1
<1> HIDE DEF x
<1>3. x < M => y = x
  BY <1>1, <1>2, Remainder
<1>4. M <= x => y = x - M
  BY <1>1, <1>2, Remainder
<1> HIDE DEF y
<1>5. CASE x < M
  <2>1. z \in Int /\ 0 < z /\ 0 <= z /\ z < M
    BY <1>1, <1>2, <1>3, <1>5
  <2> HIDE DEF z
  <2>2. z % M = z
    BY <1>1, <2>1, Remainder
  <2> QED
    BY <2>1, <2>2 DEF x, y, z, M
<1>6. CASE M <= x
  <2>1. z \in Int /\ -M < z /\ -M <= z /\ z < 0 /\ 0 < z + M
    BY <1>1, <1>2, <1>4, <1>6
  <2> HIDE DEF z
  <2>2. z % M = z + M
    BY <1>1, <2>1, Remainder
  <2> QED
    BY <2>1, <2>2 DEF x, y, z, M
<1> QED
  BY <1>1, <1>2, <1>5, <1>6

LEMMA InvAlarm == ASSUME Unwrapped, IInv PROVE AlarmForHead
<1> SUFFICES ASSUME callback = None, list # <<>>
             PROVE  /\ running /\ Head(list) \in next /\ "C" \in enabled
                    /\ alarm = stamp[Head(list)]
                    /\ pending = {} => 0 < (compare["C"] - now) % Modulus
  BY DEF AlarmForHead
<1>1. /\ running /\ Head(list) \in next /\ "C" \in enabled
      /\ alarm = stamp[Head(list)]
      /\ compare["C"] = (ref + alarm) % Modulus
      /\ pending = {} => now < ref + alarm
  BY DEF IInv, Good, Armed, Headed, State
<1>2. ASSUME pending = {} PROVE 0 < (compare["C"] - now) % Modulus
  <2>1. /\ Modulus \in Nat \ {0} /\ now \in Counter /\ ref \in Counter
        /\ alarm \in Counter /\ ref <= now
    BY InvIsEarly, TimerAssumption DEF IInv, Good, Records, State
  <2>2. now < ref + alarm
    BY <1>1, <1>2
  <2> QED
    BY <1>1, <2>1, <2>2, AlarmAhead
<1> QED
  BY <1>1, <1>2

LEMMA InitInv == ASSUME Unwrapped, Init PROVE IInv
<1>1. Modulus \in Nat \ {0} /\ 0 \in Counter /\ scenario.end \in Nat
  BY TimerAssumption DEF Counter, Unwrapped, Init
<1>2. State \in Records
  <2>1. /\ compare \in [{"C", "D"} -> Counter]
        /\ stamp \in [Timers -> Counter] /\ reload \in [Timers -> Counter]
    BY <1>1 DEF Init
  <2>2. ref \in Counter /\ alarm \in Counter
    BY <1>1 DEF Init
  <2>3. enabled \in SUBSET {"C", "D"} /\ next \in SUBSET Timers
    BY DEF Init
  <2>4. list \in Seq(Timers)
    BY DEF Init
  <2>5. running \in BOOLEAN
    BY DEF Init
  <2> QED
    BY <2>1, <2>2, <2>3, <2>4, <2>5 DEF State, Records
<1>3. Linked(list, next) /\ Armed(State, now, pending) /\ Headed(State) /\ ref <= now
  BY DEF Init, State, Linked, Armed, Headed
<1>4. Good(State, now, pending)
  BY <1>2, <1>3 DEF Good, State
<1> QED
  BY <1>1, <1>3, <1>4 DEF Init, IInv

\* A step to a good record.
LEMMA BecomesGood ==
    ASSUME NEW r, Becomes(r), Good(r, now', pending')
    PROVE  Good(State, now, pending)' /\ (Headed(r) => Headed(State)')
<1>1. State' = r
  BY DEF Becomes, State, Good, Records
<1> QED
  BY <1>1 DEF Good, Headed, Armed

\* The calls keep the invariant: they leave the time and the interrupts.
LEMMA CallStep ==
    ASSUME IInv, NEW r, Becomes(r), Good(r, now, pending), Headed(State) => Headed(r),
           UNCHANGED <<now, pending, callback, scenario>>
    PROVE  IInv'
<1>1. now' = now /\ pending' = pending /\ callback' = callback /\ scenario' = scenario
  OBVIOUS
<1>2. Good(State, now, pending)' /\ (Headed(r) => Headed(State)')
  BY <1>1, BecomesGood
<1> QED
  BY <1>1, <1>2 DEF IInv

LEMMA StartStep == ASSUME Unwrapped, IInv, NEW t \in Timers, TimerStart(t) PROVE IInv'
<1>1. PICK r : r = Started(t, State)
  OBVIOUS
<1>2. Good(r, now, pending) /\ (Headed(State) => Headed(r))
  BY <1>1, InvIsEarly, StartedGood DEF IInv, TimerStart
<1>3. Becomes(r) /\ UNCHANGED <<now, pending, callback, scenario>>
  BY <1>1 DEF TimerStart
<1> QED
  BY <1>2, <1>3, CallStep

LEMMA StopStep == ASSUME Unwrapped, IInv, NEW t \in Timers, TimerStop(t) PROVE IInv'
<1>1. PICK r : r = Stopped(t, State)
  OBVIOUS
<1>2. Good(r, now, pending) /\ (Headed(State) => Headed(r))
  BY <1>1, InvIsEarly, StoppedGood DEF IInv
<1>3. Becomes(r) /\ UNCHANGED <<now, pending, callback, scenario>>
  BY <1>1 DEF TimerStop
<1> QED
  BY <1>2, <1>3, CallStep

LEMMA SetValueStep == ASSUME Unwrapped, IInv, NEW t \in Timers, TimerSetValue(t)
                      PROVE  IInv'
<1>1. PICK q : q = Stopped(t, State)
  OBVIOUS
<1>2. /\ Good(q, now, pending) /\ (Headed(State) => Headed(q))
      /\ t \notin Listed(q)
  BY <1>1, InvIsEarly, StoppedGood DEF IInv
<1>3. PICK d \in scenario.durations :
         LET ticks == IF d < MinTicks THEN MinTicks ELSE d
         IN  Becomes([q EXCEPT !.stamp[t] = ticks, !.reload[t] = ticks])
  BY <1>1 DEF TimerSetValue
<1>4. PICK ticks : /\ ticks = IF d < MinTicks THEN MinTicks ELSE d
                   /\ Becomes([q EXCEPT !.stamp[t] = ticks, !.reload[t] = ticks])
  BY <1>3
<1>5. d \in 0 .. Modulus - 1 /\ MinTicks \in 0 .. Modulus - 1
  BY TimerAssumption DEF IInv
<1>6. ticks \in Counter
  BY <1>4, <1>5 DEF Counter
<1> DEFINE r == [q EXCEPT !.stamp[t] = ticks, !.reload[t] = ticks]
<1>7. /\ r \in Records /\ r.list = q.list /\ r.next = q.next /\ r.ref = q.ref
      /\ r.running = q.running /\ r.enabled = q.enabled /\ r.alarm = q.alarm
      /\ r.compare = q.compare
      /\ \A u \in Timers : u # t => r.stamp[u] = q.stamp[u]
  BY <1>2, <1>6 DEF Good, Records
<1>8. Becomes(r)
  BY <1>4
<1> HIDE DEF r
<1>9. r.list # <<>> => Head(r.list) \in Timers /\ Head(r.list) # t
  BY <1>2, <1>7 DEF Listed, Records
<1>10. Good(r, now, pending)
  BY <1>2, <1>7, <1>9 DEF Good, Armed
<1>11. Headed(State) => Headed(r)
  BY <1>2, <1>7 DEF Headed
<1>12. UNCHANGED <<now, pending, callback, scenario>>
  BY DEF TimerSetValue
<1> QED
  BY <1>8, <1>10, <1>11, <1>12, CallStep
\* TimerIrqHandler takes the head off; the new one has no alarm yet.
LEMMA RunGood ==
    ASSUME NEW r \in Records, Linked(r.list, r.next), r.list # <<>>, NEW N, r.ref <= N,
           NEW p
    PROVE  Good([r EXCEPT !.list = Tail(@)], N, p) /\ Head(r.list) \in Timers
<1> DEFINE l == Tail(r.list)
           q == [r EXCEPT !.list = l]
<1>1. /\ Head(r.list) \in Timers /\ l \in Seq(Timers) /\ Linked(l, r.next)
      /\ l # <<>> => Head(l) \notin r.next
  BY HeadTail DEF Records
<1> HIDE DEF l
<1>2. q \in Records /\ q.list = l /\ q.next = r.next /\ q.ref = r.ref
  BY <1>1 DEF Records
<1> HIDE DEF q
<1>3. Good(q, N, p)
  BY <1>1, <1>2 DEF Good, Armed
<1> QED
  BY <1>1, <1>3 DEF q, l

LEMMA IsrStep == ASSUME Unwrapped, IInv, NEW i \in {"C", "D"}, Isr(i) PROVE IInv'
<1>1. PICK q : q = IF i = "C" THEN [State EXCEPT !.enabled = @ \ {"D"}] ELSE State
  OBVIOUS
<1>2. /\ callback = None /\ pending' = pending \ {i} /\ UNCHANGED <<now, scenario>>
      /\ IF Due(q) THEN IrqHandler(q) ELSE Becomes(q) /\ UNCHANGED callback
  BY <1>1 DEF Isr
<1>3. Good(State, now, pending) /\ Headed(State) /\ now \in Int /\ now <= now
  BY <1>2, InvIsEarly DEF IInv, Early
<1>4. /\ q \in Records /\ q.list = list /\ q.next = next /\ q.ref = ref
      /\ q.running = running /\ q.alarm = alarm /\ q.stamp = stamp /\ q.compare = compare
      /\ "C" \in enabled => "C" \in q.enabled
  BY <1>1, <1>3 DEF Good, Records, State
<1>5. /\ Linked(q.list, q.next) /\ q.ref <= now /\ Headed(q)
      /\ Modulus \in Nat /\ q.ref \in 0 .. Modulus - 1 /\ q.alarm \in 0 .. Modulus - 1
  BY <1>3, <1>4, TimerAssumption DEF Good, Headed, State, Records, Counter
<1>6. CASE ~Due(q)
  <2>1. q.running => now < q.alarm
    BY <1>3, <1>5, <1>6 DEF Due
  <2>2. Armed(q, now, pending \ {i})
    BY <1>3, <1>4, <1>5, <2>1 DEF Good, Armed, State
  <2>3. Good(q, now, pending \ {i})
    BY <1>4, <1>5, <2>2 DEF Good
  <2>4. Good(State, now, pending)' /\ Headed(State)'
    BY <1>2, <1>5, <1>6, <2>3, BecomesGood
  <2> QED
    BY <1>2, <1>6, <2>4 DEF IInv
<1>7. CASE Due(q) /\ q.list = <<>>
  <2> DEFINE r == [q EXCEPT !.ref = now, !.running = FALSE]
  <2>1. r \in Records /\ r.list = <<>> /\ r.next = q.next /\ r.ref = now
    BY <1>4, <1>7, InvIsEarly DEF Records
  <2>2. Becomes(r) /\ UNCHANGED callback
    BY <1>2, <1>7 DEF IrqHandler
  <2> HIDE DEF r
  <2>3. Good(r, now, pending \ {i}) /\ Headed(r)
    BY <1>3, <1>5, <1>7, <2>1 DEF Good, Armed, Headed
  <2>4. Good(State, now, pending)' /\ Headed(State)'
    BY <1>2, <2>2, <2>3, BecomesGood
  <2> QED
    BY <1>2, <2>2, <2>4 DEF IInv
<1>8. CASE Due(q) /\ q.list # <<>>
  <2> DEFINE delta == ElapsedSince(q)
             later == Listed(q) \ {Head(q.list)}
             s == [t \in Timers |-> IF t \notin later THEN q.stamp[t]
                                    ELSE IF q.stamp[t] > delta
                                         THEN q.stamp[t] - delta ELSE 0]
             r == [q EXCEPT !.ref = now, !.running = FALSE, !.stamp = s]
  <2>1. Run(r)
    BY <1>2, <1>4, <1>8 DEF IrqHandler, Records
  <2>2. delta \in Nat /\ Modulus \in Nat /\ \A t \in Timers : q.stamp[t] \in Counter
    <3>1. q.ref \in Counter /\ q.stamp \in [Timers -> Counter]
      BY <1>4 DEF Records
    <3>2. delta = now - q.ref /\ now - q.ref \in Nat
      BY <1>5, <3>1, InvIsEarly, Elapsed, Ticks
    <3> QED
      BY <3>1, <3>2, Ticks
  <2>3. s \in [Timers -> Counter]
    <3> HIDE DEF delta, later
    <3>1. \A t \in Timers : q.stamp[t] > delta => q.stamp[t] - delta \in Counter
      BY <2>2 DEF Counter
    <3>2. 0 \in Counter
      BY TimerAssumption DEF Counter
    <3> QED
      BY <2>2, <3>1, <3>2
  <2> HIDE DEF s
  <2>4. r \in Records /\ r.list = q.list /\ r.next = q.next /\ r.ref = now
    BY <1>4, <2>3, InvIsEarly DEF Records
  <2> HIDE DEF r
  <2>5. PICK z : z = [r EXCEPT !.list = Tail(@)]
    OBVIOUS
  <2>6. Good(z, now, pending \ {i}) /\ Head(r.list) \in Timers
    BY <1>3, <1>5, <1>8, <2>4, <2>5, RunGood
  <2>7. Becomes(z) /\ callback' = Head(r.list)
    BY <2>1, <2>5 DEF Run
  <2>8. Good(State, now, pending)'
    BY <1>2, <2>6, <2>7, BecomesGood
  <2> QED
    BY <1>2, <2>6, <2>7, <2>8, TimerAssumption DEF IInv
<1> QED
  BY <1>6, <1>7, <1>8

LEMMA ReturnStep == ASSUME Unwrapped, IInv, CallbackReturns PROVE IInv'
<1>1. /\ now' = now /\ pending' = pending /\ scenario' = scenario
      /\ Good(State, now, pending) /\ Early
  BY InvIsEarly DEF IInv, CallbackReturns
<1>2. /\ State \in Records /\ Linked(list, next) /\ ref <= now
      /\ State.list = list /\ State.next = next /\ State.ref = ref
  BY <1>1 DEF Good, State
<1>3. CASE Expired(State)
  <2>1. PICK z : z = [State EXCEPT !.list = Tail(@)]
    OBVIOUS
  <2>2. State.list # <<>> /\ Run(State)
    BY <1>3 DEF CallbackReturns, Expired
  <2>3. Becomes(z) /\ callback' = Head(State.list)
    BY <2>1, <2>2 DEF Run
  <2>4. Good(z, now, pending) /\ Head(State.list) \in Timers
    BY <1>1, <1>2, <2>1, <2>2, RunGood
  <2>5. Good(State, now, pending)'
    BY <1>1, <2>3, <2>4, BecomesGood
  <2> QED
    BY <1>1, <2>3, <2>4, <2>5, TimerAssumption DEF IInv
<1>4. CASE ~Expired(State)
  <2>1. PICK r : r = IF list # <<>> /\ Head(list) \notin next THEN SetTimeout(State)
                     ELSE State
    OBVIOUS
  <2>2. Becomes(r) /\ callback' = None
    BY <1>4, <2>1 DEF CallbackReturns
  <2>3. CASE list # <<>> /\ Head(list) \notin next
    <3>1. Good(r, now, pending) /\ Headed(r)
      BY <1>1, <1>2, <2>1, <2>3, SetTimeoutArms DEF Headed
    <3>2. Good(State, now, pending)' /\ Headed(State)'
      BY <1>1, <2>2, <3>1, BecomesGood
    <3> QED
      BY <1>1, <2>2, <3>2 DEF IInv
  <2>4. CASE ~(list # <<>> /\ Head(list) \notin next)
    <3>1. Good(r, now, pending) /\ Headed(r)
      BY <1>1, <1>2, <2>1, <2>4 DEF Headed
    <3>2. Good(State, now, pending)' /\ Headed(State)'
      BY <1>1, <2>2, <3>1, BecomesGood
    <3> QED
      BY <1>1, <2>2, <3>2 DEF IInv
  <2> QED
    BY <2>3, <2>4
<1> QED
  BY <1>3, <1>4

LEMMA TickStep == ASSUME Unwrapped, IInv, Tick PROVE IInv'
<1>1. /\ now \in Nat /\ now < scenario.end /\ scenario.end \in Nat
      /\ now + 1 \in 0 .. Modulus - 1 /\ Modulus \in Nat \ {0}
  <2>1. now # scenario.end
    BY DEF Tick
  <2> QED
    BY <2>1, InvIsEarly, TimerAssumption DEF IInv
<1>2. now' = now + 1
  <2> DEFINE x == now + 1
  <2>1. x \in Int /\ 0 <= x /\ x < Modulus
    BY <1>1
  <2>2. now' = x % Modulus
    BY DEF Tick
  <2> HIDE DEF x
  <2>3. now' = x
    BY <1>1, <2>1, <2>2, Remainder
  <2> QED
    BY <2>3 DEF x
<1>3. /\ pending' = pending \cup {i \in enabled : compare[i] = now'}
      /\ scenario' = scenario /\ callback' = callback /\ State' = State
  BY DEF Tick, rtc, timers, State
<1>4. Good(State, now, pending) /\ enabled \subseteq {"C", "D"}
  BY DEF IInv, Good, Records, State
<1>5. Armed(State, now', pending')
  <2> SUFFICES ASSUME list # <<>>, Head(list) \in next, pending' = {}
               PROVE  now' < ref + alarm
    BY <1>4 DEF Armed, Good, State
  <2>1. pending = {} /\ ~("C" \in enabled /\ compare["C"] = now')
    BY <1>3, <1>4
  <2>2. "C" \in enabled /\ compare["C"] = (ref + alarm) % Modulus /\ now < ref + alarm
    BY <1>4, <2>1 DEF Good, Armed, State
  <2> DEFINE x == ref + alarm
  <2>3. x \in Int
    BY <1>4, <1>1 DEF Good, Records, State, Counter
  <2>4. now < x /\ x % Modulus # now'
    BY <2>1, <2>2
  <2> HIDE DEF x
  <2>5. ASSUME x = now + 1 PROVE x % Modulus = now'
    <3>1. 0 <= x /\ x < Modulus
      BY <1>1, <2>5
    <3>2. x % Modulus = x
      BY <1>1, <2>3, <3>1, Remainder
    <3> QED
      BY <1>2, <2>5, <3>2
  <2>6. now' < x
    BY <1>1, <1>2, <2>3, <2>4, <2>5
  <2> QED
    BY <2>6 DEF x
<1>6. ref \in Nat /\ ref <= now /\ ref <= now'
  BY <1>1, <1>2, <1>4 DEF Good, Records, State, Counter
<1>7. Good(State, now', pending')
  BY <1>4, <1>5, <1>6 DEF Good, State
<1>8. Good(State, now, pending)' /\ (Headed(State) => Headed(State)')
  BY <1>3, <1>7
<1>9. now' \in 0 .. scenario.end
  BY <1>1, <1>2
<1> QED
  BY <1>3, <1>4, <1>8, <1>9 DEF IInv

LEMMA NextInv == ASSUME Unwrapped, IInv, [Next]_vars PROVE IInv'
<1>1. scenario.timers \subseteq Timers
  BY TimerAssumption DEF IInv
<1>2. ASSUME NEW t \in scenario.timers, TimerStart(t) PROVE IInv'
  BY <1>1, <1>2, StartStep
<1>3. ASSUME NEW t \in scenario.timers, TimerStop(t) PROVE IInv'
  BY <1>1, <1>3, StopStep
<1>4. ASSUME NEW t \in scenario.timers, TimerSetValue(t) PROVE IInv'
  BY <1>1, <1>4, SetValueStep
<1>5. ASSUME NEW i \in {"C", "D"}, Isr(i) PROVE IInv'
  BY <1>5, IsrStep
<1>6. CASE CallbackReturns
  BY <1>6, ReturnStep
<1>7. CASE Tick
  BY <1>7, TickStep
<1>8. CASE UNCHANGED vars
  <2>1. /\ State' = State /\ now' = now /\ pending' = pending /\ callback' = callback
        /\ scenario' = scenario
    BY <1>8 DEF vars, rtc, timers, State
  <2> QED
    BY <2>1 DEF IInv
<1> QED
  BY <1>2, <1>3, <1>4, <1>5, <1>6, <1>7, <1>8 DEF Next

\* The list of timers and the state of the alarm keep their types (timer.c,
\* rtc-board.c): no timer is in the list twice and only the head is next to
\* expire.
THEOREM TypeCorrect == Unwrapped => (Spec => []TypeOK)
<1> SUFFICES ASSUME Unwrapped PROVE Spec => []TypeOK
  OBVIOUS
<1>1. Init => IInv
  BY InitInv
<1>2. IInv /\ [Next]_vars => IInv'
  BY NextInv
<1>3. IInv => TypeOK
  BY InvTypes
<1> QED
  BY <1>1, <1>2, <1>3, PTL DEF Spec

\* Whenever TimerIrqHandler and its callbacks are done, the alarm is set for the
\* head of the list, and its interrupt is still to come or pending, whatever the
\* callbacks start and stop and however long they and the interrupts take.
THEOREM AlarmIsForHead == Unwrapped => (Spec => []AlarmForHead)
<1> SUFFICES ASSUME Unwrapped PROVE Spec => []AlarmForHead
  OBVIOUS
<1>1. Init => IInv
  BY InitInv
<1>2. IInv /\ [Next]_vars => IInv'
  BY NextInv
<1>3. IInv => AlarmForHead
  BY InvAlarm
<1> QED
  BY <1>1, <1>2, <1>3, PTL DEF Spec

----------------------------------------------------------------------------
(* The order of the list and the times that are left.                      *)

\* No timer is due beyond the wrap of the counter: TimerStart adds its duration
\* to the time since the reference without looking at the carry (timer.c:127).
Reachable == \A s \in Scenarios : \A d \in s.durations : s.end + d < Modulus

\* The list l, with times s that count from b, at time n, when the timers have f
\* ticks left.  An alarm is not before a timer is due.  It is exact unless the time
\* has passed or, for the head, was less than MinTicks away.
Ordered(l, b, s, n, f) ==
    /\ \A i \in 1 .. Len(l) :
          /\ f[l[i]] <= 0 \/ n + f[l[i]] <= b + s[l[i]]
          /\ s[l[i]] > n - b + (IF i = 1 THEN MinTicks ELSE 0)
                => b + s[l[i]] <= n + f[l[i]]
          /\ b + s[l[i]] < Modulus
    /\ \A i, j \in 1 .. Len(l) : i < j => f[l[i]] <= f[l[j]]

Times == [Timers -> Int]

LEMMA RecordIs ==
    ASSUME NEW r \in Records
    PROVE  /\ r.list \in Seq(Timers) /\ Len(r.list) \in Nat
           /\ \A j \in 1 .. Len(r.list) : r.list[j] \in Timers
           /\ r.ref \in Counter /\ r.ref \in Nat
           /\ r.stamp \in [Timers -> Counter]
           /\ \A u \in Timers : r.stamp[u] \in Nat
<1>1. r.list \in Seq(Timers) /\ r.ref \in Counter /\ r.stamp \in [Timers -> Counter]
  BY DEF Records
<1>2. Len(r.list) \in Nat /\ \A j \in 1 .. Len(r.list) : r.list[j] \in Timers
  BY <1>1
<1> QED
  BY <1>1, <1>2, CounterIsNat

LEMMA TimesAre == ASSUME NEW f \in Times PROVE \A u \in Timers : f[u] \in Int
BY DEF Times

\* What is left of a list is in order.
LEMMA FewerOrdered ==
    ASSUME NEW l \in Seq(Timers), NEW b \in Counter, NEW s \in [Timers -> Counter],
           NEW n \in Nat, NEW f \in Times, Ordered(l, b, s, n, f),
           NEW m \in Seq(Timers), NEW k \in [1 .. Len(m) -> 1 .. Len(l)],
           \A i, j \in 1 .. Len(m) : i < j => k[i] < k[j],
           \A j \in 1 .. Len(m) : m[j] = l[k[j]]
    PROVE  Ordered(m, b, s, n, f)
<1>0. Len(l) \in Nat /\ Len(m) \in Nat
  OBVIOUS
<1>1. ASSUME NEW j \in 1 .. Len(m)
      PROVE  /\ f[m[j]] <= 0 \/ n + f[m[j]] <= b + s[m[j]]
             /\ s[m[j]] > n - b + (IF j = 1 THEN MinTicks ELSE 0)
                   => b + s[m[j]] <= n + f[m[j]]
             /\ b + s[m[j]] < Modulus
  <2>1. k[j] \in 1 .. Len(l) /\ m[j] = l[k[j]] /\ m[j] \in Timers
    OBVIOUS
  <2>2. j # 1 => k[j] # 1
    <3>1. j # 1 => 1 \in 1 .. Len(m) /\ 1 < j /\ k[1] \in 1 .. Len(l)
      BY <1>0
    <3> QED
      BY <1>0, <2>1, <3>1
  <2>3. s[m[j]] \in Nat /\ b \in Nat /\ f[m[j]] \in Int
    BY <2>1, CounterIsNat DEF Times
  <2>4. /\ f[m[j]] <= 0 \/ n + f[m[j]] <= b + s[m[j]]
        /\ s[m[j]] > n - b + (IF k[j] = 1 THEN MinTicks ELSE 0)
              => b + s[m[j]] <= n + f[m[j]]
        /\ b + s[m[j]] < Modulus
    BY <2>1 DEF Ordered
  <2>5. PICK x : x = s[m[j]]
    OBVIOUS
  <2>6. PICK y : y = f[m[j]]
    OBVIOUS
  <2>7. /\ x \in Nat /\ y \in Int /\ b \in Nat
        /\ y <= 0 \/ n + y <= b + x
        /\ x > n - b + (IF k[j] = 1 THEN MinTicks ELSE 0) => b + x <= n + y
        /\ b + x < Modulus
    BY <2>3, <2>4, <2>5, <2>6
  <2>8. x > n - b + (IF j = 1 THEN MinTicks ELSE 0) => b + x <= n + y
    BY <2>2, <2>7, Ticks
  <2> QED
    BY <2>5, <2>6, <2>7, <2>8
<1>2. ASSUME NEW i \in 1 .. Len(m), NEW j \in 1 .. Len(m), i < j
      PROVE  f[m[i]] <= f[m[j]]
  BY <1>2 DEF Ordered
<1> QED
  BY <1>1, <1>2 DEF Ordered

LEMMA TailOrdered ==
    ASSUME NEW l \in Seq(Timers), l # <<>>, NEW b \in Counter, NEW s \in [Timers -> Counter],
           NEW n \in Nat, NEW f \in Times, Ordered(l, b, s, n, f)
    PROVE  Ordered(Tail(l), b, s, n, f)
<1>1. /\ Tail(l) \in Seq(Timers) /\ Len(Tail(l)) = Len(l) - 1 /\ Len(l) \in Nat \ {0}
      /\ \A i \in 1 .. Len(Tail(l)) : Tail(l)[i] = l[i + 1]
  BY HeadTailProperties
<1>2. PICK k : k = [j \in 1 .. Len(Tail(l)) |-> j + 1]
  OBVIOUS
<1>3. /\ k \in [1 .. Len(Tail(l)) -> 1 .. Len(l)]
      /\ \A j \in 1 .. Len(Tail(l)) : k[j] = j + 1
  BY <1>1, <1>2
<1>4. \A i, j \in 1 .. Len(Tail(l)) : i < j => k[i] < k[j]
  BY <1>3
<1>5. \A j \in 1 .. Len(Tail(l)) : Tail(l)[j] = l[k[j]]
  BY <1>1, <1>3
<1> HIDE <1>2
<1> QED
  BY <1>1, <1>3, <1>4, <1>5, FewerOrdered

LEMMA WithoutOrdered ==
    ASSUME NEW l \in Seq(Timers), NEW t, \E j \in 1 .. Len(l) : l[j] = t,
           NEW b \in Counter, NEW s \in [Timers -> Counter],
           NEW n \in Nat, NEW f \in Times, Ordered(l, b, s, n, f)
    PROVE  Ordered(Without(l, t), b, s, n, f)
<1> DEFINE i == CHOOSE j \in DOMAIN l : l[j] = t
           m == Without(l, t)
           N == Len(l) - 1
<1>1. i \in 1 .. Len(l) /\ Len(l) \in Nat /\ N \in Nat
  <2>1. DOMAIN l = 1 .. Len(l) /\ Len(l) \in Nat
    OBVIOUS
  <2>2. i \in 1 .. Len(l)
    BY <2>1
  <2> QED
    BY <2>1, <2>2
<1>2. m = [j \in 1 .. N |-> IF j < i THEN l[j] ELSE l[j + 1]]
  BY DEF Without
<1> HIDE DEF m, i
<1>3. m \in [1 .. N -> Timers]
  BY <1>1, <1>2
<1>4. m \in Seq(Timers) /\ Len(m) = N
  BY <1>1, <1>3, ListOf
<1>5. PICK k : k = [j \in 1 .. Len(m) |-> IF j < i THEN j ELSE j + 1]
  OBVIOUS
<1>6. /\ k \in [1 .. Len(m) -> 1 .. Len(l)]
      /\ \A j \in 1 .. Len(m) : k[j] = IF j < i THEN j ELSE j + 1
  BY <1>1, <1>4, <1>5
<1>7. ASSUME NEW p \in 1 .. Len(m), NEW j \in 1 .. Len(m), p < j PROVE k[p] < k[j]
  <2>1. /\ k[p] = IF p < i THEN p ELSE p + 1
        /\ k[j] = IF j < i THEN j ELSE j + 1
        /\ i \in Nat /\ p \in Nat /\ j \in Nat
    BY <1>1, <1>4, <1>6
  <2> QED
    BY <1>7, <2>1
<1>8. \A j \in 1 .. Len(m) : m[j] = l[k[j]]
  BY <1>2, <1>4, <1>6
<1> HIDE <1>5
<1>9. Ordered(m, b, s, n, f)
  BY <1>4, <1>6, <1>7, <1>8, FewerOrdered
<1> QED
  BY <1>9 DEF m

\* A timer that has all of its time left, put where the code puts it.
LEMMA InsertOrdered ==
    ASSUME NEW l \in Seq(Timers), NEW p \in 1 .. Len(l) + 1,
           NEW t \in Timers, \A j \in 1 .. Len(l) : l[j] # t,
           NEW b \in Counter, NEW s \in [Timers -> Counter],
           NEW n \in Nat, NEW f \in Times, Ordered(l, b, s, n, f),
           n + f[t] = b + s[t], b + s[t] < Modulus,
           \A j \in 1 .. Len(l) : j < p => f[l[j]] <= f[t],
           p <= Len(l) => f[t] <= f[l[p]],
           p = 1 /\ l # <<>> => b + s[l[1]] <= n + f[l[1]]
    PROVE  Ordered(InsertAt(l, p, t), b, s, n, f)
<1> DEFINE m == InsertAt(l, p, t)
           N == Len(l) + 1
<1>1. N \in Nat \ {0} /\ Len(l) \in Nat
  OBVIOUS
<1>2. m \in [1 .. N -> Timers]
  BY DEF InsertAt
<1>3. \A j \in 1 .. N : m[j] = IF j < p THEN l[j] ELSE IF j = p THEN t ELSE l[j - 1]
  BY DEF InsertAt
<1> HIDE DEF m
<1>4. m \in Seq(Timers) /\ Len(m) = N
  BY <1>1, <1>2, ListOf
<1>5. \A u \in Timers : s[u] \in Nat /\ f[u] \in Int
  BY CounterIsNat DEF Times
<1>6. b \in Nat
  BY CounterIsNat
<1>7. ASSUME NEW j \in 1 .. N
      PROVE  /\ f[m[j]] <= 0 \/ n + f[m[j]] <= b + s[m[j]]
             /\ s[m[j]] > n - b + (IF j = 1 THEN MinTicks ELSE 0)
                   => b + s[m[j]] <= n + f[m[j]]
             /\ b + s[m[j]] < Modulus
  <2>1. CASE j < p
    <3>1. j \in 1 .. Len(l) /\ m[j] = l[j]
      BY <1>1, <1>3, <2>1
    <3> QED
      BY <3>1 DEF Ordered
  <2>2. CASE j = p
    BY <1>3, <1>5, <1>6, <2>2, Ticks
  <2>3. CASE j > p
    <3>1. j - 1 \in 1 .. Len(l) /\ m[j] = l[j - 1] /\ j # 1 /\ l[j - 1] \in Timers
      BY <1>1, <1>3, <2>3
    <3> DEFINE u == l[j - 1]
    <3>2. /\ f[u] <= 0 \/ n + f[u] <= b + s[u]
          /\ s[u] > n - b + (IF j - 1 = 1 THEN MinTicks ELSE 0)
                => b + s[u] <= n + f[u]
          /\ b + s[u] < Modulus
      BY <3>1 DEF Ordered
    <3>3. CASE j - 1 # 1
      BY <3>1, <3>2, <3>3
    <3>4. CASE j - 1 = 1
      <4>1. p = 1 /\ l # <<>>
        BY <1>1, <2>3, <3>1, <3>4
      <4> QED
        BY <3>1, <3>2, <3>4, <4>1
    <3> QED
      BY <3>3, <3>4
  <2> QED
    BY <1>1, <2>1, <2>2, <2>3
<1>8. ASSUME NEW i \in 1 .. N, NEW j \in 1 .. N, i < j PROVE f[m[i]] <= f[m[j]]
  <2> DEFINE old(x) == IF x < p THEN x ELSE x - 1
  <2>1. \A x \in 1 .. N : x # p => old(x) \in 1 .. Len(l) /\ m[x] = l[old(x)]
    BY <1>1, <1>3
  <2>2. \A x, y \in 1 .. N : x < y /\ x # p /\ y # p => old(x) < old(y)
    BY <1>1
  <2>3. \A x \in 1 .. N : x > p => old(x) >= p
    BY <1>1
  <2>4. \A x \in 1 .. N : x < p => old(x) < p
    BY <1>1
  <2>5. \A x, y \in 1 .. Len(l) : x < y => f[l[x]] <= f[l[y]]
    BY DEF Ordered
  <2>6. m[p] = t
    BY <1>1, <1>3
  <2> HIDE DEF old
  <2>7. CASE i # p /\ j # p
    BY <1>8, <2>1, <2>2, <2>5, <2>7
  <2>8. CASE j = p
    <3>1. old(i) \in 1 .. Len(l) /\ old(i) < p /\ m[i] = l[old(i)]
      BY <1>8, <2>1, <2>4, <2>8
    <3> QED
      BY <2>6, <2>8, <3>1
  <2>9. CASE i = p
    <3>1. old(j) \in 1 .. Len(l) /\ old(j) >= p /\ m[j] = l[old(j)]
      BY <1>8, <2>1, <2>3, <2>9
    <3>2. p \in 1 .. Len(l) /\ f[t] <= f[l[p]]
      BY <1>1, <3>1
    <3>3. f[l[p]] <= f[l[old(j)]]
      <4>1. PICK k \in 1 .. Len(l) : k = old(j) /\ p <= k
        BY <3>1
      <4>2. f[l[p]] \in Int
        BY <1>5, <3>2
      <4>3. CASE k = p
        BY <4>1, <4>2, <4>3
      <4>4. CASE p < k
        BY <2>5, <3>2, <4>1, <4>4
      <4> QED
        BY <3>2, <4>1, <4>3, <4>4
    <3>4. f[l[p]] \in Int /\ f[l[old(j)]] \in Int /\ f[t] \in Int
      BY <1>5, <3>1, <3>2
    <3>5. f[t] <= f[l[old(j)]]
      BY <3>2, <3>3, <3>4
    <3> QED
      BY <2>6, <2>9, <3>1, <3>5
  <2> QED
    BY <2>7, <2>8, <2>9
<1>9. Ordered(m, b, s, n, f)
  BY <1>4, <1>7, <1>8 DEF Ordered
<1> QED
  BY <1>9 DEF m

\* The compare registers: C matches a tick before D does, and has not matched yet.
Wired(r, n, p) ==
    "D" \in r.enabled =>
       /\ "C" \in r.enabled
       /\ \/ r.compare["C"] = 0 /\ r.compare["D"] = 0
          \/ /\ r.compare["D"] = (r.compare["C"] + 1) % Modulus
             /\ n <= r.compare["C"]
             /\ n = r.compare["C"] => "C" \in p

\* A record whose list is in order.
InOrderOf(r, f) == Ordered(r.list, r.ref, r.stamp, now, f)

LEMMA SetTimeoutOrders ==
    ASSUME Early, NEW r \in Records, r.list # <<>>, Linked(r.list, r.next), r.ref <= now,
           NEW f \in Times, InOrderOf(r, f), NEW p
    PROVE  /\ InOrderOf(SetTimeout(r), f) /\ Wired(SetTimeout(r), now, p)
           /\ SetTimeout(r).reload = r.reload
<1> DEFINE t == Head(r.list)
           q == SetTimeout(r)
<1>1. PICK s \in Counter :
         /\ s = IF r.stamp[t] < now - r.ref + MinTicks
                THEN now - r.ref + MinTicks ELSE r.stamp[t]
         /\ q.stamp = [r.stamp EXCEPT ![t] = s]
         /\ q.ref = r.ref /\ q.list = r.list /\ q.reload = r.reload
         /\ q.enabled = {"C", "D"}
         /\ q.compare["C"] = (r.ref + s) % Modulus
         /\ q.compare["D"] = (r.ref + s + 1) % Modulus
  BY SetTimeoutIs
<1>2. /\ r.list \in Seq(Timers) /\ Len(r.list) \in Nat \ {0} /\ t = r.list[1]
      /\ r.stamp \in [Timers -> Counter] /\ t \in Timers
      /\ \A i \in 2 .. Len(r.list) : r.list[i] # t
  <2>1. r.list \in Seq(Timers) /\ r.stamp \in [Timers -> Counter]
    BY DEF Records
  <2>2. Len(r.list) \in Nat \ {0} /\ t = r.list[1] /\ t \in Timers
    BY <2>1, HeadTail
  <2> QED
    BY <2>1, <2>2 DEF Linked
<1> HIDE DEF q, t
<1>3. /\ q.stamp[t] = s
      /\ \A u \in Timers : u # t => q.stamp[u] = r.stamp[u]
  BY <1>1, <1>2
<1>4. now \in Nat /\ r.ref \in Nat /\ now + MinTicks < Modulus /\ s \in Nat
      /\ r.stamp[t] \in Nat /\ f[t] \in Int
  BY <1>2, CounterIsNat, RecordIs, TimesAre DEF Early
<1>5. ASSUME NEW i \in 1 .. Len(r.list)
      PROVE  LET u == r.list[i]
             IN  /\ f[u] <= 0 \/ now + f[u] <= r.ref + q.stamp[u]
                 /\ q.stamp[u] > now - r.ref + (IF i = 1 THEN MinTicks ELSE 0)
                       => r.ref + q.stamp[u] <= now + f[u]
                 /\ r.ref + q.stamp[u] < Modulus
  <2>1. LET u == r.list[i]
        IN  /\ f[u] <= 0 \/ now + f[u] <= r.ref + r.stamp[u]
            /\ r.stamp[u] > now - r.ref + (IF i = 1 THEN MinTicks ELSE 0)
                  => r.ref + r.stamp[u] <= now + f[u]
            /\ r.ref + r.stamp[u] < Modulus
    BY DEF InOrderOf, Ordered
  <2>2. CASE i # 1
    <3>1. r.list[i] # t /\ r.list[i] \in Timers
      BY <1>2, <2>2
    <3>2. q.stamp[r.list[i]] = r.stamp[r.list[i]]
      BY <1>3, <3>1
    <3> QED
      BY <2>1, <3>2
  <2>3. CASE i = 1
    <3>1. /\ f[t] <= 0 \/ now + f[t] <= r.ref + r.stamp[t]
          /\ r.stamp[t] > now - r.ref + MinTicks => r.ref + r.stamp[t] <= now + f[t]
          /\ r.ref + r.stamp[t] < Modulus
      BY <1>2, <2>1, <2>3
    <3>2. /\ f[t] <= 0 \/ now + f[t] <= r.ref + s
          /\ s > now - r.ref + MinTicks => r.ref + s <= now + f[t]
          /\ r.ref + s < Modulus
      <4>1. s = IF r.stamp[t] < now - r.ref + MinTicks
                THEN now - r.ref + MinTicks ELSE r.stamp[t]
        BY <1>1
      <4>2. PICK x : x = r.stamp[t]
        OBVIOUS
      <4>3. PICK y : y = f[t]
        OBVIOUS
      <4>4. /\ y <= 0 \/ now + y <= r.ref + x
            /\ x > now - r.ref + MinTicks => r.ref + x <= now + y
            /\ r.ref + x < Modulus
            /\ s = IF x < now - r.ref + MinTicks THEN now - r.ref + MinTicks ELSE x
            /\ x \in Nat /\ y \in Int
        BY <1>4, <3>1, <4>1, <4>2, <4>3
      <4> HIDE <4>2, <4>3
      <4>5. /\ y <= 0 \/ now + y <= r.ref + s
            /\ s > now - r.ref + MinTicks => r.ref + s <= now + y
            /\ r.ref + s < Modulus
        BY <1>4, <4>4, Ticks
      <4> QED
        BY <4>3, <4>5
    <3> QED
      BY <1>2, <1>3, <2>3, <3>2
  <2> QED
    BY <2>2, <2>3
<1>6. InOrderOf(q, f)
  <2>1. \A i, j \in 1 .. Len(r.list) : i < j => f[r.list[i]] <= f[r.list[j]]
    BY DEF InOrderOf, Ordered
  <2> QED
    BY <1>1, <1>5, <2>1 DEF InOrderOf, Ordered
<1>7. Wired(q, now, p)
  <2> DEFINE x == r.ref + s
  <2>1. x \in Nat /\ x < Modulus /\ now < x
    <3>1. r.ref + q.stamp[r.list[1]] < Modulus
      BY <1>2, <1>5
    <3>2. s = IF r.stamp[t] < now - r.ref + MinTicks
              THEN now - r.ref + MinTicks ELSE r.stamp[t]
      BY <1>1
    <3>3. 1 \in 1 .. Len(r.list) /\ q.stamp[r.list[1]] = s
      BY <1>2, <1>3
    <3>4. PICK y : y = r.stamp[t]
      OBVIOUS
    <3> QED
      BY <1>4, <3>1, <3>2, <3>3, <3>4, Ticks
  <2> HIDE DEF x
  <2>2. x % Modulus = x
    <3>1. x \in Int /\ 0 <= x /\ x < Modulus /\ Modulus \in Nat \ {0}
      BY <2>1, Ticks
    <3> QED
      BY <3>1, Remainder
  <2>3. q.compare["C"] = x /\ q.compare["D"] = (x + 1) % Modulus
    BY <1>1, <2>2 DEF x
  <2> QED
    BY <1>1, <1>4, <2>1, <2>3 DEF Wired
<1> QED
  BY <1>1, <1>6, <1>7 DEF q

\* TimerInsertNewHeadTimer: before a head that is due later.
LEMMA NewHeadOrders ==
    ASSUME Early, NEW r \in Records, Linked(r.list, r.next), r.ref <= now,
           NEW t \in Timers, t \notin Listed(r), NEW f \in Times, InOrderOf(r, f),
           now + f[t] = r.ref + r.stamp[t], r.ref + r.stamp[t] < Modulus,
           r.list # <<>> => /\ f[t] <= f[r.list[1]]
                            /\ r.ref + r.stamp[r.list[1]] <= now + f[r.list[1]],
           NEW p
    PROVE  /\ InOrderOf(InsertNewHead(t, r), f) /\ Wired(InsertNewHead(t, r), now, p)
           /\ InsertNewHead(t, r).reload = r.reload
<1> DEFINE n == IF r.list = <<>> THEN r.next ELSE r.next \ {Head(r.list)}
           l == <<t>> \o r.list
           q == [r EXCEPT !.next = n, !.list = l]
<1>1. InsertNewHead(t, r) = SetTimeout(q)
  BY DEF InsertNewHead
<1>2. r.list \in Seq(Timers) /\ Len(r.list) \in Nat
  BY DEF Records
<1>3. /\ l \in Seq(Timers) /\ Len(l) = Len(r.list) + 1 /\ l # <<>>
      /\ l[1] = t /\ \A i \in 2 .. Len(l) : i - 1 \in 1 .. Len(r.list) /\ l[i] = r.list[i - 1]
  BY <1>2
<1>4. \A j \in 1 .. Len(r.list) : r.list[j] # t
  BY <1>2 DEF Listed
<1>5. n \subseteq Timers /\ n \subseteq r.next /\ (r.list # <<>> => r.list[1] \notin n)
  BY <1>2 DEF Records
<1>6. l = InsertAt(r.list, 1, t)
  <2> DEFINE m == InsertAt(r.list, 1, t)
  <2>1. m \in [1 .. Len(r.list) + 1 -> Timers]
    BY <1>2 DEF InsertAt
  <2>2. \A j \in 1 .. Len(r.list) + 1 : m[j] = IF j = 1 THEN t ELSE r.list[j - 1]
    BY <1>2 DEF InsertAt
  <2> HIDE DEF m
  <2>3. m \in Seq(Timers) /\ Len(m) = Len(r.list) + 1
    BY <1>2, <2>1, ListOf
  <2>4. \A j \in 1 .. Len(l) : l[j] = m[j]
    BY <1>2, <1>3, <2>2
  <2> HIDE DEF l
  <2>5. l = m
    BY <1>3, <2>3, <2>4, SeqEqual
  <2> QED
    BY <2>5 DEF m
<1> HIDE DEF l, n
<1>7. Linked(r.list, n)
  BY <1>5 DEF Linked
<1>8. Linked(l, n)
  <2>1. 1 \in 1 .. Len(r.list) + 1
    BY <1>2
  <2> QED
    BY <1>2, <1>4, <1>5, <1>6, <1>7, <2>1, Inserted
<1>9. q \in Records /\ q.list = l /\ q.next = n /\ q.ref = r.ref /\ q.stamp = r.stamp
      /\ q.reload = r.reload
  BY <1>3, <1>5 DEF Records
<1> HIDE DEF q
<1>10. Ordered(InsertAt(r.list, 1, t), r.ref, r.stamp, now, f)
  <2>1. r.ref \in Counter /\ r.stamp \in [Timers -> Counter] /\ now \in Nat
        /\ 1 \in 1 .. Len(r.list) + 1 /\ Ordered(r.list, r.ref, r.stamp, now, f)
    BY <1>2 DEF Records, Early, InOrderOf
  <2>2. 1 <= Len(r.list) => r.list # <<>>
    BY <1>2
  <2>3. \A j \in 1 .. Len(r.list) : ~(j < 1)
    BY <1>2
  <2> QED
    BY <1>2, <1>4, <2>1, <2>2, <2>3, InsertOrdered
<1>11. InOrderOf(q, f)
  BY <1>6, <1>9, <1>10 DEF InOrderOf
<1> QED
  BY <1>1, <1>3, <1>8, <1>9, <1>11, SetTimeoutOrders

\* TimerInsertTimer: behind the timers that are due earlier.
LEMMA AfterHeadOrders ==
    ASSUME Early, NEW r \in Records, r.list # <<>>, r.ref <= now,
           NEW t \in Timers, t \notin Listed(r), NEW f \in Times, InOrderOf(r, f),
           now + f[t] = r.ref + r.stamp[t], r.ref + r.stamp[t] < Modulus, f[t] > 0,
           ~(r.stamp[t] < r.stamp[Head(r.list)])
    PROVE  /\ InOrderOf(InsertAfterHead(t, r), f)
           /\ \E l : InsertAfterHead(t, r) = [r EXCEPT !.list = l]
<1> DEFINE later == {i \in 2 .. Len(r.list) : r.stamp[r.list[i]] >= r.stamp[t]}
           place == IF later = {} THEN Len(r.list) + 1
                    ELSE CHOOSE i \in later : \A j \in later : i <= j
           l == InsertAt(r.list, place, t)
<1>1. InsertAfterHead(t, r) = [r EXCEPT !.list = l]
  BY DEF InsertAfterHead
<1>2. /\ r.list \in Seq(Timers) /\ Len(r.list) \in Nat \ {0} /\ Head(r.list) = r.list[1]
      /\ r.stamp \in [Timers -> Counter] /\ r.ref \in Counter /\ now \in Nat
      /\ r.ref \in Nat /\ f[t] \in Int /\ r.stamp[t] \in Nat
  <2>1. Len(r.list) \in Nat \ {0} /\ Head(r.list) = r.list[1]
    BY RecordIs
  <2> QED
    BY <2>1, RecordIs, TimesAre DEF Early
<1>n. \A j \in 1 .. Len(r.list) :
         r.list[j] \in Timers /\ r.stamp[r.list[j]] \in Nat /\ f[r.list[j]] \in Int
  BY RecordIs, TimesAre
<1>3. /\ place \in 2 .. Len(r.list) + 1
      /\ place <= Len(r.list) => r.stamp[r.list[place]] >= r.stamp[t]
      /\ \A j \in 2 .. Len(r.list) : j < place => ~(r.stamp[r.list[j]] >= r.stamp[t])
  <2>1. CASE later = {}
    <3>1. \A j \in 2 .. Len(r.list) : ~(r.stamp[r.list[j]] >= r.stamp[t])
      BY <2>1
    <3>2. place = Len(r.list) + 1
      BY <2>1
    <3> HIDE DEF place, later
    <3> QED
      BY <1>2, <3>1, <3>2
  <2>2. CASE later # {}
    <3>1. later \subseteq 2 .. Len(r.list) /\ later \subseteq Nat
      BY <1>2
    <3> HIDE DEF later
    <3>2. \E i \in later : \A j \in later : i <= j
      BY <2>2, <3>1, FirstPlace
    <3>3. place \in later /\ \A j \in later : place <= j
      BY <2>2, <3>2
    <3> HIDE DEF place
    <3>4. place \in Nat /\ \A j \in 2 .. Len(r.list) : j < place => j \notin later
      BY <3>1, <3>3
    <3> QED
      BY <1>2, <3>1, <3>3, <3>4 DEF later
  <2> QED
    BY <2>1, <2>2
<1> HIDE DEF place, later
<1>4. \A j \in 1 .. Len(r.list) : r.list[j] # t
  BY <1>2 DEF Listed
<1>5. \A j \in 1 .. Len(r.list) : j < place => r.stamp[r.list[j]] <= r.stamp[t]
  <2> SUFFICES ASSUME NEW j \in 1 .. Len(r.list), j < place
               PROVE  r.stamp[r.list[j]] <= r.stamp[t]
    OBVIOUS
  <2>1. CASE j = 1
    BY <1>2, <1>n, <2>1
  <2>2. CASE j # 1
    <3>1. ~(r.stamp[r.list[j]] >= r.stamp[t])
      BY <1>2, <1>3, <2>2
    <3> QED
      BY <1>2, <1>n, <3>1
  <2> QED
    BY <2>1, <2>2
<1>6. \A j \in 1 .. Len(r.list) : j < place => f[r.list[j]] <= f[t]
  <2> SUFFICES ASSUME NEW j \in 1 .. Len(r.list), j < place
               PROVE  f[r.list[j]] <= f[t]
    OBVIOUS
  <2>1. r.stamp[r.list[j]] <= r.stamp[t]
    BY <1>5
  <2>2. f[r.list[j]] <= 0 \/ now + f[r.list[j]] <= r.ref + r.stamp[r.list[j]]
    BY DEF InOrderOf, Ordered
  <2>3. r.stamp[r.list[j]] \in Nat /\ f[r.list[j]] \in Int
    BY <1>n
  <2>4. PICK x : x = r.stamp[r.list[j]]
    OBVIOUS
  <2>5. PICK y : y = f[r.list[j]]
    OBVIOUS
  <2>6. PICK z : z = r.stamp[t]
    OBVIOUS
  <2>7. /\ x \in Nat /\ y \in Int /\ z \in Nat /\ f[t] \in Int
        /\ x <= z /\ (y <= 0 \/ now + y <= r.ref + x)
        /\ now + f[t] = r.ref + z /\ f[t] > 0
    BY <1>2, <2>1, <2>2, <2>3, <2>4, <2>5, <2>6
  <2>8. y <= f[t]
    BY <1>2, <2>7
  <2> QED
    BY <2>5, <2>8
<1>7. place <= Len(r.list) => f[t] <= f[r.list[place]]
  <2> SUFFICES ASSUME place <= Len(r.list) PROVE f[t] <= f[r.list[place]]
    OBVIOUS
  <2>1. place \in 1 .. Len(r.list) /\ place # 1 /\ r.stamp[r.list[place]] >= r.stamp[t]
    BY <1>2, <1>3
  <2>2. r.stamp[r.list[place]] > now - r.ref => r.ref + r.stamp[r.list[place]] <= now + f[r.list[place]]
    <3>1. r.stamp[r.list[place]] > now - r.ref + 0
             => r.ref + r.stamp[r.list[place]] <= now + f[r.list[place]]
      BY <2>1 DEF InOrderOf, Ordered
    <3> QED
      BY <1>2, <3>1
  <2>3. r.stamp[r.list[place]] \in Nat /\ f[r.list[place]] \in Int
    BY <1>n, <2>1
  <2>4. PICK x : x = r.stamp[r.list[place]]
    OBVIOUS
  <2>5. PICK y : y = f[r.list[place]]
    OBVIOUS
  <2>6. PICK z : z = r.stamp[t]
    OBVIOUS
  <2>7. /\ x \in Nat /\ y \in Int /\ z \in Nat /\ f[t] \in Int
        /\ x >= z /\ (x > now - r.ref => r.ref + x <= now + y)
        /\ now + f[t] = r.ref + z /\ f[t] > 0
    BY <1>2, <2>1, <2>2, <2>3, <2>4, <2>5, <2>6
  <2>8. f[t] <= y
    BY <1>2, <2>7
  <2> QED
    BY <2>5, <2>8
<1>8. Ordered(l, r.ref, r.stamp, now, f)
  <2>1. place \in 1 .. Len(r.list) + 1 /\ place # 1
    BY <1>2, <1>3
  <2>2. Ordered(r.list, r.ref, r.stamp, now, f)
    BY DEF InOrderOf
  <2>3. PICK p : p = place
    OBVIOUS
  <2>4. PICK s : s = r.stamp
    OBVIOUS
  <2>5. PICK k : k = r.list
    OBVIOUS
  <2>6. PICK b : b = r.ref
    OBVIOUS
  <2>7. /\ k \in Seq(Timers) /\ p \in 1 .. Len(k) + 1 /\ \A j \in 1 .. Len(k) : k[j] # t
        /\ b \in Counter /\ s \in [Timers -> Counter] /\ now \in Nat
        /\ Ordered(k, b, s, now, f) /\ now + f[t] = b + s[t] /\ b + s[t] < Modulus
        /\ \A j \in 1 .. Len(k) : j < p => f[k[j]] <= f[t]
        /\ p <= Len(k) => f[t] <= f[k[p]]
        /\ p # 1
    BY <1>2, <1>4, <1>6, <1>7, <2>1, <2>2, <2>3, <2>4, <2>5, <2>6
  <2>8. Ordered(InsertAt(k, p, t), b, s, now, f)
    BY <2>7, InsertOrdered
  <2> QED
    BY <2>3, <2>4, <2>5, <2>6, <2>8
<1> HIDE DEF l
<1>9. PICK q : q = [r EXCEPT !.list = l]
  OBVIOUS
<1>10. q.list = l /\ q.ref = r.ref /\ q.stamp = r.stamp
  BY <1>9 DEF Records
<1> QED
  BY <1>1, <1>8, <1>9, <1>10 DEF InOrderOf

\* Only the times of the timers in the list matter.
LEMMA SameOrdered ==
    ASSUME NEW l \in Seq(Timers), NEW b, NEW s, NEW n, NEW f, Ordered(l, b, s, n, f),
           NEW z, NEW g,
           \A j \in 1 .. Len(l) : z[l[j]] = s[l[j]] /\ g[l[j]] = f[l[j]]
    PROVE  Ordered(l, b, z, n, g)
<1>1. ASSUME NEW i \in 1 .. Len(l)
      PROVE  /\ g[l[i]] <= 0 \/ n + g[l[i]] <= b + z[l[i]]
             /\ z[l[i]] > n - b + (IF i = 1 THEN MinTicks ELSE 0)
                   => b + z[l[i]] <= n + g[l[i]]
             /\ b + z[l[i]] < Modulus
  BY DEF Ordered
<1>2. \A i, j \in 1 .. Len(l) : i < j => g[l[i]] <= g[l[j]]
  BY DEF Ordered
<1> QED
  BY <1>1, <1>2 DEF Ordered

\* A tick leaves the order; the time left of a timer stops at -k - 1.
LEMMA TickOrders ==
    ASSUME NEW l \in Seq(Timers), NEW b \in Counter, NEW s \in [Timers -> Counter],
           NEW n \in Nat, NEW f \in Times, Ordered(l, b, s, n, f),
           NEW g \in Times, NEW k \in Nat,
           \A j \in 1 .. Len(l) : g[l[j]] = IF f[l[j]] >= -k THEN f[l[j]] - 1 ELSE f[l[j]]
    PROVE  Ordered(l, b, s, n + 1, g)
<1>1. \A j \in 1 .. Len(l) : l[j] \in Timers
  OBVIOUS
<1>2. \A u \in Timers : s[u] \in Nat /\ f[u] \in Int /\ g[u] \in Int
  BY CounterIsNat, TimesAre
<1>3. b \in Nat
  BY CounterIsNat
<1>m. PICK m \in Nat : m = n + 1
  OBVIOUS
<1>4. ASSUME NEW i \in 1 .. Len(l)
      PROVE  /\ g[l[i]] <= 0 \/ m + g[l[i]] <= b + s[l[i]]
             /\ s[l[i]] > m - b + (IF i = 1 THEN MinTicks ELSE 0)
                   => b + s[l[i]] <= m + g[l[i]]
             /\ b + s[l[i]] < Modulus
  <2>1. PICK x : x = s[l[i]]
    OBVIOUS
  <2>2. PICK y : y = f[l[i]]
    OBVIOUS
  <2>3. PICK z : z = g[l[i]]
    OBVIOUS
  <2>4. /\ x \in Nat /\ y \in Int /\ z \in Int
        /\ z = IF y >= -k THEN y - 1 ELSE y
    BY <1>1, <1>2, <2>1, <2>2, <2>3
  <2>5. /\ y <= 0 \/ n + y <= b + x
        /\ x > n - b + (IF i = 1 THEN MinTicks ELSE 0) => b + x <= n + y
        /\ b + x < Modulus
    BY <2>1, <2>2 DEF Ordered
  <2>6. /\ z <= 0 \/ m + z <= b + x
        /\ x > m - b + (IF i = 1 THEN MinTicks ELSE 0) => b + x <= m + z
    BY <1>3, <1>m, <2>4, <2>5, Ticks
  <2> QED
    BY <2>1, <2>3, <2>5, <2>6
<1>5. ASSUME NEW i \in 1 .. Len(l), NEW j \in 1 .. Len(l), i < j
      PROVE  g[l[i]] <= g[l[j]]
  <2>1. PICK x : x = f[l[i]]
    OBVIOUS
  <2>2. PICK y : y = f[l[j]]
    OBVIOUS
  <2>3. /\ x \in Int /\ y \in Int /\ x <= y
        /\ g[l[i]] = IF x >= -k THEN x - 1 ELSE x
        /\ g[l[j]] = IF y >= -k THEN y - 1 ELSE y
    BY <1>1, <1>2, <1>5, <2>1, <2>2 DEF Ordered
  <2> QED
    BY <2>3
<1>6. Ordered(l, b, s, m, g)
  BY <1>4, <1>5 DEF Ordered
<1> QED
  BY <1>m, <1>6

\* TimerStart, for a duration that ends before the wrap.
LEMMA StartedOrders ==
    ASSUME Early, NEW r, Good(r, now, pending), NEW t \in Timers, t \notin Listed(r),
           NEW f \in Times, InOrderOf(r, f), NEW p,
           MinTicks <= r.reload[t], now + r.reload[t] < Modulus
    PROVE  /\ [f EXCEPT ![t] = r.reload[t]] \in Times
           /\ InOrderOf(Started(t, r), [f EXCEPT ![t] = r.reload[t]])
           /\ Wired(r, now, p) => Wired(Started(t, r), now, p)
           /\ Started(t, r).reload = r.reload
<1> DEFINE s == IF r.list = <<>> THEN r.reload[t]
                ELSE (r.reload[t] + ElapsedSince(r)) % Modulus
           r1 == [r EXCEPT !.next = @ \ {t}, !.stamp[t] = s]
           r0 == [r1 EXCEPT !.ref = now]
           g == [f EXCEPT ![t] = r.reload[t]]
<1>1. Started(t, r) = IF r.list = <<>> THEN InsertNewHead(t, r0)
                      ELSE IF r1.stamp[t] < r.stamp[Head(r.list)]
                           THEN InsertNewHead(t, r1) ELSE InsertAfterHead(t, r1)
  BY DEF Started
<1>2. r \in Records /\ Linked(r.list, r.next) /\ r.ref <= now
  BY DEF Good
<1>3. PICK d : d = r.reload[t]
  OBVIOUS
<1>4. /\ d \in Nat /\ MinTicks <= d /\ now + d < Modulus /\ d \in Counter
      /\ now \in Nat /\ r.ref \in Nat
  <2>1. d \in Counter
    BY <1>2, <1>3 DEF Records
  <2> QED
    BY <1>2, <1>3, <2>1, CounterIsNat, RecordIs DEF Early
<1>5. /\ s \in Counter /\ s \in Nat
      /\ r.list = <<>> => s = d
      /\ r.list # <<>> => s = d + (now - r.ref)
  <2>1. CASE r.list = <<>>
    BY <1>3, <1>4, <2>1
  <2>2. CASE r.list # <<>>
    <3> DEFINE x == d + (now - r.ref)
    <3>1. ElapsedSince(r) = now - r.ref
      BY <1>2, Elapsed DEF Records
    <3>2. x \in Int /\ 0 <= x /\ x < Modulus
      BY <1>2, <1>4, Ticks
    <3>3. s = x % Modulus
      BY <1>3, <2>2, <3>1
    <3> HIDE DEF s
    <3>4. x \in Counter
      <4> HIDE DEF x
      <4> QED
        BY <3>2, Ticks DEF Counter
    <3>5. x % Modulus = x
      <4> HIDE DEF x
      <4> QED
        BY <3>2, Ticks, Remainder
    <3>6. s = x /\ x \in Nat
      BY <3>2, <3>3, <3>5
    <3> QED
      BY <2>2, <3>4, <3>6
  <2> QED
    BY <2>1, <2>2
<1> HIDE DEF s
<1>6. now \in Counter
  BY <1>4, Ticks DEF Early, Counter
<1>7. /\ r1 \in Records /\ r1.list = r.list /\ r1.next = r.next \ {t} /\ r1.ref = r.ref
      /\ r1.enabled = r.enabled /\ r1.compare = r.compare /\ r1.reload = r.reload
      /\ r1.stamp[t] = s
      /\ \A u \in Timers : u # t => r1.stamp[u] = r.stamp[u]
  BY <1>2, <1>5 DEF Records
<1> HIDE DEF r1
<1>8. /\ r0 \in Records /\ r0.list = r.list /\ r0.next = r.next \ {t} /\ r0.ref = now
      /\ r0.reload = r.reload /\ r0.stamp[t] = s
  BY <1>6, <1>7 DEF Records
<1> HIDE DEF r0
<1>9. Linked(r.list, r.next \ {t})
  BY <1>2 DEF Linked
<1>10. t \notin Listed(r0) /\ t \notin Listed(r1)
  BY <1>7, <1>8 DEF Listed
<1>11. g \in Times /\ g[t] = d /\ \A u \in Timers : u # t => g[u] = f[u]
  BY <1>3, <1>4 DEF Times
<1> HIDE DEF g
<1>12. \A j \in 1 .. Len(r.list) : r.list[j] \in Timers /\ r.list[j] # t
  BY <1>2, RecordIs DEF Listed
<1>13. InOrderOf(r1, g)
  <2>1. /\ r.list \in Seq(Timers) /\ Ordered(r.list, r.ref, r.stamp, now, f)
        /\ \A j \in 1 .. Len(r.list) : /\ r1.stamp[r.list[j]] = r.stamp[r.list[j]]
                                       /\ g[r.list[j]] = f[r.list[j]]
    BY <1>2, <1>7, <1>11, <1>12, RecordIs DEF InOrderOf
  <2>2. Ordered(r.list, r.ref, r1.stamp, now, g)
    BY <2>1, SameOrdered
  <2> QED
    BY <1>7, <2>2 DEF InOrderOf
<1>14. CASE r.list = <<>>
  <2>1. InOrderOf(r0, g)
    <3>1. r0.list = <<>>
      BY <1>8, <1>14
    <3> QED
      BY <3>1 DEF InOrderOf, Ordered
  <2>2. /\ now + g[t] = r0.ref + r0.stamp[t] /\ r0.ref + r0.stamp[t] < Modulus
        /\ r0.ref <= now
    BY <1>4, <1>5, <1>8, <1>11, <1>14
  <2>3. r0.list = <<>> /\ Linked(r0.list, r0.next)
    BY <1>8, <1>9, <1>14
  <2>4. /\ InOrderOf(InsertNewHead(t, r0), g) /\ Wired(InsertNewHead(t, r0), now, p)
        /\ InsertNewHead(t, r0).reload = r0.reload
    BY <1>8, <1>10, <1>11, <2>1, <2>2, <2>3, NewHeadOrders
  <2> QED
    BY <1>1, <1>8, <1>11, <1>14, <2>4 DEF g
<1>15. ASSUME r.list # <<>>
       PROVE  /\ now + g[t] = r1.ref + r1.stamp[t] /\ r1.ref + r1.stamp[t] < Modulus
              /\ r1.ref <= now /\ g[t] > 0
  BY <1>2, <1>4, <1>5, <1>7, <1>11, <1>15, Ticks
<1>16. CASE r.list # <<>> /\ r1.stamp[t] < r.stamp[Head(r.list)]
  <2>1. /\ 1 \in 1 .. Len(r.list) /\ Head(r.list) = r.list[1]
        /\ r.list[1] \in Timers /\ r.list[1] # t
    BY <1>2, <1>12, <1>16, RecordIs
  <2>2. PICK x : x = r1.stamp[r1.list[1]]
    OBVIOUS
  <2>3. PICK y : y = g[r1.list[1]]
    OBVIOUS
  <2>4. x \in Nat /\ y \in Int /\ s < x
    <3>1. x = r.stamp[r.list[1]] /\ y = g[r.list[1]]
      BY <1>7, <2>1, <2>2, <2>3
    <3> QED
      BY <1>2, <1>7, <1>11, <1>16, <2>1, <3>1, RecordIs, TimesAre
  <2>5. x > now - r.ref + MinTicks => r.ref + x <= now + y
    <3>1. r1.list = r.list /\ r1.ref = r.ref
      BY <1>7
    <3> QED
      BY <1>13, <2>1, <2>2, <2>3, <3>1 DEF InOrderOf, Ordered
  <2>6. d <= y /\ r.ref + x <= now + y
    BY <1>2, <1>4, <1>5, <1>16, <2>4, <2>5, Ticks
  <2>7. g[t] <= g[r1.list[1]] /\ r1.ref + r1.stamp[r1.list[1]] <= now + g[r1.list[1]]
    BY <1>7, <1>11, <2>2, <2>3, <2>6
  <2>8. Linked(r1.list, r1.next)
    BY <1>7, <1>9
  <2>9. /\ InOrderOf(InsertNewHead(t, r1), g) /\ Wired(InsertNewHead(t, r1), now, p)
        /\ InsertNewHead(t, r1).reload = r1.reload
    BY <1>7, <1>10, <1>11, <1>13, <1>15, <1>16, <2>7, <2>8, NewHeadOrders
  <2> QED
    BY <1>1, <1>7, <1>11, <1>16, <2>9 DEF g
<1>17. CASE r.list # <<>> /\ ~(r1.stamp[t] < r.stamp[Head(r.list)])
  <2>1. Head(r.list) \in Timers /\ Head(r.list) # t
    BY <1>2, <1>12, <1>17, RecordIs
  <2>2. r1.list # <<>> /\ ~(r1.stamp[t] < r1.stamp[Head(r1.list)])
    BY <1>7, <1>17, <2>1
  <2>3. /\ InOrderOf(InsertAfterHead(t, r1), g)
        /\ \E l : InsertAfterHead(t, r1) = [r1 EXCEPT !.list = l]
    BY <1>7, <1>10, <1>11, <1>13, <1>15, <1>17, <2>2, AfterHeadOrders
  <2>4. PICK l : InsertAfterHead(t, r1) = [r1 EXCEPT !.list = l]
    BY <2>3
  <2>5. PICK q : q = [r1 EXCEPT !.list = l]
    OBVIOUS
  <2>6. q.reload = r.reload /\ q.enabled = r.enabled /\ q.compare = r.compare
    BY <1>7, <2>5 DEF Records
  <2>7. Wired(r, now, p) => Wired(q, now, p)
    BY <2>6 DEF Wired
  <2> QED
    BY <1>1, <1>11, <1>17, <2>3, <2>4, <2>5, <2>6, <2>7 DEF g
<1> QED
  BY <1>14, <1>16, <1>17

\* TimerStop.
LEMMA StoppedOrders ==
    ASSUME Early, NEW r, Good(r, now, pending), NEW t \in Timers,
           NEW f \in Times, InOrderOf(r, f), NEW p
    PROVE  /\ InOrderOf(Stopped(t, r), f)
           /\ Wired(r, now, p) => Wired(Stopped(t, r), now, p)
           /\ Stopped(t, r).reload = r.reload
<1> DEFINE rest == Without(r.list, t)
           n == r.next \ {t}
           q == [r EXCEPT !.list = rest]
           r1 == [r EXCEPT !.list = rest, !.next = n]
<1>1. r \in Records /\ r.list \in Seq(Timers) /\ Linked(r.list, r.next) /\ r.ref <= now
  BY DEF Good, Records
<1>2. CASE t \notin Listed(r)
  BY <1>2 DEF Stopped
<1>3. CASE t \in Listed(r)
  <2>1. \E j \in 1 .. Len(r.list) : r.list[j] = t
    BY <1>1, <1>3 DEF Listed
  <2>2. Stopped(t, r) = IF t # Head(r.list) THEN q
                        ELSE IF t \notin r.next THEN q
                        ELSE IF rest = <<>> THEN StopAlarm(r1) ELSE SetTimeout(r1)
    BY <1>3 DEF Stopped
  <2>3. rest \in Seq(Timers) /\ Linked(rest, r.next)
    BY <1>1, <2>1, Removed
  <2>4. Ordered(rest, r.ref, r.stamp, now, f)
    BY <1>1, <2>1, RecordIs, WithoutOrdered DEF InOrderOf, Early
  <2> HIDE DEF rest
  <2>5. /\ q.list = rest /\ q.ref = r.ref /\ q.stamp = r.stamp /\ q.reload = r.reload
        /\ q.enabled = r.enabled /\ q.compare = r.compare
    BY <1>1 DEF Records
  <2>6. /\ r1 \in Records /\ r1.list = rest /\ r1.next = n /\ r1.ref = r.ref
        /\ r1.stamp = r.stamp /\ r1.reload = r.reload
    BY <1>1, <2>3 DEF Records
  <2> HIDE DEF q, r1
  <2>7. Linked(rest, n)
    BY <2>3 DEF Linked
  <2>8. /\ InOrderOf(q, f) /\ InOrderOf(r1, f)
        /\ Wired(r, now, p) => Wired(q, now, p)
    BY <2>4, <2>5, <2>6 DEF InOrderOf, Wired
  <2>9. CASE t # Head(r.list) \/ t \notin r.next
    BY <2>2, <2>5, <2>8, <2>9
  <2>10. CASE t = Head(r.list) /\ t \in r.next /\ rest = <<>>
    <3> DEFINE z == StopAlarm(r1)
    <3>1. z.list = rest /\ z.reload = r.reload /\ z.enabled = {}
      BY <2>6 DEF StopAlarm, Records
    <3> HIDE DEF z
    <3>2. Stopped(t, r) = z
      BY <2>2, <2>10 DEF z
    <3>3. z.list = <<>>
      BY <2>10, <3>1
    <3> QED
      BY <3>1, <3>2, <3>3 DEF InOrderOf, Ordered, Wired
  <2>11. CASE t = Head(r.list) /\ t \in r.next /\ rest # <<>>
    <3>1. Stopped(t, r) = SetTimeout(r1)
      BY <2>2, <2>11
    <3>2. r1.list # <<>> /\ Linked(r1.list, r1.next) /\ r1.ref <= now
      BY <1>1, <2>6, <2>7, <2>11
    <3>3. /\ InOrderOf(SetTimeout(r1), f) /\ Wired(SetTimeout(r1), now, p)
          /\ SetTimeout(r1).reload = r1.reload
      BY <2>6, <2>8, <3>2, SetTimeoutOrders
    <3> QED
      BY <2>6, <3>1, <3>3
  <2> QED
    BY <2>9, <2>10, <2>11
<1> QED
  BY <1>2, <1>3

----------------------------------------------------------------------------
(* The invariant of the order, on top of IInv.                             *)

\* The list is in the order of the times that are left, and no timer's duration
\* reaches over the wrap.
Kept == /\ left \in Times /\ waited \in Nat
        /\ \A t \in Timers : reload[t] = 0 \/ (/\ MinTicks <= reload[t]
                                               /\ scenario.end + reload[t] < Modulus)
        /\ InOrderOf(State, left)

\* When interrupts are taken at once, only C is ever pending, at its very tick.
Promptly == scenario.delay = 0 =>
               /\ pending # {} => /\ callback = None /\ pending = {"C"}
                                  /\ compare["C"] = now
               /\ Wired(State, now, pending)

OInv == IInv /\ Kept /\ Promptly

LEMMA StateIs ==
    ASSUME IInv
    PROVE  /\ State \in Records /\ Linked(list, next) /\ ref <= now
           /\ State.list = list /\ State.next = next /\ State.ref = ref
           /\ State.stamp = stamp /\ State.reload = reload
           /\ State.compare = compare /\ State.enabled = enabled
           /\ list \in Seq(Timers) /\ reload \in [Timers -> Counter]
           /\ ref \in Counter /\ stamp \in [Timers -> Counter]
<1>1. State \in Records /\ Linked(State.list, State.next) /\ State.ref <= now
  BY DEF IInv, Good
<1>2. /\ State.list = list /\ State.next = next /\ State.ref = ref
      /\ State.stamp = stamp /\ State.reload = reload
      /\ State.compare = compare /\ State.enabled = enabled
  BY DEF State
<1>3. /\ State.list \in Seq(Timers) /\ State.reload \in [Timers -> Counter]
      /\ State.ref \in Counter /\ State.stamp \in [Timers -> Counter]
  BY <1>1 DEF Records
<1> QED
  BY <1>1, <1>2, <1>3

LEMMA InitOrders == ASSUME Unwrapped, Init PROVE OInv
<1>1. IInv
  BY InitInv
<1>2. left \in Times /\ waited \in Nat /\ \A t \in Timers : reload[t] = 0
  BY DEF Init, Times
<1>3. State.list = <<>> /\ pending = {}
  BY DEF Init, State
<1>4. InOrderOf(State, left)
  BY <1>3 DEF InOrderOf, Ordered
<1>5. Wired(State, now, pending)
  BY DEF Wired, State, Init
<1> QED
  BY <1>1, <1>2, <1>3, <1>4, <1>5 DEF OInv, Kept, Promptly

\* A call to a record that is in order.
LEMMA CallOrders ==
    ASSUME OInv, IInv', NEW r, Becomes(r), InOrderOf(r, left'),
           Wired(State, now, pending) => Wired(r, now, pending), left' \in Times,
           \A t \in Timers : r.reload[t] = 0 \/ (/\ MinTicks <= r.reload[t]
                                                 /\ scenario.end + r.reload[t] < Modulus),
           UNCHANGED <<now, pending, callback, waited, scenario>>,
           scenario.delay = 0 => pending = {}
    PROVE  OInv'
<1>1. /\ now' = now /\ pending' = pending /\ callback' = callback
      /\ waited' = waited /\ scenario' = scenario
  OBVIOUS
<1>2. /\ list' = r.list /\ ref' = r.ref /\ stamp' = r.stamp /\ reload' = r.reload
      /\ compare' = r.compare /\ enabled' = r.enabled
  BY DEF Becomes
<1>3. InOrderOf(State, left)'
  BY <1>1, <1>2 DEF InOrderOf, Ordered, State
<1>4. Kept'
  BY <1>1, <1>2, <1>3 DEF OInv, Kept
<1>5. Wired(r, now, pending) => Wired(State, now, pending)'
  BY <1>1, <1>2 DEF Wired, State
<1>6. Promptly'
  BY <1>1, <1>2, <1>5 DEF OInv, Promptly
<1> QED
  BY <1>4, <1>6 DEF OInv

\* When interrupts are taken at once nothing is called while one is pending.
LEMMA CallsWait == ASSUME OInv, CanCall, scenario.delay = 0 PROVE pending = {}
<1>1. pending # {} => callback = None
  BY DEF OInv, Promptly
<1>2. ~(waited < 0)
  BY DEF OInv, Kept
<1> QED
  BY <1>1, <1>2 DEF CanCall

LEMMA StartOrders ==
    ASSUME Unwrapped, OInv, NEW t \in Timers, TimerStart(t) PROVE OInv'
<1>1. IInv' /\ IInv
  BY StartStep DEF OInv
<1>2. PICK r : r = Started(t, State)
  OBVIOUS
<1>3. /\ Becomes(r) /\ left' = [left EXCEPT ![t] = reload[t]]
      /\ UNCHANGED <<now, pending, callback, waited, scenario>>
      /\ CanCall /\ t \notin Listed(State) /\ reload[t] > 0
  BY <1>2 DEF TimerStart
<1>4. /\ Early /\ Good(State, now, pending) /\ State.reload = reload
      /\ now <= scenario.end /\ now \in Nat /\ scenario.end \in Nat
  BY <1>1, StateIs, InvIsEarly DEF IInv
<1>5. reload[t] \in Nat
  BY <1>1, StateIs, CounterIsNat
<1>6. MinTicks <= reload[t] /\ scenario.end + reload[t] < Modulus
  BY <1>3, <1>5 DEF OInv, Kept
<1>7. now + reload[t] < Modulus
  BY <1>4, <1>5, <1>6, Ticks
<1>8. left \in Times /\ InOrderOf(State, left)
  BY DEF OInv, Kept
<1>9. /\ left' \in Times /\ InOrderOf(r, left') /\ r.reload = reload
      /\ Wired(State, now, pending) => Wired(r, now, pending)
  <2>1. MinTicks <= State.reload[t] /\ now + State.reload[t] < Modulus
    BY <1>4, <1>6, <1>7
  <2> QED
    BY <1>2, <1>3, <1>4, <1>8, <2>1, StartedOrders
<1>10. scenario.delay = 0 => pending = {}
  BY <1>3, CallsWait
<1>11. \A u \in Timers : r.reload[u] = 0 \/ (/\ MinTicks <= r.reload[u]
                                             /\ scenario.end + r.reload[u] < Modulus)
  BY <1>9 DEF OInv, Kept
<1> QED
  BY <1>1, <1>3, <1>9, <1>10, <1>11, CallOrders

LEMMA StopOrders ==
    ASSUME Unwrapped, OInv, NEW t \in Timers, TimerStop(t) PROVE OInv'
<1>1. IInv' /\ IInv
  BY StopStep DEF OInv
<1>2. PICK r : r = Stopped(t, State)
  OBVIOUS
<1>3. /\ Becomes(r) /\ CanCall
      /\ UNCHANGED <<now, pending, callback, waited, scenario, left>>
  BY <1>2 DEF TimerStop
<1>4. /\ Early /\ Good(State, now, pending) /\ State.reload = reload
      /\ left \in Times /\ InOrderOf(State, left)
  BY <1>1, StateIs, InvIsEarly DEF IInv, OInv, Kept
<1>5. /\ InOrderOf(r, left) /\ r.reload = reload
      /\ Wired(State, now, pending) => Wired(r, now, pending)
  BY <1>2, <1>4, StoppedOrders
<1>6. \A u \in Timers : r.reload[u] = 0 \/ (/\ MinTicks <= r.reload[u]
                                            /\ scenario.end + r.reload[u] < Modulus)
  BY <1>5 DEF OInv, Kept
<1>7. left' = left /\ (scenario.delay = 0 => pending = {})
  BY <1>3, CallsWait
<1> QED
  BY <1>1, <1>3, <1>4, <1>5, <1>6, <1>7, CallOrders

LEMMA SetValueOrders ==
    ASSUME Unwrapped, Reachable, OInv, NEW t \in Timers, TimerSetValue(t) PROVE OInv'
<1>1. IInv' /\ IInv
  BY SetValueStep DEF OInv
<1>2. PICK q : q = Stopped(t, State)
  OBVIOUS
<1>3. CanCall /\ UNCHANGED <<now, pending, callback, waited, scenario, left>>
  BY DEF TimerSetValue
<1>4. /\ Early /\ Good(State, now, pending) /\ State.reload = reload
      /\ left \in Times /\ InOrderOf(State, left)
      /\ scenario.end \in Nat /\ scenario.end + MinTicks < Modulus
      /\ scenario \in Scenarios
  BY <1>1, StateIs, InvIsEarly DEF IInv, OInv, Kept
<1>5. /\ InOrderOf(q, left) /\ q.reload = reload
      /\ Wired(State, now, pending) => Wired(q, now, pending)
      /\ Good(q, now, pending) /\ t \notin Listed(q)
  BY <1>2, <1>4, StoppedOrders, StoppedGood
<1>6. PICK d \in scenario.durations :
         LET ticks == IF d < MinTicks THEN MinTicks ELSE d
         IN  Becomes([q EXCEPT !.stamp[t] = ticks, !.reload[t] = ticks])
  BY <1>2 DEF TimerSetValue
<1>7. PICK ticks : /\ ticks = IF d < MinTicks THEN MinTicks ELSE d
                   /\ Becomes([q EXCEPT !.stamp[t] = ticks, !.reload[t] = ticks])
  BY <1>6
<1>8. d \in Nat /\ scenario.end + d < Modulus
  BY <1>4, Ticks, TimerAssumption DEF Reachable
<1>9. MinTicks <= ticks /\ scenario.end + ticks < Modulus
  BY <1>4, <1>7, <1>8, Ticks
<1> DEFINE r == [q EXCEPT !.stamp[t] = ticks, !.reload[t] = ticks]
<1>10. q \in Records
  BY <1>5 DEF Good
<1>11. /\ r.list = q.list /\ r.ref = q.ref
       /\ r.enabled = q.enabled /\ r.compare = q.compare
       /\ \A u \in Timers : r.reload[u] = IF u = t THEN ticks ELSE reload[u]
       /\ \A u \in Timers : u # t => r.stamp[u] = q.stamp[u]
  BY <1>5, <1>10 DEF Records
<1>12. Becomes(r)
  BY <1>7
<1> HIDE DEF r
<1>13. InOrderOf(r, left)
  <2>1. q.list \in Seq(Timers) /\ \A j \in 1 .. Len(q.list) : q.list[j] \in Timers /\ q.list[j] # t
    BY <1>5, <1>10, RecordIs DEF Listed
  <2>2. \A j \in 1 .. Len(q.list) : /\ r.stamp[q.list[j]] = q.stamp[q.list[j]]
                                    /\ left[q.list[j]] = left[q.list[j]]
    BY <1>11, <2>1
  <2>3. Ordered(q.list, q.ref, r.stamp, now, left)
    BY <1>5, <2>1, <2>2, SameOrdered DEF InOrderOf
  <2> QED
    BY <1>11, <2>3 DEF InOrderOf
<1>14. \A u \in Timers : r.reload[u] = 0 \/ (/\ MinTicks <= r.reload[u]
                                             /\ scenario.end + r.reload[u] < Modulus)
  BY <1>9, <1>11 DEF OInv, Kept
<1>15. Wired(State, now, pending) => Wired(r, now, pending)
  BY <1>5, <1>11 DEF Wired
<1>16. left' = left /\ (scenario.delay = 0 => pending = {})
  BY <1>3, CallsWait
<1> QED
  BY <1>1, <1>3, <1>4, <1>12, <1>13, <1>14, <1>15, <1>16, CallOrders

\* A record whose list, reference, times and durations are State's in the next state.
LEMMA BecomesOrdered ==
    ASSUME NEW r, Becomes(r), now' = now, left' = left, InOrderOf(r, left)
    PROVE  InOrderOf(State, left)'
<1>1. list' = r.list /\ ref' = r.ref /\ stamp' = r.stamp
  BY DEF Becomes
<1> QED
  BY <1>1 DEF InOrderOf, Ordered, State

\* TimerIrqHandler counts the times from now on.
LEMMA ShiftedOrders ==
    ASSUME Early, NEW l \in Seq(Timers), l # <<>>, NEW n, Linked(l, n),
           NEW b \in Counter, b <= now, NEW s \in [Timers -> Counter],
           NEW f \in Times, Ordered(l, b, s, now, f), NEW z \in [Timers -> Counter],
           \A j \in 2 .. Len(l) : z[l[j]] = IF s[l[j]] > now - b
                                            THEN s[l[j]] - (now - b) ELSE 0
    PROVE  Ordered(Tail(l), now, z, now, f)
<1>1. /\ Tail(l) \in Seq(Timers) /\ Len(Tail(l)) = Len(l) - 1 /\ Len(l) \in Nat \ {0}
      /\ \A i \in 1 .. Len(Tail(l)) : Tail(l)[i] = l[i + 1]
  BY HeadTailProperties
<1>2. \A j \in 1 .. Len(l) : l[j] \in Timers /\ s[l[j]] \in Nat /\ f[l[j]] \in Int
  BY CounterIsNat, TimesAre
<1>3. b \in Nat /\ now \in Nat /\ now < Modulus
  BY CounterIsNat, Ticks DEF Early
<1>4. ASSUME NEW i \in 1 .. Len(Tail(l))
      PROVE  /\ f[Tail(l)[i]] <= 0 \/ now + f[Tail(l)[i]] <= now + z[Tail(l)[i]]
             /\ z[Tail(l)[i]] > now - now + (IF i = 1 THEN MinTicks ELSE 0)
                   => now + z[Tail(l)[i]] <= now + f[Tail(l)[i]]
             /\ now + z[Tail(l)[i]] < Modulus
  <2>1. PICK j : j = i + 1
    OBVIOUS
  <2>2. j \in 1 .. Len(l) /\ j \in 2 .. Len(l) /\ Tail(l)[i] = l[j] /\ j # 1
    BY <1>1, <2>1
  <2>3. PICK x : x = s[l[j]]
    OBVIOUS
  <2>4. PICK y : y = f[l[j]]
    OBVIOUS
  <2>5. PICK w : w = z[l[j]]
    OBVIOUS
  <2>6. x \in Nat /\ y \in Int /\ w = IF x > now - b THEN x - (now - b) ELSE 0
    BY <1>2, <2>2, <2>3, <2>4, <2>5
  <2>7. /\ y <= 0 \/ now + y <= b + x
        /\ x > now - b + 0 => b + x <= now + y
        /\ b + x < Modulus
    BY <2>2, <2>3, <2>4 DEF Ordered
  <2>8. /\ y <= 0 \/ now + y <= now + w
        /\ w > now - now + (IF i = 1 THEN MinTicks ELSE 0) => now + w <= now + y
        /\ now + w < Modulus
    BY <1>3, <2>6, <2>7, Ticks
  <2> QED
    BY <2>2, <2>4, <2>5, <2>8
<1>5. ASSUME NEW i \in 1 .. Len(Tail(l)), NEW j \in 1 .. Len(Tail(l)), i < j
      PROVE  f[Tail(l)[i]] <= f[Tail(l)[j]]
  <2>1. /\ i + 1 \in 1 .. Len(l) /\ j + 1 \in 1 .. Len(l) /\ i + 1 < j + 1
        /\ Tail(l)[i] = l[i + 1] /\ Tail(l)[j] = l[j + 1]
    BY <1>1, <1>5
  <2> QED
    BY <2>1 DEF Ordered
<1> QED
  BY <1>4, <1>5 DEF Ordered

LEMMA IsrOrders ==
    ASSUME Unwrapped, OInv, NEW i \in {"C", "D"}, Isr(i) PROVE OInv'
<1>1. IInv' /\ IInv
  BY IsrStep DEF OInv
<1>2. PICK q : q = IF i = "C" THEN [State EXCEPT !.enabled = @ \ {"D"}] ELSE State
  OBVIOUS
<1>3. /\ callback = None /\ pending' = pending \ {i} /\ i \in pending /\ waited' = 0
      /\ UNCHANGED <<now, scenario, left>>
      /\ IF Due(q) THEN IrqHandler(q) ELSE Becomes(q) /\ UNCHANGED callback
  BY <1>2 DEF Isr
<1>4. /\ Early /\ State \in Records /\ Linked(list, next) /\ ref <= now
      /\ left \in Times /\ Ordered(list, ref, stamp, now, left)
      /\ list \in Seq(Timers) /\ ref \in Counter /\ stamp \in [Timers -> Counter]
  BY <1>1, StateIs, InvIsEarly DEF OInv, Kept, InOrderOf
<1>5. /\ q \in Records /\ q.list = list /\ q.next = next /\ q.ref = ref
      /\ q.stamp = stamp /\ q.reload = reload
      /\ i = "C" => "D" \notin q.enabled
  BY <1>1, <1>2, StateIs DEF Records
<1>6. InOrderOf(State, left)' /\ reload' = reload /\ enabled' = q.enabled
  <2>1. CASE ~Due(q)
    <3>1. Becomes(q)
      BY <1>3, <2>1
    <3>2. InOrderOf(q, left)
      BY <1>4, <1>5 DEF InOrderOf
    <3> QED
      BY <1>3, <1>5, <3>1, <3>2, BecomesOrdered DEF Becomes
  <2>2. CASE Due(q) /\ q.list = <<>>
    <3>1. PICK r : r = [q EXCEPT !.ref = now, !.running = FALSE]
      OBVIOUS
    <3>2. r.list = <<>> /\ r.reload = reload /\ r.enabled = q.enabled
      BY <1>5, <2>2, <3>1 DEF Records
    <3>3. Becomes(r)
      BY <1>3, <2>2, <3>1 DEF IrqHandler
    <3>4. InOrderOf(r, left)
      BY <3>2 DEF InOrderOf, Ordered
    <3> QED
      BY <1>3, <3>2, <3>3, <3>4, BecomesOrdered DEF Becomes
  <2>3. CASE Due(q) /\ q.list # <<>>
    <3> DEFINE delta == ElapsedSince(q)
               later == Listed(q) \ {Head(q.list)}
               s == [t \in Timers |-> IF t \notin later THEN q.stamp[t]
                                      ELSE IF q.stamp[t] > delta
                                           THEN q.stamp[t] - delta ELSE 0]
               r == [q EXCEPT !.ref = now, !.running = FALSE, !.stamp = s]
    <3>1. Run(r)
      BY <1>3, <1>5, <2>3 DEF IrqHandler, Records
    <3>2. delta = now - ref
      BY <1>4, <1>5, Elapsed
    <3>3. s \in [Timers -> Counter]
      <4>1. delta \in Nat /\ Modulus \in Nat
        BY <1>4, <3>2, CounterIsNat, Ticks DEF Early
      <4>2. \A t \in Timers : q.stamp[t] \in Nat /\ q.stamp[t] < Modulus
        BY <1>4, <1>5, CounterIsNat
      <4> HIDE DEF delta, later
      <4>3. \A t \in Timers : q.stamp[t] > delta => q.stamp[t] - delta \in Counter
        BY <4>1, <4>2, Ticks DEF Counter
      <4>4. 0 \in Counter
        BY Ticks DEF Counter
      <4> QED
        BY <1>4, <1>5, <4>2, <4>3, <4>4
    <3>4. \A j \in 2 .. Len(list) : s[list[j]] = IF stamp[list[j]] > now - ref
                                                THEN stamp[list[j]] - (now - ref) ELSE 0
      <4> SUFFICES ASSUME NEW j \in 2 .. Len(list)
                   PROVE  s[list[j]] = IF stamp[list[j]] > now - ref
                                       THEN stamp[list[j]] - (now - ref) ELSE 0
        OBVIOUS
      <4>1. /\ Len(list) \in Nat \ {0} /\ Head(list) = list[1] /\ list[j] \in Timers
            /\ j \in 1 .. Len(list) /\ j # 1 /\ 1 \in 1 .. Len(list)
        BY <1>4, <1>5, <2>3
      <4>2. list[j] # Head(list)
        BY <1>4, <4>1 DEF Linked
      <4>3. list[j] \in later
        BY <1>4, <1>5, <4>1, <4>2 DEF Listed
      <4> HIDE DEF later, delta
      <4> QED
        BY <1>5, <3>2, <4>1, <4>3
    <3> HIDE DEF s
    <3>5. /\ r.list = list /\ r.ref = now /\ r.stamp = s /\ r.reload = reload
          /\ r.enabled = q.enabled
      BY <1>5 DEF Records
    <3>6. r \in Records
      BY <1>1, <1>5, <3>3, InvIsEarly DEF Records
    <3> HIDE DEF r
    <3>7. Ordered(Tail(list), now, s, now, left)
      BY <1>4, <1>5, <2>3, <3>3, <3>4, ShiftedOrders
    <3>8. PICK z : z = [r EXCEPT !.list = Tail(@)]
      OBVIOUS
    <3>9. /\ z.list = Tail(list) /\ z.ref = now /\ z.stamp = s /\ z.reload = reload
          /\ z.enabled = q.enabled
      BY <3>5, <3>6, <3>8 DEF Records
    <3>10. Becomes(z)
      BY <3>1, <3>8 DEF Run
    <3>11. InOrderOf(z, left)
      BY <3>7, <3>9 DEF InOrderOf
    <3> QED
      BY <1>3, <3>9, <3>10, <3>11, BecomesOrdered DEF Becomes
  <2> QED
    BY <2>1, <2>2, <2>3
<1>7. Kept'
  BY <1>3, <1>6 DEF OInv, Kept
<1>8. Promptly'
  <2> SUFFICES ASSUME scenario.delay = 0
               PROVE  pending' = {} /\ Wired(State, now, pending)'
    BY <1>3 DEF Promptly
  <2>1. pending = {"C"} /\ i = "C"
    BY <1>3 DEF OInv, Promptly
  <2>2. "D" \notin enabled'
    BY <1>5, <1>6, <2>1
  <2> QED
    BY <1>3, <2>1, <2>2 DEF Wired, State
<1> QED
  BY <1>1, <1>7, <1>8 DEF OInv

LEMMA ReturnOrders ==
    ASSUME Unwrapped, OInv, CallbackReturns PROVE OInv'
<1>1. IInv' /\ IInv
  BY ReturnStep DEF OInv
<1>2. /\ callback # None /\ waited' = 0 /\ UNCHANGED <<now, pending, scenario, left>>
  BY DEF CallbackReturns
<1>3. /\ Early /\ State \in Records /\ Linked(list, next) /\ ref <= now
      /\ left \in Times /\ InOrderOf(State, left)
  BY <1>1, StateIs, InvIsEarly DEF OInv, Kept
<1>4. /\ InOrderOf(State, left)' /\ reload' = reload
      /\ Wired(State, now, pending) => Wired(State, now, pending)'
  <2>1. CASE Expired(State)
    <3>1. PICK z : z = [State EXCEPT !.list = Tail(@)]
      OBVIOUS
    <3>2. Becomes(z) /\ list # <<>>
      BY <1>1, <2>1, <3>1, StateIs DEF CallbackReturns, Run, Expired
    <3>3. /\ z.list = Tail(list) /\ z.ref = ref /\ z.stamp = stamp /\ z.reload = reload
          /\ z.enabled = enabled /\ z.compare = compare
      BY <1>1, <3>1, StateIs DEF Records
    <3>4. Ordered(list, ref, stamp, now, left)
      BY <1>1, <1>3, StateIs DEF InOrderOf
    <3>5. Ordered(Tail(list), ref, stamp, now, left)
      BY <1>1, <1>3, <3>2, <3>4, StateIs, TailOrdered DEF Early
    <3>6. InOrderOf(z, left)
      BY <3>3, <3>5 DEF InOrderOf
    <3>7. InOrderOf(State, left)'
      BY <1>2, <3>2, <3>6, BecomesOrdered
    <3>8. reload' = reload /\ enabled' = enabled /\ compare' = compare
      BY <3>2, <3>3 DEF Becomes
    <3> QED
      BY <1>2, <3>7, <3>8 DEF Wired, State
  <2>2. CASE ~Expired(State)
    <3>1. PICK r : r = IF list # <<>> /\ Head(list) \notin next THEN SetTimeout(State)
                       ELSE State
      OBVIOUS
    <3>2. Becomes(r)
      BY <2>2, <3>1 DEF CallbackReturns
    <3>3. /\ InOrderOf(r, left) /\ r.reload = reload
          /\ Wired(State, now, pending) => Wired(r, now, pending)
      <4>1. CASE list # <<>> /\ Head(list) \notin next
        <5>1. State.list # <<>> /\ Linked(State.list, State.next) /\ State.ref <= now
          BY <1>1, <4>1, StateIs
        <5>2. /\ InOrderOf(SetTimeout(State), left) /\ Wired(SetTimeout(State), now, pending)
              /\ SetTimeout(State).reload = State.reload
          BY <1>3, <5>1, SetTimeoutOrders
        <5> QED
          BY <1>1, <3>1, <4>1, <5>2, StateIs
      <4>2. CASE ~(list # <<>> /\ Head(list) \notin next)
        BY <1>1, <1>3, <3>1, <4>2, StateIs
      <4> QED
        BY <4>1, <4>2
    <3>4. InOrderOf(State, left)'
      BY <1>2, <3>2, <3>3, BecomesOrdered
    <3>5. /\ reload' = r.reload /\ enabled' = r.enabled /\ compare' = r.compare
      BY <3>2 DEF Becomes
    <3>6. Wired(r, now, pending) => Wired(State, now, pending)'
      BY <1>2, <3>5 DEF Wired, State
    <3> QED
      BY <3>3, <3>4, <3>5, <3>6
  <2> QED
    BY <2>1, <2>2
<1>5. Kept'
  BY <1>2, <1>4 DEF OInv, Kept
<1>6. Promptly'
  <2>1. scenario.delay = 0 => pending = {} /\ Wired(State, now, pending)
    BY <1>2 DEF OInv, Promptly
  <2> QED
    BY <1>2, <1>4, <2>1 DEF Promptly
<1> QED
  BY <1>1, <1>5, <1>6 DEF OInv

LEMMA SlackIsNat == ASSUME IInv PROVE Slack \in Nat
<1>1. /\ IsFiniteSet(scenario.timers) /\ scenario.timers # {} /\ scenario.delay \in Nat
  BY TimerAssumption DEF IInv
<1>2. PICK c : c = Cardinality(scenario.timers)
  OBVIOUS
<1>3. c \in Nat /\ c # 0
  BY <1>1, <1>2, FS_CardinalityType, FS_EmptySet
<1>4. PICK k : k = c - 1
  OBVIOUS
<1>5. PICK m : m = MinTicks + scenario.delay
  OBVIOUS
<1>6. k \in Nat /\ m \in Nat
  BY <1>1, <1>3, <1>4, <1>5, Ticks
<1>7. k * m \in Nat
  BY <1>6
<1>8. Slack = k * m + scenario.delay
  BY <1>2, <1>4, <1>5 DEF Slack
<1> QED
  BY <1>1, <1>7, <1>8

LEMMA TickOrdersInv ==
    ASSUME Unwrapped, OInv, Tick PROVE OInv'
<1>1. IInv' /\ IInv
  BY TickStep DEF OInv
<1>2. /\ now \in Nat /\ now < scenario.end /\ scenario.end \in Nat
      /\ scenario.end < Modulus
  <2>1. now # scenario.end
    BY DEF Tick
  <2> QED
    BY <1>1, <2>1, InvIsEarly, Ticks DEF IInv
<1>3. now' = now + 1
  <2> DEFINE x == now + 1
  <2>1. x \in Int /\ 0 <= x /\ x < Modulus
    BY <1>2, Ticks
  <2>2. now' = x % Modulus
    BY DEF Tick
  <2> HIDE DEF x
  <2>3. now' = x
    BY <2>1, <2>2, Remainder, Ticks
  <2> QED
    BY <2>3 DEF x
<1>4. /\ State' = State /\ callback' = callback /\ scenario' = scenario
      /\ list' = list /\ ref' = ref /\ stamp' = stamp /\ reload' = reload
      /\ enabled' = enabled /\ compare' = compare
  BY DEF Tick, rtc, timers, State
<1>5. Slack \in Nat /\ list \in Seq(Timers) /\ ref \in Counter
      /\ stamp \in [Timers -> Counter] /\ left \in Times /\ waited \in Nat
      /\ Ordered(list, ref, stamp, now, left)
  BY <1>1, SlackIsNat, StateIs DEF OInv, Kept, InOrderOf
<1>6. /\ left' \in Times
      /\ \A j \in 1 .. Len(list) : left'[list[j]] = IF left[list[j]] >= -Slack
                                                    THEN left[list[j]] - 1 ELSE left[list[j]]
  <2>1. left' = [t \in Timers |-> IF t \in Listed(State) /\ left[t] >= -Slack
                                  THEN left[t] - 1 ELSE left[t]]
    BY DEF Tick
  <2>2. \A t \in Timers : left[t] \in Int
    BY <1>5, TimesAre
  <2>3. left' \in Times
    BY <2>1, <2>2 DEF Times
  <2>4. \A j \in 1 .. Len(list) : list[j] \in Timers /\ list[j] \in Listed(State)
    BY <1>5 DEF Listed, State
  <2> QED
    BY <2>1, <2>3, <2>4
<1>7. Ordered(list, ref, stamp, now', left')
  <2>1. PICK f : f = left'
    OBVIOUS
  <2>2. PICK k : k = Slack
    OBVIOUS
  <2>3. Ordered(list, ref, stamp, now + 1, f)
    BY <1>2, <1>5, <1>6, <2>1, <2>2, TickOrders
  <2> QED
    BY <1>3, <2>1, <2>3
<1>8. InOrderOf(State, left)'
  BY <1>4, <1>7 DEF InOrderOf, State, Ordered
<1>9. Kept'
  <2>1. waited' \in Nat
    BY <1>5 DEF Tick
  <2> QED
    BY <1>4, <1>6, <1>8, <2>1 DEF OInv, Kept
<1>10. ASSUME scenario.delay = 0
       PROVE  /\ pending' # {} => /\ callback' = None /\ pending' = {"C"}
                                  /\ compare'["C"] = now'
              /\ Wired(State, now', pending')
  <2>1. callback = None /\ pending = {}
    BY <1>5, <1>10 DEF Tick
  <2>2. pending' = {i \in enabled : compare[i] = now'} /\ enabled \subseteq {"C", "D"}
        /\ State.enabled = enabled /\ State.compare = compare
        /\ compare \in [{"C", "D"} -> Counter]
    <3>1. State.enabled = enabled /\ State.compare = compare /\ State \in Records
      BY <1>1, StateIs
    <3> QED
      BY <2>1, <3>1 DEF Tick, Records
  <2>3. Wired(State, now, {})
    BY <1>10, <2>1 DEF OInv, Promptly
  <2>4. CASE "D" \notin enabled
    BY <1>4, <2>1, <2>2, <2>4 DEF Wired
  <2>5. CASE "D" \in enabled
    <3>1. PICK c : c = compare["C"]
      OBVIOUS
    <3>2. PICK d : d = compare["D"]
      OBVIOUS
    <3>3. c \in Nat /\ d \in Nat /\ c < Modulus /\ "C" \in enabled
          /\ \/ c = 0 /\ d = 0
             \/ d = (c + 1) % Modulus /\ now <= c /\ now # c
      BY <2>2, <2>3, <2>5, <3>1, <3>2, CounterIsNat DEF Wired
    <3>4. c = 0 /\ d = 0 => now' # c /\ now' # d
      BY <1>2, <1>3
    <3>5. ASSUME d = (c + 1) % Modulus, now <= c, now # c
          PROVE  now' <= c /\ now' # d
      <4>1. PICK x : x = c + 1
        OBVIOUS
      <4>2. x \in Int /\ 0 <= x /\ x <= Modulus /\ d = x % Modulus
        BY <3>3, <3>5, <4>1, Ticks
      <4>3. x < Modulus => d = x
        BY <4>2, Remainder, Ticks
      <4>4. x = Modulus => d = 0
        <5>1. x = Modulus => d = x - Modulus
          BY <4>2, Remainder, Ticks
        <5> QED
          BY <4>2, <5>1, Ticks
      <4> QED
        BY <1>2, <1>3, <3>3, <3>5, <4>1, <4>2, <4>3, <4>4, Ticks
    <3>6. now' # d /\ (now' = c => "C" \in pending') /\ (now' # c => pending' = {})
      <4>1. now' # d
        BY <3>3, <3>4, <3>5
      <4>2. pending' = {i \in enabled : compare[i] = now'}
        BY <2>2
      <4> QED
        BY <2>2, <3>1, <3>2, <3>3, <4>1, <4>2
    <3>7. pending' # {} => pending' = {"C"} /\ compare["C"] = now'
      BY <2>2, <3>1, <3>2, <3>6
    <3>8. Wired(State, now', pending')
      <4>1. "C" \in State.enabled /\ State.compare["C"] = c /\ State.compare["D"] = d
        BY <2>2, <3>1, <3>2, <3>3
      <4> QED
        BY <3>3, <3>4, <3>5, <3>6, <4>1 DEF Wired
    <3> QED
      BY <1>4, <2>1, <3>7, <3>8
  <2> QED
    BY <2>4, <2>5
<1>11. Promptly'
  <2>1. Wired(State, now', pending') => Wired(State, now, pending)'
    BY <1>4 DEF Wired
  <2> QED
    BY <1>4, <1>10, <2>1 DEF Promptly
<1> QED
  BY <1>1, <1>9, <1>11 DEF OInv

LEMMA NextOrders == ASSUME Unwrapped, Reachable, OInv, [Next]_vars PROVE OInv'
<1>1. scenario.timers \subseteq Timers
  BY TimerAssumption DEF OInv, IInv
<1>2. ASSUME NEW t \in scenario.timers, TimerStart(t) PROVE OInv'
  BY <1>1, <1>2, StartOrders
<1>3. ASSUME NEW t \in scenario.timers, TimerStop(t) PROVE OInv'
  BY <1>1, <1>3, StopOrders
<1>4. ASSUME NEW t \in scenario.timers, TimerSetValue(t) PROVE OInv'
  BY <1>1, <1>4, SetValueOrders
<1>5. ASSUME NEW i \in {"C", "D"}, Isr(i) PROVE OInv'
  BY <1>5, IsrOrders
<1>6. CASE CallbackReturns
  BY <1>6, ReturnOrders
<1>7. CASE Tick
  BY <1>7, TickOrdersInv
<1>8. CASE UNCHANGED vars
  <2>1. IInv'
    BY <1>8, NextInv DEF OInv
  <2>2. /\ now' = now /\ pending' = pending /\ callback' = callback /\ waited' = waited
        /\ scenario' = scenario /\ left' = left /\ compare' = compare /\ reload' = reload
        /\ State' = State /\ list' = list /\ ref' = ref /\ stamp' = stamp
    BY <1>8 DEF vars, rtc, timers, State
  <2>3. InOrderOf(State, left)'
    BY <2>2 DEF OInv, Kept, InOrderOf, Ordered
  <2>4. Kept'
    BY <2>2, <2>3 DEF OInv, Kept
  <2>5. Promptly'
    BY <2>2 DEF OInv, Promptly, Wired
  <2> QED
    BY <2>1, <2>4, <2>5 DEF OInv
<1> QED
  BY <1>2, <1>3, <1>4, <1>5, <1>6, <1>7, <1>8 DEF Next

\* Only the head is ever called: after a callback when its time has passed, by
\* an interrupt otherwise.
LEMMA HeadIsCalled ==
    ASSUME OInv, [Next]_vars, NEW t \in Timers, Called(t)
    PROVE  /\ list # <<>> /\ t = Head(list)
           /\ Expired(State) \/ (callback = None /\ pending # {})
<1>1. IInv /\ State.list = list /\ t # None
  BY StateIs, TimerAssumption DEF OInv
<1>2. CASE CallbackReturns
  <2>1. callback' = t
    BY DEF Called
  <2>2. Expired(State)
    BY <1>1, <1>2, <2>1 DEF CallbackReturns
  <2>3. callback' = Head(list) /\ list # <<>>
    BY <1>1, <1>2, <2>2 DEF CallbackReturns, Run, Expired
  <2> QED
    BY <2>1, <2>2, <2>3
<1>3. CASE ~CallbackReturns
  <2>1. callback = None /\ callback' = t /\ callback' # callback
    BY <1>1, <1>3 DEF Called
  <2>2. ~(UNCHANGED vars) /\ \A u \in Timers : ~TimerStart(u) /\ ~TimerStop(u) /\ ~TimerSetValue(u)
    BY <2>1 DEF vars, TimerStart, TimerStop, TimerSetValue
  <2>3. ~Tick
    BY <2>1 DEF Tick
  <2>4. scenario.timers \subseteq Timers
    BY <1>1, TimerAssumption DEF IInv
  <2>5. PICK i \in {"C", "D"} : Isr(i)
    BY <1>3, <2>2, <2>3, <2>4 DEF Next
  <2>6. PICK q : q = IF i = "C" THEN [State EXCEPT !.enabled = @ \ {"D"}] ELSE State
    OBVIOUS
  <2>7. q.list = list /\ q \in Records
    BY <1>1, <2>6, StateIs DEF Records
  <2>8. i \in pending /\ IF Due(q) THEN IrqHandler(q) ELSE Becomes(q) /\ UNCHANGED callback
    BY <2>5, <2>6 DEF Isr
  <2>9. Due(q) /\ q.list # <<>>
    BY <2>1, <2>8 DEF IrqHandler
  <2>10. callback' = Head(list)
    <3>1. PICK s : Run([[q EXCEPT !.ref = now, !.running = FALSE] EXCEPT !.stamp = s])
      BY <2>8, <2>9 DEF IrqHandler
    <3>2. PICK r : r = [[q EXCEPT !.ref = now, !.running = FALSE] EXCEPT !.stamp = s]
      OBVIOUS
    <3>3. r.list = list /\ Run(r)
      BY <2>7, <3>1, <3>2 DEF Records
    <3> QED
      BY <3>3 DEF Run
  <2> QED
    BY <2>1, <2>7, <2>8, <2>9, <2>10
<1> QED
  BY <1>2, <1>3

LEMMA HeadIsFirst ==
    ASSUME OInv, list # <<>>
    PROVE  \A u \in Listed(State) : left[Head(list)] <= left[u]
<1>1. IInv /\ list \in Seq(Timers) /\ State.list = list /\ State.ref = ref /\ State.stamp = stamp
  BY StateIs DEF OInv
<1>2. /\ left \in Times /\ Ordered(list, ref, stamp, now, left)
  BY <1>1 DEF OInv, Kept, InOrderOf
<1>3. /\ Head(list) = list[1] /\ Len(list) \in Nat \ {0} /\ DOMAIN list = 1 .. Len(list)
      /\ list[1] \in Timers /\ 1 \in 1 .. Len(list)
  BY <1>1
<1>4. ASSUME NEW j \in 1 .. Len(list) PROVE left[list[1]] <= left[list[j]]
  <2>1. CASE j = 1
    BY <1>2, <1>3, <2>1, TimesAre
  <2>2. CASE j # 1
    BY <1>2, <1>3, <2>2 DEF Ordered
  <2> QED
    BY <2>1, <2>2
<1> QED
  BY <1>1, <1>3, <1>4 DEF Listed

\* The head's time is up when its alarm is taken at once, and after a callback.
LEMMA HeadIsDue ==
    ASSUME Unwrapped, OInv, list # <<>>, scenario.delay = 0,
           Expired(State) \/ (callback = None /\ pending # {})
    PROVE  left[Head(list)] <= 0
<1>1. /\ IInv /\ Early /\ list \in Seq(Timers) /\ State.list = list /\ State.ref = ref
      /\ State.stamp = stamp /\ State.compare = compare /\ State.next = next
      /\ ref \in Counter /\ ref <= now /\ stamp \in [Timers -> Counter] /\ State \in Records
  BY StateIs, InvIsEarly DEF OInv
<1>2. left \in Times /\ Ordered(list, ref, stamp, now, left)
  BY <1>1 DEF OInv, Kept, InOrderOf
<1>3. /\ Head(list) = list[1] /\ Len(list) \in Nat \ {0}
      /\ list[1] \in Timers /\ 1 \in 1 .. Len(list)
  BY <1>1
<1>4. PICK x : x = stamp[list[1]]
  OBVIOUS
<1>5. PICK y : y = left[list[1]]
  OBVIOUS
<1>6. /\ x \in Nat /\ y \in Int /\ now \in Nat /\ ref \in Nat /\ ref <= now
      /\ y <= 0 \/ now + y <= ref + x
      /\ ref + x < Modulus
  <2>1. x \in Nat /\ ref \in Nat /\ y \in Int
    BY <1>1, <1>2, <1>3, <1>4, <1>5, CounterIsNat, TimesAre
  <2> QED
    BY <1>1, <1>2, <1>3, <1>4, <1>5, <2>1 DEF Ordered, Early
<1>7. ref + x <= now
  <2>1. CASE Expired(State)
    <3>1. ElapsedSince(State) = now - ref
      BY <1>1, Elapsed
    <3>2. x < now - ref
      BY <1>1, <1>3, <1>4, <2>1, <3>1 DEF Expired
    <3> QED
      BY <1>6, <3>2
  <2>2. CASE callback = None /\ pending # {}
    <3>1. compare["C"] = now
      BY <2>2 DEF OInv, Promptly
    <3>2. compare["C"] = (ref + alarm) % Modulus /\ alarm = x
      <4>1. Headed(State) /\ Armed(State, now, pending) /\ State.alarm = alarm
        BY <1>1, <2>2 DEF IInv, Good, State
      <4> QED
        BY <1>1, <1>3, <1>4, <4>1 DEF Headed, Armed
    <3>3. PICK z : z = ref + x
      OBVIOUS
    <3>4. z \in Int /\ 0 <= z /\ z < Modulus /\ now = z % Modulus
      BY <1>6, <3>1, <3>2, <3>3
    <3>5. now = z
      BY <3>4, Remainder, Ticks
    <3> QED
      BY <1>6, <3>3, <3>5
  <2> QED
    BY <2>1, <2>2
<1>8. y <= 0
  BY <1>6, <1>7
<1> QED
  BY <1>3, <1>5, <1>8

\* When interrupts are taken at once no callback runs before its timer's time is
\* up, whatever is started, stopped and set in between: TimerSetTimeout may put
\* the head off, never bring it forward, and TimerIrqHandler takes the time since
\* the reference off all the others.
THEOREM NeverCalledEarly == Unwrapped /\ Reachable => (Spec => NeverEarly)
<1> SUFFICES ASSUME Unwrapped, Reachable PROVE Spec => NeverEarly
  OBVIOUS
<1>1. Init => OInv
  BY InitOrders
<1>2. OInv /\ [Next]_vars => OInv'
  BY NextOrders
<1>3. OInv /\ [Next]_vars =>
         [scenario.delay = 0 => \A t \in Timers : Called(t) => left[t] <= 0]_vars
  <2> SUFFICES ASSUME OInv, [Next]_vars, scenario.delay = 0, NEW t \in Timers, Called(t)
               PROVE  left[t] <= 0
    OBVIOUS
  <2>1. /\ list # <<>> /\ t = Head(list)
        /\ Expired(State) \/ (callback = None /\ pending # {})
    BY HeadIsCalled
  <2> QED
    BY <2>1, HeadIsDue
<1> QED
  BY <1>1, <1>2, <1>3, PTL DEF Spec, NeverEarly

\* Timers are called in the order in which their times are up, however late the
\* interrupts and however long the callbacks: TimerInsertTimer's place in the
\* list is the right one although the times it compares were put off.
THEOREM CalledInOrder == Unwrapped /\ Reachable => (Spec => InOrder)
<1> SUFFICES ASSUME Unwrapped, Reachable PROVE Spec => InOrder
  OBVIOUS
<1>1. Init => OInv
  BY InitOrders
<1>2. OInv /\ [Next]_vars => OInv'
  BY NextOrders
<1>3. OInv /\ [Next]_vars =>
         [\A t \in Timers : Called(t) => \A u \in Listed(State) : left[t] <= left[u]]_vars
  <2> SUFFICES ASSUME OInv, [Next]_vars, NEW t \in Timers, Called(t)
               PROVE  \A u \in Listed(State) : left[t] <= left[u]
    OBVIOUS
  <2>1. list # <<>> /\ t = Head(list)
    BY HeadIsCalled
  <2> QED
    BY <2>1, HeadIsFirst
<1> QED
  BY <1>1, <1>2, <1>3, PTL DEF Spec, InOrder

----------------------------------------------------------------------------
(* The lateness of a timer: what is still before it.  A timer that is called *)
(* may be followed by another with an alarm MinTicks away and a delay.     *)

Count == Cardinality(scenario.timers)
Behind(i) == (i - 1) * (MinTicks + scenario.delay)

\* Ticks until the alarm of the head, and until its interrupt or the return of the
\* callback before it, if neither is delayed further: a callback that returns
\* calls a head that has expired, and otherwise puts its alarm off.
Away == ref + stamp[Head(list)] - now
WaitOf(armed, away, w) ==
    IF armed THEN IF away < -w THEN -w ELSE away
    ELSE IF away < 0 THEN -w ELSE away + MinTicks
Wait == WaitOf(Head(list) \in next, Away, waited)

\* The time left of the last timer in the list.
Last == left[list[Len(list)]]

\* All timers are in the list and the alarm was put off when a callback returned
\* that had restarted its timer: the last timer may be due before the alarm, but
\* then the interrupt D of this alarm is taken at once after C.
PutOff == /\ 2 <= Count /\ Len(list) = Count
          /\ callback = None /\ Head(list) \in next
          /\ MinTicks <= ref /\ stamp[Head(list)] <= now
          /\ Away <= scenario.delay + Last /\ Away <= MinTicks + Last
          /\ -waited <= Away
          /\ "D" \in enabled /\ compare["D"] = (ref + stamp[Head(list)] + 1) % Modulus
          /\ Away <= 0 => "C" \in pending
          /\ Away < 0 => "D" \in pending

\* An interrupt is pending that calls the head although its alarm is ahead:
\* TimerIrqHandler is called once the counter is at Alarm_Ticks, not at Ref_Ticks
\* and Alarm_Ticks (rtc-board.c:80).
Stale == /\ pending # {}
         /\ IF callback # None
            THEN Head(list) \notin next /\ Away <= -waited /\ MinTicks <= ref
            ELSE Head(list) \in next /\ stamp[Head(list)] <= now

SoonEnough(i) ==
    \/ Behind(i) + scenario.delay + Wait <= Slack + left[list[i]]
    \/ i = Len(list) /\ PutOff
    \/ Stale /\ Behind(i) + scenario.delay - waited <= Slack + left[list[i]]

Bounded == /\ waited <= scenario.delay
           /\ \A i \in 1 .. Len(list) : list[i] \in scenario.timers
Begun == /\ running => MinTicks <= alarm
         /\ callback # None => MinTicks <= ref
Exact == list # <<>> /\ Head(list) \notin next =>
            /\ 2 <= Count
            /\ Away > 0 => Away <= left[Head(list)]
AllListed == Len(list) = Count /\ Last >= 0 =>
                \/ Head(list) \in next /\ Away <= Last
                \/ PutOff
                \/ /\ Head(list) \notin next
                   /\ MinTicks <= waited + Last /\ Away <= Last
InTime == \A i \in 1 .. Len(list) : left[list[i]] < 0 => SoonEnough(i)

Paced == Bounded /\ Begun /\ Exact /\ AllListed /\ InTime
LInv == OInv /\ Paced

\* The constants of a behaviour.
LEMMA ScenarioIs ==
    ASSUME IInv
    PROVE  /\ scenario.timers \subseteq Timers /\ IsFiniteSet(scenario.timers)
           /\ Count \in Nat \ {0} /\ scenario.delay \in Nat
<1>1. /\ scenario.timers \subseteq Timers /\ IsFiniteSet(scenario.timers)
      /\ scenario.timers # {} /\ scenario.delay \in Nat
  BY TimerAssumption DEF IInv
<1> QED
  BY <1>1, FS_CardinalityType, FS_EmptySet DEF Count

LEMMA Products == ASSUME NEW m \in Nat, NEW i \in Nat, NEW j \in Nat, i <= j
                  PROVE  i * m \in Nat /\ (i + 1) * m = i * m + m /\ i * m <= j * m
<1>1. PICK k \in Nat : j = i + k
  <2>1. j - i \in Nat /\ j = i + (j - i)
    OBVIOUS
  <2> QED
    BY <2>1
<1>2. i * m \in Nat /\ k * m \in Nat /\ j * m = i * m + k * m
  BY <1>1
<1> QED
  BY <1>2

LEMMA BehindIs ==
    ASSUME IInv
    PROVE  /\ \A i \in Nat \ {0} : /\ Behind(i) \in Nat
                                  /\ Behind(i + 1) = Behind(i) + MinTicks + scenario.delay
           /\ \A i, j \in Nat \ {0} : i <= j => Behind(i) <= Behind(j)
           /\ Slack = Behind(Count) + scenario.delay /\ Slack \in Nat
<1>1. PICK m \in Nat : m = MinTicks + scenario.delay
  BY ScenarioIs, Ticks
<1>2. \A i : Behind(i) = (i - 1) * m
  BY <1>1 DEF Behind
<1>3. ASSUME NEW i \in Nat \ {0}
      PROVE  Behind(i) \in Nat /\ Behind(i + 1) = Behind(i) + MinTicks + scenario.delay
  <2>1. PICK k \in Nat : i = k + 1
    <3>1. i - 1 \in Nat /\ i = (i - 1) + 1
      OBVIOUS
    <3> QED
      BY <3>1
  <2>2. k * m \in Nat /\ (k + 1) * m = k * m + m
    BY Products
  <2>3. i - 1 = k /\ i + 1 - 1 = k + 1
    BY <2>1
  <2>4. Behind(i) = k * m /\ Behind(i + 1) = (k + 1) * m
    BY <1>2, <2>3
  <2>5. PICK x \in Nat : x = k * m
    BY <2>2
  <2>6. Behind(i) = x /\ Behind(i + 1) = x + m
    BY <2>2, <2>4, <2>5
  <2> QED
    BY <1>1, <2>6, ScenarioIs, Ticks
<1>4. ASSUME NEW i \in Nat \ {0}, NEW j \in Nat \ {0}, i <= j
      PROVE  Behind(i) <= Behind(j)
  <2>1. PICK k \in Nat, n \in Nat : k = i - 1 /\ n = j - 1
    OBVIOUS
  <2>2. k * m <= n * m
    <3>1. k <= n
      BY <1>4, <2>1
    <3> QED
      BY <3>1, Products
  <2> QED
    BY <1>2, <2>1, <2>2
<1>5. Slack = Behind(Count) + scenario.delay
  BY DEF Slack, Behind, Count
<1> QED
  BY <1>3, <1>4, <1>5, SlackIsNat

\* No more timers are listed than there are.
LEMMA AtMostCount == ASSUME IInv, Bounded PROVE Len(list) \in Nat /\ Len(list) <= Count
<1>1. list \in Seq(Timers) /\ Linked(list, next)
  BY StateIs
<1>2. Len(list) \in Nat /\ DOMAIN list = 1 .. Len(list) /\ list \in [1 .. Len(list) -> Timers]
  BY <1>1
<1>3. list \in [1 .. Len(list) -> scenario.timers]
  BY <1>2 DEF Bounded
<1>4. list \in Injection(1 .. Len(list), scenario.timers)
  BY <1>1, <1>2, <1>3 DEF Linked, Injection, IsInjective
<1>5. Cardinality(1 .. Len(list)) <= Count
  BY <1>4, ScenarioIs, FS_Injection DEF Count
<1>6. Cardinality(1 .. Len(list)) = Len(list)
  <2>1. PICK n \in Nat : n = Len(list)
    BY <1>2
  <2>2. Cardinality(1 .. n) = n
    BY FS_Interval
  <2> QED
    BY <2>1, <2>2
<1> QED
  BY <1>2, <1>5, <1>6

\* The wait for the head in numbers.
LEMMA WaitIs ==
    ASSUME NEW armed, NEW x \in Int, NEW w \in Nat
    PROVE  /\ WaitOf(armed, x, w) \in Int /\ -w <= WaitOf(armed, x, w)
           /\ x <= 0 => WaitOf(armed, x, w) <= MinTicks
           /\ armed /\ x <= MinTicks => WaitOf(armed, x, w) <= MinTicks
           /\ WaitOf(armed, x - 1, w + 1) <= WaitOf(armed, x, w) - 1
           /\ armed /\ -w <= x => WaitOf(armed, x, w) = x
           /\ armed /\ 0 < x => WaitOf(armed, x - 1, 0) = WaitOf(armed, x, w) - 1
BY Ticks DEF WaitOf

\* What the order says of the list: of its head and of the others.
LEMMA OrderIs ==
    ASSUME Unwrapped, OInv
    PROVE  /\ Len(list) \in Nat /\ (list # <<>> <=> Len(list) # 0)
           /\ list # <<>> => /\ Head(list) = list[1] /\ Head(list) \in Timers
                             /\ Away \in Int
                             /\ Away > MinTicks => Away <= left[Head(list)]
           /\ \A i \in 1 .. Len(list) :
                 /\ list[i] \in Timers /\ left[list[i]] \in Int
                 /\ left[list[1]] <= left[list[i]] /\ left[list[i]] <= Last
                 /\ stamp[list[i]] \in Nat /\ ref + stamp[list[i]] < Modulus
           /\ \A i \in 2 .. Len(list) :
                 /\ list[i] \notin next
                 /\ ref + stamp[list[i]] > now => ref + stamp[list[i]] <= now + left[list[i]]
                 /\ left[list[2]] <= left[list[i]]
<1>1. /\ list \in Seq(Timers) /\ Linked(list, next) /\ stamp \in [Timers -> Counter]
      /\ ref \in Nat /\ left \in Times /\ Ordered(list, ref, stamp, now, left)
      /\ now \in Nat /\ ref <= now
  BY StateIs, InvIsEarly, CounterIsNat DEF OInv, Kept, InOrderOf, Early
<1>2. Len(list) \in Nat /\ (list # <<>> <=> Len(list) # 0)
  BY <1>1
<1>3. ASSUME NEW i \in 1 .. Len(list)
      PROVE  /\ list[i] \in Timers /\ left[list[i]] \in Int
             /\ left[list[1]] <= left[list[i]] /\ left[list[i]] <= Last
             /\ stamp[list[i]] \in Nat /\ ref + stamp[list[i]] < Modulus
  <2>1. \A j \in 1 .. Len(list) : list[j] \in Timers /\ left[list[j]] \in Int
    BY <1>1, TimesAre
  <2>2. 1 \in 1 .. Len(list) /\ Len(list) \in 1 .. Len(list)
    BY <1>2
  <2>3. \A j, k \in 1 .. Len(list) : j < k => left[list[j]] <= left[list[k]]
    BY <1>1 DEF Ordered
  <2>4. left[list[1]] <= left[list[i]]
    BY <2>1, <2>2, <2>3
  <2>5. left[list[i]] <= Last
    BY <1>2, <2>1, <2>2, <2>3 DEF Last
  <2>6. stamp[list[i]] \in Nat /\ ref + stamp[list[i]] < Modulus
    BY <1>1, <2>1, CounterIsNat DEF Ordered
  <2> QED
    BY <2>1, <2>4, <2>5, <2>6
<1>4. ASSUME list # <<>>
      PROVE  /\ Head(list) = list[1] /\ Head(list) \in Timers /\ Away \in Int
             /\ Away > MinTicks => Away <= left[Head(list)]
  <2>1. 1 \in 1 .. Len(list) /\ Head(list) = list[1]
    BY <1>1, <1>2, <1>4
  <2>2. PICK x \in Nat : x = stamp[list[1]]
    BY <1>3, <2>1
  <2>3. PICK y \in Int : y = left[list[1]]
    BY <1>3, <2>1
  <2>4. x > now - ref + MinTicks => ref + x <= now + y
    BY <1>1, <2>1, <2>2, <2>3 DEF Ordered
  <2>5. Away = ref + x - now
    BY <2>1, <2>2 DEF Away
  <2>6. Away \in Int /\ (Away > MinTicks => Away <= y)
    BY <1>1, <2>4, <2>5, Ticks
  <2> QED
    BY <1>3, <2>1, <2>3, <2>6
<1>5. ASSUME NEW i \in 2 .. Len(list)
      PROVE  /\ list[i] \notin next
             /\ ref + stamp[list[i]] > now => ref + stamp[list[i]] <= now + left[list[i]]
             /\ left[list[2]] <= left[list[i]]
  <2>1. i \in 1 .. Len(list) /\ i # 1 /\ list[i] \notin next
    BY <1>1, <1>2 DEF Linked
  <2>2. PICK x \in Nat : x = stamp[list[i]]
    BY <1>3, <2>1
  <2>3. x > now - ref + 0 => ref + x <= now + left[list[i]]
    BY <1>1, <2>1, <2>2 DEF Ordered
  <2>4. ref + x > now => x > now - ref + 0
    BY <1>1, <2>2
  <2>5. left[list[2]] <= left[list[i]]
    <3>1. 2 \in 1 .. Len(list) /\ (i = 2 \/ 2 < i)
      BY <1>2
    <3>2. \A j, k \in 1 .. Len(list) : j < k => left[list[j]] <= left[list[k]]
      BY <1>1 DEF Ordered
    <3> QED
      BY <1>3, <2>1, <3>1, <3>2
  <2> QED
    BY <2>1, <2>2, <2>3, <2>4, <2>5
<1> QED
  BY <1>2, <1>3, <1>4, <1>5

LEMMA SameScenario == ASSUME scenario' = scenario
                      PROVE  /\ \A i : Behind(i)' = Behind(i)
                             /\ Slack' = Slack /\ Count' = Count
BY DEF Behind, Slack, Count

\* A late timer in numbers.
LEMMA LateIs ==
    ASSUME Unwrapped, LInv, NEW i \in 1 .. Len(list), left[list[i]] < 0
    PROVE  /\ Wait \in Int /\ -scenario.delay <= Wait
           /\ waited \in Nat /\ waited <= scenario.delay
           /\ Away \in Int /\ left[list[i]] \in Int /\ list # <<>>
           /\ SoonEnough(i) /\ Len(list) <= Count
           /\ PutOff => Wait = Away
<1>1. /\ OInv /\ IInv /\ Bounded /\ InTime /\ waited \in Nat
  BY DEF LInv, OInv, Paced, Kept
<1>2. /\ Len(list) <= Count /\ waited <= scenario.delay /\ scenario.delay \in Nat
      /\ left[list[i]] \in Int
  BY <1>1, AtMostCount, ScenarioIs, OrderIs DEF Bounded
<1>3. list # <<>> /\ Away \in Int
  BY <1>1, OrderIs
<1>4. PICK armed : armed = (Head(list) \in next)
  OBVIOUS
<1>5. Wait = WaitOf(armed, Away, waited)
  BY <1>4 DEF Wait
<1>6. Wait \in Int /\ -waited <= Wait
  BY <1>1, <1>3, <1>5, WaitIs
<1>7. PutOff => Wait = Away
  BY <1>1, <1>3, <1>4, <1>5, WaitIs DEF PutOff
<1> QED
  BY <1>1, <1>2, <1>3, <1>6, <1>7 DEF InTime

\* A step that leaves the late timers where they are, and does not put the alarm of
\* the head off.
LEMMA Carried ==
    ASSUME Unwrapped, LInv, scenario' = scenario, waited' \in Nat,
           \A j \in 1 .. Len(list') : left'[list'[j]] < 0 =>
              j \in 1 .. Len(list) /\ left'[list'[j]] = left[list[j]],
           (\E j \in 1 .. Len(list) : left[list[j]] < 0) =>
              /\ Wait' \in Int /\ Wait' <= Wait
              /\ PutOff => PutOff' /\ Len(list') = Len(list)
              /\ Stale => Stale' /\ waited <= waited'
    PROVE  InTime'
<1> SUFFICES ASSUME NEW j \in 1 .. Len(list'), left'[list'[j]] < 0
             PROVE  SoonEnough(j)'
  BY DEF InTime
<1>1. j \in 1 .. Len(list) /\ left[list[j]] < 0 /\ left'[list'[j]] = left[list[j]]
  OBVIOUS
<1>2. PICK z \in Int : z = left[list[j]] /\ z = left'[list'[j]]
  BY <1>1, LateIs
<1>3. /\ Wait \in Int /\ Wait' \in Int /\ Wait' <= Wait /\ waited \in Nat
      /\ PutOff => PutOff' /\ Len(list') = Len(list)
      /\ Stale => Stale' /\ waited <= waited'
      /\ SoonEnough(j)
  BY <1>1, LateIs
<1>4. /\ Behind(j) \in Nat /\ Behind(Count) \in Nat /\ Slack \in Nat /\ scenario.delay \in Nat
  <2>1. j \in Nat \ {0} /\ IInv
    BY <1>1, OrderIs DEF LInv, OInv
  <2> QED
    BY <2>1, BehindIs, ScenarioIs, SlackIsNat
<1>5. Behind(j)' = Behind(j) /\ Slack' = Slack
  BY SameScenario
<1>6. CASE Behind(j) + scenario.delay + Wait <= Slack + z
  <2>1. Behind(j) + scenario.delay + Wait' <= Slack + z
    BY <1>3, <1>4, <1>6
  <2> QED
    BY <1>2, <1>5, <2>1 DEF SoonEnough
<1>7. CASE j = Len(list) /\ PutOff
  BY <1>3, <1>7 DEF SoonEnough
<1>8. CASE Stale /\ Behind(j) + scenario.delay - waited <= Slack + z
  <2>1. Behind(j) + scenario.delay - waited' <= Slack + z
    BY <1>3, <1>4, <1>8
  <2> QED
    BY <1>2, <1>3, <1>5, <1>8, <2>1 DEF SoonEnough
<1> QED
  BY <1>2, <1>3, <1>6, <1>7, <1>8 DEF SoonEnough

\* The head is taken off the list: the others are one place nearer, for which the
\* new head may wait for an alarm MinTicks away.
LEMMA HeadGone ==
    ASSUME Unwrapped, LInv, scenario' = scenario, left' = left, waited' \in Nat,
           list # <<>>, Len(list') = Len(list) - 1,
           \A j \in 1 .. Len(list') : list'[j] = list[j + 1],
           2 <= Len(list) /\ left[list[2]] < 0 =>
              /\ Wait' \in Int /\ Wait' <= MinTicks
              /\ PutOff /\ Away < 0 => Stale'
    PROVE  AllListed' /\ InTime' /\ \A j \in 1 .. Len(list') : list'[j] \in scenario.timers
<1>1. /\ OInv /\ IInv /\ Bounded /\ Len(list) \in Nat \ {0} /\ Len(list) <= Count
      /\ Count \in Nat \ {0} /\ scenario.delay \in Nat /\ Slack \in Nat
  BY OrderIs, AtMostCount, ScenarioIs, BehindIs DEF LInv, OInv, Paced
<1>2. AllListed'
  <2>1. Len(list') # Count'
    BY <1>1, SameScenario
  <2> QED
    BY <2>1 DEF AllListed
<1>3. \A j \in 1 .. Len(list') : list'[j] \in scenario.timers
  BY <1>1 DEF Bounded
<1>4. ASSUME NEW j \in 1 .. Len(list'), left'[list'[j]] < 0 PROVE SoonEnough(j)'
  <2>1. PICK i \in 2 .. Len(list) : i = j + 1 /\ j \in Nat \ {0}
    BY <1>1
  <2>2. PICK z \in Int : z = left[list[i]] /\ z = left'[list'[j]] /\ z < 0
    BY <1>1, <1>4, <2>1, OrderIs
  <2>3. 2 <= Len(list) /\ left[list[2]] < 0
    <3>1. 2 \in 1 .. Len(list) /\ 2 <= Len(list)
      BY <1>1, <2>1
    <3>2. left[list[2]] \in Int /\ left[list[2]] <= z
      BY <1>1, <2>1, <2>2, <3>1, OrderIs
    <3> QED
      BY <2>2, <3>1, <3>2
  <2>4. /\ Wait \in Int /\ -scenario.delay <= Wait
        /\ waited \in Nat /\ waited <= scenario.delay /\ Away \in Int
        /\ SoonEnough(i) /\ Len(list) <= Count
    <3>1. i \in 1 .. Len(list) /\ left[list[i]] < 0
      BY <1>1, <2>2
    <3> QED
      BY <3>1, LateIs
  <2>5. /\ Behind(j) \in Nat /\ Behind(i) = Behind(j) + MinTicks + scenario.delay
        /\ Slack = Behind(Count) + scenario.delay
        /\ Behind(j)' = Behind(j) /\ Slack' = Slack
    BY <1>1, <2>1, BehindIs, SameScenario
  <2>6. Wait' \in Int /\ Wait' <= MinTicks /\ (PutOff /\ Away < 0 => Stale')
    BY <2>3
  <2>p. PICK b \in Nat, s \in Nat, d \in Nat, w \in Nat, x \in Int, u \in Int, v \in Int :
           /\ b = Behind(j) /\ s = Slack /\ d = scenario.delay /\ w = waited
           /\ x = Away /\ u = Wait /\ v = Wait'
    BY <1>1, <2>4, <2>5, <2>6
  <2>7. ASSUME b + MinTicks + d <= s + z PROVE SoonEnough(j)'
    <3>1. v <= MinTicks
      BY <2>6, <2>p
    <3>2. b + d + v <= s + z
      BY <2>7, <3>1, Ticks
    <3> QED
      BY <2>2, <2>5, <2>p, <3>2 DEF SoonEnough
  <2>8. CASE Behind(i) + scenario.delay + Wait <= Slack + z
    <3>1. b + MinTicks + d + d + u <= s + z /\ -d <= u
      BY <2>4, <2>5, <2>8, <2>p
    <3> QED
      BY <2>7, <3>1, Ticks
  <2>9. CASE Stale /\ Behind(i) + scenario.delay - waited <= Slack + z
    <3>1. b + MinTicks + d + d - w <= s + z /\ w <= d
      BY <2>4, <2>5, <2>9, <2>p
    <3> QED
      BY <2>7, <3>1, Ticks
  <2>10. CASE i = Len(list) /\ PutOff
    <3>1. i = Count /\ z = Last
      BY <2>2, <2>10 DEF PutOff, Last
    <3>2. x <= d + z /\ x <= MinTicks + z /\ -w <= x /\ w <= d
      BY <2>4, <2>10, <2>p, <3>1 DEF PutOff
    <3>3. s = b + MinTicks + d + d
      BY <2>5, <2>p, <3>1
    <3>4. CASE 0 <= x
      BY <2>7, <3>2, <3>3, <3>4, Ticks
    <3>5. CASE x < 0
      <4>1. Stale'
        BY <2>6, <2>10, <2>p, <3>5
      <4>2. PICK n \in Nat : n = waited'
        OBVIOUS
      <4>3. -d <= MinTicks + z
        BY <3>2, Ticks
      <4>4. b + d <= s + z
        BY <3>3, <4>3, Ticks
      <4>5. b + d - n <= s + z
        BY <4>4
      <4> QED
        BY <2>2, <2>5, <2>p, <4>1, <4>2, <4>5 DEF SoonEnough
    <3> QED
      BY <3>4, <3>5
  <2> QED
    BY <2>2, <2>4, <2>8, <2>9, <2>10 DEF SoonEnough
<1> QED
  BY <1>2, <1>3, <1>4 DEF InTime

\* Another timer is taken off: those behind it are nearer.
LEMMA OneGone ==
    ASSUME Unwrapped, LInv, scenario' = scenario, left' = left, waited' = waited,
           NEW k \in 2 .. Len(list), Len(list') = Len(list) - 1,
           \A j \in 1 .. Len(list') : list'[j] = IF j < k THEN list[j] ELSE list[j + 1],
           Wait' = Wait, Stale => Stale'
    PROVE  AllListed' /\ InTime' /\ \A j \in 1 .. Len(list') : list'[j] \in scenario.timers
<1>1. /\ OInv /\ IInv /\ Bounded /\ Len(list) \in Nat /\ Len(list) <= Count
      /\ Count \in Nat \ {0} /\ scenario.delay \in Nat /\ Slack \in Nat
  BY OrderIs, AtMostCount, ScenarioIs, BehindIs DEF LInv, OInv, Paced
<1>2. AllListed'
  <2>1. Len(list') # Count'
    BY <1>1, SameScenario
  <2> QED
    BY <2>1 DEF AllListed
<1>3. ASSUME NEW j \in 1 .. Len(list')
      PROVE  /\ j \in Nat \ {0}
             /\ \E i \in 1 .. Len(list) : list'[j] = list[i] /\ (i = j \/ i = j + 1)
  <2>1. j \in 1 .. Len(list) /\ j + 1 \in 1 .. Len(list) /\ j \in Nat \ {0}
    BY <1>1
  <2> QED
    BY <2>1
<1>4. \A j \in 1 .. Len(list') : list'[j] \in scenario.timers
  BY <1>1, <1>3 DEF Bounded
<1>5. ASSUME NEW j \in 1 .. Len(list'), left'[list'[j]] < 0 PROVE SoonEnough(j)'
  <2>1. PICK i \in 1 .. Len(list) : list'[j] = list[i] /\ (i = j \/ i = j + 1)
    BY <1>3
  <2>2. i \in Nat \ {0} /\ j \in Nat \ {0} /\ j <= i
    BY <1>1, <1>3, <2>1
  <2>3. PICK z \in Int : z = left[list[i]] /\ z = left'[list'[j]] /\ z < 0
    BY <1>1, <1>5, <2>1, OrderIs
  <2>4. /\ Wait \in Int /\ waited \in Nat /\ Away \in Int
        /\ SoonEnough(i) /\ (PutOff => Wait = Away)
    BY <2>1, <2>3, LateIs
  <2>5. /\ Behind(j) \in Nat /\ Behind(i) \in Nat /\ Behind(j) <= Behind(i)
        /\ i = j + 1 => Behind(i) = Behind(j) + MinTicks + scenario.delay
        /\ Slack = Behind(Count) + scenario.delay
        /\ Behind(j)' = Behind(j) /\ Slack' = Slack
    BY <1>1, <2>2, BehindIs, SameScenario
  <2>p. PICK b \in Nat, c \in Nat, s \in Nat, d \in Nat, w \in Nat, x \in Int, u \in Int :
           /\ b = Behind(j) /\ c = Behind(i) /\ s = Slack /\ d = scenario.delay
           /\ w = waited /\ x = Away /\ u = Wait
    BY <1>1, <2>4, <2>5
  <2>6. ASSUME b + d + u <= s + z PROVE SoonEnough(j)'
    BY <2>3, <2>5, <2>6, <2>p DEF SoonEnough
  <2>7. CASE Behind(i) + scenario.delay + Wait <= Slack + z
    <3>1. c + d + u <= s + z /\ b <= c
      BY <2>5, <2>7, <2>p
    <3> QED
      BY <2>6, <3>1
  <2>8. CASE i = Len(list) /\ PutOff
    <3>1. i = Count /\ z = Last /\ i = j + 1
      BY <1>1, <2>1, <2>3, <2>8 DEF PutOff, Last
    <3>2. x <= d + z /\ u = x
      BY <2>4, <2>8, <2>p, <3>1 DEF PutOff
    <3>3. s = b + MinTicks + d + d
      BY <2>5, <2>p, <3>1
    <3>4. b + d + u <= s + z
      BY <3>2, <3>3, Ticks
    <3> QED
      BY <2>6, <3>4
  <2>9. CASE Stale /\ Behind(i) + scenario.delay - waited <= Slack + z
    <3>1. c + d - w <= s + z /\ b <= c
      BY <2>5, <2>9, <2>p
    <3>2. b + d - w <= s + z
      BY <3>1
    <3> QED
      BY <2>3, <2>5, <2>9, <2>p, <3>2 DEF SoonEnough
  <2> QED
    BY <2>3, <2>4, <2>7, <2>8, <2>9 DEF SoonEnough
<1> QED
  BY <1>2, <1>4, <1>5 DEF InTime

\* The head stays, with its alarm.
LEMMA SameHead ==
    ASSUME list # <<>>, list' # <<>>, Head(list') = Head(list),
           Head(list) \in next' <=> Head(list) \in next,
           stamp'[Head(list)] = stamp[Head(list)], ref' = ref, now' = now,
           waited' = waited, callback' = callback, pending' = pending, scenario' = scenario
    PROVE  /\ Away' = Away /\ Wait' = Wait /\ (Stale' <=> Stale)
           /\ Exact /\ left'[Head(list)] = left[Head(list)] => Exact'
<1>1. Away' = Away
  BY DEF Away
<1>2. Wait' = Wait
  BY <1>1 DEF Wait, WaitOf
<1>3. Stale' <=> Stale
  BY <1>1 DEF Stale
<1>4. Exact /\ left'[Head(list)] = left[Head(list)] => Exact'
  BY <1>1, SameScenario DEF Exact
<1> QED
  BY <1>1, <1>2, <1>3, <1>4

\* Nothing of all this changes.
LEMMA SamePace ==
    ASSUME Unwrapped, LInv, list' = list, left' = left, next' = next, ref' = ref,
           running' = running, alarm' = alarm, enabled' = enabled, compare' = compare,
           list # <<>> => stamp'[Head(list)] = stamp[Head(list)], now' = now,
           waited' = waited, callback' = callback, pending' = pending, scenario' = scenario
    PROVE  Paced'
<1>1. /\ Bounded /\ Begun /\ Exact /\ AllListed /\ InTime /\ waited \in Nat
      /\ Len(list) \in Nat /\ (list # <<>> <=> Len(list) # 0)
  BY OrderIs DEF LInv, Paced, OInv, Kept
<1>2. Bounded' /\ Begun'
  BY <1>1 DEF Bounded, Begun
<1>3. CASE list = <<>>
  <2>1. Exact' /\ InTime'
    BY <1>1, <1>3 DEF Exact, InTime
  <2>2. AllListed'
    <3>1. Len(list') # Count'
      BY <1>1, <1>3, ScenarioIs, SameScenario DEF LInv, OInv
    <3> QED
      BY <3>1 DEF AllListed
  <2> QED
    BY <1>2, <2>1, <2>2 DEF Paced
<1>4. CASE list # <<>>
  <2>1. /\ Away' = Away /\ Wait' = Wait /\ (Stale' <=> Stale) /\ Exact'
    BY <1>1, <1>4, SameHead
  <2>2. Last' = Last /\ Count' = Count
    BY SameScenario DEF Last
  <2>3. PutOff' <=> PutOff
    BY <1>4, <2>1, <2>2 DEF PutOff
  <2>4. AllListed'
    BY <1>1, <2>1, <2>2, <2>3 DEF AllListed
  <2>5. InTime'
    <3>1. (\E j \in 1 .. Len(list) : left[list[j]] < 0) => Wait \in Int
      BY LateIs
    <3>2. ASSUME \E j \in 1 .. Len(list) : left[list[j]] < 0
          PROVE  /\ Wait' \in Int /\ Wait' <= Wait
                 /\ PutOff => PutOff' /\ Len(list') = Len(list)
                 /\ Stale => Stale' /\ waited <= waited'
      BY <1>1, <2>1, <2>3, <3>1, <3>2
    <3> QED
      BY <1>1, <3>2, Carried
  <2> QED
    BY <1>2, <2>1, <2>4, <2>5 DEF Paced
<1> QED
  BY <1>3, <1>4

\* The place of the timer that is taken out.
LEMMA WithoutIs ==
    ASSUME NEW l \in Seq(Timers), NEW t, \E j \in 1 .. Len(l) : l[j] = t
    PROVE  \E k \in 1 .. Len(l) :
              /\ l[k] = t /\ Len(Without(l, t)) = Len(l) - 1
              /\ \A j \in 1 .. Len(l) - 1 :
                    Without(l, t)[j] = IF j < k THEN l[j] ELSE l[j + 1]
<1> DEFINE k == CHOOSE j \in DOMAIN l : l[j] = t
           m == Without(l, t)
<1>1. k \in 1 .. Len(l) /\ l[k] = t /\ Len(l) \in Nat /\ Len(l) - 1 \in Nat
  <2>1. DOMAIN l = 1 .. Len(l) /\ Len(l) \in Nat
    OBVIOUS
  <2>2. k \in 1 .. Len(l) /\ l[k] = t
    BY <2>1
  <2> QED
    BY <2>1, <2>2
<1>2. m = [j \in 1 .. Len(l) - 1 |-> IF j < k THEN l[j] ELSE l[j + 1]]
  BY DEF Without
<1> HIDE DEF m, k
<1>3. m \in [1 .. Len(l) - 1 -> Timers]
  BY <1>1, <1>2
<1>4. Len(m) = Len(l) - 1
  BY <1>1, <1>3, ListOf
<1>5. \A j \in 1 .. Len(l) - 1 : m[j] = IF j < k THEN l[j] ELSE l[j + 1]
  BY <1>2
<1> QED
  BY <1>1, <1>4, <1>5 DEF m

\* TimerStop in numbers.
LEMMA StoppedIs ==
    ASSUME Unwrapped, IInv, NEW t \in Timers, NEW q, q = Stopped(t, State),
           t \in Listed(State)
    PROVE  /\ q.ref = ref /\ q.list = Without(list, t)
           /\ t # Head(list) \/ t \notin next =>
                 /\ q.next = next /\ q.stamp = stamp /\ q.alarm = alarm
                 /\ q.running = running
           /\ t = Head(list) /\ t \in next /\ Without(list, t) = <<>> => ~q.running
           /\ t = Head(list) /\ t \in next /\ Without(list, t) # <<>> =>
                 \E u \in Timers, s \in Counter :
                    /\ u = Head(Without(list, t)) /\ u # t
                    /\ s = IF stamp[u] < now - ref + MinTicks
                           THEN now - ref + MinTicks ELSE stamp[u]
                    /\ q.stamp = [stamp EXCEPT ![u] = s]
                    /\ u \in q.next /\ q.alarm = s
<1> DEFINE rest == Without(list, t)
           r0 == [State EXCEPT !.list = rest]
           r1 == [State EXCEPT !.list = rest, !.next = next \ {t}]
<1>1. /\ Early /\ State \in Records /\ Linked(list, next) /\ ref <= now
      /\ State.list = list /\ State.next = next /\ State.ref = ref
      /\ State.stamp = stamp /\ State.reload = reload
      /\ State.alarm = alarm /\ State.running = running
      /\ list \in Seq(Timers)
  BY StateIs, InvIsEarly DEF State
<1>2. \E j \in 1 .. Len(list) : list[j] = t
  BY <1>1 DEF Listed
<1>3. /\ rest \in Seq(Timers) /\ Linked(rest, next)
      /\ \A j \in 1 .. Len(rest) : rest[j] # t
  BY <1>1, <1>2, Removed
<1>4. q = IF t # Head(list) THEN r0 ELSE IF t \notin next THEN r0
          ELSE IF rest = <<>> THEN StopAlarm(r1) ELSE SetTimeout(r1)
  BY <1>1 DEF Stopped
<1> HIDE DEF rest
<1>5. /\ r0.list = rest /\ r0.ref = ref /\ r0.stamp = stamp /\ r0.next = next
      /\ r0.alarm = alarm /\ r0.running = running
      /\ r1 \in Records /\ r1.list = rest /\ r1.ref = ref /\ r1.stamp = stamp
      /\ r1.next = next \ {t} /\ r1.alarm = alarm
  BY <1>1, <1>3 DEF Records
<1> HIDE DEF r0, r1
<1>6. CASE t # Head(list) \/ t \notin next
  BY <1>4, <1>5, <1>6 DEF rest
<1>7. CASE t = Head(list) /\ t \in next /\ rest = <<>>
  <2>1. q.list = rest /\ q.ref = ref /\ q.stamp = stamp /\ q.alarm = alarm /\ ~q.running
    BY <1>4, <1>5, <1>7 DEF StopAlarm, Records
  <2> QED
    BY <1>7, <2>1 DEF rest
<1>8. CASE t = Head(list) /\ t \in next /\ rest # <<>>
  <2>1. q = SetTimeout(r1) /\ Linked(r1.list, r1.next)
    BY <1>3, <1>4, <1>5, <1>8 DEF Linked
  <2>2. Head(rest) \in Timers /\ Head(rest) # t
    <3>1. Len(rest) \in Nat \ {0} /\ Head(rest) = rest[1] /\ Head(rest) \in Timers
      BY <1>3, <1>8
    <3> QED
      BY <1>3, <3>1
  <2>3. PICK s \in Counter :
           /\ s = IF r1.stamp[Head(r1.list)] < now - r1.ref + MinTicks
                  THEN now - r1.ref + MinTicks ELSE r1.stamp[Head(r1.list)]
           /\ q.stamp = [r1.stamp EXCEPT ![Head(r1.list)] = s]
           /\ q.ref = r1.ref /\ q.list = r1.list /\ q.next = r1.next \cup {Head(r1.list)}
           /\ q.alarm = s
    <3>1. /\ Early /\ r1 \in Records /\ r1.list # <<>> /\ r1.ref <= now
          /\ q = SetTimeout(r1) /\ Linked(r1.list, r1.next)
      BY <1>1, <1>5, <1>8, <2>1
    <3> QED
      BY <3>1, SetTimeoutIs
  <2>4. /\ s = IF stamp[Head(rest)] < now - ref + MinTicks
               THEN now - ref + MinTicks ELSE stamp[Head(rest)]
        /\ q.stamp = [stamp EXCEPT ![Head(rest)] = s]
        /\ q.ref = ref /\ q.list = rest /\ Head(rest) \in q.next
    BY <1>5, <2>3
  <2> QED
    BY <1>8, <2>2, <2>3, <2>4 DEF rest
<1> QED
  BY <1>6, <1>7, <1>8

\* TimerStop, whatever becomes of the object that is stopped.
LEMMA StoppedPaced ==
    ASSUME Unwrapped, LInv, NEW t \in Timers, NEW q, q = Stopped(t, State),
           list' = q.list, ref' = q.ref, next' = q.next, running' = q.running,
           alarm' = q.alarm, enabled' = q.enabled, compare' = q.compare,
           \A u \in Timers : u # t => stamp'[u] = q.stamp[u], now' = now,
           waited' = waited, callback' = callback, pending' = pending,
           scenario' = scenario, left' = left
    PROVE  Paced'
<1>1. /\ OInv /\ IInv /\ Bounded /\ Begun /\ Exact /\ waited \in Nat
      /\ list \in Seq(Timers) /\ Linked(list, next)
      /\ ref \in Nat /\ now \in Nat /\ stamp \in [Timers -> Counter]
      /\ waited <= scenario.delay /\ scenario.delay \in Nat
  BY StateIs, InvIsEarly, CounterIsNat, ScenarioIs
     DEF LInv, OInv, Kept, Paced, Bounded, Early
<1>2. /\ Len(list) \in Nat /\ (list # <<>> <=> Len(list) # 0)
      /\ list # <<>> => Head(list) = list[1] /\ Head(list) \in Timers
  BY <1>1, OrderIs
<1>3. CASE t \notin Listed(State)
  <2>1. q = State
    BY <1>3 DEF Stopped
  <2>2. /\ list' = list /\ ref' = ref /\ next' = next /\ running' = running
        /\ alarm' = alarm /\ enabled' = enabled /\ compare' = compare
        /\ \A u \in Timers : u # t => stamp'[u] = stamp[u]
    BY <2>1 DEF State
  <2>3. list # <<>> => Head(list) # t
    BY <1>2, <1>3 DEF Listed, State
  <2>4. list # <<>> => stamp'[Head(list)] = stamp[Head(list)]
    BY <1>2, <2>2, <2>3
  <2> QED
    BY <2>2, <2>4, SamePace
<1>4. CASE t \in Listed(State)
  <2>1. \E j \in 1 .. Len(list) : list[j] = t
    BY <1>1, <1>4 DEF Listed, State
  <2>2. PICK k \in 1 .. Len(list) :
           /\ list[k] = t /\ Len(Without(list, t)) = Len(list) - 1
           /\ \A j \in 1 .. Len(list) - 1 :
                 Without(list, t)[j] = IF j < k THEN list[j] ELSE list[j + 1]
    BY <1>1, <2>1, WithoutIs
  <2>3. /\ ref' = ref /\ list' = Without(list, t) /\ Len(list') = Len(list) - 1
        /\ \A j \in 1 .. Len(list') : list'[j] = IF j < k THEN list[j] ELSE list[j + 1]
        /\ list' \in Seq(Timers) /\ list # <<>>
        /\ list' # <<>> => Head(list') = list'[1] /\ 2 <= Len(list) /\ Len(list') >= 1
    <3>1. ref' = ref /\ list' = Without(list, t)
      BY <1>1, <1>4, StoppedIs
    <3>2. list' \in Seq(Timers) /\ list # <<>>
      BY <1>1, <2>1, <3>1, Removed
    <3>3. list' # <<>> => Head(list') = list'[1] /\ Len(list') \in Nat \ {0}
      BY <3>2
    <3> QED
      BY <1>2, <2>2, <3>1, <3>2, <3>3
  <2>4. t = Head(list) <=> k = 1
    BY <1>1, <1>2, <2>2, <2>3 DEF Linked
  <2>5. /\ \A j \in 1 .. Len(list') : list'[j] \in scenario.timers
        => Bounded'
    BY <1>1 DEF Bounded
  <2>6. CASE t # Head(list)
    <3>1. next' = next /\ alarm' = alarm /\ running' = running /\ q.stamp = stamp
      BY <1>1, <1>4, <2>6, StoppedIs
    <3>2. /\ Head(list) # t /\ list' # <<>> /\ Head(list') = Head(list) /\ k \in 2 .. Len(list)
      <4>1. k \in 2 .. Len(list)
        BY <1>2, <2>2, <2>4, <2>6
      <4>2. Len(list') >= 1 /\ 1 \in 1 .. Len(list')
        BY <1>2, <2>3, <4>1
      <4>3. list' # <<>> /\ list'[1] = list[1]
        BY <1>2, <2>3, <4>1, <4>2
      <4> QED
        BY <1>2, <2>3, <2>6, <4>1, <4>3
    <3>3. stamp'[Head(list)] = stamp[Head(list)]
      BY <1>2, <2>3, <3>1, <3>2
    <3>4. Wait' = Wait /\ (Stale' <=> Stale) /\ Exact'
      BY <1>1, <2>3, <3>1, <3>2, <3>3, SameHead
    <3>5. /\ AllListed' /\ InTime'
          /\ \A j \in 1 .. Len(list') : list'[j] \in scenario.timers
      BY <2>3, <3>2, <3>4, OneGone
    <3>6. Begun'
      BY <1>1, <2>3, <3>1 DEF Begun
    <3> QED
      BY <2>5, <3>4, <3>5, <3>6 DEF Paced
  <2>7. CASE t = Head(list)
    <3>1. \A j \in 1 .. Len(list') : list'[j] = list[j + 1]
      BY <1>2, <2>3, <2>4, <2>7
    <3>2. list' # <<>> => /\ Head(list') = list[2] /\ list[2] # t /\ list[2] \notin next
                          /\ list[2] \in Timers /\ stamp[list[2]] \in Nat
                          /\ left[list[2]] \in Int
                          /\ ref + stamp[list[2]] > now =>
                                ref + stamp[list[2]] <= now + left[list[2]]
      <4> SUFFICES ASSUME list' # <<>>
                   PROVE  /\ Head(list') = list[2] /\ list[2] # t /\ list[2] \notin next
                          /\ list[2] \in Timers /\ stamp[list[2]] \in Nat
                          /\ left[list[2]] \in Int
                          /\ ref + stamp[list[2]] > now =>
                                ref + stamp[list[2]] <= now + left[list[2]]
        OBVIOUS
      <4>1. 2 \in 2 .. Len(list) /\ 2 \in 1 .. Len(list) /\ 1 \in 1 .. Len(list)
            /\ 1 \in 1 .. Len(list')
        BY <1>2, <2>3
      <4>2. Head(list') = list[2] /\ list[2] # t
        BY <1>1, <1>2, <2>3, <2>7, <3>1, <4>1 DEF Linked
      <4> QED
        BY <1>1, <4>1, <4>2, OrderIs
    <3>3. ASSUME /\ Exact' /\ Begun'
                 /\ list' # <<>> /\ left[list[2]] < 0 =>
                       /\ Wait' \in Int /\ Wait' <= MinTicks
                       /\ PutOff /\ Away < 0 => Stale'
          PROVE  Paced'
      <4>1. 2 <= Len(list) => list' # <<>>
        BY <1>2, <2>3
      <4>2. /\ AllListed' /\ InTime'
            /\ \A j \in 1 .. Len(list') : list'[j] \in scenario.timers
        BY <1>1, <2>3, <3>1, <3>3, <4>1, HeadGone
      <4> QED
        BY <2>5, <3>3, <4>2 DEF Paced
    <3>4. CASE t \notin next
      <4>1. next' = next /\ alarm' = alarm /\ running' = running /\ q.stamp = stamp
        BY <1>1, <1>4, <3>4, StoppedIs
      <4>2. Begun'
        BY <1>1, <2>3, <4>1 DEF Begun
      <4>3. ~PutOff
        BY <2>7, <3>4 DEF PutOff
      <4>4. list' # <<>> => Away' = ref + stamp[list[2]] - now /\ Head(list') \notin next'
        BY <2>3, <3>2, <4>1 DEF Away
      <4>5. Exact'
        <5>0. list' # <<>> => 2 <= Count'
          BY <1>1, <1>2, <2>3, AtMostCount, ScenarioIs, SameScenario
        <5> SUFFICES ASSUME list' # <<>>, Away' > 0 PROVE Away' <= left[list[2]]
          BY <3>2, <5>0 DEF Exact
        <5>1. PICK x \in Nat, y \in Int : x = stamp[list[2]] /\ y = left[list[2]]
          BY <3>2
        <5> QED
          BY <1>1, <3>2, <4>4, <5>1
      <4>6. ASSUME list' # <<>>, left[list[2]] < 0 PROVE Wait' \in Int /\ Wait' <= MinTicks
        <5>1. PICK x \in Nat, y \in Int : x = stamp[list[2]] /\ y = left[list[2]]
          BY <3>2, <4>6
        <5>2. Away' \in Int /\ Away' <= 0
          <6>1. PICK m \in Nat, n \in Nat : m = ref /\ n = now
            BY <1>1
          <6>2. Away' = m + x - n
            BY <4>4, <4>6, <5>1, <6>1
          <6>3. ~(m + x > n)
            <7>1. y < 0 /\ (m + x > n => m + x <= n + y)
              BY <3>2, <4>6, <5>1, <6>1
            <7> QED
              BY <7>1
          <6>4. m + x - n \in Int /\ m + x - n <= 0
            BY <6>3
          <6> QED
            BY <6>2, <6>4
        <5>3. Wait' = WaitOf(FALSE, Away', waited)
          BY <4>4, <4>6 DEF Wait, WaitOf
        <5> QED
          BY <1>1, <5>2, <5>3, WaitIs
      <4> QED
        BY <3>3, <4>2, <4>3, <4>5, <4>6
    <3>5. CASE t \in next /\ list' = <<>>
      <4>1. ~running' /\ (callback # None => MinTicks <= ref')
        BY <1>1, <1>4, <2>3, <2>7, <3>5, StoppedIs DEF Begun
      <4>2. Begun' /\ Exact'
        BY <3>5, <4>1 DEF Begun, Exact
      <4> QED
        BY <3>3, <3>5, <4>2
    <3>6. CASE t \in next /\ list' # <<>>
      <4> DEFINE u == list[2]
      <4>1. PICK s \in Counter :
               /\ s = IF stamp[u] < now - ref + MinTicks THEN now - ref + MinTicks
                      ELSE stamp[u]
               /\ q.stamp = [stamp EXCEPT ![u] = s]
               /\ u \in next' /\ alarm' = s
        <5>1. Head(Without(list, t)) = u /\ Without(list, t) # <<>>
          BY <2>3, <3>2, <3>6
        <5>2. PICK v \in Timers, s \in Counter :
                 /\ v = Head(Without(list, t))
                 /\ s = IF stamp[v] < now - ref + MinTicks
                        THEN now - ref + MinTicks ELSE stamp[v]
                 /\ q.stamp = [stamp EXCEPT ![v] = s]
                 /\ v \in q.next /\ q.alarm = s
          BY <1>1, <1>4, <2>7, <3>6, <5>1, StoppedIs
        <5>3. v = u
          BY <5>1, <5>2
        <5> HIDE DEF u
        <5> QED
          BY <5>2, <5>3
      <4>2. /\ u \in Timers /\ stamp'[u] = s /\ Head(list') = u /\ u # t
            /\ stamp[u] \in Nat /\ left[u] \in Int
            /\ ref + stamp[u] > now => ref + stamp[u] <= now + left[u]
        BY <1>1, <3>2, <3>6, <4>1
      <4> HIDE DEF u
      <4>3. PICK x \in Nat, y \in Int : x = stamp[u] /\ y = left[u]
        BY <4>2
      <4>4. s \in Nat /\ ref <= now /\ s >= MinTicks
        <5>1. s \in Nat /\ ref <= now
          BY <1>1, CounterIsNat, StateIs
        <5>2. s = IF x < now - ref + MinTicks THEN now - ref + MinTicks ELSE x
          BY <4>1, <4>3
        <5>3. now - ref + MinTicks >= MinTicks
          BY <1>1, <5>1, Ticks
        <5> QED
          BY <1>1, <5>1, <5>2, <5>3, Ticks
      <4>5. Begun'
        BY <1>1, <2>3, <4>1, <4>4 DEF Begun
      <4>6. Exact'
        BY <4>1, <4>2 DEF Exact
      <4>7. ASSUME left[u] < 0
            PROVE  /\ Wait' \in Int /\ Wait' <= MinTicks
                   /\ PutOff /\ Away < 0 => Stale'
        <5>1. s = now - ref + MinTicks
          BY <1>1, <4>1, <4>2, <4>3, <4>7, Ticks
        <5>2. Away' = MinTicks
          <6>1. Away' = ref + s - now
            BY <2>3, <4>2 DEF Away
          <6> QED
            BY <1>1, <5>1, <6>1, Ticks
        <5>3. Wait' = WaitOf(TRUE, MinTicks, waited)
          BY <4>1, <4>2, <5>2 DEF Wait, WaitOf
        <5>4. Wait' \in Int /\ Wait' <= MinTicks
          <6>1. MinTicks \in Int /\ MinTicks <= MinTicks /\ waited \in Nat
            BY <1>1, Ticks
          <6>2. WaitOf(TRUE, MinTicks, waited) \in Int
                /\ WaitOf(TRUE, MinTicks, waited) <= MinTicks
            BY <6>1, WaitIs
          <6> QED
            BY <5>3, <6>2
        <5>5. PutOff /\ Away < 0 => Stale'
          <6> SUFFICES ASSUME PutOff, Away < 0 PROVE Stale'
            OBVIOUS
          <6>1. callback = None /\ MinTicks <= ref /\ pending # {}
            BY DEF PutOff
          <6>2. s <= now
            BY <1>1, <5>1, <6>1, Ticks
          <6> QED
            BY <4>1, <4>2, <6>1, <6>2 DEF Stale
        <5> QED
          BY <5>4, <5>5
      <4> QED
        BY <3>3, <4>5, <4>6, <4>7 DEF u
    <3> QED
      BY <3>4, <3>5, <3>6
  <2> QED
    BY <2>6, <2>7
<1> QED
  BY <1>3, <1>4

LEMMA InsertAtIs ==
    ASSUME NEW l \in Seq(Timers), NEW p \in 1 .. Len(l) + 1, NEW t \in Timers
    PROVE  /\ InsertAt(l, p, t) \in Seq(Timers) /\ Len(InsertAt(l, p, t)) = Len(l) + 1
           /\ \A j \in 1 .. Len(l) + 1 :
                 InsertAt(l, p, t)[j] = IF j < p THEN l[j] ELSE IF j = p THEN t ELSE l[j - 1]
<1> DEFINE m == InsertAt(l, p, t)
           N == Len(l) + 1
<1>1. N \in Nat \ {0}
  OBVIOUS
<1>2. m \in [1 .. N -> Timers]
  BY DEF InsertAt
<1>3. \A j \in 1 .. N : m[j] = IF j < p THEN l[j] ELSE IF j = p THEN t ELSE l[j - 1]
  BY DEF InsertAt
<1> HIDE DEF m
<1>4. m \in Seq(Timers) /\ Len(m) = N
  BY <1>1, <1>2, ListOf
<1> QED
  BY <1>3, <1>4 DEF m

\* TimerInsertNewHeadTimer and TimerInsertTimer in numbers.
LEMMA NewHeadIs ==
    ASSUME Early, NEW r \in Records, Linked(r.list, r.next), r.ref <= now,
           NEW t \in Timers, t \notin Listed(r), NEW z, z = InsertNewHead(t, r)
    PROVE  /\ z.ref = r.ref /\ z.list = InsertAt(r.list, 1, t)
           /\ t \in z.next /\ MinTicks <= z.alarm
<1> DEFINE n == IF r.list = <<>> THEN r.next ELSE r.next \ {Head(r.list)}
           l == <<t>> \o r.list
           k == [r EXCEPT !.next = n, !.list = l]
<1>1. z = SetTimeout(k)
  BY DEF InsertNewHead
<1>2. r.list \in Seq(Timers) /\ Len(r.list) \in Nat
  BY DEF Records
<1>3. /\ l \in Seq(Timers) /\ Len(l) = Len(r.list) + 1 /\ l # <<>>
      /\ l[1] = t /\ \A i \in 2 .. Len(l) : i - 1 \in 1 .. Len(r.list) /\ l[i] = r.list[i - 1]
  BY <1>2
<1>4. \A j \in 1 .. Len(r.list) : r.list[j] # t
  BY <1>2 DEF Listed
<1>5. n \subseteq Timers /\ n \subseteq r.next /\ (r.list # <<>> => r.list[1] \notin n)
  BY <1>2 DEF Records
<1>6. l = InsertAt(r.list, 1, t)
  <2>0. PICK o \in Seq(Timers) : o = r.list
    BY <1>2
  <2>1. PICK m : m = InsertAt(o, 1, t)
    OBVIOUS
  <2>p. 1 \in 1 .. Len(o) + 1
    BY <1>2, <2>0
  <2>2. /\ m \in Seq(Timers) /\ Len(m) = Len(o) + 1
        /\ \A j \in 1 .. Len(o) + 1 :
              m[j] = IF j < 1 THEN o[j] ELSE IF j = 1 THEN t ELSE o[j - 1]
    BY <2>1, <2>p, InsertAtIs
  <2> HIDE DEF l
  <2>3. \A j \in 1 .. Len(l) : l[j] = m[j]
    <3> SUFFICES ASSUME NEW j \in 1 .. Len(l) PROVE l[j] = m[j]
      OBVIOUS
    <3>1. j \in 1 .. Len(o) + 1 /\ j \in Nat /\ ~(j < 1)
      BY <1>2, <1>3, <2>0
    <3>2. CASE j = 1
      BY <1>3, <2>2, <3>1, <3>2
    <3>3. CASE j # 1
      <4>1. j \in 2 .. Len(l)
        BY <1>2, <1>3, <3>1, <3>3
      <4> QED
        BY <1>3, <2>0, <2>2, <3>1, <3>3, <4>1
    <3> QED
      BY <3>2, <3>3
  <2>4. l = m
    BY <1>3, <2>0, <2>2, <2>3, SeqEqual
  <2> QED
    BY <2>0, <2>1, <2>4
<1> HIDE DEF l, n
<1>7. Linked(r.list, n)
  BY <1>5 DEF Linked
<1>8. Linked(l, n)
  <2>1. 1 \in 1 .. Len(r.list) + 1
    BY <1>2
  <2> QED
    BY <1>2, <1>4, <1>5, <1>6, <1>7, <2>1, Inserted
<1>9. k \in Records /\ k.list = l /\ k.next = n /\ k.ref = r.ref
  BY <1>3, <1>5 DEF Records
<1> HIDE DEF k
<1>10. Head(l) = t
  BY <1>3
<1>11. PICK s \in Counter :
          /\ s = IF k.stamp[Head(k.list)] < now - k.ref + MinTicks
                 THEN now - k.ref + MinTicks ELSE k.stamp[Head(k.list)]
          /\ z.ref = k.ref /\ z.list = k.list /\ z.next = k.next \cup {Head(k.list)}
          /\ z.alarm = s
  <2>1. /\ Early /\ k \in Records /\ Linked(k.list, k.next) /\ k.list # <<>>
        /\ k.ref <= now /\ z = SetTimeout(k)
    BY <1>1, <1>3, <1>8, <1>9
  <2>2. PICK s \in Counter :
           /\ s = IF k.stamp[Head(k.list)] < now - k.ref + MinTicks
                  THEN now - k.ref + MinTicks ELSE k.stamp[Head(k.list)]
           /\ SetTimeout(k).ref = k.ref /\ SetTimeout(k).list = k.list
           /\ SetTimeout(k).next = k.next \cup {Head(k.list)}
           /\ SetTimeout(k).alarm = s
    BY <2>1, SetTimeoutIs
  <2> QED
    BY <2>1, <2>2
<1>12. MinTicks <= s
  <2>1. PICK x \in Nat : x = k.stamp[Head(k.list)]
    BY <1>3, <1>9, <1>10, RecordIs
  <2>2. k.ref \in Nat /\ k.ref <= now /\ now \in Nat
    BY <1>9, RecordIs DEF Early
  <2> QED
    BY <1>11, <2>1, <2>2, Ticks
<1> QED
  BY <1>6, <1>9, <1>10, <1>11, <1>12

LEMMA AfterHeadIs ==
    ASSUME NEW r \in Records, r.list # <<>>, NEW t \in Timers
    PROVE  \E p \in 2 .. Len(r.list) + 1 :
              InsertAfterHead(t, r) = [r EXCEPT !.list = InsertAt(r.list, p, t)]
<1> DEFINE later == {i \in 2 .. Len(r.list) : r.stamp[r.list[i]] >= r.stamp[t]}
           place == IF later = {} THEN Len(r.list) + 1
                    ELSE CHOOSE i \in later : \A j \in later : i <= j
<1>1. InsertAfterHead(t, r) = [r EXCEPT !.list = InsertAt(r.list, place, t)]
  BY DEF InsertAfterHead
<1>2. Len(r.list) \in Nat \ {0}
  BY DEF Records
<1>3. place \in 2 .. Len(r.list) + 1
  <2>1. CASE later = {}
    BY <1>2, <2>1
  <2>2. CASE later # {}
    <3>1. later \subseteq 2 .. Len(r.list) /\ later \subseteq Nat
      BY <1>2
    <3> HIDE DEF later
    <3>2. \E i \in later : \A j \in later : i <= j
      BY <2>2, <3>1, FirstPlace
    <3>3. place \in later
      BY <2>2, <3>2
    <3> HIDE DEF place, later
    <3>4. place \in 2 .. Len(r.list)
      BY <3>1, <3>3
    <3> QED
      BY <1>2, <3>4
  <2> QED
    BY <2>1, <2>2
<1> HIDE DEF place
<1> QED
  BY <1>1, <1>3

\* TimerStart in numbers.
LEMMA StartedIs ==
    ASSUME Unwrapped, IInv, NEW t \in Timers, t \notin Listed(State),
           NEW q, q = Started(t, State)
    PROVE  /\ q.ref = ref \/ q.ref = now
           /\ \/ q.list = InsertAt(list, 1, t) /\ t \in q.next /\ MinTicks <= q.alarm
              \/ /\ list # <<>> /\ q.ref = ref /\ q.alarm = alarm /\ q.running = running
                 /\ q.next = next \ {t} /\ q.stamp[Head(list)] = stamp[Head(list)]
                 /\ \E p \in 2 .. Len(list) + 1 : q.list = InsertAt(list, p, t)
<1> DEFINE s == IF list = <<>> THEN reload[t]
                ELSE (reload[t] + ElapsedSince(State)) % Modulus
           r1 == [State EXCEPT !.next = @ \ {t}, !.stamp[t] = s]
           r0 == [r1 EXCEPT !.ref = now]
<1>0. /\ Early /\ State \in Records /\ Linked(list, next) /\ ref <= now
      /\ State.list = list /\ State.next = next /\ State.ref = ref
      /\ State.stamp = stamp /\ State.reload = reload /\ State.alarm = alarm
      /\ State.running = running /\ list \in Seq(Timers) /\ now \in Counter
      /\ ref \in Counter /\ reload \in [Timers -> Counter]
  BY StateIs, InvIsEarly DEF State
<1>1. q = IF list = <<>> THEN InsertNewHead(t, r0)
          ELSE IF r1.stamp[t] < stamp[Head(list)]
               THEN InsertNewHead(t, r1) ELSE InsertAfterHead(t, r1)
  BY <1>0 DEF Started
<1>2. s \in Counter
  <2>1. reload[t] \in Counter
    BY <1>0
  <2>2. PICK x \in Int : x = reload[t] + ElapsedSince(State)
    <3>1. ElapsedSince(State) \in Int
      BY <1>0, Elapsed
    <3>2. reload[t] \in Int
      BY <2>1, CounterIsNat
    <3> QED
      BY <3>1, <3>2
  <2>3. x % Modulus \in Counter
    BY Remainder, Ticks DEF Counter
  <2> QED
    BY <2>1, <2>2, <2>3
<1> HIDE DEF s
<1>3. /\ r1 \in Records /\ r1.list = list /\ r1.next = next \ {t} /\ r1.ref = ref
      /\ r1.running = running /\ r1.alarm = alarm
      /\ \A u \in Timers : u # t => r1.stamp[u] = stamp[u]
  BY <1>0, <1>2 DEF Records
<1> HIDE DEF r1
<1>4. r0 \in Records /\ r0.list = list /\ r0.next = next \ {t} /\ r0.ref = now
  BY <1>0, <1>3 DEF Records
<1> HIDE DEF r0
<1>5. Linked(list, next \ {t}) /\ t \notin Listed(r0) /\ t \notin Listed(r1) /\ now <= now
  BY <1>0, <1>3, <1>4 DEF Linked, Listed, Early
<1>6. CASE list = <<>>
  <2>1. q.ref = r0.ref /\ q.list = InsertAt(r0.list, 1, t) /\ t \in q.next /\ MinTicks <= q.alarm
    BY <1>0, <1>1, <1>4, <1>5, <1>6, NewHeadIs
  <2> QED
    BY <1>4, <2>1
<1>7. CASE list # <<>> /\ r1.stamp[t] < stamp[Head(list)]
  <2>1. q.ref = r1.ref /\ q.list = InsertAt(r1.list, 1, t) /\ t \in q.next /\ MinTicks <= q.alarm
    BY <1>0, <1>1, <1>3, <1>5, <1>7, NewHeadIs
  <2> QED
    BY <1>3, <2>1
<1>8. CASE list # <<>> /\ ~(r1.stamp[t] < stamp[Head(list)])
  <2>1. PICK p \in 2 .. Len(list) + 1 : q = [r1 EXCEPT !.list = InsertAt(list, p, t)]
    BY <1>1, <1>3, <1>8, AfterHeadIs
  <2>2. PICK l : l = InsertAt(list, p, t)
    OBVIOUS
  <2>3. /\ q.list = l /\ q.ref = ref /\ q.alarm = alarm /\ q.running = running
        /\ q.next = next \ {t} /\ q.stamp = r1.stamp
    BY <1>3, <2>1, <2>2 DEF Records
  <2>4. Head(list) \in Timers /\ Head(list) # t
    <3>1. Len(list) \in Nat \ {0} /\ Head(list) = list[1] /\ list[1] \in Timers
          /\ 1 \in DOMAIN list
      BY <1>0, <1>8
    <3> QED
      BY <1>0, <3>1 DEF Listed
  <2> QED
    BY <1>3, <1>8, <2>2, <2>3, <2>4
<1> QED
  BY <1>6, <1>7, <1>8

\* There is room for a timer that is not in the list.
LEMMA RoomFor ==
    ASSUME IInv, Bounded, NEW t \in scenario.timers, t \notin Listed(State)
    PROVE  Len(list) < Count
<1>1. list \in Seq(Timers) /\ Linked(list, next) /\ State.list = list
  BY StateIs
<1>2. Len(list) \in Nat /\ DOMAIN list = 1 .. Len(list) /\ list \in [1 .. Len(list) -> Timers]
  BY <1>1
<1>3. list \in [1 .. Len(list) -> scenario.timers]
  BY <1>2 DEF Bounded
<1>4. list \in Injection(1 .. Len(list), scenario.timers)
  BY <1>1, <1>2, <1>3 DEF Linked, Injection, IsInjective
<1>5. list \notin Surjection(1 .. Len(list), scenario.timers)
  BY <1>1, <1>2 DEF Surjection, Listed
<1>6. Cardinality(1 .. Len(list)) # Count
  BY <1>4, <1>5, ScenarioIs, FS_Injection DEF Count
<1>7. Cardinality(1 .. Len(list)) = Len(list)
  <2>1. PICK n \in Nat : n = Len(list)
    BY <1>2
  <2>2. Cardinality(1 .. n) = n
    BY FS_Interval
  <2> QED
    BY <2>1, <2>2
<1> QED
  BY <1>6, <1>7, AtMostCount, ScenarioIs

\* What the order says of the first and the last of a list.
LEMMA OrderedIs ==
    ASSUME NEW l \in Seq(Timers), l # <<>>, NEW b \in Nat, NEW s \in [Timers -> Counter],
           NEW n \in Nat, NEW f \in Times, Ordered(l, b, s, n, f)
    PROVE  /\ \A i \in 1 .. Len(l) : f[l[i]] \in Int /\ f[l[i]] <= f[l[Len(l)]]
           /\ b + s[l[1]] - n \in Int
           /\ b + s[l[1]] - n > MinTicks => b + s[l[1]] - n <= f[l[1]]
<1>1. Len(l) \in Nat \ {0} /\ \A i \in 1 .. Len(l) : l[i] \in Timers
  OBVIOUS
<1>2. \A u \in Timers : s[u] \in Nat /\ f[u] \in Int
  BY CounterIsNat, TimesAre
<1>3. ASSUME NEW i \in 1 .. Len(l) PROVE f[l[i]] \in Int /\ f[l[i]] <= f[l[Len(l)]]
  <2>1. Len(l) \in 1 .. Len(l) /\ f[l[i]] \in Int /\ (i < Len(l) \/ i = Len(l))
    BY <1>1, <1>2
  <2> QED
    BY <2>1 DEF Ordered
<1>4. PICK x \in Nat, y \in Int : x = s[l[1]] /\ y = f[l[1]]
  BY <1>1, <1>2
<1>5. x > n - b + MinTicks => b + x <= n + y
  <2>1. 1 \in 1 .. Len(l)
    BY <1>1
  <2> QED
    BY <1>4, <2>1 DEF Ordered
<1>6. b + x - n \in Int /\ (b + x - n > MinTicks => b + x - n <= y)
  BY <1>5, Ticks
<1> QED
  BY <1>3, <1>4, <1>6

LEMMA StopPaced == ASSUME Unwrapped, LInv, NEW t \in Timers, TimerStop(t) PROVE Paced'
<1>1. PICK q : q = Stopped(t, State)
  OBVIOUS
<1>2. /\ Becomes(q) /\ now' = now /\ pending' = pending /\ callback' = callback
      /\ waited' = waited /\ scenario' = scenario /\ left' = left
  BY <1>1 DEF TimerStop
<1>3. /\ list' = q.list /\ ref' = q.ref /\ next' = q.next /\ running' = q.running
      /\ alarm' = q.alarm /\ enabled' = q.enabled /\ compare' = q.compare
      /\ \A u \in Timers : u # t => stamp'[u] = q.stamp[u]
  BY <1>2 DEF Becomes
<1> QED
  BY <1>1, <1>2, <1>3, StoppedPaced

LEMMA SetValuePaced ==
    ASSUME Unwrapped, LInv, NEW t \in Timers, TimerSetValue(t) PROVE Paced'
<1>1. PICK q : q = Stopped(t, State)
  OBVIOUS
<1>2. /\ now' = now /\ pending' = pending /\ callback' = callback
      /\ waited' = waited /\ scenario' = scenario /\ left' = left
  BY DEF TimerSetValue
<1>3. PICK ticks : Becomes([q EXCEPT !.stamp[t] = ticks, !.reload[t] = ticks])
  BY <1>1 DEF TimerSetValue
<1>4. q \in Records
  <2>1. Early /\ Good(State, now, pending)
    BY InvIsEarly DEF LInv, OInv, IInv
  <2>2. Good(q, now, pending)
    BY <1>1, <2>1, StoppedGood
  <2> QED
    BY <2>2 DEF Good
<1> DEFINE r == [q EXCEPT !.stamp[t] = ticks, !.reload[t] = ticks]
<1>5. /\ r.list = q.list /\ r.ref = q.ref /\ r.next = q.next /\ r.running = q.running
      /\ r.alarm = q.alarm /\ r.enabled = q.enabled /\ r.compare = q.compare
      /\ \A u \in Timers : u # t => r.stamp[u] = q.stamp[u]
  BY <1>4 DEF Records
<1>6. Becomes(r)
  BY <1>3
<1> HIDE DEF r
<1>7. /\ list' = q.list /\ ref' = q.ref /\ next' = q.next /\ running' = q.running
      /\ alarm' = q.alarm /\ enabled' = q.enabled /\ compare' = q.compare
      /\ \A u \in Timers : u # t => stamp'[u] = q.stamp[u]
  BY <1>5, <1>6 DEF Becomes
<1> QED
  BY <1>1, <1>2, <1>7, StoppedPaced

LEMMA StartPaced ==
    ASSUME Unwrapped, LInv, NEW t \in scenario.timers, TimerStart(t) PROVE Paced'
<1>1. /\ OInv /\ IInv /\ Bounded /\ Begun /\ Exact /\ waited \in Nat /\ t \in Timers
      /\ list \in Seq(Timers) /\ Linked(list, next) /\ ref <= now
      /\ ref \in Nat /\ now \in Nat /\ left \in Times
      /\ waited <= scenario.delay /\ scenario.delay \in Nat
  BY StateIs, InvIsEarly, CounterIsNat, ScenarioIs
     DEF LInv, OInv, Kept, Paced, Bounded, Early
<1>2. OInv'
  BY <1>1, StartOrders
<1>3. PICK r : r = Started(t, State)
  OBVIOUS
<1>4. /\ Becomes(r) /\ left' = [left EXCEPT ![t] = reload[t]]
      /\ now' = now /\ pending' = pending /\ callback' = callback
      /\ waited' = waited /\ scenario' = scenario
      /\ t \notin Listed(State) /\ reload[t] > 0
  BY <1>3 DEF TimerStart
<1>5. /\ list' = r.list /\ ref' = r.ref /\ next' = r.next /\ running' = r.running
      /\ alarm' = r.alarm /\ stamp' = r.stamp
  BY <1>4 DEF Becomes
<1>6. /\ ref' = ref \/ ref' = now
      /\ \/ list' = InsertAt(list, 1, t) /\ t \in next' /\ MinTicks <= alarm'
         \/ /\ list # <<>> /\ ref' = ref /\ alarm' = alarm /\ running' = running
            /\ next' = next \ {t} /\ stamp'[Head(list)] = stamp[Head(list)]
            /\ \E p \in 2 .. Len(list) + 1 : list' = InsertAt(list, p, t)
  BY <1>1, <1>3, <1>4, <1>5, StartedIs
<1>7. Len(list) \in Nat /\ 1 \in 1 .. Len(list) + 1
  BY <1>1
<1>8. PICK p \in 1 .. Len(list) + 1 : /\ list' = InsertAt(list, p, t)
                                      /\ p = 1 => t \in next' /\ MinTicks <= alarm'
                                      /\ p # 1 => /\ list # <<>> /\ ref' = ref /\ alarm' = alarm
                                                  /\ running' = running /\ next' = next \ {t}
                                                  /\ stamp'[Head(list)] = stamp[Head(list)]
  BY <1>6, <1>7
<1>9. /\ list' \in Seq(Timers) /\ Len(list') = Len(list) + 1
      /\ \A j \in 1 .. Len(list) + 1 :
            list'[j] = IF j < p THEN list[j] ELSE IF j = p THEN t ELSE list[j - 1]
  BY <1>1, <1>8, InsertAtIs
<1>10. Len(list) < Count
  BY <1>1, <1>4, RoomFor
<1>11. \A j \in 1 .. Len(list') : list'[j] \in scenario.timers
  <2> SUFFICES ASSUME NEW j \in 1 .. Len(list') PROVE list'[j] \in scenario.timers
    OBVIOUS
  <2>1. j < p => j \in 1 .. Len(list)
    BY <1>7, <1>9
  <2>2. p < j => j - 1 \in 1 .. Len(list)
    BY <1>7, <1>9
  <2>3. j < p \/ j = p \/ p < j
    BY <1>7
  <2>4. j \in 1 .. Len(list) + 1
    BY <1>9
  <2>5. CASE j < p
    BY <1>1, <1>9, <2>1, <2>4, <2>5 DEF Bounded
  <2>6. CASE j = p
    BY <1>9, <2>4, <2>6
  <2>7. CASE p < j
    <3>1. list'[j] = list[j - 1]
      BY <1>7, <1>9, <2>4, <2>7
    <3> QED
      BY <1>1, <2>2, <2>7, <3>1 DEF Bounded
  <2> QED
    BY <2>3, <2>5, <2>6, <2>7
<1>12. Bounded'
  BY <1>1, <1>4, <1>11 DEF Bounded
<1>13. PICK m \in Nat : m = reload[t] /\ MinTicks <= m
  <2>1. reload[t] \in Nat
    BY <1>1, StateIs, CounterIsNat
  <2> QED
    BY <1>1, <1>4, <2>1 DEF OInv, Kept
<1>14. /\ left'[t] = m /\ \A u \in Timers : u # t => left'[u] = left[u]
  BY <1>1, <1>4, <1>13 DEF Times
<1>15. /\ Ordered(list', ref', stamp', now', left') /\ left' \in Times
       /\ stamp' \in [Timers -> Counter] /\ ref' \in Nat /\ now' \in Nat
  <2>1. /\ left' \in Times /\ InOrderOf(State, left)'
    BY <1>2 DEF OInv, Kept
  <2>2. Ordered(list', ref', stamp', now', left')
    BY <2>1 DEF InOrderOf, State, Ordered
  <2>3. State' \in Records
    BY <1>2 DEF OInv, IInv, Good
  <2>4. stamp' \in [Timers -> Counter]
    BY <2>3 DEF Records, State
  <2> QED
    BY <1>1, <1>4, <1>6, <2>1, <2>2, <2>4
<1>16. list' # <<>> /\ Head(list') = list'[1] /\ 1 \in 1 .. Len(list') /\ p \in 1 .. Len(list')
  BY <1>7, <1>9
<1>17. /\ \A i \in 1 .. Len(list') : left'[list'[i]] \in Int /\ left'[list'[i]] <= Last'
       /\ Away' \in Int /\ (Away' > MinTicks => Away' <= left'[Head(list')])
  <2>1. /\ \A i \in 1 .. Len(list') :
              left'[list'[i]] \in Int /\ left'[list'[i]] <= left'[list'[Len(list')]]
        /\ ref' + stamp'[list'[1]] - now' \in Int
        /\ ref' + stamp'[list'[1]] - now' > MinTicks =>
              ref' + stamp'[list'[1]] - now' <= left'[list'[1]]
    BY <1>9, <1>15, <1>16, OrderedIs
  <2>2. Away' = ref' + stamp'[list'[1]] - now' /\ Last' = left'[list'[Len(list')]]
    BY <1>16 DEF Away, Last
  <2> QED
    BY <1>16, <2>1, <2>2
<1>18. \A j \in 1 .. Len(list') : p <= j => left'[list'[j]] >= m
  <2> SUFFICES ASSUME NEW j \in 1 .. Len(list'), p <= j PROVE left'[list'[j]] >= m
    OBVIOUS
  <2>1. list'[p] = t
    BY <1>7, <1>8, <1>9
  <2>2. p = j \/ p < j
    BY <1>7
  <2>3. p < j => left'[list'[p]] <= left'[list'[j]]
    BY <1>15, <1>16 DEF Ordered
  <2> QED
    BY <1>14, <1>17, <2>1, <2>2, <2>3
<1>19. Last' \in Int /\ m <= Last'
  <2>1. list'[p] = t /\ Len(list') \in 1 .. Len(list')
    BY <1>7, <1>8, <1>9
  <2>2. Last' \in Int /\ left'[list'[p]] <= Last'
    BY <1>16, <1>17, <2>1 DEF Last
  <2> QED
    BY <1>14, <2>1, <2>2
<1>20. Away' <= Last'
  <2>1. left'[Head(list')] \in Int /\ left'[Head(list')] <= Last'
    BY <1>16, <1>17
  <2> QED
    BY <1>13, <1>17, <1>19, <2>1, Ticks
<1>21. Begun'
  <2>1. callback' # None => MinTicks <= ref'
    BY <1>1, <1>4, <1>6, Ticks DEF Begun
  <2>2. running' => MinTicks <= alarm'
    BY <1>1, <1>8 DEF Begun
  <2> QED
    BY <2>1, <2>2 DEF Begun
<1>22. AllListed'
  <2>1. MinTicks <= waited' + Last'
    <3>1. PICK w \in Nat, x \in Int : w = waited' /\ x = Last' /\ m <= x
      BY <1>1, <1>4, <1>19
    <3>2. MinTicks \in Nat /\ MinTicks <= m
      BY <1>13, Ticks
    <3>3. m <= x
      BY <3>1
    <3>4. MinTicks <= w + x
      BY <3>2, <3>3
    <3> QED
      BY <3>1, <3>4
  <2> QED
    BY <1>20, <2>1 DEF AllListed
<1>23. CASE p = 1
  <2>1. Head(list') = t /\ t \in next'
    BY <1>8, <1>9, <1>16, <1>23
  <2>2. Exact'
    BY <2>1 DEF Exact
  <2>3. InTime'
    <3> SUFFICES ASSUME NEW j \in 1 .. Len(list'), left'[list'[j]] < 0 PROVE FALSE
      BY DEF InTime
    <3>1. left'[list'[j]] >= m /\ left'[list'[j]] \in Int
      BY <1>7, <1>9, <1>17, <1>18, <1>23
    <3> QED
      BY <3>1
  <2> QED
    BY <1>12, <1>21, <1>22, <2>2, <2>3 DEF Paced
<1>24. CASE p # 1
  <2>1. /\ list # <<>> /\ ref' = ref /\ next' = next \ {t}
        /\ stamp'[Head(list)] = stamp[Head(list)]
    BY <1>8, <1>24
  <2>2. Head(list) = list[1] /\ Head(list) \in Timers /\ 1 \in 1 .. Len(list)
    BY <1>1, <2>1
  <2>3. Head(list) # t
    BY <1>1, <1>4, <2>2 DEF Listed, State
  <2>4. Head(list') = Head(list)
    <3>1. 1 < p /\ 1 \in 1 .. Len(list) + 1
      BY <1>7, <1>24
    <3> QED
      BY <1>9, <1>16, <2>2, <3>1
  <2>5. left'[Head(list)] = left[Head(list)]
    BY <1>14, <2>2, <2>3
  <2>6. Head(list) \in next' <=> Head(list) \in next
    BY <2>1, <2>3
  <2>7. Wait' = Wait /\ (Stale' <=> Stale) /\ Exact'
    BY <1>1, <1>4, <1>16, <2>1, <2>4, <2>5, <2>6, SameHead
  <2>8. \A j \in 1 .. Len(list') : left'[list'[j]] < 0 =>
              j \in 1 .. Len(list) /\ left'[list'[j]] = left[list[j]]
    <3> SUFFICES ASSUME NEW j \in 1 .. Len(list'), left'[list'[j]] < 0
                 PROVE  j \in 1 .. Len(list) /\ left'[list'[j]] = left[list[j]]
      OBVIOUS
    <3>1. left'[list'[j]] \in Int
      BY <1>17
    <3>2. j < p
      <4>1. ~(p <= j)
        BY <1>18, <3>1
      <4> QED
        BY <1>7, <4>1
    <3>3. j \in 1 .. Len(list) /\ j \in 1 .. Len(list) + 1
      BY <1>7, <1>9, <3>2
    <3>4. list'[j] = list[j] /\ list[j] # t /\ list[j] \in Timers
      BY <1>1, <1>4, <1>9, <3>2, <3>3 DEF Listed, State
    <3> QED
      BY <1>14, <3>3, <3>4
  <2>9. (\E j \in 1 .. Len(list) : left[list[j]] < 0) => Wait \in Int
    BY LateIs
  <2>10. ~PutOff
    BY <1>7, <1>10, <1>1, ScenarioIs DEF PutOff
  <2>11. ASSUME \E j \in 1 .. Len(list) : left[list[j]] < 0
         PROVE  /\ Wait' \in Int /\ Wait' <= Wait
                /\ PutOff => PutOff' /\ Len(list') = Len(list)
                /\ Stale => Stale' /\ waited <= waited'
    BY <1>1, <1>4, <2>7, <2>9, <2>10, <2>11
  <2>12. scenario' = scenario /\ waited' \in Nat
    BY <1>1, <1>4
  <2>13. InTime'
    BY <2>8, <2>11, <2>12, Carried
  <2> QED
    BY <1>12, <1>21, <1>22, <2>7, <2>13 DEF Paced
<1> QED
  BY <1>23, <1>24

\* Nothing is late in an empty list.
LEMMA EmptyPaced ==
    ASSUME IInv, scenario' = scenario, list' = <<>>, Begun', waited' <= scenario.delay
    PROVE  Paced'
<1>1. Len(list') = 0 /\ 1 .. Len(list') = {}
  OBVIOUS
<1>2. Bounded' /\ InTime' /\ Exact'
  BY <1>1 DEF Bounded, InTime, Exact
<1>3. Len(list') # Count'
  BY <1>1, ScenarioIs, SameScenario
<1>4. AllListed'
  BY <1>3 DEF AllListed
<1> QED
  BY <1>2, <1>4 DEF Paced

\* TimerIrqHandler takes the head off and counts the others' times from now.
LEMMA IrqIs ==
    ASSUME Unwrapped, IInv, NEW q \in Records, q.list = list, q.next = next,
           q.ref = ref, q.stamp = stamp, list # <<>>, IrqHandler(q)
    PROVE  /\ list' = Tail(list) /\ ref' = now /\ ~running' /\ next' = next
           /\ callback' = Head(list)
           /\ 2 <= Len(list) => \E x \in Nat : 
                 /\ x = stamp[list[2]]
                 /\ stamp'[list[2]] = IF x > now - ref THEN x - (now - ref) ELSE 0
<1> DEFINE delta == ElapsedSince(q)
           later == Listed(q) \ {Head(q.list)}
           s == [t \in Timers |-> IF t \notin later THEN q.stamp[t]
                                  ELSE IF q.stamp[t] > delta
                                       THEN q.stamp[t] - delta ELSE 0]
           r == [q EXCEPT !.ref = now, !.running = FALSE, !.stamp = s]
<1>1. /\ Early /\ Linked(list, next) /\ ref <= now
      /\ list \in Seq(Timers) /\ ref \in Counter /\ stamp \in [Timers -> Counter]
  BY StateIs, InvIsEarly
<1>2. Run(r)
  BY DEF IrqHandler, Records
<1>3. delta = now - ref
  BY <1>1, Elapsed
<1>4. ASSUME 2 <= Len(list)
      PROVE  \E x \in Nat : /\ x = stamp[list[2]]
                            /\ s[list[2]] = IF x > now - ref THEN x - (now - ref) ELSE 0
  <2>1. /\ Len(list) \in Nat \ {0} /\ Head(list) = list[1] /\ list[2] \in Timers
        /\ 2 \in 1 .. Len(list) /\ 1 \in 1 .. Len(list)
    BY <1>1, <1>4
  <2>2. list[2] # Head(list)
    BY <1>1, <2>1 DEF Linked
  <2>3. list[2] \in later
    BY <1>1, <2>1, <2>2 DEF Listed
  <2> HIDE DEF later, delta
  <2>4. PICK x \in Nat : x = stamp[list[2]]
    BY <1>1, <2>1, CounterIsNat
  <2>5. s[list[2]] = IF x > now - ref THEN x - (now - ref) ELSE 0
    BY <1>3, <2>1, <2>3, <2>4
  <2> QED
    BY <2>4, <2>5
<1> HIDE DEF s
<1>5. /\ r.list = list /\ r.ref = now /\ r.stamp = s /\ r.next = next /\ ~r.running
      /\ DOMAIN r = DOMAIN q
  BY DEF Records
<1> HIDE DEF r
<1>6. PICK z : z = [r EXCEPT !.list = Tail(@)]
  OBVIOUS
<1>7. Becomes(z) /\ callback' = Head(r.list)
  BY <1>2, <1>6 DEF Run
<1>8. /\ z.list = Tail(list) /\ z.ref = now /\ z.stamp = s /\ z.next = next /\ ~z.running
  BY <1>5, <1>6 DEF Records
<1>9. /\ list' = Tail(list) /\ ref' = now /\ ~running' /\ next' = next /\ stamp' = s
  BY <1>7, <1>8 DEF Becomes
<1> QED
  BY <1>4, <1>5, <1>7, <1>9

LEMMA IsrPaced ==
    ASSUME Unwrapped, LInv, NEW i \in {"C", "D"}, Isr(i) PROVE Paced'
<1>1. /\ OInv /\ IInv /\ Bounded /\ Begun /\ AllListed /\ waited \in Nat
      /\ list \in Seq(Timers) /\ Linked(list, next) /\ ref <= now
      /\ ref \in Nat /\ now \in Nat /\ stamp \in [Timers -> Counter]
      /\ scenario.delay \in Nat /\ Good(State, now, pending)
      /\ callback = None => Headed(State)
  BY StateIs, InvIsEarly, CounterIsNat, ScenarioIs
     DEF LInv, OInv, Kept, Paced, Early, IInv
<1>2. PICK q : q = IF i = "C" THEN [State EXCEPT !.enabled = @ \ {"D"}] ELSE State
  OBVIOUS
<1>3. /\ callback = None /\ pending' = pending \ {i} /\ i \in pending /\ waited' = 0
      /\ i = "D" => "C" \notin pending
      /\ now' = now /\ scenario' = scenario /\ left' = left
      /\ IF Due(q) THEN IrqHandler(q) ELSE Becomes(q) /\ callback' = callback
  BY <1>2 DEF Isr
<1>4. /\ q \in Records /\ q.list = list /\ q.next = next /\ q.ref = ref
      /\ q.stamp = stamp /\ q.running = running /\ q.alarm = alarm
  BY <1>1, <1>2, StateIs DEF Records, State
<1>5. /\ Len(list) \in Nat /\ (list # <<>> <=> Len(list) # 0)
      /\ list # <<>> => /\ Head(list) = list[1] /\ Head(list) \in Timers
                        /\ Head(list) \in next /\ running /\ alarm = stamp[Head(list)]
                        /\ Away \in Int
  <2>1. list # <<>> => Head(list) \in next /\ running /\ alarm = stamp[Head(list)]
    BY <1>1, <1>3 DEF Headed, Good, Armed, State
  <2> QED
    BY <1>1, <2>1, OrderIs
<1>6. CASE ~Due(q)
  <2>1. /\ list' = list /\ ref' = ref /\ next' = next /\ running' = running
        /\ alarm' = alarm /\ stamp' = stamp /\ callback' = callback
    BY <1>3, <1>4, <1>6 DEF Becomes
  <2>2. Begun'
    BY <1>1, <2>1 DEF Begun
  <2>3. Bounded'
    BY <1>1, <1>3, <2>1 DEF Bounded
  <2>4. CASE list = <<>>
    BY <1>1, <1>3, <2>1, <2>2, <2>4, EmptyPaced
  <2>5. CASE list # <<>>
    <3>1. PICK x \in Nat : x = stamp[Head(list)]
      BY <1>1, <1>5, <2>5, CounterIsNat
    <3>2. now < x
      BY <1>1, <1>4, <1>5, <1>6, <2>5, <3>1 DEF Due
    <3>3. ~PutOff /\ ~Stale
      BY <1>1, <1>3, <3>1, <3>2 DEF PutOff, Stale
    <3>4. Away > 0 /\ Away' = Away
      <4>1. Away = ref + x - now
        BY <3>1 DEF Away
      <4> QED
        BY <1>1, <1>3, <2>1, <3>2, <4>1 DEF Away
    <3>5. Wait = Away /\ Wait' = Away
      <4>1. Wait = WaitOf(TRUE, Away, waited) /\ Wait' = WaitOf(TRUE, Away, 0)
        BY <1>3, <1>5, <2>1, <2>5, <3>4 DEF Wait, WaitOf
      <4>2. -waited <= Away /\ -0 <= Away
        BY <1>1, <1>5, <2>5, <3>4
      <4> QED
        BY <1>1, <1>5, <2>5, <4>1, <4>2, WaitIs
    <3>6. Exact'
      BY <1>5, <2>1, <2>5 DEF Exact
    <3>7. AllListed'
      <4>1. Last' = Last /\ Count' = Count
        BY <1>3, <2>1, SameScenario DEF Last
      <4> QED
        BY <1>1, <1>5, <2>1, <2>5, <3>3, <3>4, <4>1 DEF AllListed
    <3>8. ASSUME \E j \in 1 .. Len(list) : left[list[j]] < 0
          PROVE  /\ Wait' \in Int /\ Wait' <= Wait
                 /\ PutOff => PutOff' /\ Len(list') = Len(list)
                 /\ Stale => Stale' /\ waited <= waited'
      BY <1>5, <2>5, <3>3, <3>5
    <3>9. InTime'
      <4>1. /\ scenario' = scenario /\ waited' \in Nat
            /\ \A j \in 1 .. Len(list') : left'[list'[j]] < 0 =>
                  j \in 1 .. Len(list) /\ left'[list'[j]] = left[list[j]]
        BY <1>3, <2>1
      <4> QED
        BY <3>8, <4>1, Carried
    <3> QED
      BY <2>2, <2>3, <3>6, <3>7, <3>9 DEF Paced
  <2> QED
    BY <2>4, <2>5
<1>7. CASE Due(q) /\ list = <<>>
  <2>1. PICK r : r = [q EXCEPT !.ref = now, !.running = FALSE]
    OBVIOUS
  <2>2. Becomes(r) /\ callback' = callback
    BY <1>3, <1>4, <1>7, <2>1 DEF IrqHandler
  <2>3. r.list = <<>> /\ ~r.running
    BY <1>4, <1>7, <2>1 DEF Records
  <2>4. Begun' /\ list' = <<>>
    BY <1>3, <2>2, <2>3 DEF Begun, Becomes
  <2> QED
    BY <1>1, <1>3, <2>4, EmptyPaced
<1>8. CASE Due(q) /\ list # <<>>
  <2>1. /\ list' = Tail(list) /\ ref' = now /\ ~running' /\ next' = next
        /\ callback' = Head(list)
        /\ 2 <= Len(list) => \E x \in Nat : 
              /\ x = stamp[list[2]]
              /\ stamp'[list[2]] = IF x > now - ref THEN x - (now - ref) ELSE 0
    BY <1>1, <1>3, <1>4, <1>8, IrqIs
  <2>2. /\ list' \in Seq(Timers) /\ Len(list') = Len(list) - 1
        /\ \A j \in 1 .. Len(list') : list'[j] = list[j + 1]
    BY <1>1, <1>8, <2>1, HeadTailProperties
  <2>3. MinTicks <= now
    <3>1. PICK x \in Nat : x = alarm
      BY <1>1, <1>5, <1>8, CounterIsNat
    <3>2. MinTicks <= x /\ x <= now
      BY <1>1, <1>4, <1>5, <1>8, <3>1 DEF Begun, Due
    <3> QED
      BY <1>1, <3>1, <3>2, Ticks
  <2>4. Begun'
    BY <2>1, <2>3 DEF Begun
  <2>5. ASSUME 2 <= Len(list)
        PROVE  /\ list' # <<>> /\ Head(list') = list[2] /\ Head(list') \notin next'
               /\ Away' \in Nat /\ left[list[2]] \in Int
               /\ Away' > 0 => Away' <= left[list[2]]
    <3>1. 2 \in 2 .. Len(list) /\ 2 \in 1 .. Len(list) /\ 1 \in 1 .. Len(list')
      BY <1>5, <2>2, <2>5
    <3>2. list' # <<>> /\ Head(list') = list[2]
      BY <2>2, <3>1
    <3>3. /\ list[2] \notin next /\ left[list[2]] \in Int
          /\ ref + stamp[list[2]] > now => ref + stamp[list[2]] <= now + left[list[2]]
      BY <1>1, <3>1, OrderIs
    <3>4. PICK x \in Nat : /\ x = stamp[list[2]]
                           /\ stamp'[list[2]] = IF x > now - ref THEN x - (now - ref) ELSE 0
      BY <2>1, <2>5
    <3>5. PICK y \in Int : y = left[list[2]]
      BY <3>3
    <3>6. PICK z \in Nat : z = IF x > now - ref THEN x - (now - ref) ELSE 0
      BY <1>1, <3>4
    <3>7. Away' = z
      <4>1. Away' = now + z - now
        BY <1>3, <2>1, <3>2, <3>4, <3>6 DEF Away
      <4> QED
        BY <1>1, <3>6, <4>1
    <3>8. ref + x > now => ref + x <= now + y
      BY <3>3, <3>4, <3>5
    <3>9. z > 0 => z <= y
      BY <1>1, <3>5, <3>6, <3>8
    <3> QED
      BY <2>1, <3>2, <3>3, <3>5, <3>7, <3>9
  <2>6. list' # <<>> => 2 <= Len(list)
    BY <1>5, <2>2
  <2>7. Exact'
    <3>1. 2 <= Len(list) => 2 <= Count'
      BY <1>1, <1>3, <1>5, AtMostCount, ScenarioIs, SameScenario
    <3> QED
      BY <1>3, <2>5, <2>6, <3>1 DEF Exact
  <2>8. ASSUME 2 <= Len(list), left[list[2]] < 0
        PROVE  /\ Wait' \in Int /\ Wait' <= MinTicks
               /\ PutOff /\ Away < 0 => Stale'
    <3>1. Away' = 0
      BY <2>5, <2>8
    <3>2. Wait' = WaitOf(FALSE, 0, 0)
      BY <1>3, <2>5, <2>8, <3>1 DEF Wait, WaitOf
    <3>3. Wait' \in Int /\ Wait' <= MinTicks
      BY <3>2, Ticks DEF WaitOf
    <3>4. PutOff /\ Away < 0 => Stale'
      <4> SUFFICES ASSUME PutOff, Away < 0 PROVE Stale'
        OBVIOUS
      <4>1. "C" \in pending /\ "D" \in pending
        <5>1. Away <= 0
          BY <1>5, <1>8
        <5> QED
          BY <5>1 DEF PutOff
      <4>2. i = "C" /\ pending' # {}
        BY <1>3, <4>1
      <4>3. callback' # None
        BY <1>5, <1>8, <2>1, TimerAssumption
      <4>4. Away' <= -waited'
        BY <1>3, <3>1
      <4> QED
        BY <2>1, <2>3, <2>5, <2>8, <4>2, <4>3, <4>4 DEF Stale
    <3> QED
      BY <3>3, <3>4
  <2>9. /\ AllListed' /\ InTime'
        /\ \A j \in 1 .. Len(list') : list'[j] \in scenario.timers
    <3>1. /\ scenario' = scenario /\ left' = left /\ waited' \in Nat /\ list # <<>>
      BY <1>3, <1>8
    <3> QED
      BY <2>2, <2>8, <3>1, HeadGone
  <2>10. Bounded'
    BY <1>1, <1>3, <2>9 DEF Bounded
  <2> QED
    BY <2>4, <2>7, <2>9, <2>10 DEF Paced
<1> QED
  BY <1>6, <1>7, <1>8

\* A callback returns when the head has expired.
LEMMA NextExpiredPaced ==
    ASSUME Unwrapped, LInv, CallbackReturns, Expired(State) PROVE Paced'
<1>1. /\ OInv /\ IInv /\ Bounded /\ Begun /\ waited \in Nat
      /\ list \in Seq(Timers) /\ ref <= now /\ ref \in Nat /\ now \in Nat
      /\ scenario.delay \in Nat /\ State \in Records
  BY StateIs, InvIsEarly, CounterIsNat, ScenarioIs
     DEF LInv, OInv, Kept, Paced, Early
<1>2. /\ callback # None /\ waited' = 0 /\ now' = now /\ pending' = pending
      /\ scenario' = scenario /\ left' = left
  BY DEF CallbackReturns
<1>3. /\ list # <<>> /\ list' = Tail(list) /\ ref' = ref /\ stamp' = stamp /\ next' = next
      /\ running' = running /\ alarm' = alarm /\ callback' = Head(list)
  <2>1. PICK z : z = [State EXCEPT !.list = Tail(@)]
    OBVIOUS
  <2>2. Becomes(z) /\ callback' = Head(State.list)
    BY <2>1 DEF CallbackReturns, Run
  <2>3. /\ z.list = Tail(list) /\ z.ref = ref /\ z.stamp = stamp /\ z.next = next
        /\ z.running = running /\ z.alarm = alarm /\ State.list = list
    BY <1>1, <2>1 DEF Records, State
  <2> QED
    BY <2>2, <2>3 DEF Becomes, Expired
<1>4. Len(list) \in Nat /\ Len(list) # 0 /\ Head(list) \in Timers
  BY <1>1, <1>3, OrderIs
<1>5. /\ list' \in Seq(Timers) /\ Len(list') = Len(list) - 1
      /\ \A j \in 1 .. Len(list') : list'[j] = list[j + 1]
  BY <1>1, <1>3, HeadTailProperties
<1>6. Begun' /\ ~PutOff
  BY <1>1, <1>2, <1>3 DEF Begun, PutOff
<1>7. ASSUME 2 <= Len(list)
      PROVE  /\ list' # <<>> /\ Head(list') = list[2] /\ Head(list') \notin next'
             /\ Away' \in Int /\ left[list[2]] \in Int
             /\ Away' > 0 => Away' <= left[list[2]]
  <2>1. 2 \in 2 .. Len(list) /\ 2 \in 1 .. Len(list) /\ 1 \in 1 .. Len(list')
    BY <1>4, <1>5, <1>7
  <2>2. list' # <<>> /\ Head(list') = list[2]
    BY <1>5, <2>1
  <2>3. /\ list[2] \notin next /\ left[list[2]] \in Int /\ stamp[list[2]] \in Nat
        /\ ref + stamp[list[2]] > now => ref + stamp[list[2]] <= now + left[list[2]]
    BY <1>1, <2>1, OrderIs
  <2>4. PICK x \in Nat, y \in Int : x = stamp[list[2]] /\ y = left[list[2]]
    BY <2>3
  <2>5. Away' = ref + x - now
    BY <1>2, <1>3, <2>2, <2>4 DEF Away
  <2>6. ref + x > now => ref + x <= now + y
    BY <2>3, <2>4
  <2>7. ref + x - now \in Int /\ (ref + x - now > 0 => ref + x - now <= y)
    BY <1>1, <2>6
  <2> QED
    BY <1>3, <2>2, <2>3, <2>4, <2>5, <2>7
<1>8. list' # <<>> => 2 <= Len(list)
  BY <1>4, <1>5
<1>9. Exact'
  <2>1. 2 <= Len(list) => 2 <= Count'
    BY <1>1, <1>2, <1>4, AtMostCount, ScenarioIs, SameScenario
  <2> QED
    BY <1>2, <1>7, <1>8, <2>1 DEF Exact
<1>10. ASSUME 2 <= Len(list), left[list[2]] < 0
       PROVE  Wait' \in Int /\ Wait' <= MinTicks
  <2>1. PICK x \in Int : x = Away' /\ x <= 0
    BY <1>7, <1>10
  <2>2. Wait' = IF x < 0 THEN -0 ELSE x + MinTicks
    BY <1>2, <1>7, <1>10, <2>1 DEF Wait, WaitOf
  <2>3. CASE x < 0
    BY <2>2, <2>3, Ticks
  <2>4. CASE ~(x < 0)
    <3>1. x = 0
      BY <2>1, <2>4
    <3> QED
      BY <2>2, <2>4, <3>1, Ticks
  <2> QED
    BY <2>3, <2>4
<1>11. /\ AllListed' /\ InTime'
       /\ \A j \in 1 .. Len(list') : list'[j] \in scenario.timers
  <2>1. scenario' = scenario /\ left' = left /\ waited' \in Nat
    BY <1>2
  <2> QED
    BY <1>3, <1>5, <1>6, <1>10, <2>1, HeadGone
<1>12. Bounded'
  BY <1>1, <1>2, <1>11 DEF Bounded
<1> QED
  BY <1>6, <1>9, <1>11, <1>12 DEF Paced

\* A callback returns, and the head has the alarm or gets it.
LEMMA AlarmSetPaced ==
    ASSUME Unwrapped, LInv, CallbackReturns, ~Expired(State) PROVE Paced'
<1>1. /\ OInv /\ IInv /\ Bounded /\ Begun /\ AllListed /\ Exact /\ waited \in Nat
      /\ waited <= scenario.delay /\ Linked(list, next)
      /\ list \in Seq(Timers) /\ ref <= now /\ ref \in Nat /\ now \in Nat
      /\ ref \in Counter /\ stamp \in [Timers -> Counter]
      /\ scenario.delay \in Nat /\ State \in Records /\ Early
      /\ State.list = list /\ State.next = next /\ State.ref = ref /\ State.stamp = stamp
  BY StateIs, InvIsEarly, CounterIsNat, ScenarioIs
     DEF LInv, OInv, Kept, Paced, Bounded, Early
<1>2. /\ callback # None /\ waited' = 0 /\ now' = now /\ pending' = pending
      /\ scenario' = scenario /\ left' = left /\ callback' = None
      /\ Becomes(IF list # <<>> /\ Head(list) \notin next THEN SetTimeout(State) ELSE State)
  BY DEF CallbackReturns
<1>3. MinTicks <= ref /\ ~PutOff
  BY <1>1, <1>2 DEF Begun, PutOff
<1>4. ASSUME list = <<>> \/ Head(list) \in next
      PROVE  /\ list' = list /\ ref' = ref /\ next' = next /\ running' = running
             /\ alarm' = alarm /\ stamp' = stamp /\ Begun'
  <2>1. Becomes(State)
    BY <1>2, <1>4
  <2>2. /\ list' = list /\ ref' = ref /\ next' = next /\ running' = running
        /\ alarm' = alarm /\ stamp' = stamp
    BY <2>1 DEF Becomes, State
  <2> QED
    BY <1>1, <1>2, <2>2 DEF Begun
<1>5. CASE list = <<>>
  BY <1>1, <1>2, <1>4, <1>5, EmptyPaced
<1>6. ASSUME list # <<>>
      PROVE  \E x \in Nat : /\ Head(list) \in Timers /\ x = stamp[Head(list)]
                            /\ now - ref <= x /\ Away = ref + x - now
                            /\ Away \in Nat
  <2>1. Head(list) \in Timers
    BY <1>1, <1>6, OrderIs
  <2>2. PICK x \in Nat : x = stamp[Head(list)]
    BY <1>1, <2>1, CounterIsNat
  <2>3. ElapsedSince(State) = now - ref
    BY <1>1, Elapsed
  <2>4. ~(x < now - ref)
    BY <1>1, <1>6, <2>2, <2>3 DEF Expired
  <2>5. Away = ref + x - now
    BY <2>2 DEF Away
  <2> QED
    BY <1>1, <2>1, <2>2, <2>4, <2>5
<1>7. CASE list # <<>> /\ Head(list) \in next
  <2>1. /\ list' = list /\ ref' = ref /\ next' = next /\ running' = running
        /\ alarm' = alarm /\ stamp' = stamp /\ Begun'
    BY <1>4, <1>7
  <2>2. PICK x \in Nat : x = Away
    BY <1>6, <1>7
  <2>3. Away' = x
    BY <1>2, <2>1, <2>2 DEF Away
  <2>4. Wait = x /\ Wait' = x
    <3>1. ~(x < -waited) /\ ~(x < -0)
      BY <1>1, <2>2
    <3> QED
      BY <1>2, <1>7, <2>1, <2>2, <2>3, <3>1 DEF Wait, WaitOf
  <2>5. ~Stale
    BY <1>2, <1>7 DEF Stale
  <2>6. Exact' /\ Bounded'
    BY <1>1, <1>2, <1>7, <2>1 DEF Exact, Bounded
  <2>7. AllListed'
    <3>1. Last' = Last /\ Count' = Count
      BY <1>2, <2>1, SameScenario DEF Last
    <3> QED
      BY <1>1, <1>3, <1>7, <2>1, <2>2, <2>3, <3>1 DEF AllListed
  <2>8. InTime'
    <3>1. /\ scenario' = scenario /\ waited' \in Nat
          /\ \A j \in 1 .. Len(list') : left'[list'[j]] < 0 =>
                j \in 1 .. Len(list) /\ left'[list'[j]] = left[list[j]]
      BY <1>2, <2>1
    <3>2. /\ Wait' \in Int /\ Wait' <= Wait
          /\ PutOff => PutOff' /\ Len(list') = Len(list)
          /\ Stale => Stale' /\ waited <= waited'
      BY <1>3, <2>4, <2>5
    <3> QED
      BY <3>1, <3>2, Carried
  <2> QED
    BY <2>1, <2>6, <2>7, <2>8 DEF Paced
<1>8. CASE list # <<>> /\ Head(list) \notin next
  <2> DEFINE h == Head(list)
  <2>1. PICK z : z = SetTimeout(State)
    OBVIOUS
  <2>2. PICK s \in Counter :
           /\ s = IF stamp[h] < now - ref + MinTicks THEN now - ref + MinTicks ELSE stamp[h]
           /\ z.stamp = [stamp EXCEPT ![h] = s] /\ z.ref = ref /\ z.list = list
           /\ z.next = next \cup {h} /\ z.running /\ z.alarm = s
           /\ z.enabled = {"C", "D"} /\ z.compare["D"] = (ref + s + 1) % Modulus
    <3>1. /\ Early /\ State \in Records /\ State.list # <<>>
          /\ Linked(State.list, State.next) /\ State.ref <= now
      BY <1>1, <1>8
    <3>2. PICK s \in Counter :
             /\ s = IF State.stamp[Head(State.list)] < now - State.ref + MinTicks
                    THEN now - State.ref + MinTicks ELSE State.stamp[Head(State.list)]
             /\ SetTimeout(State).stamp = [State.stamp EXCEPT ![Head(State.list)] = s]
             /\ SetTimeout(State).ref = State.ref /\ SetTimeout(State).list = State.list
             /\ SetTimeout(State).next = State.next \cup {Head(State.list)}
             /\ SetTimeout(State).running /\ SetTimeout(State).alarm = s
             /\ SetTimeout(State).enabled = {"C", "D"}
             /\ SetTimeout(State).compare["D"] = (State.ref + s + 1) % Modulus
      BY <3>1, SetTimeoutIs
    <3> QED
      BY <1>1, <2>1, <3>2
  <2>3. Becomes(z)
    BY <1>2, <1>8, <2>1
  <2>4. PICK x \in Nat : /\ h \in Timers /\ x = stamp[h] /\ now - ref <= x
                         /\ Away = ref + x - now /\ Away \in Nat
    BY <1>6, <1>8
  <2>5. /\ list' = list /\ ref' = ref /\ h \in next' /\ alarm' = s
        /\ "D" \in enabled' /\ compare'["D"] = (ref + s + 1) % Modulus
        /\ stamp'[h] = s
    BY <1>1, <2>2, <2>3, <2>4 DEF Becomes
  <2> HIDE DEF h
  <2>6. s \in Nat /\ s = IF x < now - ref + MinTicks THEN now - ref + MinTicks ELSE x
    BY <2>2, <2>4, CounterIsNat
  <2>7. MinTicks <= s
    BY <1>1, <2>6, Ticks
  <2>8. PICK a \in Nat : a = Away /\ a = ref + x - now
    BY <2>4
  <2>9. Away' = IF a < MinTicks THEN MinTicks ELSE a
    <3>1. Away' = ref + s - now
      BY <1>2, <2>5 DEF Away, h
    <3> QED
      BY <1>1, <2>6, <2>8, <3>1, Ticks
  <2>10. a < MinTicks => s = now - ref + MinTicks /\ s <= now
    <3>1. a < MinTicks => s = now - ref + MinTicks
      BY <1>1, <2>6, <2>8, Ticks
    <3> QED
      BY <1>1, <1>3, <3>1, Ticks
  <2>11. Wait = a + MinTicks /\ Wait' = Away'
    <3>1. Away' \in Nat
      BY <2>9, Ticks
    <3>2. Wait = WaitOf(FALSE, a, waited) /\ Wait' = WaitOf(TRUE, Away', 0)
      BY <1>2, <1>8, <2>5, <2>8 DEF Wait, WaitOf, h
    <3>3. ~(a < 0) /\ ~(Away' < -0)
      BY <3>1
    <3> QED
      BY <3>2, <3>3 DEF WaitOf
  <2>12. Exact' /\ Bounded' /\ Begun'
    <3>1. Exact'
      BY <2>5 DEF Exact, h
    <3>2. Bounded'
      BY <1>1, <1>2, <2>5 DEF Bounded
    <3>3. Begun'
      BY <1>2, <2>5, <2>7 DEF Begun
    <3> QED
      BY <3>1, <3>2, <3>3
  <2>13. AllListed'
    <3>1. Last' = Last /\ Count' = Count
      BY <1>2, <2>5, SameScenario DEF Last
    <3> SUFFICES ASSUME Len(list) = Count, Last >= 0 PROVE Away' <= Last' \/ PutOff'
      BY <2>5, <3>1 DEF AllListed, h
    <3>2. PICK y \in Int : y = Last /\ y >= 0
      <4>1. Len(list) \in 1 .. Len(list)
        BY <1>1, <1>8
      <4> QED
        BY <1>1, <4>1, OrderIs DEF Last
    <3>3. MinTicks <= waited + y /\ a <= y
      BY <1>1, <1>3, <1>8, <2>8, <3>2 DEF AllListed
    <3>4. CASE ~(a < MinTicks)
      BY <2>9, <3>1, <3>2, <3>3, <3>4
    <3>5. CASE a < MinTicks
      <4>1. PICK x1 \in Nat : x1 = Away' /\ x1 = MinTicks
        BY <2>9, <3>5, Ticks
      <4>2. PICK d \in Nat : d = scenario.delay /\ d = scenario'.delay /\ MinTicks <= d + y
        BY <1>1, <1>2, <3>2, <3>3, Ticks
      <4>3. x1 <= d + y /\ x1 <= MinTicks + y /\ ~(x1 <= 0) /\ ~(x1 < 0) /\ -0 <= x1
        BY <3>2, <4>1, <4>2, Ticks
      <4>4. Away' <= scenario'.delay + Last' /\ Away' <= MinTicks + Last' /\ -waited' <= Away'
        BY <1>2, <3>1, <3>2, <4>1, <4>2, <4>3
      <4>5. stamp'[Head(list')] = s /\ Head(list') \in next' /\ MinTicks <= ref' /\ s <= now'
        BY <1>2, <1>3, <2>5, <2>10, <3>5 DEF h
      <4>6. compare'["D"] = (ref' + stamp'[Head(list')] + 1) % Modulus /\ "D" \in enabled'
        BY <2>5, <4>5
      <4>0. 2 <= Count
        BY <1>1, <1>8 DEF Exact
      <4>7. PutOff'
        BY <1>2, <2>5, <3>1, <4>0, <4>1, <4>3, <4>4, <4>5, <4>6 DEF PutOff
      <4> QED
        BY <4>7
    <3> QED
      BY <3>4, <3>5
  <2>14. InTime'
    <3>1. /\ scenario' = scenario /\ waited' \in Nat
          /\ \A j \in 1 .. Len(list') : left'[list'[j]] < 0 =>
                j \in 1 .. Len(list) /\ left'[list'[j]] = left[list[j]]
      BY <1>2, <2>5
    <3>2. Wait' \in Int /\ Wait' <= Wait
      <4>1. PICK x1 \in Nat : x1 = Away' /\ x1 <= a + MinTicks
        BY <2>9, Ticks
      <4> QED
        BY <2>11, <4>1
    <3>3. Stale => Stale' /\ waited <= waited'
      <4> SUFFICES ASSUME Stale PROVE Stale' /\ waited <= waited'
        OBVIOUS
      <4>1. a <= -waited /\ pending # {}
        BY <1>2, <2>8 DEF Stale
      <4>2. a = 0 /\ waited = 0
        BY <1>1, <4>1
      <4>3. s <= now
        BY <2>10, <4>2, Ticks
      <4>4. Stale'
        BY <1>2, <2>5, <4>1, <4>3 DEF Stale, h
      <4> QED
        BY <1>2, <4>2, <4>4
    <3> QED
      BY <1>3, <3>1, <3>2, <3>3, Carried
  <2> QED
    BY <2>12, <2>13, <2>14 DEF Paced
<1> QED
  BY <1>5, <1>7, <1>8

LEMMA ReturnPaced == ASSUME Unwrapped, LInv, CallbackReturns PROVE Paced'
BY NextExpiredPaced, AlarmSetPaced

\* What the invariant says of NotLate.
LEMMA InvNotLate ==
    ASSUME Unwrapped, LInv
    PROVE  \A j \in 1 .. Len(list) : left[list[j]] \in Int /\ left[list[j]] >= -Slack
<1>1. OInv /\ IInv /\ Slack \in Nat
  BY SlackIsNat DEF LInv, OInv
<1> SUFFICES ASSUME NEW j \in 1 .. Len(list), left[list[j]] < 0 PROVE left[list[j]] >= -Slack
  <2>1. \A j \in 1 .. Len(list) : left[list[j]] \in Int
    BY <1>1, OrderIs
  <2>2. \A j \in 1 .. Len(list) : ~(left[list[j]] < 0) => left[list[j]] >= -Slack
    BY <1>1, <2>1
  <2> QED
    BY <2>1, <2>2
<1>2. /\ Wait \in Int /\ -scenario.delay <= Wait
      /\ waited \in Nat /\ waited <= scenario.delay /\ Away \in Int
      /\ left[list[j]] \in Int /\ SoonEnough(j) /\ (PutOff => Wait = Away)
  BY LateIs
<1>3. /\ j \in Nat \ {0} /\ Behind(j) \in Nat /\ Count \in Nat \ {0} /\ scenario.delay \in Nat
      /\ Slack = Behind(Count) + scenario.delay
  <2>1. j \in Nat \ {0}
    BY <1>1, OrderIs
  <2> QED
    BY <1>1, <2>1, BehindIs, ScenarioIs
<1>4. PICK b \in Nat, s \in Nat, d \in Nat, w \in Nat, x \in Int, u \in Int, z \in Int :
         /\ b = Behind(j) /\ s = Slack /\ d = scenario.delay /\ w = waited
         /\ x = Away /\ u = Wait /\ z = left[list[j]]
  BY <1>1, <1>2, <1>3
<1>5. CASE Behind(j) + scenario.delay + Wait <= Slack + left[list[j]]
  <2>1. b + d + u <= s + z /\ -d <= u
    BY <1>2, <1>4, <1>5
  <2>2. z >= -s
    BY <2>1
  <2> QED
    BY <1>4, <2>2
<1>6. CASE j = Len(list) /\ PutOff
  <2>1. z = Last /\ x <= MinTicks + z /\ -w <= x /\ w <= d /\ 2 <= Count
    BY <1>2, <1>4, <1>6 DEF PutOff, Last
  <2>2. Behind(2) <= Behind(Count) /\ Behind(2) = MinTicks + d
    <3>1. Behind(2) <= Behind(Count)
      BY <1>1, <1>3, <2>1, BehindIs
    <3>2. Behind(2) = 1 * (MinTicks + d)
      BY <1>4 DEF Behind
    <3> QED
      BY <3>1, <3>2, Ticks
  <2>3. PICK c \in Int : c = Behind(Count)
    BY <1>1, <1>3, BehindIs
  <2>4. s = c + d /\ MinTicks + d <= c
    BY <1>3, <1>4, <2>2, <2>3
  <2>5. z >= -s
    BY <2>1, <2>4, Ticks
  <2> QED
    BY <1>4, <2>5
<1>7. CASE Stale /\ Behind(j) + scenario.delay - waited <= Slack + left[list[j]]
  <2>1. b + d - w <= s + z /\ w <= d
    BY <1>2, <1>4, <1>7
  <2>2. z >= -s
    BY <2>1
  <2> QED
    BY <1>4, <2>2
<1> QED
  BY <1>2, <1>5, <1>6, <1>7 DEF SoonEnough

\* A tick in numbers.
LEMMA TickIs ==
    ASSUME Unwrapped, LInv, Tick
    PROVE  /\ now' = now + 1 /\ now + 1 < Modulus
           /\ \A j \in 1 .. Len(list) : left'[list[j]] = left[list[j]] - 1
           /\ State' = State /\ callback' = callback /\ scenario' = scenario
           /\ list' = list /\ ref' = ref /\ stamp' = stamp /\ next' = next
           /\ running' = running /\ alarm' = alarm
           /\ enabled' = enabled /\ compare' = compare
           /\ pending' = pending \cup {i \in enabled : compare[i] = now'}
           /\ callback # None \/ pending # {} =>
                 waited' = waited + 1 /\ waited < scenario.delay
           /\ callback = None /\ pending = {} => waited' = 0
<1>1. IInv
  BY DEF LInv, OInv
<1>2. /\ now \in Nat /\ now < scenario.end /\ scenario.end \in Nat
      /\ scenario.end < Modulus
  <2>1. now # scenario.end
    BY DEF Tick
  <2> QED
    BY <1>1, <2>1, InvIsEarly, Ticks DEF IInv
<1>3. now' = now + 1 /\ now + 1 < Modulus
  <2> DEFINE x == now + 1
  <2>1. x \in Int /\ 0 <= x /\ x < Modulus
    BY <1>2, Ticks
  <2>2. now' = x % Modulus
    BY DEF Tick
  <2> HIDE DEF x
  <2>3. now' = x
    BY <2>1, <2>2, Remainder, Ticks
  <2> QED
    BY <2>1, <2>3 DEF x
<1>4. /\ State' = State /\ callback' = callback /\ scenario' = scenario
      /\ list' = list /\ ref' = ref /\ stamp' = stamp /\ next' = next
      /\ running' = running /\ alarm' = alarm /\ enabled' = enabled /\ compare' = compare
      /\ pending' = pending \cup {i \in enabled : compare[i] = now'}
      /\ callback # None \/ pending # {} => waited' = waited + 1 /\ waited < scenario.delay
      /\ callback = None /\ pending = {} => waited' = 0
  BY DEF Tick, rtc, timers, State
<1>5. \A j \in 1 .. Len(list) : left'[list[j]] = left[list[j]] - 1
  <2>1. left' = [t \in Timers |-> IF t \in Listed(State) /\ left[t] >= -Slack
                                  THEN left[t] - 1 ELSE left[t]]
    BY DEF Tick
  <2>2. \A j \in 1 .. Len(list) : list[j] \in Timers /\ list[j] \in Listed(State)
    <3>1. list \in Seq(Timers) /\ State.list = list
      BY <1>1, StateIs
    <3> QED
      BY <3>1 DEF Listed
  <2> QED
    BY <2>1, <2>2, InvNotLate
<1> QED
  BY <1>3, <1>4, <1>5

\* What a tick does to the alarm of the head.
LEMMA TickWait ==
    ASSUME Unwrapped, LInv, Tick, list # <<>>
    PROVE  /\ Away' = Away - 1 /\ Away \in Int
           /\ waited \in Nat /\ waited' \in Nat /\ waited' <= scenario.delay
           /\ Wait \in Int /\ Wait' \in Int /\ Wait' <= Wait - 1
           /\ Head(list) \notin next => waited' = waited + 1
           /\ Stale => Stale' /\ waited' = waited + 1
           /\ PutOff => PutOff'
<1>1. /\ OInv /\ IInv /\ Bounded /\ waited \in Nat
      /\ list \in Seq(Timers) /\ ref \in Nat /\ now \in Nat /\ scenario.delay \in Nat
      /\ Good(State, now, pending) /\ (callback = None => Headed(State))
  BY StateIs, InvIsEarly, CounterIsNat, ScenarioIs
     DEF LInv, OInv, Kept, Paced, Early, IInv
<1>2. /\ now' = now + 1 /\ now + 1 < Modulus
      /\ State' = State /\ callback' = callback /\ scenario' = scenario
      /\ list' = list /\ ref' = ref /\ stamp' = stamp /\ next' = next
      /\ enabled' = enabled /\ compare' = compare
      /\ pending' = pending \cup {i \in enabled : compare[i] = now'}
      /\ callback # None \/ pending # {} => waited' = waited + 1 /\ waited < scenario.delay
      /\ callback = None /\ pending = {} => waited' = 0
  BY TickIs
<1>3. Head(list) \in Timers /\ Head(list) = list[1] /\ Len(list) \in Nat \ {0}
  BY <1>1, OrderIs
<1>4. PICK x \in Nat : x = stamp[Head(list)]
  BY <1>1, <1>3, StateIs, CounterIsNat
<1>5. Away = ref + x - now /\ Away' = ref + x - (now + 1)
  BY <1>2, <1>4 DEF Away
<1>6. PICK a \in Int : a = Away /\ Away' = a - 1 /\ a = ref + x - now
  BY <1>1, <1>5
<1>7. PICK w \in Nat, v \in Nat : w = waited /\ v = waited' /\ v <= scenario.delay
  <2>1. CASE callback # None \/ pending # {}
    <3>1. PICK y \in Nat : y = waited
      BY <1>1
    <3>2. y + 1 \in Nat /\ y + 1 <= scenario.delay
      BY <1>1, <1>2, <2>1, <3>1
    <3> QED
      BY <1>2, <2>1, <3>1, <3>2
  <2>2. CASE callback = None /\ pending = {}
    BY <1>1, <1>2, <2>2
  <2> QED
    BY <2>1, <2>2
<1>8. \/ (callback # None \/ pending # {}) /\ v = w + 1
      \/ /\ callback = None /\ pending = {} /\ v = 0
         /\ Head(list) \in next /\ a > 0
  <2>1. CASE callback # None \/ pending # {}
    BY <1>2, <1>7, <2>1
  <2>2. CASE callback = None /\ pending = {}
    <3>1. Head(list) \in next /\ now < ref + x
      BY <1>1, <1>4, <2>2 DEF Headed, Good, Armed, State
    <3> QED
      BY <1>1, <1>2, <1>6, <1>7, <2>2, <3>1
  <2> QED
    BY <2>1, <2>2
<1>9. PICK armed : armed = (Head(list) \in next)
  OBVIOUS
<1>10. Wait = WaitOf(armed, a, w) /\ Wait' = WaitOf(armed, a - 1, v)
  BY <1>2, <1>6, <1>7, <1>9 DEF Wait
<1>11. Wait \in Int /\ Wait' \in Int /\ Wait' <= Wait - 1
  <2>1. a - 1 \in Int
    OBVIOUS
  <2>2. WaitOf(armed, a, w) \in Int /\ WaitOf(armed, a - 1, v) \in Int
    BY <2>1, WaitIs
  <2>3. CASE v = w + 1
    <3>1. WaitOf(armed, a - 1, w + 1) <= WaitOf(armed, a, w) - 1
      BY WaitIs
    <3> QED
      BY <1>10, <2>2, <2>3, <3>1
  <2>4. CASE Head(list) \in next /\ a > 0 /\ v = 0
    <3>1. Wait = IF a < -w THEN -w ELSE a
      BY <1>6, <1>7, <2>4 DEF Wait, WaitOf
    <3>2. Wait' = IF a - 1 < -v THEN -v ELSE a - 1
      BY <1>2, <1>6, <1>7, <2>4 DEF Wait, WaitOf
    <3>3. ~(a < -w) /\ ~(a - 1 < -v)
      BY <2>4
    <3> QED
      BY <3>1, <3>2, <3>3
  <2> QED
    BY <1>8, <1>9, <2>3, <2>4
<1>12. Head(list) \notin next => v = w + 1
  BY <1>8
<1>13. Stale => Stale' /\ v = w + 1
  <2> SUFFICES ASSUME Stale PROVE Stale' /\ v = w + 1
    OBVIOUS
  <2>1. pending # {} /\ v = w + 1 /\ pending' # {}
    BY <1>2, <1>8 DEF Stale
  <2>2. CASE callback # None
    <3>1. Head(list) \notin next /\ a <= -w /\ MinTicks <= ref
      BY <1>6, <1>7, <2>2 DEF Stale
    <3>2. a - 1 <= -v
      BY <2>1, <3>1
    <3>3. Away' <= -waited'
      BY <1>6, <1>7, <3>2
    <3> QED
      BY <1>2, <2>1, <2>2, <3>1, <3>3 DEF Stale
  <2>3. CASE callback = None
    <3>1. Head(list) \in next /\ x <= now
      BY <1>4, <2>3 DEF Stale
    <3>2. x <= now + 1
      BY <1>1, <3>1
    <3> QED
      BY <1>2, <1>4, <2>1, <2>3, <3>1, <3>2 DEF Stale
  <2> QED
    BY <2>2, <2>3
<1>14. PutOff => PutOff'
  <2> SUFFICES ASSUME PutOff PROVE PutOff'
    OBVIOUS
  <2>1. /\ 2 <= Count /\ Len(list) = Count /\ callback = None /\ Head(list) \in next
        /\ MinTicks <= ref /\ x <= now /\ -w <= a
        /\ a <= scenario.delay + Last /\ a <= MinTicks + Last
        /\ "D" \in enabled /\ compare["D"] = (ref + x + 1) % Modulus
        /\ a <= 0 => "C" \in pending
        /\ a < 0 => "D" \in pending
    BY <1>4, <1>6, <1>7 DEF PutOff
  <2>2. PICK y \in Int : y = Last /\ Last' = y - 1
    <3>1. Len(list) \in 1 .. Len(list)
      BY <1>3
    <3>2. Last' = Last - 1 /\ Last \in Int
      BY <1>1, <1>2, <3>1, TickIs, OrderIs DEF Last
    <3> QED
      BY <3>2
  <2>3. a - 1 <= scenario.delay + (y - 1) /\ a - 1 <= MinTicks + (y - 1)
    BY <1>1, <2>1, <2>2, Ticks
  <2>4. -v <= a - 1
    BY <1>8, <2>1
  <2>5. x <= now + 1
    BY <1>1, <2>1
  <2>6. a - 1 <= 0 => "C" \in pending'
    <3>1. CASE a <= 0
      BY <1>2, <2>1, <3>1
    <3>2. CASE a = 1
      <4>1. PICK k \in Int : k = ref + x /\ k = now + 1 /\ 0 <= k /\ k < Modulus
        BY <1>1, <1>2, <1>6, <3>2
      <4>2. "C" \in enabled /\ compare["C"] = (ref + x) % Modulus
        BY <1>1, <1>4, <2>1 DEF Good, Armed, State
      <4>3. k % Modulus = k
        BY <4>1, Remainder, Ticks
      <4> QED
        BY <1>2, <4>1, <4>2, <4>3
    <3> QED
      BY <3>1, <3>2
  <2>7. a - 1 < 0 => "D" \in pending'
    <3>1. CASE a < 0
      BY <1>2, <2>1, <3>1
    <3>2. CASE a = 0
      <4>1. PICK k \in Int : k = ref + x + 1 /\ k = now + 1 /\ 0 <= k /\ k < Modulus
        BY <1>1, <1>2, <1>6, <3>2
      <4>2. k % Modulus = k
        BY <4>1, Remainder, Ticks
      <4> QED
        BY <1>2, <2>1, <4>1, <4>2
    <3> QED
      BY <3>1, <3>2
  <2>8. Count' = Count
    BY <1>2, SameScenario
  <2>9. Away' <= scenario'.delay + Last' /\ Away' <= MinTicks + Last' /\ -waited' <= Away'
    BY <1>2, <1>6, <1>7, <2>2, <2>3, <2>4
  <2>10. stamp'[Head(list')] <= now' /\ compare'["D"] = (ref' + stamp'[Head(list')] + 1) % Modulus
    BY <1>2, <1>4, <2>1, <2>5
  <2>11. (Away' <= 0 => "C" \in pending') /\ (Away' < 0 => "D" \in pending')
    BY <1>6, <2>6, <2>7
  <2> QED
    BY <1>2, <2>1, <2>8, <2>9, <2>10, <2>11 DEF PutOff
<1> QED
  BY <1>6, <1>7, <1>11, <1>12, <1>13, <1>14

LEMMA TickPaced == ASSUME Unwrapped, LInv, Tick PROVE Paced'
<1>1. /\ OInv /\ IInv /\ Bounded /\ Begun /\ Exact /\ AllListed /\ InTime
      /\ Len(list) \in Nat /\ (list # <<>> <=> Len(list) # 0)
      /\ Len(list) <= Count /\ Count \in Nat \ {0}
      /\ scenario.delay \in Nat /\ Slack \in Nat
  BY OrderIs, AtMostCount, ScenarioIs, SlackIsNat DEF LInv, OInv, Paced
<1>2. /\ callback' = callback /\ scenario' = scenario
      /\ list' = list /\ ref' = ref /\ stamp' = stamp /\ next' = next
      /\ running' = running /\ alarm' = alarm
      /\ \A j \in 1 .. Len(list) : left'[list[j]] = left[list[j]] - 1
  BY TickIs
<1>3. Begun'
  BY <1>1, <1>2 DEF Begun
<1>4. CASE list = <<>>
  <2>1. waited' <= scenario.delay
    <3>1. waited \in Nat
      BY <1>1 DEF OInv, Kept
    <3> QED
      BY <1>1, <3>1, TickIs
  <2> QED
    BY <1>1, <1>2, <1>3, <1>4, <2>1, EmptyPaced
<1>5. CASE list # <<>>
  <2>1. /\ Away' = Away - 1 /\ Away \in Int
        /\ waited \in Nat /\ waited' \in Nat /\ waited' <= scenario.delay
        /\ Wait \in Int /\ Wait' \in Int /\ Wait' <= Wait - 1
        /\ Head(list) \notin next => waited' = waited + 1
        /\ Stale => Stale' /\ waited' = waited + 1
        /\ PutOff => PutOff'
    BY <1>5, TickWait
  <2>2. /\ 1 \in 1 .. Len(list) /\ Len(list) \in 1 .. Len(list) /\ Head(list) = list[1]
        /\ \A j \in 1 .. Len(list) : left[list[j]] \in Int /\ left[list[1]] <= left[list[j]]
    BY <1>1, <1>5, OrderIs
  <2>p. PICK a \in Int, u \in Int, w \in Nat, v \in Nat, y \in Int, z \in Int :
           /\ a = Away /\ u = Wait /\ w = waited /\ v = waited'
           /\ y = Last /\ z = left[Head(list)]
    BY <2>1, <2>2 DEF Last
  <2>3. Last' = y - 1 /\ left'[Head(list)] = z - 1 /\ Away' = a - 1
    BY <1>2, <2>1, <2>2, <2>p DEF Last
  <2>4. Bounded'
    BY <1>1, <1>2, <2>1 DEF Bounded
  <2>5. Slack' = Slack /\ Count' = Count /\ \A j : Behind(j)' = Behind(j)
    BY <1>2, SameScenario
  <2>6. Exact'
    <3>1. Head(list) \notin next /\ a > 0 => a <= z
      BY <1>1, <1>5, <2>p DEF Exact
    <3>2. Head(list) \notin next /\ a - 1 > 0 => a - 1 <= z - 1
      BY <3>1
    <3>3. Head(list) \notin next => 2 <= Count'
      BY <1>1, <1>5, <2>5 DEF Exact
    <3> QED
      BY <1>2, <2>3, <3>2, <3>3 DEF Exact
  <2>7. AllListed'
    <3> SUFFICES ASSUME Len(list) = Count, y - 1 >= 0
                 PROVE  \/ Head(list) \in next /\ a - 1 <= y - 1
                        \/ PutOff'
                        \/ Head(list) \notin next /\ MinTicks <= v + (y - 1) /\ a - 1 <= y - 1
      BY <1>2, <2>3, <2>5, <2>p DEF AllListed
    <3>1. \/ Head(list) \in next /\ a <= y
          \/ PutOff
          \/ Head(list) \notin next /\ MinTicks <= w + y /\ a <= y
      BY <1>1, <2>p DEF AllListed
    <3>2. CASE Head(list) \in next /\ a <= y
      BY <3>2
    <3>3. CASE PutOff
      BY <2>1, <3>3
    <3>4. CASE Head(list) \notin next /\ MinTicks <= w + y /\ a <= y
      <4>1. v = w + 1
        BY <2>1, <2>p, <3>4
      <4>2. MinTicks <= v + (y - 1) /\ a - 1 <= y - 1
        BY <3>4, <4>1, Ticks
      <4> QED
        BY <3>4, <4>2
    <3> QED
      BY <3>1, <3>2, <3>3, <3>4
  <2>8. ASSUME NEW j \in 1 .. Len(list), left'[list[j]] < 0 PROVE SoonEnough(j)'
    <3>1. PICK x \in Int : x = left[list[j]] /\ left'[list[j]] = x - 1 /\ x <= 0
      BY <1>2, <2>2, <2>8
    <3>2. /\ j \in Nat \ {0} /\ j <= Count /\ Behind(j) \in Nat
          /\ Behind(j + 1) = Behind(j) + MinTicks + scenario.delay
          /\ Slack = Behind(Count) + scenario.delay
      <4>1. j \in Nat \ {0} /\ j <= Count
        BY <1>1
      <4> QED
        BY <1>1, <4>1, BehindIs
    <3>3. PICK b \in Nat, s \in Nat, d \in Nat, n \in Int :
             b = Behind(j) /\ s = Slack /\ d = scenario.delay /\ n = Wait' /\ n <= u - 1
      BY <1>1, <2>1, <2>p, <3>2
    <3>4. ASSUME b + d + n <= s + (x - 1) PROVE SoonEnough(j)'
      BY <1>2, <2>5, <3>1, <3>3, <3>4 DEF SoonEnough
    <3>5. PutOff /\ j = Len(list) => SoonEnough(j)'
      BY <1>2, <2>1 DEF SoonEnough
    <3>6. CASE x < 0
      <4>1. SoonEnough(j)
        BY <1>1, <3>1, <3>6 DEF InTime
      <4>2. CASE Behind(j) + scenario.delay + Wait <= Slack + left[list[j]]
        <5>1. b + d + u <= s + x
          BY <2>p, <3>1, <3>3, <4>2
        <5>2. b + d + n <= s + (x - 1)
          BY <3>3, <5>1
        <5> QED
          BY <3>4, <5>2
      <4>3. CASE Stale /\ Behind(j) + scenario.delay - waited <= Slack + left[list[j]]
        <5>1. b + d - w <= s + x /\ v = w + 1
          BY <2>1, <2>p, <3>1, <3>3, <4>3
        <5>2. b + d - v <= s + (x - 1)
          BY <5>1
        <5> QED
          BY <1>2, <2>1, <2>5, <2>p, <3>1, <3>3, <4>3, <5>2 DEF SoonEnough
      <4> QED
        BY <3>5, <4>1, <4>2, <4>3 DEF SoonEnough
    <3>7. CASE x = 0 /\ j < Count
      <4>1. PICK c \in Int : c = Behind(Count) /\ b + MinTicks + d <= c
        <5>1. j + 1 \in Nat \ {0} /\ j + 1 <= Count /\ Count \in Nat \ {0}
          BY <1>1, <3>2, <3>7
        <5>2. Behind(j + 1) <= Behind(Count) /\ Behind(Count) \in Nat
          BY <1>1, <5>1, BehindIs
        <5> QED
          BY <3>2, <3>3, <5>2
      <4>2. z <= 0
        BY <2>2, <2>p, <3>1, <3>7
      <4>3. a <= MinTicks /\ (Head(list) \notin next => a <= 0)
        <5>1. a > MinTicks => a <= z
          BY <1>1, <1>5, <2>p, OrderIs
        <5>2. Head(list) \notin next /\ a > 0 => a <= z
          BY <1>1, <1>5, <2>p DEF Exact
        <5> QED
          BY <4>2, <5>1, <5>2, Ticks
      <4>4. u <= MinTicks
        <5>1. PICK armed : armed = (Head(list) \in next)
          OBVIOUS
        <5>2. u = WaitOf(armed, a, w)
          BY <2>p, <5>1 DEF Wait
        <5> QED
          BY <4>3, <5>1, <5>2, WaitIs
      <4>5. b + d + n <= s + (x - 1)
        <5>1. s = c + d
          BY <3>2, <3>3, <4>1
        <5>2. n <= MinTicks - 1
          BY <3>3, <4>4, Ticks
        <5> QED
          BY <3>7, <4>1, <5>1, <5>2, Ticks
      <4> QED
        BY <3>4, <4>5
    <3>8. CASE x = 0 /\ j = Count
      <4>1. j = Len(list) /\ y = 0 /\ s = b + d
        <5>1. j = Len(list)
          BY <1>1, <3>8
        <5>2. y = 0
          BY <2>p, <3>1, <3>8, <5>1 DEF Last
        <5> QED
          BY <3>2, <3>3, <3>8, <5>1, <5>2
      <4>2. \/ Head(list) \in next /\ a <= 0
            \/ PutOff
            \/ Head(list) \notin next /\ a <= 0
        BY <1>1, <2>p, <3>8, <4>1 DEF AllListed
      <4>3. ASSUME n <= -1 PROVE SoonEnough(j)'
        <5>1. b + d + n <= s + (x - 1)
          BY <3>8, <4>1, <4>3
        <5> QED
          BY <3>4, <5>1
      <4>4. CASE Head(list) \in next /\ a <= 0
        <5>1. u = IF a < -w THEN -w ELSE a
          BY <2>p, <4>4 DEF Wait, WaitOf
        <5>2. u <= 0
          BY <4>4, <5>1
        <5> QED
          BY <3>3, <4>3, <5>2
      <4>5. CASE Head(list) \notin next /\ a <= 0
        <5>1. n = IF a - 1 < 0 THEN -v ELSE a - 1 + MinTicks
          BY <1>2, <2>3, <2>p, <3>3, <4>5 DEF Wait, WaitOf
        <5>2. v = w + 1
          BY <2>1, <2>p, <4>5
        <5>3. n <= -1
          BY <4>5, <5>1, <5>2
        <5> QED
          BY <4>3, <5>3
      <4> QED
        BY <3>5, <4>1, <4>2, <4>4, <4>5
    <3> QED
      BY <1>1, <3>1, <3>2, <3>6, <3>7, <3>8
  <2>9. InTime'
    BY <1>2, <2>8 DEF InTime
  <2> QED
    BY <1>3, <2>4, <2>6, <2>7, <2>9 DEF Paced
<1> QED
  BY <1>4, <1>5

LEMMA InitPaced == ASSUME Unwrapped, Init PROVE LInv
<1>1. OInv /\ IInv
  BY InitOrders DEF OInv
<1>2. list = <<>> /\ Len(list) = 0 /\ 1 .. Len(list) = {} /\ waited = 0
      /\ ~running /\ callback = None
  BY DEF Init
<1>3. Count # Len(list) /\ 0 <= scenario.delay
  BY <1>1, <1>2, ScenarioIs
<1>4. Bounded /\ Begun /\ Exact /\ AllListed /\ InTime
  BY <1>2, <1>3 DEF Bounded, Begun, Exact, AllListed, InTime
<1> QED
  BY <1>1, <1>4 DEF LInv, Paced

LEMMA NextPaced == ASSUME Unwrapped, Reachable, LInv, [Next]_vars PROVE LInv'
<1>1. OInv'
  BY NextOrders DEF LInv
<1>2. scenario.timers \subseteq Timers
  BY TimerAssumption DEF LInv, OInv, IInv
<1>3. ASSUME NEW t \in scenario.timers, TimerStart(t) PROVE Paced'
  BY <1>3, StartPaced
<1>4. ASSUME NEW t \in scenario.timers, TimerStop(t) PROVE Paced'
  BY <1>2, <1>4, StopPaced
<1>5. ASSUME NEW t \in scenario.timers, TimerSetValue(t) PROVE Paced'
  BY <1>2, <1>5, SetValuePaced
<1>6. ASSUME NEW i \in {"C", "D"}, Isr(i) PROVE Paced'
  BY <1>6, IsrPaced
<1>7. ASSUME CallbackReturns PROVE Paced'
  BY <1>7, ReturnPaced
<1>8. ASSUME Tick PROVE Paced'
  BY <1>8, TickPaced
<1>9. ASSUME UNCHANGED vars PROVE Paced'
  <2>1. /\ list' = list /\ left' = left /\ next' = next /\ ref' = ref
        /\ running' = running /\ alarm' = alarm /\ enabled' = enabled /\ compare' = compare
        /\ stamp' = stamp /\ now' = now /\ waited' = waited /\ callback' = callback
        /\ pending' = pending /\ scenario' = scenario
    BY <1>9 DEF vars, rtc, timers
  <2> QED
    BY <2>1, SamePace
<1>10. Paced'
  BY <1>3, <1>4, <1>5, <1>6, <1>7, <1>8, <1>9 DEF Next
<1> QED
  BY <1>1, <1>10 DEF LInv

\* NotLate for any number of timers, any durations and any delay: a callback is
\* never outstanding for longer than every other timer's alarm and delay can explain,
\* whatever is started, stopped and set meanwhile, with alarms put off
\* (timer.c:371), references moved and stale interrupts.
THEOREM CalledInTime == Unwrapped /\ Reachable => (Spec => []NotLate)
<1> SUFFICES ASSUME Unwrapped, Reachable PROVE Spec => []NotLate
  OBVIOUS
<1>1. Init => LInv
  BY InitPaced
<1>2. LInv /\ [Next]_vars => LInv'
  BY NextPaced
<1>3. LInv => NotLate
  <2> SUFFICES ASSUME LInv, NEW t \in Listed(State) PROVE left[t] >= -Slack
    BY DEF NotLate
  <2>1. list \in Seq(Timers) /\ State.list = list
    BY StateIs DEF LInv, OInv
  <2>2. PICK j \in 1 .. Len(list) : t = list[j]
    BY <2>1 DEF Listed
  <2> QED
    BY <2>2, InvNotLate
<1> QED
  BY <1>1, <1>2, <1>3, PTL DEF Spec
=============================================================================
