------------------------ MODULE WsfScheduler_proofs ------------------------
(***************************************************************************)
(* Type correctness of the BLE task's scheduler, that it never sleeps on   *)
(* work, and that it services timers in time: for every number of handlers *)
(* and timers, every duration and every width of the counter (in time:     *)
(* that outlasts the timers).                                              *)
(***************************************************************************)
EXTENDS WsfScheduler, TLAPS, SequenceTheorems, WellFoundedInduction

----------------------------------------------------------------------------
(* The inductive invariant.                                                *)

\* The queue is sorted and holds no timer twice: dispatcher and alarm look
\* at its head alone.
SortedBy(q, left) ==
    \A i, j \in DOMAIN q : i < j => q[i] # q[j] /\ left[q[i]] <= left[q[j]]

Sorted == SortedBy(queue, ticks)

\* Each kind of work has its bit in the task's mask, or in the copy of the
\* mask that the dispatcher works on, if it has still to come to that kind.
MessagesMasked ==
    messages > 0 => "message" \in mask \/ (pc = "messages" /\ "message" \in todo)

TimersMasked ==
    (\E t \in Running : ticks[t] = 0) =>
        "timer" \in mask \/ (pc \in {"messages", "timers"} /\ "timer" \in todo)

EventsMasked ==
    \A h \in events :
        \/ "handler" \in mask
        \/ pc \in {"messages", "timers"} /\ "handler" \in todo
        \/ pc = "handlers" /\ index <= h

Stopped ==
    ~started => /\ pc \in {"command", "init", "ready", "wait"}
                /\ queue = <<>> /\ messages = 0
                /\ ~alarm.enabled
                /\ pc # "init" => mask = {} /\ events = {}

HandlerRuns == inHandler => pc \in {"messages", "timers", "handlers"}

WaitNotified == pc = "wait" /\ mask # {} => notified

AlarmSet == alarm.left \in 1 .. ticks[Head(queue)] * Clk

AlarmCovers ==
    /\ pc = "clear" => queue # <<>> /\ ticks[Head(queue)] > 0 /\ AlarmSet
    /\ pc \in {"ready", "wait"} /\ queue # <<>> /\ ticks[Head(queue)] > 0 =>
          "timer" \in mask \/ (alarm.enabled /\ (alarm.pending \/ AlarmSet))

IInv ==
    /\ TypeOK /\ Sorted
    /\ MessagesMasked /\ TimersMasked /\ EventsMasked
    /\ Stopped /\ HandlerRuns /\ WaitNotified /\ AlarmCovers

----------------------------------------------------------------------------
(* The queue of timers.                                                    *)

\* RemoveAt keeps the other elements in their order.
LEMMA RemoveAtElements ==
    ASSUME NEW S, NEW q \in Seq(S), NEW i \in 1 .. Len(q)
    PROVE  /\ RemoveAt(q, i) \in Seq(S)
           /\ Len(RemoveAt(q, i)) = Len(q) - 1
           /\ \A j \in 1 .. Len(q) - 1 :
                 RemoveAt(q, i)[j] = IF j < i THEN q[j] ELSE q[j + 1]
  <1> DEFINE front == SubSeq(q, 1, i - 1)
             back == SubSeq(q, i + 1, Len(q))
  <1>1. Len(q) \in Nat /\ \A j \in 1 .. Len(q) : q[j] \in S
    BY LenProperties, ElementOfSeq
  <1>2. front \in Seq(S) /\ Len(front) = i - 1 /\ \A j \in 1 .. i - 1 : front[j] = q[j]
    <2>1. \A j \in 1 .. i - 1 : q[j] \in S
      BY <1>1
    <2> QED
      BY <1>1, <2>1, SubSeqProperties
  <1>3. /\ back \in Seq(S) /\ Len(back) = Len(q) - i
        /\ \A j \in 1 .. Len(q) - i : back[j] = q[i + j]
    <2>1. \A j \in i + 1 .. Len(q) : q[j] \in S
      BY <1>1
    <2> QED
      BY <1>1, <2>1, SubSeqProperties
  <1>4. RemoveAt(q, i) = front \o back
    BY DEF RemoveAt
  <1> HIDE DEF front, back
  <1>5. /\ front \o back \in Seq(S) /\ Len(front \o back) = (i - 1) + (Len(q) - i)
        /\ \A j \in 1 .. (i - 1) + (Len(q) - i) :
              (front \o back)[j] = IF j <= i - 1 THEN front[j] ELSE back[j - (i - 1)]
    <2>1. /\ front \o back \in Seq(S) /\ Len(front \o back) = Len(front) + Len(back)
          /\ \A j \in 1 .. Len(front) + Len(back) :
                (front \o back)[j] = IF j <= Len(front) THEN front[j] ELSE back[j - Len(front)]
      BY <1>2, <1>3, ConcatProperties
    <2> QED
      BY <1>2, <1>3, <2>1
  <1>6. ASSUME NEW j \in 1 .. Len(q) - 1
        PROVE  (front \o back)[j] = IF j < i THEN q[j] ELSE q[j + 1]
    <2>1. CASE j < i
      <3>1. j \in 1 .. i - 1 /\ j \in 1 .. (i - 1) + (Len(q) - i) /\ j <= i - 1
        BY <1>1, <2>1
      <3> QED
        BY <1>2, <1>5, <2>1, <3>1
    <2>2. CASE ~(j < i)
      <3>1. /\ j - (i - 1) \in 1 .. Len(q) - i /\ j \in 1 .. (i - 1) + (Len(q) - i)
            /\ ~(j <= i - 1) /\ i + (j - (i - 1)) = j + 1
        BY <1>1, <2>2
      <3> QED
        BY <1>3, <1>5, <2>2, <3>1
    <2> QED
      BY <2>1, <2>2
  <1>7. (i - 1) + (Len(q) - i) = Len(q) - 1
    BY <1>1
  <1> QED
    BY <1>4, <1>5, <1>6, <1>7

\* InsertAt adds one element and keeps the others in their order.
LEMMA InsertAtElements ==
    ASSUME NEW S, NEW q \in Seq(S), NEW i \in 1 .. Len(q) + 1, NEW e \in S
    PROVE  /\ InsertAt(q, i, e) \in Seq(S)
           /\ Len(InsertAt(q, i, e)) = Len(q) + 1
           /\ \A j \in 1 .. Len(q) + 1 :
                 InsertAt(q, i, e)[j] = IF j < i THEN q[j] ELSE IF j = i THEN e ELSE q[j - 1]
  <1> DEFINE front == SubSeq(q, 1, i - 1)
             back == SubSeq(q, i, Len(q))
             both == front \o <<e>>
  <1>1. Len(q) \in Nat /\ \A j \in 1 .. Len(q) : q[j] \in S
    BY LenProperties, ElementOfSeq
  <1>2. front \in Seq(S) /\ Len(front) = i - 1 /\ \A j \in 1 .. i - 1 : front[j] = q[j]
    <2>1. \A j \in 1 .. i - 1 : q[j] \in S
      BY <1>1
    <2> QED
      BY <1>1, <2>1, SubSeqProperties
  <1>3. /\ back \in Seq(S) /\ Len(back) = Len(q) - i + 1
        /\ \A j \in 1 .. Len(q) - i + 1 : back[j] = q[i + j - 1]
    <2>1. \A j \in i .. Len(q) : q[j] \in S
      BY <1>1
    <2> QED
      BY <1>1, <2>1, SubSeqProperties
  <1>4. <<e>> \in Seq(S) /\ Len(<<e>>) = 1 /\ <<e>>[1] = e
    OBVIOUS
  <1> HIDE DEF front, back
  <1>5. /\ both \in Seq(S) /\ Len(both) = i
        /\ \A j \in 1 .. i : both[j] = IF j < i THEN q[j] ELSE e
    BY <1>1, <1>2, <1>4, ConcatProperties
  <1>6. InsertAt(q, i, e) = both \o back
    BY DEF InsertAt, front, back
  <1> HIDE DEF both
  <1>7. /\ both \o back \in Seq(S) /\ Len(both \o back) = i + (Len(q) - i + 1)
        /\ \A j \in 1 .. i + (Len(q) - i + 1) :
              (both \o back)[j] = IF j <= i THEN both[j] ELSE back[j - i]
    <2>1. /\ both \o back \in Seq(S) /\ Len(both \o back) = Len(both) + Len(back)
          /\ \A j \in 1 .. Len(both) + Len(back) :
                (both \o back)[j] = IF j <= Len(both) THEN both[j] ELSE back[j - Len(both)]
      BY <1>3, <1>5, ConcatProperties
    <2> QED
      BY <1>3, <1>5, <2>1
  <1>8. ASSUME NEW j \in 1 .. Len(q) + 1
        PROVE  (both \o back)[j] = IF j < i THEN q[j] ELSE IF j = i THEN e ELSE q[j - 1]
    <2>1. CASE j <= i
      <3>1. j \in 1 .. i /\ j \in 1 .. i + (Len(q) - i + 1)
        BY <1>1, <2>1
      <3> QED
        BY <1>5, <1>7, <2>1, <3>1
    <2>2. CASE ~(j <= i)
      <3>1. /\ j - i \in 1 .. Len(q) - i + 1 /\ j \in 1 .. i + (Len(q) - i + 1)
            /\ i + (j - i) - 1 = j - 1 /\ ~(j < i) /\ j # i
        BY <1>1, <2>2
      <3> QED
        BY <1>3, <1>7, <2>2, <3>1
    <2> QED
      BY <2>1, <2>2
  <1>9. i + (Len(q) - i + 1) = Len(q) + 1
    BY <1>1
  <1> QED
    BY <1>6, <1>7, <1>8, <1>9

\* Taking a timer out of the queue (wsfTimerRemove) keeps it sorted.
LEMMA WithoutSorted ==
    ASSUME NEW q \in Seq(Timers), NEW t \in Timers, NEW left \in [Timers -> Nat],
           SortedBy(q, left)
    PROVE  /\ Without(q, t) \in Seq(Timers) /\ SortedBy(Without(q, t), left)
           /\ Elements(Without(q, t)) = Elements(q) \ {t}
  <1>1. CASE t \notin Elements(q)
    BY <1>1 DEF Without
  <1>2. CASE t \in Elements(q)
    <2> DEFINE i == CHOOSE i \in DOMAIN q : q[i] = t
               w == Without(q, t)
    <2>1. DOMAIN q = 1 .. Len(q) /\ Len(q) \in Nat /\ \A k \in 1 .. Len(q) : q[k] \in Timers
      BY LenProperties, ElementOfSeq
    <2>2. i \in 1 .. Len(q) /\ q[i] = t
      BY <1>2, <2>1 DEF Elements
    <2> HIDE DEF i
    <2>3. w = RemoveAt(q, i)
      BY <1>2 DEF Without, i
    <2> HIDE DEF w
    <2>4. /\ w \in Seq(Timers) /\ Len(w) = Len(q) - 1
          /\ \A j \in 1 .. Len(q) - 1 : w[j] = IF j < i THEN q[j] ELSE q[j + 1]
      BY <2>2, <2>3, RemoveAtElements
    <2>a. ASSUME NEW j \in 1 .. Len(q) - 1, j < i
          PROVE  j \in 1 .. Len(q) /\ w[j] = q[j]
      BY <2>1, <2>4, <2>a
    <2>b. ASSUME NEW j \in 1 .. Len(q) - 1, ~(j < i)
          PROVE  j + 1 \in 1 .. Len(q) /\ j + 1 > i /\ w[j] = q[j + 1]
      <3>1. j + 1 \in 1 .. Len(q) /\ j + 1 > i
        BY <2>1, <2>2, <2>b
      <3> QED
        BY <2>4, <2>b, <3>1
    <2>5. DOMAIN w = 1 .. Len(q) - 1
      BY <2>4, LenProperties
    <2>6. SortedBy(w, left)
      <3> SUFFICES ASSUME NEW a \in 1 .. Len(q) - 1, NEW b \in 1 .. Len(q) - 1, a < b
                   PROVE  w[a] # w[b] /\ left[w[a]] <= left[w[b]]
        BY <2>5 DEF SortedBy
      <3>1. PICK c \in 1 .. Len(q), d \in 1 .. Len(q) : c < d /\ w[a] = q[c] /\ w[b] = q[d]
        <4>2. CASE a < i /\ b < i
          BY <2>a, <4>2
        <4>3. CASE a < i /\ ~(b < i)
          <5>1. a < b + 1
            OBVIOUS
          <5> QED
            BY <2>a, <2>b, <4>3, <5>1
        <4>4. CASE ~(a < i) /\ ~(b < i)
          <5>1. a + 1 < b + 1
            OBVIOUS
          <5> QED
            BY <2>b, <4>4, <5>1
        <4> QED
          BY <2>1, <2>2, <4>2, <4>3, <4>4
      <3> QED
        BY <2>1, <3>1 DEF SortedBy
    <2>7. \A j \in 1 .. Len(q) - 1 : w[j] \in Elements(q) \ {t}
      <3> SUFFICES ASSUME NEW j \in 1 .. Len(q) - 1 PROVE w[j] \in Elements(q) \ {t}
        OBVIOUS
      <3>1. PICK c \in 1 .. Len(q) : c # i /\ w[j] = q[c]
        <4>1. CASE j < i
          BY <2>2, <2>a, <4>1
        <4>2. CASE ~(j < i)
          <5>1. j + 1 # i
            BY <2>2, <4>2
          <5> QED
            BY <2>b, <4>2, <5>1
        <4> QED
          BY <4>1, <4>2
      <3> QED
        BY <2>1, <2>2, <3>1 DEF SortedBy, Elements
    <2>8. ASSUME NEW u \in Elements(q) \ {t} PROVE u \in Elements(w)
      <3>1. PICK c \in 1 .. Len(q) : u = q[c] /\ c # i
        BY <2>1, <2>2 DEF Elements
      <3>2. PICK j \in 1 .. Len(q) - 1 : w[j] = u
        <4>1. CASE c < i
          <5>1. c \in 1 .. Len(q) - 1
            BY <2>1, <2>2, <4>1
          <5> QED
            BY <2>a, <3>1, <4>1, <5>1
        <4>2. CASE c > i
          <5>1. c - 1 \in 1 .. Len(q) - 1 /\ ~(c - 1 < i) /\ (c - 1) + 1 = c
            BY <2>1, <2>2, <4>2
          <5>2. w[c - 1] = q[c]
            BY <2>4, <5>1
          <5> QED
            BY <3>1, <5>1, <5>2
        <4> QED
          BY <2>1, <2>2, <3>1, <4>1, <4>2
      <3> QED
        BY <2>5, <3>2 DEF Elements
    <2>9. Elements(w) = Elements(q) \ {t}
      BY <2>5, <2>7, <2>8 DEF Elements
    <2> QED
      BY <2>4, <2>6, <2>9 DEF w
  <1> QED
    BY <1>1, <1>2

\* A set of numbers has a least one: the loop of wsfTimerInsert finds a place.
LEMMA LeastElement ==
    ASSUME NEW T \in SUBSET Nat, T # {}
    PROVE  \E x \in T : \A y \in T : x <= y
  <1>1. PICK x \in T : \A y \in T : ~ (<<y, x>> \in OpToRel(<, Nat))
    BY NatLessThanWellFounded, WFMin
  <1>2. \A y \in T : ~ (y < x)
    BY <1>1 DEF OpToRel
  <1> QED
    BY <1>2

\* Inserting a timer (wsfTimerInsert) keeps the queue sorted by expiration.
LEMMA InsertedSorted ==
    ASSUME NEW q \in Seq(Timers), NEW t \in Timers, NEW n \in Nat,
           ticks \in [Timers -> Nat], SortedBy(q, ticks), t \notin Elements(q)
    PROVE  /\ Inserted(q, t, n) \in Seq(Timers)
           /\ SortedBy(Inserted(q, t, n), [ticks EXCEPT ![t] = n])
           /\ Elements(Inserted(q, t, n)) = Elements(q) \union {t}
  <1> DEFINE later == {i \in DOMAIN q : n < ticks[q[i]]}
             place == IF later = {} THEN Len(q) + 1
                      ELSE CHOOSE i \in later : \A j \in later : i <= j
             left == [ticks EXCEPT ![t] = n]
             w == Inserted(q, t, n)
  <1>1. DOMAIN q = 1 .. Len(q) /\ Len(q) \in Nat /\ \A k \in 1 .. Len(q) : q[k] \in Timers \ {t}
    BY LenProperties, ElementOfSeq DEF Elements
  <1>2. /\ place \in 1 .. Len(q) + 1
        /\ \A i \in 1 .. Len(q) : i < place <=> ticks[q[i]] <= n
    <2>1. CASE later = {}
      BY <1>1, <2>1
    <2>2. CASE later # {}
      <3>1. later \subseteq Nat
        BY <1>1
      <3>2. \E i \in later : \A j \in later : i <= j
        BY <2>2, <3>1, LeastElement
      <3>3. place \in later /\ \A j \in later : place <= j
        BY <2>2, <3>2
      <3> HIDE DEF place
      <3>4. \A i \in 1 .. Len(q) : ticks[q[i]] \in Nat
        BY <1>1
      <3>5. place \in 1 .. Len(q) /\ n < ticks[q[place]]
        BY <1>1, <3>3
      <3>6. \A i \in 1 .. Len(q) : n < ticks[q[i]] => place <= i
        BY <1>1, <3>3
      <3>7. \A i \in 1 .. Len(q) : place < i => ticks[q[place]] <= ticks[q[i]]
        BY <1>1, <3>5 DEF SortedBy
      <3>8. ASSUME NEW i \in 1 .. Len(q) PROVE i < place <=> ticks[q[i]] <= n
        BY <1>1, <3>4, <3>5, <3>6, <3>7
      <3> QED
        BY <1>1, <3>5, <3>8
    <2> QED
      BY <2>1, <2>2
  <1>3. w = InsertAt(q, place, t)
    BY DEF Inserted
  <1> HIDE DEF place, w, later
  <1>4. /\ w \in Seq(Timers) /\ Len(w) = Len(q) + 1
        /\ \A j \in 1 .. Len(q) + 1 :
              w[j] = IF j < place THEN q[j] ELSE IF j = place THEN t ELSE q[j - 1]
    <2>1. place \in 1 .. Len(q) + 1
      BY <1>2
    <2>2. /\ InsertAt(q, place, t) \in Seq(Timers) /\ Len(InsertAt(q, place, t)) = Len(q) + 1
          /\ \A j \in 1 .. Len(q) + 1 :
                InsertAt(q, place, t)[j]
                  = IF j < place THEN q[j] ELSE IF j = place THEN t ELSE q[j - 1]
      BY <2>1, InsertAtElements
    <2> QED
      BY <1>3, <2>2
  <1>a. ASSUME NEW j \in 1 .. Len(q) + 1, j < place
        PROVE  j \in 1 .. Len(q) /\ w[j] = q[j]
    <2>1. j \in 1 .. Len(q)
      BY <1>1, <1>2, <1>a
    <2> QED
      BY <1>4, <1>a, <2>1
  <1>b. ASSUME NEW j \in 1 .. Len(q) + 1, j > place
        PROVE  j - 1 \in 1 .. Len(q) /\ ~(j - 1 < place) /\ w[j] = q[j - 1]
    <2>1. j - 1 \in 1 .. Len(q) /\ ~(j - 1 < place) /\ ~(j < place) /\ j # place
      BY <1>1, <1>2, <1>b
    <2> QED
      BY <1>4, <2>1
  <1>5. DOMAIN w = 1 .. Len(q) + 1
    BY <1>4, LenProperties
  <1>6. left[t] = n /\ \A i \in 1 .. Len(q) : left[q[i]] = ticks[q[i]] /\ ticks[q[i]] \in Nat
    BY <1>1
  <1>7. w[place] = t
    BY <1>1, <1>2, <1>4
  <1> HIDE DEF left
  <1>8. SortedBy(w, left)
    <2> SUFFICES ASSUME NEW a \in 1 .. Len(q) + 1, NEW b \in 1 .. Len(q) + 1, a < b
                 PROVE  w[a] # w[b] /\ left[w[a]] <= left[w[b]]
      BY <1>5 DEF SortedBy
    <2>1. CASE b < place
      <3>1. a < place
        BY <1>2, <2>1
      <3>2. a \in 1 .. Len(q) /\ b \in 1 .. Len(q) /\ w[a] = q[a] /\ w[b] = q[b]
        BY <1>a, <2>1, <3>1
      <3> QED
        BY <1>1, <1>6, <3>2 DEF SortedBy
    <2>2. CASE b = place
      <3>1. a < place /\ w[b] = t
        BY <1>2, <1>7, <2>2
      <3>2. a \in 1 .. Len(q) /\ w[a] = q[a]
        BY <1>a, <3>1
      <3> QED
        BY <1>1, <1>2, <1>6, <3>1, <3>2
    <2>3. CASE b > place /\ a < place
      <3>1. a \in 1 .. Len(q) /\ b - 1 \in 1 .. Len(q) /\ w[a] = q[a] /\ w[b] = q[b - 1]
        BY <1>a, <1>b, <2>3
      <3>2. a < b - 1
        BY <1>2, <2>3
      <3> QED
        BY <1>1, <1>6, <3>1, <3>2 DEF SortedBy
    <2>4. CASE b > place /\ a = place
      <3>1. b - 1 \in 1 .. Len(q) /\ ~(b - 1 < place) /\ w[a] = t /\ w[b] = q[b - 1]
        BY <1>7, <1>b, <2>4
      <3>2. n <= ticks[q[b - 1]]
        BY <1>2, <1>6, <3>1
      <3> QED
        BY <1>1, <1>6, <3>1, <3>2
    <2>5. CASE a > place
      <3>1. b > place /\ a - 1 < b - 1
        BY <1>2, <2>5
      <3>2. /\ a - 1 \in 1 .. Len(q) /\ b - 1 \in 1 .. Len(q)
            /\ w[a] = q[a - 1] /\ w[b] = q[b - 1]
        BY <1>b, <2>5, <3>1
      <3> QED
        BY <1>1, <1>6, <3>1, <3>2 DEF SortedBy
    <2> QED
      BY <1>1, <1>2, <2>1, <2>2, <2>3, <2>4, <2>5
  <1>9. Elements(w) = Elements(q) \union {t}
    <2>1. ASSUME NEW j \in 1 .. Len(q) + 1 PROVE w[j] \in Elements(q) \union {t}
      <3>1. CASE j < place
        BY <1>1, <1>a, <3>1 DEF Elements
      <3>2. CASE j = place
        BY <1>7, <3>2
      <3>3. CASE j > place
        BY <1>1, <1>b, <3>3 DEF Elements
      <3> QED
        BY <1>1, <1>2, <3>1, <3>2, <3>3
    <2>2. ASSUME NEW i \in 1 .. Len(q) PROVE q[i] \in Elements(w)
      <3>1. CASE i < place
        <4>1. i \in 1 .. Len(q) + 1 /\ w[i] = q[i]
          BY <1>1, <1>4, <3>1
        <4> QED
          BY <1>5, <4>1 DEF Elements
      <3>2. CASE ~(i < place)
        <4>1. i + 1 \in 1 .. Len(q) + 1 /\ ~(i + 1 < place) /\ i + 1 # place /\ (i + 1) - 1 = i
          BY <1>1, <1>2, <3>2
        <4>2. w[i + 1] = q[i]
          BY <1>4, <4>1
        <4> QED
          BY <1>5, <4>1, <4>2 DEF Elements
      <3> QED
        BY <3>1, <3>2
    <2>3. t \in Elements(w)
      BY <1>2, <1>5, <1>7 DEF Elements
    <2> QED
      BY <1>1, <1>5, <2>1, <2>2, <2>3 DEF Elements
  <1> QED
    BY <1>4, <1>8, <1>9 DEF w, left

\* Taking the head (WsfTimerServiceExpired) keeps the queue sorted.
LEMMA TailSorted ==
    ASSUME NEW q \in Seq(Timers), NEW left \in [Timers -> Nat], SortedBy(q, left), q # <<>>
    PROVE  /\ Head(q) \in Timers /\ Tail(q) \in Seq(Timers)
           /\ SortedBy(Tail(q), left)
           /\ Elements(Tail(q)) \subseteq Elements(q)
           /\ \A t \in Elements(q) : left[Head(q)] <= left[t]
  <1>1. DOMAIN q = 1 .. Len(q) /\ Len(q) \in Nat \ {0} /\ \A k \in 1 .. Len(q) : q[k] \in Timers
    BY LenProperties, ElementOfSeq, EmptySeq
  <1>2. /\ Head(q) \in Timers /\ Tail(q) \in Seq(Timers) /\ Len(Tail(q)) = Len(q) - 1
        /\ \A i \in 1 .. Len(q) - 1 : Tail(q)[i] = q[i + 1]
    BY HeadTailProperties
  <1>3. DOMAIN Tail(q) = 1 .. Len(q) - 1
    BY <1>2, LenProperties
  <1>4. \A i \in 1 .. Len(q) - 1 : i + 1 \in 1 .. Len(q)
    BY <1>1
  <1>5. SortedBy(Tail(q), left)
    <2> SUFFICES ASSUME NEW a \in 1 .. Len(q) - 1, NEW b \in 1 .. Len(q) - 1, a < b
                 PROVE  Tail(q)[a] # Tail(q)[b] /\ left[Tail(q)[a]] <= left[Tail(q)[b]]
      BY <1>3 DEF SortedBy
    <2>1. a + 1 < b + 1 /\ a + 1 \in 1 .. Len(q) /\ b + 1 \in 1 .. Len(q)
      BY <1>1
    <2> QED
      BY <1>1, <1>2, <2>1 DEF SortedBy
  <1>6. Elements(Tail(q)) \subseteq Elements(q)
    BY <1>1, <1>2, <1>3, <1>4 DEF Elements
  <1>7. ASSUME NEW t \in Elements(q) PROVE left[Head(q)] <= left[t]
    <2>1. PICK i \in 1 .. Len(q) : t = q[i]
      BY <1>1 DEF Elements
    <2>2. Head(q) = q[1] /\ 1 \in 1 .. Len(q)
      BY <1>1
    <2>3. left[q[1]] \in Nat
      BY <1>1, <2>2
    <2> QED
      BY <1>1, <2>1, <2>2, <2>3 DEF SortedBy
  <1> QED
    BY <1>2, <1>5, <1>6, <1>7
----------------------------------------------------------------------------
(* The steps.                                                              *)

\* The constants, by the assumptions.
LEMMA Constants ==
    /\ NumHandlers \in Nat \ {0} /\ Driver \in Handlers
    /\ \A n \in Durations : n \in Nat \ {0}
    /\ Clk \in Nat \ {0} /\ Modulus \in Nat \ {0}
    /\ MaxMessages \in Nat \ {0} /\ CommandLen \in Nat \ {0}
    /\ MaxWork \in Nat /\ MaxHeld \in Nat /\ MaxAge \in Nat
  BY Assumptions DEF Assumptions, Handlers

\* The counter stays a counter when it wraps.
LEMMA CounterWraps == \A n \in Nat, m \in Nat \ {0} : n % m \in 0 .. m - 1
  OBVIOUS

\* The queue stays a sorted queue of timers, whatever the step.
LEMMA QueueStep ==
    ASSUME queue \in Seq(Timers), ticks \in [Timers -> Nat], elapsed \in Nat, Sorted, [Next]_vars
    PROVE  queue' \in Seq(Timers) /\ ticks' \in [Timers -> Nat] /\ Sorted'
  <1>1. CASE UNCHANGED <<queue, ticks>>
    BY <1>1 DEF Sorted, SortedBy
  <1>2. ASSUME NEW t \in Timers, NEW n \in Durations, WsfTimerStart(t, n)
        PROVE  queue' \in Seq(Timers) /\ ticks' \in [Timers -> Nat] /\ Sorted'
    <2>1. /\ Without(queue, t) \in Seq(Timers) /\ SortedBy(Without(queue, t), ticks)
          /\ t \notin Elements(Without(queue, t))
      BY WithoutSorted DEF Sorted
    <2>2. n \in Nat
      BY Constants
    <2>3. /\ Inserted(Without(queue, t), t, n) \in Seq(Timers)
          /\ SortedBy(Inserted(Without(queue, t), t, n), [ticks EXCEPT ![t] = n])
      BY <2>1, <2>2, InsertedSorted
    <2>4. /\ queue' = Inserted(Without(queue, t), t, n)
          /\ ticks' = [ticks EXCEPT ![t] = n]
      BY <1>2 DEF WsfTimerStart
    <2>5. ticks' \in [Timers -> Nat]
      BY <2>2, <2>4
    <2> QED
      BY <2>3, <2>4, <2>5 DEF Sorted
  <1>3. ASSUME NEW t \in Timers, WsfTimerStop(t)
        PROVE  queue' \in Seq(Timers) /\ ticks' \in [Timers -> Nat] /\ Sorted'
    <2>1. /\ queue' = Without(queue, t)
          /\ ticks' = [ticks EXCEPT ![t] = 0]
      BY <1>3 DEF WsfTimerStop
    <2>2. /\ queue' \in Seq(Timers) /\ SortedBy(queue', ticks)
          /\ t \notin Elements(queue')
      BY <2>1, WithoutSorted DEF Sorted
    <2>3. \A i \in DOMAIN queue' : queue'[i] # t /\ queue'[i] \in Timers
      BY <2>2, LenProperties, ElementOfSeq DEF Elements
    <2>4. \A i \in DOMAIN queue' : ticks'[queue'[i]] = ticks[queue'[i]]
      BY <2>1, <2>3
    <2> QED
      BY <2>1, <2>2, <2>4 DEF Sorted, SortedBy
  <1>4. CASE StackInit
    <2>1. queue' = <<>> /\ ticks' = [t \in Timers |-> 0]
      BY <1>4 DEF StackInit
    <2> QED
      BY <2>1 DEF Sorted, SortedBy
  <1>5. CASE ServiceTimers
    <2>1. CASE UNCHANGED <<queue, ticks>>
      BY <1>1, <2>1
    <2>2. CASE queue # <<>> /\ queue' = Tail(queue) /\ ticks' = ticks
      BY <2>2, TailSorted DEF Sorted
    <2> QED
      BY <1>5, <2>1, <2>2 DEF ServiceTimers, Expired
  <1>6. CASE SleepUpdate
    <2>1. CASE UNCHANGED <<queue, ticks>>
      BY <1>1, <2>1
    <2>2. CASE /\ queue' = queue
               /\ ticks' = [t \in Timers |-> IF t \in Running THEN Minus(ticks[t], elapsed \div Clk)
                                             ELSE ticks[t]]
      <3> DEFINE passed == elapsed \div Clk
      <3>1. passed \in Nat
        BY Constants
      <3> HIDE DEF passed
      <3>2. \A t \in Timers : ticks[t] \in Nat
        OBVIOUS
      <3>3. ticks' \in [Timers -> Nat]
        BY <2>2, <3>1, <3>2 DEF Minus, passed
      <3>4. \A i \in DOMAIN queue : queue[i] \in Timers /\ queue[i] \in Running
        BY LenProperties, ElementOfSeq DEF Running, Elements
      <3>5. \A i \in DOMAIN queue : ticks'[queue[i]] = Minus(ticks[queue[i]], passed)
        BY <2>2, <3>4 DEF passed
      <3>6. \A m, n \in Nat : m <= n => Minus(m, passed) <= Minus(n, passed)
        BY <3>1 DEF Minus
      <3>7. ASSUME NEW i \in DOMAIN queue, NEW j \in DOMAIN queue, i < j
            PROVE  queue[i] # queue[j] /\ ticks'[queue[i]] <= ticks'[queue[j]]
        <4>1. queue[i] # queue[j] /\ ticks[queue[i]] <= ticks[queue[j]]
          BY <3>7 DEF Sorted, SortedBy
        <4>2. ticks[queue[i]] \in Nat /\ ticks[queue[j]] \in Nat
          BY <3>2, <3>4
        <4> QED
          BY <3>5, <3>6, <4>1, <4>2
      <3>8. Sorted'
        BY <2>2, <3>7 DEF Sorted, SortedBy
      <3> QED
        BY <2>2, <3>3, <3>8
    <2> QED
      BY <1>6, <2>1, <2>2 DEF SleepUpdate
  <1> QED
    BY <1>1, <1>2, <1>3, <1>4, <1>5, <1>6
    DEF Next, TaskStep, vars, timervars, HandlerCalls, WsfSetEvent, WsfMsgSend, HandlerReturns,
        HandleCommand, Dispatch, ServiceMessages, ServiceHandlers, SleepArm, SleepEnable, Ready,
        Wait, AlarmIsr, RadioIsr, ConsoleSends, SendCommand, Tick

\* The other variables keep their types.
LEMMA TypeStep ==
    ASSUME TypeOK, Sorted, [Next]_vars
    PROVE  TypeOK'
  <1> USE Constants DEF TypeOK, Handlers
  <1>1. queue' \in Seq(Timers) /\ ticks' \in [Timers -> Nat]
    BY QueueStep
  <1>2. CASE UNCHANGED vars
    BY <1>2 DEF vars, osvars, timervars, loopvars
  <1>3. CASE HandlerCalls
    <2>1. work' \in 0 .. MaxWork
      BY <1>3 DEF HandlerCalls, Works
    <2>2. ASSUME NEW h \in Handlers, WsfSetEvent(h) PROVE TypeOK'
      BY <1>3, <2>1, <2>2 DEF HandlerCalls, WsfSetEvent, SetReady, Kinds, timervars, loopvars
    <2>3. CASE WsfMsgSend
      BY <1>3, <2>1, <2>3 DEF HandlerCalls, WsfMsgSend, SetReady, Kinds, timervars, loopvars
    <2>4. ASSUME NEW t \in Timers, NEW n \in Durations, WsfTimerStart(t, n) PROVE TypeOK'
      <3>1. asked' \in [Timers -> [age : 0 .. MaxAge, for : Durations \union {0}]]
        BY <2>4 DEF WsfTimerStart
      <3> QED
        BY <1>1, <1>3, <2>1, <2>4, <3>1 DEF HandlerCalls, WsfTimerStart, osvars, loopvars
    <2>5. ASSUME NEW t \in Timers, WsfTimerStop(t) PROVE TypeOK'
      <3>1. asked' \in [Timers -> [age : 0 .. MaxAge, for : Durations \union {0}]]
        BY <2>5 DEF WsfTimerStop, NotAsked
      <3> QED
        BY <1>1, <1>3, <2>1, <2>5, <3>1 DEF HandlerCalls, WsfTimerStop, osvars, loopvars
    <2> QED
      BY <1>3, <2>2, <2>3, <2>4, <2>5 DEF HandlerCalls
  <1>4. CASE HandlerReturns
    BY <1>4 DEF HandlerReturns, osvars, timervars, loopvars
  <1>5. CASE HandleCommand
    BY <1>5 DEF HandleCommand, osvars, timervars
  <1>6. CASE StackInit
    <2>1. asked' \in [Timers -> [age : 0 .. MaxAge, for : Durations \union {0}]]
      BY <1>6 DEF StackInit, NotAsked
    <2>2. alarm' \in [left : Nat \union {Never}, enabled : BOOLEAN, pending : BOOLEAN]
      BY <1>6 DEF StackInit
    <2>3. messages' \in 0 .. MaxMessages
      <3>1. messages' = 1 /\ MaxMessages \in Nat \ {0}
        BY <1>6, Constants DEF StackInit
      <3> QED
        BY <3>1
    <2>4. elapsed' \in 0 .. Modulus - 1
      <3>1. elapsed' = 0 /\ Modulus \in Nat \ {0}
        BY <1>6, Constants DEF StackInit
      <3> QED
        BY <3>1
    <2> QED
      BY <1>1, <1>6, <2>1, <2>2, <2>3, <2>4 DEF StackInit, Kinds
  <1>7. CASE Dispatch
    BY <1>7 DEF Dispatch, timervars
  <1>8. CASE ServiceMessages
    <2>1. messages' \in 0 .. MaxMessages
      BY <1>8 DEF ServiceMessages
    <2> QED
      BY <1>8, <2>1 DEF ServiceMessages, timervars
  <1>9. CASE ServiceTimers
    <2>1. asked' \in [Timers -> [age : 0 .. MaxAge, for : Durations \union {0}]]
      <3>1. CASE Expired
        <4>1. Head(queue) \in Timers
          BY <3>1, HeadTailProperties DEF Expired
        <4>2. asked' = asked \/ asked' = [asked EXCEPT ![Head(queue)] = NotAsked]
          BY <1>9 DEF ServiceTimers
        <4>3. NotAsked \in [age : 0 .. MaxAge, for : Durations \union {0}]
          BY DEF NotAsked
        <4> QED
          BY <4>1, <4>2, <4>3
      <3>2. CASE ~Expired
        BY <1>9, <3>2 DEF ServiceTimers
      <3> QED
        BY <3>1, <3>2
    <2>2. index' \in 0 .. NumHandlers
      BY <1>9 DEF ServiceTimers
    <2> QED
      BY <1>1, <1>9, <2>1, <2>2 DEF ServiceTimers, osvars
  <1>10. CASE ServiceHandlers
    <2>1. inHandler' \in BOOLEAN
      <3>1. inHandler' = (index \in events)
        BY <1>10 DEF ServiceHandlers
      <3>2. (index \in events) = TRUE \/ (index \in events) = FALSE
        OBVIOUS
      <3> QED
        BY ONLY <3>1, <3>2, Zenon
    <2> QED
      BY <1>10, <2>1 DEF ServiceHandlers, timervars
  <1>11. CASE SleepUpdate
    <2>1. mask' \subseteq Kinds /\ notified' \in BOOLEAN /\ elapsed' \in 0 .. Modulus - 1
      <3>1. elapsed' = 0 \/ elapsed' = elapsed
        BY <1>11 DEF SleepUpdate, CountLeft
      <3>2. (mask' = mask \union {"timer"} /\ notified' = TRUE) \/ UNCHANGED <<mask, notified>>
        BY <1>11 DEF SleepUpdate, SetReady
      <3>3. elapsed' \in 0 .. Modulus - 1
        BY <3>1
      <3>4. mask' \subseteq Kinds
        BY <3>2 DEF Kinds
      <3>5. notified' \in BOOLEAN
        BY <3>2
      <3> QED
        BY <3>3, <3>4, <3>5
    <2> QED
      BY <1>1, <1>11, <2>1 DEF SleepUpdate
  <1>12. CASE SleepArm
    <2>1. alarm' \in [left : Nat \union {Never}, enabled : BOOLEAN, pending : BOOLEAN]
      <3>1. queue # <<>> => ticks[Head(queue)] * Clk \in Nat
        BY HeadTailProperties
      <3> QED
        BY <1>12, <3>1 DEF SleepArm
    <2> QED
      BY <1>12, <2>1 DEF SleepArm, osvars, timervars
  <1>13. CASE SleepEnable
    BY <1>13 DEF SleepEnable, osvars, timervars
  <1>14. CASE Ready
    BY <1>14 DEF Ready, osvars, timervars
  <1>15. CASE Wait
    BY <1>15 DEF Wait, osvars, timervars
  <1>16. CASE AlarmIsr
    BY <1>16 DEF AlarmIsr, SetReady, Kinds, timervars, loopvars
  <1>17. CASE RadioIsr
    BY <1>17 DEF RadioIsr, Works, WsfSetEvent, SetReady, Kinds, timervars, loopvars
  <1>18. CASE ConsoleSends
    BY <1>18 DEF ConsoleSends, Works, WsfMsgSend, SetReady, Kinds, timervars, loopvars
  <1>19. CASE SendCommand
    BY <1>19 DEF SendCommand, Works, osvars, timervars
  <1>20. CASE Tick
    <2>1. elapsed' \in 0 .. Modulus - 1
      <3>1. elapsed' = (elapsed + 1) % Modulus
        BY <1>20 DEF Tick
      <3>2. elapsed + 1 \in Nat /\ Modulus \in Nat \ {0}
        OBVIOUS
      <3> QED
        BY ONLY <3>1, <3>2, CounterWraps
    <2>2. alarm' \in [left : Nat \union {Never}, enabled : BOOLEAN, pending : BOOLEAN]
      <3>1. CASE alarm.left = Never
        BY <1>20, <3>1 DEF Tick
      <3>2. CASE alarm.left # Never
        <4>1. alarm.left \in Nat /\ alarm.left # Never
          BY <3>2
        <4>2. CASE alarm.left = 1
          BY <1>20, <4>1, <4>2 DEF Tick
        <4>3. CASE alarm.left # 1
          <5>1. alarm' = [alarm EXCEPT !.left = @ - 1]
            BY <1>20, <4>1, <4>3 DEF Tick
          <5>2. alarm.left - 1 \in Nat \union {Never}
            BY <4>1 DEF Never
          <5> QED
            BY <5>1, <5>2
        <4> QED
          BY <4>2, <4>3
      <3> QED
        BY <3>1, <3>2
    <2>3. asked' \in [Timers -> [age : 0 .. MaxAge, for : Durations \union {0}]]
      <3>1. ASSUME NEW t \in Timers, asked[t].age < MaxAge
            PROVE  [asked[t] EXCEPT !.age = @ + 1] \in [age : 0 .. MaxAge, for : Durations \union {0}]
        <4>1. asked[t].age + 1 \in 0 .. MaxAge
          BY <3>1
        <4> QED
          BY <4>1
      <3> QED
        BY <1>20, <3>1 DEF Tick
    <2>4. held' \in 0 .. MaxHeld
      <3>1. held' = held \/ (held < MaxHeld /\ held' = held + 1)
        BY <1>20 DEF Tick
      <3> QED
        BY <3>1
    <2> QED
      BY <1>1, <1>20, <2>1, <2>2, <2>3, <2>4 DEF Tick, osvars, loopvars
  <1> QED
    BY <1>2, <1>3, <1>4, <1>5, <1>6, <1>7, <1>8, <1>9, <1>10, <1>11, <1>12, <1>13, <1>14,
       <1>15, <1>16, <1>17, <1>18, <1>19, <1>20
    DEF Next, TaskStep

\* Both together.
LEMMA TypesStep ==
    ASSUME TypeOK, Sorted, [Next]_vars
    PROVE  TypeOK' /\ Sorted'
  <1>1. TypeOK'
    BY TypeStep
  <1>2. queue \in Seq(Timers) /\ ticks \in [Timers -> Nat] /\ elapsed \in Nat
    BY Constants DEF TypeOK
  <1>3. Sorted'
    BY ONLY <1>2, QueueStep, Sorted, [Next]_vars
  <1> QED
    BY <1>1, <1>3

\* Before the first step the variables have their types.
LEMMA InitOK == Init => TypeOK /\ Sorted
  <1> SUFFICES ASSUME Init PROVE TypeOK /\ Sorted
    OBVIOUS
  <1>1. /\ queue \in Seq(Timers) /\ ticks \in [Timers -> Nat] /\ Sorted
        /\ asked \in [Timers -> [age : 0 .. MaxAge, for : Durations \union {0}]]
    BY Constants DEF Init, NotAsked, Sorted, SortedBy
  <1>2. alarm \in [left : Nat \union {Never}, enabled : BOOLEAN, pending : BOOLEAN]
    BY DEF Init, NoAlarm
  <1>3. /\ commands \in 0 .. CommandLen /\ messages \in 0 .. MaxMessages
        /\ elapsed \in 0 .. Modulus - 1 /\ index \in 0 .. NumHandlers
        /\ work \in 0 .. MaxWork /\ held \in 0 .. MaxHeld
    BY Constants DEF Init
  <1> QED
    BY <1>1, <1>2, <1>3 DEF Init, TypeOK

\* Every variable has its type, for every instance.
THEOREM TypeCorrect == Spec => []TypeOK
  <1>1. TypeOK /\ Sorted /\ [Next]_vars => (TypeOK /\ Sorted)'
    BY TypesStep
  <1> QED
    BY InitOK, <1>1, PTL DEF Spec

\* Where a timer in the queue with no ticks left can come from.
LEMMA ZeroStep ==
    ASSUME TypeOK, Sorted, [Next]_vars, ~SleepUpdate,
           NEW t \in Running', ticks'[t] = 0
    PROVE  t \in Running /\ ticks[t] = 0
  <1> USE DEF TypeOK, Running
  <1>1. CASE UNCHANGED <<queue, ticks>>
    BY <1>1
  <1>2. ASSUME NEW u \in Timers, NEW n \in Durations, WsfTimerStart(u, n)
        PROVE  t \in Running /\ ticks[t] = 0
    <2>1. /\ Without(queue, u) \in Seq(Timers) /\ SortedBy(Without(queue, u), ticks)
          /\ Elements(Without(queue, u)) = Elements(queue) \ {u}
      BY WithoutSorted DEF Sorted
    <2>2. n \in Nat \ {0}
      BY Constants
    <2>3. Elements(Inserted(Without(queue, u), u, n)) = Elements(queue) \union {u}
      <3>1. n \in Nat /\ u \notin Elements(Without(queue, u))
        BY <2>1, <2>2
      <3>2. ticks \in [Timers -> Nat]
        OBVIOUS
      <3>3. Elements(Inserted(Without(queue, u), u, n)) = Elements(Without(queue, u)) \union {u}
        BY <2>1, <3>1, <3>2, InsertedSorted
      <3> QED
        BY <2>1, <3>3
    <2>4. /\ queue' = Inserted(Without(queue, u), u, n)
          /\ ticks' = [ticks EXCEPT ![u] = n]
      BY <1>2 DEF WsfTimerStart
    <2>5. t # u
      BY <2>2, <2>4
    <2> QED
      BY <2>3, <2>4, <2>5
  <1>3. ASSUME NEW u \in Timers, WsfTimerStop(u)
        PROVE  t \in Running /\ ticks[t] = 0
    <2>1. Elements(Without(queue, u)) = Elements(queue) \ {u}
      BY WithoutSorted DEF Sorted
    <2>2. queue' = Without(queue, u) /\ ticks' = [ticks EXCEPT ![u] = 0]
      BY <1>3 DEF WsfTimerStop
    <2> QED
      BY <2>1, <2>2
  <1>4. CASE StackInit
    BY <1>4 DEF StackInit, Elements
  <1>5. CASE ServiceTimers
    <2>1. CASE queue # <<>> /\ queue' = Tail(queue) /\ ticks' = ticks
      BY <2>1, TailSorted DEF Sorted
    <2> QED
      BY <1>1, <1>5, <2>1 DEF ServiceTimers, Expired
  <1> QED
    BY <1>1, <1>2, <1>3, <1>4, <1>5
    DEF Next, TaskStep, vars, timervars, HandlerCalls, WsfSetEvent, WsfMsgSend, HandlerReturns,
        HandleCommand, Dispatch, ServiceMessages, ServiceHandlers, SleepArm, SleepEnable, Ready,
        Wait, AlarmIsr, RadioIsr, ConsoleSends, SendCommand, Tick

\* An expired timer keeps its bit until the dispatcher comes to the timers.
LEMMA TimersStep ==
    ASSUME TypeOK, Sorted, HandlerRuns, TimersMasked, [Next]_vars
    PROVE  TimersMasked'
  <1>1. CASE SleepUpdate
    <2>1. CASE UNCHANGED <<queue, ticks, mask>>
      BY <1>1, <2>1 DEF SleepUpdate, At, TimersMasked, Running
    <2>2. CASE /\ queue' = queue
               /\ (\E t \in Running : ticks'[t] = 0) => "timer" \in mask'
      BY <2>2 DEF TimersMasked, Running
    <2> QED
      <3> DEFINE updated == [t \in Timers |-> IF t \in Running THEN Minus(ticks[t], elapsed \div Clk)
                                             ELSE ticks[t]]
      <3> HIDE DEF updated
      <3>1. \/ UNCHANGED <<queue, ticks, mask>>
            \/ /\ queue' = queue /\ ticks' = updated
               /\ (\E t \in Running : updated[t] = 0) => "timer" \in mask'
        BY <1>1 DEF SleepUpdate, SetReady, updated
      <3> QED
        BY <2>1, <2>2, <3>1
  <1>2. CASE ~SleepUpdate
    <2> SUFFICES ASSUME NEW t \in Running', ticks'[t] = 0
                 PROVE  "timer" \in mask' \/ (pc' \in {"messages", "timers"} /\ "timer" \in todo')
      BY DEF TimersMasked
    <2>1. t \in Running /\ ticks[t] = 0
      BY <1>2, ZeroStep
    <2>2. "timer" \in mask \/ (pc \in {"messages", "timers"} /\ "timer" \in todo)
      BY <2>1 DEF TimersMasked
    <2>3. CASE Dispatch
      BY <2>2, <2>3 DEF Dispatch, At
    <2>4. CASE StackInit
      BY <2>1, <2>4 DEF StackInit, Running, Elements
    <2>5. CASE ServiceTimers
      <3>1. Expired
        <4>1. queue # <<>>
          BY <2>1 DEF Running, Elements
        <4>2. ticks[Head(queue)] <= 0 /\ Head(queue) \in Timers
          BY <2>1, <4>1, TailSorted DEF Sorted, TypeOK, Running
        <4>3. ticks[Head(queue)] \in Nat
          BY <4>2 DEF TypeOK
        <4> QED
          BY <4>1, <4>2, <4>3 DEF Expired
      <3> QED
        BY <2>2, <2>5, <3>1 DEF ServiceTimers, osvars
    <2>6. CASE ServiceMessages
      BY <2>2, <2>6 DEF ServiceMessages, At
    <2>7. CASE UNCHANGED <<pc, todo>> /\ mask \subseteq mask'
      BY <2>2, <2>7
    <2>8. CASE pc \notin {"messages", "timers"} /\ mask \subseteq mask'
      BY <2>2, <2>8
    <2> QED
      BY <1>2, <2>3, <2>4, <2>5, <2>6, <2>7, <2>8
      DEF Next, TaskStep, vars, osvars, timervars, loopvars, HandlerCalls, WsfSetEvent, WsfMsgSend,
          WsfTimerStart, WsfTimerStop, SetReady, HandlerReturns, HandleCommand, ServiceHandlers,
          SleepArm, SleepEnable, Ready, Wait, AlarmIsr, RadioIsr, ConsoleSends, SendCommand, Tick, At
  <1> QED
    BY <1>1, <1>2

\* So does a message, until it is taken.
LEMMA MessagesStep ==
    ASSUME TypeOK, HandlerRuns, MessagesMasked, [Next]_vars
    PROVE  MessagesMasked'
  <1> USE DEF MessagesMasked
  <1>1. CASE StackInit
    BY <1>1 DEF StackInit
  <1>2. CASE Dispatch
    BY <1>2 DEF Dispatch, At
  <1>3. CASE ServiceMessages
    <2>1. messages \in Nat
      BY DEF TypeOK
    <2> QED
      BY <1>3, <2>1 DEF ServiceMessages, At
  <1>4. CASE "message" \in mask'
    BY <1>4
  <1>5. CASE UNCHANGED <<messages, pc, todo>> /\ mask \subseteq mask'
    BY <1>5
  <1>6. CASE pc # "messages" /\ UNCHANGED messages /\ mask \subseteq mask'
    BY <1>6
  <1> QED
    BY <1>1, <1>2, <1>3, <1>4, <1>5, <1>6
    DEF Next, TaskStep, vars, osvars, timervars, loopvars, HandlerCalls, WsfSetEvent, WsfMsgSend,
        WsfTimerStart, WsfTimerStop, SetReady, HandlerReturns, HandleCommand, ServiceTimers,
        ServiceHandlers, SleepUpdate, SleepArm, SleepEnable, Ready, Wait, AlarmIsr, RadioIsr,
        ConsoleSends, SendCommand, Tick, At

\* So does an event, until its handler is called.
LEMMA EventsStep ==
    ASSUME TypeOK, HandlerRuns, EventsMasked, [Next]_vars
    PROVE  EventsMasked'
  <1> USE DEF EventsMasked
  <1>1. CASE StackInit
    BY <1>1 DEF StackInit
  <1>2. CASE Dispatch
    BY <1>2 DEF Dispatch, At
  <1>3. CASE ServiceTimers
    <2>1. \A h \in events : h \in Nat
      BY Constants DEF TypeOK, Handlers
    <2>2. CASE pc' = pc
      BY <1>3, <2>2 DEF ServiceTimers, osvars, At
    <2>3. CASE /\ pc = "timers" /\ pc' = "handlers" /\ UNCHANGED <<mask, events, todo>>
               /\ index' = IF "handler" \in todo THEN 0 ELSE NumHandlers
      BY <2>1, <2>3
    <2> QED
      BY <1>3, <2>2, <2>3 DEF ServiceTimers, osvars, At
  <1>4. CASE ServiceHandlers
    <2>1. index \in 0 .. NumHandlers /\ \A h \in events : h \in 0 .. NumHandlers - 1
      BY Constants DEF TypeOK, Handlers
    <2>2. /\ pc = "handlers" /\ events' = events \ {index} /\ UNCHANGED mask
          /\ \/ index < NumHandlers /\ index' = index + 1 /\ UNCHANGED pc
             \/ ~(index < NumHandlers) /\ pc' = "dispatch"
      BY <1>4 DEF ServiceHandlers, At
    <2> SUFFICES ASSUME NEW h \in events'
                 PROVE  "handler" \in mask' \/ (pc' = "handlers" /\ index' <= h)
      OBVIOUS
    <2>3. h \in events /\ h # index
      BY <2>2
    <2>4. "handler" \in mask \/ index <= h
      BY <2>2, <2>3
    <2> QED
      BY Constants, <2>1, <2>2, <2>3, <2>4
  <1>5. CASE "handler" \in mask'
    BY <1>5
  <1>6. CASE UNCHANGED <<events, pc, index, todo>> /\ mask \subseteq mask'
    BY <1>6
  <1>7. CASE ServiceMessages
    BY <1>7 DEF ServiceMessages, At
  <1>8. CASE pc \notin {"messages", "timers", "handlers"} /\ UNCHANGED events /\ mask \subseteq mask'
    BY <1>8
  <1> QED
    BY <1>1, <1>2, <1>3, <1>4, <1>5, <1>6, <1>7, <1>8
    DEF Next, TaskStep, vars, osvars, timervars, loopvars, HandlerCalls, WsfSetEvent, WsfMsgSend,
        WsfTimerStart, WsfTimerStop, SetReady, HandlerReturns, HandleCommand, SleepUpdate,
        SleepArm, SleepEnable, Ready, Wait, AlarmIsr, RadioIsr, ConsoleSends, SendCommand, Tick, At

\* Before the stack is started nothing is running.
LEMMA LoopStep ==
    ASSUME TypeOK, Stopped, HandlerRuns, WaitNotified, [Next]_vars
    PROVE  Stopped' /\ HandlerRuns' /\ WaitNotified'
  <1> USE DEF Stopped, HandlerRuns, WaitNotified, At
  <1>1. CASE HandlerCalls \/ HandlerReturns
    BY <1>1
    DEF HandlerCalls, HandlerReturns, WsfSetEvent, WsfMsgSend, WsfTimerStart, WsfTimerStop, SetReady,
        osvars, timervars, loopvars
  <1>2. CASE HandleCommand \/ StackInit
    BY <1>2 DEF HandleCommand, StackInit, osvars, timervars
  <1>3. CASE Dispatch \/ ServiceMessages \/ ServiceTimers
    BY <1>3 DEF Dispatch, ServiceMessages, ServiceTimers, osvars, timervars
  <1>8. CASE ServiceHandlers
    <2>1. pc = "handlers" /\ started' = started /\ mask' = mask
      BY <1>8 DEF ServiceHandlers
    <2>2. inHandler' => pc' = "handlers"
      <3>1. index \in events => index < NumHandlers
        BY Constants DEF TypeOK, Handlers
      <3> QED
        BY <1>8, <3>1 DEF ServiceHandlers
    <2>3. pc' # "wait"
      BY <1>8 DEF ServiceHandlers
    <2> QED
      BY <2>1, <2>2, <2>3
  <1>4. CASE SleepUpdate \/ SleepArm \/ SleepEnable \/ Ready \/ Wait
    BY <1>4 DEF SleepUpdate, SleepArm, SleepEnable, Ready, Wait, osvars, timervars
  <1>5. CASE AlarmIsr \/ RadioIsr \/ ConsoleSends \/ SendCommand
    BY <1>5 DEF AlarmIsr, RadioIsr, ConsoleSends, SendCommand, WsfSetEvent, WsfMsgSend, SetReady,
                osvars, timervars, loopvars
  <1>6. CASE Tick
    <2>1. alarm'.enabled = alarm.enabled
      BY <1>6 DEF Tick, TypeOK
    <2> QED
      BY <1>6, <2>1 DEF Tick, osvars, loopvars
  <1>7. CASE UNCHANGED vars
    BY <1>7 DEF vars, osvars, timervars, loopvars
  <1> QED
    BY <1>1, <1>2, <1>3, <1>4, <1>5, <1>6, <1>7, <1>8 DEF Next, TaskStep

\* From am_hal_stimer_compare_delta_set on, the alarm covers the timer at the
\* head of the queue, or its interrupt has been taken.
LEMMA CoverStep ==
    ASSUME TypeOK, Stopped, HandlerRuns, AlarmCovers, [Next]_vars
    PROVE  AlarmCovers'
  <1> USE DEF AlarmCovers, AlarmSet, At
  <1>1. CASE pc' \notin {"clear", "ready", "wait"}
    BY <1>1
  <1>2. CASE HandlerCalls \/ HandlerReturns
    <2>1. pc' \in {"messages", "timers", "handlers"}
      BY <1>2 DEF HandlerCalls, HandlerReturns, HandlerRuns, loopvars
    <2> QED
      BY <2>1
  <1>3. CASE SleepArm
    <2>1. CASE pc' = "clear"
      <3>1. /\ queue # <<>> /\ ticks[Head(queue)] > 0 /\ UNCHANGED <<queue, ticks>>
            /\ alarm' = [alarm EXCEPT !.left = ticks[Head(queue)] * Clk]
        BY <1>3, <2>1 DEF SleepArm, timervars
      <3>2. alarm'.left = ticks[Head(queue)] * Clk
        BY <3>1 DEF TypeOK
      <3>3. ticks[Head(queue)] \in Nat
        BY <3>1, HeadTailProperties DEF TypeOK
      <3>4. ticks[Head(queue)] * Clk \in 1 .. ticks[Head(queue)] * Clk
        BY <3>1, <3>3, Constants
      <3> QED
        BY <2>1, <3>1, <3>2, <3>4
    <2>2. CASE pc' = "ready"
      BY <1>3, <2>2 DEF SleepArm, timervars
    <2> QED
      BY <1>3, <2>1, <2>2 DEF SleepArm
  <1>4. CASE SleepEnable
    BY <1>4 DEF SleepEnable, timervars, TypeOK
  <1>5. CASE Ready
    BY <1>5 DEF Ready, osvars, timervars
  <1>6. CASE AlarmIsr
    <2>1. alarm'.left = alarm.left
      BY <1>6 DEF AlarmIsr, TypeOK
    <2> QED
      BY <1>6, <2>1 DEF AlarmIsr, SetReady, timervars, loopvars
  <1>7. CASE RadioIsr \/ ConsoleSends \/ SendCommand
    BY <1>7 DEF RadioIsr, ConsoleSends, SendCommand, WsfSetEvent, WsfMsgSend, SetReady, osvars,
                timervars, loopvars
  <1>8. CASE Tick
    <2>1. UNCHANGED <<queue, ticks, pc, mask>>
      BY <1>8 DEF Tick, osvars, loopvars
    <2>2. alarm'.enabled = alarm.enabled
      BY <1>8 DEF Tick, TypeOK
    <2>3. alarm.pending => alarm'.pending
      BY <1>8 DEF Tick, TypeOK
    <2>4. ASSUME queue # <<>>, AlarmSet
          PROVE  AlarmSet' \/ (alarm'.pending /\ alarm.left = 1)
      <3> DEFINE delay == ticks[Head(queue)] * Clk
      <3>1. ticks[Head(queue)] \in Nat /\ Clk \in Nat
        BY <2>4, HeadTailProperties, Constants DEF TypeOK
      <3>2. delay \in Nat
        BY <3>1
      <3>3. alarm.left \in 1 .. delay /\ delay' = delay
        BY <2>1, <2>4
      <3> HIDE DEF delay
      <3>4. alarm.left \in Nat /\ alarm.left >= 1 /\ alarm.left <= delay /\ alarm.left # Never
        BY <3>2, <3>3 DEF Never
      <3>5. CASE alarm.left = 1
        BY <1>8, <3>4, <3>5 DEF Tick, TypeOK
      <3>6. CASE alarm.left # 1
        <4>1. alarm' = [alarm EXCEPT !.left = @ - 1]
          BY <1>8, <3>4, <3>6 DEF Tick
        <4>2. alarm'.left = alarm.left - 1
          BY <4>1 DEF TypeOK
        <4>3. alarm'.left \in 1 .. delay
          BY <3>2, <3>4, <3>6, <4>2
        <4> QED
          BY <3>3, <4>3 DEF delay
      <3> QED
        BY <3>5, <3>6
    <2>5. pc = "clear" => alarm.left > 1
      BY <1>8 DEF Tick
    <2>6. pc = "clear" => AlarmSet'
      BY <2>4, <2>5
    <2>7. CASE pc = "clear"
      BY <2>1, <2>6, <2>7
    <2>8. CASE pc # "clear"
      BY <2>1, <2>2, <2>3, <2>4, <2>8
    <2> QED
      BY <2>7, <2>8
  <1>9. CASE HandleCommand
    BY <1>9 DEF HandleCommand, Stopped, timervars
  <1>10. CASE Wait
    BY <1>1, <1>10 DEF Wait
  <1>11. CASE StackInit \/ Dispatch \/ ServiceMessages \/ ServiceTimers \/ ServiceHandlers \/ SleepUpdate
    BY <1>1, <1>11
    DEF StackInit, Dispatch, ServiceMessages, ServiceTimers, ServiceHandlers, SleepUpdate
  <1>12. CASE UNCHANGED vars
    BY <1>12 DEF vars, osvars, timervars, loopvars
  <1> QED
    BY <1>2, <1>3, <1>4, <1>5, <1>6, <1>7, <1>8, <1>9, <1>10, <1>11, <1>12 DEF Next, TaskStep

----------------------------------------------------------------------------

\* The invariant holds initially and every step preserves it.
LEMMA Inductive == Spec => []IInv
  <1>1. Init => IInv
    <2> SUFFICES ASSUME Init PROVE IInv
      OBVIOUS
    <2>1. TypeOK /\ Sorted
      BY InitOK
    <2>2. Running = {}
      BY DEF Init, Running, Elements
    <2>3. MessagesMasked /\ TimersMasked /\ EventsMasked
      BY <2>2 DEF Init, MessagesMasked, TimersMasked, EventsMasked
    <2>4. Stopped /\ HandlerRuns /\ WaitNotified /\ AlarmCovers
      BY DEF Init, NoAlarm, Stopped, HandlerRuns, WaitNotified, AlarmCovers
    <2> QED
      BY <2>1, <2>3, <2>4 DEF IInv
  <1>2. IInv /\ [Next]_vars => IInv'
    <2> SUFFICES ASSUME IInv, [Next]_vars PROVE IInv'
      OBVIOUS
    <2>1. TypeOK' /\ Sorted'
      BY TypesStep DEF IInv
    <2>2. MessagesMasked' /\ TimersMasked' /\ EventsMasked'
      BY MessagesStep, TimersStep, EventsStep DEF IInv
    <2>3. Stopped' /\ HandlerRuns' /\ WaitNotified' /\ AlarmCovers'
      BY LoopStep, CoverStep DEF IInv
    <2> QED
      BY <2>1, <2>2, <2>3 DEF IInv
  <1> QED
    BY <1>1, <1>2, PTL DEF Spec

\* What the invariant says of the task asleep.
LEMMA Covered == IInv => SleepsCovered
  <1> SUFFICES ASSUME IInv, Asleep PROVE SleepsCovered
    BY DEF SleepsCovered
  <1> USE DEF IInv
  <1>1. pc = "wait" /\ mask = {}
    BY DEF Asleep, WaitNotified, TypeOK
  <1>2. messages = 0
    BY <1>1 DEF MessagesMasked, TypeOK
  <1>3. events = {}
    BY <1>1 DEF EventsMasked
  <1>4. ASSUME queue # <<>> PROVE ticks[Head(queue)] > 0
    <2>1. Head(queue) \in Timers /\ Head(queue) \in Running
      BY <1>4, HeadTailProperties, LenProperties, EmptySeq DEF TypeOK, Running, Elements
    <2>2. ticks[Head(queue)] \in Nat /\ ticks[Head(queue)] # 0
      BY <1>1, <2>1 DEF TypeOK, TimersMasked
    <2> QED
      BY <2>2
  <1> QED
    BY <1>1, <1>2, <1>3, <1>4 DEF SleepsCovered, AlarmCovers, AlarmSet

\* The task never sleeps while there is work nobody will wake it for: an
\* event, a message, an expired timer, or a running timer without an alarm.
THEOREM NeverSleepsOnWork == Spec => []SleepsCovered
  BY Covered, Inductive, PTL

----------------------------------------------------------------------------
(* The timers are serviced in time.                                        *)

\* The longest timer expires before the counter has gone round, whatever the
\* handlers take in the two wake-ups between which it is alone (MaxHeld): the
\* counter has 32 bits.
Outlasts == \A n \in Durations : n * Clk + Clk + 2 * MaxHeld <= Modulus

\* The counts in n ticks.
Span(n) == n * Clk

\* How long until the alarm.
Awaited == IF alarm.left = Never THEN 0 ELSE alarm.left

\* The steps from which the task comes to an update before it sleeps.
Updating == pc \notin {"arm", "clear", "ready", "wait"}

\* The counter is at most a tick past a timer of n ticks, but for the time that
\* the task has been at work since it looked: in this wake-up (held), and in the
\* one before it.
CounterFits(n) ==
    /\ pc = "arm" => elapsed < Clk + held
    /\ pc = "clear" \/ (pc = "ready" /\ ticks[Head(queue)] > 0) =>
          elapsed + Awaited < Span(n) + Clk + held
    /\ pc = "wait" => elapsed + Awaited < Span(n) + Clk + MaxHeld + held
    /\ elapsed < Span(n) + Clk + MaxHeld + held

\* A timer has just been started; or it has lost at most half of its time in
\* fractions of a tick; or it is about to be serviced.
JustStarted(t) == Updating /\ asked[t].age <= held
Counted(t) ==
    /\ ticks[t] > 0 /\ CounterFits(ticks[t])
    /\ asked[t].age <= 2 * (Span(asked[t].for) - Span(ticks[t])) + elapsed + MaxHeld
Overdue(t) ==
    /\ ticks[t] = 0
    /\ asked[t].age <= 2 * Span(asked[t].for) + 2 * MaxHeld + held

Punctual(t) ==
    /\ asked[t].for \in Durations /\ ticks[t] <= asked[t].for
    /\ JustStarted(t) \/ Counted(t) \/ Overdue(t)

AllPunctual == \A t \in Running : Punctual(t)

LEMMA SpanIs ==
    /\ \A n \in Nat : Span(n) \in Nat /\ (n >= 1 => Span(n) >= Clk)
    /\ \A m, n \in Nat : m <= n => Span(m) <= Span(n) /\ Span(n - m) = Span(n) - Span(m)
    /\ Span(0) = 0
  <1>1. Clk \in Nat \ {0}
    BY Constants
  <1>2. ASSUME NEW n \in Nat PROVE Span(n) \in Nat /\ (n >= 1 => Span(n) >= Clk)
    BY <1>1 DEF Span
  <1>3. ASSUME NEW m \in Nat, NEW n \in Nat, m <= n
        PROVE  Span(m) <= Span(n) /\ Span(n - m) = Span(n) - Span(m)
    <2>1. PICK k \in Nat : n = m + k
      <3>1. n - m \in Nat /\ n = m + (n - m)
        BY <1>3
      <3> QED
        BY <3>1
    <2>2. n * Clk = m * Clk + k * Clk /\ n - m = k
      BY <1>1, <2>1
    <2>3. m * Clk \in Nat /\ k * Clk \in Nat
      BY <1>1, <2>1
    <2> QED
      BY <2>2, <2>3 DEF Span
  <1>4. Span(0) = 0
    BY <1>1 DEF Span
  <1> QED
    BY <1>2, <1>3, <1>4

\* The whole ticks in some counts.
LEMMA WholeTicks ==
    ASSUME NEW e \in Nat
    PROVE  /\ e \div Clk \in Nat
           /\ Span(e \div Clk) <= e /\ e < Span(e \div Clk) + Clk
  <1>1. Clk \in Nat \ {0}
    BY Constants
  <1>2. PICK c \in Nat \ {0} : c = Clk
    BY <1>1
  <1>3. e \div c \in Nat /\ (e \div c) * c <= e /\ e < (e \div c) * c + c
    OBVIOUS
  <1> QED
    BY <1>2, <1>3 DEF Span

\* The numbers of a timer.
LEMMA TimerTypes ==
    ASSUME IInv, NEW t \in Running
    PROVE  /\ t \in Timers /\ ticks[t] \in Nat /\ elapsed \in Nat /\ held \in Nat
           /\ asked[t].age \in Nat /\ Awaited \in Nat /\ held <= MaxHeld /\ MaxHeld \in Nat
           /\ Clk \in Nat \ {0} /\ Modulus \in Nat \ {0} /\ queue # <<>>
           /\ ticks[Head(queue)] \in Nat /\ ticks[Head(queue)] <= ticks[t]
  <1>1. TypeOK
    BY DEF IInv
  <1>2. t \in Timers
    BY <1>1, LenProperties, ElementOfSeq DEF TypeOK, Running, Elements
  <1>3. queue # <<>>
    BY <1>1, LenProperties, EmptySeq DEF TypeOK, Running, Elements
  <1>4. Head(queue) \in Timers /\ ticks[Head(queue)] <= ticks[t]
    BY <1>1, <1>3, TailSorted DEF IInv, TypeOK, Sorted, Running
  <1>5. elapsed \in Nat /\ held \in Nat /\ held <= MaxHeld
    BY <1>1, Constants DEF TypeOK
  <1>6. asked[t].age \in Nat
    BY <1>1, <1>2, Constants DEF TypeOK
  <1>7. Awaited \in Nat
    BY <1>1 DEF TypeOK, Awaited
  <1> QED
    BY <1>1, <1>2, <1>3, <1>4, <1>5, <1>6, <1>7, Constants DEF TypeOK

\* A timer stays punctual while nothing counts and the task is not to sleep.
LEMMA StaysPunctual ==
    ASSUME NEW t, Punctual(t), Updating',
           ticks'[t] = ticks[t], asked'[t] = asked[t], UNCHANGED <<elapsed, held>>
    PROVE  Punctual(t)'
  <1>1. JustStarted(t) => JustStarted(t)'
    BY DEF JustStarted
  <1>2. Counted(t) => Counted(t)'
    BY DEF Counted, CounterFits, Updating, Span
  <1>3. Overdue(t) => Overdue(t)'
    BY DEF Overdue, Span
  <1> QED
    BY <1>1, <1>2, <1>3 DEF Punctual

\* Or while the task stays where it is.
LEMMA StillPunctual ==
    ASSUME NEW t, Punctual(t),
           UNCHANGED <<queue, ticks, asked, elapsed, held, pc, Awaited>>
    PROVE  Punctual(t)'
  <1>1. JustStarted(t) => JustStarted(t)'
    BY DEF JustStarted, Updating
  <1>2. Counted(t) => Counted(t)'
    BY DEF Counted, CounterFits, Span
  <1>3. Overdue(t) => Overdue(t)'
    BY DEF Overdue, Span
  <1> QED
    BY <1>1, <1>2, <1>3 DEF Punctual

\* A handler starts and stops timers: a timer started has all of its time left.
LEMMA CallPunctual ==
    ASSUME IInv, AllPunctual, HandlerCalls
    PROVE  AllPunctual'
  <1>1. TypeOK /\ Sorted /\ Updating /\ inHandler
    BY DEF IInv, HandlerCalls, HandlerRuns, Updating
  <1>2. UNCHANGED <<elapsed, held, pc>> /\ Updating'
    BY <1>1 DEF HandlerCalls, loopvars, Updating, WsfSetEvent, WsfMsgSend, WsfTimerStart,
                WsfTimerStop, timervars
  <1>3. ASSUME UNCHANGED <<queue, ticks, asked>> PROVE AllPunctual'
    BY <1>2, <1>3, StaysPunctual DEF AllPunctual, Running
  <1>4. ASSUME NEW u \in Timers, NEW n \in Durations, WsfTimerStart(u, n) PROVE AllPunctual'
    <2>1. /\ Without(queue, u) \in Seq(Timers) /\ SortedBy(Without(queue, u), ticks)
          /\ Elements(Without(queue, u)) = Elements(queue) \ {u}
      BY <1>1, WithoutSorted DEF TypeOK, Sorted
    <2>2. n \in Nat /\ ticks \in [Timers -> Nat] /\ u \notin Elements(Without(queue, u))
      BY <1>1, <2>1, Constants DEF TypeOK
    <2>3. Elements(Inserted(Without(queue, u), u, n)) = Elements(Without(queue, u)) \union {u}
      BY <2>1, <2>2, InsertedSorted
    <2>4. Running' = Running \union {u}
      BY <1>4, <2>1, <2>3 DEF Running, WsfTimerStart
    <2>5. /\ ticks' = [ticks EXCEPT ![u] = n]
          /\ asked' = [asked EXCEPT ![u] = [age |-> 0, for |-> n]]
      BY <1>4 DEF WsfTimerStart
    <2>6. Punctual(u)'
      <3>1. ticks'[u] = n /\ asked'[u] = [age |-> 0, for |-> n]
        BY <1>1, <2>5 DEF TypeOK
      <3>2. held' \in Nat
        BY <1>1, <1>2, Constants DEF TypeOK
      <3> QED
        BY <1>2, <2>2, <3>1, <3>2 DEF Punctual, JustStarted
    <2>7. ASSUME NEW t \in Running, t # u PROVE Punctual(t)'
      <3>1. t \in Timers
        BY <2>7, TimerTypes
      <3>2. ticks'[t] = ticks[t] /\ asked'[t] = asked[t]
        BY <1>1, <2>5, <2>7, <3>1 DEF TypeOK
      <3> QED
        BY <1>2, <2>7, <3>2, StaysPunctual DEF AllPunctual
    <2> QED
      BY <2>4, <2>6, <2>7 DEF AllPunctual
  <1>5. ASSUME NEW u \in Timers, WsfTimerStop(u) PROVE AllPunctual'
    <2>1. Elements(Without(queue, u)) = Elements(queue) \ {u}
      BY <1>1, WithoutSorted DEF TypeOK, Sorted
    <2>2. Running' = Running \ {u}
      BY <1>5, <2>1 DEF Running, WsfTimerStop
    <2>3. ASSUME NEW t \in Running, t # u PROVE Punctual(t)'
      <3>1. ticks'[t] = ticks[t] /\ asked'[t] = asked[t]
        BY <1>5, <2>3, TimerTypes, <1>1 DEF WsfTimerStop, TypeOK
      <3> QED
        BY <1>2, <2>3, <3>1, StaysPunctual DEF AllPunctual
    <2> QED
      BY <2>2, <2>3 DEF AllPunctual
  <1> QED
    BY <1>3, <1>4, <1>5 DEF HandlerCalls, WsfSetEvent, WsfMsgSend, timervars

\* The loop outside WsfTimerSleepUpdate and WsfTimerSleep looks at the timers
\* without counting.
LEMMA LoopPunctual ==
    ASSUME IInv, AllPunctual,
           \/ HandlerReturns \/ HandleCommand \/ StackInit \/ Dispatch \/ ServiceMessages
           \/ ServiceTimers \/ ServiceHandlers \/ Wait \/ (Ready /\ mask # {})
    PROVE  AllPunctual'
  <1>1. CASE StackInit
    BY <1>1 DEF StackInit, AllPunctual, Running, Elements
  <1>2. CASE ~started /\ HandleCommand
    BY <1>2 DEF HandleCommand, timervars, IInv, Stopped, AllPunctual, Running, Elements
  <1>3. CASE /\ Updating' /\ Running' \subseteq Running
             /\ UNCHANGED <<ticks, elapsed, held>>
             /\ \A t \in Running' : asked'[t] = asked[t]
    <2>1. ASSUME NEW t \in Running' PROVE Punctual(t)'
      BY <1>3, <2>1, StaysPunctual DEF AllPunctual
    <2> QED
      BY <2>1 DEF AllPunctual
  <1>4. CASE HandleCommand /\ started
    BY <1>3, <1>4 DEF HandleCommand, timervars, Updating, Running
  <1>5. CASE HandlerReturns
    BY <1>3, <1>5 DEF HandlerReturns, IInv, HandlerRuns, timervars, loopvars, Updating, Running
  <1>6. CASE Dispatch \/ ServiceMessages \/ ServiceHandlers \/ Wait \/ (Ready /\ mask # {})
    BY <1>3, <1>6 DEF Dispatch, ServiceMessages, ServiceHandlers, Wait, Ready, At, timervars,
                      Updating, Running
  <1>7. CASE ServiceTimers
    <2>1. CASE UNCHANGED <<queue, asked>>
      BY <1>3, <1>7, <2>1 DEF ServiceTimers, At, Updating, Running
    <2>2. CASE /\ queue # <<>> /\ queue' = Tail(queue)
               /\ asked' = [asked EXCEPT ![Head(queue)] = NotAsked]
      <3>1. /\ TypeOK /\ Head(queue) \in Timers
            /\ Elements(Tail(queue)) \subseteq Elements(queue)
        BY <2>2, TailSorted DEF IInv, TypeOK, Sorted
      <3>2. Head(queue) \notin Elements(Tail(queue))
        <4>1. /\ DOMAIN queue = 1 .. Len(queue) /\ Len(queue) \in Nat \ {0} /\ Head(queue) = queue[1]
              /\ DOMAIN Tail(queue) = 1 .. Len(queue) - 1
              /\ \A i \in 1 .. Len(queue) - 1 : Tail(queue)[i] = queue[i + 1]
          BY <2>2, <3>1, HeadTailProperties, LenProperties, EmptySeq DEF TypeOK
        <4>2. ASSUME NEW i \in 1 .. Len(queue) - 1 PROVE Tail(queue)[i] # Head(queue)
          <5>1. 1 \in DOMAIN queue /\ i + 1 \in DOMAIN queue /\ 1 < i + 1
            BY <4>1
          <5>2. queue[1] # queue[i + 1]
            BY <5>1 DEF IInv, Sorted, SortedBy
          <5> QED
            BY <4>1, <5>2
        <4> QED
          BY <4>1, <4>2 DEF Elements
      <3>3. \A t \in Running' : asked'[t] = asked[t]
        BY <2>2, <3>1, <3>2 DEF Running, TypeOK
      <3> QED
        BY <1>3, <1>7, <2>2, <3>1, <3>3 DEF ServiceTimers, At, Updating, Running
    <2> QED
      BY <1>7, <2>1, <2>2 DEF ServiceTimers, Expired
  <1> QED
    BY <1>1, <1>2, <1>4, <1>5, <1>6, <1>7

\* The interrupts and the other tasks.
LEMMA InterruptPunctual ==
    ASSUME IInv, AllPunctual,
           AlarmIsr \/ RadioIsr \/ ConsoleSends \/ SendCommand \/ UNCHANGED vars
    PROVE  AllPunctual'
  <1>1. UNCHANGED <<queue, ticks, asked, elapsed, held, pc>>
    BY DEF AlarmIsr, RadioIsr, ConsoleSends, SendCommand, vars, timervars, loopvars, WsfSetEvent,
           WsfMsgSend
  <1>2. alarm'.left = alarm.left
    BY DEF AlarmIsr, RadioIsr, ConsoleSends, SendCommand, vars, IInv, TypeOK
  <1>3. UNCHANGED Awaited
    BY <1>2 DEF Awaited
  <1>4. Running' = Running
    BY <1>1 DEF Running
  <1> QED
    BY <1>1, <1>3, <1>4, StillPunctual DEF AllPunctual

\* WsfTimerSleep: the alarm is set for the first timer, which is not later than
\* any other.
LEMMA ArmPunctual ==
    ASSUME IInv, AllPunctual, SleepArm \/ SleepEnable
    PROVE  AllPunctual'
  <1>1. UNCHANGED <<queue, ticks, asked, elapsed, held>> /\ Running' = Running
    BY DEF SleepArm, SleepEnable, timervars, Running
  <1> SUFFICES ASSUME NEW t \in Running PROVE Punctual(t)'
    BY <1>1 DEF AllPunctual
  <1> DEFINE h == ticks[Head(queue)]
  <1>2. /\ ticks[t] \in Nat /\ h \in Nat /\ h <= ticks[t] /\ elapsed \in Nat /\ held \in Nat
        /\ Awaited \in Nat /\ MaxHeld \in Nat /\ Clk \in Nat \ {0} /\ TypeOK
    BY TimerTypes DEF IInv
  <1> HIDE DEF h
  <1>3. ~Updating /\ ~Updating'
    BY DEF SleepArm, SleepEnable, At, Updating
  <1>4. CASE Overdue(t)
    <2>1. Overdue(t)'
      BY <1>1, <1>4 DEF Overdue, Span
    <2> QED
      BY <1>1, <2>1 DEF Punctual, AllPunctual
  <1>5. CASE Counted(t)
    <2>1. CounterFits(ticks[t])'
      <3>1. CASE SleepEnable
        <4>1. alarm'.left = alarm.left /\ pc = "clear" /\ pc' = "ready"
          BY <1>2, <3>1 DEF SleepEnable, At, TypeOK
        <4>2. Awaited' = Awaited
          BY <4>1 DEF Awaited
        <4> QED
          BY <1>1, <1>5, <4>1, <4>2 DEF Counted, CounterFits, Span
      <3>2. CASE SleepArm
        <4>1. pc = "arm" /\ elapsed < Clk + held
          BY <1>5, <3>2 DEF SleepArm, At, Counted, CounterFits
        <4>2. Span(h) \in Nat /\ Span(ticks[t]) \in Nat /\ Span(h) <= Span(ticks[t])
          BY <1>2, SpanIs
        <4>3. CASE h > 0
          <5>1. alarm'.left = Span(h) /\ pc' = "clear"
            BY <1>2, <3>2, <4>3, TimerTypes DEF SleepArm, TypeOK, Span, h
          <5>2. Awaited' = Span(h)
            BY <4>2, <5>1 DEF Awaited, Never
          <5> QED
            BY <1>1, <1>2, <1>5, <4>1, <4>2, <5>1, <5>2 DEF Counted, CounterFits, Span
        <4>4. CASE ~(h > 0)
          <5>1. pc' = "ready" /\ ~(ticks'[Head(queue')] > 0)
            BY <1>1, <3>2, <4>4 DEF SleepArm, h
          <5> QED
            BY <1>1, <1>5, <5>1 DEF Counted, CounterFits, Span
        <4> QED
          BY <4>3, <4>4
      <3> QED
        BY <3>1, <3>2
    <2>2. Counted(t)'
      BY <1>1, <1>5, <2>1 DEF Counted, Span
    <2> QED
      BY <1>1, <2>2 DEF Punctual, AllPunctual
  <1> QED
    BY <1>3, <1>4, <1>5 DEF AllPunctual, Punctual, JustStarted

\* The task goes to sleep with no timer overdue.
LEMMA SleepPunctual ==
    ASSUME IInv, AllPunctual, Ready, mask = {}
    PROVE  AllPunctual'
  <1>1. /\ UNCHANGED <<queue, ticks, asked, elapsed, alarm>> /\ Running' = Running
        /\ pc = "ready" /\ pc' = "wait" /\ held' = 0
    BY DEF Ready, timervars, Running, At
  <1> SUFFICES ASSUME NEW t \in Running PROVE Punctual(t)'
    BY <1>1 DEF AllPunctual
  <1>2. /\ ticks[t] \in Nat /\ elapsed \in Nat /\ held \in Nat /\ held <= MaxHeld
        /\ MaxHeld \in Nat /\ Awaited \in Nat /\ Clk \in Nat \ {0} /\ queue # <<>>
        /\ ticks[Head(queue)] \in Nat /\ Span(ticks[t]) \in Nat
    BY TimerTypes, SpanIs
  <1>3. Head(queue) \in Running
    BY <1>2, HeadTailProperties, LenProperties, EmptySeq DEF IInv, TypeOK, Running, Elements
  <1>4. ticks[t] # 0 /\ ticks[Head(queue)] # 0
    BY <1>1, <1>3 DEF IInv, TimersMasked
  <1>5. Counted(t)
    BY <1>1, <1>4 DEF AllPunctual, Punctual, JustStarted, Updating, Overdue
  <1>6. elapsed + Awaited < Span(ticks[t]) + Clk + held
    BY <1>1, <1>2, <1>4, <1>5 DEF Counted, CounterFits
  <1>7. Awaited' = Awaited
    BY <1>1 DEF Awaited
  <1>8. CounterFits(ticks[t])'
    BY <1>1, <1>2, <1>6, <1>7 DEF CounterFits, Span
  <1>9. Counted(t)'
    BY <1>1, <1>5, <1>8 DEF Counted, Span
  <1> QED
    BY <1>1, <1>9 DEF AllPunctual, Punctual

\* A timer of f ticks with n of them left, a counts old, when e counts are q whole
\* ticks: m ticks are left, and the counter keeps d counts.
LEMMA UpdateCounts ==
    ASSUME NEW a \in Nat, NEW e \in Nat, NEW d \in Nat, NEW h \in Nat, NEW H \in Nat,
           NEW n \in Nat, NEW m \in Nat, NEW q \in Nat, h <= H,
           NEW sf \in Nat, NEW sn \in Nat, NEW sm \in Nat, NEW sq \in Nat, NEW c \in Nat,
           sm <= sf, sn <= sf, n > 0 => sn >= c, q > 0 => sq >= c,
           e < sq + c, q > 0 => d = 0, q = 0 => d = e /\ m = n, q = 0 => sq = 0,
           m = 0 \/ sm = sn - sq
    PROVE  /\ a <= h => a <= 2 * (sf - sm) + d + H /\ a <= 2 * sf + 2 * H + h
           /\ n > 0 /\ e < sn + c + H + h /\ a <= 2 * (sf - sn) + e + H =>
                 IF m = 0 THEN a <= 2 * sf + 2 * H + h ELSE a <= 2 * (sf - sm) + d + H
  <1>1. a <= h => a <= 2 * (sf - sm) + d + H /\ a <= 2 * sf + 2 * H + h
    OBVIOUS
  <1>2. ASSUME n > 0, e < sn + c + H + h, a <= 2 * (sf - sn) + e + H
        PROVE  IF m = 0 THEN a <= 2 * sf + 2 * H + h ELSE a <= 2 * (sf - sm) + d + H
    <2>1. CASE m = 0
      BY <1>2, <2>1
    <2>2. CASE m # 0 /\ q = 0
      BY <1>2, <2>2
    <2>3. CASE m # 0 /\ q > 0
      BY <1>2, <2>3
    <2> QED
      BY <2>1, <2>2, <2>3
  <1> QED
    BY <1>1, <1>2

\* WsfTimerSleepUpdate takes the whole ticks off: at least half of what has
\* passed.
LEMMA UpdatePunctual ==
    ASSUME IInv, AllPunctual, SleepUpdate
    PROVE  AllPunctual'
  <1> SUFFICES ASSUME NEW t \in Running PROVE Punctual(t)'
    BY DEF AllPunctual, SleepUpdate, Running
  <1>1. /\ ticks[t] \in Nat /\ elapsed \in Nat /\ held \in Nat /\ held <= MaxHeld
        /\ MaxHeld \in Nat /\ Clk \in Nat \ {0} /\ asked[t].age \in Nat
        /\ t \in Timers /\ asked[t].for \in Nat /\ ticks[t] <= asked[t].for
    BY TimerTypes, Constants DEF AllPunctual, Punctual
  <1>2. PICK n \in Nat, f \in Nat, a \in Nat : n = ticks[t] /\ f = asked[t].for /\ a = asked[t].age
    BY <1>1
  <1>3. PICK e \in Nat, h \in Nat, H \in Nat, c \in Nat \ {0} :
           e = elapsed /\ h = held /\ H = MaxHeld /\ c = Clk
    BY <1>1
  <1>4. PICK q \in Nat : q = elapsed \div Clk
    BY <1>1, WholeTicks
  <1>5. Span(q) \in Nat /\ Span(q) <= e /\ e < Span(q) + c /\ (q > 0 => Span(q) >= c)
        /\ (q = 0 => Span(q) = 0)
    <2>1. Span(q) \in Nat /\ (q >= 1 => Span(q) >= Clk) /\ Span(0) = 0
      BY SpanIs
    <2>2. Span(q) <= elapsed /\ elapsed < Span(q) + Clk
      BY <1>1, <1>4, WholeTicks
    <2> QED
      BY <1>3, <2>1, <2>2
  <1>6. PICK m \in Nat : m = IF q > 0 THEN Minus(n, q) ELSE n
    BY <1>2, <1>4 DEF Minus
  <1>7. m <= n /\ n <= f /\ m <= f /\ (m = 0 \/ (m = n - q /\ q <= n)) /\ (q = 0 => m = n)
    BY <1>1, <1>2, <1>6 DEF Minus
  <1>8. /\ Span(m) \in Nat /\ Span(n) \in Nat /\ Span(f) \in Nat
        /\ Span(m) <= Span(f) /\ Span(n) <= Span(f)
        /\ n > 0 => Span(n) >= c
    <2>1. Span(m) \in Nat /\ Span(n) \in Nat /\ Span(f) \in Nat /\ (n >= 1 => Span(n) >= Clk)
      BY SpanIs
    <2>2. Span(m) <= Span(f) /\ Span(n) <= Span(f)
      BY <1>7, SpanIs
    <2> QED
      BY <1>3, <2>1, <2>2
  <1>9. m = 0 \/ Span(m) = Span(n) - Span(q)
    BY <1>7, SpanIs
  <1>10. /\ UNCHANGED <<queue, asked, held>> /\ pc' = "arm"
         /\ elapsed' = IF q > 0 THEN 0 ELSE elapsed
    BY <1>4 DEF SleepUpdate, CountLeft
  <1>11. ticks'[t] = m
    BY <1>1, <1>2, <1>4, <1>6 DEF SleepUpdate
  <1>12. PICK d \in Nat : d = elapsed' /\ d < c /\ (q > 0 => d = 0) /\ (q = 0 => d = e)
    BY <1>3, <1>5, <1>10
  <1>13. asked'[t].for = f /\ asked'[t].age = a /\ f \in Durations /\ held' = h
    BY <1>2, <1>3, <1>10 DEF AllPunctual, Punctual
  <1>14. PICK sm \in Nat, sn \in Nat, sf \in Nat, sq \in Nat :
            sm = Span(m) /\ sn = Span(n) /\ sf = Span(f) /\ sq = Span(q)
    BY <1>5, <1>8
  <1>15. /\ a <= h => a <= 2 * (sf - sm) + d + H /\ a <= 2 * sf + 2 * H + h
         /\ n > 0 /\ e < sn + c + H + h /\ a <= 2 * (sf - sn) + e + H =>
               IF m = 0 THEN a <= 2 * sf + 2 * H + h ELSE a <= 2 * (sf - sm) + d + H
    <2>1. h <= H /\ c \in Nat
      BY <1>1, <1>3
    <2>2. sm <= sf /\ sn <= sf /\ (n > 0 => sn >= c) /\ (m = 0 \/ sm = sn - sq)
      BY <1>8, <1>9, <1>14
    <2>3. (q > 0 => sq >= c) /\ e < sq + c /\ (q = 0 => sq = 0)
      BY <1>5, <1>14
    <2>4. (q > 0 => d = 0) /\ (q = 0 => d = e /\ m = n)
      BY <1>7, <1>12
    <2> HIDE <1>1, <1>2, <1>3, <1>4, <1>5, <1>6, <1>7, <1>8, <1>9, <1>14
    <2> QED
      BY <2>1, <2>2, <2>3, <2>4, UpdateCounts
  <1>16. /\ (JustStarted(t) => a <= h)
         /\ (Counted(t) => n > 0 /\ e < sn + c + H + h /\ a <= 2 * (sf - sn) + e + H)
         /\ (Overdue(t) => n = 0 /\ a <= 2 * sf + 2 * H + h)
    BY <1>2, <1>3, <1>14 DEF JustStarted, Counted, CounterFits, Overdue
  <1>17. IF m = 0 THEN a <= 2 * sf + 2 * H + h ELSE a <= 2 * (sf - sm) + d + H
    <2>1. JustStarted(t) \/ Counted(t) \/ Overdue(t)
      BY DEF AllPunctual, Punctual
    <2>2. n = 0 => m = 0
      BY <1>7
    <2> QED
      BY <1>15, <1>16, <2>1, <2>2
  <1>18. CounterFits(m)'
    <2>1. d < c + h /\ d < sm + c + H + h
      BY <1>3, <1>12
    <2>2. elapsed' < Clk + held' /\ elapsed' < Span(m) + Clk + MaxHeld + held'
      BY <1>3, <1>12, <1>13, <1>14, <2>1
    <2> QED
      BY <1>10, <2>2 DEF CounterFits, Span
  <1>19. CASE m = 0
    <2>1. Overdue(t)'
      BY <1>3, <1>11, <1>13, <1>14, <1>17, <1>19 DEF Overdue, Span
    <2> QED
      BY <1>7, <1>11, <1>13, <2>1 DEF Punctual
  <1>20. CASE m # 0
    <2>1. Counted(t)'
      BY <1>3, <1>11, <1>12, <1>13, <1>14, <1>17, <1>18, <1>20 DEF Counted, Span
    <2> QED
      BY <1>7, <1>11, <1>13, <2>1 DEF Punctual
  <1> QED
    BY <1>19, <1>20

\* The alarm comes a count nearer.
LEMMA AlarmNears ==
    ASSUME TypeOK, Tick
    PROVE  Awaited' = IF Awaited > 0 THEN Awaited - 1 ELSE 0
  <1>1. alarm.left \in Nat \union {Never} /\ Never = -1
    BY DEF TypeOK, Never
  <1>2. alarm'.left = IF alarm.left \in {Never, 1} THEN Never ELSE alarm.left - 1
    BY <1>1 DEF Tick, TypeOK
  <1> QED
    BY <1>1, <1>2 DEF Awaited

\* A count of time.
LEMMA TickPunctual ==
    ASSUME IInv, AllPunctual, Outlasts, Tick
    PROVE  AllPunctual'
  <1>1. UNCHANGED <<queue, ticks, pc>> /\ Running' = Running /\ TypeOK
    BY DEF Tick, loopvars, Running, IInv
  <1> SUFFICES ASSUME NEW t \in Running PROVE Punctual(t)'
    BY <1>1 DEF AllPunctual
  <1>2. /\ ticks[t] \in Nat /\ elapsed \in Nat /\ held \in Nat /\ held <= MaxHeld
        /\ MaxHeld \in Nat /\ Awaited \in Nat /\ Clk \in Nat \ {0} /\ Modulus \in Nat \ {0}
        /\ t \in Timers /\ asked[t].age \in Nat /\ asked[t].for \in Nat
        /\ ticks[t] <= asked[t].for /\ asked[t].for \in Durations /\ queue # <<>>
    BY TimerTypes, Constants DEF AllPunctual, Punctual
  <1>3. PICK n \in Nat, f \in Nat, a \in Nat : n = ticks[t] /\ f = asked[t].for /\ a = asked[t].age
    BY <1>2
  <1>4. PICK e \in Nat, h \in Nat, H \in Nat, c \in Nat \ {0}, w \in Nat :
           e = elapsed /\ h = held /\ H = MaxHeld /\ c = Clk /\ w = Awaited
    BY <1>2
  <1>5. PICK b \in Nat : /\ b = asked'[t].age /\ b <= a + 1
                         /\ asked'[t].for = f
    <2>1. asked' = [x \in Timers |-> IF x \in Running /\ asked[x].age < MaxAge
                                     THEN [asked[x] EXCEPT !.age = @ + 1] ELSE asked[x]]
      BY DEF Tick
    <2>2. asked[t] \in [age : 0 .. MaxAge, for : Durations \union {0}]
      BY <1>1, <1>2 DEF TypeOK
    <2>3. \/ asked'[t] = asked[t]
          \/ asked'[t] = [asked[t] EXCEPT !.age = asked[t].age + 1]
      BY <1>2, <2>1
    <2>4. asked'[t].for = f /\ (asked'[t].age = a \/ asked'[t].age = a + 1)
      BY <1>3, <2>2, <2>3
    <2> QED
      BY <2>4
  <1>6. PICK sn \in Nat, sf \in Nat : sn = Span(n) /\ sf = Span(f) /\ sn <= sf
    BY <1>2, <1>3, SpanIs
  <1>7. sf + c + 2 * H <= Modulus
    BY <1>2, <1>3, <1>4, <1>6 DEF Outlasts, Span
  <1>8. PICK v \in Nat : v = Awaited' /\ v = IF w > 0 THEN w - 1 ELSE 0
    BY <1>1, <1>4, AlarmNears
  <1>9. Asleep => held' = held /\ pc = "wait" /\ w > 0 /\ n # 0
    <2> SUFFICES ASSUME Asleep
                 PROVE  held' = held /\ pc = "wait" /\ w > 0 /\ n # 0
      OBVIOUS
    <2>1. ~(alarm.enabled /\ alarm.pending) /\ held' = held /\ pc = "wait"
      BY DEF Tick, Asleep
    <2>2. mask = {} /\ alarm.enabled /\ alarm.left \in 1 .. ticks[Head(queue)] * Clk
      BY <1>2, <2>1, Covered DEF SleepsCovered
    <2>3. alarm.left \in Nat \union {Never} /\ alarm.left >= 1
      <3>1. ticks[Head(queue)] * Clk \in Nat
        BY <1>2, TimerTypes
      <3> QED
        BY <1>1, <2>2, <3>1 DEF TypeOK
    <2>4. w > 0
      BY <1>4, <2>3 DEF Awaited, Never
    <2>5. n # 0
      BY <1>3, <2>1, <2>2 DEF IInv, TimersMasked
    <2> QED
      BY <2>1, <2>4, <2>5
  <1>10. ~Asleep => held' = held + 1 /\ held < MaxHeld
    BY DEF Tick
  <1>11. PICK g \in Nat : g = held' /\ g <= H /\ (Asleep => g = h) /\ (~Asleep => g = h + 1)
    BY <1>2, <1>4, <1>9, <1>10
  <1>12. CASE JustStarted(t)
    <2>1. ~Asleep /\ Updating' /\ a <= h
      BY <1>1, <1>3, <1>4, <1>9, <1>12 DEF JustStarted, Updating
    <2>2. b <= g
      BY <1>5, <1>11, <2>1
    <2>3. JustStarted(t)'
      BY <1>5, <1>11, <2>1, <2>2 DEF JustStarted
    <2> QED
      BY <1>1, <1>2, <1>3, <1>5, <2>3 DEF Punctual
  <1>13. CASE Counted(t)
    <2>1. n > 0 /\ CounterFits(n) /\ a <= 2 * (sf - sn) + e + H
      BY <1>3, <1>4, <1>6, <1>13 DEF Counted
    <2>2. /\ pc = "arm" => e < c + h
          /\ pc = "clear" \/ (pc = "ready" /\ ticks[Head(queue)] > 0) => e + w < sn + c + h
          /\ pc = "wait" => e + w < sn + c + H + h
          /\ e < sn + c + H + h
      BY <1>4, <1>6, <2>1 DEF CounterFits
    <2>3. e + 1 < sn + c + H + g
      <3>1. CASE Asleep
        BY <1>9, <1>11, <2>2, <3>1
      <3>2. CASE ~Asleep
        BY <1>11, <2>2, <3>2
      <3> QED
        BY <3>1, <3>2
    <2>4. elapsed' = e + 1
      <3>1. PICK N \in Nat \ {0} : N = Modulus
        BY <1>2
      <3>2. e + 1 < N
        BY <1>6, <1>7, <1>11, <2>3, <3>1
      <3>3. \A x \in Nat : x < N => x % N = x
        OBVIOUS
      <3>4. (e + 1) % N = e + 1
        BY <3>2, <3>3
      <3> QED
        BY <1>4, <3>1, <3>4 DEF Tick
    <2>5. CounterFits(n)'
      <3>1. pc = "arm" => e + 1 < c + g
        BY <1>11, <2>2 DEF Asleep
      <3>2. pc = "clear" \/ (pc = "ready" /\ ticks[Head(queue)] > 0) => e + 1 + v < sn + c + g
        <4>1. pc = "clear" \/ pc = "ready" => g = h + 1
          BY <1>11 DEF Asleep
        <4>2. v <= w
          BY <1>8
        <4> QED
          BY <2>2, <4>1, <4>2
      <3>3. pc = "wait" => e + 1 + v < sn + c + H + g
        <4>1. CASE Asleep
          BY <1>8, <1>9, <1>11, <2>2, <4>1
        <4>2. CASE ~Asleep
          <5>1. v <= w /\ g = h + 1
            BY <1>8, <1>11, <4>2
          <5> QED
            BY <2>2, <5>1
        <4> QED
          BY <4>1, <4>2
      <3> QED
        BY <1>1, <1>4, <1>6, <1>8, <1>11, <2>3, <2>4, <3>1, <3>2, <3>3 DEF CounterFits, Span
    <2>6. b <= 2 * (sf - sn) + (e + 1) + H
      BY <1>5, <1>6, <2>1
    <2>7. Counted(t)'
      BY <1>1, <1>3, <1>4, <1>5, <1>6, <2>1, <2>4, <2>5, <2>6 DEF Counted, Span
    <2> QED
      BY <1>1, <1>2, <1>3, <1>5, <2>7 DEF Punctual
  <1>14. CASE Overdue(t)
    <2>1. n = 0 /\ a <= 2 * sf + 2 * H + h
      BY <1>3, <1>4, <1>6, <1>14 DEF Overdue
    <2>2. b <= 2 * sf + 2 * H + g
      BY <1>5, <1>9, <1>11, <2>1
    <2>3. Overdue(t)'
      BY <1>1, <1>3, <1>4, <1>5, <1>6, <1>11, <2>1, <2>2 DEF Overdue, Span
    <2> QED
      BY <1>1, <1>2, <1>3, <1>5, <2>3 DEF Punctual
  <1> QED
    BY <1>12, <1>13, <1>14 DEF AllPunctual, Punctual

\* Every timer is serviced in time: whatever the handlers start and stop, however
\* the wake-ups fall, and although WsfTimerUpdate drops fractions of a tick.  What
\* a timer may lose on top of them is the time that the task is at work in the
\* wake-up that starts it, in the one that sets its alarm and in the one that
\* services it.
THEOREM ServicedInTime ==
    ASSUME Outlasts, Slack \in Nat, Slack >= 3 * MaxHeld
    PROVE  Spec => []NotLate
  <1>1. Init => AllPunctual
    BY DEF Init, AllPunctual, Running, Elements
  <1>2. IInv /\ AllPunctual /\ [Next]_vars => AllPunctual'
    <2> SUFFICES ASSUME IInv, AllPunctual, [Next]_vars PROVE AllPunctual'
      OBVIOUS
    <2> QED
      BY CallPunctual, LoopPunctual, InterruptPunctual, ArmPunctual, SleepPunctual, UpdatePunctual,
         TickPunctual
      DEF Next, TaskStep
  <1>3. IInv /\ AllPunctual => NotLate
    <2> SUFFICES ASSUME IInv, AllPunctual, NEW t \in Running
                 PROVE  asked[t].age <= 2 * Clk * asked[t].for + Slack
      BY DEF NotLate
    <2>1. /\ ticks[t] \in Nat /\ elapsed \in Nat /\ held \in Nat /\ held <= MaxHeld
          /\ MaxHeld \in Nat /\ Clk \in Nat \ {0} /\ asked[t].age \in Nat
          /\ asked[t].for \in Nat /\ ticks[t] <= asked[t].for
      BY TimerTypes, Constants DEF AllPunctual, Punctual
    <2>2. PICK n \in Nat, f \in Nat, a \in Nat :
             n = ticks[t] /\ f = asked[t].for /\ a = asked[t].age
      BY <2>1
    <2>3. PICK e \in Nat, h \in Nat, H \in Nat, c \in Nat \ {0} :
             e = elapsed /\ h = held /\ H = MaxHeld /\ c = Clk
      BY <2>1
    <2>4. PICK sn \in Nat, sf \in Nat : sn = Span(n) /\ sf = Span(f) /\ sn <= sf /\ (n > 0 => sn >= c)
      <3>1. Span(n) \in Nat /\ Span(f) \in Nat /\ (n >= 1 => Span(n) >= Clk)
        BY SpanIs
      <3>2. Span(n) <= Span(f)
        BY <2>1, <2>2, SpanIs
      <3> QED
        BY <2>3, <3>1, <3>2
    <2>5. /\ JustStarted(t) => a <= h
          /\ Counted(t) => n > 0 /\ e < sn + c + H + h /\ a <= 2 * (sf - sn) + e + H
          /\ Overdue(t) => a <= 2 * sf + 2 * H + h
      BY <2>2, <2>3, <2>4 DEF JustStarted, Counted, CounterFits, Overdue
    <2>6. JustStarted(t) \/ Counted(t) \/ Overdue(t)
      BY DEF AllPunctual, Punctual
    <2>7. h <= H
      BY <2>1, <2>3
    <2>8. a <= 2 * sf + 3 * H
      BY <2>4, <2>5, <2>6, <2>7
    <2>9. 2 * c * f = 2 * sf
      BY <2>3, <2>4 DEF Span
    <2>10. a <= 2 * c * f + Slack
      <3>1. 3 * H <= Slack
        BY <2>3
      <3> QED
        BY <2>8, <2>9, <3>1
    <2> QED
      BY <2>2, <2>3, <2>10
  <1> QED
    BY <1>1, <1>2, <1>3, Inductive, PTL DEF Spec
=============================================================================
