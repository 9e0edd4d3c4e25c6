-------------------------- MODULE LmHandler_proofs --------------------------
(***************************************************************************)
(* What holds of the application's use of the MAC for every length of the  *)
(* queue of confirmations, every number of tokens, all commands of the     *)
(* application and all downlinks.                                          *)
(***************************************************************************)
EXTENDS LmHandler, WellFoundedInduction, TLAPS

----------------------------------------------------------------------------
(* The turns of LoRaMacConfirmQueueHandleCb, as many as there were elements *)
(* when it began.                                                          *)

\* The least of some numbers.
LEMMA Least == ASSUME NEW S, S \subseteq Nat, S # {}
               PROVE  \E k \in S : \A j \in S : k <= j
<1> DEFINE R == OpToRel(<, Nat)
<1>1. IsWellFoundedOn(R, Nat)
  BY NatLessThanWellFounded
<1>2. PICK k \in S : \A j \in S : ~(<<j, k>> \in R)
  <2> HIDE DEF R
  <2> QED
    BY <1>1, WFMin
<1>3. \A j \in S : ~(j < k)
  BY <1>2 DEF OpToRel
<1> QED
  BY <1>3

\* f gives the devices after each of the turns 0 to n.
Turns(f, n, s) == \A k \in 0 .. n : f[k] = IF k = 0 THEN {s} ELSE Turn(f[k - 1])

LEMMA TurnsUnique ==
    ASSUME NEW s, NEW f, NEW g, NEW n \in Nat, NEW m \in Nat,
           Turns(f, n, s), Turns(g, m, s)
    PROVE  \A k \in Nat : k <= n /\ k <= m => f[k] = g[k]
<1> DEFINE S == {k \in Nat : k <= n /\ k <= m /\ f[k] # g[k]}
<1> SUFFICES ASSUME S # {} PROVE FALSE
  OBVIOUS
<1>1. PICK k \in S : \A j \in S : k <= j
  BY Least
<1>2. k \in 0 .. n /\ k \in 0 .. m /\ f[k] # g[k]
  BY <1>1
<1>3. CASE k = 0
  BY <1>2, <1>3 DEF Turns
<1>4. CASE k # 0
  <2>1. k - 1 \in Nat /\ k - 1 <= n /\ k - 1 <= m /\ ~(k - 1 \in S)
    BY <1>1, <1>2, <1>4
  <2>2. f[k - 1] = g[k - 1]
    BY <2>1
  <2> QED
    BY <1>2, <1>4, <2>2 DEF Turns
<1> QED
  BY <1>3, <1>4

LEMMA TurnsExist == ASSUME NEW s PROVE \A n \in Nat : \E f : Turns(f, n, s)
<1> DEFINE S == {n \in Nat : ~ \E f : Turns(f, n, s)}
<1> SUFFICES ASSUME S # {} PROVE FALSE
  OBVIOUS
<1>1. PICK n \in S : \A j \in S : n <= j
  BY Least
<1>2. CASE n = 0
  <2>1. Turns([k \in {0} |-> {s}], 0, s)
    BY DEF Turns
  <2> QED
    BY <1>1, <1>2, <2>1
<1>3. CASE n # 0
  <2>1. n - 1 \in Nat /\ ~(n - 1 \in S)
    BY <1>1, <1>3
  <2>2. PICK f : Turns(f, n - 1, s)
    BY <2>1
  <2> DEFINE g == [k \in 0 .. n |-> IF k = n THEN Turn(f[n - 1]) ELSE f[k]]
  <2>3. \A k \in 0 .. n : g[k] = IF k = n THEN Turn(f[n - 1]) ELSE f[k]
    OBVIOUS
  <2> HIDE DEF g
  <2>4. ASSUME NEW k \in 0 .. n PROVE g[k] = IF k = 0 THEN {s} ELSE Turn(g[k - 1])
    <3>1. CASE k = n
      <4>1. g[k - 1] = f[n - 1] /\ g[k] = Turn(f[n - 1])
        BY <1>3, <2>1, <2>3, <3>1
      <4> QED
        BY <1>3, <3>1, <4>1
    <3>2. CASE k # n
      <4>1. k \in 0 .. n - 1 /\ g[k] = f[k]
        BY <2>3, <3>2
      <4>2. k # 0 => g[k - 1] = f[k - 1]
        BY <2>3, <3>2
      <4> QED
        BY <2>2, <4>1, <4>2 DEF Turns
    <3> QED
      BY <3>1, <3>2
  <2>5. Turns(g, n, s)
    BY <2>4 DEF Turns
  <2> QED
    BY <1>1, <2>5
<1> QED
  BY <1>2, <1>3

LEMMA HandleCbTurns ==
    ASSUME NEW s, Len(s.queue) \in Nat
    PROVE  \E f : Turns(f, Len(s.queue), s) /\ HandleCb(s) = f[Len(s.queue)]
<1> DEFINE F(f) == f = [n \in Nat |-> IF n = 0 THEN {s} ELSE Turn(f[n - 1])]
           t == CHOOSE f : F(f)
           P(n) == CHOOSE f : Turns(f, n, s)
           g == [n \in Nat |-> P(n)[n]]
<1>1. \A n \in Nat : Turns(P(n), n, s)
  BY TurnsExist
<1>2. \A n \in Nat : g[n] = P(n)[n]
  OBVIOUS
<1>3. ASSUME NEW n \in Nat PROVE g[n] = IF n = 0 THEN {s} ELSE Turn(g[n - 1])
  <2> HIDE DEF P, g
  <2>1. P(n)[n] = IF n = 0 THEN {s} ELSE Turn(P(n)[n - 1])
    <3>1. Turns(P(n), n, s) /\ n \in 0 .. n
      BY <1>1
    <3> QED
      BY <3>1 DEF Turns
  <2>2. ASSUME n # 0 PROVE P(n)[n - 1] = g[n - 1]
    <3>1. n - 1 \in Nat
      BY <2>2
    <3>2. P(n)[n - 1] = P(n - 1)[n - 1]
      BY <1>1, <3>1, TurnsUnique
    <3> QED
      BY <1>2, <3>1, <3>2
  <2> QED
    BY <1>2, <2>1, <2>2
<1>4. F(g)
  <2>1. g = [n \in Nat |-> g[n]]
    BY <1>2
  <2> HIDE DEF P, g
  <2> QED
    BY <1>3, <2>1
<1>5. F(t)
  <2> HIDE DEF g, F
  <2> QED
    BY <1>4
<1>6. HandleCb(s) = t[Len(s.queue)]
  BY DEF HandleCb
<1>7. Turns(t, Len(s.queue), s)
  <2>1. \A n \in Nat : t[n] = IF n = 0 THEN {s} ELSE Turn(t[n - 1])
    <3> HIDE DEF t
    <3> QED
      BY <1>5
  <2> HIDE DEF t
  <2>2. \A k \in 0 .. Len(s.queue) : k \in Nat
    OBVIOUS
  <2> QED
    BY <2>1, <2>2 DEF Turns
<1> QED
  BY <1>6, <1>7

\* What every turn leads on holds after the last.
LEMMA HandleCbInv ==
    ASSUME NEW s, Len(s.queue) \in Nat, NEW G, s \in G[0],
           \A n \in 0 .. Len(s.queue) - 1 : \A r \in G[n] : HandleFirst(r) \subseteq G[n + 1]
    PROVE  HandleCb(s) \subseteq G[Len(s.queue)]
<1>1. PICK f : Turns(f, Len(s.queue), s) /\ HandleCb(s) = f[Len(s.queue)]
  BY HandleCbTurns
<1> DEFINE S == {n \in Nat : n <= Len(s.queue) /\ ~(f[n] \subseteq G[n])}
<1>2. SUFFICES S = {}
  BY <1>1
<1> SUFFICES ASSUME S # {} PROVE FALSE
  OBVIOUS
<1>3. PICK n \in S : \A j \in S : n <= j
  BY Least
<1>4. CASE n = 0
  BY <1>1, <1>3, <1>4 DEF Turns
<1>5. CASE n # 0
  <2>1. n - 1 \in 0 .. Len(s.queue) - 1 /\ n \in 0 .. Len(s.queue) /\ ~(n - 1 \in S)
    BY <1>3, <1>5
  <2>2. f[n - 1] \subseteq G[n - 1]
    BY <2>1
  <2>3. f[n] = Turn(f[n - 1])
    BY <1>1, <1>5, <2>1 DEF Turns
  <2>4. \A r \in f[n - 1] : HandleFirst(r) \subseteq G[n]
    BY <2>1, <2>2
  <2>5. f[n] \subseteq G[n]
    BY <2>3, <2>4 DEF Turn
  <2> QED
    BY <1>3, <2>5
<1> QED
  BY <1>4, <1>5
----------------------------------------------------------------------------
(* The invariants of a device.                                             *)

\* The queue has its length.
Typed(s) == s \in Device /\ Len(s.queue) <= QueueLen

MlmeSet(s) == s.queue # <<>> => s.mlme

\* A switch to class B has a request after the first k of the queue.
Leads(e, s) == \/ e.req \in {"time", "slot"}
               \/ e.req = "acquisition" /\ (e.ready \/ s.seeking \/ s.halted)
Going(s, k) == s.classB /\ ~s.refused =>
                  \E i \in 1 .. Len(s.queue) : i > k /\ Leads(s.queue[i], s)

NotInB(s) == s.classB => s.class # "B"

\* A device that joins has no network and no search for a beacon.
Joining(s) == s.tx = "join" => ~s.joined /\ ~s.seeking

\* The requests to join after the first k of the queue, and up to the k-th.
JoinAfter(s, k, i) == i \in 1 .. Len(s.queue) /\ i > k /\ s.queue[i].req = "join"
NewJoins(s, k) == /\ \A i : JoinAfter(s, k, i) => s.tx = "join"
                  /\ \A i, j : JoinAfter(s, k, i) /\ JoinAfter(s, k, j) => i = j

----------------------------------------------------------------------------
(* What a handler of a notification does to a device.                      *)

\* It appends to the queue, at most one join, answered with the frame that asks
\* for it, and only if nothing was under way,
\* and stops no switch to class B without remembering it.
Effect(s, r) ==
    /\ Typed(r)
    /\ Len(s.queue) <= Len(r.queue)
    /\ \A i \in 1 .. Len(s.queue) : r.queue[i] = s.queue[i]
    /\ MlmeSet(s) => MlmeSet(r)
    /\ NotInB(r)
    /\ \A k \in 0 .. Len(s.queue) : Going(s, k) => Going(r, k)
    /\ Joining(s) => Joining(r)
    /\ Busy(s) => r.tx = s.tx
    /\ \A i : JoinAfter(r, Len(s.queue), i) =>
                ~Busy(s) /\ r.tx = "join" /\ ~r.queue[i].own
    /\ \A i, j : JoinAfter(r, Len(s.queue), i) /\ JoinAfter(r, Len(s.queue), j) => i = j
    /\ r.joined => s.joined

\* It leaves the clock package's state alone.
Kept(s, r) == /\ r.adr = s.adr /\ r.trans = s.trans /\ r.server = s.server
              /\ r.pending = s.pending /\ r.prevAdr = s.prevAdr
              /\ r.prevTrans = s.prevTrans /\ r.resync = s.resync
              /\ r.token = s.token /\ r.error = s.error /\ r.late = s.late

Handled(s, r) == /\ Effect(s, r) /\ Kept(s, r) /\ r.asked \subseteq s.asked
                 /\ s.joined => r.joined

LEMMA EffectSelf == ASSUME NEW s, Typed(s), NotInB(s)
                    PROVE  Effect(s, s) /\ Handled(s, s)
<1>1. s.queue \in Seq(Elements) /\ Len(s.queue) \in Nat
  BY DEF Typed, Device
<1>2. \A i : ~JoinAfter(s, Len(s.queue), i)
  BY <1>1 DEF JoinAfter
<1> QED
  BY <1>1, <1>2 DEF Effect, Handled, Kept

LEMMA EffectTrans ==
    ASSUME NEW s, NEW r, NEW t, Typed(s), Effect(s, r), Effect(r, t)
    PROVE  Effect(s, t)
<1>1. /\ Typed(r) /\ Typed(t)
      /\ Len(s.queue) \in Nat /\ Len(r.queue) \in Nat /\ Len(t.queue) \in Nat
      /\ Len(s.queue) <= Len(r.queue) /\ Len(r.queue) <= Len(t.queue)
  BY DEF Effect, Typed, Device
<1>2. \A i \in 1 .. Len(s.queue) : t.queue[i] = s.queue[i]
  BY <1>1 DEF Effect
<1>3. \A k \in 0 .. Len(s.queue) : Going(s, k) => Going(t, k)
  <2>1. \A k \in 0 .. Len(s.queue) : k \in 0 .. Len(r.queue)
    BY <1>1
  <2> QED
    BY <2>1 DEF Effect
<1>4. \A i : JoinAfter(t, Len(s.queue), i) =>
                JoinAfter(t, Len(r.queue), i) \/ JoinAfter(r, Len(s.queue), i)
  <2> TAKE i
  <2> HAVE JoinAfter(t, Len(s.queue), i)
  <2>1. CASE i > Len(r.queue)
    BY <2>1 DEF JoinAfter
  <2>2. CASE ~(i > Len(r.queue))
    <3>1. i \in 1 .. Len(r.queue)
      BY <1>1, <2>2 DEF JoinAfter
    <3>2. t.queue[i] = r.queue[i]
      BY <3>1 DEF Effect
    <3> QED
      BY <3>1, <3>2 DEF JoinAfter
  <2> QED
    BY <2>1, <2>2
<1>5. \A i : JoinAfter(t, Len(r.queue), i) =>
                ~Busy(r) /\ t.tx = "join" /\ ~t.queue[i].own
  BY DEF Effect
<1>6. \A i : JoinAfter(r, Len(s.queue), i) =>
                ~Busy(s) /\ r.tx = "join" /\ ~t.queue[i].own
  BY DEF Effect, JoinAfter
<1>7. Busy(s) => r.tx = s.tx /\ Busy(r)
  BY DEF Effect, Busy
<1>8. Busy(r) => t.tx = r.tx
  BY DEF Effect
<1>9. \A i : JoinAfter(t, Len(s.queue), i) =>
                ~Busy(s) /\ t.tx = "join" /\ ~t.queue[i].own
  BY <1>4, <1>5, <1>6, <1>7, <1>8 DEF Busy
<1>10. ASSUME NEW i, NEW j, JoinAfter(t, Len(s.queue), i), JoinAfter(t, Len(s.queue), j)
       PROVE  i = j
  <2>1. CASE JoinAfter(r, Len(s.queue), i) /\ JoinAfter(r, Len(s.queue), j)
    BY <2>1 DEF Effect
  <2>2. CASE JoinAfter(t, Len(r.queue), i) /\ JoinAfter(t, Len(r.queue), j)
    BY <2>2 DEF Effect
  <2> QED
    BY <1>4, <1>5, <1>6, <1>10, <2>1, <2>2 DEF Busy
<1>11. /\ MlmeSet(s) => MlmeSet(t)
       /\ Joining(s) => Joining(t)
       /\ t.joined => s.joined
       /\ NotInB(t)
       /\ Busy(s) => t.tx = s.tx
  BY <1>7, <1>8 DEF Effect
<1> QED
  BY <1>1, <1>2, <1>3, <1>9, <1>10, <1>11 DEF Effect

LEMMA HandledTrans ==
    ASSUME NEW s, NEW r, NEW t, Typed(s), Handled(s, r), Handled(r, t)
    PROVE  Handled(s, t)
BY EffectTrans DEF Handled, Kept
----------------------------------------------------------------------------
(* The requests.                                                           *)

\* r has the elements of s and no new join.
Longer(s, r) == /\ Len(s.queue) <= Len(r.queue)
                /\ \A i \in 1 .. Len(s.queue) : r.queue[i] = s.queue[i]
                /\ \A i \in 1 .. Len(r.queue) : i > Len(s.queue) => r.queue[i].req # "join"

\* A request that leads the switch on is the last of the queue.
NewLead(s, r) == /\ Len(r.queue) > Len(s.queue)
                 /\ Leads(r.queue[Len(r.queue)], r)

LEMMA EffectBy ==
    ASSUME NEW s, Typed(s), NEW r, Typed(r), NotInB(r), MlmeSet(s) => MlmeSet(r),
           Longer(s, r),
           Busy(s) => r.tx = s.tx, r.tx = "join" => s.tx = "join",
           r.joined = s.joined, s.tx = "join" /\ r.seeking => s.seeking,
           r.classB /\ ~r.refused => \/ /\ s.classB /\ ~s.refused
                                        /\ s.seeking \/ s.halted => r.seeking \/ r.halted
                                     \/ NewLead(s, r)
    PROVE  Effect(s, r)
<1>1. Len(s.queue) \in Nat /\ Len(r.queue) \in Nat /\ Len(s.queue) <= Len(r.queue)
  BY DEF Typed, Device, Longer
<1>2. ASSUME NEW k \in 0 .. Len(s.queue), Going(s, k) PROVE Going(r, k)
  <2> SUFFICES ASSUME r.classB /\ ~r.refused
               PROVE  \E i \in 1 .. Len(r.queue) : i > k /\ Leads(r.queue[i], r)
    BY DEF Going
  <2>1. CASE NewLead(s, r)
    BY <1>1, <2>1 DEF NewLead
  <2>2. CASE s.classB /\ ~s.refused /\ (s.seeking \/ s.halted => r.seeking \/ r.halted)
    <3>1. PICK i \in 1 .. Len(s.queue) : i > k /\ Leads(s.queue[i], s)
      BY <1>2, <2>2 DEF Going
    <3>2. i \in 1 .. Len(r.queue) /\ r.queue[i] = s.queue[i]
      BY <1>1 DEF Longer
    <3>3. Leads(r.queue[i], r)
      BY <2>2, <3>1, <3>2 DEF Leads
    <3> QED
      BY <3>1, <3>2, <3>3
  <2> QED
    BY <2>1, <2>2
<1>3. Joining(s) => Joining(r)
  BY DEF Joining
<1>4. \A i : ~JoinAfter(r, Len(s.queue), i)
  BY DEF JoinAfter, Longer
<1> QED
  BY <1>1, <1>2, <1>3, <1>4 DEF Effect, Longer

\* r differs from s at most in the queue, MlmeReq and the MAC commands to send.
OnlyQueue(s, r) ==
    /\ r.tx = s.tx /\ r.joined = s.joined /\ r.class = s.class /\ r.locked = s.locked
    /\ r.seeking = s.seeking /\ r.halted = s.halted /\ r.slot = s.slot /\ r.sent = s.sent
    /\ r.classB = s.classB /\ r.refused = s.refused /\ r.told = s.told
    /\ r.flush = s.flush /\ r.asked = s.asked
    /\ Kept(s, r)

\* LoRaMacMlmeRequest.
LEMMA RequestDoes ==
    ASSUME NEW s, Typed(s), NEW q \in Requests, NEW g \in BOOLEAN,
           NEW r, r = Request(q, g, s)
    PROVE  /\ Typed(r) /\ (MlmeSet(s) => MlmeSet(r))
           /\ OnlyQueue(s, r)
           /\ \A i \in 1 .. Len(s.queue) : r.queue[i] = s.queue[i]
           /\ Granted(r, s) => /\ Accepts(s) /\ Len(r.queue) = Len(s.queue) + 1
                               /\ r.queue[Len(r.queue)].req = q
                               /\ q = "join" => ~r.queue[Len(r.queue)].own
           /\ ~Granted(r, s) => r.queue = s.queue
<1> DEFINE e == [req |-> q, ok |-> FALSE, ready |-> FALSE, own |-> q = "acquisition"]
           l == Append(s.queue, e)
<1>1. s \in Device /\ s.queue \in Seq(Elements) /\ Len(s.queue) \in Nat /\ QueueLen \in Nat
      /\ Len(s.queue) <= QueueLen
  BY LmHandlerAssumption DEF Typed, Device
<1>2. e \in Elements
  BY DEF Elements
<1>3. e.req = q /\ (q = "join" => ~e.own)
  OBVIOUS
<1> HIDE DEF e
<1>4. /\ l \in Seq(Elements) /\ Len(l) = Len(s.queue) + 1 /\ l # <<>>
      /\ \A i \in 1 .. Len(s.queue) : l[i] = s.queue[i]
      /\ l[Len(l)] = e
  BY <1>1, <1>2
<1> HIDE DEF l
<1>5. CASE ~Accepts(s)
  <2>1. r = s
    BY <1>5 DEF Request
  <2>2. ~Granted(r, s)
    BY <1>1, <2>1 DEF Granted
  <2> QED
    BY <1>1, <1>5, <2>1, <2>2 DEF OnlyQueue, Kept
<1>6. CASE Accepts(s) /\ ~g
  <2>1. r = [s EXCEPT !.mlme = s.queue # <<>>]
    BY <1>6 DEF Request
  <2>2. PICK b \in BOOLEAN : b <=> s.queue # <<>>
    OBVIOUS
  <2>3. r = [s EXCEPT !.mlme = b]
    BY <2>1, <2>2
  <2>4. r \in Device /\ r.queue = s.queue /\ r.mlme = b
    BY <1>1, <2>3 DEF Device
  <2>5. OnlyQueue(s, r)
    BY <1>1, <2>3 DEF OnlyQueue, Kept, Device
  <2>6. ~Granted(r, s)
    BY <1>1, <2>4 DEF Granted
  <2> QED
    BY <1>1, <1>6, <2>2, <2>4, <2>5, <2>6 DEF Typed, MlmeSet
<1>7. CASE Accepts(s) /\ g
  <2>1. r = [s EXCEPT !.mlme = TRUE, !.queue = l]
    BY <1>7 DEF Request, l, e
  <2>2. r \in Device /\ r.queue = l /\ r.mlme = TRUE
    <3>1. r.queue = l /\ r.mlme = TRUE
      BY <1>1, <2>1 DEF Device
    <3>2. r \in Device
      <4>1. l \in Seq(Elements)
        BY <1>4
      <4>2. [s EXCEPT !.mlme = TRUE, !.queue = l] \in Device
        BY <1>1, <4>1, ZenonT(60) DEF Device
      <4> QED
        BY <2>1, <4>2
    <3> QED
      BY <3>1, <3>2
  <2>3. OnlyQueue(s, r)
    BY <1>1, <2>1 DEF OnlyQueue, Kept, Device
  <2>4. Len(l) <= QueueLen
    BY <1>1, <1>4, <1>7 DEF Accepts
  <2>5. Granted(r, s)
    BY <1>1, <1>4, <2>2 DEF Granted
  <2> QED
    BY <1>1, <1>3, <1>4, <1>7, <2>2, <2>3, <2>4, <2>5 DEF Typed, MlmeSet
<1> QED
  BY <1>5, <1>6, <1>7

LEMMA QueueEffect ==
    ASSUME NEW s, Typed(s), NotInB(s), NEW r, Typed(r), MlmeSet(s) => MlmeSet(r),
           Longer(s, r), OnlyQueue(s, r)
    PROVE  Handled(s, r)
<1>1. NotInB(r) /\ (Busy(s) => r.tx = s.tx)
  BY DEF OnlyQueue, NotInB
<1>2. Effect(s, r)
  BY <1>1, EffectBy DEF OnlyQueue
<1> QED
  BY <1>2 DEF Handled, OnlyQueue

\* LmHandlerDeviceTimeReq.
LEMMA TimeDoes ==
    ASSUME NEW s, Typed(s), NEW r, r = DeviceTimeReq(s)
    PROVE  /\ Typed(r) /\ (MlmeSet(s) => MlmeSet(r))
           /\ OnlyQueue(s, r) /\ Longer(s, r)
           /\ Granted(r, s) => NewLead(s, r)
           /\ NotInB(s) => Handled(s, r)
<1> DEFINE q == Request("time", TRUE, s)
           t == [q EXCEPT !.cmds = @ \cup {"time"}]
<1>1. /\ Typed(q) /\ (MlmeSet(s) => MlmeSet(q)) /\ OnlyQueue(s, q)
      /\ \A i \in 1 .. Len(s.queue) : q.queue[i] = s.queue[i]
      /\ Granted(q, s) => /\ Len(q.queue) = Len(s.queue) + 1
                          /\ q.queue[Len(q.queue)].req = "time"
      /\ ~Granted(q, s) => q.queue = s.queue
  <2>1. PICK g \in BOOLEAN : g
    OBVIOUS
  <2>2. q = Request("time", g, s) /\ "time" \in Requests
    BY <2>1 DEF Request, Requests
  <2> HIDE DEF q
  <2> QED
    BY <2>2, RequestDoes
<1>2. r = IF Granted(q, s) THEN t ELSE q
  BY DEF DeviceTimeReq
<1> HIDE DEF q
<1>3. Len(s.queue) \in Nat /\ q.queue \in Seq(Elements) /\ Len(q.queue) \in Nat
  BY <1>1 DEF Typed, Device
<1>4. t \in Device /\ t.queue = q.queue /\ t.mlme = q.mlme /\ OnlyQueue(q, t)
  <2>1. q \in Device
    BY <1>1 DEF Typed
  <2>2. PICK c : c = q.cmds \cup {"time"}
    OBVIOUS
  <2>3. t = [q EXCEPT !.cmds = c] /\ c \in SUBSET {"time", "slot"}
    BY <2>1, <2>2 DEF Device
  <2>4. t \in Device
    BY <2>1, <2>3 DEF Device
  <2> QED
    BY <2>1, <2>3, <2>4 DEF Device, OnlyQueue, Kept
<1> HIDE DEF t
<1>5. Typed(r) /\ r.queue = q.queue /\ r.mlme = q.mlme /\ OnlyQueue(s, r)
  BY <1>1, <1>2, <1>4 DEF Typed, OnlyQueue, Kept
<1>6. Granted(r, s) <=> Granted(q, s)
  BY <1>5 DEF Granted
<1>7. Longer(s, r)
  <2>1. ASSUME NEW i \in 1 .. Len(q.queue), i > Len(s.queue) PROVE q.queue[i].req # "join"
    <3>1. Granted(q, s) /\ i = Len(q.queue)
      BY <1>1, <1>3, <2>1
    <3> QED
      BY <1>1, <3>1
  <2> QED
    BY <1>1, <1>3, <1>5, <2>1 DEF Longer
<1>8. Granted(r, s) => NewLead(s, r)
  <2> SUFFICES ASSUME Granted(r, s) PROVE NewLead(s, r)
    OBVIOUS
  <2>1. r.queue[Len(r.queue)].req = "time" /\ Len(r.queue) > Len(s.queue)
    BY <1>1, <1>3, <1>5, <1>6
  <2> QED
    BY <2>1 DEF NewLead, Leads
<1>9. MlmeSet(s) => MlmeSet(r)
  BY <1>1, <1>5 DEF MlmeSet
<1> QED
  BY <1>5, <1>7, <1>8, <1>9, QueueEffect
\* A beacon is searched for, or the switch to class B remembers that it is not.
LEMMA BeaconDoes ==
    ASSUME NEW s, Typed(s), NotInB(s), NEW r, r = BeaconReq(s)
    PROVE  /\ Handled(s, r)
           /\ s.queue # <<>> /\ s.queue[1].req # "acquisition" => Going(r, 1)
<1> DEFINE q == Request("acquisition", ~s.seeking, s)
           t == [q EXCEPT !.seeking = TRUE, !.refused = FALSE, !.halted = FALSE]
<1>0. PICK b \in BOOLEAN : b <=> (q.refused \/ ~s.seeking \/ ~Queued("acquisition", s))
  OBVIOUS
<1> DEFINE u == [q EXCEPT !.refused = b]
<1>1. /\ Typed(q) /\ (MlmeSet(s) => MlmeSet(q)) /\ OnlyQueue(s, q)
      /\ \A i \in 1 .. Len(s.queue) : q.queue[i] = s.queue[i]
      /\ Granted(q, s) => /\ Accepts(s) /\ Len(q.queue) = Len(s.queue) + 1
                          /\ q.queue[Len(q.queue)].req = "acquisition"
      /\ ~Granted(q, s) => q.queue = s.queue
  <2>1. PICK g \in BOOLEAN : g <=> ~s.seeking
    OBVIOUS
  <2>2. q = Request("acquisition", g, s) /\ "acquisition" \in Requests
    BY <2>1 DEF Request, Requests
  <2> HIDE DEF q
  <2> QED
    BY <2>2, RequestDoes
<1>2. r = IF Granted(q, s) THEN t ELSE u
  <2>1. CASE Granted(q, s)
    BY <2>1 DEF BeaconReq
  <2>2. CASE ~Granted(q, s)
    <3>1. r = [q EXCEPT !.refused = q.refused \/ ~s.seeking \/ ~Queued("acquisition", s)]
      BY <2>2, ZenonT(60) DEF BeaconReq
    <3> QED
      BY <1>0, <2>2, <3>1
  <2> QED
    BY <2>1, <2>2
<1> HIDE DEF q
<1>3. /\ Len(s.queue) \in Nat /\ q.queue \in Seq(Elements) /\ Len(q.queue) \in Nat
      /\ q \in Device
  BY <1>1 DEF Typed, Device
<1>4. r \in Device
  <2>1. t \in Device
    BY <1>3, ZenonT(60) DEF Device
  <2>2. u \in Device
    BY <1>0, <1>3, ZenonT(60) DEF Device
  <2> QED
    BY <1>2, <2>1, <2>2
<1>5. /\ r.queue = q.queue /\ r.mlme = q.mlme /\ r.tx = s.tx /\ r.joined = s.joined
      /\ r.class = s.class /\ r.classB = s.classB /\ r.asked = s.asked
      /\ Kept(s, r)
  BY <1>1, <1>2, <1>3 DEF Device, OnlyQueue, Kept
<1>6. Granted(q, s) => r.seeking /\ Accepts(s)
  BY <1>1, <1>2, <1>3 DEF Device
<1>7. ~Granted(q, s) =>
         /\ r.seeking = s.seeking /\ r.halted = s.halted
         /\ r.refused <=> (s.refused \/ ~s.seeking \/ ~Queued("acquisition", s))
  BY <1>0, <1>1, <1>2, <1>3 DEF Device, OnlyQueue
<1>8. Typed(r) /\ (MlmeSet(s) => MlmeSet(r)) /\ NotInB(r)
  BY <1>1, <1>4, <1>5 DEF Typed, MlmeSet, NotInB
<1>9. Longer(s, r)
  <2>1. ASSUME NEW i \in 1 .. Len(q.queue), i > Len(s.queue) PROVE q.queue[i].req # "join"
    <3>1. Granted(q, s) /\ i = Len(q.queue)
      BY <1>1, <1>3, <2>1
    <3> QED
      BY <1>1, <3>1
  <2> QED
    BY <1>1, <1>3, <1>5, <2>1 DEF Longer
<1>10. Granted(q, s) => NewLead(s, r)
  <2> SUFFICES ASSUME Granted(q, s) PROVE NewLead(s, r)
    OBVIOUS
  <2>1. r.queue[Len(r.queue)].req = "acquisition" /\ Len(r.queue) > Len(s.queue)
    BY <1>1, <1>3, <1>5
  <2> QED
    BY <1>6, <2>1 DEF NewLead, Leads
<1>11. Effect(s, r)
  <2>1. s.tx = "join" /\ r.seeking => s.seeking
    BY <1>6, <1>7 DEF Accepts, Busy
  <2>2. r.classB /\ ~r.refused => \/ /\ s.classB /\ ~s.refused
                                     /\ s.seeking \/ s.halted => r.seeking \/ r.halted
                                  \/ NewLead(s, r)
    BY <1>5, <1>7, <1>10
  <2> QED
    BY <1>5, <1>8, <1>9, <2>1, <2>2, EffectBy
<1>12. ASSUME s.queue # <<>>, s.queue[1].req # "acquisition" PROVE Going(r, 1)
  <2>1. Len(s.queue) > 0 /\ Len(s.queue) <= Len(r.queue) /\ Len(r.queue) \in Nat
    BY <1>3, <1>4, <1>9, <1>12 DEF Longer, Typed, Device
  <2>2. CASE Granted(q, s)
    BY <1>3, <1>10, <2>1, <2>2 DEF Going, NewLead
  <2>3. CASE ~Granted(q, s) /\ ~r.refused
    <3>1. s.seeking /\ r.seeking /\ Queued("acquisition", s)
      BY <1>7, <2>3
    <3>2. PICK i \in 1 .. Len(s.queue) : s.queue[i].req = "acquisition"
      BY <3>1 DEF Queued, Typed, Device
    <3>3. i \in 1 .. Len(r.queue) /\ i > 1 /\ r.queue[i] = s.queue[i]
      BY <1>9, <1>12, <2>1, <3>2 DEF Longer
    <3>4. Leads(r.queue[i], r)
      BY <3>1, <3>2, <3>3 DEF Leads
    <3> QED
      BY <3>3, <3>4 DEF Going
  <2> QED
    BY <2>2, <2>3 DEF Going
<1> QED
  BY <1>5, <1>11, <1>12 DEF Handled

\* LmHandlerJoin: turned down, or the device has no network any more.
LEMMA JoinDoes ==
    ASSUME NEW s, Typed(s), NotInB(s), NEW r \in Join(s)
    PROVE  /\ Effect(s, r) /\ Kept(s, r) /\ r.asked = s.asked
           /\ r = s \/ (~Busy(s) /\ ~r.joined)
<1>1. CASE ~Accepts(s)
  <2>1. r = s
    <3>1. Join(s) = {s}
      BY <1>1 DEF Join
    <3> QED
      BY <3>1
  <2> QED
    BY <2>1, EffectSelf DEF Kept
<1>2. CASE Accepts(s)
  <2>1. s \in Device /\ Len(s.queue) \in Nat /\ s.tx = "none"
    BY <1>2 DEF Typed, Device, Accepts, Busy
  <2>2. PICK c \in BOOLEAN : c <=> (s.halted \/ s.seeking)
    OBVIOUS
  <2> DEFINE z == ClassBReset(s)
             t == [z EXCEPT !.joined = FALSE, !.halted = c]
  <2>3. z \in Device /\ t \in Device
    <3>1. [s EXCEPT !.locked = FALSE, !.seeking = FALSE, !.slot = FALSE] \in Device
      BY <2>1, ZenonT(60) DEF Device
    <3>2. z \in Device
      BY <3>1 DEF ClassBReset
    <3> HIDE DEF z
    <3>3. [z EXCEPT !.joined = FALSE, !.halted = c] \in Device
      BY <2>2, <3>2, ZenonT(60) DEF Device
    <3> QED
      BY <3>2, <3>3
  <2>4. /\ t.queue = s.queue /\ t.mlme = s.mlme /\ t.tx = s.tx /\ t.class = s.class
        /\ t.classB = s.classB /\ t.asked = s.asked /\ t.joined = FALSE
        /\ t.seeking = FALSE /\ t.halted = c /\ t.refused = s.refused /\ Kept(s, t)
    BY <2>1 DEF ClassBReset, Device, Kept
  <2>5. Accepts(t) /\ Typed(t)
    BY <1>2, <2>3, <2>4 DEF Accepts, Busy, Typed
  <2>6. \/ r = Request("join", FALSE, t)
        \/ r = [Request("join", TRUE, t) EXCEPT !.tx = "join"]
    <3>1. t = [ClassBReset(s) EXCEPT !.joined = FALSE, !.halted = @ \/ s.seeking]
      BY <2>1, <2>2, ZenonT(60) DEF ClassBReset, Device
    <3> HIDE DEF t
    <3> QED
      BY <1>2, <3>1 DEF Join
  <2> HIDE DEF t
  <2>7. PICK g \in BOOLEAN : r = IF g THEN [Request("join", g, t) EXCEPT !.tx = "join"]
                                      ELSE Request("join", g, t)
    BY <2>6 DEF Request
  <2> DEFINE q == Request("join", g, t)
  <2>8. /\ Typed(q) /\ (MlmeSet(t) => MlmeSet(q)) /\ OnlyQueue(t, q)
        /\ \A i \in 1 .. Len(t.queue) : q.queue[i] = t.queue[i]
        /\ Granted(q, t) => /\ Len(q.queue) = Len(t.queue) + 1
                            /\ q.queue[Len(q.queue)].req = "join"
                            /\ ~q.queue[Len(q.queue)].own
        /\ ~Granted(q, t) => q.queue = t.queue
        /\ ~g => ~Granted(q, t)
    <3>1. "join" \in Requests
      BY DEF Requests
    <3>2. ~g => q.queue = t.queue
      BY <2>3, <2>5 DEF Request, Device
    <3> HIDE DEF q
    <3>3. q = Request("join", g, t)
      BY DEF q
    <3>4. ~g => ~Granted(q, t)
      BY <2>1, <2>4, <3>2 DEF Granted
    <3>5. /\ Typed(q) /\ (MlmeSet(t) => MlmeSet(q)) /\ OnlyQueue(t, q)
          /\ \A i \in 1 .. Len(t.queue) : q.queue[i] = t.queue[i]
          /\ Granted(q, t) => /\ Len(q.queue) = Len(t.queue) + 1
                              /\ q.queue[Len(q.queue)].req = "join"
                              /\ ~q.queue[Len(q.queue)].own
          /\ ~Granted(q, t) => q.queue = t.queue
      BY <2>5, <3>1, <3>3, RequestDoes
    <3> QED
      BY <3>4, <3>5
  <2>9. r = IF g THEN [q EXCEPT !.tx = "join"] ELSE q
    BY <2>7
  <2> HIDE DEF q
  <2>10. q \in Device /\ q.queue \in Seq(Elements) /\ Len(q.queue) \in Nat
    BY <2>8 DEF Typed, Device
  <2>11. r \in Device
    <3>1. [q EXCEPT !.tx = "join"] \in Device
      BY <2>10 DEF Device
    <3> QED
      BY <2>9, <2>10, <3>1
  <2>12. /\ r.queue = q.queue /\ r.mlme = q.mlme /\ r.class = s.class
         /\ r.classB = s.classB /\ r.asked = s.asked /\ r.joined = FALSE
         /\ r.seeking = FALSE /\ r.halted = c /\ r.refused = s.refused /\ Kept(s, r)
         /\ r.tx = (IF g THEN "join" ELSE "none")
    BY <2>1, <2>4, <2>8, <2>9, <2>10 DEF OnlyQueue, Kept, Device
  <2>13. Typed(r) /\ (MlmeSet(s) => MlmeSet(r)) /\ NotInB(r) /\ Joining(r)
    BY <2>4, <2>8, <2>11, <2>12 DEF Typed, MlmeSet, NotInB, Joining
  <2>14. /\ Len(s.queue) <= Len(r.queue)
         /\ \A i \in 1 .. Len(s.queue) : r.queue[i] = s.queue[i]
    BY <2>1, <2>4, <2>8, <2>10, <2>12
  <2>15. ASSUME NEW k \in 0 .. Len(s.queue), Going(s, k) PROVE Going(r, k)
    <3> SUFFICES ASSUME r.classB /\ ~r.refused
                 PROVE  \E i \in 1 .. Len(r.queue) : i > k /\ Leads(r.queue[i], r)
      BY DEF Going
    <3>1. PICK i \in 1 .. Len(s.queue) : i > k /\ Leads(s.queue[i], s)
      BY <2>12, <2>15 DEF Going
    <3>2. i \in 1 .. Len(r.queue) /\ r.queue[i] = s.queue[i]
      BY <2>10, <2>12, <2>14
    <3>3. Leads(r.queue[i], r)
      BY <2>2, <2>12, <3>1, <3>2 DEF Leads
    <3> QED
      BY <3>1, <3>2, <3>3
  <2>16. \A i : JoinAfter(r, Len(s.queue), i) =>
                   r.tx = "join" /\ i = Len(r.queue) /\ ~r.queue[i].own
    <3> TAKE i
    <3> HAVE JoinAfter(r, Len(s.queue), i)
    <3>1. i \in 1 .. Len(q.queue) /\ i > Len(s.queue)
      BY <2>12 DEF JoinAfter
    <3>2. Granted(q, t)
      BY <2>1, <2>4, <2>8, <3>1
    <3> QED
      BY <2>1, <2>4, <2>8, <2>10, <2>12, <3>1, <3>2
  <2>17. Effect(s, r)
    BY <2>1, <2>12, <2>13, <2>14, <2>15, <2>16 DEF Effect, Busy
  <2> QED
    BY <2>1, <2>12, <2>17 DEF Busy
<1> QED
  BY <1>1, <1>2
Asked == [token : 0 .. Tokens - 1, error : Errors]

\* The requests the server still answers once one with the next token is sent.
Recent(s) == {a \in s.asked : a.token # (s.token + 1) % Tokens}

\* LmHandlerSend, with or without a time request for the server.
LEMMA SendDoes ==
    ASSUME NEW s, Typed(s), NotInB(s), NEW asked \in SUBSET Asked,
           NEW r \in Send(asked, s)
    PROVE  /\ Effect(s, r) /\ Kept(s, r) /\ (s.joined => r.joined)
           /\ \/ r.asked = s.asked
              \/ ~Busy(s) /\ r.tx = "frame" /\ r.asked = asked \cup Recent(s)
           /\ r.tx = s.tx \/ (~Busy(s) /\ s.joined /\ r.tx = "frame") \/ (~Busy(s) /\ ~r.joined)
<1>1. s \in Device
  BY DEF Typed
<1>2. CASE ~s.joined
  <2>1. r \in Join(s)
    BY <1>2 DEF Send
  <2> QED
    BY <1>2, <2>1, JoinDoes
<1>3. CASE s.joined /\ r = s
  BY <1>3, EffectSelf DEF Kept
<1>4. CASE s.joined /\ r # s
  <2> DEFINE x == asked \cup Recent(s)
             t == [s EXCEPT !.tx = "frame", !.sent = s.cmds, !.cmds = {},
                            !.flush = FALSE, !.asked = x]
  <2>1. ~Busy(s) /\ r = t
    BY <1>1, <1>4 DEF Send, Recent, Device
  <2>2. x \in SUBSET Asked /\ s.cmds \in SUBSET {"time", "slot"}
    BY <1>1 DEF Recent, Device, Asked
  <2> HIDE DEF x
  <2>3. t \in Device
    BY <1>1, <2>2, ZenonT(60) DEF Device, Asked
  <2>4. /\ t.queue = s.queue /\ t.mlme = s.mlme /\ t.tx = "frame" /\ t.joined = s.joined
        /\ t.class = s.class /\ t.seeking = s.seeking /\ t.halted = s.halted /\ t.classB = s.classB
        /\ t.refused = s.refused /\ t.asked = x /\ Kept(s, t)
    BY <1>1 DEF Device, Kept
  <2> HIDE DEF t
  <2>5. Typed(t) /\ (MlmeSet(s) => MlmeSet(t)) /\ NotInB(t) /\ Longer(s, t)
    BY <1>1, <2>3, <2>4 DEF Typed, MlmeSet, NotInB, Longer, Device
  <2>6. Effect(s, t)
    BY <2>1, <2>4, <2>5, EffectBy
  <2> QED
    BY <1>4, <2>1, <2>4, <2>6 DEF x
<1> QED
  BY <1>2, <1>3, <1>4

\* A frame that asks the application server for nothing.
LEMMA SendNothing ==
    ASSUME NEW s, Typed(s), NotInB(s), NEW r \in Send({}, s)
    PROVE  Handled(s, r)
<1>1. {} \in SUBSET Asked
  OBVIOUS
<1> QED
  BY <1>1, SendDoes DEF Handled, Recent

\* A ping slot is asked for in a frame, or the switch to class B remembers that
\* it is not.
LEMMA PingSlotDoes ==
    ASSUME NEW s, Typed(s), NotInB(s), NEW r \in PingSlotReq(s)
    PROVE  Handled(s, r) /\ Going(r, Len(s.queue))
<1> DEFINE q == Request("slot", s.class = "A", s)
           c == q.cmds \cup {"slot"}
           t == [q EXCEPT !.cmds = @ \cup {"slot"}, !.refused = FALSE]
           u == [q EXCEPT !.refused = TRUE]
<1>1. /\ Typed(q) /\ (MlmeSet(s) => MlmeSet(q)) /\ OnlyQueue(s, q)
      /\ \A i \in 1 .. Len(s.queue) : q.queue[i] = s.queue[i]
      /\ Granted(q, s) => /\ Len(q.queue) = Len(s.queue) + 1
                          /\ q.queue[Len(q.queue)].req = "slot"
      /\ ~Granted(q, s) => q.queue = s.queue
  <2>1. PICK g \in BOOLEAN : g <=> s.class = "A"
    OBVIOUS
  <2>2. q = Request("slot", g, s) /\ "slot" \in Requests
    BY <2>1 DEF Request, Requests
  <2> HIDE DEF q
  <2> QED
    BY <2>2, RequestDoes
<1>2. IF Granted(q, s) THEN r \in Send({}, t) ELSE r = u
  <2>1. PingSlotReq(s) = IF Granted(q, s) THEN Send({}, t) ELSE {u}
    BY DEF PingSlotReq
  <2> QED
    BY <2>1
<1> HIDE DEF q
<1>3. /\ Len(s.queue) \in Nat /\ q.queue \in Seq(Elements) /\ Len(q.queue) \in Nat
      /\ q \in Device
  BY <1>1 DEF Typed, Device
<1>4. Longer(s, q)
  <2>1. ASSUME NEW i \in 1 .. Len(q.queue), i > Len(s.queue) PROVE q.queue[i].req # "join"
    <3>1. Granted(q, s) /\ i = Len(q.queue)
      BY <1>1, <1>3, <2>1
    <3> QED
      BY <1>1, <3>1
  <2> QED
    BY <1>1, <1>3, <2>1 DEF Longer
<1>5. CASE Granted(q, s)
  <2>1. t = [q EXCEPT !.cmds = c, !.refused = FALSE] /\ c \in SUBSET {"time", "slot"}
    BY <1>3 DEF Device
  <2>2. /\ t \in Device /\ t.queue = q.queue /\ t.mlme = q.mlme /\ t.tx = s.tx
        /\ t.joined = s.joined /\ t.class = s.class /\ t.seeking = s.seeking
        /\ t.classB = s.classB /\ t.asked = s.asked /\ Kept(s, t)
    <3> HIDE DEF c
    <3>1. t \in Device
      BY <1>3, <2>1, ZenonT(60) DEF Device
    <3>2. /\ t.queue = q.queue /\ t.mlme = q.mlme /\ t.tx = q.tx
          /\ t.joined = q.joined /\ t.class = q.class /\ t.seeking = q.seeking
          /\ t.classB = q.classB /\ t.asked = q.asked /\ Kept(q, t)
      BY <1>3, <2>1 DEF Device, Kept
    <3> QED
      BY <1>1, <3>1, <3>2 DEF OnlyQueue, Kept
  <2> HIDE DEF t
  <2>3. Typed(t) /\ (MlmeSet(s) => MlmeSet(t)) /\ Longer(s, t) /\ NotInB(t)
    BY <1>1, <1>4, <2>2 DEF Typed, MlmeSet, Longer, NotInB
  <2>4. Handled(s, t) /\ NotInB(t)
    <3>1. NewLead(s, t)
      <4>1. t.queue[Len(t.queue)].req = "slot" /\ Len(t.queue) > Len(s.queue)
        BY <1>1, <1>3, <1>5, <2>2
      <4> QED
        BY <4>1 DEF NewLead, Leads
    <3>2. Effect(s, t)
      BY <2>2, <2>3, <3>1, EffectBy
    <3> QED
      BY <2>2, <2>3, <3>2 DEF Handled
  <2>5. Going(t, Len(s.queue))
    <3>1. t.queue[Len(t.queue)].req = "slot" /\ Len(t.queue) > Len(s.queue)
      BY <1>1, <1>3, <1>5, <2>2
    <3> QED
      BY <1>3, <2>2, <3>1 DEF Going, Leads
  <2>6. Handled(t, r)
    BY <1>2, <1>5, <2>3, <2>4, SendNothing
  <2>7. Len(s.queue) \in 0 .. Len(t.queue)
    BY <1>3, <2>2, <2>3 DEF Longer
  <2>8. Going(r, Len(s.queue))
    BY <2>5, <2>6, <2>7 DEF Handled, Effect
  <2> QED
    BY <2>4, <2>6, <2>8, HandledTrans
<1>6. CASE ~Granted(q, s)
  <2>1. r = u
    BY <1>2, <1>6
  <2>2. u \in Device
    BY <1>3, ZenonT(60) DEF Device
  <2>3. /\ u.queue = s.queue /\ u.mlme = q.mlme /\ u.tx = s.tx /\ u.joined = s.joined
        /\ u.class = s.class /\ u.seeking = s.seeking /\ u.halted = s.halted /\ u.classB = s.classB
        /\ u.refused = TRUE /\ u.asked = s.asked /\ Kept(s, u)
    BY <1>1, <1>3, <1>6 DEF Device, OnlyQueue, Kept
  <2> HIDE DEF u
  <2>4. Typed(u) /\ (MlmeSet(s) => MlmeSet(u)) /\ NotInB(u) /\ Longer(s, u)
    BY <1>1, <1>3, <1>4, <1>6, <2>2, <2>3 DEF Typed, MlmeSet, NotInB, Longer
  <2>5. Effect(s, u)
    BY <2>3, <2>4, EffectBy
  <2> QED
    BY <2>1, <2>3, <2>5 DEF Handled, Going
<1> QED
  BY <1>5, <1>6
----------------------------------------------------------------------------
(* The device class.                                                       *)

\* r has the queue of s and what else a step of the switch keeps.
Same(s, r) == /\ r.queue = s.queue /\ r.mlme = s.mlme /\ r.tx = s.tx
              /\ r.joined = s.joined /\ r.asked = s.asked /\ Kept(s, r)

LEMMA SameEffect ==
    ASSUME NEW s, Typed(s), NEW r \in Device, NotInB(r), Same(s, r),
           r.seeking => s.seeking,
           r.classB => s.classB, r.classB => (r.refused = s.refused /\ r.seeking = s.seeking /\ r.halted = s.halted)
    PROVE  Handled(s, r)
<1>1. Typed(r) /\ (MlmeSet(s) => MlmeSet(r)) /\ Longer(s, r)
  BY DEF Typed, MlmeSet, Longer, Same, Device
<1>2. Effect(s, r)
  BY <1>1, EffectBy DEF Same
<1> QED
  BY <1>2 DEF Handled, Same

\* MIB_DEVICE_CLASS leaves class B only where no switch to it is pending.
LEMMA SwitchDoes ==
    ASSUME NEW s, Typed(s), NotInB(s), NEW c \in {"A", "C"}, NEW r, r = SwitchClass(c, s)
    PROVE  Handled(s, r)
<1>1. s \in Device
  BY DEF Typed
<1> DEFINE z == [s EXCEPT !.locked = FALSE, !.seeking = FALSE, !.slot = FALSE]
           u == [z EXCEPT !.class = "A"]
           v == [s EXCEPT !.class = "A"]
           w == [s EXCEPT !.class = "C"]
<1>2. z \in Device
  BY <1>1, ZenonT(60) DEF Device
<1>3. u \in Device /\ v \in Device /\ w \in Device
  <2> HIDE DEF z
  <2> QED
    BY <1>1, <1>2 DEF Device, Classes
<1>4. Same(s, u) /\ u.class = "A" /\ u.classB = s.classB /\ ~u.seeking
  BY <1>1 DEF Same, Kept, Device
<1>5. /\ Same(s, v) /\ v.class = "A" /\ v.classB = s.classB /\ v.seeking = s.seeking /\ v.halted = s.halted
      /\ v.refused = s.refused
  BY <1>1 DEF Same, Kept, Device
<1>6. /\ Same(s, w) /\ w.class = "C" /\ w.classB = s.classB /\ w.seeking = s.seeking /\ w.halted = s.halted
      /\ w.refused = s.refused
  BY <1>1 DEF Same, Kept, Device
<1>7. \/ r = s
      \/ r = u /\ s.class = "B"
      \/ r = v
      \/ r = w
  <2> HIDE DEF u, v, w
  <2>1. CASE Busy(s)
    BY <2>1 DEF SwitchClass
  <2>2. CASE ~Busy(s) /\ c = "A" /\ s.class = "B"
    <3>1. SwitchClass(c, s) = [ClassBReset(s) EXCEPT !.class = "A"]
      BY <2>2 DEF SwitchClass
    <3> QED
      BY <2>2, <3>1 DEF ClassBReset, u
  <2>3. CASE ~Busy(s) /\ c = "A" /\ s.class = "C"
    BY <2>3 DEF SwitchClass, v
  <2>4. CASE ~Busy(s) /\ c = "A" /\ s.class = "A"
    BY <2>4 DEF SwitchClass
  <2>5. CASE ~Busy(s) /\ c = "C" /\ s.class = "A"
    BY <2>5 DEF SwitchClass, w
  <2>6. CASE ~Busy(s) /\ c = "C" /\ s.class # "A"
    BY <2>6 DEF SwitchClass
  <2> QED
    BY <1>1, <2>1, <2>2, <2>3, <2>4, <2>5, <2>6 DEF Device, Classes
<1> HIDE DEF u, v, w
<1>8. CASE r = s
  BY <1>8, EffectSelf
<1>9. CASE r = u /\ s.class = "B"
  <2>1. ~u.classB
    BY <1>4, <1>9 DEF NotInB
  <2> QED
    BY <1>3, <1>4, <1>9, <2>1, SameEffect DEF NotInB
<1>10. CASE r = v
  <2>1. NotInB(v)
    BY <1>5 DEF NotInB
  <2> QED
    BY <1>3, <1>5, <1>10, <2>1, SameEffect
<1>11. CASE r = w
  <2>1. NotInB(w)
    BY <1>6 DEF NotInB
  <2> QED
    BY <1>3, <1>6, <1>11, <2>1, SameEffect
<1> QED
  BY <1>7, <1>8, <1>9, <1>10, <1>11

\* OnClassChange.
LEMMA TellDoes ==
    ASSUME NEW s, Typed(s), NotInB(s), NEW c \in Classes, NEW r, r = Tell(c, s)
    PROVE  Handled(s, r)
<1>1. s \in Device /\ r = [s EXCEPT !.told = c]
  BY DEF Typed, Tell
<1>2. r \in Device
  BY <1>1 DEF Device
<1>3. /\ Same(s, r) /\ r.class = s.class /\ r.classB = s.classB /\ r.seeking = s.seeking /\ r.halted = s.halted
      /\ r.refused = s.refused
  BY <1>1 DEF Same, Kept, Device
<1> QED
  BY <1>2, <1>3, SameEffect DEF NotInB

\* The switch to class B ends in class B or in class A, and is pending no more.
LEMMA SwitchedDoes ==
    ASSUME NEW s, Typed(s), NEW r, r = [Tell("B", SwitchClass("B", s)) EXCEPT !.classB = FALSE]
    PROVE  Handled(s, r)
<1>1. s \in Device
  BY DEF Typed
<1>2. PICK c \in Classes : SwitchClass("B", s) = [s EXCEPT !.class = c]
  <2>1. s.class \in Classes /\ s = [s EXCEPT !.class = s.class]
    BY <1>1 DEF Device
  <2>2. \/ SwitchClass("B", s) = s
        \/ SwitchClass("B", s) = [s EXCEPT !.class = "B"]
    <3>1. CASE Busy(s)
      BY <3>1 DEF SwitchClass
    <3>2. CASE ~Busy(s) /\ s.class = "A" /\ s.locked /\ s.slot
      BY <3>2 DEF SwitchClass
    <3>3. CASE ~Busy(s) /\ ~(s.class = "A" /\ s.locked /\ s.slot)
      BY <3>3 DEF SwitchClass
    <3> QED
      BY <3>1, <3>2, <3>3
  <2> QED
    BY <2>1, <2>2 DEF Classes
<1> DEFINE t == [s EXCEPT !.class = c]
           u == [t EXCEPT !.told = "B"]
           v == [u EXCEPT !.classB = FALSE]
<1>3. t \in Device /\ u \in Device
  BY <1>1 DEF Device, Classes
<1>4. v \in Device
  <2> HIDE DEF u
  <2> QED
    BY <1>3, ZenonT(60) DEF Device
<1>5. Same(s, v) /\ ~v.classB /\ v.seeking = s.seeking /\ v.halted = s.halted
  BY <1>1 DEF Same, Kept, Device
<1>6. r = v
  <2>1. Tell("B", SwitchClass("B", s)) = u
    BY <1>2 DEF Tell
  <2> QED
    BY <2>1
<1> HIDE DEF v
<1> QED
  BY <1>4, <1>5, <1>6, SameEffect DEF NotInB

\* LmHandlerRequestClass.
LEMMA RequestClassDoes ==
    ASSUME NEW s, Typed(s), NotInB(s), NEW c \in Classes, NEW r, r = RequestClass(c, s)
    PROVE  Handled(s, r)
<1>1. s \in Device
  BY DEF Typed
<1>2. CASE s.class = c
  BY <1>2, EffectSelf DEF RequestClass
<1>3. CASE s.class # c /\ c = "B"
  <2>1. PICK t : t = DeviceTimeReq(s)
    OBVIOUS
  <2>2. /\ Typed(t) /\ (MlmeSet(s) => MlmeSet(t)) /\ OnlyQueue(s, t) /\ Longer(s, t)
        /\ Granted(t, s) => NewLead(s, t)
    BY <2>1, TimeDoes
  <2>3. PICK b \in BOOLEAN : b <=> ~Granted(t, s) /\ (s.classB => t.refused)
    OBVIOUS
  <2> DEFINE u == [t EXCEPT !.classB = TRUE, !.refused = b]
  <2>4. r = u
    <3>1. r = [t EXCEPT !.classB = TRUE,
                        !.refused = ~Granted(t, s) /\ (s.classB => t.refused)]
      BY <1>3, <2>1, ZenonT(60) DEF RequestClass
    <3> QED
      BY <2>3, <3>1
  <2>5. u \in Device
    <3>1. t \in Device
      BY <2>2 DEF Typed
    <3> QED
      BY <2>3, <3>1, ZenonT(60) DEF Device
  <2>6. /\ u.queue = t.queue /\ u.mlme = t.mlme /\ u.tx = s.tx /\ u.joined = s.joined
        /\ u.class = s.class /\ u.asked = s.asked /\ u.seeking = s.seeking /\ u.halted = s.halted
        /\ u.refused = b /\ Kept(s, u) /\ u.seeking = t.seeking /\ u.halted = t.halted
    BY <2>2 DEF OnlyQueue, Kept, Device, Typed
  <2> HIDE DEF u
  <2>7. /\ Typed(u) /\ (MlmeSet(s) => MlmeSet(u)) /\ NotInB(u) /\ Longer(s, u)
        /\ Granted(t, s) => NewLead(s, u)
    BY <1>3, <2>2, <2>5, <2>6 DEF Typed, MlmeSet, NotInB, Longer, NewLead, Leads
  <2>8. Effect(s, u)
    <3>1. u.classB /\ ~u.refused => \/ /\ s.classB /\ ~s.refused
                                       /\ s.seeking \/ s.halted => u.seeking \/ u.halted
                                    \/ NewLead(s, u)
      BY <2>2, <2>3, <2>6, <2>7 DEF OnlyQueue
    <3> QED
      BY <2>6, <2>7, <3>1, EffectBy
  <2> QED
    BY <2>4, <2>6, <2>8 DEF Handled
<1>4. CASE s.class # c /\ c # "B"
  <2>1. PICK t : t = SwitchClass(c, s)
    OBVIOUS
  <2>2. Handled(s, t)
    BY <1>4, <2>1, SwitchDoes DEF Classes
  <2>3. r = IF t.class = c THEN Tell(c, t) ELSE t
    BY <1>4, <2>1 DEF RequestClass
  <2>4. Handled(t, r)
    <3>1. Typed(t) /\ NotInB(t)
      BY <2>2 DEF Handled, Effect
    <3> QED
      BY <2>3, <3>1, TellDoes, EffectSelf
  <2> QED
    BY <2>2, <2>4, HandledTrans
<1> QED
  BY <1>2, <1>3, <1>4

\* The indication that the beacon is lost.
LEMMA LostDoes ==
    ASSUME NEW s, Typed(s), NotInB(s), NEW r, r = BeaconLostIndication(s)
    PROVE  Handled(s, r)
<1>1. PICK t : t = SwitchClass("A", s)
  OBVIOUS
<1>2. PICK u : u = Tell("A", t)
  OBVIOUS
<1>3. Handled(s, t) /\ Typed(t) /\ NotInB(t)
  <2>1. Handled(s, t)
    BY <1>1, SwitchDoes
  <2> QED
    BY <2>1 DEF Handled, Effect
<1>4. Handled(t, u) /\ Typed(u) /\ NotInB(u)
  <2>1. Handled(t, u)
    BY <1>2, <1>3, TellDoes DEF Classes
  <2> QED
    BY <2>1 DEF Handled, Effect
<1>5. Handled(u, r)
  BY <1>1, <1>2, <1>4, TimeDoes DEF BeaconLostIndication
<1> QED
  BY <1>3, <1>4, <1>5, HandledTrans
----------------------------------------------------------------------------
(* The confirmations.                                                      *)

\* What an element leads on passes to another when it is not one to lead, or
\* when the handler of its confirmation has requested what comes next.
LEMMA PassedOn ==
    ASSUME NEW s, Typed(s), NEW r, Typed(r), Len(s.queue) <= Len(r.queue),
           NEW l \in 1 .. Len(s.queue), Going(r, l)
    PROVE  Going(r, 1)
BY DEF Going, Typed, Device

LEMMA GoingOn ==
    ASSUME NEW s, Typed(s), s.queue # <<>>, ~Leads(s.queue[1], s), Going(s, 0)
    PROVE  Going(s, 1)
BY DEF Going, Typed, Device

\* MlmeConfirm, of the first element of the queue.
LEMMA MlmeConfirmDoes ==
    ASSUME NEW s, Typed(s), NotInB(s), s.queue # <<>>,
           NEW e, e = s.queue[1], e.ready,
           e.req = "join" /\ ~e.ok => ~s.joined,
           NEW r \in MlmeConfirm(e, s)
    PROVE  Handled(s, r) /\ (Going(s, 0) => Going(r, 1))
<1>1. s \in Device /\ s.queue \in Seq(Elements) /\ Len(s.queue) \in Nat /\ Len(s.queue) > 0
  BY DEF Typed, Device
<1>2. e \in Elements /\ e.req \in Requests /\ e.ok \in BOOLEAN
  <2>1. s.queue[1] \in Elements
    BY <1>1
  <2> QED
    BY <2>1 DEF Elements
<1>3. Len(s.queue) \in 1 .. Len(s.queue) /\ 1 \in 0 .. Len(s.queue)
  BY <1>1
<1>4. ASSUME NEW t, Handled(s, t), Going(t, Len(s.queue)) PROVE Going(t, 1)
  <2>1. Typed(t) /\ Len(s.queue) <= Len(t.queue)
    BY <1>4 DEF Handled, Effect
  <2> QED
    BY <1>3, <1>4, <2>1, PassedOn
<1>5. CASE e.req = "join"
  <2>1. ~Leads(s.queue[1], s)
    BY <1>5 DEF Leads
  <2>2. Going(s, 0) => Going(s, 1)
    BY <2>1, GoingOn
  <2>3. r \in OnJoinRequest(e.ok, s)
    BY <1>5 DEF MlmeConfirm
  <2>4. Handled(s, r)
    <3>1. CASE e.ok
      <4>1. PICK t : t = RequestClass("A", s)
        OBVIOUS
      <4>2. Handled(s, t)
        BY <4>1, RequestClassDoes DEF Classes
      <4>3. Typed(t) /\ NotInB(t)
        BY <4>2 DEF Handled, Effect
      <4>4. r = DeviceTimeReq(t)
        BY <2>3, <3>1, <4>1 DEF OnJoinRequest
      <4>5. Handled(t, r)
        BY <4>3, <4>4, TimeDoes
      <4> QED
        BY <4>2, <4>5, HandledTrans
    <3>2. CASE ~e.ok
      <4>1. r \in Join(s) /\ ~s.joined
        BY <1>5, <2>3, <3>2 DEF OnJoinRequest
      <4> QED
        BY <4>1, JoinDoes DEF Handled
    <3> QED
      BY <3>1, <3>2
  <2>5. Going(s, 1) => Going(r, 1)
    BY <1>3, <2>4 DEF Handled, Effect
  <2> QED
    BY <2>2, <2>4, <2>5
<1>6. CASE e.req = "time"
  <2>1. r = IF s.classB THEN BeaconReq(s) ELSE s
    BY <1>6 DEF MlmeConfirm
  <2>2. CASE s.classB
    <3>1. Handled(s, r) /\ Going(r, 1)
      BY <1>6, <2>1, <2>2, BeaconDoes
    <3> QED
      BY <3>1
  <2>3. CASE ~s.classB
    <3>1. Handled(s, r) /\ Going(r, 1)
      BY <2>1, <2>3, EffectSelf DEF Going
    <3> QED
      BY <3>1
  <2> QED
    BY <2>2, <2>3
<1>7. CASE e.req = "acquisition" /\ ~e.ok
  <2>1. PICK t : t = DeviceTimeReq(s)
    OBVIOUS
  <2>2. /\ Typed(t) /\ (MlmeSet(s) => MlmeSet(t)) /\ OnlyQueue(s, t) /\ Longer(s, t)
        /\ Granted(t, s) => NewLead(s, t)
        /\ Handled(s, t)
    BY <2>1, TimeDoes
  <2>3. PICK b \in BOOLEAN : b <=> ~Granted(t, s)
    OBVIOUS
  <2> DEFINE u == [t EXCEPT !.refused = b]
  <2>4. r = u
    <3>1. r = [t EXCEPT !.refused = ~Granted(t, s)]
      BY <1>7, <2>1, ZenonT(60) DEF MlmeConfirm
    <3> QED
      BY <2>3, <3>1
  <2>5. u \in Device /\ t \in Device
    <3>1. t \in Device
      BY <2>2 DEF Typed
    <3> QED
      BY <2>3, <3>1, ZenonT(60) DEF Device
  <2>6. /\ u.queue = t.queue /\ u.mlme = t.mlme /\ u.tx = t.tx /\ u.joined = t.joined
        /\ u.class = t.class /\ u.asked = t.asked /\ u.seeking = t.seeking /\ u.halted = t.halted
        /\ u.refused = b /\ u.classB = t.classB /\ Kept(t, u)
    BY <2>5 DEF Kept, Device
  <2> HIDE DEF u
  <2>7. /\ Typed(u) /\ (MlmeSet(s) => MlmeSet(u)) /\ NotInB(u) /\ Longer(s, u)
        /\ Granted(t, s) => NewLead(s, u)
    BY <2>2, <2>5, <2>6 DEF Typed, MlmeSet, NotInB, Longer, NewLead, Leads, OnlyQueue
  <2>8. Effect(s, u)
    BY <2>2, <2>3, <2>6, <2>7, EffectBy DEF OnlyQueue
  <2>9. Handled(s, u)
    BY <2>2, <2>6, <2>8 DEF Handled, OnlyQueue, Kept
  <2>10. Going(u, Len(s.queue))
    <3>1. u.refused \/ NewLead(s, u)
      BY <2>3, <2>6, <2>7
    <3>2. Len(u.queue) \in Nat
      BY <2>5 DEF Device
    <3> QED
      BY <1>1, <3>1, <3>2 DEF Going, NewLead
  <2> QED
    BY <1>4, <2>4, <2>9, <2>10
<1>8. CASE \/ e.req = "acquisition" /\ e.ok
           \/ e.req = "slot" /\ ~e.ok
  <2>1. r \in PingSlotReq(s)
    BY <1>8 DEF MlmeConfirm
  <2>2. Handled(s, r) /\ Going(r, Len(s.queue))
    BY <2>1, PingSlotDoes
  <2> QED
    BY <1>4, <2>2
<1>9. CASE e.req = "slot" /\ e.ok
  <2>1. r = [Tell("B", SwitchClass("B", s)) EXCEPT !.classB = FALSE]
    BY <1>9, ZenonT(60) DEF MlmeConfirm
  <2>2. Handled(s, r)
    BY <2>1, SwitchedDoes
  <2>3. ~r.classB
    <3>1. Tell("B", SwitchClass("B", s)) \in Device
      <4>1. SwitchClass("B", s) \in Device
        <5>1. [s EXCEPT !.class = "B"] \in Device
          BY <1>1 DEF Device, Classes
        <5>2. CASE Busy(s)
          BY <1>1, <5>2 DEF SwitchClass
        <5>3. CASE ~Busy(s) /\ s.class = "A" /\ s.locked /\ s.slot
          BY <5>1, <5>3 DEF SwitchClass
        <5>4. CASE ~Busy(s) /\ ~(s.class = "A" /\ s.locked /\ s.slot)
          BY <1>1, <5>4 DEF SwitchClass
        <5> QED
          BY <5>2, <5>3, <5>4
      <4> QED
        BY <4>1 DEF Tell, Device, Classes
    <3> QED
      BY <2>1, <3>1 DEF Device
  <2> QED
    BY <2>2, <2>3 DEF Going
<1> QED
  BY <1>2, <1>5, <1>6, <1>7, <1>8, <1>9 DEF Requests
----------------------------------------------------------------------------
(* A turn, and all of them.                                                *)

\* The requests to join among the first k of the queue are answered, and one
\* that succeeded has given the device its network.
JoinUpTo(s, k, i) == i \in 1 .. k /\ s.queue[i].req = "join"
JoinsAnswered(s, k) ==
    /\ \A i : JoinUpTo(s, k, i) =>
                 s.queue[i].ready /\ (s.joined => s.queue[i].ok)
    /\ \A i, j : JoinUpTo(s, k, i) /\ JoinUpTo(s, k, j) => i = j

\* Those that come after wait for the frame that is under way.
JoinsWait(s, k) ==
    /\ \A i : JoinAfter(s, k, i) => s.tx = "join" /\ ~s.queue[i].own
    /\ \A i, j : JoinAfter(s, k, i) /\ JoinAfter(s, k, j) => i = j

\* What holds before a turn when k elements are left of those the turns are for.
Turning(s, k) == /\ Typed(s) /\ k <= Len(s.queue) /\ NotInB(s) /\ Going(s, 0)
                 /\ Joining(s) /\ JoinsAnswered(s, k) /\ JoinsWait(s, k)

LEMMA QueueTyped ==
    ASSUME NEW s \in Device, NEW l \in Seq(Elements), NEW r, r = [s EXCEPT !.queue = l]
    PROVE  r \in Device /\ r.queue = l
<1>1. r \in Device
  BY DEF Device
<1> QED
  BY <1>1 DEF Device

\* The first element is answered and taken away.
LEMMA TurnAnswers ==
    ASSUME NEW s, NEW k \in Nat, k > 0, Turning(s, k), s.queue[1].ready,
           NEW t \in MlmeConfirm(s.queue[1], s),
           NEW l, l = Tail(t.queue), NEW r, r = [t EXCEPT !.queue = l]
    PROVE  /\ Turning(r, k - 1)
           /\ Kept(s, r) /\ r.asked \subseteq s.asked /\ (r.joined <=> s.joined)
<1>1. /\ s \in Device /\ s.queue \in Seq(Elements) /\ Len(s.queue) \in Nat
      /\ k <= Len(s.queue) /\ Len(s.queue) > 0 /\ s.queue # <<>>
      /\ Typed(s) /\ NotInB(s) /\ Going(s, 0)
  BY DEF Typed, Device, Turning
<1>2. s.queue[1].req = "join" /\ ~s.queue[1].ok => ~s.joined
  <2>1. 1 \in 1 .. k
    OBVIOUS
  <2> QED
    BY <2>1 DEF Turning, JoinsAnswered, JoinUpTo
<1>3. Handled(s, t) /\ Going(t, 1)
  BY <1>1, <1>2, MlmeConfirmDoes
<1>4. /\ Typed(t) /\ t \in Device /\ t.queue \in Seq(Elements) /\ Len(t.queue) \in Nat
      /\ Len(s.queue) <= Len(t.queue) /\ NotInB(t) /\ Joining(t)
      /\ \A i \in 1 .. Len(s.queue) : t.queue[i] = s.queue[i]
  BY <1>3 DEF Handled, Effect, Typed, Device, Turning
<1>5. /\ l \in Seq(Elements) /\ Len(l) = Len(t.queue) - 1 /\ Len(t.queue) > 0
      /\ \A i \in 1 .. Len(l) : l[i] = t.queue[i + 1]
  BY <1>1, <1>4
<1>6. r = [t EXCEPT !.queue = l]
  OBVIOUS
<1>7. r \in Device /\ r.queue = l
  <2>1. t \in Device /\ l \in Seq(Elements)
    BY <1>4, <1>5
  <2> QED
    BY <1>6, <2>1, QueueTyped, ZenonT(60)
<1>8. /\ r.tx = t.tx /\ r.joined = t.joined /\ r.class = t.class /\ r.classB = t.classB
      /\ r.refused = t.refused /\ r.seeking = t.seeking /\ r.halted = t.halted /\ r.asked = t.asked
      /\ Kept(t, r)
  BY <1>4, <1>6 DEF Device, Kept
<1>9. Kept(s, r) /\ r.asked \subseteq s.asked /\ (r.joined <=> s.joined)
  <2>1. Kept(s, t) /\ t.asked \subseteq s.asked /\ (t.joined <=> s.joined)
    BY <1>3 DEF Handled, Effect
  <2> QED
    BY <1>8, <2>1 DEF Kept
<1>10. Typed(r) /\ k - 1 <= Len(r.queue) /\ NotInB(r) /\ Joining(r)
  <2>1. Len(t.queue) <= QueueLen /\ QueueLen \in Nat
    BY <1>4, LmHandlerAssumption DEF Typed
  <2> QED
    BY <1>1, <1>4, <1>5, <1>7, <1>8, <2>1 DEF Typed, NotInB, Joining
<1>11. Going(r, 0)
  <2> SUFFICES ASSUME r.classB /\ ~r.refused
               PROVE  \E i \in 1 .. Len(l) : i > 0 /\ Leads(l[i], r)
    BY <1>7 DEF Going
  <2>1. PICK i \in 1 .. Len(t.queue) : i > 1 /\ Leads(t.queue[i], t)
    <3>1. t.classB /\ ~t.refused
      BY <1>8
    <3> QED
      BY <1>3, <3>1 DEF Going
  <2>2. i - 1 \in 1 .. Len(l) /\ i - 1 > 0 /\ l[i - 1] = t.queue[i]
    <3>1. i - 1 \in 1 .. Len(l) /\ i - 1 > 0 /\ (i - 1) + 1 = i
      BY <1>4, <1>5, <2>1
    <3>2. l[i - 1] = t.queue[(i - 1) + 1]
      BY <1>5, <3>1
    <3> QED
      BY <3>1, <3>2
  <2> QED
    BY <1>8, <2>1, <2>2 DEF Leads
<1>12. JoinsAnswered(r, k - 1)
  <2>1. ASSUME NEW i \in 1 .. k - 1
        PROVE  i + 1 \in 1 .. k /\ r.queue[i] = s.queue[i + 1]
    <3>1. i + 1 \in 1 .. k /\ i + 1 \in 1 .. Len(s.queue) /\ i \in 1 .. Len(l)
      BY <1>1, <1>4, <1>5
    <3> QED
      BY <1>4, <1>5, <1>7, <3>1
  <2>2. JoinsAnswered(s, k)
    BY DEF Turning
  <2>3. ASSUME NEW i \in 1 .. k - 1, r.queue[i].req = "join"
        PROVE  r.queue[i].ready /\ (r.joined => r.queue[i].ok)
    BY <1>9, <2>1, <2>2, <2>3 DEF JoinsAnswered, JoinUpTo
  <2>4. ASSUME NEW i \in 1 .. k - 1, r.queue[i].req = "join",
               NEW j \in 1 .. k - 1, r.queue[j].req = "join"
        PROVE  i = j
    <3>1. i + 1 = j + 1
      BY <2>1, <2>2, <2>4 DEF JoinsAnswered, JoinUpTo
    <3> QED
      BY <3>1
  <2> QED
    BY <2>3, <2>4 DEF JoinsAnswered, JoinUpTo
<1>13. JoinsWait(r, k - 1)
  <2>1. \A i : JoinAfter(r, k - 1, i) =>
                 /\ i \in 1 .. Len(l) /\ r.queue[i] = t.queue[i + 1]
                 /\ JoinAfter(t, k, i + 1)
    BY <1>4, <1>5, <1>7 DEF JoinAfter
  <2>2. \A j : JoinAfter(t, k, j) =>
                 JoinAfter(s, k, j) \/ JoinAfter(t, Len(s.queue), j)
    <3> TAKE j
    <3> HAVE JoinAfter(t, k, j)
    <3>1. CASE j > Len(s.queue)
      BY <3>1 DEF JoinAfter
    <3>2. CASE ~(j > Len(s.queue))
      <4>1. j \in 1 .. Len(s.queue) /\ j \in 1 .. Len(t.queue)
        BY <1>1, <1>4, <3>2 DEF JoinAfter
      <4> QED
        BY <1>4, <4>1 DEF JoinAfter
    <3> QED
      BY <3>1, <3>2
  <2>3. \A j : JoinAfter(s, k, j) => s.tx = "join" /\ ~t.queue[j].own
    BY <1>4 DEF Turning, JoinsWait, JoinAfter
  <2>4. \A j : JoinAfter(t, Len(s.queue), j) =>
                 ~Busy(s) /\ t.tx = "join" /\ ~t.queue[j].own
    BY <1>3 DEF Handled, Effect
  <2>5. Busy(s) => t.tx = s.tx
    BY <1>3 DEF Handled, Effect
  <2>6. \A j : JoinAfter(t, k, j) => t.tx = "join" /\ ~t.queue[j].own
    BY <2>2, <2>3, <2>4, <2>5 DEF Busy
  <2>7. ASSUME NEW i, NEW j, JoinAfter(t, k, i), JoinAfter(t, k, j) PROVE i = j
    <3>1. CASE JoinAfter(s, k, i) /\ JoinAfter(s, k, j)
      BY <3>1 DEF Turning, JoinsWait
    <3>2. CASE JoinAfter(t, Len(s.queue), i) /\ JoinAfter(t, Len(s.queue), j)
      BY <1>3, <3>2 DEF Handled, Effect
    <3> QED
      BY <2>2, <2>3, <2>4, <2>7, <3>1, <3>2 DEF Busy
  <2>8. \A i : JoinAfter(r, k - 1, i) => r.tx = "join" /\ ~r.queue[i].own
    BY <1>8, <2>1, <2>6
  <2>9. ASSUME NEW i, NEW j, JoinAfter(r, k - 1, i), JoinAfter(r, k - 1, j) PROVE i = j
    <3>1. i \in Nat /\ j \in Nat /\ i + 1 = j + 1
      BY <2>1, <2>7, <2>9
    <3> QED
      BY <3>1
  <2> QED
    BY <2>8, <2>9 DEF JoinsWait
<1> QED
  BY <1>9, <1>10, <1>11, <1>12, <1>13 DEF Turning

\* The first element is not ready and goes to the end.
LEMMA TurnPutsBack ==
    ASSUME NEW s, NEW k \in Nat, k > 0, Turning(s, k), ~s.queue[1].ready,
           NEW b \in BOOLEAN,
           NEW r, r = [s EXCEPT !.queue = Append(Tail(@), [s.queue[1] EXCEPT !.ready = b])]
    PROVE  /\ Turning(r, k - 1)
           /\ Kept(s, r) /\ r.asked \subseteq s.asked /\ (r.joined <=> s.joined)
<1>1. /\ s \in Device /\ s.queue \in Seq(Elements) /\ Len(s.queue) \in Nat
      /\ k <= Len(s.queue) /\ Len(s.queue) > 0
      /\ Typed(s) /\ NotInB(s) /\ Going(s, 0) /\ Joining(s)
  BY DEF Typed, Device, Turning
<1> DEFINE e == [s.queue[1] EXCEPT !.ready = b]
           l == Append(Tail(s.queue), e)
<1>2. s.queue[1] \in Elements
  BY <1>1
<1>3. e \in Elements /\ e.req = s.queue[1].req
  <2>1. e \in Elements
    BY <1>2, ZenonT(60) DEF Elements
  <2>2. e.req = s.queue[1].req
    BY <1>2 DEF Elements
  <2> QED
    BY <2>1, <2>2
<1>4. e.req # "join"
  <2>1. 1 \in 1 .. k
    OBVIOUS
  <2> QED
    BY <1>3, <2>1 DEF Turning, JoinsAnswered, JoinUpTo
<1> HIDE DEF e
<1>5. /\ l \in Seq(Elements) /\ Len(l) = Len(s.queue)
      /\ \A i \in 1 .. Len(s.queue) - 1 : l[i] = s.queue[i + 1]
      /\ l[Len(s.queue)] = e
  BY <1>1, <1>3
<1>6. r = [s EXCEPT !.queue = l]
  BY <1>1 DEF e, Device
<1> HIDE DEF l
<1>7. r \in Device /\ r.queue = l
  <2>1. s \in Device /\ l \in Seq(Elements)
    BY <1>1, <1>5
  <2> QED
    BY <1>6, <2>1, QueueTyped, ZenonT(60)
<1>8. /\ r.tx = s.tx /\ r.joined = s.joined /\ r.class = s.class /\ r.classB = s.classB
      /\ r.refused = s.refused /\ r.seeking = s.seeking /\ r.halted = s.halted /\ r.asked = s.asked
      /\ Kept(s, r)
  BY <1>1, <1>6 DEF Device, Kept
<1>9. Typed(r) /\ k - 1 <= Len(r.queue) /\ NotInB(r) /\ Joining(r)
  BY <1>1, <1>5, <1>7, <1>8 DEF Typed, NotInB, Joining
<1>10. Going(r, 0)
  <2> SUFFICES ASSUME r.classB /\ ~r.refused
               PROVE  \E i \in 1 .. Len(l) : i > 0 /\ Leads(l[i], r)
    BY <1>7 DEF Going
  <2>1. PICK i \in 1 .. Len(s.queue) : Leads(s.queue[i], s)
    BY <1>1, <1>8 DEF Going
  <2>2. CASE i = 1
    <3>1. Leads(e, r)
      <4>1. s.queue[1].req \in {"time", "slot"} \/ (s.queue[1].req = "acquisition" /\ (s.seeking \/ s.halted))
        BY <2>1, <2>2 DEF Leads
      <4> QED
        BY <1>3, <1>8, <4>1 DEF Leads
    <3>2. Len(s.queue) \in 1 .. Len(l) /\ Len(s.queue) > 0
      BY <1>1, <1>5
    <3>3. l[Len(s.queue)] = e
      BY <1>5
    <3> QED
      BY <3>1, <3>2, <3>3
  <2>3. CASE i # 1
    <3>1. i - 1 \in 1 .. Len(l) /\ i - 1 > 0 /\ l[i - 1] = s.queue[i]
      BY <1>1, <1>5, <2>3
    <3> QED
      BY <1>8, <2>1, <3>1 DEF Leads
  <2> QED
    BY <2>2, <2>3
<1>11. JoinsAnswered(r, k - 1)
  <2>1. ASSUME NEW i \in 1 .. k - 1
        PROVE  i + 1 \in 1 .. k /\ r.queue[i] = s.queue[i + 1]
    <3>1. i + 1 \in 1 .. k /\ i \in 1 .. Len(s.queue) - 1
      BY <1>1
    <3> QED
      BY <1>5, <1>7, <3>1
  <2>2. JoinsAnswered(s, k)
    BY DEF Turning
  <2>3. ASSUME NEW i \in 1 .. k - 1, r.queue[i].req = "join"
        PROVE  r.queue[i].ready /\ (r.joined => r.queue[i].ok)
    <3>1. JoinUpTo(s, k, i + 1) /\ (r.joined <=> s.joined)
      BY <1>8, <2>1, <2>3 DEF JoinUpTo
    <3> QED
      BY <2>1, <2>2, <3>1 DEF JoinsAnswered
  <2>4. ASSUME NEW i \in 1 .. k - 1, r.queue[i].req = "join",
               NEW j \in 1 .. k - 1, r.queue[j].req = "join"
        PROVE  i = j
    <3>1. i + 1 = j + 1
      BY <2>1, <2>2, <2>4 DEF JoinsAnswered, JoinUpTo
    <3> QED
      BY <3>1
  <2> QED
    BY <2>3, <2>4 DEF JoinsAnswered, JoinUpTo
<1>12. JoinsWait(r, k - 1)
  <2>1. \A i : JoinAfter(r, k - 1, i) =>
                 /\ i \in 1 .. Len(s.queue) - 1 /\ r.queue[i] = s.queue[i + 1]
                 /\ JoinAfter(s, k, i + 1)
    <3> TAKE i
    <3> HAVE JoinAfter(r, k - 1, i)
    <3>1. i \in 1 .. Len(s.queue) /\ i > k - 1 /\ l[i].req = "join"
      BY <1>5, <1>7 DEF JoinAfter
    <3>2. i # Len(s.queue)
      BY <1>4, <1>5, <3>1
    <3>3. i \in 1 .. Len(s.queue) - 1 /\ i + 1 \in 1 .. Len(s.queue) /\ i + 1 > k
      BY <1>1, <3>1, <3>2
    <3> QED
      BY <1>5, <1>7, <3>1, <3>3 DEF JoinAfter
  <2>2. JoinsWait(s, k)
    BY DEF Turning
  <2>3. \A i : JoinAfter(r, k - 1, i) => r.tx = "join" /\ ~r.queue[i].own
    BY <1>8, <2>1, <2>2 DEF JoinsWait
  <2>4. ASSUME NEW i, NEW j, JoinAfter(r, k - 1, i), JoinAfter(r, k - 1, j) PROVE i = j
    <3>1. i \in Nat /\ j \in Nat /\ i + 1 = j + 1
      BY <2>1, <2>2, <2>4 DEF JoinsWait
    <3> QED
      BY <3>1
  <2> QED
    BY <2>3, <2>4 DEF JoinsWait
<1> QED
  BY <1>8, <1>9, <1>10, <1>11, <1>12 DEF Turning
LEMMA HandleCbDoes ==
    ASSUME NEW s, Turning(s, Len(s.queue)), NEW r \in HandleCb(s)
    PROVE  /\ Turning(r, 0)
           /\ Kept(s, r) /\ r.asked \subseteq s.asked /\ (r.joined <=> s.joined)
<1> DEFINE P(t) == Kept(s, t) /\ t.asked \subseteq s.asked /\ (t.joined <=> s.joined)
           N == Len(s.queue)
           G == [n \in Nat |-> {t \in Device : n <= N => Turning(t, N - n) /\ P(t)}]
<1>1. s \in Device /\ N \in Nat
  BY DEF Turning, Typed, Device
<1>2. P(s)
  BY DEF Kept
<1>3. \A n \in Nat : \A t : t \in G[n] <=>
         t \in Device /\ (n <= N => Turning(t, N - n) /\ P(t))
  OBVIOUS
<1> HIDE DEF G
<1>4. s \in G[0]
  <2>1. N - 0 = N
    BY <1>1
  <2> HIDE DEF N, P
  <2>2. Turning(s, N - 0)
    BY <2>1 DEF N
  <2> QED
    BY <1>1, <1>2, <1>3, <2>2
<1>5. ASSUME NEW n \in 0 .. N - 1, NEW t \in G[n], NEW u \in HandleFirst(t)
      PROVE  u \in G[n + 1]
  <2>1. n \in Nat /\ n <= N /\ n + 1 \in Nat /\ n + 1 <= N
    BY <1>1
  <2>2. Turning(t, N - n) /\ P(t) /\ t \in Device
    BY <1>3, <2>1
  <2>3. N - n \in Nat /\ N - n > 0 /\ (N - n) - 1 = N - (n + 1)
    BY <1>1, <2>1
  <2>4. PICK k \in Nat : k = N - n /\ k > 0 /\ k - 1 = N - (n + 1)
    BY <2>3
  <2>5. t.queue \in Seq(Elements) /\ Len(t.queue) > 0 /\ Head(t.queue) = t.queue[1]
    <3>1. k <= Len(t.queue) /\ t.queue \in Seq(Elements)
      BY <2>2, <2>4 DEF Turning, Device
    <3> QED
      BY <2>4, <3>1
  <2> HIDE DEF P, N
  <2>6. CASE t.queue[1].ready
    <3>1. PICK v \in MlmeConfirm(t.queue[1], t) : u = [v EXCEPT !.queue = Tail(@)]
      BY <2>5, <2>6 DEF HandleFirst
    <3> DEFINE l == Tail(v.queue)
    <3>3. u = [v EXCEPT !.queue = l]
      BY <3>1
    <3> HIDE DEF l
    <3>4. l = Tail(v.queue)
      BY DEF l
    <3>2. /\ Turning(u, k - 1)
          /\ Kept(t, u) /\ u.asked \subseteq t.asked /\ (u.joined <=> t.joined)
      <4>1. k \in Nat /\ k > 0 /\ Turning(t, k)
        BY <2>2, <2>4
      <4> QED
        BY <2>6, <3>3, <3>4, <4>1, TurnAnswers
    <3> QED
      BY <1>3, <2>1, <2>2, <2>4, <3>2 DEF Turning, Typed, P, Kept
  <2>7. CASE ~t.queue[1].ready
    <3>1. PICK b \in BOOLEAN :
            u = [t EXCEPT !.queue = Append(Tail(@), [t.queue[1] EXCEPT !.ready = b])]
      BY <2>5, <2>7 DEF HandleFirst
    <3>2. /\ Turning(u, k - 1)
          /\ Kept(t, u) /\ u.asked \subseteq t.asked /\ (u.joined <=> t.joined)
      BY <2>2, <2>4, <2>7, <3>1, TurnPutsBack
    <3> QED
      BY <1>3, <2>1, <2>2, <2>4, <3>2 DEF Turning, Typed, P, Kept
  <2> QED
    BY <2>6, <2>7
<1>6. HandleCb(s) \subseteq G[N]
  <2>1. \A n \in 0 .. Len(s.queue) - 1 : \A t \in G[n] : HandleFirst(t) \subseteq G[n + 1]
    BY <1>5
  <2> QED
    BY <1>1, <1>4, <2>1, HandleCbInv
<1>7. N <= N /\ N - N = 0
  BY <1>1
<1>8. Turning(r, N - N) /\ P(r)
  <2> HIDE DEF P, N
  <2> QED
    BY <1>1, <1>3, <1>6, <1>7
<1> QED
  BY <1>7, <1>8

----------------------------------------------------------------------------
(* What holds of the device between the steps of the task.                 *)

Sound(s) == /\ Typed(s) /\ NotInB(s) /\ MlmeSet(s) /\ Joining(s) /\ JoinsWait(s, 0)
            /\ Going(s, 0)

\* What must hold when the MAC answers.
Answered(s) == /\ Typed(s) /\ NotInB(s) /\ MlmeSet(s) /\ Going(s, 0)
               /\ JoinsAnswered(s, Len(s.queue))

LEMMA EffectSound ==
    ASSUME NEW s, Sound(s), NEW r, Effect(s, r)
    PROVE  Sound(r)
<1>1. /\ Len(s.queue) \in Nat /\ Len(r.queue) \in Nat
      /\ Len(s.queue) <= Len(r.queue)
      /\ \A i \in 1 .. Len(s.queue) : r.queue[i] = s.queue[i]
  BY DEF Sound, Effect, Typed, Device
<1>2. Typed(r) /\ NotInB(r) /\ MlmeSet(r) /\ Joining(r)
  BY DEF Sound, Effect
<1>3. Going(r, 0)
  <2>1. 0 \in 0 .. Len(s.queue) /\ Going(s, 0)
    BY <1>1 DEF Sound
  <2> QED
    BY <2>1 DEF Effect
<1>4. \A i : JoinAfter(r, 0, i) => JoinAfter(s, 0, i) \/ JoinAfter(r, Len(s.queue), i)
  <2> TAKE i
  <2> HAVE JoinAfter(r, 0, i)
  <2>1. CASE i > Len(s.queue)
    BY <2>1 DEF JoinAfter
  <2>2. CASE ~(i > Len(s.queue))
    <3>1. i \in 1 .. Len(s.queue)
      BY <1>1, <2>2 DEF JoinAfter
    <3> QED
      BY <1>1, <3>1 DEF JoinAfter
  <2> QED
    BY <2>1, <2>2
<1>5. \A i : JoinAfter(s, 0, i) => s.tx = "join" /\ r.tx = "join" /\ ~r.queue[i].own
  <2> TAKE i
  <2> HAVE JoinAfter(s, 0, i)
  <2>1. s.tx = "join" /\ ~s.queue[i].own /\ r.queue[i] = s.queue[i]
    BY <1>1 DEF Sound, JoinsWait, JoinAfter
  <2> QED
    BY <2>1 DEF Effect, Busy
<1>6. \A i : JoinAfter(r, Len(s.queue), i) =>
               ~Busy(s) /\ r.tx = "join" /\ ~r.queue[i].own
  BY DEF Effect
<1>7. ASSUME NEW i, NEW j, JoinAfter(r, 0, i), JoinAfter(r, 0, j) PROVE i = j
  <2>1. CASE JoinAfter(s, 0, i) /\ JoinAfter(s, 0, j)
    BY <2>1 DEF Sound, JoinsWait
  <2>2. CASE JoinAfter(r, Len(s.queue), i) /\ JoinAfter(r, Len(s.queue), j)
    BY <2>2 DEF Effect
  <2> QED
    BY <1>4, <1>5, <1>6, <1>7, <2>1, <2>2 DEF Busy
<1>8. JoinsWait(r, 0)
  BY <1>4, <1>5, <1>6, <1>7 DEF JoinsWait
<1> QED
  BY <1>2, <1>3, <1>8 DEF Sound

\* The clock package's state once the end of a frame has been told to it.
Clocked(s) == IF s.tx = "frame" THEN ClockSyncConfirm(s) ELSE s

LEMMA ClockedDoes ==
    ASSUME NEW s, Typed(s), NEW u,
           u = IF s.tx = "frame" THEN ClockSyncConfirm([s EXCEPT !.tx = "none"])
               ELSE [s EXCEPT !.tx = "none"]
    PROVE  /\ u \in Device /\ u.tx = "none" /\ u.joined = s.joined /\ u.class = s.class
           /\ u.seeking = s.seeking /\ u.halted = s.halted /\ u.queue = s.queue /\ u.mlme = s.mlme
           /\ u.classB = s.classB /\ u.refused = s.refused /\ u.asked = s.asked
           /\ Kept(Clocked(s), u)
<1> DEFINE t == [s EXCEPT !.tx = "none"]
           v == [t EXCEPT !.adr = t.prevAdr, !.trans = t.prevTrans, !.pending = FALSE]
           w == [s EXCEPT !.adr = s.prevAdr, !.trans = s.prevTrans, !.pending = FALSE]
<1>1. s \in Device
  BY DEF Typed
<1>2. t \in Device
  BY <1>1 DEF Device
<1>3. /\ t.tx = "none" /\ t.joined = s.joined /\ t.class = s.class
      /\ t.seeking = s.seeking /\ t.halted = s.halted /\ t.queue = s.queue /\ t.mlme = s.mlme
      /\ t.classB = s.classB /\ t.refused = s.refused /\ t.asked = s.asked
      /\ t.prevAdr = s.prevAdr /\ t.prevTrans = s.prevTrans /\ t.pending = s.pending
      /\ Kept(s, t)
  BY <1>1 DEF Device, Kept
<1> HIDE DEF t
<1>4. v \in Device
  <2>1. t.prevAdr \in BOOLEAN /\ t.prevTrans \in NbTrans
    BY <1>2 DEF Device
  <2> QED
    BY <1>2, <2>1, ZenonT(60) DEF Device
<1>5. /\ v.tx = "none" /\ v.joined = s.joined /\ v.class = s.class
      /\ v.seeking = s.seeking /\ v.halted = s.halted /\ v.queue = s.queue /\ v.mlme = s.mlme
      /\ v.classB = s.classB /\ v.refused = s.refused /\ v.asked = s.asked
  BY <1>2, <1>3 DEF Device
<1>6. Kept(w, v)
  <2>1. /\ v.adr = s.prevAdr /\ v.trans = s.prevTrans /\ v.pending = FALSE
        /\ v.server = s.server /\ v.prevAdr = s.prevAdr /\ v.prevTrans = s.prevTrans
        /\ v.resync = s.resync /\ v.token = s.token /\ v.error = s.error
        /\ v.late = s.late
    BY <1>2, <1>3 DEF Device, Kept
  <2>2. /\ w.adr = s.prevAdr /\ w.trans = s.prevTrans /\ w.pending = FALSE
        /\ w.server = s.server /\ w.prevAdr = s.prevAdr /\ w.prevTrans = s.prevTrans
        /\ w.resync = s.resync /\ w.token = s.token /\ w.error = s.error
        /\ w.late = s.late
    BY <1>1 DEF Device
  <2> HIDE DEF v, w
  <2> QED
    BY <2>1, <2>2 DEF Kept
<1> HIDE DEF v, w
<1>7. CASE s.tx = "frame" /\ s.pending
  <2>1. ClockSyncConfirm(t) = v
    BY <1>3, <1>7 DEF ClockSyncConfirm, v
  <2>2. ClockSyncConfirm(s) = w
    BY <1>7 DEF ClockSyncConfirm, w
  <2>3. u = v /\ Clocked(s) = w
    BY <1>7, <2>1, <2>2 DEF Clocked, t
  <2> QED
    BY <1>4, <1>5, <1>6, <2>3
<1>8. CASE s.tx = "frame" /\ ~s.pending
  <2>1. ClockSyncConfirm(t) = t /\ ClockSyncConfirm(s) = s
    BY <1>3, <1>8 DEF ClockSyncConfirm
  <2>2. u = t /\ Clocked(s) = s
    BY <1>8, <2>1 DEF Clocked, t
  <2> QED
    BY <1>2, <1>3, <2>2
<1>9. CASE s.tx # "frame"
  <2>1. u = t /\ Clocked(s) = s
    BY <1>9 DEF Clocked, t
  <2> QED
    BY <1>2, <1>3, <2>1
<1> QED
  BY <1>7, <1>8, <1>9
\* r has the queue of s and what the switch to class B and a join depend on.
Alike(s, r) == /\ r.queue = s.queue /\ r.class = s.class /\ r.asked = s.asked
               /\ (r.joined <=> s.joined) /\ (r.seeking <=> s.seeking) /\ (r.halted <=> s.halted)
               /\ (r.classB <=> s.classB) /\ (r.refused <=> s.refused)

LEMMA AlikeDoes ==
    ASSUME NEW s, Typed(s), NEW r \in Device, Alike(s, r)
    PROVE  /\ Typed(r)
           /\ NotInB(s) => NotInB(r)
           /\ Going(s, 0) => Going(r, 0)
           /\ \A k : JoinsAnswered(s, k) => JoinsAnswered(r, k)
           /\ r.tx = s.tx => /\ Joining(s) => Joining(r)
                             /\ JoinsWait(s, 0) => JoinsWait(r, 0)
<1>1. Typed(r)
  BY DEF Typed, Alike
<1>2. NotInB(s) => NotInB(r)
  BY DEF NotInB, Alike
<1>3. Going(s, 0) => Going(r, 0)
  BY DEF Going, Leads, Alike
<1>4. \A k : JoinsAnswered(s, k) => JoinsAnswered(r, k)
  BY DEF JoinsAnswered, JoinUpTo, Alike
<1>5. r.tx = s.tx => /\ Joining(s) => Joining(r)
                     /\ JoinsWait(s, 0) => JoinsWait(r, 0)
  BY DEF Joining, JoinsWait, JoinAfter, Alike
<1> QED
  BY <1>1, <1>2, <1>3, <1>4, <1>5

\* LoRaMacHandleRequestEvents.
LEMMA RequestEventsDoes ==
    ASSUME NEW s, Answered(s), NEW r \in RequestEvents(s)
    PROVE  /\ Sound(r) /\ Kept(Clocked(s), r)
           /\ r.asked \subseteq s.asked /\ (r.joined <=> s.joined)
<1>1. /\ Typed(s) /\ NotInB(s) /\ MlmeSet(s) /\ Going(s, 0) /\ s \in Device
      /\ JoinsAnswered(s, Len(s.queue)) /\ Len(s.queue) \in Nat
      /\ s.queue \in Seq(Elements)
  BY DEF Answered, Typed, Device
<1>2. PICK u : u = IF s.tx = "frame" THEN ClockSyncConfirm([s EXCEPT !.tx = "none"])
                   ELSE [s EXCEPT !.tx = "none"]
  OBVIOUS
<1>3. /\ u \in Device /\ u.tx = "none" /\ u.mlme = s.mlme /\ Alike(s, u)
      /\ Kept(Clocked(s), u)
  <2>1. /\ u \in Device /\ u.tx = "none" /\ u.joined = s.joined /\ u.class = s.class
        /\ u.seeking = s.seeking /\ u.halted = s.halted /\ u.queue = s.queue /\ u.mlme = s.mlme
        /\ u.classB = s.classB /\ u.refused = s.refused /\ u.asked = s.asked
        /\ Kept(Clocked(s), u)
    BY <1>1, <1>2, ClockedDoes
  <2> QED
    BY <2>1 DEF Alike
<1>4. IF s.mlme
      THEN \E t \in HandleCb([u EXCEPT !.mlme = FALSE, !.sent = {}]) :
               r = [t EXCEPT !.mlme = @ \/ t.queue # <<>>]
      ELSE r = [u EXCEPT !.sent = {}]
  BY <1>2 DEF RequestEvents
<1>5. CASE s.mlme
  <2> DEFINE v == [u EXCEPT !.mlme = FALSE, !.sent = {}]
  <2>1. v \in Device
    BY <1>3, ZenonT(60) DEF Device
  <2>2. Alike(s, v) /\ v.tx = "none" /\ Kept(Clocked(s), v)
    <3>1. Alike(u, v) /\ v.tx = u.tx /\ Kept(u, v)
      BY <1>3 DEF Alike, Kept, Device
    <3> HIDE DEF v
    <3> QED
      BY <1>3, <3>1 DEF Alike, Kept
  <2>3. PICK t \in HandleCb(v) : r = [t EXCEPT !.mlme = @ \/ t.queue # <<>>]
    BY <1>4, <1>5
  <2> HIDE DEF v
  <2>4. /\ Typed(v) /\ NotInB(v) /\ Going(v, 0) /\ JoinsAnswered(v, Len(v.queue))
        /\ v.queue = s.queue
    BY <1>1, <2>1, <2>2, AlikeDoes DEF Alike
  <2>5. Turning(v, Len(v.queue))
    <3>1. Joining(v)
      BY <2>2 DEF Joining
    <3>2. \A i : ~JoinAfter(v, Len(v.queue), i)
      BY <1>1, <2>4 DEF JoinAfter
    <3>3. JoinsWait(v, Len(v.queue))
      BY <3>2 DEF JoinsWait
    <3> QED
      BY <1>1, <2>4, <3>1, <3>3 DEF Turning
  <2>6. /\ Turning(t, 0)
        /\ Kept(v, t) /\ t.asked \subseteq v.asked /\ (t.joined <=> v.joined)
    BY <2>3, <2>5, HandleCbDoes
  <2>7. t \in Device
    BY <2>6 DEF Turning, Typed
  <2>8. PICK b \in BOOLEAN : b <=> (t.mlme \/ t.queue # <<>>)
    OBVIOUS
  <2>9. r = [t EXCEPT !.mlme = b]
    BY <2>3, <2>8
  <2>10. r \in Device
    BY <2>7, <2>8, <2>9, ZenonT(60) DEF Device
  <2>11. Alike(t, r) /\ r.tx = t.tx /\ Kept(t, r) /\ r.mlme = b
    BY <2>7, <2>9 DEF Alike, Kept, Device
  <2>12. Typed(t) /\ NotInB(t) /\ Going(t, 0) /\ Joining(t) /\ JoinsWait(t, 0)
    BY <2>6 DEF Turning
  <2>13. Typed(r) /\ NotInB(r) /\ Going(r, 0) /\ Joining(r) /\ JoinsWait(r, 0)
    BY <2>10, <2>11, <2>12, AlikeDoes
  <2>14. MlmeSet(r)
    BY <2>8, <2>11 DEF MlmeSet, Alike
  <2>15. Sound(r)
    BY <2>13, <2>14 DEF Sound
  <2>16. Kept(Clocked(s), r)
    BY <2>2, <2>6, <2>11 DEF Kept
  <2>17. r.asked \subseteq s.asked /\ (r.joined <=> s.joined)
    BY <2>2, <2>6, <2>11 DEF Alike
  <2> QED
    BY <2>15, <2>16, <2>17
<1>6. CASE ~s.mlme
  <2>1. r = [u EXCEPT !.sent = {}]
    BY <1>4, <1>6
  <2>2. r \in Device
    BY <1>3, <2>1, ZenonT(60) DEF Device
  <2>3. Alike(u, r) /\ r.tx = u.tx /\ Kept(u, r) /\ r.mlme = u.mlme
    BY <1>3, <2>1 DEF Alike, Kept, Device
  <2>4. Alike(s, r) /\ r.tx = "none" /\ Kept(Clocked(s), r) /\ s.queue = <<>>
    BY <1>1, <1>3, <1>6, <2>3 DEF Alike, Kept, MlmeSet
  <2>5. Typed(r) /\ NotInB(r) /\ Going(r, 0)
    BY <1>1, <2>2, <2>4, AlikeDoes
  <2>6. Joining(r) /\ JoinsWait(r, 0) /\ MlmeSet(r)
    <3>1. r.queue = <<>>
      BY <2>4 DEF Alike
    <3>2. \A i : ~JoinAfter(r, 0, i)
      BY <3>1 DEF JoinAfter
    <3> QED
      BY <2>4, <3>1, <3>2 DEF Joining, JoinsWait, MlmeSet
  <2> QED
    BY <2>4, <2>5, <2>6 DEF Sound, Alike
<1> QED
  BY <1>5, <1>6
----------------------------------------------------------------------------
(* The answers.                                                            *)

\* r differs from s in what the queue's elements have been answered, and in
\* what the answers themselves set.
Marked(s, r) ==
    /\ r \in Device /\ Len(r.queue) = Len(s.queue)
    /\ \A i \in 1 .. Len(s.queue) : /\ r.queue[i].req = s.queue[i].req
                                    /\ (r.queue[i].own <=> s.queue[i].own)
                                    /\ s.queue[i].ready => r.queue[i].ready
    /\ r.tx = s.tx /\ (r.mlme <=> s.mlme) /\ r.class = s.class /\ r.asked = s.asked
    /\ (r.seeking <=> s.seeking) /\ (r.halted <=> s.halted) /\ (r.classB <=> s.classB) /\ (r.refused <=> s.refused)

LEMMA MarkedSound ==
    ASSUME NEW s, Sound(s), NEW r, Marked(s, r), (r.joined <=> s.joined)
    PROVE  Sound(r)
<1>1. /\ Len(s.queue) \in Nat /\ Len(r.queue) = Len(s.queue) /\ Len(s.queue) <= QueueLen
      /\ s.queue \in Seq(Elements) /\ r.queue \in Seq(Elements)
  BY DEF Sound, Typed, Device, Marked
<1>2. Typed(r) /\ NotInB(r) /\ Joining(r)
  BY <1>1 DEF Sound, Typed, NotInB, Joining, Marked
<1>3. MlmeSet(r)
  <2>1. r.queue # <<>> => s.queue # <<>>
    BY <1>1
  <2> QED
    BY <2>1 DEF Sound, MlmeSet, Marked
<1>4. Going(r, 0)
  <2> SUFFICES ASSUME r.classB /\ ~r.refused
               PROVE  \E i \in 1 .. Len(r.queue) : i > 0 /\ Leads(r.queue[i], r)
    BY DEF Going
  <2>1. s.classB /\ ~s.refused /\ Going(s, 0)
    BY DEF Marked, Sound
  <2>2. PICK i \in 1 .. Len(s.queue) : i > 0 /\ Leads(s.queue[i], s)
    BY <2>1 DEF Going
  <2>3. Leads(r.queue[i], r)
    BY <2>2 DEF Leads, Marked
  <2> QED
    BY <1>1, <2>2, <2>3
<1>5. \A i : JoinAfter(r, 0, i) => /\ JoinAfter(s, 0, i)
                                   /\ (r.queue[i].own <=> s.queue[i].own)
  BY <1>1 DEF JoinAfter, Marked
<1>6. JoinsWait(r, 0)
  BY <1>5 DEF Sound, JoinsWait, Marked
<1> QED
  BY <1>2, <1>3, <1>4, <1>6 DEF Sound

\* Without a join under way none waits for its answer.
LEMMA NoJoin ==
    ASSUME NEW s, Sound(s), s.tx # "join"
    PROVE  Answered(s)
<1>1. Len(s.queue) \in Nat
  BY DEF Sound, Typed, Device
<1>2. \A i : JoinUpTo(s, Len(s.queue), i) => JoinAfter(s, 0, i)
  BY <1>1 DEF JoinUpTo, JoinAfter
<1>3. \A i : ~JoinUpTo(s, Len(s.queue), i)
  BY <1>2 DEF Sound, JoinsWait
<1> QED
  BY <1>3 DEF Answered, JoinsAnswered, Sound

\* LoRaMacConfirmQueueSetStatusCmn.
LEMMA CmnDoes ==
    ASSUME NEW s, Typed(s), NEW r, r = SetStatusCmn(s)
    PROVE  /\ Marked(s, r) /\ Kept(s, r) /\ (r.joined <=> s.joined)
           /\ \A i \in 1 .. Len(s.queue) : ~s.queue[i].own => r.queue[i].ready
<1> DEFINE e(i) == [s.queue[i] EXCEPT !.ok = FALSE, !.ready = @ \/ ~s.queue[i].own]
           l == [i \in DOMAIN s.queue |-> e(i)]
<1>1. s \in Device /\ s.queue \in Seq(Elements) /\ Len(s.queue) \in Nat
      /\ DOMAIN s.queue = 1 .. Len(s.queue)
  BY DEF Typed, Device
<1>2. ASSUME NEW i \in 1 .. Len(s.queue)
      PROVE  /\ e(i) \in Elements /\ e(i).req = s.queue[i].req
             /\ (e(i).own <=> s.queue[i].own)
             /\ (e(i).ready <=> s.queue[i].ready \/ ~s.queue[i].own)
  <2>1. PICK f : f = s.queue[i]
    OBVIOUS
  <2>2. f \in Elements
    BY <1>1, <2>1
  <2>3. PICK b \in BOOLEAN : b <=> (f.ready \/ ~f.own)
    OBVIOUS
  <2>4. e(i) = [f EXCEPT !.ok = FALSE, !.ready = b]
    BY <2>1, <2>3, ZenonT(60)
  <2> HIDE DEF e
  <2>5. e(i) \in Elements
    BY <2>2, <2>4, ZenonT(60) DEF Elements
  <2>6. e(i).req = f.req /\ e(i).own = f.own /\ e(i).ready = b
    BY <2>2, <2>4 DEF Elements
  <2> QED
    BY <2>1, <2>3, <2>5, <2>6
<1>3. r = [s EXCEPT !.queue = l]
  BY ZenonT(60) DEF SetStatusCmn
<1> HIDE DEF e
<1>4. /\ l \in Seq(Elements) /\ Len(l) = Len(s.queue)
      /\ \A i \in 1 .. Len(s.queue) : l[i] = e(i)
  BY <1>1, <1>2
<1> HIDE DEF l
<1>5. r \in Device /\ r.queue = l
  <2>1. l \in Seq(Elements)
    BY <1>4
  <2> QED
    BY <1>1, <1>3, <2>1, QueueTyped, ZenonT(60)
<1>6. /\ r.tx = s.tx /\ r.mlme = s.mlme /\ r.class = s.class /\ r.asked = s.asked
      /\ r.seeking = s.seeking /\ r.halted = s.halted /\ r.classB = s.classB /\ r.refused = s.refused
      /\ r.joined = s.joined /\ Kept(s, r)
  BY <1>1, <1>3 DEF Device, Kept
<1>7. Marked(s, r)
  BY <1>2, <1>4, <1>5, <1>6 DEF Marked
<1> QED
  BY <1>2, <1>4, <1>5, <1>6, <1>7

\* LoRaMacConfirmQueueSetStatus.
LEMMA StatusDoes ==
    ASSUME NEW s, Typed(s), NEW q, NEW g \in BOOLEAN, NEW r, r = SetStatus(q, g, s)
    PROVE  /\ Marked(s, r) /\ Kept(s, r) /\ (r.joined <=> s.joined)
           /\ \A i \in 1 .. Len(s.queue) :
                 /\ s.queue[i].req = q
                 /\ \A j \in 1 .. Len(s.queue) : s.queue[j].req = q => i = j
                 => r.queue[i].ready /\ (r.queue[i].ok <=> g)
           /\ Queued(q, s) => \E k \in 1 .. Len(s.queue) :
                                  r.queue[k].req = q /\ r.queue[k].ready
<1>1. s \in Device /\ s.queue \in Seq(Elements) /\ Len(s.queue) \in Nat
      /\ DOMAIN s.queue = 1 .. Len(s.queue)
  BY DEF Typed, Device
<1>2. CASE ~Queued(q, s)
  <2>1. r = s
    BY <1>2 DEF SetStatus
  <2> QED
    BY <1>1, <1>2, <2>1 DEF Marked, Kept, Queued
<1>3. CASE Queued(q, s)
  <2> DEFINE S == {i \in 1 .. Len(s.queue) : s.queue[i].req = q}
  <2>1. \E k \in S : \A j \in S : k <= j
    <3>1. S \subseteq Nat /\ S # {}
      BY <1>1, <1>3 DEF Queued
    <3> HIDE DEF S
    <3> QED
      BY <3>1, Least
  <2>2. \E k \in DOMAIN s.queue : /\ s.queue[k].req = q
                                  /\ \A j \in DOMAIN s.queue : s.queue[j].req = q => k <= j
    BY <1>1, <2>1
  <2>3. /\ First(q, s) \in DOMAIN s.queue /\ s.queue[First(q, s)].req = q
    BY <2>2 DEF First
  <2>4. PICK k : k = First(q, s)
    OBVIOUS
  <2>5. k \in 1 .. Len(s.queue) /\ s.queue[k].req = q
    BY <1>1, <2>3, <2>4
  <2>6. r = [s EXCEPT !.queue[k].ok = g, !.queue[k].ready = TRUE]
    BY <1>3, <2>4 DEF SetStatus
  <2> DEFINE e == [s.queue[k] EXCEPT !.ok = g, !.ready = TRUE]
             l == [s.queue EXCEPT ![k] = e]
  <2>7. e \in Elements /\ e.req = q /\ e.own = s.queue[k].own /\ e.ready /\ e.ok = g
    <3>1. PICK f : f = s.queue[k]
      OBVIOUS
    <3>2. f \in Elements /\ e = [f EXCEPT !.ok = g, !.ready = TRUE]
      BY <1>1, <2>5, <3>1
    <3> HIDE DEF e
    <3>3. e \in Elements
      BY <3>2, ZenonT(60) DEF Elements
    <3>4. e.req = f.req /\ e.own = f.own /\ e.ready /\ e.ok = g
      BY <3>2 DEF Elements
    <3> QED
      BY <2>5, <3>1, <3>3, <3>4
  <2>8. r = [s EXCEPT !.queue = l]
    BY <1>1, <2>5, <2>6, ZenonT(60) DEF Device
  <2> HIDE DEF e
  <2>9. /\ l \in Seq(Elements) /\ Len(l) = Len(s.queue)
        /\ \A i \in 1 .. Len(s.queue) : l[i] = IF i = k THEN e ELSE s.queue[i]
    BY <1>1, <2>5, <2>7
  <2> HIDE DEF l
  <2>10. r \in Device /\ r.queue = l
    <3>1. l \in Seq(Elements)
      BY <2>9
    <3> QED
      BY <1>1, <2>8, <3>1, QueueTyped, ZenonT(60)
  <2>11. /\ r.tx = s.tx /\ r.mlme = s.mlme /\ r.class = s.class /\ r.asked = s.asked
         /\ r.seeking = s.seeking /\ r.halted = s.halted /\ r.classB = s.classB /\ r.refused = s.refused
         /\ r.joined = s.joined /\ Kept(s, r)
    BY <1>1, <2>8 DEF Device, Kept
  <2>12. Marked(s, r)
    BY <2>5, <2>7, <2>9, <2>10, <2>11 DEF Marked
  <2>13. ASSUME NEW i \in 1 .. Len(s.queue), s.queue[i].req = q,
                \A j \in 1 .. Len(s.queue) : s.queue[j].req = q => i = j
         PROVE  r.queue[i].ready /\ (r.queue[i].ok <=> g)
    BY <2>5, <2>7, <2>9, <2>10, <2>13
  <2>14. r.queue[k].req = q /\ r.queue[k].ready
    BY <2>5, <2>7, <2>9, <2>10
  <2> QED
    BY <2>5, <2>11, <2>12, <2>13, <2>14
<1> QED
  BY <1>2, <1>3
LEMMA MarkedTrans ==
    ASSUME NEW s, NEW r, NEW t, Typed(s), Marked(s, r), Marked(r, t)
    PROVE  Marked(s, t)
<1>1. Len(s.queue) \in Nat /\ Len(r.queue) = Len(s.queue)
  BY DEF Typed, Device, Marked
<1> QED
  BY <1>1 DEF Marked

LEMMA ClockedKept ==
    ASSUME NEW s \in Device, NEW t \in Device, Kept(s, t), t.tx = s.tx,
           NEW r, Kept(Clocked(t), r)
    PROVE  Kept(Clocked(s), r)
<1> DEFINE v == [s EXCEPT !.adr = s.prevAdr, !.trans = s.prevTrans, !.pending = FALSE]
           w == [t EXCEPT !.adr = t.prevAdr, !.trans = t.prevTrans, !.pending = FALSE]
<1>1. Kept(v, w)
  <2>1. /\ v.adr = s.prevAdr /\ v.trans = s.prevTrans /\ v.pending = FALSE
        /\ v.server = s.server /\ v.prevAdr = s.prevAdr /\ v.prevTrans = s.prevTrans
        /\ v.resync = s.resync /\ v.token = s.token /\ v.error = s.error
        /\ v.late = s.late
    BY DEF Device
  <2>2. /\ w.adr = t.prevAdr /\ w.trans = t.prevTrans /\ w.pending = FALSE
        /\ w.server = t.server /\ w.prevAdr = t.prevAdr /\ w.prevTrans = t.prevTrans
        /\ w.resync = t.resync /\ w.token = t.token /\ w.error = t.error
        /\ w.late = t.late
    BY DEF Device
  <2> HIDE DEF v, w
  <2> QED
    BY <2>1, <2>2 DEF Kept
<1> HIDE DEF v, w
<1>2. CASE s.tx = "frame" /\ s.pending
  <2>1. Clocked(s) = v
    BY <1>2 DEF Clocked, ClockSyncConfirm, v
  <2>2. Clocked(t) = w
    BY <1>2 DEF Clocked, ClockSyncConfirm, Kept, w
  <2> QED
    BY <1>1, <2>1, <2>2 DEF Kept
<1>3. CASE ~(s.tx = "frame" /\ s.pending)
  <2>1. Clocked(s) = s /\ Clocked(t) = t
    BY <1>3 DEF Clocked, ClockSyncConfirm, Kept
  <2> QED
    BY <2>1 DEF Kept
<1> QED
  BY <1>2, <1>3

\* The end of a frame or a join leaves the clock package as it says.
Ended(s, r) == /\ Sound(r) /\ Kept(Clocked(s), r)
               /\ r.asked \subseteq s.asked /\ (r.joined <=> s.joined)

LEMMA TimesOutDoes ==
    ASSUME NEW s, Sound(s), NEW r \in FrameTimesOut(s)
    PROVE  Ended(s, r)
<1>1. PICK t : t = SetStatusCmn(s)
  OBVIOUS
<1>2. r \in RequestEvents(t) /\ s.tx = "frame"
  BY <1>1 DEF FrameTimesOut
<1>3. Marked(s, t) /\ Kept(s, t) /\ (t.joined <=> s.joined)
  BY <1>1, CmnDoes DEF Sound
<1>4. Sound(t) /\ t.tx = s.tx /\ t.asked = s.asked
  BY <1>3, MarkedSound DEF Marked
<1>5. Answered(t)
  BY <1>2, <1>4, NoJoin
<1>6. Sound(r) /\ Kept(Clocked(t), r) /\ r.asked \subseteq t.asked /\ (r.joined <=> t.joined)
  BY <1>2, <1>5, RequestEventsDoes
<1>7. s \in Device /\ t \in Device
  BY <1>4 DEF Sound, Typed
<1>8. Kept(Clocked(s), r)
  BY <1>3, <1>4, <1>6, <1>7, ClockedKept
<1> QED
  BY <1>3, <1>4, <1>6, <1>8 DEF Ended

\* A join is answered: the device stays without a network, or has one, whose
\* settings are the first ones.
LEMMA JoinEndsDoes ==
    ASSUME NEW s, Sound(s), NEW r \in JoinEnds(s)
    PROVE  /\ Sound(r) /\ r.asked \subseteq s.asked /\ ~s.joined
           /\ \/ Kept(s, r) /\ ~r.joined
              \/ Kept([s EXCEPT !.trans = 1, !.server = 1], r) /\ r.joined
<1>1. s.tx = "join" /\ ~s.joined /\ ~s.seeking /\ s \in Device /\ Typed(s)
  BY DEF JoinEnds, Sound, Joining, Typed
<1>2. /\ Len(s.queue) \in Nat
      /\ \A i : JoinUpTo(s, Len(s.queue), i) => JoinAfter(s, 0, i)
  BY <1>1 DEF JoinUpTo, JoinAfter, Device
<1>3. CASE r \in RequestEvents(SetStatusCmn(s))
  <2>1. PICK t : t = SetStatusCmn(s)
    OBVIOUS
  <2>2. /\ Marked(s, t) /\ Kept(s, t) /\ (t.joined <=> s.joined)
        /\ \A i \in 1 .. Len(s.queue) : ~s.queue[i].own => t.queue[i].ready
    BY <1>1, <2>1, CmnDoes
  <2>3. Sound(t) /\ t.tx = s.tx /\ t.asked = s.asked /\ Len(t.queue) = Len(s.queue)
    BY <2>2, MarkedSound DEF Marked
  <2>4. \A i : JoinUpTo(t, Len(t.queue), i) => JoinUpTo(s, Len(s.queue), i)
    BY <2>2, <2>3 DEF JoinUpTo, Marked
  <2>5. JoinsAnswered(t, Len(t.queue))
    <3>1. \A i : JoinUpTo(t, Len(t.queue), i) => t.queue[i].ready
      BY <1>2, <2>2, <2>4 DEF Sound, JoinsWait, JoinUpTo
    <3>2. \A i, j : JoinUpTo(t, Len(t.queue), i) /\ JoinUpTo(t, Len(t.queue), j) => i = j
      BY <1>2, <2>4 DEF Sound, JoinsWait
    <3> QED
      BY <1>1, <2>2, <3>1, <3>2 DEF JoinsAnswered
  <2>6. Answered(t)
    BY <2>3, <2>5 DEF Answered, Sound
  <2>7. /\ Sound(r) /\ Kept(Clocked(t), r)
        /\ r.asked \subseteq t.asked /\ (r.joined <=> t.joined)
    BY <1>3, <2>1, <2>6, RequestEventsDoes
  <2>8. Clocked(t) = t
    BY <1>1, <2>3 DEF Clocked
  <2>9. Kept(s, r)
    BY <2>2, <2>7, <2>8 DEF Kept
  <2> QED
    BY <1>1, <2>2, <2>3, <2>7, <2>9
<1>4. CASE r \in RequestEvents(SetStatus("join", TRUE,
                                  [s EXCEPT !.joined = TRUE, !.trans = 1, !.server = 1]))
  <2> DEFINE v == [s EXCEPT !.joined = TRUE, !.trans = 1, !.server = 1]
             w == [s EXCEPT !.trans = 1, !.server = 1]
  <2>1. v \in Device
    <3>1. 1 \in NbTrans
      BY DEF NbTrans
    <3> QED
      BY <1>1, <3>1, ZenonT(60) DEF Device
  <2>2. /\ v.queue = s.queue /\ v.class = s.class /\ v.asked = s.asked /\ v.joined
        /\ v.seeking = s.seeking /\ v.halted = s.halted /\ v.classB = s.classB /\ v.refused = s.refused
        /\ v.tx = s.tx /\ v.mlme = s.mlme
    BY <1>1 DEF Device
  <2>3. Kept(w, v)
    <3>1. /\ v.adr = s.adr /\ v.trans = 1 /\ v.pending = s.pending
          /\ v.server = 1 /\ v.prevAdr = s.prevAdr /\ v.prevTrans = s.prevTrans
          /\ v.resync = s.resync /\ v.token = s.token /\ v.error = s.error
          /\ v.late = s.late
      BY <1>1 DEF Device
    <3>2. /\ w.adr = s.adr /\ w.trans = 1 /\ w.pending = s.pending
          /\ w.server = 1 /\ w.prevAdr = s.prevAdr /\ w.prevTrans = s.prevTrans
          /\ w.resync = s.resync /\ w.token = s.token /\ w.error = s.error
          /\ w.late = s.late
      BY <1>1 DEF Device
    <3> HIDE DEF v, w
    <3> QED
      BY <3>1, <3>2 DEF Kept
  <2>4. PICK g \in BOOLEAN : g
    OBVIOUS
  <2>5. PICK t : t = SetStatus("join", g, v)
    OBVIOUS
  <2>6. r \in RequestEvents(t)
    <3>1. t = SetStatus("join", TRUE, v)
      BY <2>4, <2>5 DEF SetStatus
    <3> QED
      BY <1>4, <3>1
  <2> HIDE DEF v, w
  <2>7. Typed(v) /\ NotInB(v) /\ MlmeSet(v) /\ Going(v, 0)
    BY <2>1, <2>2 DEF Sound, Typed, NotInB, MlmeSet, Going, Leads
  <2>8. /\ Marked(v, t) /\ Kept(v, t) /\ t.joined
        /\ \A i \in 1 .. Len(v.queue) :
              /\ v.queue[i].req = "join"
              /\ \A j \in 1 .. Len(v.queue) : v.queue[j].req = "join" => i = j
              => t.queue[i].ready /\ t.queue[i].ok
    <3>1. /\ Marked(v, t) /\ Kept(v, t) /\ (t.joined <=> v.joined)
          /\ \A i \in 1 .. Len(v.queue) :
                /\ v.queue[i].req = "join"
                /\ \A j \in 1 .. Len(v.queue) : v.queue[j].req = "join" => i = j
                => t.queue[i].ready /\ (t.queue[i].ok <=> g)
      BY <2>5, <2>7, StatusDoes
    <3> QED
      BY <2>2, <2>4, <3>1
  <2>9. /\ Len(t.queue) = Len(s.queue) /\ t.tx = "join" /\ t.asked = s.asked
        /\ Typed(t) /\ NotInB(t) /\ MlmeSet(t) /\ t \in Device
    <3>1. Len(t.queue) = Len(s.queue) /\ t.tx = "join" /\ t.asked = s.asked /\ t \in Device
      BY <1>1, <2>2, <2>8 DEF Marked
    <3>2. t.queue # <<>> => s.queue # <<>>
      BY <1>1, <3>1 DEF Device
    <3> QED
      BY <1>1, <2>2, <2>7, <2>8, <3>1, <3>2 DEF Marked, Typed, NotInB, MlmeSet
  <2>10. Going(t, 0)
    <3> SUFFICES ASSUME t.classB /\ ~t.refused
                 PROVE  \E i \in 1 .. Len(t.queue) : i > 0 /\ Leads(t.queue[i], t)
      BY DEF Going
    <3>1. v.classB /\ ~v.refused
      BY <2>8 DEF Marked
    <3>2. PICK i \in 1 .. Len(v.queue) : i > 0 /\ Leads(v.queue[i], v)
      BY <2>7, <3>1 DEF Going
    <3>3. Leads(t.queue[i], t)
      BY <2>8, <3>2 DEF Leads, Marked
    <3> QED
      BY <2>2, <2>9, <3>2, <3>3
  <2>11. \A i : JoinUpTo(t, Len(t.queue), i) => JoinUpTo(s, Len(s.queue), i)
    BY <2>2, <2>8, <2>9 DEF JoinUpTo, Marked
  <2>12. \A i, j : JoinUpTo(s, Len(s.queue), i) /\ JoinUpTo(s, Len(s.queue), j) => i = j
    BY <1>2 DEF Sound, JoinsWait
  <2>13. JoinsAnswered(t, Len(t.queue))
    <3>1. ASSUME NEW i, JoinUpTo(t, Len(t.queue), i) PROVE t.queue[i].ready /\ t.queue[i].ok
      <4>1. JoinUpTo(s, Len(s.queue), i)
        BY <2>11, <3>1
      <4>2. \A j \in 1 .. Len(v.queue) : v.queue[j].req = "join" => i = j
        BY <2>2, <2>12, <4>1 DEF JoinUpTo
      <4>3. i \in 1 .. Len(v.queue) /\ v.queue[i].req = "join"
        BY <2>2, <4>1 DEF JoinUpTo
      <4> QED
        BY <2>8, <4>2, <4>3
    <3> QED
      BY <2>11, <2>12, <3>1 DEF JoinsAnswered
  <2>14. Answered(t)
    BY <2>9, <2>10, <2>13 DEF Answered
  <2>15. /\ Sound(r) /\ Kept(Clocked(t), r)
         /\ r.asked \subseteq t.asked /\ (r.joined <=> t.joined)
    BY <2>6, <2>14, RequestEventsDoes
  <2>16. Clocked(t) = t
    BY <2>9 DEF Clocked
  <2>17. Kept(w, r)
    BY <2>3, <2>8, <2>15, <2>16 DEF Kept
  <2> QED
    BY <1>1, <2>8, <2>9, <2>15, <2>17 DEF w
<1> QED
  BY <1>1, <1>3, <1>4 DEF JoinEnds
\* The search for a beacon is over, and its confirmation, if it was asked for,
\* is ready: t is what the answers are made for.
SearchOver(s, t) ==
    /\ t \in Device /\ t.tx = s.tx /\ (t.mlme <=> s.mlme) /\ t.class = s.class
    /\ t.asked = s.asked /\ (t.classB <=> s.classB) /\ (t.refused <=> s.refused)
    /\ (t.joined <=> s.joined) /\ Kept(s, t)
    /\ Len(t.queue) = Len(s.queue)
    /\ \A i \in 1 .. Len(s.queue) : /\ t.queue[i].req = s.queue[i].req
                                    /\ s.queue[i].ready => t.queue[i].ready
    /\ s.mlme /\ Queued("acquisition", s) =>
          \E k \in 1 .. Len(s.queue) : t.queue[k].req = "acquisition" /\ t.queue[k].ready

LEMMA SearchOverDoes ==
    ASSUME NEW s, Sound(s), s.tx # "join", NEW t, SearchOver(s, t)
    PROVE  /\ Answered(t)
           /\ \A r \in RequestEvents(t) : Ended(s, r)
<1>1. /\ s \in Device /\ Len(s.queue) \in Nat /\ s.queue \in Seq(Elements)
      /\ t.queue \in Seq(Elements) /\ t \in Device
      /\ DOMAIN s.queue = 1 .. Len(s.queue)
      /\ Len(t.queue) = Len(s.queue)
  BY DEF Sound, Typed, Device, SearchOver
<1>2. Typed(t) /\ NotInB(t)
  BY <1>1 DEF Sound, Typed, NotInB, SearchOver
<1>3. MlmeSet(t)
  <2>1. t.queue # <<>> => s.queue # <<>>
    BY <1>1
  <2> QED
    BY <2>1 DEF Sound, MlmeSet, SearchOver
<1>4. Going(t, 0)
  <2> SUFFICES ASSUME t.classB /\ ~t.refused
               PROVE  \E i \in 1 .. Len(t.queue) : i > 0 /\ Leads(t.queue[i], t)
    BY DEF Going
  <2>1. s.classB /\ ~s.refused /\ Going(s, 0)
    BY DEF SearchOver, Sound
  <2>2. PICK i \in 1 .. Len(s.queue) : i > 0 /\ Leads(s.queue[i], s)
    BY <2>1 DEF Going
  <2>3. CASE s.queue[i].req # "acquisition"
    <3>1. Leads(t.queue[i], t)
      BY <2>2, <2>3 DEF Leads, SearchOver
    <3> QED
      BY <1>1, <2>2, <3>1
  <2>4. CASE s.queue[i].req = "acquisition"
    <3>1. Queued("acquisition", s)
      BY <1>1, <2>2, <2>4 DEF Queued
    <3>2. s.mlme
      BY <1>1, <2>2 DEF Sound, MlmeSet
    <3>3. PICK k \in 1 .. Len(s.queue) : t.queue[k].req = "acquisition" /\ t.queue[k].ready
      BY <3>1, <3>2 DEF SearchOver
    <3>4. Leads(t.queue[k], t) /\ k > 0
      BY <3>3 DEF Leads
    <3> QED
      BY <1>1, <3>3, <3>4
  <2> QED
    BY <2>3, <2>4
<1>5. JoinsAnswered(t, Len(t.queue))
  <2>1. \A i : JoinUpTo(t, Len(t.queue), i) => JoinAfter(s, 0, i)
    BY <1>1 DEF JoinUpTo, JoinAfter, SearchOver
  <2>2. \A i : ~JoinUpTo(t, Len(t.queue), i)
    BY <2>1 DEF Sound, JoinsWait
  <2> QED
    BY <2>2 DEF JoinsAnswered
<1>6. Answered(t)
  BY <1>2, <1>3, <1>4, <1>5 DEF Answered
<1>7. ASSUME NEW r \in RequestEvents(t) PROVE Ended(s, r)
  <2>1. /\ Sound(r) /\ Kept(Clocked(t), r)
        /\ r.asked \subseteq t.asked /\ (r.joined <=> t.joined)
    BY <1>6, RequestEventsDoes
  <2>2. Kept(s, t) /\ t.tx = s.tx
    BY DEF SearchOver
  <2>3. Kept(Clocked(s), r)
    BY <1>1, <2>1, <2>2, ClockedKept
  <2> QED
    BY <2>1, <2>3 DEF Ended, SearchOver
<1> QED
  BY <1>6, <1>7

LEMMA FoundDoes ==
    ASSUME NEW s, Sound(s), NEW r \in BeaconFound(s)
    PROVE  Ended(s, r)
<1> DEFINE x == [s EXCEPT !.locked = TRUE, !.seeking = FALSE]
<1>1. s.tx = "none" /\ s \in Device /\ Len(s.queue) \in Nat /\ Typed(s)
  <2>1. ~Busy(s)
    BY DEF BeaconFound
  <2>2. s \in Device /\ Len(s.queue) \in Nat /\ Typed(s)
    BY DEF Sound, Typed, Device
  <2> QED
    BY <2>1, <2>2 DEF Busy
<1>2. x \in Device
  BY <1>1, ZenonT(60) DEF Device
<1>3. /\ x.tx = s.tx /\ x.mlme = s.mlme /\ x.class = s.class /\ x.asked = s.asked
      /\ x.classB = s.classB /\ x.refused = s.refused /\ x.joined = s.joined
      /\ x.queue = s.queue /\ Kept(s, x)
  BY <1>1 DEF Device, Kept
<1>4. PICK g \in BOOLEAN : g
  OBVIOUS
<1>5. PICK t : t = IF x.mlme THEN SetStatus("acquisition", g, x) ELSE x
  OBVIOUS
<1>6. r \in RequestEvents(t)
  <2>1. BeaconFound(s) = RequestEvents(IF x.mlme THEN SetStatus("acquisition", TRUE, x) ELSE x)
    <3>1. s.seeking /\ ~Busy(s)
      BY DEF BeaconFound
    <3> QED
      BY <3>1 DEF BeaconFound
  <2>2. SetStatus("acquisition", TRUE, x) = SetStatus("acquisition", g, x)
    BY <1>4 DEF SetStatus
  <2> QED
    BY <1>5, <2>1, <2>2
<1> HIDE DEF x
<1>7. SearchOver(s, t)
  <2>1. CASE x.mlme
    <3>1. t = SetStatus("acquisition", g, x) /\ Typed(x)
      BY <1>1, <1>2, <1>3, <1>5, <2>1 DEF Typed
    <3>2. /\ Marked(x, t) /\ Kept(x, t) /\ (t.joined <=> x.joined)
          /\ Queued("acquisition", x) => \E k \in 1 .. Len(x.queue) :
                  t.queue[k].req = "acquisition" /\ t.queue[k].ready
      BY <3>1, StatusDoes
    <3>3. Queued("acquisition", s) <=> Queued("acquisition", x)
      BY <1>3 DEF Queued
    <3> QED
      BY <1>3, <3>2, <3>3 DEF SearchOver, Marked, Kept
  <2>2. CASE ~x.mlme
    <3>1. t = x
      BY <1>5, <2>2
    <3> QED
      BY <1>2, <1>3, <2>2, <3>1 DEF SearchOver
  <2> QED
    BY <2>1, <2>2
<1> QED
  BY <1>1, <1>6, <1>7, SearchOverDoes

LEMMA ResetDoes ==
    ASSUME NEW s \in Device, NEW r, r = ClassBReset(s)
    PROVE  /\ r \in Device
           /\ r.tx = s.tx /\ r.mlme = s.mlme /\ r.class = s.class /\ r.asked = s.asked
           /\ r.classB = s.classB /\ r.refused = s.refused /\ r.joined = s.joined
           /\ r.queue = s.queue /\ Kept(s, r)
<1>1. [s EXCEPT !.locked = FALSE, !.seeking = FALSE, !.slot = FALSE] \in Device
  BY ZenonT(60) DEF Device
<1>2. r \in Device
  BY <1>1 DEF ClassBReset
<1> QED
  BY <1>2 DEF ClassBReset, Device, Kept

LEMMA NoBeaconDoes ==
    ASSUME NEW s, Sound(s), NEW r \in BeaconLost(s)
    PROVE  Ended(s, r)
<1>1. s.tx # "join" /\ s \in Device /\ Len(s.queue) \in Nat /\ Typed(s)
  <2>1. IF s.locked THEN ~Busy(s) ELSE s.seeking
    BY DEF BeaconLost
  <2>2. s.tx # "join"
    BY <2>1 DEF Busy, Sound, Joining
  <2>3. s \in Device /\ Len(s.queue) \in Nat /\ Typed(s)
    BY DEF Sound, Typed, Device
  <2> QED
    BY <2>2, <2>3
<1>2. CASE s.mlme
  <2>1. PICK g \in BOOLEAN : ~g
    OBVIOUS
  <2>2. PICK x : x = SetStatus("acquisition", g, s)
    OBVIOUS
  <2>3. PICK t : t = ClassBReset(x)
    OBVIOUS
  <2>4. r \in RequestEvents(t)
    <3>1. SetStatus("acquisition", FALSE, s) = SetStatus("acquisition", g, s)
      BY <2>1 DEF SetStatus
    <3>2. r \in RequestEvents(ClassBReset(SetStatus("acquisition", FALSE, s)))
      BY <1>2 DEF BeaconLost
    <3> QED
      BY <2>2, <2>3, <3>1, <3>2
  <2>5. /\ Marked(s, x) /\ Kept(s, x) /\ (x.joined <=> s.joined)
        /\ Queued("acquisition", s) => \E k \in 1 .. Len(s.queue) :
                x.queue[k].req = "acquisition" /\ x.queue[k].ready
    BY <1>1, <2>2, StatusDoes
  <2>6. SearchOver(s, t)
    <3>1. x \in Device
      BY <2>5 DEF Marked
    <3>2. /\ t \in Device
          /\ t.tx = x.tx /\ t.mlme = x.mlme /\ t.class = x.class /\ t.asked = x.asked
          /\ t.classB = x.classB /\ t.refused = x.refused /\ t.joined = x.joined
          /\ t.queue = x.queue /\ Kept(x, t)
      BY <2>3, <3>1, ResetDoes
    <3> QED
      BY <2>5, <3>2 DEF SearchOver, Marked, Kept
  <2> QED
    BY <1>1, <2>4, <2>6, SearchOverDoes
<1>3. CASE ~s.mlme
  <2>1. PICK t : t = ClassBReset(s)
    OBVIOUS
  <2>2. PICK u \in RequestEvents(t) : r = BeaconLostIndication(u)
    BY <1>3, <2>1 DEF BeaconLost
  <2>3. SearchOver(s, t)
    <3>1. /\ t \in Device
          /\ t.tx = s.tx /\ t.mlme = s.mlme /\ t.class = s.class /\ t.asked = s.asked
          /\ t.classB = s.classB /\ t.refused = s.refused /\ t.joined = s.joined
          /\ t.queue = s.queue /\ Kept(s, t)
      BY <1>1, <2>1, ResetDoes
    <3> QED
      BY <1>3, <3>1 DEF SearchOver
  <2>4. Ended(s, u)
    BY <1>1, <2>2, <2>3, SearchOverDoes
  <2>5. Typed(u) /\ NotInB(u) /\ Sound(u)
    BY <2>4 DEF Ended, Sound
  <2>6. Handled(u, r)
    BY <2>2, <2>5, LostDoes
  <2>7. Sound(r)
    BY <2>5, <2>6, EffectSound DEF Handled
  <2>8. Kept(u, r) /\ r.asked \subseteq u.asked /\ (r.joined <=> u.joined)
    BY <2>6 DEF Handled, Effect
  <2> QED
    BY <2>4, <2>7, <2>8 DEF Ended, Kept
<1> QED
  BY <1>2, <1>3
\* The settings of adaptive data rate and what is remembered of them.
Settings(s, r) == /\ r.adr = s.adr /\ r.trans = s.trans /\ r.server = s.server
                  /\ r.pending = s.pending /\ r.prevAdr = s.prevAdr
                  /\ r.prevTrans = s.prevTrans

\* One answer and what it sets.
LEMMA AnswerDoes ==
    ASSUME NEW s, Sound(s), NEW q, NEW x, x = SetStatus(q, TRUE, s)
    PROVE  /\ Sound(x) /\ x \in Device /\ x.tx = s.tx /\ x.asked = s.asked
           /\ (x.joined <=> s.joined) /\ Kept(s, x)
           /\ \A k : Queued(k, s) <=> Queued(k, x)
<1>1. PICK g \in BOOLEAN : g
  OBVIOUS
<1>2. x = SetStatus(q, g, s)
  BY <1>1 DEF SetStatus
<1>3. Marked(s, x) /\ Kept(s, x) /\ (x.joined <=> s.joined)
  BY <1>2, StatusDoes DEF Sound
<1>4. Sound(x)
  BY <1>3, MarkedSound
<1>5. \A k : Queued(k, s) <=> Queued(k, x)
  <2>1. /\ DOMAIN s.queue = 1 .. Len(s.queue) /\ DOMAIN x.queue = 1 .. Len(x.queue)
        /\ Len(x.queue) = Len(s.queue)
    <3>1. s \in Device /\ x \in Device /\ Len(x.queue) = Len(s.queue)
      BY <1>3 DEF Sound, Typed, Marked
    <3>2. \A z \in Device : DOMAIN z.queue = 1 .. Len(z.queue)
      BY DEF Device
    <3> QED
      BY <3>1, <3>2, ZenonT(60)
  <2> QED
    BY <1>3, <2>1 DEF Queued, Marked
<1> QED
  BY <1>3, <1>4, <1>5 DEF Marked

LEMMA CommandsDo ==
    ASSUME NEW s, Sound(s), NEW d, d.trans \in NbTrans, NEW m, m = MacCommands(d, s)
    PROVE  /\ Sound(m) /\ m.tx = s.tx /\ m.asked = s.asked /\ (m.joined <=> s.joined)
           /\ m.adr = s.adr /\ m.pending = s.pending /\ m.prevAdr = s.prevAdr
           /\ m.prevTrans = s.prevTrans /\ m.resync = s.resync /\ m.token = s.token
           /\ m.error = (IF Exact(d, s) THEN 0 ELSE s.error)
           /\ m.late <=> s.late \/ (Exact(d, s) /\ Outdated(s))
           /\ IF d.trans = s.server THEN m.trans = s.trans /\ m.server = s.server
              ELSE m.trans = d.trans /\ m.server = d.trans
<1>1. PICK r : r = IF d.second THEN SetStatusCmn(s) ELSE s
  OBVIOUS
<1>2. PICK x : x = SetStatus("time", TRUE, r)
  OBVIOUS
<1>3. PICK t : t = IF Exact(d, r)
                 THEN [x EXCEPT !.error = 0, !.late = @ \/ Outdated(s)] ELSE r
  OBVIOUS
<1>4. PICK y : y = SetStatus("slot", TRUE, t)
  OBVIOUS
<1>5. PICK u : u = IF "slot" \in d.answers /\ Queued("slot", t)
                   THEN [y EXCEPT !.slot = TRUE] ELSE t
  OBVIOUS
<1>6. m = IF d.trans = s.server THEN u
          ELSE [u EXCEPT !.trans = d.trans, !.server = d.trans]
  BY <1>1, <1>2, <1>3, <1>4, <1>5 DEF MacCommands
<1>7. s \in Device
  BY DEF Sound, Typed
<1>8. /\ Sound(r) /\ r \in Device /\ r.tx = s.tx /\ r.asked = s.asked
      /\ (r.joined <=> s.joined) /\ Kept(s, r)
      /\ Exact(d, s) <=> Exact(d, r)
  <2>1. CASE d.second
    <3>1. Marked(s, r) /\ Kept(s, r) /\ (r.joined <=> s.joined)
      BY <1>1, <2>1, CmnDoes DEF Sound
    <3>2. Sound(r)
      BY <3>1, MarkedSound
    <3>3. /\ DOMAIN s.queue = 1 .. Len(s.queue) /\ DOMAIN r.queue = 1 .. Len(r.queue)
          /\ Len(r.queue) = Len(s.queue)
      BY <1>7, <3>1 DEF Device, Marked
    <3>4. Exact(d, s) <=> Exact(d, r)
      BY <3>1, <3>3 DEF Exact, Queued, Marked
    <3> QED
      BY <3>1, <3>2, <3>4 DEF Marked
  <2>2. CASE ~d.second
    BY <1>1, <1>7, <2>2 DEF Kept
  <2> QED
    BY <2>1, <2>2
<1>9. /\ Sound(t) /\ t \in Device /\ t.tx = s.tx /\ t.asked = s.asked
      /\ (t.joined <=> s.joined) /\ Settings(s, t) /\ t.resync = s.resync
      /\ t.token = s.token /\ t.error = (IF Exact(d, s) THEN 0 ELSE s.error)
      /\ t.late <=> s.late \/ (Exact(d, s) /\ Outdated(s))
  <2>1. CASE Exact(d, r)
    <3>1. /\ Sound(x) /\ x \in Device /\ x.tx = s.tx /\ x.asked = s.asked
          /\ (x.joined <=> s.joined) /\ Kept(s, x)
      <4>1. /\ Sound(x) /\ x \in Device /\ x.tx = r.tx /\ x.asked = r.asked
            /\ (x.joined <=> r.joined) /\ Kept(r, x)
        BY <1>2, <1>8, AnswerDoes
      <4> QED
        BY <1>8, <4>1 DEF Kept
    <3>2. PICK b \in BOOLEAN : b <=> (x.late \/ Outdated(s))
      OBVIOUS
    <3>20. t = [x EXCEPT !.error = 0, !.late = b]
      BY <1>3, <2>1, <3>2, ZenonT(60)
    <3>3. t \in Device
      <4>1. 0 \in Errors
        BY DEF Errors
      <4> QED
        BY <3>1, <3>20, <4>1, ZenonT(60) DEF Device
    <3>4. Alike(x, t) /\ t.tx = x.tx /\ t.mlme = x.mlme /\ t.error = 0
          /\ t.late = b /\ Settings(x, t) /\ t.resync = x.resync /\ t.token = x.token
      BY <3>1, <3>20 DEF Alike, Settings, Device
    <3>5. Sound(t)
      BY <3>1, <3>3, <3>4, AlikeDoes DEF Sound, MlmeSet, Alike
    <3> QED
      BY <1>8, <2>1, <3>1, <3>2, <3>3, <3>4, <3>5 DEF Alike, Settings, Kept
  <2>2. CASE ~Exact(d, r)
    BY <1>3, <1>8, <2>2 DEF Kept, Settings
  <2> QED
    BY <2>1, <2>2
<1>10. /\ Sound(u) /\ u \in Device /\ u.tx = s.tx /\ u.asked = s.asked
       /\ (u.joined <=> s.joined) /\ Settings(s, u) /\ u.resync = s.resync
       /\ u.token = s.token /\ u.error = (IF Exact(d, s) THEN 0 ELSE s.error)
       /\ u.late <=> s.late \/ (Exact(d, s) /\ Outdated(s))
  <2>1. CASE "slot" \in d.answers /\ Queued("slot", t)
    <3>1. /\ Sound(y) /\ y \in Device /\ y.tx = t.tx /\ y.asked = t.asked
          /\ (y.joined <=> t.joined) /\ Kept(t, y)
      BY <1>4, <1>9, AnswerDoes
    <3>2. u = [y EXCEPT !.slot = TRUE]
      BY <1>5, <2>1
    <3>3. u \in Device
      BY <3>1, <3>2, ZenonT(60) DEF Device
    <3>4. Alike(y, u) /\ u.tx = y.tx /\ u.mlme = y.mlme /\ Kept(y, u)
      BY <3>1, <3>2 DEF Alike, Kept, Device
    <3>5. Sound(u)
      BY <3>1, <3>3, <3>4, AlikeDoes DEF Sound, MlmeSet, Alike
    <3> QED
      BY <1>9, <3>1, <3>3, <3>4, <3>5 DEF Alike, Settings, Kept
  <2>2. CASE ~("slot" \in d.answers /\ Queued("slot", t))
    BY <1>5, <1>9, <2>2
  <2> QED
    BY <2>1, <2>2
<1>11. CASE d.trans = s.server
  BY <1>6, <1>10, <1>11 DEF Settings
<1>12. CASE d.trans # s.server
  <2>1. m = [u EXCEPT !.trans = d.trans, !.server = d.trans]
    BY <1>6, <1>12
  <2>2. m \in Device
    BY <1>10, <2>1, ZenonT(60) DEF Device
  <2>3. /\ Alike(u, m) /\ m.tx = u.tx /\ m.mlme = u.mlme /\ m.adr = u.adr
        /\ m.pending = u.pending /\ m.prevAdr = u.prevAdr /\ m.prevTrans = u.prevTrans
        /\ m.resync = u.resync /\ m.token = u.token /\ m.error = u.error
        /\ m.late = u.late
        /\ m.trans = d.trans /\ m.server = d.trans
    BY <1>10, <2>1 DEF Alike, Device
  <2>4. Sound(m)
    BY <1>10, <2>2, <2>3, AlikeDoes DEF Sound, MlmeSet, Alike
  <2> QED
    BY <1>10, <1>12, <2>3, <2>4 DEF Alike, Settings
<1> QED
  BY <1>11, <1>12
----------------------------------------------------------------------------
(* The requests of the application server's clock synchronisation.         *)

\* An answer that the device would apply is one for the clock as it is, and is
\* not followed by another it would apply after it.
Answerable(s) ==
    /\ \A a \in s.asked : a.token = s.token => s.error - a.error \in Errors
    /\ \A a, b \in s.asked : ~(a.token = s.token /\ b.token = (s.token + 1) % Tokens)

\* What a step does that neither asks nor is answered.
Silent(s, r) == /\ r.token = s.token /\ r.error = s.error /\ r.late = s.late
                /\ r.asked \subseteq s.asked

LEMMA SilentDoes ==
    ASSUME NEW s, Answerable(s), NEW r, Silent(s, r)
    PROVE  Answerable(r)
BY DEF Answerable, Silent

LEMMA KeptSettings ==
    ASSUME NEW s, NEW r, Kept(s, r)
    PROVE  /\ Settings(s, r) /\ r.resync = s.resync
           /\ r.asked \subseteq s.asked => Silent(s, r)
BY DEF Kept, Settings, Silent

LEMMA FlagDoes ==
    ASSUME NEW s, Sound(s), NEW b \in BOOLEAN, NEW r, r = [s EXCEPT !.flush = b]
    PROVE  Sound(r) /\ Kept(s, r) /\ r.asked = s.asked /\ (r.joined <=> s.joined)
<1>1. s \in Device
  BY DEF Sound, Typed
<1>2. r \in Device
  BY <1>1, ZenonT(60) DEF Device
<1>3. Alike(s, r) /\ r.tx = s.tx /\ r.mlme = s.mlme /\ Kept(s, r)
  BY <1>1 DEF Alike, Kept, Device
<1>4. Sound(r)
  BY <1>2, <1>3, AlikeDoes DEF Sound, MlmeSet, Alike
<1> QED
  BY <1>3, <1>4 DEF Alike

LEMMA ResyncDoes ==
    ASSUME NEW s, Sound(s), NEW n \in 0 .. MaxResync, NEW r, r = [s EXCEPT !.resync = n]
    PROVE  /\ Sound(r) /\ Settings(s, r) /\ Silent(s, r) /\ (r.joined <=> s.joined)
           /\ r.tx = s.tx /\ r.resync = n
<1>1. s \in Device
  BY DEF Sound, Typed
<1>2. r \in Device
  BY <1>1 DEF Device
<1>3. /\ Alike(s, r) /\ r.tx = s.tx /\ r.mlme = s.mlme /\ Settings(s, r)
      /\ Silent(s, r) /\ r.resync = n
  BY <1>1 DEF Alike, Settings, Silent, Device
<1>4. Sound(r)
  BY <1>2, <1>3, AlikeDoes DEF Sound, MlmeSet, Alike
<1> QED
  BY <1>3, <1>4 DEF Alike

\* The answer of the application server that a device applies.
Applies(d, exact, s) == d.kind = "answer" /\ ~exact /\ d.token = s.token

LEMMA AnsDoes ==
    ASSUME NEW s, Sound(s), NEW data, NEW d, d.data = data, NEW exact \in BOOLEAN,
           ~exact /\ data.token = s.token => s.error - data.error \in Errors,
           NEW r, r = AppTimeAns(d, exact, s)
    PROVE  /\ Sound(r) /\ Settings(s, r) /\ (r.joined <=> s.joined) /\ r.resync = 0
           /\ IF exact \/ data.token # s.token THEN Silent(s, r)
              ELSE /\ r.error = s.error - data.error /\ r.token = (s.token + 1) % Tokens
                   /\ r.asked = s.asked
<1>1. s \in Device
  BY DEF Sound, Typed
<1>2. CASE exact \/ data.token # s.token
  <2>1. r = [s EXCEPT !.resync = 0] /\ 0 \in 0 .. MaxResync
    BY <1>2, LmHandlerAssumption DEF AppTimeAns
  <2> QED
    BY <1>2, <2>1, ResyncDoes
<1>3. CASE ~(exact \/ data.token # s.token)
  <2> DEFINE e == s.error - data.error
             k == (s.token + 1) % Tokens
  <2>1. e \in Errors /\ k \in 0 .. Tokens - 1 /\ 0 \in 0 .. MaxResync
    <3>1. s.token \in 0 .. Tokens - 1 /\ Tokens \in Nat /\ Tokens > 0 /\ MaxResync \in Nat
      BY <1>1, LmHandlerAssumption DEF Device
    <3> QED
      BY <1>3, <3>1
  <2>2. r = [s EXCEPT !.resync = 0, !.error = e, !.token = k, !.late = FALSE]
    BY <1>1, <1>3 DEF AppTimeAns, Device
  <2> HIDE DEF e, k
  <2>3. r \in Device
    <3>1. [s EXCEPT !.resync = 0] \in Device
      BY <1>1, <2>1 DEF Device
    <3>2. [[s EXCEPT !.resync = 0] EXCEPT !.error = e] \in Device
      BY <2>1, <3>1, ZenonT(60) DEF Device
    <3>3. [[[s EXCEPT !.resync = 0] EXCEPT !.error = e] EXCEPT !.token = k] \in Device
      BY <2>1, <3>2, ZenonT(60) DEF Device
    <3>4. [[[[s EXCEPT !.resync = 0] EXCEPT !.error = e] EXCEPT !.token = k]
             EXCEPT !.late = FALSE] \in Device
      BY <3>3, ZenonT(60) DEF Device
    <3> QED
      BY <2>2, <3>4
  <2>4. /\ Alike(s, r) /\ r.tx = s.tx /\ r.mlme = s.mlme /\ Settings(s, r)
        /\ r.error = e /\ r.token = k /\ r.resync = 0
    BY <1>1, <2>2 DEF Alike, Settings, Device
  <2>5. Sound(r)
    BY <2>3, <2>4, AlikeDoes DEF Sound, MlmeSet, Alike
  <2> QED
    BY <1>3, <2>4, <2>5 DEF Alike, e, k
<1> QED
  BY <1>2, <1>3

\* McpsIndication.
LEMMA McpsDoes ==
    ASSUME NEW s, Sound(s), NEW d, NEW exact \in BOOLEAN,
           Applies(d.data, exact, s) => s.error - d.data.error \in Errors,
           NEW r \in McpsIndication(d, exact, s)
    PROVE  /\ Sound(r) /\ Settings(s, r) /\ (s.joined => r.joined)
           /\ s.resync = 0 /\ d.data.kind # "resync" => r.resync = 0
           /\ IF ~Applies(d.data, exact, s) THEN Silent(s, r)
              ELSE /\ r.error = s.error - d.data.error /\ r.token = (s.token + 1) % Tokens
                   /\ r.asked = s.asked
<1> DEFINE T == CASE d.data.kind = "answer" -> {AppTimeAns(d, exact, s)}
                  [] d.data.kind = "resync" -> {[s EXCEPT !.resync = MaxResync]}
                  [] d.data.kind = "session" -> Send({}, s)
                  [] OTHER -> {s}
<1>1. PICK t \in T : r = [t EXCEPT !.flush = @ \/ d.more]
  BY DEF McpsIndication
<1>2. /\ Sound(t) /\ Settings(s, t) /\ (s.joined => t.joined)
      /\ s.resync = 0 /\ d.data.kind # "resync" => t.resync = 0
      /\ IF ~Applies(d.data, exact, s) THEN Silent(s, t)
         ELSE /\ t.error = s.error - d.data.error /\ t.token = (s.token + 1) % Tokens
              /\ t.asked = s.asked
  <2>1. CASE d.data.kind = "answer"
    <3>1. t = AppTimeAns(d, exact, s)
      BY <1>1, <2>1
    <3> HIDE DEF T
    <3>2. ~exact /\ d.data.token = s.token => s.error - d.data.error \in Errors
      BY <2>1 DEF Applies
    <3>3. /\ Sound(t) /\ Settings(s, t) /\ (t.joined <=> s.joined) /\ t.resync = 0
          /\ IF exact \/ d.data.token # s.token THEN Silent(s, t)
             ELSE /\ t.error = s.error - d.data.error /\ t.token = (s.token + 1) % Tokens
                  /\ t.asked = s.asked
      BY <3>1, <3>2, AnsDoes
    <3> QED
      BY <2>1, <3>3 DEF Applies
  <2>2. CASE d.data.kind = "resync"
    <3>1. t = [s EXCEPT !.resync = MaxResync] /\ ~Applies(d.data, exact, s)
      BY <1>1, <2>2 DEF Applies
    <3>2. MaxResync \in 0 .. MaxResync
      BY LmHandlerAssumption
    <3> QED
      BY <2>2, <3>1, <3>2, ResyncDoes
  <2>3. CASE d.data.kind = "session"
    <3>1. t \in Send({}, s) /\ ~Applies(d.data, exact, s)
      BY <1>1, <2>3 DEF Applies
    <3>2. Handled(s, t)
      BY <3>1, SendNothing DEF Sound
    <3>3. Sound(t)
      BY <3>2, EffectSound DEF Handled
    <3> QED
      BY <3>1, <3>2, <3>3, KeptSettings DEF Handled
  <2>4. CASE d.data.kind \notin {"answer", "resync", "session"}
    <3>1. t = s /\ ~Applies(d.data, exact, s)
      BY <1>1, <2>4 DEF Applies
    <3> QED
      BY <3>1 DEF Settings, Silent
  <2> QED
    BY <2>1, <2>2, <2>3, <2>4
<1>3. PICK b \in BOOLEAN : b <=> (t.flush \/ d.more)
  OBVIOUS
<1>4. r = [t EXCEPT !.flush = b]
  BY <1>1, <1>3
<1>5. Sound(r) /\ Kept(t, r) /\ r.asked = t.asked /\ (r.joined <=> t.joined)
  BY <1>2, <1>4, FlagDoes
<1>6. /\ Settings(s, r) /\ (s.joined => r.joined)
      /\ s.resync = 0 /\ d.data.kind # "resync" => r.resync = 0
  BY <1>2, <1>5 DEF Kept, Settings
<1>7. IF ~Applies(d.data, exact, s) THEN Silent(s, r)
      ELSE /\ r.error = s.error - d.data.error /\ r.token = (s.token + 1) % Tokens
           /\ r.asked = s.asked
  BY <1>2, <1>5 DEF Kept, Silent
<1> QED
  BY <1>5, <1>6, <1>7
\* While a request is pending, what adaptive data rate was is remembered, with
\* the number of transmissions that the server set.
Restored(s) == /\ s.pending => ~s.adr /\ s.prevAdr /\ s.prevTrans = s.server /\ s.joined
               /\ ~s.pending => s.adr /\ s.trans = s.server

\* A request that the device would take the answer of was sent by the clock it
\* has, unless DeviceTimeAns has set it since.
Right(s) == ~s.late => \A a \in s.asked : a.token = s.token => a.error = s.error

\* The clock is left as it was or set right.
SetRight(s, r) == ~s.late => r.error \in {s.error, 0}

\* Nothing is asked of the application server.
Idle(s) == ~s.pending /\ s.resync = 0

LEMMA RestoredOn ==
    ASSUME NEW s, Restored(s), NEW r, Settings(s, r), s.joined => r.joined
    PROVE  Restored(r)
BY DEF Restored, Settings

LEMMA RestoredEnd ==
    ASSUME NEW s \in Device, Restored(s), NEW r, Settings(Clocked(s), r), r.joined <=> s.joined
    PROVE  Restored(r)
<1> DEFINE w == [s EXCEPT !.adr = s.prevAdr, !.trans = s.prevTrans, !.pending = FALSE]
<1>1. /\ w.adr = s.prevAdr /\ w.trans = s.prevTrans /\ w.pending = FALSE
      /\ w.server = s.server /\ w.prevAdr = s.prevAdr /\ w.prevTrans = s.prevTrans
  BY DEF Device
<1> HIDE DEF w
<1>2. CASE s.tx = "frame" /\ s.pending
  <2>1. Clocked(s) = w
    BY <1>2 DEF Clocked, ClockSyncConfirm, w
  <2> QED
    BY <1>1, <1>2, <2>1 DEF Settings, Restored
<1>3. CASE ~(s.tx = "frame" /\ s.pending)
  <2>1. Clocked(s) = s
    BY <1>3 DEF Clocked, ClockSyncConfirm
  <2> QED
    BY <2>1, RestoredOn
<1> QED
  BY <1>2, <1>3

LEMMA RightOn ==
    ASSUME NEW s, Right(s), NEW r, Silent(s, r)
    PROVE  Right(r)
BY DEF Right, Silent

LEMMA ClockedClock ==
    ASSUME NEW s \in Device, NEW r, Kept(Clocked(s), r)
    PROVE  /\ r.token = s.token /\ r.error = s.error /\ r.resync = s.resync
           /\ r.late = s.late
           /\ ~s.pending => ~r.pending
<1> DEFINE w == [s EXCEPT !.adr = s.prevAdr, !.trans = s.prevTrans, !.pending = FALSE]
<1>1. /\ w.token = s.token /\ w.error = s.error /\ w.resync = s.resync
      /\ w.pending = FALSE /\ w.late = s.late
  BY DEF Device
<1> HIDE DEF w
<1>2. Clocked(s) = w \/ Clocked(s) = s
  BY DEF Clocked, ClockSyncConfirm, w
<1> QED
  BY <1>1, <1>2 DEF Kept

\* A step of the MAC that ends what was under way.
LEMMA EndedDoes ==
    ASSUME NEW s \in Device, NEW r, Ended(s, r)
    PROVE  Silent(s, r) /\ (Restored(s) => Restored(r)) /\ (Idle(s) => Idle(r))
<1>1. Kept(Clocked(s), r) /\ r.asked \subseteq s.asked /\ (r.joined <=> s.joined)
  BY DEF Ended
<1>2. Silent(s, r)
  BY <1>1, ClockedClock DEF Silent
<1>3. Settings(Clocked(s), r)
  BY <1>1 DEF Kept, Settings
<1>4. Idle(s) => Idle(r)
  BY <1>1, ClockedClock DEF Idle
<1> QED
  BY <1>1, <1>2, <1>3, <1>4, RestoredEnd

\* A downlink that the server may send.
FromServer(d, s) ==
    /\ d.trans \in NbTrans /\ (d.trans # s.server => s.adr)
    /\ d.data.kind = "answer" =>
          \E a \in s.asked : a.token = d.data.token /\ a.error = d.data.error

LEMMA ReceivedDoes ==
    ASSUME NEW s, Sound(s), Answerable(s), s.tx = "frame", NEW d, FromServer(d, s),
           NEW r \in FrameReceived(d, s)
    PROVE  /\ Sound(r) /\ Answerable(r)
           /\ Restored(s) => Restored(r)
           /\ Idle(s) /\ d.data.kind # "resync" => Idle(r)
           /\ Right(s) => Right(r) /\ SetRight(s, r)
<1>1. PICK g \in BOOLEAN : g <=> Exact(d, s)
  OBVIOUS
<1>2. PICK m : m = MacCommands(d, s)
  OBVIOUS
<1>3. PICK t \in RequestEvents(m) : r \in McpsIndication(d, Exact(d, s), t)
  BY <1>2 DEF FrameReceived
<1>4. r \in McpsIndication(d, g, t)
  BY <1>1, <1>3 DEF McpsIndication, AppTimeAns
<1>5. /\ Sound(m) /\ m.tx = s.tx /\ m.asked = s.asked /\ (m.joined <=> s.joined)
      /\ m.adr = s.adr /\ m.pending = s.pending /\ m.prevAdr = s.prevAdr
      /\ m.prevTrans = s.prevTrans /\ m.resync = s.resync /\ m.token = s.token
      /\ m.error = (IF Exact(d, s) THEN 0 ELSE s.error)
      /\ m.late <=> s.late \/ (Exact(d, s) /\ Outdated(s))
      /\ IF d.trans = s.server THEN m.trans = s.trans /\ m.server = s.server
         ELSE m.trans = d.trans /\ m.server = d.trans
  BY <1>2, CommandsDo DEF FromServer
<1>6. Answered(m) /\ m \in Device /\ s \in Device
  BY <1>5, NoJoin DEF Sound, Typed
<1>7. Sound(t) /\ Kept(Clocked(m), t) /\ t.asked \subseteq m.asked /\ (t.joined <=> m.joined)
  BY <1>6, RequestEventsDoes
<1>8. /\ t.token = s.token /\ t.error = (IF g THEN 0 ELSE s.error)
      /\ t.late <=> s.late \/ (g /\ Outdated(s))
      /\ Idle(s) => Idle(t)
      /\ t.asked \subseteq s.asked
  BY <1>1, <1>5, <1>6, <1>7, ClockedClock DEF Idle
<1>9. Answerable(t)
  <2>1. ASSUME NEW a \in t.asked, a.token = t.token PROVE t.error - a.error \in Errors
    <3>1. CASE g
      <4>1. a.error \in Errors
        BY <1>6, <1>8, <2>1 DEF Device
      <4> QED
        BY <1>8, <3>1, <4>1 DEF Errors
    <3>2. CASE ~g
      BY <1>8, <2>1, <3>2 DEF Answerable
    <3> QED
      BY <3>1, <3>2
  <2> QED
    BY <1>8, <2>1 DEF Answerable
<1>10. Applies(d.data, g, t) => /\ d.data.token = s.token /\ t.error = s.error
                                /\ \E a \in s.asked : /\ a.token = s.token
                                                      /\ a.error = d.data.error
  BY <1>8 DEF Applies, FromServer
<1>11. Applies(d.data, g, t) => t.error - d.data.error \in Errors
  BY <1>10 DEF Answerable
<1>12. /\ Sound(r) /\ Settings(t, r) /\ (t.joined => r.joined)
       /\ t.resync = 0 /\ d.data.kind # "resync" => r.resync = 0
       /\ IF ~Applies(d.data, g, t) THEN Silent(t, r)
          ELSE /\ r.error = t.error - d.data.error /\ r.token = (t.token + 1) % Tokens
               /\ r.asked = t.asked
  BY <1>4, <1>7, <1>11, McpsDoes DEF FromServer
<1>13. Applies(d.data, g, t) =>
         \A a \in r.asked : a.token # r.token /\ a.token # (s.token + 1) % Tokens
  BY <1>8, <1>10, <1>12 DEF Answerable
<1>14. Answerable(r)
  <2>1. CASE Applies(d.data, g, t)
    BY <1>13, <2>1 DEF Answerable
  <2>2. CASE ~Applies(d.data, g, t)
    BY <1>9, <1>12, <2>2, SilentDoes
  <2> QED
    BY <2>1, <2>2
<1>15. ASSUME Restored(s) PROVE Restored(r)
  <2>1. Restored(m)
    BY <1>5, <1>15 DEF Restored, FromServer
  <2>2. Settings(Clocked(m), t)
    BY <1>7 DEF Kept, Settings
  <2>3. Restored(t)
    BY <1>6, <1>7, <2>1, <2>2, RestoredEnd
  <2> QED
    BY <1>12, <2>3, RestoredOn
<1>16. ASSUME Right(s) PROVE SetRight(s, r)
  <2> SUFFICES ASSUME ~s.late PROVE r.error \in {s.error, 0}
    BY DEF SetRight
  <2>1. CASE Applies(d.data, g, t)
    <3>1. d.data.error = s.error /\ s.error \in Errors
      BY <1>6, <1>10, <1>16, <2>1 DEF Right, Device
    <3>2. r.error = s.error - s.error
      BY <1>10, <1>12, <2>1, <3>1
    <3> QED
      BY <3>1, <3>2 DEF Errors
  <2>2. CASE ~Applies(d.data, g, t)
    BY <1>8, <1>12, <2>2 DEF Silent
  <2> QED
    BY <2>1, <2>2
<1>17. ASSUME Right(s) PROVE Right(r)
  <2>1. CASE Applies(d.data, g, t)
    BY <1>13, <2>1 DEF Right
  <2>2. CASE ~Applies(d.data, g, t)
    <3>1. Right(t)
      BY <1>8, <1>17 DEF Right, Outdated
    <3> QED
      BY <1>12, <2>2, <3>1, RightOn
  <2> QED
    BY <2>1, <2>2
<1>18. ASSUME Idle(s), d.data.kind # "resync" PROVE Idle(r)
  BY <1>8, <1>12, <1>18 DEF Idle, Settings
<1> QED
  BY <1>12, <1>14, <1>15, <1>16, <1>17, <1>18
----------------------------------------------------------------------------
(* The commands and what else the task does.                               *)

\* A step that leaves the clock package alone and takes no network away.
Quiet(s, r) == /\ Sound(r) /\ Settings(s, r) /\ Silent(s, r)
               /\ r.resync = s.resync /\ (s.joined => r.joined)

LEMMA QuietSelf == ASSUME NEW s, Sound(s) PROVE Quiet(s, s)
BY DEF Quiet, Settings, Silent

LEMMA HandledQuiet == ASSUME NEW s, Sound(s), NEW r, Handled(s, r) PROVE Quiet(s, r)
<1>1. Sound(r)
  BY EffectSound DEF Handled
<1> QED
  BY <1>1, KeptSettings DEF Quiet, Handled

LEMMA QuietDoes ==
    ASSUME NEW s, NEW r, Quiet(s, r)
    PROVE  /\ Answerable(s) => Answerable(r)
           /\ Restored(s) => Restored(r)
           /\ Right(s) => Right(r)
           /\ Idle(s) => Idle(r)
           /\ r.error = s.error
BY SilentDoes, RestoredOn, RightOn DEF Quiet, Silent, Settings, Idle

LEMMA JoinQuiet ==
    ASSUME NEW s, Sound(s), NEW r \in Join(s)
    PROVE  /\ Sound(r) /\ Settings(s, r) /\ Silent(s, r) /\ r.resync = s.resync
           /\ ~s.joined => Quiet(s, r)
<1>1. Effect(s, r) /\ Kept(s, r) /\ r.asked = s.asked
  BY JoinDoes DEF Sound
<1>2. Sound(r)
  BY <1>1, EffectSound
<1> QED
  BY <1>1, <1>2, KeptSettings DEF Quiet

\* LmhpClockSyncAppTimeReq.
LEMMA AppTimeReqDoes ==
    ASSUME NEW s, Sound(s), Answerable(s), NEW r \in AppTimeReq(s)
    PROVE  /\ Sound(r) /\ Answerable(r) /\ r.error = s.error /\ r.resync = s.resync
           /\ Restored(s) => Restored(r)
           /\ Right(s) => Right(r)
<1>1. s \in Device /\ Typed(s) /\ NotInB(s)
  BY DEF Sound, Typed
<1>2. CASE Busy(s)
  <2>1. r = s
    <3>1. AppTimeReq(s) = {s}
      BY <1>2 DEF AppTimeReq
    <3> QED
      BY <3>1
  <2> QED
    BY <2>1
<1>3. CASE ~Busy(s) /\ ~s.joined
  <2>1. r \in Join(s)
    BY <1>3 DEF AppTimeReq
  <2>2. Quiet(s, r)
    BY <1>3, <2>1, JoinQuiet
  <2> QED
    BY <2>2, QuietDoes DEF Quiet
<1>4. CASE ~Busy(s) /\ s.joined
  <2> DEFINE x == [s EXCEPT !.prevAdr = s.adr, !.prevTrans = s.trans,
                            !.adr = FALSE, !.trans = 1]
             ask == [token |-> s.token, error |-> s.error]
  <2>1. x \in Device
    <3>1. s.adr \in BOOLEAN /\ s.trans \in NbTrans /\ 1 \in NbTrans
      BY <1>1 DEF Device, NbTrans
    <3> QED
      BY <1>1, <3>1, ZenonT(60) DEF Device
  <2>2. /\ Alike(s, x) /\ x.tx = s.tx /\ x.mlme = s.mlme /\ Silent(s, x)
        /\ x.resync = s.resync /\ x.prevAdr = s.adr /\ x.prevTrans = s.trans
        /\ x.adr = FALSE /\ x.server = s.server
    BY <1>1 DEF Alike, Silent, Device
  <2> HIDE DEF x
  <2>3. Sound(x)
    BY <1>1, <2>1, <2>2, AlikeDoes DEF Sound, MlmeSet, Alike
  <2>4. PICK q : q = IF s.pending THEN s ELSE DeviceTimeReq(x)
    OBVIOUS
  <2> DEFINE t == [q EXCEPT !.pending = TRUE]
  <2>5. r \in Send({ask}, t)
    BY <1>4, <2>4 DEF AppTimeReq, x
  <2>6. /\ Sound(q) /\ Silent(s, q) /\ q.resync = s.resync /\ q.joined
        /\ IF s.pending THEN q = s ELSE Settings(x, q)
    <3>1. CASE s.pending
      BY <1>4, <2>4, <3>1 DEF Silent
    <3>2. CASE ~s.pending
      <4>1. q = DeviceTimeReq(x)
        BY <2>4, <3>2
      <4>2. Handled(x, q)
        BY <2>3, <4>1, TimeDoes DEF Sound
      <4>3. Quiet(x, q)
        BY <2>3, <4>2, HandledQuiet
      <4> QED
        BY <1>4, <2>2, <3>2, <4>3 DEF Quiet, Silent, Alike
    <3> QED
      BY <3>1, <3>2
  <2>7. q \in Device
    BY <2>6 DEF Sound, Typed
  <2>8. t \in Device
    BY <2>7, ZenonT(60) DEF Device
  <2>9. /\ Alike(q, t) /\ t.tx = q.tx /\ t.mlme = q.mlme /\ Silent(q, t)
        /\ t.resync = q.resync /\ t.prevAdr = q.prevAdr /\ t.prevTrans = q.prevTrans
        /\ t.adr = q.adr /\ t.server = q.server /\ t.pending = TRUE
    BY <2>7 DEF Alike, Silent, Device
  <2> HIDE DEF t
  <2>10. Sound(t) /\ t.joined /\ Silent(s, t)
    BY <2>6, <2>8, <2>9, AlikeDoes DEF Sound, MlmeSet, Alike, Silent
  <2>11. ask \in Asked /\ ask.token = s.token /\ ask.error = s.error
    BY <1>1 DEF Device, Asked
  <2> HIDE DEF ask
  <2>12. /\ Effect(t, r) /\ Kept(t, r) /\ (t.joined => r.joined)
         /\ \/ r.asked = t.asked
            \/ r.asked = {ask} \cup Recent(t)
    BY <2>5, <2>10, <2>11, SendDoes DEF Sound
  <2>13. /\ Sound(r) /\ r.token = s.token /\ r.error = s.error /\ r.resync = s.resync
         /\ r.late = s.late
    BY <2>6, <2>9, <2>10, <2>12, EffectSound DEF Kept, Silent
  <2>14. \A a \in r.asked :
           \/ a = ask
           \/ a \in s.asked /\ (ask \in r.asked => a.token # (s.token + 1) % Tokens)
           \/ a \in s.asked /\ r.asked \subseteq s.asked
    BY <2>10, <2>12 DEF Recent, Silent
  <2>15. s.token # (s.token + 1) % Tokens
    <3>1. s.token \in 0 .. Tokens - 1 /\ Tokens \in Nat /\ Tokens > 1
      BY <1>1, LmHandlerAssumption DEF Device
    <3>2. CASE s.token = Tokens - 1
      <4>1. (s.token + 1) % Tokens = 0
        BY <3>1, <3>2
      <4> QED
        BY <3>1, <3>2, <4>1
    <3>3. CASE s.token # Tokens - 1
      <4>1. s.token + 1 \in 0 .. Tokens - 1
        BY <3>1, <3>3
      <4>2. (s.token + 1) % Tokens = s.token + 1
        BY <3>1, <4>1
      <4> QED
        BY <3>1, <4>2
    <3> QED
      BY <3>2, <3>3
  <2>16. Answerable(r)
    <3>1. ASSUME NEW a \in r.asked, a.token = r.token PROVE r.error - a.error \in Errors
      <4>1. CASE a = ask
        <5>1. a.error = s.error /\ s.error \in Errors
          BY <1>1, <2>11, <4>1 DEF Device
        <5> QED
          BY <2>13, <5>1 DEF Errors
      <4>2. CASE a \in s.asked
        BY <2>13, <3>1, <4>2 DEF Answerable
      <4> QED
        BY <2>14, <4>1, <4>2
    <3>2. ASSUME NEW a \in r.asked, NEW b \in r.asked,
                 a.token = r.token, b.token = (r.token + 1) % Tokens
          PROVE  FALSE
      <4>1. b # ask
        BY <2>11, <2>13, <2>15, <3>2
      <4>2. b \in s.asked /\ ask \notin r.asked
        BY <2>13, <2>14, <3>2, <4>1 DEF Answerable
      <4>3. a \in s.asked
        BY <2>14, <4>2
      <4> QED
        BY <2>13, <3>2, <4>2, <4>3 DEF Answerable
    <3> QED
      BY <3>1, <3>2 DEF Answerable
  <2>17. ASSUME Restored(s) PROVE Restored(r)
    <3>1. Restored(t)
      <4>1. CASE s.pending
        BY <2>6, <2>9, <2>10, <2>17, <4>1 DEF Restored
      <4>2. CASE ~s.pending
        BY <2>2, <2>6, <2>9, <2>10, <2>17, <4>2 DEF Restored, Settings
      <4> QED
        BY <4>1, <4>2
    <3>2. Settings(t, r)
      BY <2>12 DEF Kept, Settings
    <3> QED
      BY <2>12, <3>1, <3>2, RestoredOn
  <2>18. ASSUME Right(s) PROVE Right(r)
    BY <2>11, <2>13, <2>14, <2>18 DEF Right
  <2> QED
    BY <2>13, <2>16, <2>17, <2>18
<1> QED
  BY <1>2, <1>3, <1>4
LEMMA QuietTrans ==
    ASSUME NEW s, NEW r, NEW t, Quiet(s, r), Quiet(r, t)
    PROVE  Quiet(s, t)
BY DEF Quiet, Settings, Silent

\* A scenario in which the application server is asked for nothing.
AsksNothing(c) == "syncApp" \notin c.commands /\ "resync" \notin c.data

\* What every step of the device preserves, in scenario c.
Fine(s, r, c) ==
    /\ Sound(r) /\ Answerable(r)
    /\ Restored(s) /\ "join" \notin c.commands => Restored(r)
    /\ Restored(s) /\ Idle(s) /\ AsksNothing(c) => Restored(r) /\ Idle(r)
    /\ Right(s) => Right(r) /\ SetRight(s, r)

LEMMA QuietFine ==
    ASSUME NEW s, Answerable(s), NEW r, Quiet(s, r), NEW c
    PROVE  Fine(s, r, c)
BY QuietDoes DEF Fine, Quiet, SetRight

LEMMA EndedFine ==
    ASSUME NEW s, Sound(s), Answerable(s), NEW r, Ended(s, r), NEW c
    PROVE  Fine(s, r, c)
<1>1. s \in Device
  BY DEF Sound, Typed
<1>2. /\ Silent(s, r) /\ (Restored(s) => Restored(r)) /\ (Idle(s) => Idle(r))
      /\ Sound(r)
  BY <1>1, EndedDoes DEF Ended
<1>3. Answerable(r) /\ (Right(s) => Right(r))
  BY <1>2, SilentDoes, RightOn
<1> QED
  BY <1>2, <1>3 DEF Fine, Silent, SetRight

LEMMA JoinEndsFine ==
    ASSUME NEW s, Sound(s), Answerable(s), NEW r \in JoinEnds(s), NEW c
    PROVE  Fine(s, r, c)
<1> DEFINE w == [s EXCEPT !.trans = 1, !.server = 1]
<1>1. s \in Device
  BY DEF Sound, Typed
<1>2. /\ Sound(r) /\ r.asked \subseteq s.asked /\ ~s.joined
      /\ \/ Kept(s, r) /\ ~r.joined
         \/ Kept(w, r) /\ r.joined
  BY JoinEndsDoes
<1>3. /\ w.trans = 1 /\ w.server = 1 /\ w.adr = s.adr /\ w.pending = s.pending
      /\ w.token = s.token /\ w.error = s.error /\ w.resync = s.resync
      /\ w.late = s.late
  BY <1>1 DEF Device
<1> HIDE DEF w
<1>4. Silent(s, r)
  BY <1>2, <1>3 DEF Kept, Silent
<1>5. (Restored(s) => Restored(r)) /\ (Idle(s) => Idle(r))
  BY <1>2, <1>3 DEF Kept, Restored, Idle
<1>6. Answerable(r) /\ (Right(s) => Right(r))
  BY <1>4, SilentDoes, RightOn
<1> QED
  BY <1>2, <1>4, <1>5, <1>6 DEF Fine, Silent, SetRight

LEMMA CommandFine ==
    ASSUME NEW s, Sound(s), Answerable(s), NEW c, NEW k \in c.commands, k \in Commands,
           NEW r \in Command(k, s)
    PROVE  Fine(s, r, c)
<1>1. CASE k = "join"
  <2>1. r \in Join(s)
    BY <1>1 DEF Command
  <2>2. Sound(r) /\ Silent(s, r) /\ Settings(s, r) /\ r.resync = s.resync
    BY <2>1, JoinQuiet
  <2>3. Answerable(r) /\ (Right(s) => Right(r))
    BY <2>2, SilentDoes, RightOn
  <2>4. Restored(s) /\ Idle(s) => Restored(r) /\ Idle(r)
    BY <2>2 DEF Restored, Idle, Settings
  <2> QED
    BY <1>1, <2>2, <2>3, <2>4 DEF Fine, Silent, SetRight
<1>2. CASE k = "syncApp"
  <2>1. r \in AppTimeReq(s)
    BY <1>2 DEF Command
  <2> QED
    BY <1>2, <2>1, AppTimeReqDoes DEF Fine, AsksNothing, SetRight
<1>3. CASE k = "syncMac"
  <2>1. r = DeviceTimeReq(s)
    BY <1>3 DEF Command
  <2>2. Handled(s, r)
    BY <2>1, TimeDoes DEF Sound
  <2> QED
    BY <2>2, HandledQuiet, QuietFine
<1>4. CASE k \in Classes
  <2>1. r = RequestClass(k, s)
    BY <1>4 DEF Command, Classes
  <2>2. Handled(s, r)
    BY <1>4, <2>1, RequestClassDoes DEF Sound
  <2> QED
    BY <2>2, HandledQuiet, QuietFine
<1> QED
  BY <1>1, <1>2, <1>3, <1>4 DEF Commands

LEMMA FlushQuiet ==
    ASSUME NEW s, Sound(s), NEW r \in Flush(s)
    PROVE  Quiet(s, r)
<1>1. CASE s.flush /\ ~Busy(s)
  <2>1. r \in Send({}, s)
    BY <1>1 DEF Flush
  <2> QED
    BY <2>1, SendNothing, HandledQuiet DEF Sound
<1>2. CASE ~(s.flush /\ ~Busy(s))
  BY <1>2, QuietSelf DEF Flush
<1> QED
  BY <1>1, <1>2

LEMMA SessionQuiet ==
    ASSUME NEW s, Sound(s), NEW c \in Classes, NEW r \in Flush(RequestClass(c, s))
    PROVE  Quiet(s, r)
<1>1. PICK t : t = RequestClass(c, s)
  OBVIOUS
<1>2. Quiet(s, t)
  BY <1>1, RequestClassDoes, HandledQuiet DEF Sound
<1>3. Quiet(t, r)
  BY <1>1, <1>2, FlushQuiet DEF Quiet
<1> QED
  BY <1>2, <1>3, QuietTrans

LEMMA JoinsQuiet ==
    ASSUME NEW s, Sound(s), ~s.joined, NEW t \in Join(s), NEW r \in Join(t)
    PROVE  Quiet(s, r)
<1>1. Quiet(s, t)
  BY JoinQuiet
<1>2. ~t.joined
  BY JoinDoes DEF Sound
<1>3. Quiet(t, r)
  BY <1>1, <1>2, JoinQuiet DEF Quiet
<1> QED
  BY <1>1, <1>3, QuietTrans

\* The resync command's next request.
LEMMA PackagesFine ==
    ASSUME NEW s, Sound(s), Answerable(s), NEW c,
           NEW t \in IF s.resync > 0 THEN AppTimeReq(s) ELSE {s},
           NEW r, r = [t EXCEPT !.resync = IF ~Busy(s) /\ t.tx = "frame" THEN @ - 1 ELSE @]
    PROVE  Fine(s, r, c)
<1>1. s \in Device
  BY DEF Sound, Typed
<1>2. /\ Sound(t) /\ Answerable(t) /\ t.error = s.error /\ t.resync = s.resync
      /\ Restored(s) => Restored(t)
      /\ Right(s) => Right(t)
      /\ s.resync > 0 \/ t = s
  <2>1. CASE s.resync > 0
    BY <2>1, AppTimeReqDoes
  <2>2. CASE ~(s.resync > 0)
    BY <2>2
  <2> QED
    BY <2>1, <2>2
<1> DEFINE n == IF ~Busy(s) /\ t.tx = "frame" THEN t.resync - 1 ELSE t.resync
<1>3. n \in 0 .. MaxResync
  <2>1. t.resync \in 0 .. MaxResync
    BY <1>2 DEF Sound, Typed, Device
  <2>2. ~Busy(s) /\ t.tx = "frame" => t.resync > 0
    BY <1>2 DEF Busy
  <2>3. CASE ~Busy(s) /\ t.tx = "frame"
    <3>1. MaxResync \in Nat /\ t.resync - 1 \in 0 .. MaxResync
      BY <2>1, <2>2, <2>3, LmHandlerAssumption
    <3> QED
      BY <2>3, <3>1
  <2>4. CASE ~(~Busy(s) /\ t.tx = "frame")
    BY <2>1, <2>4
  <2> QED
    BY <2>3, <2>4
<1>4. r = [t EXCEPT !.resync = n]
  OBVIOUS
<1> HIDE DEF n
<1>5. /\ Sound(r) /\ Settings(t, r) /\ Silent(t, r) /\ (r.joined <=> t.joined)
  <2>1. PICK k \in 0 .. MaxResync : k = n
    BY <1>3
  <2>2. PICK u : u = [t EXCEPT !.resync = k]
    OBVIOUS
  <2>3. u = r
    BY <1>4, <2>1, <2>2
  <2>4. Sound(u) /\ Settings(t, u) /\ Silent(t, u) /\ (u.joined <=> t.joined)
    BY <1>2, <2>2, ResyncDoes
  <2> QED
    BY <2>3, <2>4
<1>51. r.resync = n
  BY <1>2, <1>4 DEF Sound, Typed, Device
<1>6. Idle(s) => Idle(r)
  <2>1. s.resync = 0 => t = s /\ n = 0
    BY <1>1, <1>2 DEF n, Device, Busy
  <2> QED
    BY <1>2, <1>5, <1>51, <2>1 DEF Idle, Settings
<1>7. Answerable(r) /\ (Right(t) => Right(r)) /\ (Restored(t) => Restored(r))
  BY <1>2, <1>5, SilentDoes, RightOn, RestoredOn
<1> QED
  BY <1>2, <1>5, <1>6, <1>7 DEF Fine, Silent, SetRight
----------------------------------------------------------------------------
(* The steps and the theorems.                                             *)

LEMMA FrameFine ==
    ASSUME Sound(dev), Answerable(dev), scenario \in Scenarios,
           NEW d \in Downlinks(dev), dev.tx = "frame", dev' \in FrameReceived(d, dev)
    PROVE  Fine(dev, dev', scenario)
<1>1. PICK s : s = dev
  OBVIOUS
<1>2. PICK r : r = dev'
  OBVIOUS
<1>3. PICK c : c = scenario
  OBVIOUS
<1>4. s \in Device
  BY <1>1 DEF Sound, Typed
<1>5. /\ d.answers \subseteq c.answers /\ d.data \in Data(s)
      /\ d.trans \in IF s.adr THEN {s.server} \cup c.trans ELSE {s.server}
  BY <1>1, <1>3 DEF Downlinks
<1>6. c.trans \subseteq NbTrans
  BY <1>3, LmHandlerAssumption
<1>7. \/ /\ "answer" \in c.data
         /\ \E a \in s.asked : a.token = d.data.token /\ a.error = d.data.error
      \/ d.data.kind \in {"none"} \cup (c.data \ {"answer"})
  BY <1>3, <1>5 DEF Data, Other
<1>9. FromServer(d, s)
  <2>1. d.trans \in NbTrans /\ (d.trans # s.server => s.adr)
    BY <1>4, <1>5, <1>6 DEF Device
  <2> QED
    BY <1>7, <2>1 DEF FromServer
<1>10. d.data.kind = "resync" => "resync" \in c.data
  <2>1. d.data.kind \in {"answer", "none"} \cup c.data
    BY <1>3, <1>5 DEF Data, Other
  <2> QED
    BY <2>1
<1>11. /\ Sound(r) /\ Answerable(r)
       /\ Restored(s) => Restored(r)
       /\ Idle(s) /\ d.data.kind # "resync" => Idle(r)
       /\ Right(s) => Right(r) /\ SetRight(s, r)
  BY <1>1, <1>2, <1>9, ReceivedDoes
<1>12. Fine(s, r, c)
  BY <1>10, <1>11 DEF Fine, AsksNothing
<1> QED
  BY <1>1, <1>2, <1>3, <1>12

\* What a step of the task or of a timer does to the device.
LEMMA StepFine ==
    ASSUME Sound(dev), Answerable(dev), scenario \in Scenarios, Next
    PROVE  Fine(dev, dev', scenario)
<1>1. PICK s : s = dev
  OBVIOUS
<1>2. PICK r : r = dev'
  OBVIOUS
<1>3. PICK c : c = scenario /\ c \in Scenarios
  OBVIOUS
<1>4. Sound(s) /\ Answerable(s)
  BY <1>1
<1>5. r = s => Fine(s, r, c)
  BY <1>4, QuietSelf, QuietFine
<1> SUFFICES Fine(s, r, c)
  BY <1>1, <1>2, <1>3
<1>6. CASE HandleCommand
  <2>1. r = s \/ \E k \in c.commands : r \in Command(k, s)
    BY <1>1, <1>2, <1>3, <1>6 DEF HandleCommand
  <2>2. c.commands \subseteq Commands
    BY <1>3, LmHandlerAssumption
  <2> QED
    BY <1>4, <1>5, <2>1, <2>2, CommandFine
<1>7. CASE PackagesProcess
  <2>1. PICK t \in IF s.resync > 0 THEN AppTimeReq(s) ELSE {s} :
          r = [t EXCEPT !.resync = IF ~Busy(s) /\ t.tx = "frame" THEN @ - 1 ELSE @]
    BY <1>1, <1>2, <1>7 DEF PackagesProcess
  <2> QED
    BY <1>4, <2>1, PackagesFine, ZenonT(60)
<1>8. CASE SessionProcess
  <2>1. \/ r \in Flush(s)
        \/ r \in Flush(RequestClass("C", s))
        \/ r \in Flush(RequestClass("A", s))
    <3>1. CASE taken = "start"
      BY <1>1, <1>2, <1>8, <3>1 DEF SessionProcess
    <3>2. CASE taken = "stop"
      BY <1>1, <1>2, <1>8, <3>2 DEF SessionProcess
    <3>3. CASE taken \notin {"start", "stop"}
      BY <1>1, <1>2, <1>8, <3>3 DEF SessionProcess
    <3> QED
      BY <3>1, <3>2, <3>3
  <2>2. Quiet(s, r)
    BY <1>4, <2>1, FlushQuiet, SessionQuiet DEF Classes
  <2> QED
    BY <1>4, <2>2, QuietFine
<1>9. CASE HandleUplink
  <2>1. \/ r = s
        \/ r \in Send({}, s)
        \/ ~s.joined /\ \E t \in Join(s) : r \in Join(t)
    BY <1>1, <1>2, <1>9 DEF HandleUplink
  <2>2. Quiet(s, r)
    BY <1>4, <2>1, QuietSelf, SendNothing, HandledQuiet, JoinsQuiet DEF Sound
  <2> QED
    BY <1>4, <2>2, QuietFine
<1>10. CASE MacIdle
  BY <1>1, <1>2, <1>5, <1>10 DEF MacIdle
<1>11. CASE MacJoin
  <2>1. r \in JoinEnds(s)
    BY <1>1, <1>2, <1>11 DEF MacJoin
  <2> QED
    BY <1>4, <2>1, JoinEndsFine
<1>12. CASE MacTimeout
  <2>1. r \in FrameTimesOut(s)
    BY <1>1, <1>2, <1>12 DEF MacTimeout
  <2> QED
    BY <1>4, <2>1, TimesOutDoes, EndedFine
<1>13. CASE MacBeacon
  <2>1. r \in BeaconFound(s)
    BY <1>1, <1>2, <1>13 DEF MacBeacon
  <2> QED
    BY <1>4, <2>1, FoundDoes, EndedFine
<1>14. CASE MacNoBeacon
  <2>1. r \in BeaconLost(s)
    BY <1>1, <1>2, <1>14 DEF MacNoBeacon
  <2> QED
    BY <1>4, <2>1, NoBeaconDoes, EndedFine
<1>15. CASE \E d \in Downlinks(dev) : MacFrame(d)
  <2>1. PICK d \in Downlinks(dev) : MacFrame(d)
    BY <1>15
  <2>2. dev.tx = "frame" /\ dev' \in FrameReceived(d, dev)
    BY <2>1 DEF MacFrame
  <2> QED
    BY <1>1, <1>2, <1>3, <2>2, FrameFine
<1>16. CASE SessionStarts \/ SessionStops
  BY <1>1, <1>2, <1>5, <1>16 DEF SessionStarts, SessionStops
<1> QED
  BY <1>6, <1>7, <1>8, <1>9, <1>10, <1>11, <1>12, <1>13, <1>14, <1>15, <1>16 DEF Next
\* What the task and the interrupts of the session's timers keep between them.
Loop == /\ pc \in {"command", "process", "packages", "session", "uplink"}
        /\ {flag, taken} \subseteq {"idle", "start", "stop"}
        /\ session \in BOOLEAN /\ startTimer \in BOOLEAN /\ stopTimer \in BOOLEAN
        /\ scenario \in Scenarios /\ left \in 0 .. scenario.count

IInv == /\ Loop /\ Sound(dev) /\ Answerable(dev) /\ Right(dev)
        /\ JoinsAskNothing => Restored(dev)
        /\ JoinsAskNothing /\ AsksNothing(scenario) => Idle(dev)

LEMMA InitSound == Init => Sound(dev) /\ Answerable(dev) /\ Restored(dev)
                           /\ Idle(dev) /\ Right(dev)
<1> SUFFICES ASSUME Init
             PROVE  Sound(dev) /\ Answerable(dev) /\ Restored(dev) /\ Idle(dev) /\ Right(dev)
  OBVIOUS
<1>1. /\ dev.tx = "none" /\ dev.queue = <<>> /\ dev.classB = FALSE /\ dev.asked = {}
      /\ dev.pending = FALSE /\ dev.resync = 0 /\ dev.adr = TRUE /\ dev.trans = dev.server
  BY DEF Init
<1>2. dev \in Device
  <2>1. /\ 1 \in NbTrans /\ 1 \in Errors /\ 0 \in 0 .. MaxResync /\ 0 \in 0 .. Tokens - 1
        /\ "A" \in Classes /\ "none" \in {"none", "join", "frame"} /\ <<>> \in Seq(Elements)
    BY LmHandlerAssumption DEF NbTrans, Errors, Classes
  <2>2. {} \in SUBSET [token : 0 .. Tokens - 1, error : Errors] /\ {} \in SUBSET {"time", "slot"}
    OBVIOUS
  <2> QED
    BY <2>1, <2>2, ZenonT(60) DEF Init, Device
<1>3. Len(dev.queue) = 0
  BY <1>1
<1>4. Sound(dev)
  BY <1>1, <1>2, <1>3, LmHandlerAssumption
     DEF Sound, Typed, NotInB, MlmeSet, Joining, JoinsWait, JoinAfter, Going
<1>5. Answerable(dev) /\ Restored(dev) /\ Idle(dev) /\ Right(dev)
  BY <1>1 DEF Answerable, Restored, Idle, Right
<1> QED
  BY <1>4, <1>5

LEMMA LoopStep == Loop /\ Next => Loop'
<1> SUFFICES ASSUME Loop, Next PROVE Loop'
  OBVIOUS
<1> USE DEF Loop
<1>1. scenario.count \in Nat
  BY LmHandlerAssumption
<1>2. CASE HandleCommand
  <2>1. left' = left \/ (left > 0 /\ left' = left - 1)
    BY <1>2 DEF HandleCommand
  <2>2. left' \in 0 .. scenario.count
    BY <1>1, <2>1
  <2> QED
    BY <1>2, <2>2 DEF HandleCommand, mcast
<1>3. CASE PackagesProcess
  BY <1>3 DEF PackagesProcess
<1>4. CASE SessionProcess
  <2>1. /\ pc' = "uplink" /\ UNCHANGED <<taken, startTimer, scenario, left>>
        /\ flag' \in {flag, "idle"} /\ session' \in {session, TRUE, FALSE}
        /\ stopTimer' \in {stopTimer, TRUE}
    BY <1>4 DEF SessionProcess
  <2> QED
    BY <2>1
<1>5. CASE HandleUplink
  BY <1>5 DEF HandleUplink, mcast
<1>6. CASE MacIdle \/ MacJoin \/ MacTimeout \/ MacBeacon \/ MacNoBeacon
  BY <1>6 DEF MacIdle, MacJoin, MacTimeout, MacBeacon, MacNoBeacon, Goes, mcast
<1>7. CASE \E d \in Downlinks(dev) : MacFrame(d)
  <2>1. PICK d \in Downlinks(dev) : MacFrame(d)
    BY <1>7
  <2>2. startTimer' \in BOOLEAN
    BY <2>1 DEF MacFrame
  <2> QED
    BY <2>1, <2>2 DEF MacFrame, Goes
<1>8. CASE SessionStarts \/ SessionStops
  BY <1>8 DEF SessionStarts, SessionStops
<1> QED
  BY <1>2, <1>3, <1>4, <1>5, <1>6, <1>7, <1>8 DEF Next

LEMMA ScenarioStays == Next => scenario' = scenario
BY DEF Next, HandleCommand, PackagesProcess, SessionProcess, HandleUplink, MacIdle, MacJoin,
       MacTimeout, MacBeacon, MacNoBeacon, MacFrame, SessionStarts, SessionStops, Goes

LEMMA StepKeeps == IInv /\ [Next]_vars => IInv'
<1> SUFFICES ASSUME IInv, [Next]_vars PROVE IInv'
  OBVIOUS
<1>1. CASE Next
  <2>1. Fine(dev, dev', scenario)
    BY <1>1, StepFine DEF IInv, Loop
  <2>2. Loop' /\ scenario' = scenario
    BY <1>1, LoopStep, ScenarioStays DEF IInv
  <2>3. Sound(dev') /\ Answerable(dev')
    BY <2>1 DEF Fine
  <2>4. JoinsAskNothing => Restored(dev')
    <3>1. CASE "join" \in scenario.commands
      BY <2>1, <3>1 DEF IInv, Loop, Fine, AsksNothing, JoinsAskNothing
    <3>2. CASE "join" \notin scenario.commands
      BY <2>1, <3>2 DEF IInv, Fine
    <3> QED
      BY <3>1, <3>2
  <2>5. JoinsAskNothing /\ AsksNothing(scenario) => Idle(dev')
    BY <2>1 DEF IInv, Fine
  <2>6. Right(dev')
    BY <2>1 DEF IInv, Fine
  <2> QED
    BY <2>2, <2>3, <2>4, <2>5, <2>6 DEF IInv
<1>2. CASE UNCHANGED vars
  BY <1>2 DEF IInv, Loop, vars, mcast
<1> QED
  BY <1>1, <1>2

LEMMA Inductive == Spec => []IInv
<1>1. Init => IInv
  <2> SUFFICES ASSUME Init PROVE IInv
    OBVIOUS
  <2>1. left \in 0 .. scenario.count
    BY LmHandlerAssumption DEF Init
  <2>2. Loop
    BY <2>1 DEF Init, Loop
  <2> QED
    BY <2>2, InitSound DEF IInv
<1> QED
  BY <1>1, StepKeeps, PTL DEF Spec

\* The queue of LoRaMacConfirmQueue.c never holds more than its length, the
\* tokens and the resync counter stay in their bits, and no answer takes the clock
\* further from the time than it was when it was asked about.
THEOREM TypeCorrect == Spec => []TypeOK
<1>1. IInv => TypeOK
  BY DEF IInv, Loop, Sound, Typed, TypeOK
<1> QED
  BY <1>1, Inductive, PTL

\* Nobody leaves a confirmation in the queue without MlmeReq, neither a callback
\* that makes requests while LoRaMacConfirmQueueHandleCb goes round the queue
\* nor a request that is turned down.
THEOREM RequestedAlways == Spec => []Requested
<1>1. IInv => Requested
  BY DEF IInv, Sound, MlmeSet, Requested
<1> QED
  BY <1>1, Inductive, PTL

\* The switch to class B of LmHandlerRequestClass has a request queued that will
\* be answered, or whose search for a beacon a join ended, unless its last request
\* was turned down: joins, repeated commands and the queue's turns lose none.
THEOREM SwitchAlwaysGoesOn == Spec => []SwitchGoesOn
<1>1. IInv => SwitchGoesOn
  <2> SUFFICES ASSUME IInv, dev.classB, ~dev.refused
               PROVE  \E e \in {dev.queue[i] : i \in DOMAIN dev.queue} :
                         \/ e.req \in {"time", "slot"}
                         \/ e.req = "acquisition" /\ (e.ready \/ dev.seeking \/ dev.halted)
    BY DEF SwitchGoesOn
  <2>1. PICK i \in 1 .. Len(dev.queue) : Leads(dev.queue[i], dev)
    BY DEF IInv, Sound, Going
  <2>2. i \in DOMAIN dev.queue
    BY <2>1 DEF IInv, Sound, Typed, Device
  <2> QED
    BY <2>1, <2>2 DEF Leads
<1> QED
  BY <1>1, Inductive, PTL

\* LmhpClockSyncOnMcpsConfirm gives back what LmhpClockSyncAppTimeReq took, and
\* what a LinkADRReq set meanwhile is never what it took.
THEOREM SettingsAreRestored == ASSUME JoinsAskNothing PROVE Spec => []SettingsRestored
<1>1. IInv => SettingsRestored
  BY DEF IInv, Restored, SettingsRestored
<1> QED
  BY <1>1, Inductive, PTL

\* LmhpClockSyncOnMcpsIndication leaves the clock or sets it right, whichever
\* server answers first, as long as no DeviceTimeAns has outrun an answer to the
\* current token whose correction it changes.
THEOREM ClockIsKeptRight == Spec => ClockStaysRight
<1>1. IInv /\ [Next]_vars => [~dev.late => dev'.error \in {dev.error, 0}]_vars
  <2> SUFFICES ASSUME IInv, Next, ~dev.late PROVE dev'.error \in {dev.error, 0}
    OBVIOUS
  <2>1. Fine(dev, dev', scenario)
    BY StepFine DEF IInv, Loop
  <2> QED
    BY <2>1 DEF IInv, Fine, SetRight
<1> QED
  BY <1>1, Inductive, PTL DEF Spec, ClockStaysRight
=============================================================================
