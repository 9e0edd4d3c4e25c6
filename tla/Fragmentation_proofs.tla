------------------------ MODULE Fragmentation_proofs ------------------------
(***************************************************************************)
(* The decoder of fragmented files and its sessions, for every number of   *)
(* fragments, of coded ones, of files and of sessions, any fragment lost,  *)
(* repeated or late, and with set-ups and restarts at any time.            *)
(*                                                                         *)
(* The decoder counts the missing rows and has a line for some of them,    *)
(* which begins at its row.  The bits of two lines are never in the same   *)
(* place.  A coded fragment is reduced to a line that begins where none    *)
(* does, or to nothing.  So, if the store writes what it is told to, the   *)
(* row of a line holds the XOR of its rows, and substitution from the last *)
(* row up gives the file; and whatever some coded fragments say of the     *)
(* missing rows, some lines say.                                           *)
(***************************************************************************)
EXTENDS Fragmentation, FiniteSetTheorems, WellFoundedInduction, TLAPS

----------------------------------------------------------------------------
(* Numbers and parities.                                                   *)

\* The least of some numbers.
LEMMA Least == ASSUME NEW A, A \subseteq Nat, A # {}
               PROVE  \E k \in A : \A j \in A : k <= j
<1> DEFINE R == OpToRel(<, Nat)
<1>1. IsWellFoundedOn(R, Nat)
  BY NatLessThanWellFounded
<1>2. PICK k \in A : \A j \in A : ~(<<j, k>> \in R)
  <2> HIDE DEF R
  <2> QED
    BY <1>1, WFMin
<1>3. \A j \in A : ~(j < k)
  BY <1>2 DEF OpToRel
<1> QED
  BY <1>3

\* Smallest gives the least of a set that has one.
LEMMA SmallestIs == ASSUME NEW A, A \subseteq Nat, A # {}
                    PROVE  Smallest(A) \in A /\ \A j \in A : Smallest(A) <= j
BY Least DEF Smallest

\* The first n numbers are finitely many.
LEMMA FiniteTo == ASSUME NEW n \in Nat PROVE IsFiniteSet(0 .. n - 1)
<1>1. 0 \in Int /\ n - 1 \in Int
  OBVIOUS
<1> QED
  BY <1>1, FS_Interval

\* There is an odd number of them.
Odd(A) == Cardinality(A) % 2 = 1

\* None is not an odd number.
LEMMA OddEmpty == ~Odd({})
BY FS_EmptySet DEF Odd

\* One is.
LEMMA OddOne == ASSUME NEW x PROVE Odd({x})
BY FS_Singleton DEF Odd

\* One more changes the parity.
LEMMA OddAdd == ASSUME NEW A, IsFiniteSet(A), NEW x, x \notin A
                PROVE  Odd(A \cup {x}) <=> ~Odd(A)
<1>1. PICK n \in Nat : n = Cardinality(A)
  BY FS_CardinalityType
<1>2. Cardinality(A \cup {x}) = n + 1
  BY <1>1, FS_AddElement
<1>3. (n + 1) % 2 = 1 <=> ~(n % 2 = 1)
  OBVIOUS
<1> QED
  BY <1>1, <1>2, <1>3 DEF Odd

\* The parity of a symmetric difference is the sum of the parities.
LEMMA OddSymDiff == ASSUME NEW A, NEW B, IsFiniteSet(A), IsFiniteSet(B)
                    PROVE  Odd(SymDiff(A, B)) <=> ~(Odd(A) <=> Odd(B))
<1>1. PICK a \in Nat : a = Cardinality(A)
  BY FS_CardinalityType
<1>2. PICK b \in Nat : b = Cardinality(B)
  BY FS_CardinalityType
<1>3. PICK m \in Nat : m = Cardinality(A \cap B)
  BY FS_CardinalityType, FS_Intersection
<1>4. IsFiniteSet(A \ B) /\ Cardinality(A \ B) = a - m
  BY <1>1, <1>3, FS_Difference
<1>5. IsFiniteSet(B \ A) /\ Cardinality(B \ A) = b - m
  <2>1. B \cap A = A \cap B
    OBVIOUS
  <2> QED
    BY <1>2, <1>3, <2>1, FS_Difference
<1>6. Cardinality(SymDiff(A, B)) = a - m + (b - m)
  <2>1. (A \ B) \cap (B \ A) = {}
    OBVIOUS
  <2>2. Cardinality((A \ B) \cup (B \ A)) =
           Cardinality(A \ B) + Cardinality(B \ A) - Cardinality((A \ B) \cap (B \ A))
    BY <1>4, <1>5, FS_Union
  <2>3. Cardinality((A \ B) \cap (B \ A)) = 0
    BY <2>1, FS_EmptySet
  <2> QED
    BY <1>4, <1>5, <2>2, <2>3 DEF SymDiff
<1>7. (a - m + (b - m)) % 2 = 1 <=> ~(a % 2 = 1 <=> b % 2 = 1)
  OBVIOUS
<1> QED
  BY <1>1, <1>2, <1>6, <1>7 DEF Odd

\* g takes A to T, one to one.
Pairs(g, A, T) == T = {g[x] : x \in A} /\ \A x, y \in A : g[x] = g[y] => x = y

\* Counting something else, one for one, gives the same parity.
LEMMA OddImage == ASSUME NEW A, IsFiniteSet(A), NEW g, NEW T, Pairs(g, A, T)
                  PROVE  IsFiniteSet(T) /\ (Odd(T) <=> Odd(A))
<1> DEFINE B == {g[x] : x \in A}
           h == [x \in A |-> g[x]]
<1>1. h \in Bijection(A, B)
  <2>1. h \in [A -> B]
    OBVIOUS
  <2>2. \A x \in A : h[x] = g[x]
    OBVIOUS
  <2> HIDE DEF h
  <2>3. h \in Injection(A, B)
    BY <2>1, <2>2 DEF Injection, IsInjective, Pairs
  <2>4. h \in Surjection(A, B)
    BY <2>1, <2>2 DEF Surjection
  <2> QED
    BY <2>3, <2>4 DEF Bijection
<1>2. ExistsBijection(A, B)
  <2> HIDE DEF h, B
  <2> QED
    BY <1>1 DEF ExistsBijection
<1> HIDE DEF B
<1>3. IsFiniteSet(B) /\ Cardinality(B) = Cardinality(A)
  BY <1>2, FS_Bijection
<1> QED
  BY <1>3 DEF Odd, B, Pairs

\* What the XOR of data with some rows has.
LEMMA XorHas == ASSUME NEW data, NEW R, NEW st, IsFiniteSet(R)
                PROVE  \A e : e \in Xor(data, R, st) <=>
                                 ~(Odd({r \in R : e \in st[r]}) <=> e \in data)
<1> TAKE e
<1> DEFINE A == {r \in R : e \in st[r]}
<1>1. PICK n \in Nat : n = Cardinality(A)
  <2>1. IsFiniteSet(A)
    BY FS_Subset
  <2> QED
    BY <2>1, FS_CardinalityType
<1>2. n % 2 = 1 => A # {}
  <2>1. A = {} => n = 0
    BY <1>1, FS_EmptySet
  <2> HIDE DEF A
  <2> QED
    BY <2>1
<1>3. e \in Xor(data, R, st) <=> /\ e \in data \cup UNION {st[r] : r \in R}
                                 /\ (Cardinality(A) + (IF e \in data THEN 1 ELSE 0)) % 2 = 1
  BY DEF Xor
<1>4. A # {} => e \in UNION {st[r] : r \in R}
  OBVIOUS
<1> HIDE DEF A
<1>5. CASE e \in data
  <2>1. e \in Xor(data, R, st) <=> (n + 1) % 2 = 1
    BY <1>1, <1>3, <1>5
  <2>2. (n + 1) % 2 = 1 <=> ~(n % 2 = 1)
    OBVIOUS
  <2> QED
    BY <1>1, <1>5, <2>1, <2>2 DEF Odd, A
<1>6. CASE e \notin data
  <2>1. e \in Xor(data, R, st) <=> n % 2 = 1
    BY <1>1, <1>2, <1>3, <1>4, <1>6
  <2> QED
    BY <1>1, <1>6, <2>1 DEF Odd, A
<1> QED
  BY <1>5, <1>6

----------------------------------------------------------------------------
(* The packed triangle of bits: every pair has a place of its own.         *)

\* One of two numbers that follow each other is even.
LEMMA Half == ASSUME NEW r \in Nat
              PROVE  \E t \in Nat : t = (r * (r - 1)) \div 2 /\ 2 * t = r * (r - 1)
<1>1. PICK q \in Nat : q = r \div 2
  OBVIOUS
<1>2. CASE r = 2 * q
  <2>1. q * (r - 1) \in Nat
    <3>1. CASE q = 0
      BY <3>1
    <3>2. CASE q # 0
      <4>1. r - 1 \in Nat
        BY <1>2, <3>2
      <4> QED
        BY <4>1
    <3> QED
      BY <3>1, <3>2
  <2>2. r * (r - 1) = 2 * (q * (r - 1))
    BY <1>2
  <2>3. (2 * (q * (r - 1))) \div 2 = q * (r - 1)
    BY <2>1
  <2> QED
    BY <2>1, <2>2, <2>3
<1>3. CASE r = 2 * q + 1
  <2>1. q * r \in Nat /\ r - 1 = 2 * q
    BY <1>3
  <2>2. r * (r - 1) = 2 * (q * r)
    BY <2>1
  <2>3. (2 * (q * r)) \div 2 = q * r
    BY <2>1
  <2> QED
    BY <2>1, <2>2, <2>3
<1> QED
  BY <1>1, <1>2, <1>3

\* Where row r of n begins.
Base(r, n) == r * n - (r * (r - 1)) \div 2

\* Row s of the triangle begins after row r ends.
LEMMA BaseStep == ASSUME NEW n \in Nat, NEW r \in Nat, NEW s \in Nat, r < s, s <= n
                  PROVE  Base(r, n) \in Int /\ Base(s, n) \in Int /\ Base(r, n) + (n - r) <= Base(s, n)
<1>1. PICK t \in Nat : t = (r * (r - 1)) \div 2 /\ 2 * t = r * (r - 1)
  BY Half
<1>2. PICK u \in Nat : u = (s * (s - 1)) \div 2 /\ 2 * u = s * (s - 1)
  BY Half
<1>3. PICK x \in Nat : s = r + x /\ x >= 1
  <2>1. s - r \in Nat /\ s = r + (s - r) /\ s - r >= 1
    OBVIOUS
  <2> QED
    BY <2>1
<1>4. PICK y \in Nat : n = r + y /\ y >= x
  <2>1. n - r \in Nat /\ n = r + (n - r) /\ n - r >= x
    BY <1>3
  <2> QED
    BY <2>1
<1>5. (x - 1) * (2 * y - x) >= 0
  <2>1. x - 1 \in Nat /\ 2 * y - x \in Nat
    BY <1>3, <1>4
  <2>2. \A a, b \in Nat : a * b >= 0
    OBVIOUS
  <2> QED
    BY <2>1, <2>2
<1>6. 2 * (s * n - u) - 2 * (r * n - t) - 2 * y = (x - 1) * (2 * y - x)
  <2>1. 2 * u = (r + x) * (r + x - 1)
    BY <1>2, <1>3
  <2>2. 2 * (s * n - u) = 2 * (s * n) - (r + x) * (r + x - 1)
    BY <2>1
  <2>3. 2 * (r * n - t) = 2 * (r * n) - r * (r - 1)
    BY <1>1
  <2>4. s * n = (r + x) * (r + y) /\ r * n = r * (r + y)
    BY <1>3, <1>4
  <2>5. 2 * ((r + x) * (r + y)) - (r + x) * (r + x - 1) - (2 * (r * (r + y)) - r * (r - 1)) - 2 * y
           = (x - 1) * (2 * y - x)
    OBVIOUS
  <2> QED
    BY <2>2, <2>3, <2>4, <2>5
<1>7. s * n - u \in Int /\ r * n - t \in Int
  OBVIOUS
<1>8. r * n - t + y <= s * n - u
  BY <1>5, <1>6, <1>7
<1>9. y = n - r
  BY <1>4
<1> QED
  BY <1>1, <1>2, <1>7, <1>8, <1>9 DEF Base

\* Pairs of a row and a column have their own places, which follow the rows.
LEMMA BitOnce == ASSUME NEW d, d.lost \in Nat,
                        NEW r \in 0 .. d.lost - 1, NEW i \in r .. d.lost - 1,
                        NEW s \in 0 .. d.lost - 1, NEW j \in s .. d.lost - 1,
                        Bit(r, i, d) = Bit(s, j, d)
                 PROVE  r = s /\ i = j
<1>1. PICK n \in Nat : n = d.lost
  OBVIOUS
<1>2. /\ r \in Nat /\ s \in Nat /\ r < n /\ s < n
      /\ i \in Nat /\ j \in Nat /\ i < n /\ j < n /\ r <= i /\ s <= j
  BY <1>1
<1>3. Bit(r, i, d) = Base(r, n) + (i - r) /\ Bit(s, j, d) = Base(s, n) + (j - s)
  BY <1>1 DEF Bit, Base
<1>4. \A a, b \in Nat : a < b /\ b <= n =>
         Base(a, n) \in Int /\ Base(b, n) \in Int /\ Base(a, n) + (n - a) <= Base(b, n)
  BY BaseStep
<1>5. Base(r, n) \in Int /\ Base(s, n) \in Int
  <2>1. n \in Nat /\ n <= n
    OBVIOUS
  <2> QED
    BY <1>2, <1>4, <2>1
<1>6. CASE r < s
  <2>1. Base(r, n) + (n - r) <= Base(s, n)
    BY <1>2, <1>4, <1>6
  <2>2. Base(r, n) + (i - r) = Base(s, n) + (j - s)
    BY <1>3
  <2> QED
    BY <1>2, <1>5, <2>1, <2>2
<1>7. CASE s < r
  <2>1. Base(s, n) + (n - s) <= Base(r, n)
    BY <1>2, <1>4, <1>7
  <2>2. Base(r, n) + (i - r) = Base(s, n) + (j - s)
    BY <1>3
  <2> QED
    BY <1>2, <1>5, <2>1, <2>2
<1>8. CASE r = s
  <2>1. Base(r, n) + (i - r) = Base(r, n) + (j - r)
    BY <1>3, <1>8
  <2> QED
    BY <1>2, <1>5, <1>8, <2>1
<1> QED
  BY <1>2, <1>6, <1>7, <1>8

\* The places there are.
Full(nb) == 0 .. (nb * (nb + 1)) \div 2 - 1

\* Every bit has its place in MatrixM2B.
LEMMA BitIn == ASSUME NEW d, d.lost \in Nat, NEW nb \in Nat, d.lost <= nb,
                      NEW r \in 0 .. d.lost - 1, NEW i \in r .. d.lost - 1
               PROVE  Bit(r, i, d) \in Full(nb)
<1>1. PICK n \in Nat : n = d.lost
  OBVIOUS
<1>2. r \in Nat /\ r < n /\ i \in Nat /\ i < n /\ r <= i /\ n <= nb
  BY <1>1
<1>3. Bit(r, i, d) = Base(r, n) + (i - r)
  BY <1>1 DEF Bit, Base
<1>4. Base(r, n) \in Int /\ Base(n, n) \in Int /\ Base(r, n) + (n - r) <= Base(n, n)
  BY <1>2, BaseStep
<1>5. Base(r, n) >= 0
  <2>1. Base(0, n) = 0
    BY DEF Base
  <2>2. CASE r = 0
    BY <2>1, <2>2
  <2>3. CASE r # 0
    <3>1. 0 \in Nat /\ 0 < r /\ r <= n
      BY <1>2, <2>3
    <3>2. Base(0, n) + (n - 0) <= Base(r, n)
      BY <1>2, <3>1, BaseStep
    <3> QED
      BY <1>4, <2>1, <3>2
  <2> QED
    BY <2>2, <2>3
<1>6. PICK t \in Nat : t = (n * (n - 1)) \div 2 /\ 2 * t = n * (n - 1)
  BY Half
<1>7. PICK u \in Nat : u = (nb * (nb + 1)) \div 2 /\ 2 * u = nb * (nb + 1)
  <2>1. nb + 1 \in Nat /\ (nb + 1) - 1 = nb
    OBVIOUS
  <2>2. PICK u \in Nat : u = ((nb + 1) * ((nb + 1) - 1)) \div 2 /\ 2 * u = (nb + 1) * ((nb + 1) - 1)
    BY <2>1, Half
  <2>3. (nb + 1) * ((nb + 1) - 1) = nb * (nb + 1)
    OBVIOUS
  <2> QED
    BY <2>2, <2>3
<1>8. n * n - t <= u
  <2>1. 2 * (n * n - t) = n * (n + 1)
    <3>1. 2 * (n * n - t) = 2 * (n * n) - n * (n - 1)
      BY <1>6
    <3> QED
      BY <3>1
  <2>2. n * (n + 1) <= nb * (nb + 1)
    <3>1. PICK z \in Nat : nb = n + z
      <4>1. nb - n \in Nat /\ nb = n + (nb - n)
        BY <1>2
      <4> QED
        BY <4>1
    <3>2. nb * (nb + 1) = n * (n + 1) + z * (n + nb + 1)
      BY <3>1
    <3>3. z * (n + nb + 1) >= 0
      <4>1. n + nb + 1 \in Nat
        OBVIOUS
      <4>2. \A a, b \in Nat : a * b >= 0
        OBVIOUS
      <4> QED
        BY <4>1, <4>2
    <3> QED
      BY <3>2, <3>3
  <2>3. n * n - t \in Int
    OBVIOUS
  <2> QED
    BY <1>7, <2>1, <2>2, <2>3
<1>9. Base(n, n) <= u
  BY <1>6, <1>8 DEF Base
<1> QED
  BY <1>2, <1>3, <1>4, <1>5, <1>7, <1>9 DEF Full

----------------------------------------------------------------------------
(* A new line, reduced by those there are.                                 *)

\* The lines begin at their rows.
Begun(d) == /\ d.lost \in Nat /\ d.S \subseteq 0 .. d.lost - 1
            /\ \A k \in d.S : k \in ExtractLine(k, d)

\* A line reduced by the one that begins where it does begins further on.
LEMMA Grows == ASSUME NEW d, Begun(d), NEW w, w \subseteq 0 .. d.lost - 1, w # {},
                      Smallest(w) \in d.S, NEW x, x = SymDiff(w, ExtractLine(Smallest(w), d))
               PROVE  x \subseteq 0 .. d.lost - 1 /\ (x # {} => Smallest(x) > Smallest(w))
<1>1. w \subseteq Nat
  OBVIOUS
<1>2. PICK k \in Nat : k = Smallest(w) /\ k \in w /\ (\A j \in w : k <= j)
  BY <1>1, SmallestIs
<1>3. k \in ExtractLine(k, d) /\ ExtractLine(k, d) \subseteq k .. d.lost - 1
  BY <1>2 DEF Begun, ExtractLine
<1>4. x \subseteq 0 .. d.lost - 1 /\ k \notin x /\ \A j \in x : k <= j
  <2>1. PICK l : l = ExtractLine(k, d)
    OBVIOUS
  <2>2. x = (w \ l) \cup (l \ w)
    BY <1>2, <2>1 DEF SymDiff
  <2>3. k \in w /\ k \in l
    BY <1>2, <1>3, <2>1
  <2>4. \A j \in l : j \in 0 .. d.lost - 1 /\ k <= j
    <3>1. PICK n \in Nat : n = d.lost
      BY DEF Begun
    <3> QED
      BY <1>2, <1>3, <2>1, <3>1
  <2>5. \A j \in x : (j \in w \/ j \in l) /\ j # k
    BY <2>2, <2>3
  <2> QED
    BY <1>2, <2>4, <2>5
<1>5. ASSUME x # {} PROVE Smallest(x) \in x
  <2>1. x \subseteq Nat
    BY <1>4
  <2> QED
    BY <1>5, <2>1, SmallestIs
<1>6. ASSUME x # {} PROVE Smallest(x) > k
  <2>1. Smallest(x) \in Nat /\ Smallest(x) # k /\ k <= Smallest(x)
    BY <1>4, <1>5, <1>6
  <2> QED
    BY <2>1
<1> QED
  BY <1>2, <1>4, <1>6

\* One step of the loop, what follows given by f.
Step(f, w, d) ==
    IF w = {} \/ Smallest(w) \notin d.S
    THEN [line |-> w, used |-> {}]
    ELSE LET r == f[SymDiff(w, ExtractLine(Smallest(w), d))]
         IN  [r EXCEPT !.used = @ \cup {Smallest(w)}]

\* f gives what the loop does of the lines that begin in the last n columns.
Loops(f, n, d) == \A w \in SUBSET (0 .. d.lost - 1) :
                     w = {} \/ Smallest(w) + n >= d.lost => f[w] = Step(f, w, d)

\* The loop is a function, because the lines it meets begin further and further on.
LEMMA LoopsExist == ASSUME NEW d, Begun(d) PROVE \A n \in Nat : \E f : Loops(f, n, d)
<1> DEFINE A == {n \in Nat : ~ \E f : Loops(f, n, d)}
           X == SUBSET (0 .. d.lost - 1)
<1> SUFFICES ASSUME A # {} PROVE FALSE
  OBVIOUS
<1>1. PICK n \in A : \A j \in A : n <= j
  BY Least
<1>0. \A w \in X : w # {} => Smallest(w) \in 0 .. d.lost - 1 /\ Smallest(w) \in Nat
  <2> TAKE w \in X
  <2>1. w \subseteq Nat /\ w \subseteq 0 .. d.lost - 1
    OBVIOUS
  <2> QED
    BY <2>1, SmallestIs
<1>2. PICK L \in Nat : L = d.lost
  BY DEF Begun
<1>3. PICK f : n = 0 \/ Loops(f, n - 1, d)
  <2>1. n # 0 => n - 1 \in Nat /\ n - 1 \notin A
    BY <1>1
  <2> QED
    BY <2>1
<1> DEFINE g == [w \in X |-> IF w # {} /\ Smallest(w) + n > d.lost THEN f[w] ELSE Step(f, w, d)]
<1>4. \A w \in X : g[w] = IF w # {} /\ Smallest(w) + n > d.lost THEN f[w] ELSE Step(f, w, d)
  OBVIOUS
<1>5. ASSUME NEW w \in X, w = {} \/ Smallest(w) + n >= d.lost PROVE g[w] = Step(g, w, d)
  <2>1. CASE w = {} \/ Smallest(w) \notin d.S
    <3>1. Step(g, w, d) = Step(f, w, d)
      BY <2>1 DEF Step
    <3>2. CASE w # {} /\ Smallest(w) + n > d.lost
      <4>1. n # 0
        BY <1>0, <1>2, <3>2
      <4>2. Smallest(w) + (n - 1) >= d.lost
        BY <1>0, <1>1, <1>2, <3>2
      <4>3. f[w] = Step(f, w, d)
        BY <1>3, <4>1, <4>2 DEF Loops
      <4> QED
        BY <1>4, <3>1, <3>2, <4>3
    <3>3. CASE ~(w # {} /\ Smallest(w) + n > d.lost)
      BY <1>4, <3>1, <3>3
    <3> QED
      BY <3>2, <3>3
  <2>2. CASE w # {} /\ Smallest(w) \in d.S
    <3>1. PICK x : x = SymDiff(w, ExtractLine(Smallest(w), d))
      OBVIOUS
    <3>2. x \in X /\ (x # {} => Smallest(x) > Smallest(w))
      BY <2>2, <3>1, Grows
    <3>3. g[x] = f[x]
      <4>1. CASE x # {}
        <5>1. Smallest(x) + n > d.lost
          <6>1. PICK a \in Nat : a = Smallest(x)
            BY <1>0, <3>2, <4>1
          <6>2. PICK b \in Nat : b = Smallest(w)
            BY <1>0, <2>2
          <6>3. b + n >= L /\ n \in Nat
            BY <1>1, <1>2, <1>5, <2>2, <6>2
          <6>4. a > b
            BY <3>2, <4>1, <6>1, <6>2
          <6>5. a + n > L
            BY <6>3, <6>4
          <6> QED
            BY <1>2, <6>1, <6>5
        <5> QED
          BY <1>4, <3>2, <4>1, <5>1
      <4>2. CASE x = {}
        <5>1. n # 0
          <6>1. PICK b \in Nat : b = Smallest(w)
            BY <1>0, <2>2
          <6>2. b + n >= L /\ b <= L - 1 /\ n \in Nat
            <7>1. b + n >= L
              BY <1>2, <1>5, <2>2, <6>1
            <7>2. b \in 0 .. L - 1
              BY <1>0, <1>2, <2>2, <6>1
            <7> QED
              BY <1>1, <7>1, <7>2
          <6> QED
            BY <6>2
        <5>2. f[x] = Step(f, x, d)
          BY <1>3, <3>2, <4>2, <5>1 DEF Loops
        <5> QED
          BY <1>4, <3>2, <4>2, <5>2
      <4> QED
        BY <4>1, <4>2
    <3>4. Step(g, w, d) = Step(f, w, d)
      <4> HIDE DEF g
      <4> QED
        BY <2>2, <3>1, <3>3 DEF Step
    <3>5. CASE Smallest(w) + n > d.lost
      <4>1. n # 0 /\ Smallest(w) + (n - 1) >= d.lost
        BY <1>0, <1>1, <1>2, <2>2, <3>5
      <4>2. f[w] = Step(f, w, d)
        BY <1>3, <4>1 DEF Loops
      <4> QED
        BY <1>4, <2>2, <3>4, <3>5, <4>2
    <3>6. CASE ~(Smallest(w) + n > d.lost)
      BY <1>4, <3>4, <3>6
    <3> QED
      BY <3>5, <3>6
  <2> QED
    BY <2>1, <2>2
<1>6. Loops(g, n, d)
  <2> HIDE DEF g
  <2> QED
    BY <1>5 DEF Loops
<1> HIDE DEF g
<1> QED
  BY <1>1, <1>6

\* What the loop does is defined.
LEMMA ReducedIs ==
    ASSUME NEW d, Begun(d)
    PROVE  \E f : /\ \A w \in SUBSET (0 .. d.lost - 1) : f[w] = Step(f, w, d)
                  /\ \A w : Reduced(w, d) = f[w]
<1> DEFINE X == SUBSET (0 .. d.lost - 1)
           F(f) == f = [w \in X |-> IF w = {} \/ Smallest(w) \notin d.S
                                    THEN [line |-> w, used |-> {}]
                                    ELSE LET r == f[SymDiff(w, ExtractLine(Smallest(w), d))]
                                         IN  [r EXCEPT !.used = @ \cup {Smallest(w)}]]
           t == CHOOSE f : F(f)
<1>1. PICK h : Loops(h, d.lost, d)
  BY LoopsExist DEF Begun
<1>2. \A w \in X : h[w] = Step(h, w, d)
  <2> TAKE w \in X
  <2>1. CASE w = {}
    BY <1>1, <2>1 DEF Loops
  <2>2. CASE w # {}
    <3>1. w \subseteq Nat /\ w \subseteq 0 .. d.lost - 1
      OBVIOUS
    <3>2. Smallest(w) \in 0 .. d.lost - 1
      BY <2>2, <3>1, SmallestIs
    <3>3. Smallest(w) + d.lost >= d.lost
      BY <3>2 DEF Begun
    <3> QED
      BY <1>1, <3>3 DEF Loops
  <2> QED
    BY <2>1, <2>2
<1> DEFINE g == [w \in X |-> h[w]]
<1>3. \A w \in X : g[w] = h[w]
  OBVIOUS
<1>4. ASSUME NEW w \in X PROVE g[w] = Step(g, w, d)
  <2> HIDE DEF g
  <2>1. CASE w = {} \/ Smallest(w) \notin d.S
    BY <1>2, <1>3, <2>1 DEF Step
  <2>2. CASE w # {} /\ Smallest(w) \in d.S
    <3>1. PICK x : x = SymDiff(w, ExtractLine(Smallest(w), d))
      OBVIOUS
    <3>2. x \in X
      BY <2>2, <3>1, Grows
    <3> QED
      BY <1>2, <1>3, <2>2, <3>1, <3>2 DEF Step
  <2> QED
    BY <2>1, <2>2
<1>5. F(g)
  <2>1. g = [w \in X |-> g[w]]
    BY <1>3
  <2> HIDE DEF g
  <2> QED
    BY <1>4, <2>1 DEF Step
<1>6. F(t)
  <2> HIDE DEF g, F
  <2> QED
    BY <1>5
<1>7. \A w \in X : t[w] = Step(t, w, d)
  <2>1. \A w \in X : t[w] = IF w = {} \/ Smallest(w) \notin d.S
                                    THEN [line |-> w, used |-> {}]
                                    ELSE LET r == t[SymDiff(w, ExtractLine(Smallest(w), d))]
                                         IN  [r EXCEPT !.used = @ \cup {Smallest(w)}]
    <3> HIDE DEF t
    <3> QED
      BY <1>6
  <2> HIDE DEF t
  <2> QED
    BY <2>1 DEF Step
<1>8. \A w : Reduced(w, d) = t[w]
  BY DEF Reduced
<1> HIDE DEF t
<1> QED
  BY <1>7, <1>8

\* r is what reducing w by the lines gives: w with those used added to it, and
\* no line begins as it does.
Reduces(w, r, d) ==
    /\ r = [line |-> r.line, used |-> r.used]
    /\ r.line \subseteq 0 .. d.lost - 1 /\ r.used \subseteq d.S
    /\ w = {} => r.used = {}
    /\ \A k \in r.used : Smallest(w) <= k
    /\ r.line # {} => Smallest(r.line) \notin d.S
    /\ \A m \in 0 .. d.lost - 1 :
          m \in r.line <=> ~(Odd({k \in r.used : m \in ExtractLine(k, d)}) <=> m \in w)

\* What holds of the rest of the loop holds of all of it.
LEMMA ReducesStep ==
    ASSUME NEW d, Begun(d), NEW w, w \subseteq 0 .. d.lost - 1, w # {}, Smallest(w) \in d.S,
           NEW x, x = SymDiff(w, ExtractLine(Smallest(w), d)), NEW r, Reduces(x, r, d),
           NEW q, q = [r EXCEPT !.used = @ \cup {Smallest(w)}]
    PROVE  Reduces(w, q, d)
<1>1. w \subseteq Nat
  BY DEF Begun
<1>2. PICK s \in Nat : s = Smallest(w)
  BY <1>1, SmallestIs
<1>3. PICK u : u = r.used
  OBVIOUS
<1>4. q.line = r.line /\ q.used = u \cup {s} /\ q = [line |-> q.line, used |-> q.used]
  BY <1>2, <1>3 DEF Reduces
<1>5. \A k \in u : k \in Nat /\ s < k
  <2> TAKE k \in u
  <2>1. x # {} /\ Smallest(x) <= k /\ k \in Nat
    BY <1>3 DEF Reduces, Begun
  <2>2. Smallest(x) > s
    BY <1>2, <2>1, Grows
  <2>3. Smallest(x) \in Nat
    <3>1. x \subseteq 0 .. d.lost - 1
      BY Grows
    <3>2. x \subseteq Nat
      BY <3>1 DEF Begun
    <3> QED
      BY <2>1, <3>2, SmallestIs
  <2> QED
    BY <2>1, <2>2, <2>3
<1>6. s \notin u /\ \A k \in q.used : Smallest(w) <= k
  BY <1>2, <1>4, <1>5
<1>7. ASSUME NEW m \in 0 .. d.lost - 1
      PROVE  m \in q.line <=> ~(Odd({k \in q.used : m \in ExtractLine(k, d)}) <=> m \in w)
  <2> DEFINE A == {k \in u : m \in ExtractLine(k, d)}
             B == {k \in q.used : m \in ExtractLine(k, d)}
  <2>1. IsFiniteSet(A)
    <3>1. IsFiniteSet(0 .. d.lost - 1)
      BY FiniteTo DEF Begun
    <3>2. A \in SUBSET (0 .. d.lost - 1)
      BY <1>3 DEF Reduces, Begun
    <3> HIDE DEF A
    <3> QED
      BY <3>1, <3>2, FS_Subset
  <2>2. m \in r.line <=> ~(Odd(A) <=> m \in x)
    BY <1>3 DEF Reduces
  <2>3. m \in x <=> ~(m \in w <=> m \in ExtractLine(s, d))
    BY <1>2 DEF SymDiff
  <2>4. CASE m \in ExtractLine(s, d)
    <3>1. B = A \cup {s} /\ s \notin A
      BY <1>4, <1>6, <2>4
    <3>2. Odd(B) <=> ~Odd(A)
      <4> HIDE DEF A, B
      <4> QED
        BY <2>1, <3>1, OddAdd
    <3> HIDE DEF A, B
    <3>3. m \in r.line <=> ~(Odd(B) <=> m \in w)
      BY <2>2, <2>3, <2>4, <3>2
    <3> QED
      BY <1>4, <3>3 DEF B
  <2>5. CASE m \notin ExtractLine(s, d)
    <3>1. B = A
      BY <1>4, <2>5
    <3> HIDE DEF A, B
    <3>2. m \in r.line <=> ~(Odd(B) <=> m \in w)
      BY <2>2, <2>3, <2>5, <3>1
    <3> QED
      BY <1>4, <3>2 DEF B
  <2> QED
    BY <2>4, <2>5
<1>8. q.line \subseteq 0 .. d.lost - 1 /\ q.used \subseteq d.S
  BY <1>2, <1>3, <1>4 DEF Reduces
<1>9. q.line # {} => Smallest(q.line) \notin d.S
  BY <1>4 DEF Reduces
<1> QED
  BY <1>4, <1>6, <1>7, <1>8, <1>9 DEF Reduces

\* The loop leaves the XOR of the new line and of those it used, of which none begins
\* where the result does.
LEMMA ReducedHas ==
    ASSUME NEW d, Begun(d), NEW v, v \subseteq 0 .. d.lost - 1
    PROVE  Reduces(v, Reduced(v, d), d)
<1>1. PICK f : /\ \A w \in SUBSET (0 .. d.lost - 1) : f[w] = Step(f, w, d)
               /\ \A w : Reduced(w, d) = f[w]
  BY ReducedIs
<1>2. PICK L \in Nat : L = d.lost
  BY DEF Begun
<1>3. ASSUME NEW w \in SUBSET (0 .. d.lost - 1), w = {} \/ Smallest(w) \notin d.S
      PROVE  Reduces(w, f[w], d)
  <2>1. f[w] = [line |-> w, used |-> {}]
    BY <1>1, <1>3 DEF Step
  <2>2. ASSUME NEW m
        PROVE  m \in w <=> ~(Odd({k \in {} : m \in ExtractLine(k, d)}) <=> m \in w)
    <3>1. {k \in {} : m \in ExtractLine(k, d)} = {}
      OBVIOUS
    <3>2. ~Odd({k \in {} : m \in ExtractLine(k, d)})
      BY <3>1, OddEmpty
    <3> QED
      BY <3>2
  <2>3. PICK r : r = f[w]
    OBVIOUS
  <2>4. r.line = w /\ r.used = {} /\ r = [line |-> r.line, used |-> r.used]
    BY <2>1, <2>3
  <2> QED
    BY <1>3, <2>2, <2>3, <2>4 DEF Reduces
<1> DEFINE A == {n \in Nat : \E w \in SUBSET (0 .. d.lost - 1) :
                    /\ w # {} /\ Smallest(w) \in d.S /\ Smallest(w) + n = d.lost
                    /\ ~Reduces(w, f[w], d)}
<1>4. A = {}
  <2> SUFFICES ASSUME A # {} PROVE FALSE
    OBVIOUS
  <2>1. PICK n \in A : \A j \in A : n <= j
    BY Least
  <2>2. PICK w \in SUBSET (0 .. d.lost - 1) :
                    /\ w # {} /\ Smallest(w) \in d.S /\ Smallest(w) + n = d.lost
                    /\ ~Reduces(w, f[w], d)
    BY <2>1
  <2>3. PICK x : x = SymDiff(w, ExtractLine(Smallest(w), d))
    OBVIOUS
  <2>4. x \in SUBSET (0 .. d.lost - 1) /\ (x # {} => Smallest(x) > Smallest(w))
    BY <2>2, <2>3, Grows
  <2>5. Reduces(x, f[x], d)
    <3>1. CASE x = {} \/ Smallest(x) \notin d.S
      BY <1>3, <2>4, <3>1
    <3>2. CASE x # {} /\ Smallest(x) \in d.S
      <4>1. PICK a \in Nat : a = Smallest(x) /\ a <= L - 1
        BY <1>2, <3>2 DEF Begun
      <4>2. PICK b \in Nat : b = Smallest(w)
        BY <1>2, <2>2 DEF Begun
      <4>3. b + n = L /\ n \in Nat /\ a > b
        BY <1>2, <2>1, <2>2, <2>4, <3>2, <4>1, <4>2
      <4>4. L - a \in Nat /\ L - a < n /\ a + (L - a) = L
        BY <4>1, <4>2, <4>3
      <4>5. L - a \notin A
        BY <2>1, <4>4
      <4> QED
        BY <1>2, <2>4, <3>2, <4>1, <4>4, <4>5
    <3> QED
      BY <3>1, <3>2
  <2>6. f[w] = [f[x] EXCEPT !.used = @ \cup {Smallest(w)}]
    BY <1>1, <2>2, <2>3 DEF Step
  <2>7. Reduces(w, f[w], d)
    BY <2>2, <2>3, <2>5, <2>6, ReducesStep
  <2> QED
    BY <2>2, <2>7
<1>5. Reduces(v, f[v], d)
  <2>1. CASE v = {} \/ Smallest(v) \notin d.S
    BY <1>3, <2>1
  <2>2. CASE v # {} /\ Smallest(v) \in d.S
    <3>1. PICK b \in Nat : b = Smallest(v) /\ b <= L - 1
      BY <1>2, <2>2 DEF Begun
    <3>2. L - b \in Nat /\ b + (L - b) = L
      BY <3>1
    <3>3. L - b \notin A
      BY <1>4
    <3> QED
      BY <1>2, <2>2, <3>1, <3>2, <3>3
  <2> QED
    BY <2>1, <2>2
<1> QED
  BY <1>1, <1>5

----------------------------------------------------------------------------
(* The decoder: the order numbers of the missing rows, and the lines.      *)

\* The fields of a FragDecoder.
Record(d) == d = [nb |-> d.nb, lastRx |-> d.lastRx, lost |-> d.lost, missing |-> d.missing,
                  m2b |-> d.m2b, S |-> d.S, line |-> d.line, error |-> d.error]

\* The rows up to the last received have no order number, or one of their own.
Counted(d) ==
    /\ d.nb \in Nat /\ d.lastRx \in Nat /\ d.lost \in Nat
    /\ d.missing \in [0 .. d.nb - 1 -> Nat]
    /\ d.lastRx <= d.nb + 1 /\ d.lost <= d.nb /\ d.lost <= d.lastRx
    /\ \A i \in 0 .. d.nb - 1 : IF i < d.lastRx THEN d.missing[i] <= d.lost
                                               ELSE d.missing[i] = 1
    /\ \A i, j \in 0 .. d.nb - 1 :
          i < d.lastRx /\ j < d.lastRx /\ d.missing[i] = d.missing[j] /\ d.missing[i] # 0 => i = j
    /\ \A k \in 1 .. d.lost : \E i \in 0 .. d.nb - 1 : i < d.lastRx /\ d.missing[i] = k
    /\ d.lastRx \in 1 .. d.nb => d.missing[d.lastRx - 1] = 0

\* Every line in the triangle begins at its row, the others are as they were.
Lined(d) ==
    /\ d.S \subseteq 0 .. d.lost - 1 /\ d.line = Cardinality(d.S)
    /\ d.m2b \subseteq Full(d.nb)
    /\ d.S = {} => d.m2b = Full(d.nb)
    /\ d.S # {} => d.lastRx = d.nb + 1
    /\ \A r \in (0 .. d.lost - 1) \ d.S : \A i \in r .. d.lost - 1 : Bit(r, i, d) \in d.m2b
    /\ \A k \in d.S : k \in ExtractLine(k, d)

\* A sound decoder.
DecInv(d) == Record(d) /\ Counted(d) /\ Lined(d) /\ d.error \in BOOLEAN

\* A decoder without lines.
LEMMA LinedIfNone ==
    ASSUME NEW d, d.nb \in Nat, d.lost \in Nat, d.lost <= d.nb,
           d.S = {}, d.line = 0, d.m2b = Full(d.nb)
    PROVE  Lined(d)
<1>1. ASSUME NEW r \in (0 .. d.lost - 1) \ d.S, NEW i \in r .. d.lost - 1
      PROVE  Bit(r, i, d) \in d.m2b
  <2>1. r \in 0 .. d.lost - 1
    OBVIOUS
  <2> QED
    BY <1>1, <2>1, BitIn
<1> QED
  BY <1>1, FS_EmptySet DEF Lined

\* The decoder before a session was ever set up.
LEMMA NoDecoderInv == DecInv(NoDecoder)
<1>1. PICK d : d = NoDecoder
  OBVIOUS
<1>2. /\ d.nb = 0 /\ d.lastRx = 0 /\ d.lost = 0 /\ d.missing = [i \in 0 .. -1 |-> 1]
      /\ d.m2b = {} /\ d.S = {} /\ d.line = 0 /\ d.error = FALSE /\ Record(d)
  BY <1>1 DEF NoDecoder, Record
<1>3. 0 .. d.nb - 1 = {} /\ d.missing \in [0 .. d.nb - 1 -> Nat]
  BY <1>2
<1>4. Counted(d)
  BY <1>2, <1>3 DEF Counted
<1>5. d.m2b = Full(d.nb)
  <2>1. (0 * (0 + 1)) \div 2 = 0
    OBVIOUS
  <2> QED
    BY <1>2, <2>1 DEF Full
<1>6. Lined(d)
  BY <1>2, <1>5, LinedIfNone
<1> QED
  BY <1>1, <1>2, <1>4, <1>6 DEF DecInv

\* The decoder that FragDecoderInit leaves.
LEMMA DecoderInitInv ==
    ASSUME NEW n \in Nat \ {0}, NEW c, c.error \in BOOLEAN, NEW d, d = DecoderInit(n, c)
    PROVE  DecInv(d) /\ d.nb = n /\ d.S = {} /\ d.lastRx = 0 /\ d.line = 0
<1>1. /\ d.nb = n /\ d.lastRx = 0 /\ d.lost = 0 /\ d.missing = [i \in 0 .. n - 1 |-> 1]
      /\ d.m2b = Full(n) /\ d.S = {} /\ d.line = 0 /\ d.error = c.error /\ Record(d)
  BY DEF DecoderInit, Record, Full
<1>2. d.missing \in [0 .. d.nb - 1 -> Nat]
  BY <1>1
<1>3. Counted(d)
  <2>1. \A i \in 0 .. d.nb - 1 : ~(i < 0) /\ d.missing[i] = 1
    BY <1>1
  <2> QED
    BY <1>1, <1>2, <2>1 DEF Counted
<1>4. Lined(d)
  BY <1>1, LinedIfNone
<1> QED
  BY <1>1, <1>3, <1>4 DEF DecInv

\* The end of the rows that are missing if fragment c comes next.
Top(c, d) == IF c - 1 <= d.nb THEN c - 1 ELSE d.nb

\* What FindMissing does, without the cardinalities.
Ready(c, d) == /\ d.nb \in Nat /\ d.lastRx \in Nat /\ d.lost \in Nat /\ d.lastRx <= d.nb + 1
               /\ d.missing \in [0 .. d.nb - 1 -> Nat] /\ Record(d)
               /\ c \in Nat \ {0} /\ d.lastRx <= c

\* e is d with the rows before fragment c counted.
Found(c, d, e) ==
    /\ Record(e) /\ e.nb = d.nb /\ e.m2b = d.m2b /\ e.S = d.S /\ e.line = d.line
    /\ e.error = d.error
    /\ e.missing \in [0 .. d.nb - 1 -> Nat]
    /\ \A i \in 0 .. d.nb - 1 :
          e.missing[i] = IF d.lastRx <= i /\ i < Top(c, d) THEN d.lost + 1 + i - d.lastRx
                         ELSE d.missing[i]
    /\ e.lost = IF d.lastRx < Top(c, d) THEN d.lost + Top(c, d) - d.lastRx ELSE d.lost
    /\ e.lastRx = IF c - 1 < d.nb /\ d.lastRx < d.nb THEN c ELSE d.nb + 1

\* What FragFindMissingFrags does, row by row.
LEMMA FindMissingIs == ASSUME NEW c, NEW d, Ready(c, d)
                       PROVE  Found(c, d, FindMissing(c, d))
<1> USE DEF Ready
<1>a. PICK e : e = FindMissing(c, d)
  OBVIOUS
<1> DEFINE new == {i \in d.lastRx .. c - 2 : i < d.nb}
           stop == IF c - 1 > d.lastRx THEN c - 1 ELSE d.lastRx
           mis == [i \in 0 .. d.nb - 1 |-> IF i \in new
                      THEN d.lost + Cardinality({j \in new : j <= i}) ELSE d.missing[i]]
<1>1. PICK a \in Nat : a = d.lastRx
  OBVIOUS
<1>2. PICK n \in Nat : n = d.nb
  OBVIOUS
<1>3. PICK l \in Nat : l = d.lost
  OBVIOUS
<1>0. PICK top \in Int : top = Top(c, d) /\ (top = IF c - 1 <= d.nb THEN c - 1 ELSE d.nb)
  BY DEF Top
<1>4. top \in Nat /\ top <= n /\ a <= n + 1 /\ a <= c
  BY <1>0, <1>1, <1>2
<1>5. new = a .. top - 1
  BY <1>0, <1>1, <1>2
<1>6. Cardinality(new) = IF a < top THEN top - a ELSE 0
  <2>0. PICK z \in Int : z = top - 1
    BY <1>4
  <2>1. Cardinality(a .. z) = IF a > z THEN 0 ELSE z - a + 1
    BY FS_Interval
  <2> HIDE DEF new
  <2> QED
    BY <1>4, <1>5, <2>0, <2>1
<1>7. ASSUME NEW i \in Int, a <= i, i < top
      PROVE  i \in new /\ Cardinality({j \in new : j <= i}) = i - a + 1
  <2>1. {j \in new : j <= i} = a .. i
    <3> HIDE DEF new
    <3> QED
      BY <1>4, <1>5, <1>7
  <2>2. Cardinality(a .. i) = IF a > i THEN 0 ELSE i - a + 1
    BY FS_Interval
  <2> HIDE DEF new
  <2>3. i \in new
    BY <1>4, <1>5, <1>7
  <2>4. Cardinality(a .. i) = i - a + 1
    BY <1>7, <2>2
  <2> QED
    BY <2>1, <2>3, <2>4
<1>8. e = [d EXCEPT !.lost = @ + Cardinality(new),
                    !.missing = [i \in DOMAIN @ |->
                       IF i \in new THEN d.lost + Cardinality({j \in new : j <= i}) ELSE @[i]],
                    !.lastRx = IF stop < d.nb THEN c ELSE d.nb + 1]
  BY <1>a DEF FindMissing
<1>9. /\ e.lost = d.lost + Cardinality(new)
      /\ e.missing = [i \in DOMAIN d.missing |->
            IF i \in new THEN d.lost + Cardinality({j \in new : j <= i}) ELSE d.missing[i]]
      /\ e.lastRx = (IF stop < d.nb THEN c ELSE d.nb + 1)
      /\ e.nb = d.nb /\ e.m2b = d.m2b /\ e.S = d.S /\ e.line = d.line /\ e.error = d.error
      /\ Record(e)
  <2> HIDE DEF new, stop
  <2> QED
    BY <1>8 DEF Record
<1>10. \A i \in 0 .. d.nb - 1 :
          e.missing[i] = IF a <= i /\ i < top THEN l + 1 + i - a ELSE d.missing[i]
  <2> TAKE i \in 0 .. d.nb - 1
  <2>0. i \in Int /\ i \in DOMAIN d.missing
    OBVIOUS
  <2> HIDE DEF new
  <2>1. CASE a <= i /\ i < top
    <3>1. i \in new /\ Cardinality({j \in new : j <= i}) = i - a + 1
      BY <1>7, <2>0, <2>1
    <3>2. e.missing[i] = l + (i - a + 1)
      BY <1>3, <1>9, <2>0, <3>1
    <3> QED
      BY <2>0, <2>1, <3>2
  <2>2. CASE ~(a <= i /\ i < top)
    <3>1. i \notin new
      BY <1>4, <1>5, <2>0, <2>2
    <3> QED
      BY <1>9, <2>0, <2>2, <3>1
  <2> QED
    BY <2>1, <2>2
<1>11. e.missing \in [0 .. d.nb - 1 -> Nat]
  <2>1. DOMAIN e.missing = 0 .. d.nb - 1 /\ e.missing = [i \in DOMAIN e.missing |-> e.missing[i]]
    <3> HIDE DEF new
    <3> QED
      BY <1>9
  <2>2. \A i \in 0 .. d.nb - 1 : e.missing[i] \in Nat
    <3> TAKE i \in 0 .. d.nb - 1
    <3>1. CASE a <= i /\ i < top
      <4>1. e.missing[i] = l + 1 + i - a /\ i \in Int
        BY <1>10, <3>1
      <4> QED
        BY <3>1, <4>1
    <3>2. CASE ~(a <= i /\ i < top)
      BY <1>10, <3>2
    <3> QED
      BY <3>1, <3>2
  <2> QED
    BY <2>1, <2>2
<1>12. e.lost = IF a < top THEN l + top - a ELSE l
  <2> HIDE DEF new
  <2> QED
    BY <1>3, <1>4, <1>6, <1>9
<1>13. (stop < d.nb) <=> (c - 1 < d.nb /\ d.lastRx < d.nb)
  BY <1>1, <1>2
<1> HIDE DEF new, stop, mis
<1> QED
  BY <1>a, <1>0, <1>1, <1>3, <1>9, <1>10, <1>11, <1>12, <1>13 DEF Found

\* The rows below a of n are numbered from 1 to l, or received.
Numbered(D, n, a, l) ==
    /\ \A i \in 0 .. n - 1 : i < a => D[i] <= l
    /\ \A i, j \in 0 .. n - 1 : i < a /\ j < a /\ D[i] = D[j] /\ D[i] # 0 => i = j
    /\ \A k \in 1 .. l : \E i \in 0 .. n - 1 : i < a /\ D[i] = k

\* More rows are numbered, up to t, and those up to b received.
Extended(D, E, n, a, l, t, b, m) ==
    /\ D \in [0 .. n - 1 -> Nat] /\ E \in [0 .. n - 1 -> Nat]
    /\ Numbered(D, n, a, l) /\ t <= n /\ a <= b /\ t <= b
    /\ \A i \in 0 .. n - 1 : i < b => i < a \/ i < t \/ D[i] = 0
    /\ \A i \in 0 .. n - 1 : E[i] = IF a <= i /\ i < t THEN l + 1 + i - a ELSE D[i]
    /\ m = IF a < t THEN l + t - a ELSE l

\* The rows between two that are received get the next numbers.
LEMMA Numbering ==
    ASSUME NEW n \in Nat, NEW a \in Nat, NEW l \in Nat, NEW t \in Nat, NEW b \in Nat, NEW m \in Nat,
           NEW D, NEW E, Extended(D, E, n, a, l, t, b, m)
    PROVE  Numbered(E, n, b, m)
<1> USE DEF Extended
<1>1. \A i \in 0 .. n - 1 : i < b => E[i] <= m
  <2> TAKE i \in 0 .. n - 1
  <2> HAVE i < b
  <2>0. i \in Nat /\ D[i] \in Nat
    OBVIOUS
  <2>1. CASE a <= i /\ i < t
    <3>1. E[i] = l + 1 + i - a /\ m = l + t - a
      BY <2>0, <2>1
    <3> QED
      BY <2>0, <2>1, <3>1
  <2>2. CASE i < a
    <3>1. E[i] = D[i] /\ D[i] <= l /\ l <= m
      BY <2>0, <2>2 DEF Numbered
    <3> QED
      BY <2>0, <3>1
  <2>3. CASE i >= a /\ i >= t
    <3>1. E[i] = D[i] /\ D[i] = 0
      BY <2>0, <2>3
    <3> QED
      BY <3>1
  <2> QED
    BY <2>0, <2>1, <2>2, <2>3
<1>2. ASSUME NEW i \in 0 .. n - 1, NEW j \in 0 .. n - 1, i < b, j < b, E[i] = E[j], E[i] # 0
      PROVE  i = j
  <2>0. i \in Nat /\ j \in Nat
    OBVIOUS
  <2>1. ASSUME NEW k \in 0 .. n - 1, k < b, E[k] # 0
        PROVE  \/ a <= k /\ k < t /\ E[k] = l + 1 + k - a
               \/ k < a /\ E[k] = D[k] /\ D[k] \in Nat /\ D[k] <= l
    <3>0. k \in Nat /\ D[k] \in Nat
      OBVIOUS
    <3>1. CASE a <= k /\ k < t
      BY <3>1
    <3>2. CASE k < a
      BY <3>0, <3>2 DEF Numbered
    <3>3. CASE k >= a /\ k >= t
      <4>1. E[k] = D[k] /\ D[k] = 0
        BY <2>1, <3>0, <3>3
      <4> QED
        BY <2>1, <4>1
    <3> QED
      BY <3>0, <3>1, <3>2, <3>3
  <2>2. CASE i >= a /\ j >= a
    <3>1. E[i] = l + 1 + i - a /\ E[j] = l + 1 + j - a
      BY <1>2, <2>0, <2>1, <2>2
    <3>2. l + 1 + i - a = l + 1 + j - a
      BY <1>2, <3>1
    <3> QED
      BY <2>0, <3>2
  <2>3. CASE i < a /\ j < a
    <3>1. E[i] = D[i] /\ E[j] = D[j]
      BY <1>2, <2>0, <2>1, <2>3
    <3> QED
      BY <1>2, <2>3, <3>1 DEF Numbered
  <2>4. CASE i < a /\ j >= a
    <3>1. E[i] \in Nat /\ E[i] <= l /\ E[j] = l + 1 + j - a
      BY <1>2, <2>0, <2>1, <2>4
    <3> QED
      BY <1>2, <2>0, <2>4, <3>1
  <2>5. CASE i >= a /\ j < a
    <3>1. E[j] \in Nat /\ E[j] <= l /\ E[i] = l + 1 + i - a
      BY <1>2, <2>0, <2>1, <2>5
    <3> QED
      BY <1>2, <2>0, <2>5, <3>1
  <2> QED
    BY <2>0, <2>2, <2>3, <2>4, <2>5
<1>3. ASSUME NEW k \in 1 .. m PROVE \E i \in 0 .. n - 1 : i < b /\ E[i] = k
  <2>1. CASE k <= l
    <3>1. PICK i \in 0 .. n - 1 : i < a /\ D[i] = k
      <4>1. k \in 1 .. l
        BY <2>1
      <4> QED
        BY <4>1 DEF Numbered
    <3>2. i < b /\ E[i] = k
      BY <3>1
    <3> QED
      BY <3>2
  <2>2. CASE k > l
    <3>1. a < t /\ k <= l + t - a
      BY <2>2
    <3>2. PICK i \in Int : i = a + k - 1 - l
      OBVIOUS
    <3>3. i \in 0 .. n - 1 /\ a <= i /\ i < t /\ i < b /\ k = l + 1 + i - a
      BY <2>2, <3>1, <3>2
    <3>4. E[i] = k
      BY <3>3
    <3> QED
      BY <3>3, <3>4
  <2> QED
    BY <2>1, <2>2
<1> QED
  BY <1>1, <1>2, <1>3 DEF Numbered

\* The decoder's numbers, as an array.
LEMMA CountedNumbered ==
    ASSUME NEW d, Counted(d)
    PROVE  Numbered(d.missing, d.nb, d.lastRx, d.lost)
BY DEF Counted, Numbered

\* Two functions are the same.
LEMMA SameFunction ==
    ASSUME NEW X, NEW D \in [X -> Nat], NEW E \in [X -> Nat], \A i \in X : E[i] = D[i]
    PROVE  E = D
OBVIOUS

\* A coded fragment closes the count of the missing rows.
LEMMA FindCoded ==
    ASSUME NEW d, DecInv(d), NEW c \in Nat, c > d.nb, NEW e, e = FindMissing(c, d)
    PROVE  /\ DecInv(e) /\ e.nb = d.nb /\ e.lastRx = d.nb + 1 /\ e.S = d.S /\ e.line = d.line
           /\ e.error = d.error
           /\ d.lastRx = d.nb + 1 => e = d
           /\ \A i \in 0 .. d.nb - 1 : e.missing[i] = 0 => i < d.lastRx /\ d.missing[i] = 0
<1>1. PICK n \in Nat : n = d.nb
  BY DEF DecInv, Counted
<1>2. PICK a \in Nat : a = d.lastRx /\ a <= n + 1
  BY <1>1 DEF DecInv, Counted
<1>3. PICK l \in Nat : l = d.lost /\ l <= n /\ l <= a
  BY <1>1, <1>2 DEF DecInv, Counted
<1>4. n = Top(c, d)
  BY <1>1 DEF Top
<1>5. /\ d.missing \in [0 .. d.nb - 1 -> Nat] /\ c \in Nat \ {0} /\ d.lastRx <= c /\ Record(d)
  BY <1>1, <1>2 DEF DecInv, Counted
<1>6. /\ Record(e) /\ e.nb = d.nb /\ e.m2b = d.m2b /\ e.S = d.S /\ e.line = d.line
      /\ e.error = d.error
      /\ e.missing \in [0 .. d.nb - 1 -> Nat]
      /\ \A i \in 0 .. d.nb - 1 :
            e.missing[i] = IF d.lastRx <= i /\ i < n THEN d.lost + 1 + i - d.lastRx
                           ELSE d.missing[i]
      /\ e.lost = IF d.lastRx < n THEN d.lost + n - d.lastRx ELSE d.lost
      /\ e.lastRx = IF c - 1 < d.nb /\ d.lastRx < d.nb THEN c ELSE d.nb + 1
  <2>1. d.nb \in Nat /\ d.lastRx \in Nat /\ d.lost \in Nat /\ d.lastRx <= d.nb + 1
    BY <1>1, <1>2, <1>3
  <2> QED
    <3>1. Ready(c, d)
      BY <1>5, <2>1 DEF Ready
    <3>2. Found(c, d, e)
      BY <3>1, FindMissingIs
    <3> QED
      BY <1>4, <3>2 DEF Found
<1>7. PICK m \in Nat : m = e.lost /\ (m = IF a < n THEN l + n - a ELSE l) /\ m <= n /\ l <= m
  <2>1. e.lost = IF a < n THEN l + n - a ELSE l
    BY <1>2, <1>3, <1>6
  <2>2. e.lost \in Nat /\ e.lost <= n /\ l <= e.lost
    BY <1>2, <1>3, <2>1
  <2> QED
    BY <2>1, <2>2
<1>8. e.lastRx = n + 1
  BY <1>1, <1>6
<1>9. \A i \in 0 .. n - 1 : e.missing[i] = IF a <= i /\ i < n THEN l + 1 + i - a ELSE d.missing[i]
  BY <1>1, <1>2, <1>3, <1>6
<1>10. Numbered(e.missing, n, n + 1, m)
  <2>1. Numbered(d.missing, n, a, l)
    BY <1>1, <1>2, <1>3, CountedNumbered DEF DecInv
  <2>2. \A i \in 0 .. n - 1 : i < n + 1 => i < a \/ i < n \/ d.missing[i] = 0
    OBVIOUS
  <2>3. n + 1 \in Nat /\ a <= n + 1 /\ n <= n + 1 /\ n <= n
    BY <1>2
  <2>4. d.missing \in [0 .. n - 1 -> Nat] /\ e.missing \in [0 .. n - 1 -> Nat]
    BY <1>1, <1>5, <1>6
  <2>5. PICK b \in Nat : b = n + 1
    OBVIOUS
  <2>6. PICK E : E = e.missing
    OBVIOUS
  <2>7. PICK D : D = d.missing
    OBVIOUS
  <2>8. Extended(D, E, n, a, l, n, b, m)
    BY <1>7, <1>9, <2>1, <2>2, <2>3, <2>4, <2>5, <2>6, <2>7 DEF Extended
  <2>9. Numbered(E, n, b, m)
    BY <2>8, Numbering
  <2> QED
    BY <2>5, <2>6, <2>9
<1>11. Counted(e)
  <2>1. e.nb = n /\ e.lastRx = n + 1 /\ e.lost = m
    BY <1>1, <1>6, <1>7, <1>8
  <2>2. e.missing \in [0 .. n - 1 -> Nat]
    BY <1>1, <1>6
  <2>3. PICK E : E = e.missing
    OBVIOUS
  <2>4. \A i \in 0 .. n - 1 : i < n + 1
    OBVIOUS
  <2>5. \A i \in 0 .. n - 1 : E[i] <= m
    BY <1>10, <2>3, <2>4 DEF Numbered
  <2>6. \A i, j \in 0 .. n - 1 : E[i] = E[j] /\ E[i] # 0 => i = j
    BY <1>10, <2>3, <2>4 DEF Numbered
  <2>7. \A k \in 1 .. m : \E i \in 0 .. n - 1 : i < n + 1 /\ E[i] = k
    BY <1>10, <2>3 DEF Numbered
  <2>8. n + 1 \notin 1 .. n /\ n + 1 \in Nat /\ m <= n + 1 /\ n + 1 <= n + 1
    BY <1>7
  <2> QED
    BY <1>7, <2>1, <2>2, <2>3, <2>4, <2>5, <2>6, <2>7, <2>8 DEF Counted
<1>12. \A i \in 0 .. d.nb - 1 : e.missing[i] = 0 => i < d.lastRx /\ d.missing[i] = 0
  <2> TAKE i \in 0 .. d.nb - 1
  <2>1. i \in Nat
    OBVIOUS
  <2>2. CASE a <= i
    <3>1. e.missing[i] = l + 1 + i - a
      BY <1>1, <1>9, <2>2
    <3> QED
      BY <2>1, <2>2, <3>1
  <2>3. CASE i < a
    BY <1>1, <1>2, <1>9, <2>3
  <2> QED
    BY <2>1, <2>2, <2>3
<1>13. ASSUME d.lastRx = d.nb + 1 PROVE e = d
  <2>1. a = n + 1
    BY <1>1, <1>2, <1>13
  <2>2. e.lost = d.lost /\ e.lastRx = d.lastRx
    BY <1>1, <1>3, <1>7, <1>8, <1>13, <2>1
  <2>3. \A i \in 0 .. d.nb - 1 : e.missing[i] = d.missing[i]
    BY <1>1, <1>9, <2>1
  <2>5. PICK E : E = e.missing
    OBVIOUS
  <2>6. PICK D : D = d.missing
    OBVIOUS
  <2>10. PICK X : X = 0 .. d.nb - 1
    OBVIOUS
  <2>7. E \in [X -> Nat] /\ D \in [X -> Nat]
    BY <1>5, <1>6, <2>5, <2>6, <2>10
  <2>8. \A i \in X : E[i] = D[i]
    BY <2>3, <2>5, <2>6, <2>10
  <2>9. E = D
    BY <2>7, <2>8, SameFunction
  <2>4. e.missing = d.missing
    BY <2>5, <2>6, <2>9
  <2> QED
    BY <1>5, <1>6, <2>2, <2>4 DEF Record
<1>14. Lined(e)
  <2>1. CASE d.S = {}
    <3>1. d.line = 0 /\ d.m2b = Full(d.nb)
      BY <2>1, FS_EmptySet DEF DecInv, Lined
    <3> QED
      BY <1>1, <1>6, <1>7, <2>1, <3>1, LinedIfNone
  <2>2. CASE d.S # {}
    BY <1>13, <2>2 DEF DecInv, Lined
  <2> QED
    BY <2>1, <2>2
<1>15. e.error \in BOOLEAN
  BY <1>6 DEF DecInv
<1> QED
  BY <1>1, <1>6, <1>8, <1>11, <1>12, <1>13, <1>14, <1>15 DEF DecInv

\* A fragment of the file is received, those it skips are missing.
LEMMA FindPlain ==
    ASSUME NEW d, DecInv(d), NEW c \in Nat \ {0}, c <= d.nb, d.lastRx <= c,
           NEW e, e = FindMissing(c, [d EXCEPT !.missing[c - 1] = 0])
    PROVE  /\ DecInv(e) /\ e.nb = d.nb /\ e.S = {} /\ d.S = {} /\ e.error = d.error
           /\ e.line = 0
           /\ \A i \in 0 .. d.nb - 1 : i < e.lastRx /\ e.missing[i] = 0 =>
                 i = c - 1 \/ (i < d.lastRx /\ d.missing[i] = 0)
<1>1. PICK n \in Nat : n = d.nb
  BY DEF DecInv, Counted
<1>2. PICK a \in Nat : a = d.lastRx /\ a <= n + 1 /\ a <= c
  BY <1>1 DEF DecInv, Counted
<1>3. PICK l \in Nat : l = d.lost /\ l <= n /\ l <= a
  BY <1>1, <1>2 DEF DecInv, Counted
<1>4. PICK p \in 0 .. n - 1 : p = c - 1
  BY <1>1
<1>5. PICK f : f = [d EXCEPT !.missing[c - 1] = 0]
  OBVIOUS
<1>6. d.missing \in [0 .. d.nb - 1 -> Nat] /\ Record(d)
  BY DEF DecInv, Counted
<1>7. /\ f.nb = n /\ f.lastRx = a /\ f.lost = l /\ f.m2b = d.m2b /\ f.S = d.S /\ f.line = d.line
      /\ f.error = d.error /\ Record(f) /\ f.missing = [d.missing EXCEPT ![p] = 0]
  BY <1>1, <1>2, <1>3, <1>4, <1>5, <1>6 DEF Record
<1>8. f.missing \in [0 .. n - 1 -> Nat]
  BY <1>1, <1>6, <1>7
<1>9. \A i \in 0 .. n - 1 : f.missing[i] = IF i = p THEN 0 ELSE d.missing[i]
  BY <1>1, <1>6, <1>7
<1>10. d.S = {} /\ d.line = 0 /\ d.m2b = Full(n)
  <2>1. d.lastRx # d.nb + 1
    BY <1>1, <1>2
  <2> QED
    BY <1>1, <2>1, FS_EmptySet DEF DecInv, Lined
<1>11. /\ Record(e) /\ e.nb = n /\ e.m2b = d.m2b /\ e.S = {} /\ e.line = 0
       /\ e.error = d.error
       /\ e.missing \in [0 .. n - 1 -> Nat]
       /\ \A i \in 0 .. n - 1 :
            e.missing[i] = IF a <= i /\ i < p THEN l + 1 + i - a ELSE f.missing[i]
       /\ e.lost = IF a < p THEN l + p - a ELSE l
       /\ e.lastRx = IF a < n THEN c ELSE n + 1
  <2>1. p = Top(c, f)
    BY <1>4, <1>7 DEF Top
  <2>2. e = FindMissing(c, f)
    BY <1>5
  <2>3. f.nb \in Nat /\ f.lastRx \in Nat /\ f.lost \in Nat /\ f.lastRx <= f.nb + 1
        /\ f.missing \in [0 .. f.nb - 1 -> Nat] /\ f.lastRx <= c /\ Record(f)
        /\ c \in Nat \ {0}
    BY <1>2, <1>7, <1>8
  <2>4. /\ Record(e) /\ e.nb = f.nb /\ e.m2b = f.m2b /\ e.S = f.S /\ e.line = f.line
        /\ e.error = f.error
        /\ e.missing \in [0 .. f.nb - 1 -> Nat]
        /\ \A i \in 0 .. f.nb - 1 :
            e.missing[i] = IF f.lastRx <= i /\ i < p THEN f.lost + 1 + i - f.lastRx
                           ELSE f.missing[i]
        /\ e.lost = IF f.lastRx < p THEN f.lost + p - f.lastRx ELSE f.lost
        /\ e.lastRx = IF c - 1 < f.nb /\ f.lastRx < f.nb THEN c ELSE f.nb + 1
    <3>1. Ready(c, f)
      BY <2>3 DEF Ready
    <3>2. Found(c, f, e)
      BY <2>2, <3>1, FindMissingIs
    <3> QED
      BY <2>1, <3>2 DEF Found
  <2>5. c - 1 < f.nb
    BY <1>4, <1>7
  <2> QED
    BY <1>7, <1>10, <2>4, <2>5
<1>12. p \in Nat /\ p < n /\ c = p + 1
  BY <1>4
<1>13. PICK b \in Nat : b = e.lastRx /\ (b = IF a < n THEN c ELSE n + 1)
  BY <1>11
<1>14. b <= n + 1 /\ a <= b /\ p + 1 <= b /\ (a >= n => c = n /\ a = n /\ p = n - 1)
  BY <1>2, <1>12, <1>13
<1>15. PICK m \in Nat : m = e.lost /\ (m = IF a < p THEN l + p - a ELSE l) /\ m <= n /\ m <= b
  <2>1. (IF a < p THEN l + p - a ELSE l) \in Nat
    OBVIOUS
  <2>2. e.lost \in Nat /\ (e.lost = IF a < p THEN l + p - a ELSE l)
    BY <1>11, <2>1
  <2>3. e.lost <= n /\ e.lost <= b
    BY <1>3, <1>12, <1>14, <2>2
  <2> QED
    BY <2>2, <2>3
<1>16. Numbered(f.missing, n, a, l)
  <2>1. Numbered(d.missing, n, a, l)
    BY <1>1, <1>2, <1>3, CountedNumbered DEF DecInv
  <2>2. CASE p < a
    <3>1. a = p + 1 /\ d.lastRx \in 1 .. d.nb /\ d.lastRx - 1 = p
      BY <1>1, <1>2, <1>12, <2>2
    <3>2. d.missing[p] = 0
      BY <3>1 DEF DecInv, Counted
    <3>3. \A i \in 0 .. n - 1 : f.missing[i] = d.missing[i]
      BY <1>9, <3>2
    <3> QED
      BY <2>1, <3>3 DEF Numbered
  <2>3. CASE p >= a
    <3>1. \A i \in 0 .. n - 1 : i < a => f.missing[i] = d.missing[i]
      BY <1>9, <1>12, <2>3
    <3> QED
      BY <2>1, <3>1 DEF Numbered
  <2> QED
    BY <1>12, <2>2, <2>3
<1>17. Numbered(e.missing, n, b, m)
  <2>1. \A i \in 0 .. n - 1 : i < b => i < a \/ i < p \/ f.missing[i] = 0
    <3> TAKE i \in 0 .. n - 1
    <3> HAVE i < b
    <3>1. i < a \/ i < p \/ i = p
      BY <1>12, <1>13, <1>14
    <3> QED
      BY <1>9, <3>1
  <2>2. p <= n /\ a <= b /\ p <= b
    BY <1>12, <1>14
  <2>3. PICK E : E = e.missing
    OBVIOUS
  <2>4. PICK D : D = f.missing
    OBVIOUS
  <2>5. p \in Nat /\ Extended(D, E, n, a, l, p, b, m)
    BY <1>8, <1>11, <1>12, <1>15, <1>16, <2>1, <2>2, <2>3, <2>4 DEF Extended
  <2>6. Numbered(E, n, b, m)
    BY <2>5, Numbering
  <2> QED
    BY <2>3, <2>6
<1>18. ASSUME NEW i \in 0 .. n - 1, ~(i < b) PROVE e.missing[i] = 1
  <2>1. i \in Nat /\ i # p /\ ~(i < p) /\ ~(i < a)
    BY <1>12, <1>14, <1>18
  <2>2. d.missing[i] = 1
    BY <1>1, <1>2, <2>1 DEF DecInv, Counted
  <2> QED
    BY <1>9, <1>11, <2>1, <2>2
<1>19. b \in 1 .. n => e.missing[b - 1] = 0
  <2> HAVE b \in 1 .. n
  <2>1. b = c /\ b - 1 = p
    BY <1>12, <1>13
  <2>2. e.missing[p] = f.missing[p]
    <3>1. ~(a <= p /\ p < p)
      BY <1>12
    <3> QED
      BY <1>11, <3>1
  <2>3. f.missing[p] = 0
    BY <1>9
  <2> QED
    BY <2>1, <2>2, <2>3
<1>20. Counted(e)
  <2>1. /\ e.nb = n /\ e.lastRx = b /\ e.lost = m
        /\ e.missing \in [0 .. e.nb - 1 -> Nat]
        /\ e.lastRx <= e.nb + 1 /\ e.lost <= e.nb /\ e.lost <= e.lastRx
    BY <1>11, <1>13, <1>14, <1>15
  <2>2. Numbered(e.missing, e.nb, e.lastRx, e.lost)
    BY <1>17, <2>1
  <2>3. \A i \in 0 .. e.nb - 1 : ~(i < e.lastRx) => e.missing[i] = 1
    BY <1>18, <2>1
  <2>4. e.lastRx \in 1 .. e.nb => e.missing[e.lastRx - 1] = 0
    BY <1>19, <2>1
  <2> QED
    BY <2>1, <2>2, <2>3, <2>4 DEF Counted, Numbered
<1>21. Lined(e)
  BY <1>10, <1>11, <1>15, LinedIfNone
<1>22. e.error \in BOOLEAN
  BY <1>11 DEF DecInv
<1>23. \A i \in 0 .. d.nb - 1 : i < e.lastRx /\ e.missing[i] = 0 =>
                 i = c - 1 \/ (i < d.lastRx /\ d.missing[i] = 0)
  <2> TAKE i \in 0 .. d.nb - 1
  <2> HAVE i < e.lastRx /\ e.missing[i] = 0
  <2>1. i \in Nat /\ i \in 0 .. n - 1
    BY <1>1
  <2>2. CASE i < a
    <3>0. ~(a <= i /\ i < p)
      BY <2>1, <2>2
    <3>1. e.missing[i] = f.missing[i]
      BY <1>11, <2>1, <3>0
    <3>2. f.missing[i] = IF i = p THEN 0 ELSE d.missing[i]
      BY <1>9, <2>1
    <3> QED
      BY <1>2, <1>4, <2>2, <3>1, <3>2
  <2>3. CASE a <= i /\ i < p
    <3>1. e.missing[i] = l + 1 + i - a
      BY <1>11, <2>1, <2>3
    <3> QED
      BY <2>1, <2>3, <3>1
  <2>4. CASE a <= i /\ i >= p
    <3>1. i = p
      BY <1>12, <1>13, <1>14, <2>1, <2>4
    <3> QED
      BY <1>4, <3>1
  <2> QED
    BY <2>1, <2>2, <2>3, <2>4
<1> QED
  BY <1>1, <1>10, <1>11, <1>20, <1>21, <1>22, <1>23 DEF DecInv

----------------------------------------------------------------------------
(* A coded fragment.                                                       *)

\* All missing rows are numbered.
Closed(d) == DecInv(d) /\ d.lastRx = d.nb + 1

\* The decoder's lines begin at their rows.
LEMMA ClosedBegun == ASSUME NEW d, DecInv(d) PROVE Begun(d)
BY DEF DecInv, Counted, Lined, Begun

\* There are no more lines than rows that are missing, and as many only if
\* every one has its line.
LEMMA LineBound ==
    ASSUME NEW d, DecInv(d)
    PROVE  /\ d.line \in Nat /\ d.lost \in Nat /\ d.line <= d.lost
           /\ d.line = d.lost => d.S = 0 .. d.lost - 1
<1>1. PICK n \in Nat : n = d.lost
  BY DEF DecInv, Counted
<1>2. IsFiniteSet(0 .. n - 1) /\ Cardinality(0 .. n - 1) = n
  <2>1. PICK z \in Int : z = n - 1
    OBVIOUS
  <2>2. Cardinality(0 .. z) = IF 0 > z THEN 0 ELSE z - 0 + 1
    BY FS_Interval
  <2> QED
    BY <2>1, <2>2, FiniteTo
<1>3. d.S \in SUBSET (0 .. n - 1) /\ d.line = Cardinality(d.S)
  BY <1>1 DEF DecInv, Lined
<1>4. /\ IsFiniteSet(d.S) /\ Cardinality(d.S) <= Cardinality(0 .. n - 1)
      /\ Cardinality(0 .. n - 1) = Cardinality(d.S) => 0 .. n - 1 = d.S
  BY <1>2, <1>3, FS_Subset
<1>5. Cardinality(d.S) \in Nat
  BY <1>4, FS_CardinalityType
<1> QED
  BY <1>1, <1>2, <1>3, <1>4, <1>5

\* The row with an order number.
LEMMA MissingIndexIs ==
    ASSUME NEW d, Closed(d), NEW x \in 0 .. d.lost - 1
    PROVE  MissingIndex(x, d) \in 0 .. d.nb - 1 /\ d.missing[MissingIndex(x, d)] = x + 1
<1> DEFINE rows == {i \in DOMAIN d.missing : d.missing[i] = x + 1}
<1>1. PICK n \in Nat : n = d.nb /\ DOMAIN d.missing = 0 .. n - 1
  BY DEF Closed, DecInv, Counted
<1>2. x + 1 \in 1 .. d.lost
  <2>1. PICK l \in Nat : l = d.lost
    BY DEF Closed, DecInv, Counted
  <2> QED
    BY <2>1
<1>3. \E i \in 0 .. n - 1 : d.missing[i] = x + 1
  BY <1>1, <1>2 DEF Closed, DecInv, Counted
<1>4. rows # {} /\ rows \subseteq Nat /\ rows \subseteq 0 .. n - 1
  BY <1>1, <1>3
<1>5. MissingIndex(x, d) = Smallest(rows)
  BY <1>4 DEF MissingIndex
<1>6. Smallest(rows) \in rows
  <2> HIDE DEF rows
  <2> QED
    BY <1>4, SmallestIs
<1> QED
  BY <1>1, <1>5, <1>6

\* The row with the order number of a missing row is that row.
LEMMA MissingIndexOf ==
    ASSUME NEW d, Closed(d), NEW i \in 0 .. d.nb - 1, d.missing[i] # 0
    PROVE  d.missing[i] - 1 \in 0 .. d.lost - 1 /\ MissingIndex(d.missing[i] - 1, d) = i
<1>1. PICK n \in Nat : n = d.nb /\ d.missing \in [0 .. n - 1 -> Nat]
  BY DEF Closed, DecInv, Counted
<1>2. PICK l \in Nat : l = d.lost
  BY DEF Closed, DecInv, Counted
<1>3. \A k \in 0 .. n - 1 : k < d.lastRx
  BY <1>1 DEF Closed
<1>4. PICK x \in Int : x = d.missing[i] - 1 /\ x \in 0 .. l - 1 /\ d.missing[i] = x + 1
  <2>1. d.missing[i] \in Nat /\ d.missing[i] <= l
    BY <1>1, <1>2, <1>3 DEF Closed, DecInv, Counted
  <2> QED
    BY <2>1
<1>5. MissingIndex(x, d) \in 0 .. n - 1 /\ d.missing[MissingIndex(x, d)] = x + 1
  BY <1>1, <1>2, <1>4, MissingIndexIs
<1>6. MissingIndex(x, d) = i
  <2>1. PICK j \in 0 .. n - 1 : j = MissingIndex(x, d)
    BY <1>5
  <2>2. d.missing[j] = d.missing[i] /\ j < d.lastRx /\ i < d.lastRx
    BY <1>1, <1>3, <1>4, <1>5, <2>1
  <2> QED
    BY <1>1, <2>1, <2>2 DEF Closed, DecInv, Counted
<1> QED
  BY <1>2, <1>4, <1>6

\* d with a new line, in the row of its first bit.
Pushed(d, l) == [d EXCEPT !.m2b = PushLine(l, Smallest(l), d),
                          !.S = @ \cup {Smallest(l)}, !.line = @ + 1]

\* A new line, in the row of its first bit, leaves the others as they were.
LEMMA PushInv ==
    ASSUME NEW d, Closed(d), NEW l, l \subseteq 0 .. d.lost - 1, l # {}, Smallest(l) \notin d.S,
           NEW e, e = Pushed(d, l)
    PROVE  /\ Closed(e) /\ e.nb = d.nb /\ e.lost = d.lost /\ e.missing = d.missing
           /\ e.error = d.error
           /\ e.S = d.S \cup {Smallest(l)} /\ e.line = d.line + 1
           /\ Smallest(l) \in l
           /\ \A k \in d.S : ExtractLine(k, e) = ExtractLine(k, d)
           /\ ExtractLine(Smallest(l), e) = l
<1>1. PICK n \in Nat : n = d.lost /\ n <= d.nb
  BY DEF Closed, DecInv, Counted
<1>2. PICK p \in 0 .. n - 1 : p = Smallest(l) /\ p \in l /\ (\A j \in l : p <= j)
  <2>1. l \subseteq Nat
    BY <1>1
  <2> QED
    BY <1>1, <2>1, SmallestIs
<1>3. /\ e.m2b = PushLine(l, p, d) /\ e.S = d.S \cup {p} /\ e.line = d.line + 1
      /\ e.nb = d.nb /\ e.lost = n /\ e.missing = d.missing /\ e.lastRx = d.lastRx
      /\ e.error = d.error /\ Record(e)
  BY <1>1, <1>2 DEF Pushed, Record, Closed, DecInv
<1>4. \A r, i : Bit(r, i, e) = Bit(r, i, d)
  BY <1>1, <1>3 DEF Bit
<1>5. l \subseteq p .. n - 1
  BY <1>1, <1>2
<1>6. e.m2b = d.m2b \ {Bit(p, i, d) : i \in (p .. n - 1) \ l}
  BY <1>1, <1>3 DEF PushLine
<1>7. ASSUME NEW r \in 0 .. n - 1, NEW i \in r .. n - 1, r # p
      PROVE  Bit(r, i, d) \in e.m2b <=> Bit(r, i, d) \in d.m2b
  <2>1. \A j \in p .. n - 1 : Bit(r, i, d) # Bit(p, j, d)
    BY <1>1, <1>7, BitOnce
  <2> QED
    BY <1>6, <2>1
<1>8. ASSUME NEW i \in p .. n - 1 PROVE Bit(p, i, d) \in e.m2b <=> i \in l
  <2>1. p \in (0 .. d.lost - 1) \ d.S
    BY <1>1, <1>2
  <2>2. Bit(p, i, d) \in d.m2b
    BY <1>1, <2>1 DEF Closed, DecInv, Lined
  <2>3. \A j \in p .. n - 1 : Bit(p, i, d) = Bit(p, j, d) => i = j
    BY <1>1, BitOnce
  <2> QED
    BY <1>6, <2>2, <2>3
<1>9. d.S \subseteq 0 .. n - 1
  BY <1>1 DEF Closed, DecInv, Lined
<1>10. ASSUME NEW k \in d.S PROVE ExtractLine(k, e) = ExtractLine(k, d)
  <2>1. k \in 0 .. n - 1 /\ k # p
    BY <1>2, <1>9
  <2>2. \A i \in k .. n - 1 : Bit(k, i, e) \in e.m2b <=> Bit(k, i, d) \in d.m2b
    BY <1>4, <1>7, <2>1
  <2> QED
    BY <1>1, <1>3, <2>2 DEF ExtractLine
<1>11. ExtractLine(p, e) = l
  <2>1. ExtractLine(p, e) = {i \in p .. n - 1 : Bit(p, i, e) \in e.m2b}
    BY <1>3 DEF ExtractLine
  <2>2. \A i \in p .. n - 1 : Bit(p, i, e) \in e.m2b <=> i \in l
    BY <1>4, <1>8
  <2> QED
    BY <1>5, <2>1, <2>2
<1>12. Counted(e)
  <2>1. Counted(d)
    BY DEF Closed, DecInv
  <2>2. e.nb = d.nb /\ e.lost = d.lost /\ e.missing = d.missing /\ e.lastRx = d.lastRx
    BY <1>1, <1>3
  <2> QED
    BY <2>1, <2>2 DEF Counted
<1>13. Lined(e)
  <2>1. e.S \subseteq 0 .. n - 1 /\ e.S # {}
    BY <1>2, <1>3, <1>9
  <2>2. e.line = Cardinality(e.S)
    <3>1. IsFiniteSet(d.S)
      <4>1. IsFiniteSet(0 .. n - 1)
        BY FiniteTo
      <4>2. d.S \in SUBSET (0 .. n - 1)
        BY <1>9
      <4> QED
        BY <4>1, <4>2, FS_Subset
    <3>2. Cardinality(d.S \cup {p}) = Cardinality(d.S) + 1
      BY <1>2, <3>1, FS_AddElement
    <3> QED
      BY <1>3, <3>2 DEF Closed, DecInv, Lined
  <2>3. e.m2b \subseteq Full(e.nb) /\ e.lastRx = e.nb + 1
    BY <1>3, <1>6 DEF Closed, DecInv, Lined
  <2>4. ASSUME NEW r \in (0 .. n - 1) \ e.S, NEW i \in r .. n - 1 PROVE Bit(r, i, e) \in e.m2b
    <3>1. r \in 0 .. n - 1 /\ r # p /\ r \in (0 .. d.lost - 1) \ d.S
      BY <1>1, <1>3
    <3>2. Bit(r, i, d) \in d.m2b
      BY <1>1, <3>1 DEF Closed, DecInv, Lined
    <3> QED
      BY <1>4, <1>7, <3>1, <3>2
  <2>5. \A k \in e.S : k \in ExtractLine(k, e)
    BY <1>2, <1>3, <1>10, <1>11 DEF Closed, DecInv, Lined
  <2> QED
    BY <1>3, <2>1, <2>2, <2>3, <2>4, <2>5 DEF Lined
<1>14. Closed(e)
  BY <1>3, <1>12, <1>13 DEF Closed, DecInv
<1> QED
  BY <1>1, <1>2, <1>3, <1>10, <1>11, <1>14

\* The rows a coded fragment is made of, those there are, and the numbers of
\* those that are missing.
Parity(c, d) == ParityRow(c - d.nb, d.nb)
Known(c, d) == {i \in Parity(c, d) : d.missing[i] = 0}
Vector(c, d) == {d.missing[i] - 1 : i \in Parity(c, d) \ Known(c, d)}

\* The data of a line, and the store with it.
Rest(c, data, d, st, r) == Xor(data, Known(c, d) \cup {MissingIndex(k, d) : k \in r.used}, st)
Stored(c, data, d, st, r) ==
    SetRow(MissingIndex(Smallest(r.line), d), Rest(c, data, d, st, r), st)

\* The outcomes of a coded fragment.
Outcome(c, data, d, st, r) ==
    LET e == IF r.line = {} THEN d ELSE Pushed(d, r.line)
        s == IF r.line = {} THEN st ELSE Stored(c, data, d, st, r)
    IN  IF Vector(c, d) = {} THEN Result(d, st, Ongoing)
        ELSE IF e.line = e.lost THEN Result(e, Substituted(e, s), e.lost) ELSE Result(e, s, Ongoing)

\* FragDecoderProcess with a coded fragment, part by part.
LEMMA EliminateIs ==
    ASSUME NEW c, NEW data, NEW d, NEW st
    PROVE  Eliminate(c, data, d, st) = Outcome(c, data, d, st, Reduced(Vector(c, d), d))
BY DEF Eliminate, Outcome, Vector, Known, Parity, Pushed, Stored, Rest

\* The order numbers of a coded fragment are those of its missing rows.
LEMMA VectorIs ==
    ASSUME NEW d, Closed(d), NEW c, Parity(c, d) \subseteq 0 .. d.nb - 1
    PROVE  /\ Vector(c, d) \subseteq 0 .. d.lost - 1
           /\ \A i \in 0 .. d.nb - 1 : d.missing[i] # 0 =>
                 (d.missing[i] - 1 \in Vector(c, d) <=> i \in Parity(c, d))
<1>1. \A i \in 0 .. d.nb - 1 : d.missing[i] # 0 =>
         d.missing[i] - 1 \in 0 .. d.lost - 1 /\ MissingIndex(d.missing[i] - 1, d) = i
  BY MissingIndexOf
<1>2. \A i \in Parity(c, d) \ Known(c, d) : i \in 0 .. d.nb - 1 /\ d.missing[i] # 0
  BY DEF Known
<1>3. ASSUME NEW i \in 0 .. d.nb - 1, d.missing[i] # 0, d.missing[i] - 1 \in Vector(c, d)
      PROVE  i \in Parity(c, d)
  <2>1. PICK j \in Parity(c, d) \ Known(c, d) : d.missing[i] - 1 = d.missing[j] - 1
    BY <1>3 DEF Vector
  <2>2. MissingIndex(d.missing[i] - 1, d) = i /\ MissingIndex(d.missing[j] - 1, d) = j
    BY <1>1, <1>2, <1>3
  <2> QED
    BY <2>1, <2>2
<1>4. ASSUME NEW i \in 0 .. d.nb - 1, d.missing[i] # 0, i \in Parity(c, d)
      PROVE  d.missing[i] - 1 \in Vector(c, d)
  BY <1>4 DEF Vector, Known
<1>5. Vector(c, d) \subseteq 0 .. d.lost - 1
  BY <1>1, <1>2 DEF Vector
<1> QED
  BY <1>3, <1>4, <1>5

\* What elimination leaves of the decoder.
Eliminated(d, e) ==
    /\ Closed(e) /\ e.nb = d.nb /\ e.lost = d.lost /\ e.missing = d.missing /\ e.error = d.error

\* A coded fragment leaves the decoder sound, and ends it with the last line.
LEMMA OutcomeInv ==
    ASSUME NEW d, Closed(d), NEW c, NEW data, NEW st, NEW r, Reduces(Vector(c, d), r, d),
           NEW q, q = Outcome(c, data, d, st, r)
    PROVE  /\ Eliminated(d, q.dec)
           /\ q.status = Ongoing \/ (q.status = d.lost /\ q.dec.line = d.lost)
           /\ q.status = Ongoing /\ Vector(c, d) # {} => q.dec.line # d.lost
           /\ Vector(c, d) = {} \/ r.line = {} => q.dec = d
           /\ Vector(c, d) # {} /\ r.line # {} => q.dec = Pushed(d, r.line)
<1>1. PICK e : e = IF r.line = {} THEN d ELSE Pushed(d, r.line)
  OBVIOUS
<1>2. Eliminated(d, e)
  <2>1. CASE r.line = {}
    BY <1>1, <2>1 DEF Eliminated
  <2>2. CASE r.line # {}
    <3>1. /\ r.line \subseteq 0 .. d.lost - 1 /\ Smallest(r.line) \notin d.S
      BY <2>2 DEF Reduces
    <3> QED
      BY <1>1, <2>2, <3>1, PushInv DEF Eliminated
  <2> QED
    BY <2>1, <2>2
<1>3. PICK s : s = IF r.line = {} THEN st ELSE Stored(c, data, d, st, r)
  OBVIOUS
<1>4. q = IF Vector(c, d) = {} THEN Result(d, st, Ongoing)
          ELSE IF e.line = e.lost THEN Result(e, Substituted(e, s), e.lost) ELSE Result(e, s, Ongoing)
  BY <1>1, <1>3 DEF Outcome
<1>5. CASE Vector(c, d) = {}
  <2>1. q.dec = d /\ q.status = Ongoing
    BY <1>4, <1>5 DEF Result
  <2> QED
    BY <1>5, <2>1 DEF Eliminated
<1>6. CASE Vector(c, d) # {} /\ e.line = e.lost
  <2>1. q.dec = e /\ q.status = e.lost
    BY <1>4, <1>6 DEF Result
  <2>2. e.lost = d.lost /\ d.lost \in Nat
    BY <1>2 DEF Eliminated, Closed, DecInv, Counted
  <2>3. q.status # Ongoing
    BY <2>1, <2>2 DEF Ongoing
  <2> QED
    BY <1>1, <1>2, <1>6, <2>1, <2>2, <2>3
<1>7. CASE Vector(c, d) # {} /\ e.line # e.lost
  <2>1. q.dec = e /\ q.status = Ongoing
    BY <1>4, <1>7 DEF Result
  <2>2. e.lost = d.lost
    BY <1>2 DEF Eliminated
  <2> QED
    BY <1>1, <1>2, <1>7, <2>1, <2>2
<1> QED
  BY <1>5, <1>6, <1>7

----------------------------------------------------------------------------
(* FragDecoderProcess.                                                     *)

\* c is a fragment of a file of d.nb rows.
Sendable(c, d) == c \in Nat \ {0} /\ (c > d.nb => Parity(c, d) \subseteq 0 .. d.nb - 1)

\* The four things that the decoder does with a fragment, but for elimination.
Ignored(c, d, st, q) == c < d.lastRx /\ q = Result(d, st, Ongoing)
Plain(c, data, d, st, q) ==
    /\ d.lastRx <= c /\ c <= d.nb
    /\ q = Result(FindMissing(c, [d EXCEPT !.missing[c - 1] = 0]), SetRow(c - 1, data, st), Ongoing)
GivenUp(c, d, st, q) ==
    /\ c > d.nb /\ d.lost > MaxRedundancy
    /\ q = Result([d EXCEPT !.error = TRUE], st, Finished)
NothingLost(c, d, st, q) ==
    /\ c > d.nb /\ FindMissing(c, d).lost = 0
    /\ q = Result(FindMissing(c, d), st, Finished)

\* FragDecoderProcess, case by case.
LEMMA ProcessIs ==
    ASSUME NEW c, NEW data, NEW d, NEW st, NEW q, q = Process(c, data, d, st),
           c \in Nat, d.nb \in Nat, d.lastRx \in Nat
    PROVE  \/ Ignored(c, d, st, q)
           \/ Plain(c, data, d, st, q)
           \/ GivenUp(c, d, st, q)
           \/ NothingLost(c, d, st, q)
           \/ /\ c > d.nb /\ d.lastRx <= c /\ FindMissing(c, d).lost # 0
              /\ q = Outcome(c, data, FindMissing(c, d), st,
                             Reduced(Vector(c, FindMissing(c, d)), FindMissing(c, d)))
<1>1. CASE c < d.lastRx
  BY <1>1 DEF Process, Ignored
<1>2. CASE ~(c < d.lastRx) /\ c <= d.nb
  BY <1>2 DEF Process, Plain
<1>3. CASE ~(c < d.lastRx) /\ ~(c <= d.nb) /\ d.lost > MaxRedundancy
  BY <1>3 DEF Process, GivenUp
<1>4. CASE ~(c < d.lastRx) /\ ~(c <= d.nb) /\ ~(d.lost > MaxRedundancy)
  <2>1. PICK e : e = FindMissing(c, d)
    OBVIOUS
  <2>2. q = IF e.lost = 0 THEN Result(e, st, Finished) ELSE Eliminate(c, data, e, st)
    BY <1>4, <2>1 DEF Process
  <2>3. c > d.nb /\ d.lastRx <= c
    BY <1>4
  <2>4. CASE e.lost = 0
    BY <2>1, <2>2, <2>3, <2>4 DEF NothingLost
  <2>5. CASE e.lost # 0
    <3>1. q = Outcome(c, data, e, st, Reduced(Vector(c, e), e))
      BY <2>2, <2>5, EliminateIs
    <3> QED
      BY <2>1, <2>3, <2>5, <3>1
  <2> QED
    BY <2>4, <2>5
<1> QED
  BY <1>1, <1>2, <1>3, <1>4

\* What a coded fragment finds.
LEMMA CodedFinds ==
    ASSUME NEW d, DecInv(d), NEW c, Sendable(c, d), c > d.nb, NEW e, e = FindMissing(c, d)
    PROVE  /\ Closed(e) /\ e.nb = d.nb /\ e.S = d.S /\ e.error = d.error
           /\ Reduces(Vector(c, e), Reduced(Vector(c, e), e), e)
           /\ Parity(c, e) \subseteq 0 .. e.nb - 1
<1>1. Closed(e) /\ e.nb = d.nb /\ e.S = d.S /\ e.error = d.error
  BY FindCoded DEF Sendable, Closed
<1>2. Parity(c, e) \subseteq 0 .. e.nb - 1
  BY <1>1 DEF Sendable, Parity
<1>3. Vector(c, e) \subseteq 0 .. e.lost - 1 /\ Begun(e)
  BY <1>1, <1>2, VectorIs, ClosedBegun DEF Closed
<1> QED
  BY <1>1, <1>2, <1>3, ReducedHas

\* FragDecoderProcess leaves the decoder sound, and goes on only while a line is needed.
LEMMA ProcessInv ==
    ASSUME NEW d, DecInv(d), NEW c, Sendable(c, d), NEW data, NEW st,
           NEW q, q = Process(c, data, d, st)
    PROVE  /\ DecInv(q.dec) /\ q.dec.nb = d.nb /\ q.status \in {Ongoing} \cup 0 .. d.nb
           /\ q.status = Ongoing => /\ d.S = {} \/ d.line < d.lost => q.dec.S = {} \/ q.dec.line < q.dec.lost
                                    /\ c > d.nb => q.dec.lastRx = d.nb + 1 /\ q.dec.lost > 0
<1>1. d.nb \in Nat /\ d.lastRx \in Nat /\ d.lost \in Nat /\ c \in Nat \ {0} /\ c \in Nat
      /\ d.lastRx <= d.nb + 1
  BY DEF DecInv, Counted, Sendable
<1>2. CASE Ignored(c, d, st, q)
  <2>1. q.dec = d /\ q.status = Ongoing /\ c < d.lastRx
    BY <1>2 DEF Ignored, Result
  <2>2. ~(c > d.nb)
    BY <1>1, <2>1
  <2> QED
    BY <2>1, <2>2
<1>3. CASE Plain(c, data, d, st, q)
  <2>1. q.dec = FindMissing(c, [d EXCEPT !.missing[c - 1] = 0]) /\ q.status = Ongoing
        /\ c <= d.nb /\ d.lastRx <= c
    BY <1>3 DEF Plain, Result
  <2>2. DecInv(q.dec) /\ q.dec.nb = d.nb /\ q.dec.S = {}
    BY <1>1, <2>1, FindPlain
  <2>3. ~(c > d.nb)
    BY <1>1, <2>1
  <2> QED
    BY <2>1, <2>2, <2>3
<1>4. CASE GivenUp(c, d, st, q)
  <2>1. q.dec = [d EXCEPT !.error = TRUE] /\ q.status = Finished
    BY <1>4 DEF GivenUp, Result
  <2>2. /\ q.dec.nb = d.nb /\ q.dec.lastRx = d.lastRx /\ q.dec.lost = d.lost
        /\ q.dec.missing = d.missing /\ q.dec.m2b = d.m2b /\ q.dec.S = d.S
        /\ q.dec.line = d.line /\ q.dec.error = TRUE /\ Record(q.dec)
    BY <2>1 DEF Record, DecInv
  <2>3. Counted(q.dec)
    <3>1. Counted(d)
      BY DEF DecInv
    <3> QED
      BY <2>2, <3>1 DEF Counted
  <2>4. Lined(q.dec)
    <3>1. Lined(d)
      BY DEF DecInv
    <3> QED
      BY <2>2, <3>1 DEF Lined, ExtractLine, Bit
  <2>5. q.status \in 0 .. d.nb /\ q.status # Ongoing
    BY <1>1, <2>1 DEF Finished, Ongoing
  <2> QED
    BY <2>2, <2>3, <2>4, <2>5 DEF DecInv
<1>5. CASE NothingLost(c, d, st, q)
  <2>1. q.dec = FindMissing(c, d) /\ q.status = Finished /\ c > d.nb
    BY <1>5 DEF NothingLost, Result
  <2>2. DecInv(q.dec) /\ q.dec.nb = d.nb
    BY <2>1, CodedFinds DEF Closed
  <2>3. q.status \in 0 .. d.nb /\ q.status # Ongoing
    BY <1>1, <2>1 DEF Finished, Ongoing
  <2> QED
    BY <2>2, <2>3
<1>6. ASSUME c > d.nb, FindMissing(c, d).lost # 0,
             q = Outcome(c, data, FindMissing(c, d), st,
                             Reduced(Vector(c, FindMissing(c, d)), FindMissing(c, d)))
      PROVE  /\ DecInv(q.dec) /\ q.dec.nb = d.nb /\ q.status \in {Ongoing} \cup 0 .. d.nb
             /\ q.status = Ongoing => /\ d.S = {} \/ d.line < d.lost => q.dec.S = {} \/ q.dec.line < q.dec.lost
                                      /\ c > d.nb => q.dec.lastRx = d.nb + 1 /\ q.dec.lost > 0
  <2>1. PICK e : e = FindMissing(c, d)
    OBVIOUS
  <2>2. PICK r : r = Reduced(Vector(c, e), e)
    OBVIOUS
  <2>3. Closed(e) /\ e.nb = d.nb /\ e.S = d.S /\ Reduces(Vector(c, e), r, e)
    BY <1>6, <2>1, <2>2, CodedFinds
  <2>4. q = Outcome(c, data, e, st, r)
    BY <1>6, <2>1, <2>2
  <2>5. /\ Eliminated(e, q.dec)
        /\ q.status = Ongoing \/ (q.status = e.lost /\ q.dec.line = e.lost)
        /\ q.status = Ongoing /\ Vector(c, e) # {} => q.dec.line # e.lost
        /\ Vector(c, e) = {} \/ r.line = {} => q.dec = e
    BY <2>3, <2>4, OutcomeInv
  <2>6. e.lost \in Nat /\ e.lost <= e.nb /\ e.lost > 0
    BY <1>6, <2>1, <2>3 DEF Closed, DecInv, Counted
  <2>7. DecInv(q.dec) /\ q.dec.nb = d.nb /\ q.status \in {Ongoing} \cup 0 .. d.nb
    BY <2>3, <2>5, <2>6 DEF Eliminated, Closed
  <2>8. q.dec.lastRx = d.nb + 1 /\ q.dec.lost > 0
    BY <2>3, <2>5, <2>6 DEF Eliminated, Closed
  <2>9. ASSUME q.status = Ongoing, d.S = {} \/ d.line < d.lost
        PROVE  q.dec.S = {} \/ q.dec.line < q.dec.lost
    <3>1. CASE Vector(c, e) = {}
      <4>1. q.dec = e
        BY <2>5, <3>1
      <4>2. CASE d.S = {}
        BY <2>3, <4>1, <4>2
      <4>3. CASE d.S # {}
        <5>1. e = d
          BY <1>6, <2>1, <4>3, FindCoded DEF DecInv, Lined, Sendable
        <5> QED
          BY <2>9, <4>1, <4>3, <5>1
      <4> QED
        BY <4>2, <4>3
    <3>2. CASE Vector(c, e) # {}
      <4>1. q.dec.line # q.dec.lost
        BY <2>5, <2>9, <3>2 DEF Eliminated
      <4>2. q.dec.line <= q.dec.lost /\ q.dec.line \in Nat /\ q.dec.lost \in Nat
        BY <2>7, LineBound
      <4> QED
        BY <4>1, <4>2
    <3> QED
      BY <3>1, <3>2
  <2> QED
    BY <2>7, <2>8, <2>9
<1> QED
  BY <1>1, <1>2, <1>3, <1>4, <1>5, <1>6, ProcessIs

----------------------------------------------------------------------------
(* The sessions.                                                           *)

\* The session that the server sends to goes on.
Going == server.file > 0 /\ Session.status = Ongoing

\* A FragSessionData.
SessionType == [active : BOOLEAN, nb : Nat, status : -2 .. MaxNb]

\* The decoder serves the session that the server sends to.
SessionInv ==
    /\ DecInv(dec) /\ dec.nb \in Sizes \cup {0}
    /\ store = [row \in 0 .. MaxNb - 1 |-> store[row]]
    /\ server.file \in 0 .. Files
    /\ server.file = 0 => server.nb = 0 /\ seen = {}
    /\ server.file > 0 => server.index \in Indices /\ server.nb \in Sizes
    /\ sessions \in [Indices -> SessionType]
    /\ seen \subseteq 1 .. MaxNb + Coded
    /\ Going => /\ dec.nb = server.nb
                /\ dec.S = {} \/ dec.line < dec.lost
                /\ seen # {} => dec.lastRx = dec.nb + 1 /\ dec.lost > 0

\* A largest file.
LEMMA MaxNbIs == MaxNb \in Sizes /\ MaxNb \in Nat \ {0} /\ \A m \in Sizes : m \in Nat /\ m <= MaxNb
BY FragmentationAssumption DEF MaxNb

\* SessionInv holds at first.
LEMMA SessionInit == Init => SessionInv
<1> SUFFICES ASSUME Init PROVE SessionInv
  OBVIOUS
<1>1. /\ dec = NoDecoder /\ store = [row \in 0 .. MaxNb - 1 |-> Erased]
      /\ sessions = [s \in Indices |-> NoSession] /\ server.file = 0 /\ server.nb = 0 /\ seen = {}
  BY DEF Init
<1>2. DecInv(dec) /\ dec.nb = 0
  BY <1>1, NoDecoderInv DEF NoDecoder
<1>3. NoSession \in SessionType
  BY MaxNbIs DEF NoSession, SessionType, Finished
<1>4. sessions \in [Indices -> SessionType]
  BY <1>1, <1>3
<1>5. ~Going /\ server.file \in 0 .. Files
  BY <1>1, FragmentationAssumption DEF Going
<1>6. store = [row \in 0 .. MaxNb - 1 |-> store[row]]
  BY <1>1
<1> QED
  BY <1>1, <1>2, <1>4, <1>5, <1>6 DEF SessionInv

\* A set-up begins with no fragments and no lines.
LEMMA SetupKeeps ==
    ASSUME SessionInv, NEW s \in Indices, NEW n \in Sizes, NEW f \in 1 .. Files, Setup(s, n, f)
    PROVE  /\ SessionInv' /\ dec'.nb = n /\ server'.nb = n /\ server'.index = s
           /\ dec'.S = {} /\ dec'.lastRx = 0 /\ seen' = {}
           /\ sessions'[s].status = Ongoing
<1>1. /\ server' = [file |-> f, index |-> s, nb |-> n]
      /\ sessions' = [sessions EXCEPT ![s] = [active |-> TRUE, nb |-> n, status |-> Ongoing]]
      /\ dec' = DecoderInit(n, dec) /\ store' = EraseStore(store) /\ seen' = {}
  BY DEF Setup
<1>2. /\ n \in Nat \ {0} /\ f \in Nat /\ f > 0 /\ f \in 0 .. Files /\ MaxNb \in Nat
  BY FragmentationAssumption, MaxNbIs
<1>3. dec.error \in BOOLEAN
  BY DEF SessionInv, DecInv
<1>4. DecInv(dec') /\ dec'.nb = n /\ dec'.S = {} /\ dec'.lastRx = 0
  BY <1>1, <1>2, <1>3, DecoderInitInv
<1>5. store' = [row \in 0 .. MaxNb - 1 |-> store'[row]]
  <2>1. DOMAIN store = 0 .. MaxNb - 1
    BY DEF SessionInv
  <2> QED
    BY <1>1, <2>1 DEF EraseStore
<1>6. [active |-> TRUE, nb |-> n, status |-> Ongoing] \in SessionType
  BY <1>2 DEF SessionType, Ongoing
<1>7. sessions' \in [Indices -> SessionType] /\ sessions'[s].status = Ongoing
  BY <1>1, <1>6 DEF SessionInv
<1>8. server'.file = f /\ server'.nb = n /\ server'.index = s
  BY <1>1
<1>9. f # 0 /\ f > 0
  BY <1>2
<1>10. Going' => /\ dec'.nb = server'.nb
                 /\ dec'.S = {} \/ dec'.line < dec'.lost
                 /\ seen' # {} => dec'.lastRx = dec'.nb + 1 /\ dec'.lost > 0
  BY <1>1, <1>4, <1>8
<1> QED
  BY <1>1, <1>2, <1>4, <1>5, <1>7, <1>8, <1>9, <1>10 DEF SessionInv

\* A deletion changes no session's status.
LEMMA DeleteKeeps ==
    ASSUME SessionInv, NEW s \in Indices, Delete(s)
    PROVE  /\ SessionInv' /\ UNCHANGED <<dec, store, server, seen>>
           /\ \A i \in Indices : sessions'[i].status = sessions[i].status /\ sessions'[i].nb = sessions[i].nb
<1>1. /\ sessions' = [sessions EXCEPT ![s].active = FALSE]
      /\ UNCHANGED <<dec, store, server, seen>>
  BY DEF Delete
<1>2. sessions \in [Indices -> SessionType]
  BY DEF SessionInv
<1>3. \A i \in Indices : /\ sessions[i] \in SessionType
                         /\ sessions'[i] = IF i = s THEN [sessions[i] EXCEPT !.active = FALSE] ELSE sessions[i]
  BY <1>1, <1>2
<1>4. \A x \in SessionType : /\ [x EXCEPT !.active = FALSE] \in SessionType
                             /\ [x EXCEPT !.active = FALSE].nb = x.nb
                             /\ [x EXCEPT !.active = FALSE].status = x.status
  BY DEF SessionType
<1>5. \A i \in Indices : /\ sessions'[i] \in SessionType
                         /\ sessions'[i].status = sessions[i].status /\ sessions'[i].nb = sessions[i].nb
  BY <1>3, <1>4
<1>6. sessions' \in [Indices -> SessionType]
  BY <1>1, <1>2, <1>5
<1>7. Going' => Going
  BY <1>1, <1>5 DEF Going, Session, SessionInv
<1> QED
  BY <1>1, <1>5, <1>6, <1>7 DEF SessionInv

\* After a restart nothing goes on.
LEMMA RestartKeeps ==
    ASSUME SessionInv, Restart
    PROVE  /\ SessionInv' /\ ~Going' /\ server' = server
           /\ server.file > 0 => sessions'[server.index].nb = 0
<1>1. /\ dec' = NoDecoder /\ sessions' = [s \in Indices |-> NoSession] /\ seen' = {}
      /\ server' = server
      /\ store' = IF Flash THEN store ELSE [row \in DOMAIN store |-> Erased]
  BY DEF Restart
<1>2. DecInv(dec') /\ dec'.nb = 0
  BY <1>1, NoDecoderInv DEF NoDecoder
<1>3. NoSession \in SessionType
  BY MaxNbIs DEF NoSession, SessionType, Finished
<1>4. sessions' \in [Indices -> SessionType]
  BY <1>1, <1>3
<1>5. server.file > 0 => sessions'[server.index] = NoSession
  BY <1>1 DEF SessionInv
<1>6. NoSession.nb = 0 /\ NoSession.status # Ongoing
  BY DEF NoSession, Finished, Ongoing
<1>7. ~Going'
  BY <1>1, <1>5, <1>6 DEF Going, Session
<1>8. store' = [row \in 0 .. MaxNb - 1 |-> store'[row]]
  <2>1. store = [row \in 0 .. MaxNb - 1 |-> store[row]] /\ DOMAIN store = 0 .. MaxNb - 1
    BY DEF SessionInv
  <2> QED
    BY <1>1, <2>1
<1>9. seen' \subseteq 1 .. MaxNb + Coded
  BY <1>1
<1> QED
  BY <1>1, <1>2, <1>4, <1>5, <1>6, <1>7, <1>8, <1>9 DEF SessionInv

\* What the decoder is given is a fragment of the file it decodes.
LEMMA GoingSendable ==
    ASSUME SessionInv, NEW c \in 1 .. server.nb + Coded, server.file > 0, Going
    PROVE  /\ Sendable(c, dec) /\ DecInv(dec) /\ dec.nb = server.nb /\ dec.nb \in Sizes
           /\ dec.nb \in Nat \ {0} /\ dec.nb <= MaxNb /\ server.index \in Indices
           /\ c \in 1 .. MaxNb + Coded /\ c - dec.nb <= Coded
<1>1. PICK n \in Sizes : n = server.nb /\ n = dec.nb
  BY DEF SessionInv
<1>2. n \in Nat \ {0} /\ n <= MaxNb /\ MaxNb \in Nat /\ Coded \in Nat
  BY MaxNbIs, FragmentationAssumption
<1>3. c \in Nat \ {0} /\ c <= n + Coded
  BY <1>1, <1>2
<1>4. ASSUME c > n PROVE Parity(c, dec) \subseteq 0 .. dec.nb - 1
  <2>1. PICK k \in 1 .. Coded : k = c - n
    BY <1>2, <1>3, <1>4
  <2>2. ParityRow(k, n) \subseteq 0 .. n - 1
    BY ParityAssumption
  <2> QED
    BY <1>1, <2>1, <2>2 DEF Parity
<1> QED
  BY <1>1, <1>2, <1>3, <1>4 DEF Sendable, SessionInv

\* The rows of a store.
Shaped(st, X) == st = [row \in X |-> st[row]]

\* SetRow keeps the rows.
LEMMA SetRowShape ==
    ASSUME NEW X, NEW st, Shaped(st, X), NEW i, NEW data
    PROVE  Shaped(SetRow(i, data, st), X)
<1>1. DOMAIN st = X
  BY DEF Shaped
<1> QED
  BY <1>1 DEF SetRow, Shaped

\* A coded fragment keeps the rows.
LEMMA OutcomeShape ==
    ASSUME NEW X, NEW st, Shaped(st, X), NEW d, NEW c, NEW data, NEW r,
           NEW q, q = Outcome(c, data, d, st, r)
    PROVE  Shaped(q.store, X)
<1>1. PICK s : s = IF r.line = {} THEN st ELSE Stored(c, data, d, st, r)
  OBVIOUS
<1>2. Shaped(s, X)
  <2>1. CASE r.line = {}
    BY <1>1, <2>1
  <2>2. CASE r.line # {}
    BY <1>1, <2>2, SetRowShape DEF Stored
  <2> QED
    BY <2>1, <2>2
<1>3. PICK e : e = IF r.line = {} THEN d ELSE Pushed(d, r.line)
  OBVIOUS
<1>4. q = IF Vector(c, d) = {} THEN Result(d, st, Ongoing)
          ELSE IF e.line = e.lost THEN Result(e, Substituted(e, s), e.lost) ELSE Result(e, s, Ongoing)
  BY <1>1, <1>3 DEF Outcome
<1>5. q.store = st \/ q.store = s \/ q.store = Substituted(e, s)
  BY <1>4 DEF Result
<1>6. DOMAIN s = X
  BY <1>2 DEF Shaped
<1>7. Shaped(Substituted(e, s), X)
  BY <1>6 DEF Substituted, Shaped
<1> QED
  BY <1>2, <1>5, <1>7

\* FragDecoderProcess keeps the rows.
LEMMA ProcessShape ==
    ASSUME NEW X, NEW st, Shaped(st, X), NEW d, DecInv(d), NEW c \in Nat, NEW data,
           NEW q, q = Process(c, data, d, st)
    PROVE  Shaped(q.store, X)
<1>1. d.nb \in Nat /\ d.lastRx \in Nat
  BY DEF DecInv, Counted
<1>2. CASE Ignored(c, d, st, q)
  BY <1>2 DEF Ignored, Result
<1>3. CASE Plain(c, data, d, st, q)
  <2>1. q.store = SetRow(c - 1, data, st)
    BY <1>3 DEF Plain, Result
  <2> QED
    BY <2>1, SetRowShape
<1>4. CASE GivenUp(c, d, st, q)
  BY <1>4 DEF GivenUp, Result
<1>5. CASE NothingLost(c, d, st, q)
  BY <1>5 DEF NothingLost, Result
<1>6. ASSUME q = Outcome(c, data, FindMissing(c, d), st,
                         Reduced(Vector(c, FindMissing(c, d)), FindMissing(c, d)))
      PROVE  Shaped(q.store, X)
  <2>1. PICK e : e = FindMissing(c, d)
    OBVIOUS
  <2>2. PICK r : r = Reduced(Vector(c, e), e)
    OBVIOUS
  <2>3. q = Outcome(c, data, e, st, r)
    BY <1>6, <2>1, <2>2
  <2> QED
    BY <2>3, OutcomeShape
<1> QED
  BY <1>1, <1>2, <1>3, <1>4, <1>5, <1>6, ProcessIs

\* What a fragment does while the session goes on.
LEMMA SessionData ==
    ASSUME SessionInv, NEW c \in 1 .. server.nb + Coded, DataFragment(c), Going,
           NEW q, q = Process(c, Sent(c), dec, store)
    PROVE  /\ dec' = q.dec /\ store' = q.store /\ server' = server
           /\ sessions' = [sessions EXCEPT ![server.index].status = q.status]
           /\ seen' = IF c > dec.nb THEN seen \cup {c} ELSE seen
           /\ sessions'[server.index].status = q.status
           /\ sessions'[server.index].nb = sessions[server.index].nb
           /\ sessions'[server.index].status = Ongoing <=> q.status = Ongoing
<1>1. sessions[server.index].status = Ongoing /\ server.index \in Indices
  BY DEF Going, Session, SessionInv
<1>2. /\ dec' = q.dec /\ store' = q.store /\ server' = server
      /\ sessions' = [sessions EXCEPT ![server.index].status = q.status]
      /\ seen' = IF c > dec.nb THEN seen \cup {c} ELSE seen
  BY <1>1 DEF DataFragment
<1>3. /\ sessions'[server.index] = [sessions[server.index] EXCEPT !.status = q.status]
      /\ sessions[server.index] \in SessionType
  BY <1>1, <1>2 DEF SessionInv
<1>4. /\ sessions'[server.index].status = q.status
      /\ sessions'[server.index].nb = sessions[server.index].nb
  BY <1>3 DEF SessionType
<1> QED
  BY <1>2, <1>4

\* A fragment keeps SessionInv.
LEMMA DataKeeps ==
    ASSUME SessionInv, NEW c \in 1 .. server.nb + Coded, DataFragment(c)
    PROVE  SessionInv'
<1>0. server.file > 0 /\ server.index \in Indices /\ server' = server
  BY DEF DataFragment, SessionInv
<1>1. CASE sessions[server.index].status = Ongoing
  <2>0. Going
    BY <1>0, <1>1 DEF Going, Session
  <2>1. PICK q : q = Process(c, Sent(c), dec, store)
    OBVIOUS
  <2>2. /\ dec' = q.dec /\ store' = q.store /\ server' = server
        /\ sessions' = [sessions EXCEPT ![server.index].status = q.status]
        /\ seen' = (IF c > dec.nb THEN seen \cup {c} ELSE seen)
        /\ sessions'[server.index].status = q.status
    BY <2>0, <2>1, SessionData
  <2>3. /\ Sendable(c, dec) /\ DecInv(dec) /\ dec.nb = server.nb /\ dec.nb \in Sizes
        /\ dec.nb \in Nat \ {0} /\ dec.nb <= MaxNb /\ c \in 1 .. MaxNb + Coded
    BY <1>0, <2>0, GoingSendable
  <2>4. /\ DecInv(q.dec) /\ q.dec.nb = dec.nb /\ q.status \in {Ongoing} \cup 0 .. dec.nb
        /\ q.status = Ongoing => /\ dec.S = {} \/ dec.line < dec.lost => q.dec.S = {} \/ q.dec.line < q.dec.lost
                                 /\ c > dec.nb => q.dec.lastRx = dec.nb + 1 /\ q.dec.lost > 0
    BY <2>1, <2>3, ProcessInv
  <2>5. store' = [row \in 0 .. MaxNb - 1 |-> store'[row]]
    <3>1. c \in Nat /\ store = [row \in 0 .. MaxNb - 1 |-> store[row]]
      BY <2>3 DEF SessionInv, Sendable
    <3>2. PICK X : X = 0 .. MaxNb - 1
      OBVIOUS
    <3>3. PICK st : st = store
      OBVIOUS
    <3>4. Shaped(st, X)
      BY <3>1, <3>2, <3>3 DEF Shaped
    <3>5. PICK data : data = Sent(c)
      OBVIOUS
    <3>6. q = Process(c, data, dec, st)
      BY <2>1, <3>3, <3>5
    <3>7. Shaped(q.store, X)
      BY <2>3, <3>1, <3>4, <3>6, ProcessShape
    <3> QED
      BY <2>2, <3>2, <3>7 DEF Shaped
  <2>6. sessions' \in [Indices -> SessionType]
    <3>1. q.status \in -2 .. MaxNb
      BY <2>3, <2>4, MaxNbIs DEF Ongoing
    <3>2. sessions[server.index] \in SessionType
      BY <1>0 DEF SessionInv
    <3>3. [sessions[server.index] EXCEPT !.status = q.status] \in SessionType
      BY <3>1, <3>2 DEF SessionType
    <3> QED
      BY <2>2, <3>3 DEF SessionInv
  <2>7. seen' \subseteq 1 .. MaxNb + Coded
    BY <2>2, <2>3 DEF SessionInv
  <2>8. ASSUME Going'
        PROVE  /\ dec'.nb = server'.nb
               /\ dec'.S = {} \/ dec'.line < dec'.lost
               /\ seen' # {} => dec'.lastRx = dec'.nb + 1 /\ dec'.lost > 0
    <3>1. q.status = Ongoing
      BY <1>0, <2>2, <2>8 DEF Going, Session
    <3>2. dec'.nb = server'.nb /\ (dec'.S = {} \/ dec'.line < dec'.lost)
      BY <1>0, <2>0, <2>2, <2>3, <2>4, <3>1 DEF SessionInv
    <3>3. ASSUME seen' # {} PROVE dec'.lastRx = dec'.nb + 1 /\ dec'.lost > 0
      <4>1. CASE c > dec.nb
        BY <2>2, <2>4, <3>1, <4>1
      <4>2. CASE ~(c > dec.nb)
        <5>1. seen # {} /\ dec.lastRx = dec.nb + 1 /\ dec.lost > 0
          BY <2>0, <2>2, <3>3, <4>2 DEF SessionInv
        <5>2. c < dec.lastRx /\ c \in Nat /\ dec.nb \in Nat
          BY <2>3, <4>2, <5>1 DEF Sendable
        <5>3. q = Result(dec, store, Ongoing)
          BY <2>1, <5>2 DEF Process
        <5>4. q.dec = dec
          BY <5>3 DEF Result
        <5> QED
          BY <2>2, <5>1, <5>4
      <4> QED
        BY <4>1, <4>2
    <3> QED
      BY <3>2, <3>3
  <2>9. server.file > 0 => server.file # 0
    OBVIOUS
  <2>10. server.file \in 0 .. Files /\ server.nb \in Sizes /\ (server.file # 0)
    BY <1>0 DEF SessionInv
  <2> QED
    BY <1>0, <2>2, <2>3, <2>4, <2>5, <2>6, <2>7, <2>8, <2>10 DEF SessionInv
<1>2. CASE sessions[server.index].status # Ongoing
  <2>1. /\ sessions' = [sessions EXCEPT ![server.index].status = NotStarted]
        /\ UNCHANGED <<dec, store, seen>>
    BY <1>2 DEF DataFragment
  <2>2. sessions[server.index] \in SessionType /\ NotStarted \in -2 .. MaxNb
    BY <1>0, MaxNbIs DEF SessionInv, NotStarted
  <2>3. [sessions[server.index] EXCEPT !.status = NotStarted] \in SessionType
    BY <2>2 DEF SessionType
  <2>4. sessions' \in [Indices -> SessionType] /\ sessions'[server.index].status = NotStarted
    BY <1>0, <2>1, <2>2, <2>3 DEF SessionInv, SessionType
  <2>5. ~Going'
    BY <1>0, <2>4 DEF Going, Session, NotStarted, Ongoing
  <2> QED
    BY <1>0, <2>1, <2>4, <2>5 DEF SessionInv
<1> QED
  BY <1>1, <1>2

\* At every step the decoder is sound and serves the session that the server
\* sends to, which goes on only while it needs a line (FragDecoder.c, FragSessionData).
THEOREM SessionInvariant == Spec => []SessionInv
<1>1. ASSUME SessionInv, [Next]_vars PROVE SessionInv'
  <2>1. CASE \E s \in Indices, n \in Sizes, f \in 1 .. Files : Setup(s, n, f)
    BY <1>1, <2>1, SetupKeeps
  <2>2. CASE \E s \in Indices : Delete(s)
    BY <1>1, <2>2, DeleteKeeps
  <2>3. CASE \E c \in 1 .. server.nb + Coded : DataFragment(c)
    BY <1>1, <2>3, DataKeeps
  <2>4. CASE Restart
    BY <1>1, <2>4, RestartKeeps
  <2>5. CASE UNCHANGED vars
    BY <1>1, <2>5 DEF vars, SessionInv, Going, Session
  <2> QED
    BY <1>1, <2>1, <2>2, <2>3, <2>4, <2>5 DEF Next
<1> QED
  BY <1>1, SessionInit, PTL DEF Spec

\* What FRAG_MAX_REDUNDANCY rows need has its place in MatrixM2B.
LEMMA MatrixFits ==
    ASSUME NEW d, d.lost \in Nat, d.lost <= MaxRedundancy
    PROVE  /\ d.lost <= VectorBits
           /\ \A r \in 0 .. d.lost - 1 : \A i \in r .. d.lost - 1 :
                 Bit(r, i, d) \in 0 .. MatrixBits - 1
<1>1. PICK n \in Nat : n = d.lost
  OBVIOUS
<1>2. PICK m \in Nat : m = MaxRedundancy
  BY FragDecoderAssumption
<1>3. PICK v \in Nat : v = VectorBits /\ v >= m + 1
  BY <1>2 DEF VectorBits
<1>4. n <= m /\ MatrixBits = v * m
  BY <1>1, <1>2, <1>3 DEF MatrixBits
<1>5. (n * (n + 1)) \div 2 <= v * m
  <2>1. n * (n + 1) <= m * (n + 1) /\ m * (n + 1) <= m * v
    BY <1>3, <1>4
  <2>2. \A x, y \in Nat : x <= y => x \div 2 <= y
    OBVIOUS
  <2>3. n * (n + 1) \in Nat /\ m * v \in Nat /\ m * v = v * m /\ m * (n + 1) \in Nat
    BY <1>3
  <2> QED
    BY <2>1, <2>2, <2>3
<1>6. ASSUME NEW r \in 0 .. d.lost - 1, NEW i \in r .. d.lost - 1
      PROVE  Bit(r, i, d) \in 0 .. MatrixBits - 1
  <2>1. Bit(r, i, d) \in Full(n)
    BY <1>1, BitIn
  <2>2. v * m \in Nat /\ (n * (n + 1)) \div 2 \in Nat
    BY <1>3
  <2> QED
    BY <1>4, <1>5, <2>1, <2>2 DEF Full
<1> QED
  BY <1>1, <1>3, <1>4, <1>6

\* The decoder counts its lines, and as long as no more rows are missing than
\* FRAG_MAX_REDUNDANCY its lines and bits have their place in the fixed arrays
\* of FragDecoder_t, whatever is lost, repeated or sent late.
THEOREM TypeCorrect == Spec => []TypeOK
<1>1. SessionInv => TypeOK
  <2> SUFFICES ASSUME SessionInv PROVE TypeOK
    OBVIOUS
  <2>1. DecInv(dec)
    BY DEF SessionInv
  <2>2. PICK n \in Nat : n = dec.nb /\ n <= MaxNb
    <3>1. 0 <= MaxNb
      BY MaxNbIs
    <3> QED
      BY <3>1, MaxNbIs DEF SessionInv
  <2>3. dec.lost \in 0 .. dec.nb /\ dec.lastRx \in 0 .. dec.nb + 1 /\ dec.lost <= n
    BY <2>1, <2>2 DEF DecInv, Counted
  <2>4. dec.missing \in [0 .. n - 1 -> Nat] /\ DOMAIN dec.missing = 0 .. dec.nb - 1
    BY <2>1, <2>2 DEF DecInv, Counted
  <2>5. \A i \in DOMAIN dec.missing : dec.missing[i] \in 0 .. MaxNb
    <3> TAKE i \in DOMAIN dec.missing
    <3>1. dec.missing[i] \in Nat /\ (dec.missing[i] <= dec.lost \/ dec.missing[i] = 1)
      BY <2>1, <2>2, <2>4 DEF DecInv, Counted
    <3>2. dec.missing[i] <= MaxNb
      BY <2>2, <2>3, <3>1, MaxNbIs
    <3> QED
      BY <3>1, <3>2, MaxNbIs
  <2>6. /\ dec.m2b \subseteq 0 .. (dec.nb * (dec.nb + 1)) \div 2 - 1
        /\ dec.S \subseteq 0 .. dec.lost - 1 /\ dec.line = Cardinality(dec.S)
        /\ dec.error \in BOOLEAN
    BY <2>1 DEF DecInv, Lined, Full
  <2>7. \A s \in Indices : sessions[s].status \in -2 .. MaxNb
    BY DEF SessionInv, SessionType
  <2>8. dec.lost <= MaxRedundancy =>
           /\ dec.lost <= VectorBits
           /\ \A r \in 0 .. dec.lost - 1 : \A i \in r .. dec.lost - 1 :
                 Bit(r, i, dec) \in 0 .. MatrixBits - 1
    BY <2>1, MatrixFits DEF DecInv, Counted
  <2> QED
    BY <2>3, <2>4, <2>5, <2>6, <2>7, <2>8 DEF TypeOK, SessionInv
<1> QED
  BY <1>1, SessionInvariant, PTL

----------------------------------------------------------------------------
(* The store, if it erases and writes what it is told to.                  *)

\* What the XOR of the rows J of file f has.
Content(f, J) == {<<f, j + 1>> : j \in J}

\* The missing rows with the order numbers K.
Solved(d, K) == {j \in 0 .. d.nb - 1 : d.missing[j] # 0 /\ d.missing[j] - 1 \in K}

\* The rows received hold the file, and that of a line the XOR of its rows.
Filled(d, st, f) ==
    /\ \A i \in 0 .. d.nb - 1 : i < d.lastRx /\ d.missing[i] = 0 => st[i] = Fragment(f, i + 1)
    /\ \A i \in 0 .. d.nb - 1 : d.missing[i] # 0 /\ d.missing[i] - 1 \in d.S =>
          st[i] = Content(f, Solved(d, ExtractLine(d.missing[i] - 1, d)))

\* What the XOR of some rows of a file has.
LEMMA ContentHas ==
    ASSUME NEW f, NEW n \in Nat, NEW J, J \subseteq 0 .. n - 1
    PROVE  /\ \A j \in 0 .. n - 1 : <<f, j + 1>> \in Content(f, J) <=> j \in J
           /\ \A e \in Content(f, J) : \E j \in 0 .. n - 1 : e = <<f, j + 1>>
<1>1. ASSUME NEW j \in 0 .. n - 1, <<f, j + 1>> \in Content(f, J) PROVE j \in J
  <2>1. PICK i \in J : <<f, j + 1>> = <<f, i + 1>>
    BY <1>1 DEF Content
  <2>2. j + 1 = i + 1 /\ i \in Int /\ j \in Int
    BY <2>1
  <2>3. i = j
    BY <2>2
  <2> QED
    BY <2>3
<1>2. \A j \in J : <<f, j + 1>> \in Content(f, J)
  BY DEF Content
<1>3. \A e \in Content(f, J) : \E j \in 0 .. n - 1 : e = <<f, j + 1>>
  BY DEF Content
<1> QED
  BY <1>1, <1>2, <1>3

\* What a row of a file has.
LEMMA FragmentHas ==
    ASSUME NEW f, NEW i \in Int
    PROVE  \A e : e \in Fragment(f, i + 1) <=> e = <<f, i + 1>>
BY DEF Fragment

\* The rows whose XOR a coded fragment is reduced to.
LEMMA RestIs ==
    ASSUME NEW d, Closed(d), NEW c, Parity(c, d) \subseteq 0 .. d.nb - 1, NEW f, NEW st,
           Filled(d, st, f), NEW r, Reduces(Vector(c, d), r, d)
    PROVE  Rest(c, Content(f, Parity(c, d)), d, st, r) = Content(f, Solved(d, r.line))
<1>1. PICK n \in Nat : n = d.nb
  BY DEF Closed, DecInv, Counted
<1>2. PICK l \in Nat : l = d.lost
  BY DEF Closed, DecInv, Counted
<1> DEFINE P == Parity(c, d)
           M == [k \in 0 .. l - 1 |-> MissingIndex(k, d)]
           K == Known(c, d)
           U == r.used
           R == K \cup {MissingIndex(k, d) : k \in U}
           data == Content(f, P)
           goal == Content(f, Solved(d, r.line))
<1>3. P \subseteq 0 .. n - 1 /\ K \subseteq P /\ \A i \in P : i \in K <=> d.missing[i] = 0
  BY <1>1 DEF Known
<1>4. U \subseteq d.S /\ U \subseteq 0 .. l - 1
  BY <1>2 DEF Reduces, Closed, DecInv, Lined
<1>5. \A k \in 0 .. l - 1 : M[k] = MissingIndex(k, d) /\ M[k] \in 0 .. n - 1 /\ d.missing[M[k]] = k + 1
  BY <1>1, <1>2, MissingIndexIs
<1>6. ASSUME NEW k1 \in 0 .. l - 1, NEW k2 \in 0 .. l - 1, M[k1] = M[k2] PROVE k1 = k2
  <2>1. k1 + 1 = k2 + 1
    BY <1>5, <1>6
  <2> QED
    BY <2>1
<1>7. R = K \cup {M[k] : k \in U}
  BY <1>4, <1>5
<1>8. \A i \in K : st[i] = Fragment(f, i + 1)
  <2> TAKE i \in K
  <2>1. i \in 0 .. d.nb - 1 /\ d.missing[i] = 0 /\ i < d.lastRx
    BY <1>1, <1>3 DEF Closed
  <2> QED
    BY <2>1 DEF Filled
<1>9. \A k \in U : st[M[k]] = Content(f, Solved(d, ExtractLine(k, d)))
  <2> TAKE k \in U
  <2>1. M[k] \in 0 .. d.nb - 1 /\ d.missing[M[k]] = k + 1 /\ k \in d.S /\ k \in 0 .. l - 1
    BY <1>1, <1>4, <1>5
  <2>2. d.missing[M[k]] # 0 /\ d.missing[M[k]] - 1 = k
    BY <2>1
  <2> QED
    BY <2>1, <2>2 DEF Filled
<1>10. \A J : Solved(d, J) \subseteq 0 .. n - 1
  BY <1>1 DEF Solved
<1>11. IsFiniteSet(R) /\ IsFiniteSet(U)
  <2>1. IsFiniteSet(0 .. n - 1) /\ IsFiniteSet(0 .. l - 1)
    BY FiniteTo
  <2>2. R \in SUBSET (0 .. n - 1) /\ U \in SUBSET (0 .. l - 1)
    BY <1>3, <1>4, <1>5, <1>7
  <2> QED
    BY <2>1, <2>2, FS_Subset
<1>0. P \subseteq 0 .. n - 1 /\ K \subseteq 0 .. n - 1
  BY <1>3
<1>17. \A x \in Content(f, P) : \E j \in 0 .. n - 1 : x = <<f, j + 1>>
  <2> HIDE DEF P
  <2> QED
    BY <1>0 DEF Content
<1> HIDE DEF M, K, R, U, P
<1>12. ASSUME NEW j \in 0 .. n - 1
       PROVE  Odd({i \in R : <<f, j + 1>> \in st[i]}) <=>
                 ~(<<f, j + 1>> \in goal <=> j \in P)
  <2> DEFINE A == {i \in R : <<f, j + 1>> \in st[i]}
  <2>1. <<f, j + 1>> \in goal <=> j \in Solved(d, r.line)
    BY <1>10, ContentHas
  <2>2. \A k \in U : <<f, j + 1>> \in st[M[k]] <=> j \in Solved(d, ExtractLine(k, d))
    BY <1>9, <1>10, ContentHas
  <2>3. \A i \in K : <<f, j + 1>> \in st[i] <=> i = j
    <3> TAKE i \in K
    <3>1. i \in Int /\ i \in 0 .. n - 1
      BY <1>3
    <3>2. <<f, j + 1>> \in st[i] <=> <<f, j + 1>> = <<f, i + 1>>
      BY <1>8, <3>1, FragmentHas
    <3>3. j + 1 = i + 1 <=> i = j
      BY <3>1
    <3> QED
      BY <3>2, <3>3
  <2>4. CASE d.missing[j] = 0
    <3>1. \A J : j \notin Solved(d, J)
      BY <2>4 DEF Solved
    <3>2. A = IF j \in P THEN {j} ELSE {}
      <4>1. \A i \in R : <<f, j + 1>> \in st[i] <=> i \in K /\ i = j
        BY <1>7, <2>2, <2>3, <3>1
      <4>2. j \in K <=> j \in P
        BY <1>3, <2>4
      <4> QED
        BY <1>7, <4>1, <4>2
    <3>3. Odd(A) <=> j \in P
      <4> HIDE DEF A
      <4> QED
        BY <3>2, OddOne, OddEmpty
    <3> QED
      BY <2>1, <3>1, <3>3
  <2>5. CASE d.missing[j] # 0
    <3>1. PICK m : m = d.missing[j] - 1 /\ m \in 0 .. l - 1
      BY <1>1, <1>2, <2>5, MissingIndexOf
    <3>2. \A J : j \in Solved(d, J) <=> m \in J
      BY <1>1, <2>5, <3>1 DEF Solved
    <3> DEFINE B == {k \in U : m \in ExtractLine(k, d)}
    <3>3. A = {M[k] : k \in B}
      <4>1. j \notin K
        BY <1>3, <2>5
      <4>2. \A i \in A : \E k \in B : i = M[k]
        <5> TAKE i \in A
        <5>1. i \notin K
          BY <2>3, <4>1
        <5>2. PICK k \in U : i = M[k]
          BY <1>7, <5>1
        <5>3. k \in B
          BY <2>2, <3>2, <5>2
        <5> QED
          BY <5>2, <5>3
      <4>3. \A k \in B : M[k] \in A
        BY <1>7, <2>2, <3>2
      <4> QED
        BY <4>2, <4>3
    <3>4. IsFiniteSet(B) /\ \A x, y \in B : M[x] = M[y] => x = y
      <4>1. B \in SUBSET U
        OBVIOUS
      <4>2. B \subseteq 0 .. l - 1
        BY <1>4, <4>1
      <4> HIDE DEF B
      <4> QED
        BY <1>6, <1>11, <4>1, <4>2, FS_Subset
    <3>5. Odd(A) <=> Odd(B)
      <4>1. Pairs(M, B, A)
        BY <3>3, <3>4 DEF Pairs
      <4> HIDE DEF A, B
      <4> QED
        BY <3>4, <4>1, OddImage
    <3>6. m \in r.line <=> ~(Odd(B) <=> m \in Vector(c, d))
      <4>1. m \in 0 .. d.lost - 1
        BY <1>2, <3>1
      <4> QED
        BY <4>1 DEF Reduces, U
    <3>7. m \in Vector(c, d) <=> j \in P
      BY <1>1, <2>5, <3>1, VectorIs DEF P
    <3>8. <<f, j + 1>> \in goal <=> m \in r.line
      BY <2>1, <3>2
    <3> HIDE DEF A, B, goal
    <3>9. Odd(A) <=> ~(<<f, j + 1>> \in goal <=> j \in P)
      BY <3>5, <3>6, <3>7, <3>8
    <3> QED
      BY <3>9 DEF A
  <2> QED
    BY <2>4, <2>5
<1>13. ASSUME NEW e, \A j \in 0 .. n - 1 : e # <<f, j + 1>>
       PROVE  e \notin goal /\ e \notin data /\ \A i \in R : e \notin st[i]
  <2>1. e \notin goal
    BY <1>10, <1>13, ContentHas
  <2>2. e \notin data
    BY <1>13, <1>17
  <2>3. \A i \in K : e \notin st[i]
    <3> TAKE i \in K
    <3>1. i \in Int /\ i \in 0 .. n - 1
      BY <1>0
    <3>2. e # <<f, i + 1>>
      BY <1>13, <3>1
    <3> QED
      BY <1>8, <3>1, <3>2, FragmentHas
  <2>4. \A k \in U : e \notin st[M[k]]
    BY <1>9, <1>10, <1>13, ContentHas
  <2> QED
    BY <1>7, <2>1, <2>2, <2>3, <2>4
<1>14. \A e : e \in Xor(data, R, st) <=> ~(Odd({i \in R : e \in st[i]}) <=> e \in data)
  <2> HIDE DEF data
  <2> QED
    BY <1>11, XorHas
<1>15. \A e : e \in Xor(data, R, st) <=> e \in goal
  <2> TAKE e
  <2>1. CASE \E j \in 0 .. n - 1 : e = <<f, j + 1>>
    <3>1. PICK j \in 0 .. n - 1 : e = <<f, j + 1>>
      BY <2>1
    <3>2. e \in data <=> j \in P
      BY <1>3, <3>1, ContentHas
    <3>3. Odd({i \in R : e \in st[i]}) <=> ~(e \in goal <=> j \in P)
      BY <1>12, <3>1
    <3>4. e \in Xor(data, R, st) <=> ~(Odd({i \in R : e \in st[i]}) <=> e \in data)
      BY <1>14
    <3> HIDE DEF data, goal
    <3> QED
      BY <3>2, <3>3, <3>4
  <2>2. CASE ~(\E j \in 0 .. n - 1 : e = <<f, j + 1>>)
    <3>1. e \notin goal /\ e \notin data /\ \A i \in R : e \notin st[i]
      BY <1>13, <2>2
    <3>2. {i \in R : e \in st[i]} = {}
      BY <3>1
    <3>3. ~Odd({i \in R : e \in st[i]})
      BY <3>2, OddEmpty
    <3> QED
      BY <1>14, <3>1, <3>3
  <2> QED
    BY <2>1, <2>2
<1>16. Rest(c, Content(f, Parity(c, d)), d, st, r) = Xor(data, R, st)
  BY DEF Rest, R, K, U, P
<1> HIDE DEF data, goal
<1>18. Xor(data, R, st) = goal
  BY <1>15
<1> QED
  BY <1>16, <1>18 DEF goal

\* G gives the rows after k, of which R are those of its line.
Above(d, k, f, G, R) ==
    /\ R = {j \in k + 1 .. d.lost - 1 : j \in ExtractLine(k, d)}
    /\ \A j \in k + 1 .. d.lost - 1 : G[j] = Fragment(f, MissingIndex(j, d) + 1)

\* A row's line less those after it, which are known, is the row.
LEMMA RowLeft ==
    ASSUME NEW d, Closed(d), d.S = 0 .. d.lost - 1, NEW st, NEW f, Filled(d, st, f),
           NEW k \in 0 .. d.lost - 1, NEW G, NEW R, Above(d, k, f, G, R)
    PROVE  Xor(st[MissingIndex(k, d)], R, G) = Fragment(f, MissingIndex(k, d) + 1)
<1>1. PICK n \in Nat : n = d.nb
  BY DEF Closed, DecInv, Counted
<1>2. PICK l \in Nat : l = d.lost
  BY DEF Closed, DecInv, Counted
<1>3. PICK L : L = ExtractLine(k, d)
  OBVIOUS
<1>4. L \subseteq k .. l - 1 /\ k \in L
  BY <1>2, <1>3 DEF Closed, DecInv, Lined, ExtractLine
<1>5. PICK p \in 0 .. n - 1 : p = MissingIndex(k, d) /\ d.missing[p] = k + 1
  BY <1>1, MissingIndexIs
<1>6. PICK data : data = st[p]
  OBVIOUS
<1>7. data = Content(f, Solved(d, L))
  <2>1. d.missing[p] # 0 /\ d.missing[p] - 1 = k /\ k \in d.S
    BY <1>5
  <2> QED
    BY <1>1, <1>3, <1>5, <1>6, <2>1 DEF Filled
<1>8. R = {j \in k + 1 .. l - 1 : j \in L}
  BY <1>2, <1>3 DEF Above
<1>9. R \subseteq 0 .. l - 1 /\ IsFiniteSet(R)
  <2>1. R \subseteq 0 .. l - 1
    BY <1>2, <1>8
  <2>2. IsFiniteSet(0 .. l - 1) /\ R \in SUBSET (0 .. l - 1)
    BY <2>1, FiniteTo
  <2> QED
    BY <2>1, <2>2, FS_Subset
<1>10. \A x \in R : MissingIndex(x, d) \in 0 .. n - 1 /\ d.missing[MissingIndex(x, d)] = x + 1
  BY <1>1, <1>2, <1>9, MissingIndexIs
<1>11. \A x \in R : \A e : e \in G[x] <=> e = <<f, MissingIndex(x, d) + 1>>
  <2> TAKE x \in R
  <2>1. G[x] = Fragment(f, MissingIndex(x, d) + 1)
    BY <1>2, <1>8 DEF Above
  <2> QED
    BY <2>1, <1>10, FragmentHas
<1>12. Solved(d, L) \subseteq 0 .. n - 1
  BY <1>1 DEF Solved
<1>13. ASSUME NEW j \in 0 .. n - 1
       PROVE  ~(Odd({x \in R : <<f, j + 1>> \in G[x]}) <=> <<f, j + 1>> \in data) <=> j = p
  <2> DEFINE A == {x \in R : <<f, j + 1>> \in G[x]}
  <2>1. <<f, j + 1>> \in data <=> j \in Solved(d, L)
    BY <1>7, <1>12, ContentHas
  <2>2. \A x \in R : <<f, j + 1>> \in G[x] <=> MissingIndex(x, d) = j
    <3> TAKE x \in R
    <3>1. <<f, j + 1>> \in G[x] <=> <<f, j + 1>> = <<f, MissingIndex(x, d) + 1>>
      BY <1>11
    <3>2. MissingIndex(x, d) \in Int
      BY <1>10
    <3>3. j + 1 = MissingIndex(x, d) + 1 <=> MissingIndex(x, d) = j
      BY <3>2
    <3> QED
      BY <3>1, <3>3
  <2>3. CASE d.missing[j] = 0
    <3>1. j \notin Solved(d, L) /\ j # p
      BY <1>5, <2>3 DEF Solved
    <3>2. A = {}
      <4>1. \A x \in R : MissingIndex(x, d) # j
        <5> TAKE x \in R
        <5>1. x + 1 # 0
          BY <1>9
        <5> QED
          BY <1>10, <2>3, <5>1
      <4> QED
        BY <2>2, <4>1
    <3>3. ~Odd(A)
      BY <3>2, OddEmpty
    <3> QED
      BY <2>1, <3>1, <3>3
  <2>4. CASE d.missing[j] # 0
    <3>1. PICK m : m = d.missing[j] - 1 /\ m \in 0 .. l - 1 /\ MissingIndex(m, d) = j
      BY <1>1, <1>2, <2>4, MissingIndexOf
    <3>2. j \in Solved(d, L) <=> m \in L
      BY <1>1, <2>4, <3>1 DEF Solved
    <3>3. \A x \in R : MissingIndex(x, d) = j <=> x = m
      <4> TAKE x \in R
      <4>1. MissingIndex(x, d) = j => x = m
        <5> HAVE MissingIndex(x, d) = j
        <5>1. x + 1 = d.missing[j] /\ x \in Int
          BY <1>9, <1>10
        <5>2. m = x + 1 - 1
          BY <3>1, <5>1
        <5> QED
          BY <5>1, <5>2
      <4> QED
        BY <3>1, <4>1
    <3>4. A = IF m \in R THEN {m} ELSE {}
      BY <2>2, <3>3
    <3>5. Odd(A) <=> m \in R
      <4> HIDE DEF A
      <4> QED
        BY <3>4, OddOne, OddEmpty
    <3>6. m \in R <=> m \in L /\ m # k
      BY <1>4, <1>8, <3>1
    <3>7. j = p <=> m = k
      BY <1>5, <3>1
    <3> HIDE DEF A
    <3>8. ~(Odd(A) <=> <<f, j + 1>> \in data) <=> j = p
      BY <1>4, <2>1, <3>2, <3>5, <3>6, <3>7
    <3> QED
      BY <3>8 DEF A
  <2> QED
    BY <2>3, <2>4
<1>14. ASSUME NEW e, \A j \in 0 .. n - 1 : e # <<f, j + 1>>
       PROVE  e \notin data /\ \A x \in R : e \notin G[x]
  <2>1. e \notin data
    BY <1>7, <1>12, <1>14 DEF Content
  <2>2. \A x \in R : e \notin G[x]
    BY <1>10, <1>11, <1>14
  <2> QED
    BY <2>1, <2>2
<1>15. \A e : e \in Xor(data, R, G) <=> ~(Odd({x \in R : e \in G[x]}) <=> e \in data)
  BY <1>9, XorHas
<1>16. p \in Int /\ \A j \in 0 .. n - 1 : <<f, j + 1>> = <<f, p + 1>> <=> j = p
  <2>1. \A j \in 0 .. n - 1 : j + 1 = p + 1 <=> j = p
    OBVIOUS
  <2> QED
    BY <2>1
<1>17. \A e : e \in Xor(data, R, G) <=> e \in Fragment(f, p + 1)
  <2> TAKE e
  <2>0. e \in Fragment(f, p + 1) <=> e = <<f, p + 1>>
    BY <1>16, FragmentHas
  <2>1. CASE \E j \in 0 .. n - 1 : e = <<f, j + 1>>
    <3>1. PICK j \in 0 .. n - 1 : e = <<f, j + 1>>
      BY <2>1
    <3>2. ~(Odd({x \in R : e \in G[x]}) <=> e \in data) <=> j = p
      BY <1>13, <3>1
    <3>3. e = <<f, p + 1>> <=> j = p
      BY <1>16, <3>1
    <3> QED
      BY <1>15, <2>0, <3>2, <3>3
  <2>2. CASE ~(\E j \in 0 .. n - 1 : e = <<f, j + 1>>)
    <3>1. e \notin data /\ \A x \in R : e \notin G[x]
      BY <1>14, <2>2
    <3>2. {x \in R : e \in G[x]} = {}
      BY <3>1
    <3>3. ~Odd({x \in R : e \in G[x]})
      BY <3>2, OddEmpty
    <3>4. e # <<f, p + 1>>
      BY <2>2
    <3> QED
      BY <1>15, <2>0, <3>1, <3>3, <3>4
  <2> QED
    BY <2>1, <2>2
<1>18. Xor(data, R, G) = Fragment(f, p + 1)
  BY <1>17
<1> QED
  BY <1>5, <1>6, <1>18

\* The last line is its row.
LEMMA LastRow ==
    ASSUME NEW d, Closed(d), d.S = 0 .. d.lost - 1, NEW st, NEW f, Filled(d, st, f),
           d.lost - 1 \in 0 .. d.lost - 1
    PROVE  st[MissingIndex(d.lost - 1, d)] = Fragment(f, MissingIndex(d.lost - 1, d) + 1)
<1>1. PICK n \in Nat : n = d.nb
  BY DEF Closed, DecInv, Counted
<1>2. PICK k \in 0 .. d.lost - 1 : k = d.lost - 1
  OBVIOUS
<1>3. ExtractLine(k, d) = {k}
  <2>1. ExtractLine(k, d) \subseteq k .. d.lost - 1 /\ k \in ExtractLine(k, d)
    BY DEF Closed, DecInv, Lined, ExtractLine
  <2>2. k .. d.lost - 1 = {k}
    BY <1>2
  <2> QED
    BY <2>1, <2>2
<1>4. PICK p \in 0 .. n - 1 : p = MissingIndex(k, d) /\ d.missing[p] = k + 1
  BY <1>1, MissingIndexIs
<1>5. Solved(d, {k}) = {p}
  <2>1. d.missing[p] # 0 /\ d.missing[p] - 1 = k
    BY <1>4
  <2>2. \A j \in 0 .. n - 1 : d.missing[j] # 0 /\ d.missing[j] - 1 = k => j = p
    BY <1>1, <1>4, MissingIndexOf
  <2> QED
    BY <1>1, <1>4, <2>1, <2>2 DEF Solved
<1>6. st[p] = Content(f, {p})
  <2>1. d.missing[p] # 0 /\ d.missing[p] - 1 = k /\ k \in d.S
    BY <1>4
  <2> QED
    BY <1>1, <1>3, <1>5, <2>1 DEF Filled
<1> QED
  BY <1>2, <1>4, <1>6 DEF Content, Fragment

\* The last step gives the file.
LEMMA SubstitutedIs ==
    ASSUME ~Flash, NEW d, Closed(d), d.S = 0 .. d.lost - 1, NEW st, NEW f, Filled(d, st, f),
           NEW X, Shaped(st, X), 0 .. d.nb - 1 \subseteq X
    PROVE  \A i \in 0 .. d.nb - 1 : Substituted(d, st)[i] = Fragment(f, i + 1)
<1>1. PICK l \in Nat : l = d.lost
  BY DEF Closed, DecInv, Counted
<1> DEFINE N == 0 .. l - 1
           row(k) == MissingIndex(k, d)
           rows(k) == {j \in k + 1 .. l - 1 : j \in ExtractLine(k, d)}
           F(h) == h = [k \in 0 .. d.lost - 1 |->
                        IF k = d.lost - 1 THEN st[row(k)]
                        ELSE Written(row(k), st[row(k)],
                                     Xor(st[row(k)], {j \in k + 1 .. d.lost - 1 : j \in ExtractLine(k, d)},
                                         [j \in k + 1 .. d.lost - 1 |-> h[j]]))]
           t == CHOOSE h : F(h)
           Value(h, k) == IF k = l - 1 THEN st[row(k)]
                          ELSE Xor(st[row(k)], rows(k), [j \in k + 1 .. l - 1 |-> h[j]])
<1>2. \A h : F(h) <=> h = [k \in N |-> Value(h, k)]
  BY <1>1 DEF Written
<1>3. ASSUME NEW h, NEW k \in N, \A j \in k + 1 .. l - 1 : h[j] = Fragment(f, row(j) + 1)
      PROVE  Value(h, k) = Fragment(f, row(k) + 1)
  <2>1. CASE k = l - 1
    <3>1. l - 1 \in 0 .. l - 1
      BY <2>1
    <3>2. st[row(l - 1)] = Fragment(f, row(l - 1) + 1)
      BY <1>1, <3>1, LastRow
    <3> QED
      BY <2>1, <3>2
  <2>2. CASE k # l - 1
    <3>1. PICK G : G = [j \in k + 1 .. l - 1 |-> h[j]]
      OBVIOUS
    <3>2. PICK R : R = {j \in k + 1 .. d.lost - 1 : j \in ExtractLine(k, d)}
      OBVIOUS
    <3>3. \A j \in k + 1 .. d.lost - 1 : G[j] = Fragment(f, MissingIndex(j, d) + 1)
      BY <1>1, <1>3, <3>1
    <3>4. k \in 0 .. d.lost - 1
      BY <1>1
    <3>5. Xor(st[MissingIndex(k, d)], R, G) = Fragment(f, MissingIndex(k, d) + 1)
      <4>1. Above(d, k, f, G, R)
        BY <3>2, <3>3 DEF Above
      <4> QED
        BY <3>4, <4>1, RowLeft
    <3> QED
      BY <1>1, <2>2, <3>1, <3>2, <3>5
  <2> QED
    BY <2>1, <2>2
<1> DEFINE g == [k \in N |-> Fragment(f, row(k) + 1)]
<1>4. F(g)
  <2>1. \A k \in N : g[k] = Fragment(f, row(k) + 1)
    OBVIOUS
  <2>2. ASSUME NEW k \in N PROVE g[k] = Value(g, k)
    <3>1. \A j \in k + 1 .. l - 1 : j \in N
      OBVIOUS
    <3>2. \A j \in k + 1 .. l - 1 : g[j] = Fragment(f, row(j) + 1)
      BY <2>1, <3>1
    <3>3. Value(g, k) = Fragment(f, row(k) + 1)
      <4> HIDE DEF g, Value, row, F
      <4> QED
        BY <1>3, <3>2
    <3> HIDE DEF g, Value, row, F
    <3> QED
      BY <2>1, <3>3
  <2>3. g = [k \in N |-> g[k]]
    OBVIOUS
  <2>4. g = [k \in N |-> Value(g, k)]
    <3> HIDE DEF g, Value, row, F
    <3> QED
      BY <2>2, <2>3
  <2> HIDE DEF g, F, Value, row
  <2> QED
    BY <1>2, <2>4
<1>5. F(t)
  <2> HIDE DEF g, F
  <2> QED
    BY <1>4
<1>6. \A k \in N : t[k] = Value(t, k)
  <2>1. t = [k \in N |-> Value(t, k)]
    <3> HIDE DEF t, F, Value, row
    <3> QED
      BY <1>2, <1>5
  <2> HIDE DEF t, Value
  <2> QED
    BY <2>1
<1> HIDE DEF t, F, g, Value
<1>7. \A k \in N : t[k] = Fragment(f, row(k) + 1)
  <2> DEFINE A == {a \in Nat : \E k \in N : k + a = l /\ t[k] # Fragment(f, row(k) + 1)}
  <2>1. A = {}
    <3> SUFFICES ASSUME A # {} PROVE FALSE
      OBVIOUS
    <3>1. PICK a \in A : \A b \in A : a <= b
      BY Least
    <3>2. PICK k \in N : k + a = l /\ t[k] # Fragment(f, row(k) + 1)
      BY <3>1
    <3>3. ASSUME NEW j \in k + 1 .. l - 1 PROVE t[j] = Fragment(f, row(j) + 1)
      <4>1. j \in N /\ l - j \in Nat /\ l - j < a /\ j + (l - j) = l /\ a \in Nat
        BY <3>1, <3>2
      <4>2. l - j \notin A
        <5> HIDE DEF A
        <5>1. ~(a <= l - j)
          BY <4>1
        <5> QED
          BY <3>1, <5>1
      <4> HIDE DEF row, N
      <4> QED
        BY <4>1, <4>2
    <3>4. Value(t, k) = Fragment(f, row(k) + 1)
      <4> HIDE DEF row, A
      <4> QED
        BY <1>3, <3>3
    <3> QED
      BY <1>6, <3>2, <3>4
  <2>2. ASSUME NEW k \in N PROVE t[k] = Fragment(f, row(k) + 1)
    <3>1. l - k \in Nat /\ k + (l - k) = l
      OBVIOUS
    <3>2. l - k \notin A
      BY <2>1
    <3> HIDE DEF row, N
    <3> QED
      BY <3>1, <3>2
  <2> QED
    BY <2>2
<1>8. \A i \in X : Substituted(d, st)[i] =
         IF i < d.nb /\ d.missing[i] > 0 THEN t[d.missing[i] - 1] ELSE st[i]
  <2>1. DOMAIN st = X
    BY DEF Shaped
  <2>2. Substituted(d, st) = [i \in X |-> IF i < d.nb /\ d.missing[i] > 0
                                          THEN t[d.missing[i] - 1] ELSE st[i]]
    BY <2>1 DEF Substituted, t, F
  <2> QED
    BY <2>2
<1>9. ASSUME NEW i \in 0 .. d.nb - 1 PROVE Substituted(d, st)[i] = Fragment(f, i + 1)
  <2>1. i \in X /\ i < d.nb /\ i \in Nat /\ d.missing[i] \in Nat /\ i < d.lastRx
    <3>1. PICK n \in Nat : n = d.nb /\ d.missing \in [0 .. n - 1 -> Nat] /\ d.lastRx = n + 1
      BY DEF Closed, DecInv, Counted
    <3> QED
      BY <3>1
  <2>2. CASE d.missing[i] = 0
    BY <1>8, <2>1, <2>2 DEF Filled
  <2>3. CASE d.missing[i] # 0
    <3>1. d.missing[i] > 0
      BY <2>1, <2>3
    <3>2. d.missing[i] - 1 \in N /\ row(d.missing[i] - 1) = i
      BY <1>1, <2>3, MissingIndexOf
    <3>3. t[d.missing[i] - 1] = Fragment(f, i + 1)
      BY <1>7, <3>2
    <3> QED
      BY <1>8, <2>1, <3>1, <3>3
  <2> QED
    BY <2>2, <2>3
<1> QED
  BY <1>9

\* A store that writes what it is told to.
LEMMA SetRowIs ==
    ASSUME ~Flash, NEW X, NEW st, Shaped(st, X), NEW p \in X, NEW data
    PROVE  \A i \in X : SetRow(p, data, st)[i] = IF i = p THEN data ELSE st[i]
<1>1. DOMAIN st = X
  BY DEF Shaped
<1>2. SetRow(p, data, st) = [st EXCEPT ![p] = Written(p, st[p], data)]
  BY DEF SetRow
<1>3. Written(p, st[p], data) = data
  BY DEF Written
<1> QED
  BY <1>1, <1>2, <1>3

\* The row of a new line holds the XOR of its rows.
LEMMA FilledPush ==
    ASSUME ~Flash, NEW d, Closed(d), NEW c, Parity(c, d) \subseteq 0 .. d.nb - 1, NEW f, NEW st,
           Filled(d, st, f), NEW r, Reduces(Vector(c, d), r, d), r.line # {},
           NEW X, Shaped(st, X), 0 .. d.nb - 1 \subseteq X,
           NEW e, e = Pushed(d, r.line), NEW s, s = Stored(c, Content(f, Parity(c, d)), d, st, r)
    PROVE  Filled(e, s, f) /\ Shaped(s, X)
<1>1. PICK l : l = r.line
  OBVIOUS
<1>2. l \subseteq 0 .. d.lost - 1 /\ l # {} /\ Smallest(l) \notin d.S
  BY <1>1 DEF Reduces
<1>3. PICK p : p = Smallest(l)
  OBVIOUS
<1>4. /\ Closed(e) /\ e.nb = d.nb /\ e.lost = d.lost /\ e.missing = d.missing
      /\ e.S = d.S \cup {p} /\ p \in l
      /\ \A k \in d.S : ExtractLine(k, e) = ExtractLine(k, d)
      /\ ExtractLine(p, e) = l
  BY <1>1, <1>2, <1>3, PushInv
<1>5. e.lastRx = d.lastRx
  BY <1>4 DEF Closed
<1>6. p \in 0 .. d.lost - 1
  BY <1>2, <1>4
<1>7. PICK m : m = MissingIndex(p, d)
  OBVIOUS
<1>8. m \in 0 .. d.nb - 1 /\ d.missing[m] = p + 1 /\ m \in X
  BY <1>6, <1>7, MissingIndexIs
<1>9. PICK data : data = Rest(c, Content(f, Parity(c, d)), d, st, r)
  OBVIOUS
<1>10. data = Content(f, Solved(d, l))
  BY <1>1, <1>9, RestIs
<1>11. s = SetRow(m, data, st)
  BY <1>1, <1>3, <1>7, <1>9 DEF Stored
<1>12. \A i \in X : s[i] = IF i = m THEN data ELSE st[i]
  BY <1>8, <1>11, SetRowIs
<1>13. Shaped(s, X)
  BY <1>11, SetRowShape
<1>14. \A K : Solved(e, K) = Solved(d, K)
  BY <1>4 DEF Solved
<1>15. \A i \in 0 .. d.nb - 1 : i < e.lastRx /\ e.missing[i] = 0 => s[i] = Fragment(f, i + 1)
  <2> TAKE i \in 0 .. d.nb - 1
  <2> HAVE i < e.lastRx /\ e.missing[i] = 0
  <2>1. i # m
    BY <1>4, <1>6, <1>8
  <2>2. s[i] = st[i]
    BY <1>12, <2>1
  <2> QED
    BY <1>4, <1>5, <2>2 DEF Filled
<1>16. \A i \in 0 .. d.nb - 1 : e.missing[i] # 0 /\ e.missing[i] - 1 \in e.S =>
          s[i] = Content(f, Solved(e, ExtractLine(e.missing[i] - 1, e)))
  <2> TAKE i \in 0 .. d.nb - 1
  <2> HAVE e.missing[i] # 0 /\ e.missing[i] - 1 \in e.S
  <2>1. CASE d.missing[i] - 1 = p
    <3>1. i = m
      BY <1>4, <1>7, <2>1, MissingIndexOf
    <3> QED
      BY <1>4, <1>8, <1>10, <1>12, <1>14, <2>1, <3>1
  <2>2. CASE d.missing[i] - 1 # p
    <3>1. i # m
      <4>1. i = m => d.missing[i] - 1 = p
        BY <1>6, <1>8
      <4> QED
        BY <2>2, <4>1
    <3>2. d.missing[i] - 1 \in d.S
      BY <1>4, <2>2
    <3>3. s[i] = st[i]
      BY <1>12, <3>1
    <3>4. st[i] = Content(f, Solved(d, ExtractLine(d.missing[i] - 1, d)))
      BY <1>4, <3>2 DEF Filled
    <3> QED
      BY <1>4, <1>14, <3>2, <3>3, <3>4
  <2> QED
    BY <2>1, <2>2
<1> QED
  BY <1>4, <1>13, <1>15, <1>16 DEF Filled

\* Counting the missing rows changes nothing in the store.
LEMMA FilledFind ==
    ASSUME NEW d, DecInv(d), NEW c \in Nat, c > d.nb, NEW e, e = FindMissing(c, d),
           NEW st, NEW f, Filled(d, st, f)
    PROVE  Filled(e, st, f)
<1>1. /\ e.nb = d.nb /\ e.S = d.S
      /\ d.lastRx = d.nb + 1 => e = d
      /\ \A i \in 0 .. d.nb - 1 : e.missing[i] = 0 => i < d.lastRx /\ d.missing[i] = 0
  BY FindCoded
<1>2. CASE d.S # {}
  BY <1>1, <1>2 DEF DecInv, Lined
<1>3. CASE d.S = {}
  BY <1>1, <1>3 DEF Filled
<1> QED
  BY <1>2, <1>3

\* A row that is received holds its fragment.
LEMMA FilledPlain ==
    ASSUME ~Flash, NEW d, DecInv(d), NEW c \in Nat \ {0}, NEW f, NEW st, Filled(d, st, f),
           NEW X, Shaped(st, X), 0 .. d.nb - 1 \subseteq X,
           NEW q, Plain(c, Fragment(f, c), d, st, q)
    PROVE  Filled(q.dec, q.store, f)
<1>1. /\ d.lastRx <= c /\ c <= d.nb
      /\ q.dec = FindMissing(c, [d EXCEPT !.missing[c - 1] = 0])
      /\ q.store = SetRow(c - 1, Fragment(f, c), st)
  BY DEF Plain, Result
<1>2. /\ q.dec.nb = d.nb /\ q.dec.S = {}
      /\ \A i \in 0 .. d.nb - 1 : i < q.dec.lastRx /\ q.dec.missing[i] = 0 =>
            i = c - 1 \/ (i < d.lastRx /\ d.missing[i] = 0)
  BY <1>1, FindPlain
<1>3. PICK p : p = c - 1 /\ p \in X /\ c = p + 1
  <2>1. PICK n \in Nat : n = d.nb
    BY DEF DecInv, Counted
  <2>2. c - 1 \in 0 .. n - 1 /\ c = (c - 1) + 1
    BY <1>1, <2>1
  <2> QED
    BY <2>1, <2>2
<1>4. \A i \in X : q.store[i] = IF i = p THEN Fragment(f, c) ELSE st[i]
  BY <1>1, <1>3, SetRowIs
<1> QED
  BY <1>2, <1>3, <1>4 DEF Filled

\* All rows hold the file.
Whole(st, f, n) == \A i \in 0 .. n - 1 : st[i] = Fragment(f, i + 1)

\* A coded fragment is stored as the XOR of its line; the last one gives the file.
LEMMA OutcomeStore ==
    ASSUME ~Flash, NEW d, Closed(d), NEW c, Parity(c, d) \subseteq 0 .. d.nb - 1, NEW f, NEW st,
           Filled(d, st, f), NEW r, Reduces(Vector(c, d), r, d),
           NEW X, Shaped(st, X), 0 .. d.nb - 1 \subseteq X,
           NEW q, q = Outcome(c, Content(f, Parity(c, d)), d, st, r)
    PROVE  /\ q.status = Ongoing => Filled(q.dec, q.store, f)
           /\ q.status # Ongoing => Whole(q.store, f, d.nb)
<1>1. PICK s : s = IF r.line = {} THEN st ELSE Stored(c, Content(f, Parity(c, d)), d, st, r)
  OBVIOUS
<1>2. PICK e : e = IF r.line = {} THEN d ELSE Pushed(d, r.line)
  OBVIOUS
<1>3. q = IF Vector(c, d) = {} THEN Result(d, st, Ongoing)
          ELSE IF e.line = e.lost THEN Result(e, Substituted(e, s), e.lost) ELSE Result(e, s, Ongoing)
  BY <1>1, <1>2 DEF Outcome
<1>4. Closed(e) /\ e.nb = d.nb /\ Filled(e, s, f) /\ Shaped(s, X)
  <2>1. CASE r.line = {}
    BY <1>1, <1>2, <2>1
  <2>2. CASE r.line # {}
    <3>1. Filled(e, s, f) /\ Shaped(s, X)
      BY <1>1, <1>2, <2>2, FilledPush
    <3>2. r.line \subseteq 0 .. d.lost - 1 /\ Smallest(r.line) \notin d.S
      BY <2>2 DEF Reduces
    <3>3. Closed(e) /\ e.nb = d.nb
      BY <1>2, <2>2, <3>2, PushInv
    <3> QED
      BY <3>1, <3>3
  <2> QED
    BY <2>1, <2>2
<1>5. CASE Vector(c, d) = {}
  BY <1>3, <1>5 DEF Result
<1>6. CASE Vector(c, d) # {} /\ e.line # e.lost
  BY <1>3, <1>4, <1>6 DEF Result
<1>7. CASE Vector(c, d) # {} /\ e.line = e.lost
  <2>1. q.store = Substituted(e, s) /\ q.status = e.lost
    BY <1>3, <1>7 DEF Result
  <2>2. e.S = 0 .. e.lost - 1 /\ e.lost \in Nat
    BY <1>4, <1>7, LineBound DEF Closed
  <2>3. \A i \in 0 .. e.nb - 1 : Substituted(e, s)[i] = Fragment(f, i + 1)
    BY <1>4, <2>2, SubstitutedIs
  <2>4. q.status # Ongoing
    BY <2>1, <2>2 DEF Ongoing
  <2> QED
    BY <1>4, <2>1, <2>3, <2>4 DEF Whole
<1> QED
  BY <1>5, <1>6, <1>7

\* What is sent as fragment c of file f.
Coding(c, f, d) == IF c <= d.nb THEN Fragment(f, c) ELSE Content(f, Parity(c, d))

\* FragDecoderProcess keeps the store filled, and ends with the file or its failure.
LEMMA ProcessStore ==
    ASSUME ~Flash, NEW d, DecInv(d), NEW c, Sendable(c, d), NEW f, NEW st,
           Filled(d, st, f), NEW X, Shaped(st, X), 0 .. d.nb - 1 \subseteq X,
           NEW q, q = Process(c, Coding(c, f, d), d, st)
    PROVE  /\ q.status = Ongoing => Filled(q.dec, q.store, f)
           /\ q.status # Ongoing => \/ Whole(q.store, f, d.nb)
                                    \/ q.dec.error /\ q.dec.lost > MaxRedundancy
<1>1. d.nb \in Nat /\ d.lastRx \in Nat /\ c \in Nat \ {0} /\ c \in Nat
  BY DEF DecInv, Counted, Sendable
<1>2. PICK data : data = Coding(c, f, d)
  OBVIOUS
<1>3. CASE Ignored(c, d, st, q)
  BY <1>3 DEF Ignored, Result
<1>4. CASE Plain(c, data, d, st, q)
  <2>1. data = Fragment(f, c) /\ q.status = Ongoing
    BY <1>2, <1>4 DEF Plain, Coding, Result
  <2>2. Plain(c, Fragment(f, c), d, st, q)
    BY <1>4, <2>1
  <2>3. Filled(q.dec, q.store, f)
    BY <1>1, <2>2, FilledPlain
  <2> QED
    BY <2>1, <2>3
<1>5. CASE GivenUp(c, d, st, q)
  <2>1. q.dec = [d EXCEPT !.error = TRUE] /\ q.status = Finished /\ d.lost > MaxRedundancy
    BY <1>5 DEF GivenUp, Result
  <2>2. q.dec.error /\ q.dec.lost = d.lost /\ q.status # Ongoing
    BY <2>1 DEF DecInv, Record, Finished, Ongoing
  <2> QED
    BY <2>1, <2>2
<1>6. CASE NothingLost(c, d, st, q)
  <2>1. PICK e : e = FindMissing(c, d)
    OBVIOUS
  <2>2. c > d.nb /\ e.lost = 0 /\ q.store = st /\ q.status = Finished
    BY <1>6, <2>1 DEF NothingLost, Result
  <2>3. Closed(e) /\ e.nb = d.nb /\ Filled(e, st, f)
    BY <1>1, <2>1, <2>2, CodedFinds, FilledFind
  <2>4. \A i \in 0 .. e.nb - 1 : i < e.lastRx /\ e.missing[i] = 0
    <3>1. PICK n \in Nat : n = e.nb /\ e.missing \in [0 .. n - 1 -> Nat] /\ e.lastRx = n + 1
      BY <2>3 DEF Closed, DecInv, Counted
    <3>2. \A i \in 0 .. n - 1 : i < n + 1 /\ e.missing[i] \in Nat /\ e.missing[i] <= 0
      BY <2>2, <2>3, <3>1 DEF Closed, DecInv, Counted
    <3> QED
      BY <3>1, <3>2
  <2>5. Whole(st, f, d.nb)
    BY <2>3, <2>4 DEF Filled, Whole
  <2>6. q.status # Ongoing
    BY <2>2 DEF Finished, Ongoing
  <2> QED
    BY <2>2, <2>5, <2>6
<1>7. ASSUME c > d.nb, FindMissing(c, d).lost # 0,
             q = Outcome(c, data, FindMissing(c, d), st,
                         Reduced(Vector(c, FindMissing(c, d)), FindMissing(c, d)))
      PROVE  /\ q.status = Ongoing => Filled(q.dec, q.store, f)
             /\ q.status # Ongoing => Whole(q.store, f, d.nb)
  <2>1. PICK e : e = FindMissing(c, d)
    OBVIOUS
  <2>2. PICK r : r = Reduced(Vector(c, e), e)
    OBVIOUS
  <2>3. /\ Closed(e) /\ e.nb = d.nb /\ Reduces(Vector(c, e), r, e)
        /\ Parity(c, e) \subseteq 0 .. e.nb - 1
    BY <1>7, <2>1, <2>2, CodedFinds
  <2>4. Filled(e, st, f) /\ 0 .. e.nb - 1 \subseteq X
    BY <1>1, <1>7, <2>1, <2>3, FilledFind
  <2>5. data = Content(f, Parity(c, e))
    BY <1>1, <1>2, <1>7, <2>3 DEF Coding, Parity
  <2>6. q = Outcome(c, Content(f, Parity(c, e)), e, st, r)
    BY <1>7, <2>1, <2>2, <2>5
  <2>7. /\ q.status = Ongoing => Filled(q.dec, q.store, f)
        /\ q.status # Ongoing => Whole(q.store, f, e.nb)
    BY <2>3, <2>4, <2>6, OutcomeStore
  <2> QED
    BY <2>3, <2>7
<1> QED
  BY <1>1, <1>2, <1>3, <1>4, <1>5, <1>6, <1>7, ProcessIs

\* While the decoder goes on, the store holds what it has of the file; when it
\* is done, all of it, or more rows were missing than it can recover.
StoreInv ==
    /\ Going => Filled(dec, store, server.file)
    /\ server.file > 0 /\ Done => Complete \/ (dec.error /\ dec.lost > MaxRedundancy)

\* What the server sends, as the decoder sees it.
LEMMA SentIs ==
    ASSUME NEW c, dec.nb = server.nb
    PROVE  Sent(c) = Coding(c, server.file, dec)
<1>1. \A J : UNION {Fragment(server.file, i + 1) : i \in J} = Content(server.file, J)
  BY DEF Fragment, Content
<1> QED
  BY <1>1 DEF Sent, Coding, Parity

\* StoreInv holds at first.
LEMMA StoreInit == Init => StoreInv
<1> SUFFICES ASSUME Init PROVE StoreInv
  OBVIOUS
<1>1. server.file = 0
  BY DEF Init
<1> QED
  BY <1>1 DEF StoreInv, Going

\* A set-up keeps StoreInv: nothing is received yet.
LEMMA SetupStores ==
    ASSUME SessionInv, NEW s \in Indices, NEW n \in Sizes, NEW f \in 1 .. Files, Setup(s, n, f)
    PROVE  StoreInv'
<1>1. /\ SessionInv' /\ server'.index = s /\ dec'.S = {} /\ dec'.lastRx = 0 /\ dec'.nb = n
      /\ sessions'[s].status = Ongoing
  BY SetupKeeps
<1>2. ~Done'
  BY <1>1 DEF Done, Session, Ongoing, Finished
<1>3. Filled(dec', store', server'.file)
  <2>1. \A i \in 0 .. dec'.nb - 1 : ~(i < dec'.lastRx)
    <3>1. n \in Nat
      BY MaxNbIs
    <3> QED
      BY <1>1, <3>1
  <2>2. \A i : i \notin dec'.S
    BY <1>1
  <2> QED
    BY <2>1, <2>2 DEF Filled
<1> QED
  BY <1>2, <1>3 DEF StoreInv

\* A deletion keeps StoreInv.
LEMMA DeleteStores ==
    ASSUME SessionInv, StoreInv, NEW s \in Indices, Delete(s)
    PROVE  StoreInv'
<1>1. /\ UNCHANGED <<dec, store, server, seen>>
      /\ \A i \in Indices : sessions'[i].status = sessions[i].status /\ sessions'[i].nb = sessions[i].nb
  BY DeleteKeeps
<1>2. server.file > 0 => server.index \in Indices
  BY DEF SessionInv
<1>3. server.file > 0 => (Going' <=> Going) /\ (Done' <=> Done)
  BY <1>1, <1>2 DEF Going, Done, Session
<1>4. (Complete' <=> Complete) /\ (Going' => server.file > 0)
  BY <1>1 DEF Complete, Going
<1> QED
  BY <1>1, <1>3, <1>4 DEF StoreInv

\* A restart keeps StoreInv: no session is set up.
LEMMA RestartStores ==
    ASSUME SessionInv, Restart
    PROVE  StoreInv'
<1>1. ~Going' /\ server' = server /\ (server.file > 0 => sessions'[server.index].nb = 0)
  BY RestartKeeps
<1>2. server'.file > 0 => ~Done'
  BY <1>1 DEF Done, Session
<1> QED
  BY <1>1, <1>2 DEF StoreInv

\* A fragment keeps StoreInv.
LEMMA DataStores ==
    ASSUME ~Flash, SessionInv, StoreInv, NEW c \in 1 .. server.nb + Coded, DataFragment(c)
    PROVE  StoreInv'
<1>0. server.file > 0 /\ server.index \in Indices /\ server' = server
  BY DEF DataFragment, SessionInv
<1>1. CASE sessions[server.index].status = Ongoing
  <2>0. Going
    BY <1>0, <1>1 DEF Going, Session
  <2>1. PICK data : data = Sent(c)
    OBVIOUS
  <2>2. PICK st : st = store
    OBVIOUS
  <2>3. PICK f : f = server.file
    OBVIOUS
  <2>4. PICK X : X = 0 .. MaxNb - 1
    OBVIOUS
  <2>5. PICK q : q = Process(c, data, dec, st)
    OBVIOUS
  <2>6. /\ dec' = q.dec /\ store' = q.store /\ sessions'[server.index].status = q.status
    BY <2>0, <2>1, <2>2, <2>5, SessionData
  <2>7. /\ Sendable(c, dec) /\ DecInv(dec) /\ dec.nb = server.nb
        /\ dec.nb \in Nat \ {0} /\ dec.nb <= MaxNb
    BY <1>0, <2>0, GoingSendable
  <2>8. Shaped(st, X) /\ 0 .. dec.nb - 1 \subseteq X
    <3>1. store = [row \in 0 .. MaxNb - 1 |-> store[row]]
      BY DEF SessionInv
    <3>2. Shaped(st, X)
      BY <2>2, <2>4, <3>1 DEF Shaped
    <3> QED
      BY <2>4, <2>7, <3>2, MaxNbIs
  <2>9. Filled(dec, st, f)
    BY <2>0, <2>2, <2>3 DEF StoreInv
  <2>10. q = Process(c, Coding(c, f, dec), dec, st)
    BY <2>1, <2>3, <2>5, <2>7, SentIs
  <2>11. /\ q.status = Ongoing => Filled(q.dec, q.store, f)
         /\ q.status # Ongoing => \/ Whole(q.store, f, dec.nb)
                                  \/ q.dec.error /\ q.dec.lost > MaxRedundancy
    BY <2>7, <2>8, <2>9, <2>10, ProcessStore
  <2>12. Going' => q.status = Ongoing
    BY <1>0, <2>6 DEF Going, Session
  <2>13. Done' => q.status # Ongoing
    BY <1>0, <2>6 DEF Done, Session, Finished, Ongoing
  <2>14. Whole(q.store, f, dec.nb) => Complete'
    <3> SUFFICES ASSUME Whole(q.store, f, dec.nb) PROVE Complete'
      OBVIOUS
    <3>1. PICK n \in Nat : n = dec.nb
      BY <2>7
    <3>2. ASSUME NEW i \in 1 .. n PROVE store'[i - 1] = Fragment(server.file, i)
      <4>1. PICK j \in 0 .. n - 1 : j = i - 1 /\ j + 1 = i
        OBVIOUS
      <4>2. q.store[j] = Fragment(f, j + 1)
        BY <3>1, <4>1 DEF Whole
      <4> QED
        BY <2>3, <2>6, <4>1, <4>2
    <3> QED
      BY <1>0, <2>7, <3>1, <3>2 DEF Complete
  <2> QED
    BY <1>0, <2>3, <2>6, <2>11, <2>12, <2>13, <2>14 DEF StoreInv
<1>2. CASE sessions[server.index].status # Ongoing
  <2>1. sessions' = [sessions EXCEPT ![server.index].status = NotStarted]
    BY <1>2 DEF DataFragment
  <2>2. sessions[server.index] \in SessionType /\ server.index \in DOMAIN sessions
    BY <1>0 DEF SessionInv
  <2>3. sessions'[server.index].status = NotStarted
    BY <2>1, <2>2 DEF SessionType
  <2>4. ~Going' /\ ~Done'
    BY <1>0, <2>3 DEF Going, Done, Session, NotStarted, Ongoing, Finished
  <2> QED
    BY <2>4 DEF StoreInv
<1> QED
  BY <1>1, <1>2

\* At every step the store holds, row by row, what the decoder thinks it has of the file
\* (SetRow of FragDecoder.c), if it erases and writes what it is told to.
THEOREM StoreInvariant == ASSUME ~Flash PROVE Spec => []StoreInv
<1>1. ASSUME SessionInv, StoreInv, [Next]_vars PROVE StoreInv'
  <2>1. CASE \E s \in Indices, n \in Sizes, f \in 1 .. Files : Setup(s, n, f)
    BY <1>1, <2>1, SetupStores
  <2>2. CASE \E s \in Indices : Delete(s)
    BY <1>1, <2>2, DeleteStores
  <2>3. CASE \E c \in 1 .. server.nb + Coded : DataFragment(c)
    BY <1>1, <2>3, DataStores
  <2>4. CASE Restart
    BY <1>1, <2>4, RestartStores
  <2>5. CASE UNCHANGED vars
    BY <1>1, <2>5 DEF vars, StoreInv, Going, Session, Done, Complete
  <2> QED
    BY <1>1, <2>1, <2>2, <2>3, <2>4, <2>5 DEF Next
<1> QED
  BY <1>1, StoreInit, SessionInvariant, PTL DEF Spec

\* If nothing was sent nothing is incomplete.
LEMMA NothingSent == ASSUME SessionInv, ~(server.file > 0) PROVE Complete
<1>1. server.nb = 0
  BY FragmentationAssumption DEF SessionInv
<1> QED
  BY <1>1 DEF Complete

\* A file that the decoder finishes is the one that was sent, row by row, unless
\* more rows were missing than it can recover (FragDecoderProcess), in a store
\* that erases and writes what it is told to.
THEOREM FileReassembled == ASSUME ~Flash PROVE Spec => []Reassembled
<1>1. SessionInv /\ StoreInv => Reassembled
  <2> SUFFICES ASSUME SessionInv, StoreInv, Done, dec.lost <= MaxRedundancy PROVE Complete
    BY DEF Reassembled
  <2>1. dec.lost \in Nat /\ MaxRedundancy \in Nat
    BY FragDecoderAssumption DEF SessionInv, DecInv, Counted
  <2>2. ~(dec.lost > MaxRedundancy)
    BY <2>1
  <2> QED
    BY <2>2, NothingSent DEF StoreInv
<1> QED
  BY <1>1, SessionInvariant, StoreInvariant, PTL

\* A session that finishes without its file, no line having overrun the
\* vectors, says so in MatrixError, in a store that erases and writes what it is
\* told to.
THEOREM FailuresReported == ASSUME ~Flash PROVE Spec => []FailureReported
<1>1. SessionInv /\ StoreInv => FailureReported
  BY NothingSent DEF StoreInv, FailureReported
<1> QED
  BY <1>1, SessionInvariant, StoreInvariant, PTL

----------------------------------------------------------------------------
(* What the lines hold of the coded fragments.                             *)

\* Row i is in the XOR of the coded fragments T, and order number m in that of
\* the lines U.
Summed(d, T, i) == Odd({c \in T : i \in ParityRow(c - d.nb, d.nb)})
Covered(d, U, m) == Odd({k \in U : m \in ExtractLine(k, d)})

\* The missing rows of the XOR of the coded fragments T are those of some lines.
Spanned(d, T) ==
    \E U \in SUBSET d.S : \A i \in 0 .. d.nb - 1 :
        d.missing[i] # 0 => (Summed(d, T, i) <=> Covered(d, U, d.missing[i] - 1))

\* No fragments say nothing.
LEMMA SpannedNone == ASSUME NEW d PROVE Spanned(d, {})
<1>1. \A i : ~Summed(d, {}, i)
  <2> TAKE i
  <2>1. {c \in {} : i \in ParityRow(c - d.nb, d.nb)} = {}
    OBVIOUS
  <2> QED
    BY <2>1, OddEmpty DEF Summed
<1>2. \A m : ~Covered(d, {}, m)
  <2> TAKE m
  <2>1. {k \in {} : m \in ExtractLine(k, d)} = {}
    OBVIOUS
  <2> QED
    BY <2>1, OddEmpty DEF Covered
<1>3. {} \in SUBSET d.S
  OBVIOUS
<1> QED
  BY <1>1, <1>2, <1>3 DEF Spanned

\* A fragment more.
LEMMA SummedAdd ==
    ASSUME NEW d, NEW T, IsFiniteSet(T), NEW c, c \notin T, NEW i
    PROVE  Summed(d, T \cup {c}, i) <=> ~(Summed(d, T, i) <=> i \in Parity(c, d))
<1>1. PICK A : A = {x \in T : i \in ParityRow(x - d.nb, d.nb)}
  OBVIOUS
<1>2. PICK B : B = {x \in T \cup {c} : i \in ParityRow(x - d.nb, d.nb)}
  OBVIOUS
<1>3. IsFiniteSet(A) /\ c \notin A
  <2>1. A \in SUBSET T
    BY <1>1
  <2> QED
    BY <2>1, FS_Subset
<1>4. B = IF i \in Parity(c, d) THEN A \cup {c} ELSE A
  BY <1>1, <1>2 DEF Parity
<1>5. Odd(B) <=> ~(Odd(A) <=> i \in Parity(c, d))
  BY <1>3, <1>4, OddAdd
<1> QED
  BY <1>1, <1>2, <1>5 DEF Summed

\* A line more.
LEMMA CoveredAdd ==
    ASSUME NEW d, NEW U, IsFiniteSet(U), NEW p, p \notin U, NEW m
    PROVE  Covered(d, U \cup {p}, m) <=> ~(Covered(d, U, m) <=> m \in ExtractLine(p, d))
<1>1. PICK A : A = {k \in U : m \in ExtractLine(k, d)}
  OBVIOUS
<1>2. PICK B : B = {k \in U \cup {p} : m \in ExtractLine(k, d)}
  OBVIOUS
<1>3. IsFiniteSet(A) /\ p \notin A
  <2>1. A \in SUBSET U
    BY <1>1
  <2> QED
    BY <2>1, FS_Subset
<1>4. B = IF m \in ExtractLine(p, d) THEN A \cup {p} ELSE A
  BY <1>1, <1>2
<1>5. Odd(B) <=> ~(Odd(A) <=> m \in ExtractLine(p, d))
  BY <1>3, <1>4, OddAdd
<1> QED
  BY <1>1, <1>2, <1>5 DEF Covered

\* The XOR of two XORs of lines is that of their symmetric difference.
LEMMA CoveredDiff ==
    ASSUME NEW d, NEW U, IsFiniteSet(U), NEW V, IsFiniteSet(V), NEW m
    PROVE  Covered(d, SymDiff(U, V), m) <=> ~(Covered(d, U, m) <=> Covered(d, V, m))
<1>1. PICK A : A = {k \in U : m \in ExtractLine(k, d)}
  OBVIOUS
<1>2. PICK B : B = {k \in V : m \in ExtractLine(k, d)}
  OBVIOUS
<1>3. IsFiniteSet(A) /\ IsFiniteSet(B)
  <2>1. A \in SUBSET U /\ B \in SUBSET V
    BY <1>1, <1>2
  <2> QED
    BY <2>1, FS_Subset
<1>4. {k \in SymDiff(U, V) : m \in ExtractLine(k, d)} = SymDiff(A, B)
  BY <1>1, <1>2 DEF SymDiff
<1>5. Odd(SymDiff(A, B)) <=> ~(Odd(A) <=> Odd(B))
  BY <1>3, OddSymDiff
<1> QED
  BY <1>1, <1>2, <1>4, <1>5 DEF Covered

\* More lines, and those there were as they were.
Extends(d, e) ==
    /\ e.nb = d.nb /\ e.missing = d.missing /\ d.S \subseteq e.S
    /\ \A k \in d.S : ExtractLine(k, e) = ExtractLine(k, d)

\* New lines change nothing in the XOR of others.
LEMMA CoveredKept ==
    ASSUME NEW d, NEW e, Extends(d, e), NEW U, U \subseteq d.S, NEW m
    PROVE  Covered(e, U, m) <=> Covered(d, U, m)
<1>1. {k \in U : m \in ExtractLine(k, e)} = {k \in U : m \in ExtractLine(k, d)}
  BY DEF Extends
<1> QED
  BY <1>1 DEF Covered

\* The lines hold the new fragment too.
LEMMA OutcomeSpan ==
    ASSUME NEW d, Closed(d), NEW c, Parity(c, d) \subseteq 0 .. d.nb - 1,
           NEW data, NEW st, NEW r, Reduces(Vector(c, d), r, d),
           NEW q, q = Outcome(c, data, d, st, r),
           NEW T, IsFiniteSet(T), c \notin T, Spanned(d, T)
    PROVE  Spanned(q.dec, T) /\ Spanned(q.dec, T \cup {c})
<1>1. PICK n \in Nat : n = d.nb
  BY DEF Closed, DecInv, Counted
<1>2. PICK l \in Nat : l = d.lost
  BY DEF Closed, DecInv, Counted
<1>3. PICK e : e = q.dec
  OBVIOUS
<1>4. PICK U \in SUBSET d.S : \A i \in 0 .. n - 1 :
         d.missing[i] # 0 => (Summed(d, T, i) <=> Covered(d, U, d.missing[i] - 1))
  BY <1>1 DEF Spanned
<1>5. PICK V : V = r.used
  OBVIOUS
<1>6. V \in SUBSET d.S /\ d.S \in SUBSET (0 .. l - 1)
  BY <1>2, <1>5 DEF Reduces, Closed, DecInv, Lined
<1>7. IsFiniteSet(U) /\ IsFiniteSet(V)
  <2>1. IsFiniteSet(0 .. l - 1) /\ U \in SUBSET (0 .. l - 1) /\ V \in SUBSET (0 .. l - 1)
    BY <1>6, FiniteTo
  <2> QED
    BY <2>1, FS_Subset
<1>8. PICK W : W = SymDiff(U, V)
  OBVIOUS
<1>9. W \in SUBSET d.S /\ IsFiniteSet(W)
  <2>1. W \in SUBSET d.S
    BY <1>6, <1>8 DEF SymDiff
  <2>2. IsFiniteSet(0 .. l - 1) /\ W \in SUBSET (0 .. l - 1)
    BY <1>6, <2>1, FiniteTo
  <2> QED
    BY <2>1, <2>2, FS_Subset
<1>10. ASSUME NEW m \in 0 .. l - 1
       PROVE  Covered(d, W, m) <=> ~(Covered(d, U, m) <=> Covered(d, V, m))
  BY <1>7, <1>8, CoveredDiff
<1>11. ASSUME NEW m \in 0 .. l - 1
       PROVE  m \in r.line <=> ~(Covered(d, V, m) <=> m \in Vector(c, d))
  BY <1>2, <1>5 DEF Reduces, Covered
<1>12. ASSUME NEW i \in 0 .. n - 1, d.missing[i] # 0
       PROVE  /\ d.missing[i] - 1 \in 0 .. l - 1
              /\ d.missing[i] - 1 \in Vector(c, d) <=> i \in Parity(c, d)
  BY <1>1, <1>2, <1>12, MissingIndexOf, VectorIs
\* As many times as the new fragment has row i more.
<1>13. ASSUME NEW i \in 0 .. n - 1, d.missing[i] # 0
       PROVE  Summed(d, T \cup {c}, i) <=>
                 ~(Covered(d, W, d.missing[i] - 1) <=> d.missing[i] - 1 \in r.line)
  <2>1. PICK m \in 0 .. l - 1 : m = d.missing[i] - 1 /\ (m \in Vector(c, d) <=> i \in Parity(c, d))
    BY <1>12, <1>13
  <2>2. Summed(d, T, i) <=> Covered(d, U, m)
    BY <1>4, <1>13, <2>1
  <2>3. Summed(d, T \cup {c}, i) <=> ~(Summed(d, T, i) <=> i \in Parity(c, d))
    BY SummedAdd
  <2>4. Covered(d, W, m) <=> ~(Covered(d, U, m) <=> Covered(d, V, m))
    BY <1>10
  <2>5. m \in r.line <=> ~(Covered(d, V, m) <=> m \in Vector(c, d))
    BY <1>11
  <2> QED
    BY <2>1, <2>2, <2>3, <2>4, <2>5
<1>14. CASE r.line = {}
  <2>1. e = d
    BY <1>3, <1>14, OutcomeInv
  <2>2. Spanned(e, T \cup {c})
    <3>1. \A i \in 0 .. n - 1 : d.missing[i] # 0 =>
             (Summed(d, T \cup {c}, i) <=> Covered(d, W, d.missing[i] - 1))
      BY <1>13, <1>14
    <3> QED
      BY <1>1, <1>9, <2>1, <3>1 DEF Spanned
  <2> QED
    BY <1>3, <2>1, <2>2
<1>15. CASE r.line # {}
  <2>1. PICK p : p = Smallest(r.line) /\ p \notin d.S /\ r.line \subseteq 0 .. d.lost - 1
    BY <1>15 DEF Reduces
  <2>2. Vector(c, d) # {}
    <3>1. ASSUME Vector(c, d) = {} PROVE FALSE
      <4>1. V = {}
        BY <1>5, <3>1 DEF Reduces
      <4>2. \A m : ~Covered(d, V, m)
        <5> TAKE m
        <5>1. {k \in V : m \in ExtractLine(k, d)} = {}
          BY <4>1
        <5> QED
          BY <5>1, OddEmpty DEF Covered
      <4> QED
        BY <1>2, <1>11, <1>15, <2>1, <3>1, <4>2
    <3> QED
      BY <3>1
  <2>3. e = Pushed(d, r.line)
    BY <1>3, <1>15, <2>2, OutcomeInv
  <2>4. /\ e.nb = d.nb /\ e.missing = d.missing /\ e.S = d.S \cup {p}
        /\ \A k \in d.S : ExtractLine(k, e) = ExtractLine(k, d)
        /\ ExtractLine(p, e) = r.line
    BY <1>15, <2>1, <2>3, PushInv
  <2>5. Extends(d, e)
    BY <2>4 DEF Extends
  <2>6. \A S, i : Summed(e, S, i) <=> Summed(d, S, i)
    BY <2>4 DEF Summed
  <2>7. Spanned(e, T)
    <3>1. \A i \in 0 .. n - 1 : e.missing[i] # 0 =>
             (Summed(e, T, i) <=> Covered(e, U, e.missing[i] - 1))
      <4>1. \A m : Covered(e, U, m) <=> Covered(d, U, m)
        BY <2>5, CoveredKept
      <4> QED
        BY <1>4, <2>4, <2>6, <4>1
    <3> QED
      BY <1>1, <2>4, <3>1 DEF Spanned
  <2>8. Spanned(e, T \cup {c})
    <3>1. \A m : Covered(e, W \cup {p}, m) <=> ~(Covered(d, W, m) <=> m \in r.line)
      <4> TAKE m
      <4>1. p \notin W
        BY <1>9, <2>1
      <4>2. Covered(e, W \cup {p}, m) <=> ~(Covered(e, W, m) <=> m \in ExtractLine(p, e))
        BY <1>9, <4>1, CoveredAdd
      <4>3. Covered(e, W, m) <=> Covered(d, W, m)
        BY <1>9, <2>5, CoveredKept
      <4> QED
        BY <2>4, <4>2, <4>3
    <3>2. \A i \in 0 .. n - 1 : e.missing[i] # 0 =>
             (Summed(e, T \cup {c}, i) <=> Covered(e, W \cup {p}, e.missing[i] - 1))
      <4> TAKE i \in 0 .. n - 1
      <4> HAVE e.missing[i] # 0
      <4>1. PICK m : m = d.missing[i] - 1
        OBVIOUS
      <4>2. Summed(d, T \cup {c}, i) <=> ~(Covered(d, W, m) <=> m \in r.line)
        BY <1>13, <2>4, <4>1
      <4>3. e.missing[i] - 1 = m
        BY <2>4, <4>1
      <4> QED
        BY <2>6, <3>1, <4>2, <4>3
    <3>3. W \cup {p} \in SUBSET e.S
      BY <1>9, <2>4
    <3> QED
      BY <1>1, <2>4, <3>2, <3>3 DEF Spanned
  <2> QED
    BY <1>3, <2>7, <2>8
<1> QED
  BY <1>14, <1>15

\* The lines hold whatever the coded fragments seen say of the missing rows.
SpanInv == Going => \A T \in SUBSET seen : Spanned(dec, T)

\* The fragments seen are finitely many.
LEMMA SeenFinite == ASSUME SessionInv, NEW T \in SUBSET seen PROVE IsFiniteSet(T)
<1>1. PICK n \in Nat : n = MaxNb + Coded
  BY MaxNbIs, FragmentationAssumption
<1>2. T \in SUBSET (0 .. (n + 1) - 1)
  <2>1. 1 .. n \subseteq 0 .. (n + 1) - 1
    OBVIOUS
  <2> QED
    BY <1>1, <2>1 DEF SessionInv
<1>3. IsFiniteSet(0 .. (n + 1) - 1)
  <2>1. n + 1 \in Nat
    OBVIOUS
  <2> QED
    BY <2>1, FiniteTo
<1> QED
  BY <1>2, <1>3, FS_Subset

\* A fragment keeps SpanInv.
LEMMA DataSpans ==
    ASSUME SessionInv, SpanInv, NEW c \in 1 .. server.nb + Coded, DataFragment(c)
    PROVE  SpanInv'
<1>0. server.file > 0 /\ server.index \in Indices /\ server' = server
  BY DEF DataFragment, SessionInv
<1>1. CASE sessions[server.index].status = Ongoing
  <2>0. Going
    BY <1>0, <1>1 DEF Going, Session
  <2>1. PICK data : data = Sent(c)
    OBVIOUS
  <2>2. PICK st : st = store
    OBVIOUS
  <2>3. PICK d : d = dec
    OBVIOUS
  <2>4. PICK q : q = Process(c, data, d, st)
    OBVIOUS
  <2>5. /\ dec' = q.dec /\ sessions'[server.index].status = q.status
        /\ seen' = (IF c > d.nb THEN seen \cup {c} ELSE seen)
    BY <2>0, <2>1, <2>2, <2>3, <2>4, SessionData
  <2>6. Sendable(c, d) /\ DecInv(d) /\ d.nb \in Nat /\ d.lastRx \in Nat /\ d.lastRx <= d.nb + 1 /\ c \in Nat
    <3>1. Sendable(c, d) /\ DecInv(d)
      BY <1>0, <2>0, <2>3, GoingSendable
    <3> QED
      BY <3>1 DEF Sendable, DecInv, Counted
  <2>7. seen # {} => d.lastRx = d.nb + 1
    BY <2>0, <2>3 DEF SessionInv
  <2>8. SUFFICES ASSUME q.status = Ongoing PROVE \A T \in SUBSET seen' : Spanned(q.dec, T)
    BY <1>0, <2>5 DEF SpanInv, Going, Session
  <2>9. CASE Ignored(c, d, st, q)
    <3>1. q.dec = d /\ ~(c > d.nb)
      BY <2>6, <2>9 DEF Ignored, Result
    <3> QED
      BY <2>0, <2>3, <2>5, <3>1 DEF SpanInv
  <2>10. CASE Plain(c, data, d, st, q)
    <3>1. ~(c > d.nb) /\ d.lastRx # d.nb + 1
      BY <2>6, <2>10 DEF Plain
    <3>2. seen' = {}
      BY <2>5, <2>7, <3>1
    <3> QED
      BY <3>2, SpannedNone
  <2>11. CASE GivenUp(c, d, st, q) \/ NothingLost(c, d, st, q)
    <3>1. q.status = Finished
      BY <2>11 DEF GivenUp, NothingLost, Result
    <3> QED
      BY <2>8, <3>1 DEF Finished, Ongoing
  <2>12. ASSUME c > d.nb,
                q = Outcome(c, data, FindMissing(c, d), st,
                            Reduced(Vector(c, FindMissing(c, d)), FindMissing(c, d)))
         PROVE  \A T \in SUBSET seen' : Spanned(q.dec, T)
    <3>1. PICK e : e = FindMissing(c, d)
      OBVIOUS
    <3>2. PICK r : r = Reduced(Vector(c, e), e)
      OBVIOUS
    <3>3. /\ Closed(e) /\ Parity(c, e) \subseteq 0 .. e.nb - 1 /\ Reduces(Vector(c, e), r, e)
          /\ q = Outcome(c, data, e, st, r)
      BY <2>6, <2>12, <3>1, <3>2, CodedFinds
    <3>4. \A T \in SUBSET seen : Spanned(e, T)
      <4>1. CASE seen = {}
        BY <4>1, SpannedNone
      <4>2. CASE seen # {}
        <5>1. e = d
          BY <2>6, <2>7, <2>12, <3>1, <4>2, FindCoded
        <5> QED
          BY <2>0, <2>3, <5>1 DEF SpanInv
      <4> QED
        BY <4>1, <4>2
    <3>5. seen' = seen \cup {c}
      BY <2>5, <2>12
    <3> TAKE T \in SUBSET seen'
    <3>6. PICK A : A = T \ {c}
      OBVIOUS
    <3>7. A \in SUBSET seen /\ c \notin A /\ (T = A \/ T = A \cup {c})
      BY <3>5, <3>6
    <3>8. IsFiniteSet(A) /\ Spanned(e, A)
      BY <3>4, <3>7, SeenFinite
    <3>9. Spanned(q.dec, A) /\ Spanned(q.dec, A \cup {c})
      BY <3>3, <3>7, <3>8, OutcomeSpan
    <3> QED
      BY <3>7, <3>9
  <2> QED
    BY <2>4, <2>6, <2>9, <2>10, <2>11, <2>12, ProcessIs
<1>2. CASE sessions[server.index].status # Ongoing
  <2>1. sessions' = [sessions EXCEPT ![server.index].status = NotStarted]
    BY <1>2 DEF DataFragment
  <2>2. sessions[server.index] \in SessionType /\ server.index \in DOMAIN sessions
    BY <1>0 DEF SessionInv
  <2>3. sessions'[server.index].status = NotStarted
    BY <2>1, <2>2 DEF SessionType
  <2>4. ~Going'
    BY <1>0, <2>3 DEF Going, Session, NotStarted, Ongoing
  <2> QED
    BY <2>4 DEF SpanInv
<1> QED
  BY <1>1, <1>2

\* SpanInv says nothing while no coded fragment was seen.
LEMMA NoneSeen == ASSUME seen' = {} PROVE SpanInv'
BY SpannedNone DEF SpanInv

\* At every step the decoder's lines hold all that the coded fragments it was given
\* say of the missing rows (the elimination of FragDecoderProcess).
THEOREM SpanInvariant == Spec => []SpanInv
<1>0. Init => SpanInv
  BY SpannedNone DEF Init, SpanInv
<1>1. ASSUME SessionInv, SpanInv, [Next]_vars PROVE SpanInv'
  <2>1. CASE \E s \in Indices, n \in Sizes, f \in 1 .. Files : Setup(s, n, f)
    BY <2>1, NoneSeen DEF Setup
  <2>2. CASE \E s \in Indices : Delete(s)
    <3>1. PICK s \in Indices : Delete(s)
      BY <2>2
    <3>2. /\ UNCHANGED <<dec, store, server, seen>>
          /\ \A i \in Indices : sessions'[i].status = sessions[i].status
      BY <1>1, <3>1, DeleteKeeps
    <3>3. Going' => Going
      BY <1>1, <3>2 DEF Going, Session, SessionInv
    <3> QED
      BY <1>1, <3>2, <3>3 DEF SpanInv
  <2>3. CASE \E c \in 1 .. server.nb + Coded : DataFragment(c)
    BY <1>1, <2>3, DataSpans
  <2>4. CASE Restart
    BY <2>4, NoneSeen DEF Restart
  <2>5. CASE UNCHANGED vars
    BY <1>1, <2>5 DEF vars, SpanInv, Going, Session
  <2> QED
    BY <1>1, <2>1, <2>2, <2>3, <2>4, <2>5 DEF Next
<1> QED
  BY <1>0, <1>1, SessionInvariant, PTL DEF Spec

\* The lines alone do not determine a row that has no line.
LEMMA RowOpen ==
    ASSUME NEW d, Closed(d), NEW k \in 0 .. d.lost - 1, k \notin d.S, NEW U, U \subseteq d.S
    PROVE  ~(\A m \in 0 .. d.lost - 1 : Covered(d, U, m) <=> m = k)
<1> SUFFICES ASSUME \A m \in 0 .. d.lost - 1 : Covered(d, U, m) <=> m = k PROVE FALSE
  OBVIOUS
<1>1. PICK l \in Nat : l = d.lost
  BY DEF Closed, DecInv, Counted
<1>2. U \subseteq 0 .. l - 1 /\ U \subseteq Nat
  BY <1>1 DEF Closed, DecInv, Lined
<1>3. U # {}
  <2> SUFFICES ASSUME U = {} PROVE FALSE
    OBVIOUS
  <2>1. {j \in U : k \in ExtractLine(j, d)} = {}
    OBVIOUS
  <2> QED
    BY <2>1, OddEmpty DEF Covered
<1>4. PICK u \in U : \A j \in U : u <= j
  BY <1>2, <1>3, Least
<1>5. u \in 0 .. l - 1 /\ u \in d.S /\ u \in ExtractLine(u, d)
  BY <1>2 DEF Closed, DecInv, Lined
<1>6. \A j \in U : u \in ExtractLine(j, d) => u = j
  <2> TAKE j \in U
  <2>1. u \in ExtractLine(j, d) => j <= u
    BY <1>1, <1>2, <1>5 DEF ExtractLine
  <2> QED
    BY <1>2, <1>4, <1>5, <2>1
<1>7. {j \in U : u \in ExtractLine(j, d)} = {u}
  BY <1>5, <1>6
<1>8. Covered(d, U, u)
  BY <1>7, OddOne DEF Covered
<1>9. u = k
  BY <1>1, <1>5, <1>8
<1> QED
  BY <1>5, <1>9

\* The decoder needs no more fragments than it must (FragDecoderProcess): as long
\* as a session goes on, the coded fragments it was given since its start do not
\* determine the rows that are missing, whatever the store does.
THEOREM NoneTooMany == Spec => []Timely
<1>1. SessionInv /\ SpanInv => Timely
  <2> SUFFICES ASSUME SessionInv, SpanInv, Session.nb > 0, Session.status = Ongoing,
                      seen # {}, Solvable
               PROVE  FALSE
    BY DEF Timely
  <2>1. server.file > 0
    BY FragmentationAssumption DEF SessionInv
  <2>2. PICK d : d = dec
    OBVIOUS
  <2>3. Going
    BY <2>1 DEF Going
  <2>4. /\ Closed(d) /\ d.lost > 0 /\ (d.S = {} \/ d.line < d.lost)
    BY <2>2, <2>3 DEF SessionInv, Closed
  <2>5. PICK l \in Nat : l = d.lost
    BY <2>4 DEF Closed, DecInv, Counted
  <2>6. PICK n \in Nat : n = d.nb /\ d.missing \in [0 .. n - 1 -> Nat]
    BY <2>4 DEF Closed, DecInv, Counted
  <2>7. PICK k \in 0 .. l - 1 : k \notin d.S
    <3>1. d.S \subseteq 0 .. l - 1 /\ d.line = Cardinality(d.S)
      BY <2>4, <2>5 DEF Closed, DecInv, Lined
    <3>2. Cardinality(0 .. l - 1) = l
      <4>1. PICK z \in Int : z = l - 1
        OBVIOUS
      <4>2. Cardinality(0 .. z) = IF 0 > z THEN 0 ELSE z - 0 + 1
        BY FS_Interval
      <4> QED
        BY <4>1, <4>2
    <3>3. d.S # 0 .. l - 1
      <4>1. 0 \in 0 .. l - 1
        BY <2>4, <2>5
      <4> QED
        BY <2>4, <2>5, <3>1, <3>2, <4>1
    <3> QED
      BY <3>1, <3>3
  <2>8. PICK i \in 0 .. n - 1 : i = MissingIndex(k, d) /\ d.missing[i] = k + 1
    BY <2>4, <2>5, <2>6, MissingIndexIs
  <2>9. i \in Missing /\ Missing = {j \in 0 .. n - 1 : d.missing[j] > 0}
    BY <2>2, <2>6, <2>8 DEF Missing
  <2>10. PICK T \in SUBSET seen : Sum(T) = {i}
    BY <2>9 DEF Solvable
  <2>11. \A j \in Missing : Summed(d, T, j) <=> j = i
    <3> TAKE j \in Missing
    <3>1. {c \in T : j \in Row(c)} = {c \in T : j \in ParityRow(c - d.nb, d.nb)}
      BY <2>2 DEF Row
    <3>2. j \in Sum(T) <=> Odd({c \in T : j \in Row(c)})
      BY DEF Sum, Odd
    <3> QED
      BY <2>10, <3>1, <3>2 DEF Summed
  <2>12. Spanned(d, T)
    BY <2>2, <2>3 DEF SpanInv
  <2>13. PICK U \in SUBSET d.S : \A j \in 0 .. n - 1 :
            d.missing[j] # 0 => (Summed(d, T, j) <=> Covered(d, U, d.missing[j] - 1))
    BY <2>6, <2>12 DEF Spanned
  <2>14. \A m \in 0 .. l - 1 : Covered(d, U, m) <=> m = k
    <3> TAKE m \in 0 .. l - 1
    <3>1. PICK j \in 0 .. n - 1 : j = MissingIndex(m, d) /\ d.missing[j] = m + 1
      BY <2>4, <2>5, <2>6, MissingIndexIs
    <3>2. j \in Missing /\ d.missing[j] # 0 /\ d.missing[j] - 1 = m
      BY <2>9, <3>1
    <3>3. Covered(d, U, m) <=> j = i
      BY <2>11, <2>13, <3>2
    <3>4. j = i <=> m = k
      BY <2>8, <3>1
    <3> QED
      BY <3>3, <3>4
  <2> QED
    BY <2>4, <2>5, <2>7, <2>14, RowOpen
<1> QED
  BY <1>1, SessionInvariant, SpanInvariant, PTL
=============================================================================
