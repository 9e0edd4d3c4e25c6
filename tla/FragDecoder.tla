----------------------------- MODULE FragDecoder -----------------------------
(***************************************************************************)
(* The decoder of fragmented files, FragDecoder.c: the first nb fragments  *)
(* of a file are its rows, every later one is the XOR of some of them, and *)
(* from as many of these as rows are missing the decoder recovers them by  *)
(* elimination over a triangular matrix of bits, in the store itself.      *)
(*                                                                         *)
(* A row's content is the set of fragments whose XOR it is, so that the    *)
(* XOR of two is their symmetric difference, whatever the data.            *)
(*                                                                         *)
(* Lines and matrix grow here with the rows that are missing.  The code's  *)
(* have VectorBits and MatrixBits, and a line longer than that overruns    *)
(* them: nothing said here of a decoder beyond WithinVectors is said of    *)
(* the program.                                                            *)
(***************************************************************************)
EXTENDS Integers, FiniteSets

CONSTANTS MaxRedundancy,  \* FRAG_MAX_REDUNDANCY (5 in the code)
          Flash,          \* the store is the device's flash, not one that
                          \* erases and writes what it is told to
          FirstPage       \* rows in the first page of the flash (33 or more)

ASSUME FragDecoderAssumption == /\ MaxRedundancy \in Nat \ {0}
                                /\ Flash \in BOOLEAN
                                /\ FirstPage \in Nat

Finished == 0
Ongoing == -1
NotStarted == -2

\* The vectors of a line (S, dataTempVector) and MatrixM2B have a fixed size.
VectorBits == 8 * (MaxRedundancy \div 8 + 1)
MatrixBits == VectorBits * MaxRedundancy

Fragment(file, i) == {<<file, i>>}
Erased == {<<0, 0>>}
Spoilt(row) == {<<0, row + 1>>}

Smallest(S) == CHOOSE x \in S : \A y \in S : x <= y

----------------------------------------------------------------------------
(* The parity matrix.                                                      *)

FragPrbs23(x) == (x \div 2) + ((x + (x \div 32)) % 2) * 2^22

IsPowerOfTwo(m) == \E i \in 0 .. 12 : m = 2^i

\* FragGetParityMatrixRow: the rows that coded fragment n of a file of m rows
\* is the XOR of.
ParityRow(n, m) ==
    LET t == IF IsPowerOfTwo(m) THEN 1 ELSE 0
        drawn[x \in Nat, k \in Nat] ==
            IF k = 0 THEN {}
            ELSE LET y == FragPrbs23(x)
                     r == y % (m + t)
                 IN  IF r >= m THEN drawn[y, k] ELSE {r} \cup drawn[y, k - 1]
    IN  drawn[1 + 1001 * n, m \div 2]

----------------------------------------------------------------------------
(* The store, behind the callbacks of lmhp_fragmentation.c.                *)

\* Flash loses bits only: a row that was not erased keeps neither content.
Written(row, old, new) == IF Flash /\ old # Erased /\ old # new THEN Spoilt(row) ELSE new

SetRow(row, data, store) == [store EXCEPT ![row] = Written(row, @, data)]

\* frag_decoder_erase steps to the next page before it erases one.
EraseStore(store) ==
    [row \in DOMAIN store |-> IF Flash /\ row < FirstPage THEN store[row] ELSE Erased]

\* The XOR of data with some rows.
Xor(data, rows, store) ==
    LET members(e) == {r \in rows : e \in store[r]}
    IN  {e \in data \cup UNION {store[r] : r \in rows} :
            (Cardinality(members(e)) + (IF e \in data THEN 1 ELSE 0)) % 2 = 1}

----------------------------------------------------------------------------
(* FragDecoder_t: the status, FragNbMissingIndex, the bits of MatrixM2B    *)
(* that are set, and S.                                                    *)

\* FragDecoderInit: MatrixError stays.
DecoderInit(nb, d) ==
    [nb |-> nb, lastRx |-> 0, lost |-> 0, missing |-> [i \in 0 .. nb - 1 |-> 1],
     m2b |-> 0 .. (nb * (nb + 1)) \div 2 - 1, S |-> {}, line |-> 0, error |-> d.error]

\* FragFindMissingFrags.
FindMissing(c, d) ==
    LET new == {i \in d.lastRx .. c - 2 : i < d.nb}
        order(i) == d.lost + Cardinality({j \in new : j <= i})
        stop == IF c - 1 > d.lastRx THEN c - 1 ELSE d.lastRx
    IN  [d EXCEPT !.lost = @ + Cardinality(new),
                  !.missing = [i \in DOMAIN @ |-> IF i \in new THEN order(i) ELSE @[i]],
                  !.lastRx = IF stop < d.nb THEN c ELSE d.nb + 1]

\* FragFindMissingIndex.
MissingIndex(x, d) ==
    LET rows == {i \in DOMAIN d.missing : d.missing[i] = x + 1}
    IN  IF rows = {} THEN 0 ELSE Smallest(rows)

\* The place of a bit in the packed triangle.
Bit(r, i, d) == r * d.lost - (r * (r - 1)) \div 2 + (i - r)

\* No line was ever longer than the vectors.
WithinVectors(d) == d.S # {} => d.lost <= VectorBits

ExtractLine(r, d) == {i \in r .. d.lost - 1 : Bit(r, i, d) \in d.m2b}

\* Only bits that are to be zero are written.
PushLine(v, r, d) == d.m2b \ {Bit(r, i, d) : i \in (r .. d.lost - 1) \ v}

SymDiff(a, b) == (a \ b) \cup (b \ a)

\* Mutation: a line that begins like one there is holds nothing new.
ReducedNever(v, d) ==
    [line |-> IF v # {} /\ Smallest(v) \in d.S THEN {} ELSE v, used |-> {}]
\* The loop that reduces a new line v by those there are, and what it used.
Reduced(v, d) ==
    LET reduced[w \in SUBSET (0 .. d.lost - 1)] ==
            IF w = {} \/ Smallest(w) \notin d.S
            THEN [line |-> w, used |-> {}]
            ELSE LET r == reduced[SymDiff(w, ExtractLine(Smallest(w), d))]
                 IN  [r EXCEPT !.used = @ \cup {Smallest(w)}]
    IN  reduced[v]

\* Mutation: with the rows as elimination has left them.
SubstitutedDown(d, store) ==
    [r \in DOMAIN store |->
        IF r < d.nb /\ d.missing[r] > 0
        THEN LET k == d.missing[r] - 1
             IN  Xor(store[r], {MissingIndex(j, d) : j \in ExtractLine(k, d) \ {k}}, store)
        ELSE store[r]]
\* The last step: from the last row but one up, each is written again.
Substituted(d, store) ==
    LET row(k) == MissingIndex(k, d)
        final[k \in 0 .. d.lost - 1] ==
            IF k = d.lost - 1 THEN store[row(k)]
            ELSE Written(row(k), store[row(k)],
                         Xor(store[row(k)], {j \in k + 1 .. d.lost - 1 : j \in ExtractLine(k, d)},
                             [j \in k + 1 .. d.lost - 1 |-> final[j]]))
    IN  [r \in DOMAIN store |->
            IF r < d.nb /\ d.missing[r] > 0
            THEN final[d.missing[r] - 1] ELSE store[r]]

Result(d, store, status) == [dec |-> d, store |-> store, status |-> status]

\* A coded fragment, reduced by what the decoder has.
Eliminate(c, data, d, store) ==
    LET parity == ParityRow(c - d.nb, d.nb)
        known == {i \in parity : d.missing[i] = 0}
        v == {d.missing[i] - 1 : i \in parity \ known}
        r == Reduced(v, d)
        rest == Xor(data, known \cup {MissingIndex(k, d) : k \in r.used}, store)
        first == Smallest(r.line)
        e == IF r.line = {} THEN d
             ELSE [d EXCEPT !.m2b = PushLine(r.line, first, d),
                            !.S = @ \cup {first}, !.line = @ + 1]
        s == IF r.line = {} THEN store
             ELSE SetRow(MissingIndex(first, d), rest, store)
    IN  IF v = {} THEN Result(d, store, Ongoing)
        ELSE IF e.line = e.lost
        THEN Result(e, Substituted(e, s), e.lost)
        ELSE Result(e, s, Ongoing)

\* Mutation: a fragment of the file out of order is stored.
ProcessAnyOrder(c, data, d, store) ==
    IF c <= d.nb
    THEN Result(FindMissing(c, [d EXCEPT !.missing[c - 1] = 0]),
                SetRow(c - 1, data, store), Ongoing)
    ELSE IF d.lost > MaxRedundancy THEN Result([d EXCEPT !.error = TRUE], store, Finished)
    ELSE LET e == FindMissing(c, d)
         IN  IF e.lost = 0 THEN Result(e, store, Finished) ELSE Eliminate(c, data, e, store)

\* Mutation: a failed decoder has no error.
ProcessSilently(c, data, d, store) ==
    IF c < d.lastRx THEN Result(d, store, Ongoing)
    ELSE IF c <= d.nb
    THEN Result(FindMissing(c, [d EXCEPT !.missing[c - 1] = 0]),
                SetRow(c - 1, data, store), Ongoing)
    ELSE IF d.lost > MaxRedundancy THEN Result(d, store, Finished)
    ELSE LET e == FindMissing(c, d)
         IN  IF e.lost = 0 THEN Result(e, store, Finished) ELSE Eliminate(c, data, e, store)

\* FragDecoderProcess.
Process(c, data, d, store) ==
    IF c < d.lastRx THEN Result(d, store, Ongoing)
    ELSE IF c <= d.nb
    THEN Result(FindMissing(c, [d EXCEPT !.missing[c - 1] = 0]),
                SetRow(c - 1, data, store), Ongoing)
    ELSE IF d.lost > MaxRedundancy THEN Result([d EXCEPT !.error = TRUE], store, Finished)
    ELSE LET e == FindMissing(c, d)
         IN  IF e.lost = 0 THEN Result(e, store, Finished) ELSE Eliminate(c, data, e, store)
=============================================================================
