---------------------------- MODULE Fragmentation ----------------------------
(***************************************************************************)
(* Fragmented files over LoRaWAN: the sessions of LmhpFragmentation.c, all *)
(* served by the one FragDecoder, and a server that sends a file at a time.*)
(* Fragments are lost, repeated and sent again in any order; the device    *)
(* restarts.                                                               *)
(***************************************************************************)
EXTENDS FragDecoder

CONSTANTS Indices,  \* session indices (0 .. 3 in the code)
          Sizes,    \* numbers of rows a file may have
          Files,    \* files the server sends
          Coded     \* coded fragments it makes of a file

ASSUME FragmentationAssumption == /\ Indices \subseteq 0 .. 3
                                  /\ Sizes \subseteq Nat \ {0}
                                  /\ \E n \in Sizes : \A m \in Sizes : m <= n
                                  /\ {Files, Coded} \subseteq Nat

\* The shift register comes to as many numbers of rows as a parity row takes.
ASSUME ParityAssumption ==
    \A n \in 1 .. Coded, m \in Sizes : ParityRow(n, m) \subseteq 0 .. m - 1

VARIABLES dec,       \* FragDecoder
          store,     \* what is at OTA_FLASH_ADDRESS, by rows
          sessions,  \* FragSessionData
          server,    \* the file the server sends, its session and its size
          seen       \* coded fragments the decoder was given since its start

vars == <<dec, store, sessions, server, seen>>

MaxNb == CHOOSE n \in Sizes : \A m \in Sizes : m <= n

\* Static data: the status of a session never set up is FRAG_SESSION_FINISHED.
NoDecoder == [nb |-> 0, lastRx |-> 0, lost |-> 0, missing |-> [i \in 0 .. -1 |-> 1],
              m2b |-> {}, S |-> {}, line |-> 0, error |-> FALSE]
NoSession == [active |-> FALSE, nb |-> 0, status |-> Finished]

Init ==
    /\ dec = NoDecoder
    /\ store = [row \in 0 .. MaxNb - 1 |-> Erased]
    /\ sessions = [s \in Indices |-> NoSession]
    /\ server = [file |-> 0, index |-> Smallest(Indices), nb |-> 0]
    /\ seen = {}

\* FRAGMENTATION_FRAG_SESSION_SETUP_REQ, for a new file or for the same again.
Setup(s, n, f) ==
    /\ f \in {server.file, server.file + 1} /\ f \in 1 .. Files
    /\ f = server.file => n = server.nb
    /\ server' = [file |-> f, index |-> s, nb |-> n]
    /\ sessions' = [sessions EXCEPT ![s] = [active |-> TRUE, nb |-> n, status |-> Ongoing]]
    /\ dec' = DecoderInit(n, dec)
    /\ store' = EraseStore(store)
    /\ seen' = {}

\* FRAGMENTATION_FRAG_SESSION_DELETE_REQ.
Delete(s) ==
    /\ sessions[s].active
    /\ sessions' = [sessions EXCEPT ![s].active = FALSE]
    /\ UNCHANGED <<dec, store, server, seen>>

Sent(c) == IF c <= server.nb THEN Fragment(server.file, c)
           ELSE UNION {Fragment(server.file, i + 1) : i \in ParityRow(c - server.nb, server.nb)}

\* FRAGMENTATION_DATA_FRAGMENT.  The fragment after the one that finishes a
\* session calls OnDone.
DataFragment(c) ==
    LET s == server.index
        r == Process(c, Sent(c), dec, store)
    IN  /\ server.file > 0
        /\ IF sessions[s].status = Ongoing
           THEN /\ dec' = r.dec /\ store' = r.store
                /\ sessions' = [sessions EXCEPT ![s].status = r.status]
                /\ seen' = IF c > dec.nb THEN seen \cup {c} ELSE seen
           ELSE /\ sessions[s].status >= 0
                /\ sessions' = [sessions EXCEPT ![s].status = NotStarted]
                /\ UNCHANGED <<dec, store, seen>>
        /\ UNCHANGED server

\* The device loses its memory, but not the flash.
Restart ==
    /\ dec.nb > 0
    /\ dec' = NoDecoder
    /\ sessions' = [s \in Indices |-> NoSession]
    /\ store' = IF Flash THEN store ELSE [row \in DOMAIN store |-> Erased]
    /\ seen' = {}
    /\ UNCHANGED server

Next == \/ \E s \in Indices, n \in Sizes, f \in 1 .. Files : Setup(s, n, f)
        \/ \E s \in Indices : Delete(s)
        \/ \E c \in 1 .. server.nb + Coded : DataFragment(c)
        \/ Restart

Spec == Init /\ [][Next]_vars

----------------------------------------------------------------------------
\* Types; the decoder has as many lines as it counts, and as long as no more
\* rows are missing than FRAG_MAX_REDUNDANCY, a line fits the vectors and every
\* bit of the packed triangle has its place in the code's MatrixM2B.  (More can
\* be missing when lines are stored, if they were lost at the end of the file,
\* FragDecoder.c:338: of these nothing of the kind is true.)
TypeOK ==
    /\ dec.lost \in 0 .. dec.nb /\ dec.lastRx \in 0 .. dec.nb + 1
    /\ DOMAIN dec.missing = 0 .. dec.nb - 1
    /\ \A i \in DOMAIN dec.missing : dec.missing[i] \in 0 .. MaxNb
    /\ dec.m2b \subseteq 0 .. (dec.nb * (dec.nb + 1)) \div 2 - 1
    /\ dec.S \subseteq 0 .. dec.lost - 1 /\ dec.line = Cardinality(dec.S)
    /\ dec.error \in BOOLEAN
    /\ dec.lost <= MaxRedundancy =>
          /\ dec.lost <= VectorBits
          /\ \A r \in 0 .. dec.lost - 1 : \A i \in r .. dec.lost - 1 :
                Bit(r, i, dec) \in 0 .. MatrixBits - 1
    /\ \A s \in Indices : sessions[s].status \in -2 .. MaxNb
    /\ server.file \in 0 .. Files /\ seen \subseteq 1 .. MaxNb + Coded

Session == sessions[server.index]
Done == Session.nb > 0 /\ Session.status >= Finished

Complete == \A i \in 1 .. server.nb : store[i - 1] = Fragment(server.file, i)

\* A file that the decoder finishes is the one that was sent, row by row, unless
\* more rows were missing than it can recover.
Reassembled == Done /\ dec.lost <= MaxRedundancy => Complete

\* A session that finishes without its file, no line having overrun the
\* vectors, says so in MatrixError, the only thing by which the server can tell.
\* (It is never cleared: after one failure it tells nothing of the next session.)
FailureReported == Done /\ WithinVectors(dec) /\ ~Complete => dec.error

\* What is missing, and what the coded fragments seen say about it.
Missing == {i \in DOMAIN dec.missing : dec.missing[i] > 0}
Row(c) == ParityRow(c - dec.nb, dec.nb) \cap Missing
Sum(T) == {i \in Missing : Cardinality({c \in T : i \in Row(c)}) % 2 = 1}
Solvable == \A i \in Missing : \E T \in SUBSET seen : Sum(T) = {i}

\* The decoder needs no more fragments than it must: as long as a session goes
\* on, the coded fragments it has seen do not determine the missing rows.
Timely ==
    Session.nb > 0 /\ Session.status = Ongoing /\ dec.lost <= MaxRedundancy
        /\ seen # {} => ~Solvable
=============================================================================
