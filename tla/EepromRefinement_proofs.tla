----------------------- MODULE EepromRefinement_proofs -----------------------
(***************************************************************************)
(* The EEPROM emulation for every number of pages, words, variables and    *)
(* driver errors.                                                          *)
(*                                                                         *)
(* First the types of its variables, and that the handle in RAM agrees     *)
(* with the marks in flash.  Then that with a reliable flash driver it     *)
(* implements EepromStore, wherever power is lost: what a restart recovers *)
(* depends on the words of two pages only, the one marked active and the   *)
(* one marked receiving.  A page that is missing counts as blank, so that  *)
(* marking a blank page changes nothing, and each step is one of a few     *)
(* changes of these two arrays of words.                                   *)
(*                                                                         *)
(* Then what holds with errors too: one error never leaves two active      *)
(* pages; and how the erase count goes from page to page.                  *)
(***************************************************************************)
EXTENDS EepromRefinement, WellFoundedInduction, SequenceTheorems,
        FiniteSetTheorems, TLAPS

\* A non-empty set of natural numbers has a least element.
LEMMA Least == ASSUME NEW S, S \subseteq Nat, S # {}
               PROVE  \E k \in S : \A j \in S : k <= j
<1> DEFINE R == OpToRel(<, Nat)
<1>1. IsWellFoundedOn(R, Nat)
  BY NatLessThanWellFounded
<1>2. PICK k \in S : \A j \in S : ~(<<j, k>> \in R)
  <2> HIDE DEF R
  <2> QED
    BY <1>1, WFMin
<1>3. \A j \in S : ~(j < k)
  BY <1>2 DEF OpToRel
<1> QED
  BY <1>3

\* A non-empty set of words has a first word (where eeprom_page_write stops).
LEMMA FirstWord == ASSUME NEW S \in SUBSET Index, S # {}
                   PROVE  First(S) \in S /\ \A j \in S : First(S) <= j
<1>1. S \subseteq Nat
  BY DEF Index
<1>2. \E k \in S : \A j \in S : k <= j
  BY <1>1, Least
<1> QED
  BY <1>2 DEF First

\* A non-empty set of words has a last word (where eeprom_read stops).
LEMMA LastWord == ASSUME NEW S \in SUBSET Index, S # {}
                  PROVE  Last(S) \in S /\ \A j \in S : Last(S) >= j
<1> DEFINE D == {PageWords - k : k \in S}
<1>0. PageWords \in Nat
  BY EepromAssumption
<1>1. D \subseteq Nat /\ D # {}
  <2>1. \A k \in S : PageWords - k \in Nat
    BY <1>0 DEF Index
  <2> QED
    BY <2>1
<1>2. PICK n \in D : \A m \in D : n <= m
  <2> HIDE DEF D
  <2> QED
    BY <1>1, Least
<1>3. PICK k \in S : n = PageWords - k
  BY <1>2
<1>4. \A j \in S : PageWords - j \in D
  OBVIOUS
<1>5. \A j \in S : k >= j
  BY <1>0, <1>2, <1>3, <1>4 DEF Index
<1> QED
  BY <1>5 DEF Last

\* What eeprom_read returns is a value, or nothing.
LEMMA LookupType == ASSUME flash \in [Pages -> PageStates],
                           NEW p \in Pages, NEW v \in Vars
                    PROVE  Lookup(p, v) \in Data \cup {None}
<1>1. CASE Holding(p, v) = {}
  BY <1>1 DEF Lookup
<1>2. CASE Holding(p, v) # {}
  <2>1. Last(Holding(p, v)) \in Index
    BY <1>2, LastWord DEF Holding
  <2>2. flash[p].word[Last(Holding(p, v))] \in Words
    BY <2>1 DEF PageStates
  <2>3. 0 \in Data
    BY EepromAssumption DEF Data
  <2> QED
    BY <1>2, <2>2, <2>3 DEF Lookup, Words, Empty, Dead
<1> QED
  BY <1>1, <1>2

----------------------------------------------------------------------------
(* Types.                                                                  *)

\* What the driver's calls leave in flash is again pages of words.
LEMMA EraseType == ASSUME flash \in [Pages -> PageStates],
                          NEW ok \in BOOLEAN, NEW p, ErasePage(ok, p)
                   PROVE  flash' \in [Pages -> PageStates]
<1>1. ErasedPage \in PageStates
  BY DEF ErasedPage, PageStates, Status, Words, Empty, Dead
<1> QED
  BY <1>1 DEF ErasePage

\* A programmed status leaves pages of words (ProgramStatus).
LEMMA StatusType == ASSUME flash \in [Pages -> PageStates],
                           NEW ok \in BOOLEAN, NEW p, NEW s \in Status,
                           ProgramStatus(ok, p, s)
                    PROVE  flash' \in [Pages -> PageStates]
<1>1. CASE ~ok
  BY <1>1 DEF ProgramStatus
<1>2. CASE ok
  <2>1. PICK t \in AndStatus(flash[p].status, s) :
                flash' = [flash EXCEPT ![p].status = t]
    BY <1>2 DEF ProgramStatus
  <2>2. t \in Status
    BY DEF AndStatus, Status
  <2> QED
    BY <2>1, <2>2 DEF PageStates
<1> QED
  BY <1>1, <1>2

\* So does a programmed erase count (ProgramCount).
LEMMA CountType == ASSUME flash \in [Pages -> PageStates],
                          NEW ok \in BOOLEAN, NEW p, NEW c \in SUBSET Bits,
                          ProgramCount(ok, p, c)
                   PROVE  flash' \in [Pages -> PageStates]
BY DEF ProgramCount, PageStates

\* So does a programmed word (ProgramWord).
LEMMA WordType == ASSUME flash \in [Pages -> PageStates],
                         NEW ok \in BOOLEAN, NEW p, NEW k, NEW w \in Words,
                         ProgramWord(ok, p, k, w)
                  PROVE  flash' \in [Pages -> PageStates]
BY DEF ProgramWord, PageStates

\* A call of the driver keeps the number of errors within its bound.
LEMMA ErrorsType == ASSUME errors \in 0 .. MaxErrors, NEW ok \in BOOLEAN,
                           Outcome(ok)
                    PROVE  errors' \in 0 .. MaxErrors
BY EepromAssumption DEF Outcome

\* The operations a call consists of.
LEMMA DeletesType == ASSUME NEW v \in Vars, NEW len \in Nat
                     PROVE  Deletes(v, len) \in Seq(DeleteOps)
<1> DEFINE n == IF v + len - 1 > NumVars THEN NumVars - v + 1 ELSE len
<1>1. n \in Nat /\ \A i \in 1 .. n : v + i - 1 \in Vars
  BY EepromAssumption DEF Vars
<1>2. \A i \in 1 .. n : DeleteOp(v + i - 1) \in DeleteOps
  BY <1>1 DEF DeleteOp, DeleteOps
<1> QED
  BY <1>1, <1>2 DEF Deletes

\* A byte, and a byte with the length of an array above it, fit a variable.
LEMMA RadixFits == \A n \in 0 .. MaxLen, x \in 0 .. Radix - 1 :
                      x \in Data /\ n * Radix + x \in Data
<1> SUFFICES ASSUME NEW n \in 0 .. MaxLen, NEW x \in 0 .. Radix - 1
             PROVE  x \in Data /\ n * Radix + x \in Data
  OBVIOUS
<1>1. MaxLen \in Nat /\ Radix \in Nat \ {0}
  BY EepromAssumption
<1>2. n * Radix \in Nat /\ (MaxLen - n) * Radix \in Nat /\ MaxLen * Radix \in Nat
  BY <1>1
<1>3. n * Radix + (MaxLen - n) * Radix = MaxLen * Radix
  BY <1>1
<1>4. (MaxLen + 1) * Radix = MaxLen * Radix + Radix
  BY <1>1
<1> QED
  BY <1>1, <1>2, <1>3, <1>4 DEF Data

\* The length an array's first value holds is a number.
LEMMA LenType == \A d \in Data : LenOf(d) \in Nat
BY EepromAssumption DEF Data, LenOf

\* The invariant the type proof carries: types, and indices within bounds.
IndInv == TypeOK /\ IndexOK

\* The calls only fill the script with operations.
LEMMA CallingType == ASSUME IndInv, Calling PROVE IndInv'
<1> USE DEF IndInv
<1>1. ASSUME NEW ops \in Seq(WriteOps \cup DeleteOps), Start(ops)
      PROVE  IndInv'
  BY <1>1 DEF Start, Idle, TypeOK, IndexOK
<1>0. Idle => \A v \in Vars : Read(v) \in Data \cup {None}
  BY LookupType DEF Idle, TypeOK, IndexOK, Read
<1>2. CASE WriteCall
  <2>1. PICK v \in Vars, d \in Data : Start(<<WriteOp(v, d)>>)
    BY <1>2 DEF WriteCall
  <2>2. WriteOp(v, d) \in WriteOps \cup DeleteOps
    BY DEF WriteOp, WriteOps
  <2>3. <<WriteOp(v, d)>> \in Seq(WriteOps \cup DeleteOps)
    BY <2>2
  <2> QED
    BY <1>1, <2>1, <2>3
<1>3. CASE WriteArrayLenCall
  <2>1. PICK v \in Vars, n \in 1 .. NumVars :
           /\ v + n - 1 <= NumVars
           /\ \E b \in [1 .. n -> 0 .. Radix - 1] :
                 Start([i \in 1 .. n |-> WriteOp(v + i - 1, b[i])])
    BY <1>3 DEF WriteArrayLenCall
  <2>2. PICK b \in [1 .. n -> 0 .. Radix - 1] :
           Start([i \in 1 .. n |-> WriteOp(v + i - 1, b[i])])
    BY <2>1
  <2>3. \A i \in 1 .. n : v + i - 1 \in Vars /\ b[i] \in Data
    <3>0. 0 \in 0 .. MaxLen
      BY EepromAssumption
    <3>1. \A x \in 0 .. Radix - 1 : x \in Data
      BY <3>0, RadixFits
    <3> QED
      BY <2>1, <2>2, <3>1, EepromAssumption DEF Vars
  <2>4. [i \in 1 .. n |-> WriteOp(v + i - 1, b[i])] \in Seq(WriteOps \cup DeleteOps)
    BY <2>3 DEF WriteOp, WriteOps
  <2> QED
    BY <1>1, <2>2, <2>4
<1>4. CASE WriteArrayCall
  <2>1. PICK v \in Vars, n \in 1 .. MaxLen :
           /\ v + n - 1 <= NumVars
           /\ \E b \in [1 .. n -> 0 .. Radix - 1] :
                 LET stored == IF Read(v) = None THEN n ELSE LenOf(Read(v))
                     puts == [i \in 1 .. n |->
                                PutOp(v + i - 1,
                                      IF i = 1 THEN n * Radix + b[1] ELSE b[i])]
                 IN  Start(IF stored = n THEN puts ELSE Deletes(v, stored) \o puts)
    BY <1>4 DEF WriteArrayCall
  <2> DEFINE stored == IF Read(v) = None THEN n ELSE LenOf(Read(v))
             puts(b) == [i \in 1 .. n |->
                           PutOp(v + i - 1,
                                 IF i = 1 THEN n * Radix + b[1] ELSE b[i])]
  <2>2. PICK b \in [1 .. n -> 0 .. Radix - 1] :
           Start(IF stored = n THEN puts(b) ELSE Deletes(v, stored) \o puts(b))
    BY <2>1
  <2>3. \A i \in 1 .. n : /\ v + i - 1 \in Vars
                          /\ (IF i = 1 THEN n * Radix + b[1] ELSE b[i]) \in Data
    <3>1. \A x \in 0 .. Radix - 1 : x \in Data /\ n * Radix + x \in Data
      BY RadixFits
    <3> QED
      BY <2>1, <2>2, <3>1, EepromAssumption DEF Vars
  <2>4. puts(b) \in Seq(WriteOps)
    BY <2>3 DEF PutOp, WriteOps
  <2>5. stored \in Nat
    <3>1. Read(v) \in Data \cup {None}
      BY <1>0, <2>2 DEF Start
    <3> QED
      BY <3>1, LenType
  <2>6. Deletes(v, stored) \in Seq(DeleteOps)
    BY <2>5, DeletesType
  <2>7. (IF stored = n THEN puts(b) ELSE Deletes(v, stored) \o puts(b))
           \in Seq(WriteOps \cup DeleteOps)
    <3> HIDE DEF stored, puts
    <3> QED
      BY <2>4, <2>6
  <2> QED
    BY <1>1, <2>2, <2>7
<1>5. CASE DeleteCall
  <2>1. PICK v \in Vars : Start(<<DeleteOp(v)>>)
    BY <1>5 DEF DeleteCall
  <2>2. DeleteOp(v) \in WriteOps \cup DeleteOps
    BY DEF DeleteOp, DeleteOps
  <2>3. <<DeleteOp(v)>> \in Seq(WriteOps \cup DeleteOps)
    BY <2>2
  <2> QED
    BY <1>1, <2>1, <2>3
<1>6. CASE DeleteArrayCall
  <2>1. PICK v \in Vars : Read(v) # None /\ Start(Deletes(v, LenOf(Read(v))))
    BY <1>6 DEF DeleteArrayCall
  <2>2. Deletes(v, LenOf(Read(v))) \in Seq(DeleteOps)
    BY <1>0, <2>1, LenType, DeletesType DEF Start
  <2>3. Deletes(v, LenOf(Read(v))) \in Seq(WriteOps \cup DeleteOps)
    BY <2>2
  <2> QED
    BY <1>1, <2>1, <2>3
<1>7. CASE FormatCall
  BY <1>7, EepromAssumption DEF FormatCall, StartFormat, TypeOK, IndexOK, PCs
<1> QED
  BY <1>2, <1>3, <1>4, <1>5, <1>6, <1>7 DEF Calling

\* eeprom_init keeps the types.
LEMMA StartingType == ASSUME IndInv, Starting PROVE IndInv'
<1> USE DEF IndInv
<1>1. CASE Boot
  BY <1>1, EepromAssumption DEF Boot, TypeOK, IndexOK, PCs, Pages
<1>2. CASE ScanMarked
  BY <1>2, EepromAssumption
     DEF ScanMarked, StartFormat, TypeOK, IndexOK, PCs, Pages
<1>3. CASE ScanUnmarked
  <2>1. flash' \in [Pages -> PageStates] /\ errors' \in 0 .. MaxErrors
    <3>1. CASE ValidEmpty(cur)
      BY <1>3, <3>1 DEF ScanUnmarked, TypeOK
    <3>2. CASE ~ValidEmpty(cur)
      <4>1. PICK ok \in BOOLEAN : ErasePage(ok, cur) /\ Outcome(ok)
        BY <1>3, <3>2 DEF ScanUnmarked
      <4> QED
        BY <4>1, EraseType, ErrorsType DEF TypeOK
    <3> QED
      BY <3>1, <3>2
  <2> QED
    BY <1>3, <2>1, EepromAssumption DEF ScanUnmarked, TypeOK, IndexOK
<1>4. CASE ScanDone
  <2>1. CASE active = NoPage /\ receiving = NoPage
    BY <1>4, <2>1, EepromAssumption
       DEF ScanDone, StartFormat, TypeOK, IndexOK, PCs
  <2>2. CASE receiving = NoPage /\ active # NoPage
    BY <1>4, <2>2 DEF ScanDone, TypeOK, IndexOK, PCs
  <2>3. CASE receiving # NoPage /\ active = NoPage
    BY <1>4, <2>3 DEF ScanDone, TypeOK, IndexOK, PCs
  <2>4. CASE receiving # NoPage /\ active # NoPage
    BY <1>4, <2>4 DEF ScanDone, TypeOK, IndexOK, PCs
  <2> QED
    BY <2>1, <2>2, <2>3, <2>4
<1>5. CASE Adopt
  <2>1. PICK ok \in BOOLEAN : ProgramStatus(ok, active, "active") /\ Outcome(ok)
    BY <1>5 DEF Adopt
  <2>2. flash' \in [Pages -> PageStates] /\ errors' \in 0 .. MaxErrors
    BY <2>1, StatusType, ErrorsType DEF TypeOK, Status
  <2> QED
    BY <1>5, <2>2 DEF Adopt, TypeOK, IndexOK, PCs
<1> QED
  BY <1>1, <1>2, <1>3, <1>4, <1>5 DEF Starting

\* eeprom_format keeps the types.
LEMMA FormattingType == ASSUME IndInv, Formatting PROVE IndInv'
<1> USE DEF IndInv
<1>1. CASE FormatErase
  <2>1. flash' \in [Pages -> PageStates] /\ errors' \in 0 .. MaxErrors
    <3>1. CASE ValidEmpty(cur)
      BY <1>1, <3>1 DEF FormatErase, TypeOK
    <3>2. CASE ~ValidEmpty(cur)
      <4>1. PICK ok \in BOOLEAN : ErasePage(ok, cur) /\ Outcome(ok)
        BY <1>1, <3>2 DEF FormatErase
      <4> QED
        BY <4>1, EraseType, ErrorsType DEF TypeOK
    <3> QED
      BY <3>1, <3>2
  <2>2. \/ cur' = cur - 1 /\ pc' = pc
        \/ cur' = cur /\ pc' = IF active = NoPage THEN "wild" ELSE "ready"
    BY <1>1 DEF FormatErase, GiveUpFormat
  <2>3. booted' \in BOOLEAN
    <3>1. booted' = (pc' # "format" \/ booted)
      BY <1>1 DEF FormatErase
    <3> QED
      BY <3>1, Zenon
  <2>4. UNCHANGED <<active, receiving, script>> /\ pc = "format" /\ cur >= 0
    BY <1>1 DEF FormatErase
  <2>5. CASE cur' = cur - 1 /\ pc' = pc
    BY <2>1, <2>3, <2>4, <2>5, EepromAssumption DEF TypeOK, IndexOK
  <2>6. CASE cur' = cur /\ pc' = IF active = NoPage THEN "wild" ELSE "ready"
    <3>1. /\ pc' \in {"wild", "ready"} /\ (pc' = "ready" => active \in Pages)
          /\ pc' = "wild" => active = NoPage
      BY <2>6 DEF TypeOK, Pages, NoPage
    <3>2. errors' > 0
      <4>1. ~ValidEmpty(cur)
        BY <1>1, <2>4, <2>6 DEF FormatErase, TypeOK
      <4>2. PICK ok \in BOOLEAN : /\ Outcome(ok)
                                  /\ ok => cur' = cur - 1
        BY <1>1, <4>1 DEF FormatErase
      <4>3. ok = FALSE
        BY <2>6, <4>2 DEF TypeOK
      <4> QED
        BY <4>2, <4>3 DEF Outcome, TypeOK
    <3> QED
      BY <2>1, <2>3, <2>4, <2>6, <3>1, <3>2 DEF TypeOK, IndexOK, PCs
  <2> QED
    BY <2>2, <2>5, <2>6
<1>2. CASE FormatCount
  <2>1. PICK ok \in BOOLEAN : /\ ProgramCount(ok, 0, BitsOf(1)) /\ Outcome(ok)
                              /\ pc' = IF ok THEN "formatted" ELSE "ready"
    BY <1>2 DEF FormatCount
  <2>2. flash' \in [Pages -> PageStates] /\ errors' \in 0 .. MaxErrors
    BY <2>1, CountType, ErrorsType DEF TypeOK, BitsOf
  <2> QED
    BY <1>2, <2>1, <2>2, EepromAssumption
       DEF FormatCount, TypeOK, IndexOK, PCs, Pages
<1>3. CASE FormatActivate
  <2>1. PICK ok \in BOOLEAN : ProgramStatus(ok, active, "active") /\ Outcome(ok)
    BY <1>3 DEF FormatActivate
  <2>2. flash' \in [Pages -> PageStates] /\ errors' \in 0 .. MaxErrors
    BY <2>1, StatusType, ErrorsType DEF TypeOK, Status
  <2> QED
    BY <1>3, <2>2 DEF FormatActivate, TypeOK, IndexOK, PCs
<1> QED
  BY <1>1, <1>2, <1>3 DEF Formatting

\* A transfer begins with a receiving page that is one of the pages.
LEMMA StartTransferType == ASSUME TypeOK, active \in Pages, StartTransfer
                           PROVE  /\ pc' \in {"mark", "clean"}
                                  /\ receiving' \in Pages
<1>1. CASE receiving # NoPage
  BY <1>1 DEF StartTransfer, TypeOK
<1>2. CASE receiving = NoPage
  BY <1>2, EepromAssumption DEF StartTransfer, NextPage, Pages
<1> QED
  BY <1>1, <1>2

\* eeprom_write keeps the types.
LEMMA WritingType == ASSUME IndInv, Writing PROVE IndInv'
<1> USE DEF IndInv
<1>1. CASE WriteSame
  BY <1>1, HeadTailProperties DEF WriteSame, Running, TypeOK, IndexOK
<1>2. CASE WriteWord
  <2> DEFINE w == [va |-> Head(script).va, data |-> Head(script).data]
             k == First(Free(active))
  <2>1. PICK ok \in BOOLEAN :
           /\ Outcome(ok)
           /\ ProgramWord(ok, active, k, w)
           /\ IF ok THEN script' = Tail(script) /\ UNCHANGED <<receiving, pc>>
                    ELSE StartTransfer /\ UNCHANGED script
    BY <1>2 DEF WriteWord
  <2>2. pc = "ready" /\ script # <<>> /\ Head(script) \in WriteOps
    <3>1. /\ pc = "ready" /\ script # <<>>
          /\ Head(script).kind \in {"put", "write"}
      BY <1>2 DEF WriteWord, Stores, Running
    <3>2. Head(script) \in WriteOps \cup DeleteOps
      BY <3>1, HeadTailProperties DEF TypeOK
    <3> QED
      BY <3>1, <3>2 DEF WriteOps, DeleteOps
  <2>3. w \in Words
    BY <2>2 DEF WriteOps, Words
  <2>4. flash' \in [Pages -> PageStates] /\ errors' \in 0 .. MaxErrors
    BY <2>1, <2>3, WordType, ErrorsType DEF TypeOK
  <2>5. UNCHANGED <<active, cur, booted>> /\ active \in Pages
    BY <1>2, <2>2 DEF WriteWord, IndexOK
  <2>6. CASE ok
    <3>1. script' \in Seq(WriteOps \cup DeleteOps)
      BY <2>1, <2>2, <2>6, HeadTailProperties DEF TypeOK
    <3> QED
      BY <2>1, <2>2, <2>4, <2>5, <2>6, <3>1 DEF TypeOK, IndexOK
  <2>7. CASE ~ok
    <3>1. pc' \in {"mark", "clean"} /\ receiving' \in Pages
      BY <2>1, <2>5, <2>7, StartTransferType
    <3>2. Head(script).kind # "delete"
      BY <2>2 DEF WriteOps
    <3> QED
      BY <2>1, <2>4, <2>5, <2>7, <3>1, <3>2 DEF TypeOK, IndexOK, PCs
  <2> QED
    BY <2>6, <2>7
<1>3. CASE WriteFull
  <2>1. active \in Pages /\ Head(script).kind # "delete"
    BY <1>3 DEF WriteFull, Stores, Running, IndexOK
  <2>2. pc' \in {"mark", "clean"} /\ receiving' \in Pages
    BY <1>3, <2>1, StartTransferType DEF WriteFull
  <2> QED
    BY <1>3, <2>1, <2>2 DEF WriteFull, TypeOK, IndexOK, PCs
<1> QED
  BY <1>1, <1>2, <1>3 DEF Writing

\* eeprom_delete keeps the types.
LEMMA DeletingType == ASSUME IndInv, Deleting PROVE IndInv'
<1> USE DEF IndInv
<1>1. CASE DeleteBegin
  BY <1>1, EepromAssumption DEF DeleteBegin, Running, TypeOK, IndexOK, PCs
<1>2. CASE DeleteWord
  <2>1. flash' \in [Pages -> PageStates] /\ errors' \in 0 .. MaxErrors
    <3>1. CASE flash[active].word[cur].va = Head(script).va
      <4>1. PICK ok \in BOOLEAN : ProgramWord(ok, active, cur, Dead) /\ Outcome(ok)
        BY <1>2, <3>1 DEF DeleteWord
      <4>2. Dead \in Words
        BY DEF Words
      <4> QED
        BY <4>1, <4>2, WordType, ErrorsType DEF TypeOK
    <3>2. CASE flash[active].word[cur].va # Head(script).va
      BY <1>2, <3>2 DEF DeleteWord, TypeOK
    <3> QED
      BY <3>1, <3>2
  <2> QED
    BY <1>2, <2>1, EepromAssumption DEF DeleteWord, TypeOK, IndexOK
<1>3. CASE DeleteEnd
  BY <1>3, HeadTailProperties DEF DeleteEnd, TypeOK, IndexOK, PCs
<1> QED
  BY <1>1, <1>2, <1>3 DEF Deleting

\* A page_write to the receiving page keeps the types.
LEMMA PutType == ASSUME TypeOK, NEW w \in Words, PutInReceiving(w)
                 PROVE  flash' \in [Pages -> PageStates] /\ errors' \in 0 .. MaxErrors
<1>1. CASE Free(receiving) = {}
  BY <1>1 DEF PutInReceiving, TypeOK
<1>2. CASE Free(receiving) # {}
  <2>1. PICK ok \in BOOLEAN :
           ProgramWord(ok, receiving, First(Free(receiving)), w) /\ Outcome(ok)
    BY <1>2 DEF PutInReceiving
  <2> QED
    BY <2>1, WordType, ErrorsType DEF TypeOK
<1> QED
  BY <1>1, <1>2

\* eeprom_page_transfer keeps the types.
LEMMA TransferType == ASSUME IndInv, Transfer PROVE IndInv'
<1> USE DEF IndInv
<1>1. CASE TransferClean
  <2>1. PICK ok \in BOOLEAN : ErasePage(ok, receiving) /\ Outcome(ok)
    BY <1>1 DEF TransferClean
  <2>2. flash' \in [Pages -> PageStates] /\ errors' \in 0 .. MaxErrors
    BY <2>1, EraseType, ErrorsType DEF TypeOK
  <2> QED
    BY <1>1, <2>2 DEF TransferClean, TypeOK, IndexOK, PCs
<1>2. CASE TransferMark
  <2>1. PICK ok \in BOOLEAN : ProgramStatus(ok, receiving, ReceivingMark) /\ Outcome(ok)
    BY <1>2 DEF TransferMark
  <2>2. flash' \in [Pages -> PageStates] /\ errors' \in 0 .. MaxErrors
    BY <2>1, StatusType, ErrorsType DEF TypeOK, Status, ReceivingMark
  <2> QED
    BY <1>2, <2>2, EepromAssumption DEF TransferMark, TypeOK, IndexOK, PCs
<1>3. CASE TransferNew
  <2>1. pc = "new" /\ script # <<>> /\ Head(script) \in WriteOps
    <3>1. pc = "new" /\ script # <<>> /\ Head(script).kind # "delete"
      BY <1>3 DEF TransferNew, IndexOK
    <3>2. Head(script) \in WriteOps \cup DeleteOps
      BY <3>1, HeadTailProperties DEF TypeOK
    <3> QED
      BY <3>1, <3>2 DEF DeleteOps
  <2>2. PutInReceiving([va |-> Head(script).va, data |-> Head(script).data])
    BY <1>3 DEF TransferNew
  <2>3. [va |-> Head(script).va, data |-> Head(script).data] \in Words
    BY <2>1 DEF WriteOps, Words
  <2>4. script' \in Seq(WriteOps \cup DeleteOps)
    BY <1>3, <2>1, HeadTailProperties DEF TransferNew, TypeOK
  <2>5. flash' \in [Pages -> PageStates] /\ errors' \in 0 .. MaxErrors
    BY <2>2, <2>3, PutType
  <2> QED
    BY <1>3, <2>4, <2>5 
       DEF TransferNew, TypeOK, IndexOK, PCs
<1>4. CASE TransferCopy
  <2>1. flash[active].word[cur] \in Words
    BY <1>4, EepromAssumption DEF TransferCopy, TypeOK, IndexOK, PageStates, Index
  <2>2. flash' \in [Pages -> PageStates] /\ errors' \in 0 .. MaxErrors
    BY <1>4, <2>1, PutType DEF TransferCopy, TypeOK
  <2> QED
    BY <1>4, <2>2, EepromAssumption DEF TransferCopy, TypeOK, IndexOK
<1>5. CASE TransferCount
  <2>1. PICK ok \in BOOLEAN :
           /\ Outcome(ok)
           /\ ProgramCount(ok, receiving,
                 BitsOf(EraseCounter + (IF receiving = 0 THEN 1 ELSE 0)))
           /\ IF ok THEN pc' = "drop" /\ UNCHANGED booted ELSE EndTransfer
    BY <1>5 DEF TransferCount
  <2>2. flash' \in [Pages -> PageStates] /\ errors' \in 0 .. MaxErrors
    <3>1. BitsOf(EraseCounter + (IF receiving = 0 THEN 1 ELSE 0)) \in SUBSET Bits
      BY DEF BitsOf
    <3> QED
      BY <2>1, <3>1, CountType, ErrorsType DEF TypeOK
  <2> QED
    BY <1>5, <2>1, <2>2 DEF TransferCount, EndTransfer, TypeOK, IndexOK, PCs
<1>6. CASE TransferErase
  <2>1. PICK ok \in BOOLEAN :
           /\ Outcome(ok) /\ ErasePage(ok, active)
           /\ IF ok THEN pc' = "switch" /\ UNCHANGED booted ELSE EndTransfer
    BY <1>6 DEF TransferErase
  <2>2. flash' \in [Pages -> PageStates] /\ errors' \in 0 .. MaxErrors
    BY <2>1, EraseType, ErrorsType DEF TypeOK
  <2> QED
    BY <1>6, <2>1, <2>2 DEF TransferErase, EndTransfer, TypeOK, IndexOK, PCs
<1>7. CASE TransferSwitch
  <2>1. PICK ok \in BOOLEAN :
           /\ Outcome(ok) /\ ProgramStatus(ok, receiving, "active")
           /\ IF ok THEN SwitchHandle
                    ELSE UNCHANGED handle
    BY <1>7 DEF TransferSwitch
  <2>2. flash' \in [Pages -> PageStates] /\ errors' \in 0 .. MaxErrors
    BY <2>1, StatusType, ErrorsType DEF TypeOK, Status
  <2> QED
    BY <1>7, <2>1, <2>2
       DEF TransferSwitch, SwitchHandle, EndTransfer, handle, TypeOK, IndexOK, PCs
<1> QED
  BY <1>1, <1>2, <1>3, <1>4, <1>5, <1>6, <1>7 DEF Transfer

\* The types hold for a new board.
LEMMA InitType == Init => IndInv
<1> SUFFICES ASSUME Init PROVE IndInv
  OBVIOUS
<1>1. ErasedPage \in PageStates /\ ForeignPage \in PageStates
  BY DEF ErasedPage, ForeignPage, PageStates, Status, Words, Empty, Dead
<1>2. script \in Seq(WriteOps \cup DeleteOps)
  BY DEF Init
<1>3. flash \in [Pages -> PageStates]
  BY <1>1 DEF Init
<1>4. booted \in BOOLEAN
  BY Zenon DEF Init
<1>5. /\ pc \in PCs /\ cur \in Int /\ errors \in 0 .. MaxErrors
      /\ active \in Pages \cup {NoPage} /\ receiving \in Pages \cup {NoPage}
  BY EepromAssumption DEF Init, PCs
<1>6. TypeOK
  BY <1>2, <1>3, <1>4, <1>5 DEF TypeOK
<1>7. IndexOK
  BY DEF Init, IndexOK
<1> QED
  BY <1>6, <1>7 DEF IndInv

\* Every step keeps the types.
LEMMA NextType == IndInv /\ [Next]_vars => IndInv'
<1> SUFFICES ASSUME IndInv, [Next]_vars PROVE IndInv'
  OBVIOUS
<1>1. CASE Step
  BY <1>1, StartingType, FormattingType, WritingType, TransferType, DeletingType
     DEF Step
<1>2. CASE Calling
  BY <1>2, CallingType
<1>3. CASE PowerLoss
  <2>1. script' \in Seq(WriteOps \cup DeleteOps)
    BY <1>3 DEF PowerLoss
  <2>2. booted' \in BOOLEAN
    BY <1>3, Zenon DEF PowerLoss
  <2>3. /\ pc' \in PCs /\ cur' \in Int
        /\ active' \in Pages \cup {NoPage} /\ receiving' \in Pages \cup {NoPage}
    BY <1>3 DEF PowerLoss, PCs
  <2>4. flash' \in [Pages -> PageStates] /\ errors' \in 0 .. MaxErrors
    BY <1>3 DEF PowerLoss, IndInv, TypeOK
  <2>5. TypeOK'
    BY <2>1, <2>2, <2>3, <2>4 DEF TypeOK
  <2>6. IndexOK'
    BY <1>3 DEF PowerLoss, IndexOK
  <2> QED
    BY <2>5, <2>6 DEF IndInv
<1>4. CASE UNCHANGED vars
  BY <1>4 DEF vars, IndInv, TypeOK, IndexOK
<1> QED
  BY <1>1, <1>2, <1>3, <1>4 DEF Next

\* The variables keep their types: whatever fails, flash holds nothing but
\* pages of words, and the driver's errors stay within the bound.
THEOREM TypeCorrect == Spec => []TypeOK
<1>1. IndInv => TypeOK
  BY DEF IndInv
<1> QED
  BY <1>1, InitType, NextType, PTL DEF Spec

\* Every index into pages[], the words of a page and the script is in bounds in
\* all states but one, and that one, in which calls would take pages[-1] for a
\* page, is not reached before the driver has reported an error.
THEOREM IndicesInBounds == Spec => []IndexOK
<1>1. IndInv => IndexOK
  BY DEF IndInv
<1> QED
  BY <1>1, InitType, NextType, PTL DEF Spec

----------------------------------------------------------------------------
(* The handle in RAM and the marks in flash.                               *)

\* A driver call counted as no error has succeeded.
LEMMA NoError == ASSUME errors \in 0 .. MaxErrors, NEW ok \in BOOLEAN,
                        Outcome(ok), errors' = 0
                 PROVE  ok /\ errors = 0
BY DEF Outcome

\* eeprom_init.
LEMMA StartingHandle == ASSUME IndInv, HandleMatchesFlash, Starting, errors' = 0
                        PROVE  HandleMatchesFlash'
<1>0. TypeOK /\ IndexOK
  BY DEF IndInv
<1>1. CASE Boot
  <2>1. errors = 0 /\ pc = "off" /\ flash' = flash
    BY <1>1 DEF Boot
  <2>2. AtMostOne("active") /\ AtMostOne("receiving")
    BY <2>1 DEF HandleMatchesFlash
  <2>3. Scanned'
    BY <1>1, <2>1, <2>2 DEF Boot, Scanned, AtMostOne, PagesOf, Pages, NoPage
  <2> QED
    BY <1>1, <2>3 DEF Boot, HandleMatchesFlash
<1>2. CASE ScanMarked
  <2>1. /\ errors = 0 /\ pc = "scan" /\ flash' = flash /\ cur \in Pages
        /\ active \in Pages \cup {NoPage} /\ receiving \in Pages \cup {NoPage}
    BY <1>0, <1>2, EepromAssumption DEF ScanMarked, TypeOK, IndexOK, Pages
  <2>2. Scanned
    BY <2>1 DEF HandleMatchesFlash
  <2>3. CASE flash[cur].status = "active"
    <3>1. active = NoPage
      BY <2>1, <2>2, <2>3 DEF Scanned, AtMostOne, PagesOf, Pages, NoPage
    <3>2. active' = cur /\ cur' = cur + 1 /\ pc' = pc /\ receiving' = receiving
      BY <1>2, <2>3, <3>1 DEF ScanMarked
    <3>3. Scanned'
      BY <2>1, <2>2, <2>3, <3>1, <3>2
         DEF Scanned, AtMostOne, PagesOf, ValidEmpty, Pages, NoPage
    <3> QED
      BY <2>1, <3>2, <3>3 DEF HandleMatchesFlash
  <2>4. CASE flash[cur].status = "receiving"
    <3>1. receiving = NoPage
      BY <2>1, <2>2, <2>4 DEF Scanned, AtMostOne, PagesOf, Pages, NoPage
    <3>2. receiving' = cur /\ cur' = cur + 1 /\ pc' = pc /\ active' = active
      BY <1>2, <2>4, <3>1 DEF ScanMarked
    <3>3. Scanned'
      BY <2>1, <2>2, <2>4, <3>1, <3>2
         DEF Scanned, AtMostOne, PagesOf, ValidEmpty, Pages, NoPage
    <3> QED
      BY <2>1, <3>2, <3>3 DEF HandleMatchesFlash
  <2> QED
    BY <1>2, <2>3, <2>4 DEF ScanMarked
<1>3. CASE ScanUnmarked
  <2>1. /\ pc = "scan" /\ pc' = pc /\ cur' = cur + 1 /\ cur \in Pages
        /\ active' = active /\ receiving' = receiving
        /\ flash[cur].status \in {"erased", "other"}
        /\ active \in Pages \cup {NoPage} /\ receiving \in Pages \cup {NoPage}
    BY <1>0, <1>3, EepromAssumption DEF ScanUnmarked, TypeOK, IndexOK, Pages
  <2>2. errors = 0 /\ flash' = [flash EXCEPT ![cur] = ErasedPage]
    <3>1. CASE ValidEmpty(cur)
      BY <1>0, <1>3, <2>1, <3>1 DEF ScanUnmarked, ValidEmpty, TypeOK
    <3>2. CASE ~ValidEmpty(cur)
      <4>1. PICK ok \in BOOLEAN : ErasePage(ok, cur) /\ Outcome(ok)
        BY <1>3, <3>2 DEF ScanUnmarked
      <4>2. ok /\ errors = 0
        BY <1>0, <4>1, NoError DEF TypeOK
      <4> QED
        BY <4>1, <4>2 DEF ErasePage
    <3> QED
      BY <3>1, <3>2
  <2>3. Scanned
    BY <2>1, <2>2 DEF HandleMatchesFlash
  <2>4. ErasedPage.status = "erased"
    BY DEF ErasedPage
  <2>5. /\ flash'[cur] = ErasedPage
        /\ \A p \in Pages : p # cur => flash'[p] = flash[p]
    BY <1>0, <2>1, <2>2 DEF TypeOK
  <2>6. Scanned'
    BY <2>1, <2>3, <2>4, <2>5
       DEF Scanned, AtMostOne, PagesOf, ValidEmpty, Pages, NoPage
  <2> QED
    BY <2>1, <2>6 DEF HandleMatchesFlash
<1>4. CASE ScanDone
  <2>1. /\ errors = 0 /\ pc = "scan" /\ flash' = flash /\ cur = NumPages
        /\ active \in Pages \cup {NoPage} /\ receiving \in Pages \cup {NoPage}
    BY <1>0, <1>4 DEF ScanDone, TypeOK
  <2>2. Scanned
    BY <2>1 DEF HandleMatchesFlash
  <2>3. \A p \in Pages : /\ flash[p].status = "active" <=> p = active
                         /\ flash[p].status = "receiving" <=> p = receiving
                         /\ p \notin {active, receiving} => ValidEmpty(p)
    BY <2>1, <2>2, EepromAssumption DEF Scanned, Pages
  <2>4. CASE active = NoPage /\ receiving = NoPage
    <3>1. pc' = "format" /\ active' = active /\ receiving' = receiving
      BY <1>4, <2>4 DEF ScanDone, StartFormat
    <3>2. /\ \A p \in PagesOf("active")' : p = active'
          /\ Only("receiving", NoPage)'
          /\ \A p \in Pages : p > cur' => ValidEmpty(p)'
      BY <2>1, <2>3, <2>4, <3>1 DEF PagesOf, Only, ValidEmpty, Pages, NoPage
    <3> QED
      BY <3>1, <3>2 DEF HandleMatchesFlash
  <2>5. CASE receiving = NoPage /\ active # NoPage
    <3>1. pc' = "ready" /\ active' = active /\ receiving' = receiving
      BY <1>4, <2>5 DEF ScanDone
    <3>2. OneInUse'
      BY <2>1, <2>3, <2>5, <3>1 DEF OneInUse, Only, CleanBut, ValidEmpty, Pages, NoPage
    <3> QED
      BY <3>1, <3>2 DEF HandleMatchesFlash
  <2>6. CASE receiving # NoPage /\ active = NoPage
    <3>1. pc' = "adopt" /\ active' = receiving /\ receiving' = NoPage
      BY <1>4, <2>6 DEF ScanDone
    <3>2. /\ Only("active", NoPage)' /\ Only("receiving", active)'
          /\ CleanBut({active})'
      BY <2>1, <2>3, <2>6, <3>1 DEF Only, CleanBut, ValidEmpty, Pages, NoPage
    <3> QED
      BY <3>1, <3>2 DEF HandleMatchesFlash
  <2>7. CASE receiving # NoPage /\ active # NoPage
    <3>1. pc' = "mark" /\ active' = active /\ receiving' = receiving
      BY <1>4, <2>7 DEF ScanDone
    <3>2. /\ Only("active", active)'
          /\ \A p \in PagesOf("receiving")' : p = receiving'
          /\ flash'[receiving'].status = "receiving"
          /\ CleanBut({active, receiving})'
      BY <2>1, <2>3, <2>7, <3>1 DEF PagesOf, Only, CleanBut, ValidEmpty, Pages, NoPage
    <3> QED
      BY <3>1, <3>2 DEF HandleMatchesFlash
  <2> QED
    BY <2>4, <2>5, <2>6, <2>7
<1>5. CASE Adopt
  <2>1. PICK ok \in BOOLEAN : ProgramStatus(ok, active, "active") /\ Outcome(ok)
    BY <1>5 DEF Adopt
  <2>2. ok /\ errors = 0
    BY <1>0, <2>1, NoError DEF TypeOK
  <2>3. flash' = [flash EXCEPT ![active].status = "active"]
    BY <2>1, <2>2 DEF ProgramStatus, AndStatus
  <2>4. /\ pc = "adopt" /\ pc' = "ready" /\ active' = active
        /\ receiving' = receiving /\ active \in Pages
    BY <1>0, <1>5 DEF Adopt, IndexOK
  <2>5. /\ Only("active", NoPage) /\ Only("receiving", active)
        /\ receiving = NoPage /\ CleanBut({active})
    BY <2>2, <2>4 DEF HandleMatchesFlash
  <2>6. /\ flash'[active].status = "active"
        /\ \A p \in Pages : p # active => flash'[p] = flash[p]
    BY <1>0, <2>3, <2>4 DEF TypeOK, PageStates
  <2>7. OneInUse'
    BY <2>4, <2>5, <2>6 DEF OneInUse, Only, CleanBut, ValidEmpty, Pages, NoPage
  <2> QED
    BY <2>4, <2>7 DEF HandleMatchesFlash
<1> QED
  BY <1>1, <1>2, <1>3, <1>4, <1>5 DEF Starting

\* Programming a word or a count changes no mark, and no other page.
LEMMA WordFrame ==
    ASSUME flash \in [Pages -> PageStates], NEW p \in Pages, NEW k, NEW w,
           NEW ok \in BOOLEAN, ProgramWord(ok, p, k, w)
    PROVE  \A q \in Pages : /\ flash'[q].status = flash[q].status
                            /\ q # p => flash'[q] = flash[q]
BY DEF ProgramWord, PageStates

\* The same of an erase count.
LEMMA CountFrame ==
    ASSUME flash \in [Pages -> PageStates], NEW p \in Pages, NEW c,
           NEW ok \in BOOLEAN, ProgramCount(ok, p, c)
    PROVE  \A q \in Pages : /\ flash'[q].status = flash[q].status
                            /\ q # p => flash'[q] = flash[q]
BY DEF ProgramCount, PageStates

\* eeprom_format.
LEMMA FormattingHandle ==
    ASSUME IndInv, HandleMatchesFlash, Formatting, errors' = 0
    PROVE  HandleMatchesFlash'
<1>0. TypeOK /\ IndexOK
  BY DEF IndInv
<1>e. ErasedPage.status = "erased"
  BY DEF ErasedPage
<1>1. CASE FormatErase
  <2>1. /\ pc = "format" /\ cur >= 0 /\ cur \in Pages
        /\ active' = active /\ receiving' = receiving
    BY <1>0, <1>1, EepromAssumption DEF FormatErase, IndexOK, Pages
  <2>2. errors = 0 /\ flash' = [flash EXCEPT ![cur] = ErasedPage]
        /\ cur' = cur - 1 /\ pc' = pc
    <3>1. CASE ValidEmpty(cur)
      BY <1>0, <1>1, <2>1, <3>1 DEF FormatErase, ValidEmpty, TypeOK
    <3>2. CASE ~ValidEmpty(cur)
      <4>1. PICK ok \in BOOLEAN :
               /\ ErasePage(ok, cur) /\ Outcome(ok)
               /\ IF ok THEN cur' = cur - 1 /\ UNCHANGED pc
                        ELSE UNCHANGED cur /\ GiveUpFormat
        BY <1>1, <3>2 DEF FormatErase
      <4>2. ok /\ errors = 0
        BY <1>0, <4>1, NoError DEF TypeOK
      <4> QED
        BY <4>1, <4>2 DEF ErasePage
    <3> QED
      BY <3>1, <3>2
  <2>3. /\ \A p \in PagesOf("active") : p = active
        /\ Only("receiving", NoPage)
        /\ \A p \in Pages : p > cur => ValidEmpty(p)
    BY <2>1, <2>2 DEF HandleMatchesFlash
  <2>4. /\ flash'[cur] = ErasedPage
        /\ \A p \in Pages : p # cur => flash'[p] = flash[p]
    BY <1>0, <2>1, <2>2 DEF TypeOK
  <2>5. /\ \A p \in PagesOf("active")' : p = active'
        /\ Only("receiving", NoPage)'
        /\ \A p \in Pages : p > cur' => ValidEmpty(p)'
    BY <1>e, <2>1, <2>2, <2>3, <2>4 DEF PagesOf, Only, ValidEmpty, Pages, NoPage
  <2> QED
    BY <2>1, <2>2, <2>5 DEF HandleMatchesFlash
<1>2. CASE FormatCount
  <2>1. PICK ok \in BOOLEAN :
           /\ ProgramCount(ok, 0, BitsOf(1)) /\ Outcome(ok)
           /\ pc' = IF ok THEN "formatted" ELSE "ready"
    BY <1>2 DEF FormatCount
  <2>2. ok /\ errors = 0
    BY <1>0, <2>1, NoError DEF TypeOK
  <2>3. /\ pc = "format" /\ cur = -1 /\ pc' = "formatted"
        /\ active' = 0 /\ receiving' = NoPage /\ 0 \in Pages
    BY <1>2, <2>1, <2>2, EepromAssumption DEF FormatCount, Pages
  <2>4. \A p \in Pages : ValidEmpty(p)
    BY <2>2, <2>3 DEF HandleMatchesFlash, Pages
  <2>5. \A q \in Pages : /\ flash'[q].status = flash[q].status
                         /\ q # 0 => flash'[q] = flash[q]
    BY <1>0, <2>1, <2>3, CountFrame DEF TypeOK
  <2>6. flash'[0].status = "erased" /\ CleanBut({0})'
    BY <1>e, <2>3, <2>4, <2>5 DEF CleanBut, ValidEmpty
  <2> QED
    BY <2>3, <2>6 DEF HandleMatchesFlash
<1>3. CASE FormatActivate
  <2>1. PICK ok \in BOOLEAN : ProgramStatus(ok, active, "active") /\ Outcome(ok)
    BY <1>3 DEF FormatActivate
  <2>2. ok /\ errors = 0
    BY <1>0, <2>1, NoError DEF TypeOK
  <2>3. flash' = [flash EXCEPT ![active].status = "active"]
    BY <2>1, <2>2 DEF ProgramStatus, AndStatus
  <2>4. /\ pc = "formatted" /\ pc' = "ready" /\ active' = active
        /\ receiving' = receiving /\ active \in Pages
    BY <1>0, <1>3 DEF FormatActivate, IndexOK
  <2>5. active = 0 /\ receiving = NoPage /\ CleanBut({0})
    BY <2>2, <2>4 DEF HandleMatchesFlash
  <2>6. /\ flash'[active].status = "active"
        /\ \A p \in Pages : p # active => flash'[p] = flash[p]
    BY <1>0, <2>3, <2>4 DEF TypeOK, PageStates
  <2>7. OneInUse'
    BY <1>e, <2>4, <2>5, <2>6
       DEF OneInUse, Only, CleanBut, ValidEmpty, Pages, NoPage
  <2> QED
    BY <2>4, <2>7 DEF HandleMatchesFlash
<1> QED
  BY <1>1, <1>2, <1>3 DEF Formatting

\* A call begins.
LEMMA CallingHandle ==
    ASSUME IndInv, HandleMatchesFlash, Calling, errors' = 0
    PROVE  HandleMatchesFlash'
<1>1. CASE FormatCall
  <2>1. /\ pc = "ready" /\ pc' = "format" /\ cur' = NumPages - 1
        /\ UNCHANGED <<flash, active, receiving, errors>>
    BY <1>1 DEF FormatCall, StartFormat, Idle
  <2>2. OneInUse
    BY <2>1 DEF HandleMatchesFlash
  <2>3. /\ \A p \in PagesOf("active")' : p = active'
        /\ Only("receiving", NoPage)'
        /\ \A p \in Pages : p > cur' => ValidEmpty(p)'
    BY <2>1, <2>2, EepromAssumption DEF OneInUse, PagesOf, Only, Pages
  <2> QED
    BY <2>1, <2>3 DEF HandleMatchesFlash
<1>2. ASSUME NEW ops, Start(ops) PROVE HandleMatchesFlash'
  <2>1. pc' = pc /\ pc = "ready" /\ UNCHANGED <<flash, active, receiving, errors>>
    BY <1>2 DEF Start, Idle
  <2>2. OneInUse
    BY <2>1 DEF HandleMatchesFlash
  <2>3. OneInUse'
    BY <2>1, <2>2 DEF OneInUse, Only, CleanBut, ValidEmpty
  <2> QED
    BY <2>1, <2>3 DEF HandleMatchesFlash
<1>3. \/ FormatCall \/ \E ops : Start(ops)
  BY DEF Calling, WriteCall, WriteArrayLenCall, WriteArrayCall, DeleteCall,
         DeleteArrayCall
<1> QED
  BY <1>1, <1>2, <1>3

\* A transfer starts on a page that is erased.
LEMMA StartTransferHandle ==
    ASSUME TypeOK, OneInUse, active \in Pages, StartTransfer
    PROVE  /\ pc' = "mark" /\ receiving' \in Pages /\ receiving' # active
           /\ ValidEmpty(receiving')
<1>1. receiving = NoPage
  BY DEF OneInUse
<1>2. receiving' = NextPage /\ pc' = IF ValidEmpty(receiving') THEN "mark" ELSE "clean"
  BY <1>1 DEF StartTransfer
<1>3. NextPage \in Pages /\ NextPage # active
  BY EepromAssumption DEF NextPage, Pages
<1>4. ValidEmpty(NextPage)
  BY <1>3 DEF OneInUse, CleanBut
<1> QED
  BY <1>2, <1>3, <1>4

\* eeprom_write up to the transfer.
LEMMA WritingHandle ==
    ASSUME IndInv, HandleMatchesFlash, Writing, errors' = 0
    PROVE  HandleMatchesFlash'
<1>0. TypeOK /\ IndexOK
  BY DEF IndInv
<1>1. CASE WriteSame
  <2>1. pc = "ready" /\ UNCHANGED <<flash, active, receiving, pc, errors>>
    BY <1>1 DEF WriteSame, Running
  <2>2. OneInUse
    BY <2>1 DEF HandleMatchesFlash
  <2>3. OneInUse'
    BY <2>1, <2>2 DEF OneInUse, Only, CleanBut, ValidEmpty
  <2> QED
    BY <2>1, <2>3 DEF HandleMatchesFlash
<1>2. CASE WriteWord
  <2>1. PICK ok \in BOOLEAN :
           /\ Outcome(ok)
           /\ ProgramWord(ok, active, First(Free(active)),
                [va |-> Head(script).va, data |-> Head(script).data])
           /\ IF ok THEN script' = Tail(script) /\ UNCHANGED <<receiving, pc>>
                    ELSE StartTransfer /\ UNCHANGED script
    BY <1>2 DEF WriteWord
  <2>2. ok /\ errors = 0
    BY <1>0, <2>1, NoError DEF TypeOK
  <2>3. /\ pc = "ready" /\ pc' = pc /\ active' = active
        /\ receiving' = receiving /\ active \in Pages
    BY <1>0, <1>2, <2>1, <2>2 DEF WriteWord, Stores, Running, IndexOK
  <2>4. OneInUse
    BY <2>2, <2>3 DEF HandleMatchesFlash
  <2>5. \A q \in Pages : /\ flash'[q].status = flash[q].status
                         /\ q # active => flash'[q] = flash[q]
    BY <1>0, <2>1, <2>3, WordFrame DEF TypeOK
  <2>6. OneInUse'
    BY <2>3, <2>4, <2>5 DEF OneInUse, Only, CleanBut, ValidEmpty
  <2> QED
    BY <2>3, <2>6 DEF HandleMatchesFlash
<1>3. CASE WriteFull
  <2>1. /\ pc = "ready" /\ StartTransfer /\ active \in Pages
        /\ UNCHANGED <<flash, active, errors>>
    BY <1>0, <1>3 DEF WriteFull, Stores, Running, IndexOK
  <2>2. OneInUse
    BY <2>1 DEF HandleMatchesFlash
  <2>3. /\ pc' = "mark" /\ receiving' \in Pages /\ receiving' # active
        /\ ValidEmpty(receiving')
    BY <1>0, <2>1, <2>2, StartTransferHandle
  <2>4. flash[receiving'].status = "erased"
    BY <2>3 DEF ValidEmpty, ErasedPage
  <2>5. /\ Only("active", active)' /\ \A p \in PagesOf("receiving")' : p = receiving'
        /\ flash'[receiving'].status \in {"erased", "receiving"}
        /\ CleanBut({active, receiving})'
    BY <2>1, <2>2, <2>3, <2>4
       DEF OneInUse, Only, PagesOf, CleanBut, ValidEmpty, Pages, NoPage
  <2> QED
    BY <2>3, <2>5 DEF HandleMatchesFlash
<1> QED
  BY <1>1, <1>2, <1>3 DEF Writing

\* Copying a word leaves all marks alone.
LEMMA PutFrame ==
    ASSUME flash \in [Pages -> PageStates], receiving \in Pages, NEW w,
           PutInReceiving(w)
    PROVE  \A q \in Pages : /\ flash'[q].status = flash[q].status
                            /\ q # receiving => flash'[q] = flash[q]
<1>1. CASE Free(receiving) = {}
  BY <1>1 DEF PutInReceiving
<1>2. CASE Free(receiving) # {}
  <2>1. PICK ok \in BOOLEAN : ProgramWord(ok, receiving, First(Free(receiving)), w)
    BY <1>2 DEF PutInReceiving
  <2> QED
    BY <2>1, WordFrame
<1> QED
  BY <1>1, <1>2

\* A step that leaves marks and handle alone keeps a transfer's two pages.
LEMMA TwoInUseFrame ==
    ASSUME TwoInUse, receiving \in Pages, UNCHANGED handle,
           \A q \in Pages : /\ flash'[q].status = flash[q].status
                            /\ q # receiving => flash'[q] = flash[q]
    PROVE  TwoInUse'
BY DEF TwoInUse, Only, CleanBut, ValidEmpty, handle

\* If there has been no error after a value is put into the receiving page,
\* there had been none before.
LEMMA NoErrorPut ==
    ASSUME errors \in 0 .. MaxErrors, NEW w, PutInReceiving(w), errors' = 0
    PROVE  errors = 0
BY NoError DEF PutInReceiving

\* eeprom_page_transfer.
LEMMA TransferHandle ==
    ASSUME IndInv, HandleMatchesFlash, Transfer, errors' = 0
    PROVE  HandleMatchesFlash'
<1>0. TypeOK /\ IndexOK
  BY DEF IndInv
<1>1. CASE TransferClean
  <2>1. PICK ok \in BOOLEAN : Outcome(ok)
    BY <1>1 DEF TransferClean
  <2>2. errors = 0 /\ pc = "clean"
    BY <1>0, <1>1, <2>1, NoError DEF TypeOK, TransferClean
  <2> QED
    BY <2>2 DEF HandleMatchesFlash
<1>2. CASE TransferMark
  <2>1. PICK ok \in BOOLEAN : /\ ProgramStatus(ok, receiving, ReceivingMark)
                              /\ Outcome(ok)
    BY <1>2 DEF TransferMark
  <2>2. ok /\ errors = 0
    BY <1>0, <2>1, NoError DEF TypeOK
  <2>3. /\ pc = "mark" /\ pc' \in {"copy", "new"} /\ UNCHANGED handle
        /\ active \in Pages /\ receiving \in Pages
    BY <1>0, <1>2 DEF TransferMark, IndexOK, handle
  <2>4. /\ Only("active", active) /\ \A p \in PagesOf("receiving") : p = receiving
        /\ flash[receiving].status \in {"erased", "receiving"}
        /\ CleanBut({active, receiving})
    BY <2>2, <2>3 DEF HandleMatchesFlash
  <2>5. flash' = [flash EXCEPT ![receiving].status = "receiving"]
    BY <2>1, <2>2, <2>4 DEF ProgramStatus, AndStatus, ReceivingMark
  <2>6. /\ flash'[receiving].status = "receiving"
        /\ \A p \in Pages : p # receiving => flash'[p] = flash[p]
    BY <1>0, <2>3, <2>5 DEF TypeOK, PageStates
  <2>7. TwoInUse'
    BY <2>3, <2>4, <2>6
       DEF TwoInUse, Only, PagesOf, CleanBut, ValidEmpty, handle
  <2> QED
    BY <2>3, <2>7 DEF HandleMatchesFlash
<1>3. CASE TransferNew
  <2> DEFINE w == [va |-> Head(script).va, data |-> Head(script).data]
  <2>1. /\ PutInReceiving(w) /\ pc = "new" /\ pc' = "copy" /\ UNCHANGED handle
        /\ receiving \in Pages
    BY <1>0, <1>3 DEF TransferNew, IndexOK, handle
  <2> HIDE DEF w
  <2>2. errors = 0
    BY <1>0, <2>1, NoErrorPut DEF TypeOK
  <2>3. TwoInUse
    BY <2>1, <2>2 DEF HandleMatchesFlash
  <2>4. TwoInUse'
    BY <1>0, <2>1, <2>3, PutFrame, TwoInUseFrame DEF TypeOK
  <2> QED
    BY <2>1, <2>4 DEF HandleMatchesFlash
<1>4. CASE TransferCopy
  <2> DEFINE w == flash[active].word[cur]
  <2>1. /\ pc = "copy" /\ pc' = pc /\ UNCHANGED handle /\ receiving \in Pages
        /\ IF Copied(w) THEN PutInReceiving(w) ELSE UNCHANGED <<flash, errors>>
    BY <1>0, <1>4 DEF TransferCopy, IndexOK, handle
  <2> HIDE DEF w
  <2>2. errors = 0
    BY <1>0, <2>1, NoErrorPut DEF TypeOK
  <2>3. TwoInUse
    BY <2>1, <2>2 DEF HandleMatchesFlash
  <2>4. \A q \in Pages : /\ flash'[q].status = flash[q].status
                         /\ q # receiving => flash'[q] = flash[q]
    BY <1>0, <2>1, PutFrame DEF TypeOK
  <2>5. TwoInUse'
    BY <2>1, <2>3, <2>4, TwoInUseFrame
  <2> QED
    BY <2>1, <2>5 DEF HandleMatchesFlash
<1>5. CASE TransferCount
  <2> DEFINE c == BitsOf(EraseCounter + (IF receiving = 0 THEN 1 ELSE 0))
  <2>1. PICK ok \in BOOLEAN :
           /\ Outcome(ok) /\ ProgramCount(ok, receiving, c)
           /\ IF ok THEN pc' = "drop" /\ UNCHANGED booted ELSE EndTransfer
    BY <1>5 DEF TransferCount
  <2> HIDE DEF c
  <2>2. ok /\ errors = 0
    BY <1>0, <2>1, NoError DEF TypeOK
  <2>3. /\ pc = "copy" /\ pc' = "drop" /\ UNCHANGED handle /\ receiving \in Pages
    BY <1>0, <1>5, <2>1, <2>2 DEF TransferCount, IndexOK, handle
  <2>4. TwoInUse
    BY <2>2, <2>3 DEF HandleMatchesFlash
  <2>5. TwoInUse'
    BY <1>0, <2>1, <2>3, <2>4, CountFrame, TwoInUseFrame DEF TypeOK
  <2> QED
    BY <2>3, <2>5 DEF HandleMatchesFlash
<1>6. CASE TransferErase
  <2>1. PICK ok \in BOOLEAN :
           /\ Outcome(ok) /\ ErasePage(ok, active)
           /\ IF ok THEN pc' = "switch" /\ UNCHANGED booted ELSE EndTransfer
    BY <1>6 DEF TransferErase
  <2>2. ok /\ errors = 0
    BY <1>0, <2>1, NoError DEF TypeOK
  <2>3. /\ pc = "drop" /\ pc' = "switch" /\ UNCHANGED handle
        /\ active \in Pages /\ receiving \in Pages
    BY <1>0, <1>6, <2>1, <2>2 DEF TransferErase, IndexOK, handle
  <2>4. TwoInUse
    BY <2>2, <2>3 DEF HandleMatchesFlash
  <2>5. /\ flash'[active] = ErasedPage
        /\ \A p \in Pages : p # active => flash'[p] = flash[p]
    BY <1>0, <2>1, <2>2, <2>3 DEF ErasePage, TypeOK
  <2>6. ErasedPage.status = "erased"
    BY DEF ErasedPage
  <2>7. Only("active", NoPage)' /\ Only("receiving", receiving)'
        /\ CleanBut({receiving})'
    BY <2>3, <2>4, <2>5, <2>6
       DEF TwoInUse, Only, CleanBut, ValidEmpty, handle, Pages, NoPage
  <2> QED
    BY <2>3, <2>7 DEF HandleMatchesFlash
<1>7. CASE TransferSwitch
  <2>1. PICK ok \in BOOLEAN :
           /\ Outcome(ok) /\ ProgramStatus(ok, receiving, "active")
           /\ IF ok THEN SwitchHandle ELSE UNCHANGED handle
    BY <1>7 DEF TransferSwitch
  <2>2. ok /\ errors = 0
    BY <1>0, <2>1, NoError DEF TypeOK
  <2>3. /\ pc = "switch" /\ pc' = "ready" /\ receiving \in Pages
        /\ active' = receiving /\ receiving' = NoPage
    BY <1>0, <1>7, <2>1, <2>2
       DEF TransferSwitch, EndTransfer, SwitchHandle, IndexOK
  <2>4. /\ Only("active", NoPage) /\ Only("receiving", receiving)
        /\ CleanBut({receiving})
    BY <2>2, <2>3 DEF HandleMatchesFlash
  <2>5. flash' = [flash EXCEPT ![receiving].status = "active"]
    BY <2>1, <2>2 DEF ProgramStatus, AndStatus
  <2>6. /\ flash'[receiving].status = "active"
        /\ \A p \in Pages : p # receiving => flash'[p] = flash[p]
    BY <1>0, <2>3, <2>5 DEF TypeOK, PageStates
  <2>7. OneInUse'
    BY <2>3, <2>4, <2>6 DEF OneInUse, Only, CleanBut, ValidEmpty, Pages, NoPage
  <2> QED
    BY <2>3, <2>7 DEF HandleMatchesFlash
<1> QED
  BY <1>1, <1>2, <1>3, <1>4, <1>5, <1>6, <1>7 DEF Transfer

\* eeprom_delete.
LEMMA DeletingHandle ==
    ASSUME IndInv, HandleMatchesFlash, Deleting, errors' = 0
    PROVE  HandleMatchesFlash'
<1>0. TypeOK /\ IndexOK
  BY DEF IndInv
<1>1. /\ pc \in {"ready", "delete"} /\ pc' \in {"ready", "delete"}
      /\ UNCHANGED handle /\ active \in Pages
  BY <1>0 DEF Deleting, DeleteBegin, DeleteWord, DeleteEnd, Running, IndexOK, handle
<1>2. \/ UNCHANGED <<flash, errors>>
      \/ \E ok \in BOOLEAN : ProgramWord(ok, active, cur, Dead) /\ Outcome(ok)
  BY DEF Deleting, DeleteBegin, DeleteWord, DeleteEnd
<1>3. errors = 0 /\ \A q \in Pages : /\ flash'[q].status = flash[q].status
                                     /\ q # active => flash'[q] = flash[q]
  BY <1>0, <1>1, <1>2, NoError, WordFrame DEF TypeOK
<1>4. OneInUse
  BY <1>1, <1>3 DEF HandleMatchesFlash
<1>5. OneInUse'
  BY <1>1, <1>3, <1>4 DEF OneInUse, Only, CleanBut, ValidEmpty, handle
<1> QED
  BY <1>1, <1>5 DEF HandleMatchesFlash

\* Wherever power is lost, at most one page carries each mark.
LEMMA PowerLossHandle ==
    ASSUME IndInv, HandleMatchesFlash, PowerLoss PROVE HandleMatchesFlash'
<1>1. pc \in PCs /\ pc # "off" /\ pc' = "off" /\ UNCHANGED <<flash, errors>>
  BY DEF IndInv, TypeOK, PowerLoss
<1>2. SUFFICES ASSUME errors = 0 PROVE AtMostOne("active") /\ AtMostOne("receiving")
  BY <1>1 DEF HandleMatchesFlash, AtMostOne, PagesOf
<1>3. CASE pc = "scan"
  BY <1>2, <1>3 DEF HandleMatchesFlash, Scanned
<1>4. CASE pc = "formatted"
  <2>1. active = 0 /\ flash[0].status = "erased" /\ CleanBut({0})
    BY <1>2, <1>4 DEF HandleMatchesFlash
  <2> QED
    BY <2>1 DEF CleanBut, ValidEmpty, ErasedPage, AtMostOne, PagesOf
<1>5. CASE pc = "mark"
  BY <1>2, <1>5 DEF HandleMatchesFlash, Only, AtMostOne, PagesOf
<1>6. CASE pc = "format"
  BY <1>2, <1>6 DEF HandleMatchesFlash, Only, AtMostOne, PagesOf
<1>7. CASE pc \in {"adopt", "ready", "delete", "new", "copy", "drop", "switch"}
  <2>1. /\ Only("active", active) \/ Only("active", NoPage)
        /\ \/ Only("receiving", NoPage) \/ Only("receiving", active)
           \/ Only("receiving", receiving)
    BY <1>2, <1>7 DEF HandleMatchesFlash, OneInUse, TwoInUse
  <2> QED
    BY <2>1 DEF Only, AtMostOne, PagesOf
<1> QED
  BY <1>1, <1>2, <1>3, <1>4, <1>5, <1>6, <1>7 DEF PCs, HandleMatchesFlash

\* Every step keeps the handle and the marks in agreement.
LEMMA NextHandle == IndInv /\ HandleMatchesFlash /\ [Next]_vars => HandleMatchesFlash'
<1> SUFFICES ASSUME IndInv, HandleMatchesFlash, [Next]_vars PROVE HandleMatchesFlash'
  OBVIOUS
<1>1. CASE errors' # 0
  BY <1>1 DEF HandleMatchesFlash
<1>2. CASE errors' = 0 /\ Step
  BY <1>2, StartingHandle, FormattingHandle, WritingHandle, TransferHandle,
     DeletingHandle DEF Step
<1>3. CASE errors' = 0 /\ Calling
  BY <1>3, CallingHandle
<1>4. CASE PowerLoss
  BY <1>4, PowerLossHandle
<1>5. CASE UNCHANGED vars
  BY <1>5 DEF vars, HandleMatchesFlash, Scanned, OneInUse, TwoInUse, Only,
              CleanBut, AtMostOne, PagesOf, ValidEmpty
<1> QED
  BY <1>1, <1>2, <1>3, <1>4, <1>5 DEF Next

\* Without errors of the driver the handle agrees with the marks in flash at
\* every step of every function, so eeprom_init never gives up, whenever power
\* was lost, and a transfer only begins on an erased page.
THEOREM HandleAgrees == Spec => []HandleMatchesFlash
<1>1. Init => HandleMatchesFlash
  BY DEF Init, HandleMatchesFlash, AtMostOne, PagesOf, ErasedPage, ForeignPage
<1> QED
  BY <1>1, InitType, NextType, NextHandle, PTL DEF Spec

----------------------------------------------------------------------------
(* Arrays of words, apart from the pages they are in.                      *)

Blank == [k \in Index |-> Empty]
WordArrays == [Index -> Words]

At(w, v) == {k \in Index : w[k].va = v}
Room(w) == {k \in Index : w[k] = Empty}
Value(w, v) == IF At(w, v) = {} THEN None ELSE w[Last(At(w, v))].data
Values(w, v) == {w[k].data : k \in At(w, v)}

\* The words are written one after the other.
InOrder(w) == \A j, k \in Index : j < k /\ w[j] = Empty => w[k] = Empty

\* What a restart makes of an active page a and a receiving page r.
Newer(a, r, v) == {u \in Vars : /\ At(r, u) = {}
                                /\ \E k \in At(a, u) : k > Last(At(a, v))}
Fits(a, r, v) ==
    Cardinality(Index \ Room(r)) + Cardinality(Newer(a, r, v)) < PageWords
Merged(a, r, v) == IF At(r, v) # {} THEN Value(r, v)
                   ELSE IF At(a, v) # {} /\ ~Fits(a, r, v) THEN None
                   ELSE Value(a, v)
Both(a, r, v) == Values(a, v) \cup Values(r, v)

\* There are PageWords words.
LEMMA IndexSize == IsFiniteSet(Index) /\ Cardinality(Index) = PageWords
BY EepromAssumption, FS_Interval DEF Index

\* A variable's words have a last one.
LEMMA LastAt == ASSUME NEW w, NEW v, At(w, v) # {}
                PROVE  /\ Last(At(w, v)) \in Index
                       /\ Last(At(w, v)) \in At(w, v)
                       /\ w[Last(At(w, v))].va = v
                       /\ \A j \in At(w, v) : Last(At(w, v)) >= j
BY LastWord DEF At

\* A place at which everything else ends is the last one.
LEMMA LastIs == ASSUME NEW S \in SUBSET Index, NEW k \in S, \A j \in S : k >= j
                PROVE  Last(S) = k
<1>1. Last(S) \in S /\ \A j \in S : Last(S) >= j
  BY LastWord
<1>2. k \in Index /\ Last(S) \in Index
  BY <1>1
<1>3. k \in Int /\ Last(S) \in Int
  BY <1>2, EepromAssumption DEF Index
<1>4. Last(S) >= k /\ k >= Last(S)
  BY <1>1
<1> QED
  BY <1>3, <1>4

\* Nothing is in a blank page.
LEMMA NothingBlank == /\ Blank \in WordArrays /\ Room(Blank) = Index
                      /\ InOrder(Blank)
                      /\ \A v \in Vars : /\ At(Blank, v) = {} /\ Value(Blank, v) = None
                                         /\ Values(Blank, v) = {}
<1>1. \A v \in Vars : At(Blank, v) = {}
  BY DEF At, Blank, Empty, Vars
<1> QED
  BY <1>1 DEF Blank, WordArrays, Words, Room, InOrder, Value, Values

\* What is read is one of the values that are there.
LEMMA ValueIn == ASSUME NEW w \in WordArrays, NEW v \in Vars
                 PROVE  /\ At(w, v) = {} => Value(w, v) = None /\ Values(w, v) = {}
                        /\ At(w, v) # {} => /\ Value(w, v) \in Values(w, v)
                                            /\ Value(w, v) # None
                        /\ Values(w, v) \subseteq Data
<1>1. \A k \in At(w, v) : w[k].data \in Data
  BY DEF At, WordArrays, Words, Vars, Empty, Dead
<1>2. At(w, v) # {} => Last(At(w, v)) \in At(w, v)
  BY LastAt
<1>3. None \notin Data
  BY DEF None, Data
<1> QED
  BY <1>1, <1>2, <1>3 DEF Value, Values, At

\* As many variables as end at different places.
LEMMA Count == ASSUME NEW w, NEW S \in SUBSET Vars, NEW T \in SUBSET Index,
                      \A u \in S : At(w, u) # {} /\ Last(At(w, u)) \in T
               PROVE  /\ IsFiniteSet(S) /\ IsFiniteSet(T)
                      /\ Cardinality(S) \in Nat /\ Cardinality(T) \in Nat
                      /\ Cardinality(S) <= Cardinality(T)
<1> DEFINE f == [u \in S |-> Last(At(w, u))]
<1>1. f \in [S -> T]
  OBVIOUS
<1>2. \A u \in S : w[f[u]].va = u
  BY LastAt
<1>3. f \in Injection(S, T)
  <2> HIDE DEF f
  <2>1. \A u, x \in S : f[u] = f[x] => u = x
    BY <1>2
  <2> QED
    BY <1>1, <2>1 DEF Injection, IsInjective
<1>4. IsFiniteSet(T)
  BY IndexSize, FS_Subset
<1> HIDE DEF f
<1>5. IsFiniteSet(S) /\ Cardinality(S) <= Cardinality(T)
  BY <1>3, <1>4, FS_Injection
<1> QED
  BY <1>4, <1>5, FS_CardinalityType

\* A blank page has room for everything.
LEMMA FitsBlank == ASSUME NEW a, NEW v \in Vars, At(a, v) # {}
                   PROVE  Fits(a, Blank, v)
<1> DEFINE N == Newer(a, Blank, v)
           last == Last(At(a, v))
           T == Index \ {last}
<1>1. last \in Index
  BY LastAt
<1>2. Cardinality(T) = PageWords - 1
  BY <1>1, IndexSize, FS_RemoveElement
<1>3. \A u \in N : At(a, u) # {} /\ Last(At(a, u)) \in T
  <2> SUFFICES ASSUME NEW u \in N PROVE At(a, u) # {} /\ Last(At(a, u)) \in T
    OBVIOUS
  <2>1. PICK k \in At(a, u) : k > last
    BY DEF Newer
  <2>2. Last(At(a, u)) \in Index /\ Last(At(a, u)) >= k
    BY <2>1, LastAt
  <2> QED
    BY <1>1, <2>1, <2>2 DEF Index, At
<1>4. N \in SUBSET Vars
  BY DEF Newer
<1>5. Cardinality(N) <= Cardinality(T) /\ Cardinality(N) \in Nat
  <2> HIDE DEF N, T
  <2>1. T \in SUBSET Index
    BY DEF T
  <2> QED
    BY <1>3, <1>4, <2>1, Count
<1>6. Cardinality(Index \ Room(Blank)) = 0
  <2>1. Index \ Room(Blank) = {}
    BY NothingBlank
  <2> QED
    BY <2>1, FS_EmptySet
<1> QED
  BY <1>2, <1>5, <1>6, EepromAssumption DEF Fits

\* One page and a blank one are read as the one, whichever it is.
LEMMA MergedBlank == ASSUME NEW w, NEW v \in Vars
                     PROVE  /\ Merged(w, Blank, v) = Value(w, v)
                            /\ Merged(Blank, w, v) = Value(w, v)
                            /\ Both(w, Blank, v) = Values(w, v)
                            /\ Both(Blank, w, v) = Values(w, v)
<1>1. At(Blank, v) = {} /\ Value(Blank, v) = None /\ Values(Blank, v) = {}
  BY NothingBlank
<1>2. At(w, v) # {} => Fits(w, Blank, v)
  BY FitsBlank
<1>3. At(w, v) = {} => Value(w, v) = None
  BY DEF Value
<1> QED
  BY <1>1, <1>2, <1>3 DEF Merged, Both

----------------------------------------------------------------------------
(* Changes of an array of words.                                           *)

\* A value written into the first free word.
Put(w, v, d) == [w EXCEPT ![First(Room(w))] = [va |-> v, data |-> d]]

\* The value is the one read from now on; nothing else changes.
LEMMA PutEffect ==
    ASSUME NEW w \in WordArrays, InOrder(w), Room(w) # {},
           NEW v \in Vars, NEW d \in Data
    PROVE  /\ Put(w, v, d) \in WordArrays /\ InOrder(Put(w, v, d))
           /\ Room(Put(w, v, d)) = Room(w) \ {First(Room(w))}
           /\ At(Put(w, v, d), v) # {}
           /\ Value(Put(w, v, d), v) = d
           /\ Values(Put(w, v, d), v) = Values(w, v) \cup {d}
           /\ \A u \in Vars \ {v} : /\ At(Put(w, v, d), u) = At(w, u)
                                    /\ Value(Put(w, v, d), u) = Value(w, u)
                                    /\ Values(Put(w, v, d), u) = Values(w, u)
<1> DEFINE k == First(Room(w))
           n == Put(w, v, d)
           new == [va |-> v, data |-> d]
<1>1. k \in Room(w) /\ \A j \in Room(w) : k <= j
  BY FirstWord DEF Room
<1>2. k \in Index /\ w[k] = Empty /\ \A j \in Index : j < k <=> w[j] # Empty
  <2>1. k \in Index /\ w[k] = Empty
    BY <1>1 DEF Room
  <2>2. ASSUME NEW j \in Index, w[j] # Empty PROVE j < k
    <3>1. j # k /\ ~(k < j)
      BY <2>1, <2>2 DEF InOrder
    <3> QED
      BY <2>1, <3>1, EepromAssumption DEF Index
  <2>3. ASSUME NEW j \in Index, w[j] = Empty PROVE ~(j < k)
    BY <1>1, <2>1, <2>3, EepromAssumption DEF Room, Index
  <2> QED
    BY <2>1, <2>2, <2>3
<1>3. new \in Words /\ new # Empty /\ new.va = v /\ new.data = d
  BY DEF Words, Empty, Vars
<1> HIDE DEF new, k
<1>4. n = [w EXCEPT ![k] = new]
  BY DEF Put, new, k
<1> HIDE DEF n
<1>5. /\ n \in WordArrays /\ n[k] = new
      /\ \A j \in Index : j # k => n[j] = w[j]
  BY <1>2, <1>3, <1>4 DEF WordArrays
<1>6. InOrder(n)
  BY <1>2, <1>3, <1>5, EepromAssumption DEF InOrder, Index
<1>7. Room(n) = Room(w) \ {k}
  BY <1>2, <1>3, <1>5 DEF Room
<1>8. \A u \in Vars : w[k].va # u
  BY <1>2 DEF Empty, Vars
<1>9. At(n, v) = At(w, v) \cup {k}
  BY <1>2, <1>3, <1>5 DEF At
<1>10. Last(At(n, v)) = k
  <2>1. \A j \in At(w, v) : k >= j
    <3>1. \A j \in At(w, v) : j \in Index /\ w[j] # Empty
      BY DEF At, Empty, Vars
    <3> QED
      BY <1>2, <3>1, EepromAssumption DEF Index
  <2>2. k >= k /\ k \in At(n, v) /\ At(n, v) \in SUBSET Index
    BY <1>2, <1>9, EepromAssumption DEF At, Index
  <2> QED
    BY <1>9, <2>1, <2>2, LastIs
<1>11. Value(n, v) = d
  BY <1>3, <1>5, <1>9, <1>10 DEF Value
<1>12. Values(n, v) = Values(w, v) \cup {d}
  <2>1. \A j \in At(w, v) : n[j] = w[j]
    BY <1>5, <1>8 DEF At
  <2> QED
    BY <1>3, <1>5, <1>9, <2>1 DEF Values
<1>13. ASSUME NEW u \in Vars \ {v}
       PROVE  At(n, u) = At(w, u) /\ Value(n, u) = Value(w, u) /\ Values(n, u) = Values(w, u)
  <2>1. \A j \in Index : j # k => n[j] = w[j]
    BY <1>5
  <2>2. n[k].va # u /\ w[k].va # u
    BY <1>3, <1>5, <1>8
  <2>3. At(n, u) = At(w, u) /\ \A j \in At(w, u) : n[j] = w[j]
    <3>1. \A j \in Index : n[j].va = u <=> w[j].va = u
      BY <2>1, <2>2, Zenon
    <3>2. \A j \in Index : w[j].va = u => n[j] = w[j]
      BY <2>1, <2>2, Zenon
    <3> QED
      BY <3>1, <3>2 DEF At
  <2>4. At(w, u) # {} => Last(At(w, u)) \in At(w, u)
    BY LastAt
  <2> QED
    BY <2>3, <2>4 DEF Value, Values
<1> QED
  BY <1>5, <1>6, <1>7, <1>9, <1>11, <1>12, <1>13 DEF n, k

\* A copy that is struck out: the variable has one of its other values.
LEMMA StruckOut ==
    ASSUME NEW w \in WordArrays, InOrder(w), NEW v \in Vars, NEW k \in At(w, v),
           NEW n \in WordArrays, n[k] = Dead, \A j \in Index \ {k} : n[j] = w[j]
    PROVE  /\ InOrder(n)
           /\ At(n, v) = At(w, v) \ {k}
           /\ Values(n, v) \subseteq Values(w, v)
           /\ \A u \in Vars \ {v} :
                 /\ Value(n, u) = Value(w, u)
                 /\ Values(n, u) = Values(w, u)
<1>1. k \in Index /\ w[k].va = v /\ w[k] # Empty
  BY DEF At, Empty, Vars
<1>2. Dead \in Words /\ Dead # Empty /\ Dead.va \notin Vars
  BY DEF Words, Dead, Empty, Vars
<1>3. n[k] = Dead /\ \A j \in Index : j # k => n[j] = w[j]
  OBVIOUS
<1>4. InOrder(n)
  BY <1>1, <1>2, <1>3 DEF InOrder
<1>5. At(n, v) = At(w, v) \ {k}
  BY <1>1, <1>2, <1>3 DEF At
<1>6. Values(n, v) \subseteq Values(w, v)
  <2>1. \A j \in At(n, v) : n[j] = w[j]
    BY <1>2, <1>3 DEF At
  <2> QED
    BY <1>5, <2>1 DEF Values
<1>7. ASSUME NEW u \in Vars \ {v}
      PROVE  Value(n, u) = Value(w, u) /\ Values(n, u) = Values(w, u)
  <2>1. At(n, u) = At(w, u) /\ \A j \in At(w, u) : n[j] = w[j]
    BY <1>1, <1>2, <1>3 DEF At
  <2>2. At(w, u) # {} => Last(At(w, u)) \in At(w, u)
    BY LastAt
  <2> QED
    BY <2>1, <2>2 DEF Value, Values
<1> QED
  BY <1>3, <1>4, <1>5, <1>6, <1>7

\* Variables in use do not outnumber the words in use.
LEMMA LiveFits ==
    ASSUME NEW w \in WordArrays, Room(w) # {}
    PROVE  /\ IsFiniteSet({u \in Vars : At(w, u) # {}})
           /\ Cardinality({u \in Vars : At(w, u) # {}}) < PageWords
<1> DEFINE L == {u \in Vars : At(w, u) # {}}
           T == Index \ Room(w)
<1>1. PICK k : k \in Room(w) /\ k \in Index
  BY DEF Room
<1>2. /\ IsFiniteSet(Index \ {k}) /\ Cardinality(Index \ {k}) = PageWords - 1
  BY <1>1, IndexSize, FS_RemoveElement
<1>3. \A u \in L : At(w, u) # {} /\ Last(At(w, u)) \in Index \ {k}
  <2>1. \A u \in Vars : w[k].va # u
    BY <1>1 DEF Room, Empty, Vars
  <2> QED
    BY <2>1, LastAt
<1>4. L \in SUBSET Vars /\ Index \ {k} \in SUBSET Index
  OBVIOUS
<1> HIDE DEF L
<1>5. /\ IsFiniteSet(L) /\ Cardinality(L) \in Nat
      /\ Cardinality(L) <= Cardinality(Index \ {k})
  BY <1>3, <1>4, Count
<1>6. Cardinality(L) < PageWords
  BY <1>2, <1>5, EepromAssumption
<1> QED
  BY <1>5, <1>6 DEF L

\* A step of eeprom_page_write that uses one more word.
LEMMA UsedMore ==
    ASSUME NEW r \in WordArrays, InOrder(r), Room(r) # {}, NEW v \in Vars, NEW d \in Data
    PROVE  /\ Cardinality(Index \ Room(r)) \in Nat
           /\ Cardinality(Index \ Room(r)) < PageWords
           /\ Cardinality(Index \ Room(Put(r, v, d))) = Cardinality(Index \ Room(r)) + 1
<1> DEFINE k == First(Room(r))
           U == Index \ Room(r)
<1>1. k \in Room(r) /\ k \in Index
  BY FirstWord DEF Room
<1>2. Room(Put(r, v, d)) = Room(r) \ {k}
  BY PutEffect
<1>3. Index \ Room(Put(r, v, d)) = U \cup {k}
  BY <1>1, <1>2
<1>4. U \in SUBSET Index /\ k \notin U /\ U # Index
  BY <1>1
<1> HIDE DEF U, k
<1>5. /\ IsFiniteSet(U) /\ Cardinality(U) <= PageWords
      /\ Cardinality(U) # PageWords
  BY <1>4, IndexSize, FS_Subset
<1>6. Cardinality(U) \in Nat
  BY <1>5, FS_CardinalityType
<1>7. Cardinality(U \cup {k}) = Cardinality(U) + 1
  BY <1>4, <1>5, FS_AddElement
<1>8. Cardinality(U) < PageWords
  BY <1>5, <1>6, EepromAssumption
<1> QED
  BY <1>3, <1>6, <1>7, <1>8 DEF U

\* eeprom_page_transfer puts the new value first: when the other variables fill
\* a page one of them is lost, otherwise none.
LEMMA NewEffect ==
    ASSUME NEW a \in WordArrays, NEW v \in Vars, NEW d \in Data
    PROVE  LET r == Put(Blank, v, d)
               L == {u \in Vars : At(a, u) # {}}
           IN  /\ Merged(a, r, v) = d /\ Both(a, r, v) = Values(a, v) \cup {d}
               /\ \A u \in Vars \ {v} : Both(a, r, u) = Values(a, u)
               /\ IF v \notin L /\ Cardinality(L) >= PageWords
                  THEN \E x \in L : /\ Merged(a, r, x) = None
                                    /\ \A u \in Vars \ {v, x} :
                                          Merged(a, r, u) = Value(a, u)
                  ELSE \A u \in Vars \ {v} : Merged(a, r, u) = Value(a, u)
<1> DEFINE r == Put(Blank, v, d)
           L == {u \in Vars : At(a, u) # {}}
           N(u) == Newer(a, r, u)
<1>0. Room(Blank) # {} /\ Blank \in WordArrays /\ InOrder(Blank) /\ Room(Blank) = Index
  <2>1. 1 \in Index
    BY EepromAssumption DEF Index
  <2> QED
    BY <2>1, NothingBlank
<1>1. /\ At(r, v) # {} /\ Value(r, v) = d /\ Values(r, v) = {d}
      /\ \A u \in Vars \ {v} : At(r, u) = {} /\ Values(r, u) = {}
  <2>1. /\ At(r, v) # {} /\ Value(r, v) = d /\ Values(r, v) = Values(Blank, v) \cup {d}
        /\ \A u \in Vars \ {v} : At(r, u) = At(Blank, u) /\ Values(r, u) = Values(Blank, u)
    BY <1>0, PutEffect
  <2>2. \A u \in Vars : At(Blank, u) = {} /\ Values(Blank, u) = {}
    BY NothingBlank
  <2> QED
    BY <2>1, <2>2
<1>2. Cardinality(Index \ Room(r)) = 1
  <2>1. Index \ Room(Blank) = {}
    BY <1>0
  <2>2. Cardinality(Index \ Room(Blank)) = 0
    BY <2>1, FS_EmptySet
  <2>3. Cardinality(Index \ Room(r)) = Cardinality(Index \ Room(Blank)) + 1
    BY <1>0, UsedMore
  <2> QED
    BY <2>2, <2>3
<1> HIDE DEF r
<1>3. /\ Merged(a, r, v) = d /\ Both(a, r, v) = Values(a, v) \cup {d}
      /\ \A u \in Vars \ {v} : Both(a, r, u) = Values(a, u)
  BY <1>1 DEF Merged, Both
<1>4. \A u \in Vars \ {v} :
         Merged(a, r, u) = IF u \in L /\ ~Fits(a, r, u) THEN None ELSE Value(a, u)
  BY <1>1 DEF Merged
<1>5. \A u \in L : Fits(a, r, u) <=> 1 + Cardinality(N(u)) < PageWords
  BY <1>2 DEF Fits
<1>6. /\ IsFiniteSet(L) /\ Cardinality(L) \in Nat /\ Cardinality(L) <= PageWords
  <2>1. \A u \in L : At(a, u) # {} /\ Last(At(a, u)) \in Index
    BY LastAt
  <2>2. L \in SUBSET Vars /\ Index \in SUBSET Index
    OBVIOUS
  <2> HIDE DEF L
  <2> QED
    BY <2>1, <2>2, Count, IndexSize
<1>7. \A u \in L : N(u) \subseteq L \ {u, v}
  <2> SUFFICES ASSUME NEW u \in L, NEW x \in N(u) PROVE x \in L \ {u, v}
    OBVIOUS
  <2>1. x \in Vars /\ At(r, x) = {} /\ \E k \in At(a, x) : k > Last(At(a, u))
    BY DEF Newer
  <2>2. x # v
    BY <1>1, <2>1
  <2>3. x # u
    <3> SUFFICES ASSUME x = u PROVE FALSE
      OBVIOUS
    <3>1. PICK k \in At(a, u) : k > Last(At(a, u))
      BY <2>1
    <3>2. Last(At(a, u)) >= k /\ Last(At(a, u)) \in Index /\ k \in Index
      BY <3>1, LastAt DEF At
    <3> QED
      BY <3>1, <3>2, EepromAssumption DEF Index
  <2> QED
    BY <2>1, <2>2, <2>3
<1>8. \A u, x \in L : u # x => Last(At(a, u)) # Last(At(a, x))
  BY LastAt
<1> DEFINE last(u) == Last(At(a, u))
<1>9. \A u \in L : last(u) \in Nat /\ last(u) \in At(a, u) /\ \A k \in At(a, u) : k <= last(u)
  <2> SUFFICES ASSUME NEW u \in L
               PROVE  last(u) \in Nat /\ last(u) \in At(a, u) /\ \A k \in At(a, u) : k <= last(u)
    OBVIOUS
  <2>1. last(u) \in Index /\ last(u) \in At(a, u) /\ \A k \in At(a, u) : last(u) >= k
    BY LastAt
  <2> QED
    BY <2>1, EepromAssumption DEF Index, At
\* How many a subset of the variables in use leaves out.
<1>10. ASSUME NEW S \in SUBSET L, NEW x \in L \ S
       PROVE  Cardinality(S) \in Nat /\ Cardinality(S) <= Cardinality(L) - 1
  <2>1. /\ IsFiniteSet(L \ {x}) /\ Cardinality(L \ {x}) = Cardinality(L) - 1
    BY <1>6, FS_RemoveElement
  <2>2. S \in SUBSET (L \ {x})
    OBVIOUS
  <2> HIDE DEF L
  <2> QED
    BY <2>1, <2>2, FS_Subset, FS_CardinalityType
<1>11. ASSUME NEW S \in SUBSET L, NEW x \in L \ S, NEW y \in L \ S, x # y
       PROVE  Cardinality(S) \in Nat /\ Cardinality(S) <= Cardinality(L) - 2
  <2>1. /\ IsFiniteSet(L \ {x}) /\ Cardinality(L \ {x}) = Cardinality(L) - 1
    BY <1>6, FS_RemoveElement
  <2>2. y \in L \ {x}
    BY <1>11
  <2>3. /\ IsFiniteSet((L \ {x}) \ {y})
        /\ Cardinality((L \ {x}) \ {y}) = Cardinality(L) - 2
    <3>1. /\ IsFiniteSet((L \ {x}) \ {y})
          /\ Cardinality((L \ {x}) \ {y}) = Cardinality(L \ {x}) - 1
      <4> HIDE DEF L
      <4> QED
        BY <2>1, <2>2, FS_RemoveElement
    <3> QED
      BY <1>6, <2>1, <3>1
  <2>4. S \in SUBSET ((L \ {x}) \ {y})
    OBVIOUS
  <2> HIDE DEF L
  <2> QED
    BY <2>3, <2>4, FS_Subset, FS_CardinalityType
<1>12. CASE v \notin L /\ Cardinality(L) >= PageWords
  <2>1. Cardinality(L) = PageWords /\ L # {}
    <3>1. Cardinality(L) = PageWords
      BY <1>6, <1>12, EepromAssumption
    <3> HIDE DEF L
    <3> QED
      BY <3>1, FS_EmptySet, EepromAssumption
  <2>2. PICK x \in L : \A u \in L : last(x) <= last(u)
    <3> DEFINE D == {last(u) : u \in L}
    <3>1. D \subseteq Nat /\ D # {}
      BY <1>9, <2>1
    <3>2. PICK n \in D : \A m \in D : n <= m
      <4> HIDE DEF D
      <4> QED
        BY <3>1, Least
    <3> QED
      BY <3>2
  <2>3. Merged(a, r, x) = None
    <3>1. N(x) = L \ {x}
      <4>1. ASSUME NEW u \in L \ {x} PROVE u \in N(x)
        <5>1. last(u) > last(x) /\ last(u) \in At(a, u)
          <6>1. last(u) # last(x) /\ last(x) <= last(u)
            BY <1>8, <2>2
          <6>2. last(u) \in Nat /\ last(x) \in Nat /\ last(u) \in At(a, u)
            BY <1>9
          <6> QED
            BY <6>1, <6>2
        <5>2. u \in Vars /\ At(r, u) = {}
          BY <1>1, <1>12
        <5> QED
          BY <5>1, <5>2 DEF Newer
      <4> QED
        BY <1>7, <4>1
    <3>2. Cardinality(N(x)) = PageWords - 1
      BY <1>6, <2>1, <3>1, FS_RemoveElement
    <3>3. ~Fits(a, r, x)
      BY <1>5, <3>2, EepromAssumption
    <3> QED
      BY <1>4, <1>12, <3>3
  <2>4. \A u \in Vars \ {v, x} : Merged(a, r, u) = Value(a, u)
    <3> SUFFICES ASSUME NEW u \in Vars \ {v, x}, u \in L PROVE Fits(a, r, u)
      BY <1>4
    <3>1. N(u) \in SUBSET L /\ u \notin N(u)
      BY <1>7
    <3>2. x \notin N(u)
      <4> SUFFICES ASSUME NEW k \in At(a, x), k > last(u) PROVE FALSE
        BY DEF Newer
      <4>1. k <= last(x) /\ last(x) <= last(u) /\ last(x) \in Nat /\ last(u) \in Nat
        BY <1>9, <2>2
      <4>2. k \in Nat
        BY EepromAssumption DEF At, Index
      <4> QED
        BY <4>1, <4>2
    <3>3. Cardinality(N(u)) \in Nat /\ Cardinality(N(u)) <= PageWords - 2
      BY <1>11, <2>1, <3>1, <3>2
    <3> QED
      BY <1>5, <3>3, EepromAssumption
  <2> QED
    BY <1>3, <1>12, <2>3, <2>4 DEF r
<1>13. CASE ~(v \notin L /\ Cardinality(L) >= PageWords)
  <2>1. \A u \in Vars \ {v} : Merged(a, r, u) = Value(a, u)
    <3> SUFFICES ASSUME NEW u \in Vars \ {v}, u \in L PROVE Fits(a, r, u)
      BY <1>4
    <3>1. N(u) \in SUBSET L /\ u \notin N(u) /\ v \notin N(u)
      BY <1>7
    <3>2. CASE v \in L
      <4>1. Cardinality(N(u)) \in Nat /\ Cardinality(N(u)) <= Cardinality(L) - 2
        BY <1>11, <3>1, <3>2
      <4> QED
        BY <1>5, <1>6, <4>1, EepromAssumption
    <3>3. CASE Cardinality(L) < PageWords
      <4>1. Cardinality(N(u)) \in Nat /\ Cardinality(N(u)) <= Cardinality(L) - 1
        BY <1>10, <3>1
      <4> QED
        BY <1>5, <1>6, <3>3, <4>1, EepromAssumption
    <3> QED
      BY <1>6, <1>13, <3>2, <3>3, EepromAssumption
  <2> QED
    BY <1>3, <1>13, <2>1 DEF r
<1> QED
  BY <1>12, <1>13

\* The words of the active page above n have been looked at by the transfer.
Above(a, r, n) == \A j \in Index : j > n /\ a[j].va \in Vars =>
                     At(r, a[j].va) # {} \/ Room(r) = {}

\* Newest first, a variable that is copied is what a restart would have copied.
LEMMA CopyEffect ==
    ASSUME NEW a \in WordArrays, NEW r \in WordArrays, InOrder(r), Room(r) # {},
           NEW k \in Index, a[k].va \in Vars, At(r, a[k].va) = {}, Above(a, r, k)
    PROVE  \A u \in Vars :
              /\ Merged(a, Put(r, a[k].va, a[k].data), u) = Merged(a, r, u)
              /\ Both(a, Put(r, a[k].va, a[k].data), u) = Both(a, r, u)
<1> DEFINE v == a[k].va
           d == a[k].data
           n == Put(r, v, d)
<1>0. v \in Vars /\ d \in Data /\ At(r, v) = {}
  BY DEF WordArrays, Words, Empty, Dead, Vars
<1>1. /\ At(n, v) # {} /\ Value(n, v) = d /\ Values(n, v) = Values(r, v) \cup {d}
      /\ \A u \in Vars \ {v} : /\ At(n, u) = At(r, u) /\ Value(n, u) = Value(r, u)
                               /\ Values(n, u) = Values(r, u)
  BY <1>0, PutEffect
<1>2. /\ Cardinality(Index \ Room(r)) \in Nat
      /\ Cardinality(Index \ Room(r)) < PageWords
      /\ Cardinality(Index \ Room(n)) = Cardinality(Index \ Room(r)) + 1
  BY <1>0, UsedMore
<1>3. \A j \in Index : j > k /\ a[j].va \in Vars => At(r, a[j].va) # {}
  BY DEF Above
<1>4. k \in At(a, v) /\ k \in Nat
  BY EepromAssumption DEF At, Index
<1>5. \A u \in Vars : At(r, u) = {} => \A j \in At(a, u) : j <= k /\ j \in Nat
  BY <1>3, <1>4, EepromAssumption DEF At, Index
<1>6. Last(At(a, v)) = k
  <2>1. \A j \in At(a, v) : k >= j
    BY <1>0, <1>4, <1>5
  <2> QED
    BY <1>4, <2>1, LastIs DEF At
<1>7. Value(a, v) = d
  BY <1>4, <1>6 DEF Value
<1> HIDE DEF n
<1>8. Merged(a, r, v) = d
  <2>1. Newer(a, r, v) = {}
    BY <1>4, <1>5, <1>6 DEF Newer
  <2>2. Cardinality(Newer(a, r, v)) = 0
    BY <2>1, FS_EmptySet
  <2>3. Fits(a, r, v)
    BY <1>2, <2>2, EepromAssumption DEF Fits
  <2> QED
    BY <1>0, <1>7, <2>3 DEF Merged
<1>9. Merged(a, n, v) = d
  BY <1>1 DEF Merged
<1>10. ASSUME NEW u \in Vars \ {v}, At(r, u) = {}, At(a, u) # {}
       PROVE  Fits(a, n, u) <=> Fits(a, r, u)
  <2> DEFINE N == Newer(a, r, u)
             last == Last(At(a, u))
  <2>1. Newer(a, n, u) = N \ {v}
    BY <1>1 DEF Newer
  <2>2. last \in At(a, u) /\ last < k
    <3>1. last \in At(a, u)
      BY <1>10, LastAt
    <3>2. last <= k /\ last \in Nat /\ last # k
      BY <1>5, <1>10, <3>1 DEF At
    <3> QED
      BY <1>4, <3>1, <3>2
  <2>3. v \in N
    BY <1>0, <1>4, <2>2 DEF Newer
  <2>4. \A x \in N : At(a, x) # {} /\ Last(At(a, x)) \in Index
    BY LastAt DEF Newer
  <2>5. N \in SUBSET Vars /\ Index \in SUBSET Index
    BY DEF Newer
  <2> HIDE DEF N, last
  <2>6. IsFiniteSet(N) /\ Cardinality(N) \in Nat
    BY <2>4, <2>5, Count
  <2>7. Cardinality(N \ {v}) = Cardinality(N) - 1
    BY <2>3, <2>6, FS_RemoveElement
  <2>8. Fits(a, n, u) <=> Cardinality(Index \ Room(n)) + Cardinality(N \ {v}) < PageWords
    BY <2>1 DEF Fits
  <2>9. Fits(a, r, u) <=> Cardinality(Index \ Room(r)) + Cardinality(N) < PageWords
    BY DEF Fits, N
  <2> QED
    BY <1>2, <2>6, <2>7, <2>8, <2>9, EepromAssumption
<1>11. \A u \in Vars \ {v} : Merged(a, n, u) = Merged(a, r, u)
  BY <1>1, <1>10 DEF Merged
<1>12. d \in Values(a, v)
  BY <1>4 DEF Values
<1>13. \A u \in Vars : Both(a, n, u) = Both(a, r, u)
  BY <1>1, <1>12 DEF Both
<1> QED
  BY <1>8, <1>9, <1>11, <1>13 DEF n

\* What the receiving page has after the transfer is all a restart would take.
LEMMA EraseEffect ==
    ASSUME NEW a \in WordArrays, NEW r \in WordArrays, Above(a, r, 0), NEW v \in Vars
    PROVE  Merged(a, r, v) = Value(r, v)
<1>1. CASE At(r, v) # {}
  BY <1>1 DEF Merged
<1>2. CASE At(r, v) = {} /\ At(a, v) = {}
  BY <1>2 DEF Merged, Value
<1>3. CASE At(r, v) = {} /\ At(a, v) # {}
  <2>1. PICK j \in Index : a[j].va = v
    BY <1>3 DEF At
  <2>2. Room(r) = {}
    BY <1>3, <2>1, EepromAssumption DEF Above, Index
  <2>3. Cardinality(Index \ Room(r)) = PageWords
    <3>1. Index \ Room(r) = Index
      BY <2>2
    <3> QED
      BY <3>1, IndexSize
  <2>4. Cardinality(Newer(a, r, v)) \in Nat
    <3>1. \A x \in Newer(a, r, v) : At(a, x) # {} /\ Last(At(a, x)) \in Index
      BY LastAt DEF Newer
    <3>2. Newer(a, r, v) \in SUBSET Vars /\ Index \in SUBSET Index
      BY DEF Newer
    <3> QED
      BY <3>1, <3>2, Count
  <2>5. ~Fits(a, r, v)
    BY <2>3, <2>4, EepromAssumption DEF Fits
  <2> QED
    BY <1>3, <2>5 DEF Merged, Value
<1> QED
  BY <1>1, <1>2, <1>3

----------------------------------------------------------------------------
(* The pages of the flash.                                                 *)

\* The words of a page of flash f, or of none, and the page with a mark.
WordsOf(f, p) == IF p = NoPage THEN Blank ELSE f[p].word
Marks(f, s, q) == \A p \in Pages : f[p].status = s <=> p = q
MayBePage == Pages \cup {NoPage}

\* What a restart recovers is what the pages marked active and receiving hold.
Mapped == \A A, R \in MayBePage :
             /\ flash \in [Pages -> PageStates]
             /\ Marks(flash, "active", A) /\ Marks(flash, "receiving", R)
             => \A v \in Vars :
                   /\ Durable(v) = Merged(WordsOf(flash, A), WordsOf(flash, R), v)
                   /\ Copies(v) = Both(WordsOf(flash, A), WordsOf(flash, R), v)

\* A page that is there is found.
LEMMA MarkedPage ==
    ASSUME NEW A \in MayBePage, NEW s, Marks(flash, s, A)
    PROVE  /\ A = NoPage => PagesOf(s) = {}
           /\ A # NoPage => PagesOf(s) = {A} /\ (CHOOSE p \in Pages : flash[p].status = s) = A
<1>1. NoPage \notin Pages
  BY DEF NoPage, Pages
<1> QED
  BY <1>1 DEF Marks, PagesOf, MayBePage

\* The words of a page are an array of words.
LEMMA WordsType == ASSUME NEW f \in [Pages -> PageStates], NEW p \in MayBePage
                   PROVE  WordsOf(f, p) \in WordArrays
BY NothingBlank DEF WordsOf, PageStates, WordArrays, MayBePage

\* Durable and Copies are what the two arrays of words say.
LEMMA MappedHolds == Mapped
<1> SUFFICES ASSUME NEW A \in MayBePage, NEW R \in MayBePage,
                    flash \in [Pages -> PageStates],
                    Marks(flash, "active", A), Marks(flash, "receiving", R), NEW v \in Vars
             PROVE  /\ Durable(v) = Merged(WordsOf(flash, A), WordsOf(flash, R), v)
                    /\ Copies(v) = Both(WordsOf(flash, A), WordsOf(flash, R), v)
  BY DEF Mapped
<1> DEFINE W(p) == WordsOf(flash, p)
<1>1. /\ A = NoPage => ~HasActive
      /\ A # NoPage => HasActive /\ ActivePage = A /\ PagesOf("active") = {A}
  BY MarkedPage DEF HasActive, ActivePage
<1>2. /\ R = NoPage => ~HasReceiving
      /\ R # NoPage => HasReceiving /\ ReceivingPage = R /\ PagesOf("receiving") = {R}
  BY MarkedPage DEF HasReceiving, ReceivingPage
<1>3. \A p \in Pages, u \in Vars :
         /\ Holding(p, u) = At(W(p), u)
         /\ Lookup(p, u) = Value(W(p), u)
         /\ {flash[p].word[k].data : k \in Holding(p, u)} = Values(W(p), u)
  <2>1. \A p \in Pages : W(p) = flash[p].word
    BY DEF WordsOf, Pages, NoPage
  <2> QED
    BY <2>1 DEF Holding, At, Lookup, Value, Values
<1>4. \A p \in Pages : Used(p) = Index \ Room(W(p))
  BY DEF WordsOf, Pages, NoPage, Used, Free, Room
<1>5. W(NoPage) = Blank /\ (A # NoPage => A \in Pages) /\ (R # NoPage => R \in Pages)
  BY DEF WordsOf, MayBePage
<1> HIDE DEF W
<1>6. CASE A = NoPage /\ R = NoPage
  <2>1. Durable(v) = None /\ Copies(v) = {}
    BY <1>1, <1>2, <1>6 DEF Durable, Copies, HasActive, HasReceiving
  <2> QED
    BY <1>5, <1>6, <2>1, MergedBlank, NothingBlank DEF W
<1>7. CASE A # NoPage /\ R = NoPage
  <2>1. Durable(v) = Value(W(A), v)
    BY <1>1, <1>2, <1>3, <1>5, <1>7 DEF Durable
  <2>2. Copies(v) = Values(W(A), v)
    <3>1. PagesOf("active") \cup PagesOf("receiving") = {A}
      BY <1>1, <1>2, <1>7 DEF HasReceiving
    <3> QED
      BY <1>3, <1>5, <1>7, <3>1 DEF Copies
  <2> QED
    BY <1>5, <1>7, <2>1, <2>2, MergedBlank DEF W
<1>8. CASE A = NoPage /\ R # NoPage
  <2>1. Durable(v) = Value(W(R), v)
    BY <1>1, <1>2, <1>3, <1>5, <1>8 DEF Durable
  <2>2. Copies(v) = Values(W(R), v)
    <3>1. PagesOf("active") \cup PagesOf("receiving") = {R}
      BY <1>1, <1>2, <1>8 DEF HasActive
    <3> QED
      BY <1>3, <1>5, <1>8, <3>1 DEF Copies
  <2> QED
    BY <1>5, <1>8, <2>1, <2>2, MergedBlank DEF W
<1>9. CASE A # NoPage /\ R # NoPage
  <2>1. Survives(v) = Fits(W(A), W(R), v)
    <3>1. {u \in Vars : /\ Holding(R, u) = {}
                        /\ \E k \in Holding(A, u) : k > Last(Holding(A, v))}
             = Newer(W(A), W(R), v)
      BY <1>3, <1>5, <1>9 DEF Newer
    <3> QED
      BY <1>1, <1>2, <1>4, <1>5, <1>9, <3>1 DEF Survives, Fits
  <2>2. Durable(v) = Merged(W(A), W(R), v)
    BY <1>1, <1>2, <1>3, <1>5, <1>9, <2>1 DEF Durable, Merged
  <2>3. Copies(v) = Values(W(A), v) \cup Values(W(R), v)
    <3>1. PagesOf("active") \cup PagesOf("receiving") = {A, R}
      BY <1>1, <1>2, <1>9
    <3> QED
      BY <1>3, <1>5, <1>9, <3>1 DEF Copies
  <2> QED
    BY <2>2, <2>3 DEF Both, W
<1> QED
  BY <1>6, <1>7, <1>8, <1>9

\* Also after a step.
LEMMA MappedNext == Mapped'
BY MappedHolds, PTL

\* Both at once, with the pages before and after a step.
LEMMA MappedStep ==
    ASSUME NEW A \in MayBePage, NEW R \in MayBePage,
           NEW B \in MayBePage, NEW Q \in MayBePage,
           flash \in [Pages -> PageStates], flash' \in [Pages -> PageStates],
           Marks(flash, "active", A), Marks(flash, "receiving", R),
           Marks(flash', "active", B), Marks(flash', "receiving", Q)
    PROVE  \A v \in Vars :
              /\ Durable(v) = Merged(WordsOf(flash, A), WordsOf(flash, R), v)
              /\ Copies(v) = Both(WordsOf(flash, A), WordsOf(flash, R), v)
              /\ Durable(v)' = Merged(WordsOf(flash', B), WordsOf(flash', Q), v)
              /\ Copies(v)' = Both(WordsOf(flash', B), WordsOf(flash', Q), v)
<1>1. \A v \in Vars : /\ Durable(v) = Merged(WordsOf(flash, A), WordsOf(flash, R), v)
                      /\ Copies(v) = Both(WordsOf(flash, A), WordsOf(flash, R), v)
  BY MappedHolds DEF Mapped
<1>2. \A v \in Vars : /\ Durable(v)' = Merged(WordsOf(flash', B), WordsOf(flash', Q), v)
                      /\ Copies(v)' = Both(WordsOf(flash', B), WordsOf(flash', Q), v)
  BY MappedNext DEF Mapped, Marks
<1> QED
  BY <1>1, <1>2

----------------------------------------------------------------------------
(* The invariant.                                                          *)

\* The words of every page were written one after the other.
Contiguous == \A p \in Pages : InOrder(flash[p].word)

\* No call runs before the store is open, or while it is formatted.
Waiting == /\ ~booted => script = <<>>
           /\ pc \in {"adopt", "format", "formatted"} => script = <<>>

\* What formatting has erased is blank.
Formats == /\ pc = "format" => booted \/ active = NoPage
           /\ pc = "formatted" => WordsOf(flash, 0) = Blank

\* A transfer starts with a blank page, and has looked at the words above cur.
Transfers ==
    /\ pc = "mark" /\ (flash[receiving].status = "erased" \/ script # <<>>)
          => WordsOf(flash, receiving) = Blank
    /\ pc = "new" => WordsOf(flash, receiving) = Blank /\ cur = PageWords
    /\ pc = "copy" => Above(WordsOf(flash, active), WordsOf(flash, receiving), cur)
    /\ pc = "drop" => Above(WordsOf(flash, active), WordsOf(flash, receiving), 0)

\* No word above cur holds the variable that is deleted.
Deletion == pc = "delete" => /\ Head(script).kind = "delete"
                             /\ \A k \in Index : k > cur =>
                                   flash[active].word[k].va # Head(script).va

StoreInv == Contiguous /\ Waiting /\ Formats /\ Transfers /\ Deletion

\* Proved of the emulation alone, when the driver reports no error.
Sound == IndInv /\ HandleMatchesFlash /\ errors = 0

Simulated == [Store!Next]_(Store!vars)

\* At every step at most one page carries each of the two marks.
LEMMA MarksExist == ASSUME Sound
                    PROVE  \E A, R \in MayBePage : /\ Marks(flash, "active", A)
                                                   /\ Marks(flash, "receiving", R)
<1>0. TypeOK /\ IndexOK /\ HandleMatchesFlash /\ errors = 0 /\ pc \in PCs
  BY DEF Sound, IndInv, TypeOK
<1>1. AtMostOne("active") /\ AtMostOne("receiving")
      => \E A, R \in MayBePage : Marks(flash, "active", A) /\ Marks(flash, "receiving", R)
  <2>1. \A s : AtMostOne(s) => \E A \in MayBePage : Marks(flash, s, A)
    <3> SUFFICES ASSUME NEW s, AtMostOne(s) PROVE \E A \in MayBePage : Marks(flash, s, A)
      OBVIOUS
    <3>1. CASE PagesOf(s) = {}
      <4>1. Marks(flash, s, NoPage)
        BY <3>1 DEF PagesOf, Marks, NoPage, Pages
      <4> QED
        BY <4>1 DEF MayBePage
    <3>2. CASE PagesOf(s) # {}
      <4>1. PICK A \in PagesOf(s) : TRUE
        BY <3>2
      <4>2. A \in Pages /\ Marks(flash, s, A)
        BY <4>1 DEF AtMostOne, PagesOf, Marks
      <4> QED
        BY <4>2 DEF MayBePage
    <3> QED
      BY <3>1, <3>2
  <2> QED
    BY <2>1
<1>2. CASE pc = "off"
  BY <1>0, <1>1, <1>2 DEF HandleMatchesFlash
<1>3. CASE pc = "scan"
  BY <1>0, <1>1, <1>3 DEF HandleMatchesFlash, Scanned
<1>4. CASE pc = "formatted"
  <2>1. active = 0 /\ flash[0].status = "erased" /\ CleanBut({0})
    BY <1>0, <1>4 DEF HandleMatchesFlash
  <2>2. \A p \in Pages : flash[p].status = "erased"
    BY <2>1 DEF CleanBut, ValidEmpty, ErasedPage
  <2>3. AtMostOne("active") /\ AtMostOne("receiving")
    BY <2>2 DEF AtMostOne, PagesOf
  <2> QED
    BY <1>1, <2>3
<1>5. CASE pc \in {"mark", "format"}
  <2>1. AtMostOne("active") /\ AtMostOne("receiving")
    BY <1>0, <1>5 DEF HandleMatchesFlash, Only, AtMostOne, PagesOf
  <2> QED
    BY <1>1, <2>1
<1>6. CASE pc \in {"adopt", "ready", "delete", "new", "copy", "drop", "switch"}
  <2>1. /\ Only("active", active) \/ Only("active", NoPage)
        /\ \/ Only("receiving", NoPage) \/ Only("receiving", active)
           \/ Only("receiving", receiving)
    BY <1>0, <1>6 DEF HandleMatchesFlash, OneInUse, TwoInUse
  <2>2. AtMostOne("active") /\ AtMostOne("receiving")
    BY <2>1 DEF Only, AtMostOne, PagesOf
  <2> QED
    BY <1>1, <2>2
<1>7. pc \notin {"clean", "wild"}
  BY <1>0 DEF HandleMatchesFlash
<1> QED
  BY <1>0, <1>2, <1>3, <1>4, <1>5, <1>6, <1>7 DEF PCs

\* A step that keeps the words of the marked pages keeps the store.
LEMMA SameWords ==
    ASSUME Sound, flash' \in [Pages -> PageStates],
           \A p \in Pages :
              \/ flash'[p] = flash[p]
              \/ flash'[p].status = flash[p].status /\ flash'[p].word = flash[p].word
              \/ /\ flash[p].status \notin {"active", "receiving"}
                 /\ flash'[p].status \notin {"active", "receiving"}
    PROVE  \A v \in Vars : Durable(v)' = Durable(v) /\ Copies(v)' = Copies(v)
<1>1. PICK A, R \in MayBePage : Marks(flash, "active", A) /\ Marks(flash, "receiving", R)
  BY MarksExist
<1>2. Marks(flash', "active", A) /\ Marks(flash', "receiving", R)
  BY <1>1 DEF Marks
<1>3. WordsOf(flash', A) = WordsOf(flash, A) /\ WordsOf(flash', R) = WordsOf(flash, R)
  BY <1>1, <1>2 DEF Marks, WordsOf, MayBePage
<1>4. flash \in [Pages -> PageStates]
  BY DEF Sound, IndInv, TypeOK
<1> QED
  BY <1>1, <1>2, <1>3, <1>4, MappedStep

\* Nothing happens to the store.
LEMMA Stutters ==
    ASSUME \A v \in Vars : Durable(v)' = Durable(v) /\ Copies(v)' = Copies(v),
           UNCHANGED <<script, booted>>
    PROVE  Simulated
<1>1. UNCHANGED Store!vars
  BY DEF Store!vars
<1> QED
  BY <1>1 DEF Simulated

\* The store is opened, unless it was open already.
LEMMA Opens ==
    ASSUME \A v \in Vars : Durable(v)' = Durable(v) /\ Copies(v)' = Copies(v),
           script' = script, booted \in BOOLEAN, booted' = TRUE, Waiting
    PROVE  Simulated
<1>1. CASE booted
  BY <1>1, Stutters
<1>2. CASE ~booted
  <2>1. Store!Open
    BY <1>2 DEF Store!Open, Waiting
  <2> QED
    BY <2>1 DEF Simulated, Store!Next
<1> QED
  BY <1>1, <1>2

\* An erased page is blank.
LEMMA ErasedBlank == /\ ErasedPage.word = Blank /\ ErasedPage.status = "erased"
                     /\ InOrder(ErasedPage.word)
<1>1. ErasedPage.word = Blank /\ ErasedPage.status = "erased"
  BY DEF ErasedPage, Blank
<1> QED
  BY <1>1, NothingBlank

\* Pages that keep their words, or are erased, stay in order.
LEMMA StayContiguous ==
    ASSUME Contiguous,
           \A p \in Pages : flash'[p].word = flash[p].word \/ flash'[p] = ErasedPage
    PROVE  Contiguous'
BY ErasedBlank DEF Contiguous

\* A mark that changes leaves the words (ProgramStatus without an error).
LEMMA StatusWords ==
    ASSUME flash \in [Pages -> PageStates], NEW p \in Pages, NEW s \in Status,
           ProgramStatus(TRUE, p, s)
    PROVE  /\ \A q \in Pages : flash'[q].word = flash[q].word
           /\ \A q \in Pages : q # p => flash'[q] = flash[q]
           /\ flash'[p].status \in AndStatus(flash[p].status, s)
<1>1. PICK t \in AndStatus(flash[p].status, s) :
              flash' = [flash EXCEPT ![p].status = t]
  BY DEF ProgramStatus
<1> QED
  BY <1>1 DEF PageStates

\* eeprom_init changes the mark of the page it adopts, and nothing of the store.
LEMMA StartingStep == ASSUME MaxErrors = 0, Sound, Sound', StoreInv, Starting
                      PROVE  StoreInv' /\ Simulated
<1>0. /\ TypeOK /\ IndexOK /\ HandleMatchesFlash /\ errors = 0 /\ errors' = 0
      /\ flash \in [Pages -> PageStates] /\ flash' \in [Pages -> PageStates]
      /\ booted \in BOOLEAN /\ HandleMatchesFlash'
      /\ Contiguous /\ Waiting /\ Formats /\ Transfers /\ Deletion
  BY DEF Sound, IndInv, TypeOK, StoreInv
<1>1. ASSUME flash' = flash
      PROVE  Contiguous' /\ \A v \in Vars : Durable(v)' = Durable(v) /\ Copies(v)' = Copies(v)
  BY <1>0, <1>1, SameWords DEF Contiguous
<1>2. CASE Boot
  <2>1. flash' = flash /\ UNCHANGED <<script, booted>> /\ pc = "off" /\ pc' = "scan"
    BY <1>2 DEF Boot
  <2>2. StoreInv'
    BY <1>0, <1>1, <2>1 DEF StoreInv, Waiting, Formats, Transfers, Deletion
  <2> QED
    BY <1>1, <2>1, <2>2, Stutters
<1>3. CASE ScanMarked
  <2>1. flash' = flash /\ UNCHANGED <<script, booted>> /\ pc = "scan"
    BY <1>3 DEF ScanMarked
  <2>2. pc' = "scan"
    <3>1. Scanned /\ NoPage \notin Pages /\ cur \in Pages
      <4>1. cur \in Pages
        BY <1>0, <1>3, <2>1, EepromAssumption DEF ScanMarked, IndexOK, Pages
      <4> QED
        BY <1>0, <2>1, <4>1 DEF HandleMatchesFlash, NoPage, Pages
    <3>2. flash[cur].status = "active" => active = NoPage
      <4> SUFFICES ASSUME flash[cur].status = "active", active # NoPage PROVE FALSE
        OBVIOUS
      <4>1. active \in Pages /\ active < cur
        BY <1>0, <3>1 DEF Scanned, TypeOK
      <4>2. flash[active].status = "active"
        BY <3>1, <4>1 DEF Scanned
      <4>3. cur = active
        BY <3>1, <4>1, <4>2 DEF Scanned, AtMostOne, PagesOf
      <4> QED
        BY <4>1, <4>3, EepromAssumption DEF Pages
    <3>3. flash[cur].status = "receiving" => receiving = NoPage
      <4> SUFFICES ASSUME flash[cur].status = "receiving", receiving # NoPage PROVE FALSE
        OBVIOUS
      <4>1. receiving \in Pages /\ receiving < cur
        BY <1>0, <3>1 DEF Scanned, TypeOK
      <4>2. flash[receiving].status = "receiving"
        BY <3>1, <4>1 DEF Scanned
      <4>3. cur = receiving
        BY <3>1, <4>1, <4>2 DEF Scanned, AtMostOne, PagesOf
      <4> QED
        BY <4>1, <4>3, EepromAssumption DEF Pages
    <3> QED
      BY <1>3, <3>2, <3>3 DEF ScanMarked
  <2>3. StoreInv'
    BY <1>0, <1>1, <2>1, <2>2 DEF StoreInv, Waiting, Formats, Transfers, Deletion
  <2> QED
    BY <1>1, <2>1, <2>3, Stutters
<1>4. CASE ScanUnmarked
  <2>1. /\ UNCHANGED <<script, booted, pc>> /\ pc = "scan" /\ cur \in Pages
        /\ flash[cur].status \in {"erased", "other"}
    BY <1>0, <1>4, EepromAssumption DEF ScanUnmarked, IndexOK, Pages
  <2>2. flash' = flash \/ flash' = [flash EXCEPT ![cur] = ErasedPage]
    BY <1>4 DEF ScanUnmarked, ErasePage
  <2>3. \A p \in Pages : flash'[p] = flash[p] \/ (p = cur /\ flash'[p] = ErasedPage)
    BY <1>0, <2>1, <2>2
  <2>4. \A v \in Vars : Durable(v)' = Durable(v) /\ Copies(v)' = Copies(v)
    BY <1>0, <2>1, <2>3, SameWords, ErasedBlank
  <2>5. Contiguous'
    BY <1>0, <2>3, StayContiguous
  <2>6. StoreInv'
    BY <1>0, <2>1, <2>5 DEF StoreInv, Waiting, Formats, Transfers, Deletion
  <2> QED
    BY <2>1, <2>4, <2>6, Stutters
<1>5. CASE ScanDone
  <2>1. flash' = flash /\ UNCHANGED script /\ pc = "scan" /\ script = <<>>
    BY <1>0, <1>5 DEF ScanDone, IndexOK
  <2>2. Contiguous' /\ \A v \in Vars : Durable(v)' = Durable(v) /\ Copies(v)' = Copies(v)
    BY <1>1, <2>1
  <2>3. CASE active = NoPage /\ receiving = NoPage
    <3>1. pc' = "format" /\ UNCHANGED <<active, booted>>
      BY <1>5, <2>3 DEF ScanDone, StartFormat
    <3>2. StoreInv'
      BY <1>0, <2>1, <2>2, <2>3, <3>1 DEF StoreInv, Waiting, Formats, Transfers, Deletion
    <3> QED
      BY <2>1, <2>2, <3>1, <3>2, Stutters
  <2>4. CASE active # NoPage /\ receiving = NoPage
    <3>1. pc' = "ready" /\ booted' = TRUE
      BY <1>5, <2>4 DEF ScanDone
    <3>2. StoreInv'
      BY <1>0, <2>1, <2>2, <3>1 DEF StoreInv, Waiting, Formats, Transfers, Deletion
    <3> QED
      BY <1>0, <2>1, <2>2, <3>1, <3>2, Opens
  <2>5. CASE active = NoPage /\ receiving # NoPage
    <3>1. pc' = "adopt" /\ booted' = booted
      BY <1>5, <2>5 DEF ScanDone
    <3>2. StoreInv'
      BY <1>0, <2>1, <2>2, <3>1 DEF StoreInv, Waiting, Formats, Transfers, Deletion
    <3> QED
      BY <2>1, <2>2, <3>1, <3>2, Stutters
  <2>6. CASE active # NoPage /\ receiving # NoPage
    <3>1. pc' = "mark" /\ UNCHANGED <<active, receiving, booted>> /\ cur = NumPages
      BY <1>5, <2>6 DEF ScanDone
    <3>2. flash[receiving].status = "receiving"
      <4>1. Scanned /\ receiving \in Pages
        BY <1>0, <2>1, <2>6 DEF HandleMatchesFlash, TypeOK
      <4> QED
        BY <3>1, <4>1, EepromAssumption DEF Scanned, Pages
    <3>3. StoreInv'
      BY <1>0, <2>1, <2>2, <3>1, <3>2 DEF StoreInv, Waiting, Formats, Transfers, Deletion
    <3> QED
      BY <2>1, <2>2, <3>1, <3>3, Stutters
  <2> QED
    BY <2>3, <2>4, <2>5, <2>6
<1>6. CASE Adopt
  <2>1. /\ pc = "adopt" /\ pc' = "ready" /\ booted' = TRUE
        /\ UNCHANGED <<active, receiving, script>> /\ active \in Pages
    BY <1>0, <1>6 DEF Adopt, IndexOK
  <2>2. ProgramStatus(TRUE, active, "active")
    <3>1. PICK ok \in BOOLEAN : ProgramStatus(ok, active, "active") /\ Outcome(ok)
      BY <1>6 DEF Adopt
    <3>2. ok = TRUE
      BY <1>0, <3>1 DEF Outcome
    <3> QED
      BY <3>1, <3>2
  <2>3. \A q \in Pages : flash'[q].word = flash[q].word
    BY <1>0, <2>1, <2>2, StatusWords DEF Status
  <2>4. /\ Marks(flash, "active", NoPage) /\ Marks(flash, "receiving", active)
        /\ receiving = NoPage
    BY <1>0, <2>1 DEF HandleMatchesFlash, Only, Marks
  <2>5. Marks(flash', "active", active) /\ Marks(flash', "receiving", NoPage)
    <3>1. OneInUse'
      BY <1>0, <2>1 DEF HandleMatchesFlash
    <3> QED
      BY <2>1, <3>1 DEF OneInUse, Only, Marks
  <2>6. \A v \in Vars : Durable(v)' = Durable(v) /\ Copies(v)' = Copies(v)
    <3>1. WordsOf(flash', active) = WordsOf(flash, active)
      BY <2>1, <2>3 DEF WordsOf
    <3>2. WordsOf(flash, NoPage) = Blank /\ WordsOf(flash', NoPage) = Blank
      BY DEF WordsOf
    <3> QED
      BY <1>0, <2>1, <2>4, <2>5, <3>1, <3>2, MappedStep, MergedBlank DEF MayBePage
  <2>7. StoreInv'
    BY <1>0, <2>1, <2>3, StayContiguous
       DEF StoreInv, Waiting, Formats, Transfers, Deletion
  <2> QED
    BY <1>0, <2>1, <2>6, <2>7, Opens
<1> QED
  BY <1>2, <1>3, <1>4, <1>5, <1>6 DEF Starting

\* Formatting empties the store when it erases the active page.
LEMMA FormattingStep == ASSUME MaxErrors = 0, Sound, Sound', StoreInv, Formatting
                        PROVE  StoreInv' /\ Simulated
<1>0. /\ TypeOK /\ IndexOK /\ HandleMatchesFlash /\ errors = 0 /\ errors' = 0
      /\ flash \in [Pages -> PageStates] /\ flash' \in [Pages -> PageStates]
      /\ booted \in BOOLEAN /\ HandleMatchesFlash'
      /\ Contiguous /\ Waiting /\ Formats /\ Transfers /\ Deletion
  BY DEF Sound, IndInv, TypeOK, StoreInv
<1>1. CASE FormatErase
  <2>1. /\ pc = "format" /\ UNCHANGED <<active, receiving, script>> /\ cur \in Pages
        /\ booted' = (pc' # "format" \/ booted)
    BY <1>0, <1>1, EepromAssumption DEF FormatErase, IndexOK, Pages
  <2>2. pc' = pc /\ (flash' = flash \/ flash' = [flash EXCEPT ![cur] = ErasedPage])
    BY <1>0, <1>1 DEF FormatErase, Outcome, ErasePage
  <2>3. booted' = booted /\ script = <<>>
    BY <1>0, <2>1, <2>2 DEF Waiting
  <2>4. \A p \in Pages : flash'[p] = flash[p] \/ (p = cur /\ flash'[p] = ErasedPage)
    BY <1>0, <2>1, <2>2
  <2>5. StoreInv'
    <3>1. Contiguous'
      BY <1>0, <2>4, StayContiguous
    <3> QED
      BY <1>0, <2>1, <2>2, <2>3, <3>1 DEF StoreInv, Waiting, Formats, Transfers, Deletion
  <2>6. Marks(flash, "receiving", NoPage) /\ \A p \in PagesOf("active") : p = active
    BY <1>0, <2>1 DEF HandleMatchesFlash, Only, Marks
  <2>7. CASE flash' = flash \/ flash[cur].status # "active"
    <3>1. flash[cur].status # "receiving"
      BY <2>1, <2>6 DEF Marks, NoPage, Pages
    <3>2. \A p \in Pages :
             \/ flash'[p] = flash[p]
             \/ /\ flash[p].status \notin {"active", "receiving"}
                /\ flash'[p].status \notin {"active", "receiving"}
      BY <2>4, <2>7, <3>1, ErasedBlank
    <3>3. \A v \in Vars : Durable(v)' = Durable(v) /\ Copies(v)' = Copies(v)
      BY <1>0, <3>2, SameWords
    <3> QED
      BY <2>1, <2>3, <2>5, <3>3, Stutters
  <2>8. CASE flash' = [flash EXCEPT ![cur] = ErasedPage] /\ flash[cur].status = "active"
    <3>1. cur = active /\ booted
      BY <1>0, <2>1, <2>6, <2>8 DEF PagesOf, Formats, NoPage, Pages
    <3>2. Marks(flash, "active", cur) /\ Marks(flash', "active", NoPage)
          /\ Marks(flash', "receiving", NoPage)
      BY <1>0, <2>1, <2>6, <2>8, <3>1, ErasedBlank DEF PagesOf, Marks, NoPage, Pages
    <3>3. WordsOf(flash', NoPage) = Blank
      BY DEF WordsOf
    <3>4. \A v \in Vars : Durable(v)' = None /\ Copies(v)' = {}
      BY <1>0, <2>1, <2>6, <3>2, <3>3, MappedStep, MergedBlank, NothingBlank DEF MayBePage
    <3>5. Store!Clear
      BY <2>1, <2>3, <3>1, <3>4 DEF Store!Clear, Store!None, None
    <3> QED
      BY <2>5, <3>5 DEF Simulated, Store!Next
  <2> QED
    BY <2>2, <2>7, <2>8
<1>2. CASE FormatCount
  <2>1. /\ pc = "format" /\ cur = -1 /\ active' = 0 /\ receiving' = NoPage
        /\ UNCHANGED script
    BY <1>2 DEF FormatCount
  <2>2. pc' = "formatted" /\ booted' = booted /\ ProgramCount(TRUE, 0, BitsOf(1))
    <3>1. PICK ok \in BOOLEAN : /\ ProgramCount(ok, 0, BitsOf(1)) /\ Outcome(ok)
                                /\ pc' = IF ok THEN "formatted" ELSE "ready"
      BY <1>2 DEF FormatCount
    <3>2. ok = TRUE
      BY <1>0, <3>1 DEF Outcome
    <3>3. booted' = (pc' = "ready" \/ booted)
      BY <1>2 DEF FormatCount
    <3> QED
      BY <1>0, <3>1, <3>2, <3>3
  <2>3. 0 \in Pages
    BY EepromAssumption DEF Pages
  <2>4. \A p \in Pages : /\ flash'[p].status = flash[p].status
                         /\ flash'[p].word = flash[p].word
    BY <1>0, <2>2, <2>3 DEF ProgramCount, PageStates
  <2>5. flash[0] = ErasedPage
    BY <1>0, <2>1, <2>3 DEF HandleMatchesFlash, ValidEmpty
  <2>6. WordsOf(flash', 0) = Blank
    BY <2>3, <2>4, <2>5, ErasedBlank DEF WordsOf, NoPage
  <2>7. StoreInv'
    <3>1. Contiguous'
      BY <1>0, <2>4, StayContiguous
    <3> QED
      BY <1>0, <2>1, <2>2, <2>6, <3>1
         DEF StoreInv, Waiting, Formats, Transfers, Deletion
  <2>8. \A v \in Vars : Durable(v)' = Durable(v) /\ Copies(v)' = Copies(v)
    BY <1>0, <2>4, SameWords
  <2> QED
    BY <2>1, <2>2, <2>7, <2>8, Stutters
<1>3. CASE FormatActivate
  <2>1. /\ pc = "formatted" /\ pc' = "ready" /\ booted' = TRUE
        /\ UNCHANGED <<active, receiving, script>> /\ active = 0 /\ receiving = NoPage
        /\ flash[0].status = "erased" /\ CleanBut({0}) /\ 0 \in Pages
    BY <1>0, <1>3, EepromAssumption DEF FormatActivate, HandleMatchesFlash, Pages
  <2>2. ProgramStatus(TRUE, active, "active")
    <3>1. PICK ok \in BOOLEAN : ProgramStatus(ok, active, "active") /\ Outcome(ok)
      BY <1>3 DEF FormatActivate
    <3>2. ok = TRUE
      BY <1>0, <3>1 DEF Outcome
    <3> QED
      BY <3>1, <3>2
  <2>3. \A q \in Pages : flash'[q].word = flash[q].word
    BY <1>0, <2>1, <2>2, StatusWords DEF Status
  <2>4. Marks(flash, "active", NoPage) /\ Marks(flash, "receiving", NoPage)
    BY <2>1, ErasedBlank DEF Marks, CleanBut, ValidEmpty, NoPage, Pages
  <2>5. Marks(flash', "active", 0) /\ Marks(flash', "receiving", NoPage)
    <3>1. OneInUse'
      BY <1>0, <2>1 DEF HandleMatchesFlash
    <3> QED
      BY <2>1, <3>1 DEF OneInUse, Only, Marks
  <2>6. WordsOf(flash', 0) = Blank /\ WordsOf(flash, NoPage) = Blank
        /\ WordsOf(flash', NoPage) = Blank
    BY <1>0, <2>1, <2>3 DEF WordsOf, Formats, NoPage
  <2>7. \A v \in Vars : Durable(v)' = Durable(v) /\ Copies(v)' = Copies(v)
    BY <1>0, <2>1, <2>4, <2>5, <2>6, MappedStep DEF MayBePage
  <2>8. StoreInv'
    <3>1. Contiguous'
      BY <1>0, <2>3, StayContiguous
    <3> QED
      BY <1>0, <2>1, <3>1 DEF StoreInv, Waiting, Formats, Transfers, Deletion
  <2> QED
    BY <1>0, <2>1, <2>7, <2>8, Opens
<1> QED
  BY <1>1, <1>2, <1>3 DEF Formatting
\* A new call is a new script; formatting begins with the store as it is.
LEMMA CallingStep == ASSUME MaxErrors = 0, Sound, Sound', StoreInv, Calling
                     PROVE  StoreInv' /\ Simulated
<1>0. /\ TypeOK /\ errors = 0 /\ TypeOK'
      /\ flash \in [Pages -> PageStates] /\ flash' \in [Pages -> PageStates]
      /\ Contiguous /\ Waiting /\ Formats /\ Transfers /\ Deletion
  BY DEF Sound, IndInv, TypeOK, StoreInv
<1>1. ASSUME flash' = flash
      PROVE  Contiguous' /\ \A v \in Vars : Durable(v)' = Durable(v) /\ Copies(v)' = Copies(v)
  BY <1>0, <1>1, SameWords DEF Contiguous
<1>2. CASE FormatCall
  <2>1. /\ pc = "ready" /\ pc' = "format" /\ booted /\ script = <<>>
        /\ UNCHANGED <<flash, script, booted>>
    BY <1>2 DEF FormatCall, StartFormat, Idle
  <2>2. StoreInv'
    BY <1>0, <1>1, <2>1 DEF StoreInv, Waiting, Formats, Transfers, Deletion
  <2> QED
    BY <1>1, <2>1, <2>2, Stutters
<1>3. ASSUME NEW ops, Start(ops) PROVE StoreInv' /\ Simulated
  <2>1. /\ pc = "ready" /\ booted /\ script = <<>>
        /\ UNCHANGED <<flash, pc, booted>>
    BY <1>3 DEF Start, Idle
  <2>2. StoreInv'
    BY <1>0, <1>1, <2>1 DEF StoreInv, Waiting, Formats, Transfers, Deletion
  <2>3. script' \in Seq(Store!Ops)
    BY <1>0 DEF TypeOK, Store!Ops, WriteOps, DeleteOps
  <2>4. Store!Call
    BY <1>1, <2>1, <2>3 DEF Store!Call
  <2> QED
    BY <2>2, <2>4 DEF Simulated, Store!Next
<1>4. \/ FormatCall \/ \E ops : Start(ops)
  BY DEF Calling, WriteCall, WriteArrayLenCall, WriteArrayCall, DeleteCall,
         DeleteArrayCall
<1> QED
  BY <1>2, <1>3, <1>4

\* The words and marks of the pages after one word is programmed.
LEMMA WordEffect ==
    ASSUME flash \in [Pages -> PageStates], NEW p \in Pages, NEW k \in Index, NEW w,
           ProgramWord(TRUE, p, k, w)
    PROVE  /\ flash'[p].word = [flash[p].word EXCEPT ![k] = w]
           /\ \A q \in Pages : /\ flash'[q].status = flash[q].status
                               /\ q # p => flash'[q] = flash[q]
<1>1. flash' = [flash EXCEPT ![p].word[k] = w]
  BY DEF ProgramWord
<1>2. flash'[p] = [flash[p] EXCEPT !.word[k] = w] /\ \A q \in Pages : q # p => flash'[q] = flash[q]
  BY <1>1
<1>3. flash[p] \in PageStates
  OBVIOUS
<1> QED
  BY <1>2, <1>3 DEF PageStates

\* A value put into the first free word of a page.
LEMMA PutWord ==
    ASSUME flash \in [Pages -> PageStates], NEW p \in Pages, Free(p) # {},
           Contiguous, NEW v \in Vars, NEW d \in Data,
           ProgramWord(TRUE, p, First(Free(p)), [va |-> v, data |-> d])
    PROVE  /\ WordsOf(flash', p) = Put(WordsOf(flash, p), v, d)
           /\ Contiguous'
           /\ \A q \in Pages : /\ flash'[q].status = flash[q].status
                               /\ q # p => flash'[q] = flash[q]
<1> DEFINE w == flash[p].word
<1>1. Free(p) = Room(w) /\ p # NoPage
  BY DEF Free, Room, Pages, NoPage
<1>2. First(Free(p)) \in Index
  BY FirstWord DEF Free
<1>3. /\ flash'[p].word = Put(w, v, d)
      /\ \A q \in Pages : /\ flash'[q].status = flash[q].status
                          /\ q # p => flash'[q] = flash[q]
  <2> DEFINE k == First(Free(p))
             new == [va |-> v, data |-> d]
  <2>1. k \in Index /\ ProgramWord(TRUE, p, k, new)
    BY <1>2
  <2>2. Put(w, v, d) = [w EXCEPT ![k] = new]
    BY <1>1 DEF Put
  <2> HIDE DEF k, new
  <2>3. /\ flash'[p].word = [flash[p].word EXCEPT ![k] = new]
        /\ \A q \in Pages : /\ flash'[q].status = flash[q].status
                            /\ q # p => flash'[q] = flash[q]
    BY <2>1, WordEffect
  <2> QED
    BY <2>2, <2>3
<1>4. InOrder(Put(w, v, d))
  <2>1. w \in WordArrays /\ InOrder(w) /\ Room(w) # {}
    BY <1>1 DEF Contiguous, PageStates, WordArrays
  <2> QED
    BY <2>1, PutEffect
<1> QED
  BY <1>1, <1>3, <1>4 DEF WordsOf, Contiguous
\* The operation at the head of the script has its fields.
LEMMA HeadType ==
    ASSUME TypeOK, script # <<>>
    PROVE  /\ Head(script).kind \in {"write", "put", "delete"}
           /\ Head(script).va \in Vars
           /\ Head(script).kind # "delete" => Head(script).data \in Data
<1>1. script \in Seq(WriteOps \cup DeleteOps)
  BY DEF TypeOK
<1>2. Head(script) \in WriteOps \cup DeleteOps
  BY <1>1
<1> QED
  BY <1>2 DEF WriteOps, DeleteOps

\* With one page in use eeprom_read returns what a restart would recover.
LEMMA OnePage ==
    ASSUME flash \in [Pages -> PageStates], active \in Pages, OneInUse
    PROVE  /\ Marks(flash, "active", active) /\ Marks(flash, "receiving", NoPage)
           /\ WordsOf(flash, active) = flash[active].word
           /\ WordsOf(flash, active) \in WordArrays
           /\ \A v \in Vars : /\ Durable(v) = Value(WordsOf(flash, active), v)
                              /\ Copies(v) = Values(WordsOf(flash, active), v)
                              /\ Durable(v) = Read(v)
<1>1. active # NoPage /\ active \in MayBePage /\ NoPage \in MayBePage
  BY DEF NoPage, Pages, MayBePage
<1>2. Marks(flash, "active", active) /\ Marks(flash, "receiving", NoPage)
  BY DEF OneInUse, Only, Marks
<1>3. WordsOf(flash, active) \in WordArrays
  BY <1>1, WordsType
<1>4. WordsOf(flash, active) = flash[active].word /\ WordsOf(flash, NoPage) = Blank
  BY <1>1 DEF WordsOf
<1>5. \A v \in Vars : /\ Durable(v) = Value(WordsOf(flash, active), v)
                      /\ Copies(v) = Values(WordsOf(flash, active), v)
  <2>1. \A v \in Vars :
           /\ Durable(v) = Merged(WordsOf(flash, active), WordsOf(flash, NoPage), v)
           /\ Copies(v) = Both(WordsOf(flash, active), WordsOf(flash, NoPage), v)
    BY <1>1, <1>2, MappedHolds DEF Mapped
  <2> QED
    BY <1>4, <2>1, MergedBlank
<1>6. \A v \in Vars : Read(v) = Value(WordsOf(flash, active), v)
  BY <1>4 DEF Read, Lookup, Holding, Value, At
<1> QED
  BY <1>2, <1>3, <1>4, <1>5, <1>6

\* A write has taken effect, as EepromStore says.
LEMMA PutsOne ==
    ASSUME booted, booted' = booted, script # <<>>, script' = Tail(script),
           Head(script).kind \in {"write", "put"},
           NEW v \in Vars, v = Head(script).va, NEW d, d = Head(script).data,
           Durable(v)' = d, Copies(v)' = Copies(v) \cup {d},
           \A u \in Vars \ {v} : Copies(u)' = Copies(u),
           NEW L, L = {u \in Vars : Durable(u) # None},
           IF v \notin L /\ Cardinality(L) >= PageWords
           THEN \E x \in L : /\ Durable(x)' = None
                             /\ \A u \in Vars \ {v, x} : Durable(u)' = Durable(u)
           ELSE \A u \in Vars \ {v} : Durable(u)' = Durable(u)
    PROVE  Simulated
<1> DEFINE s == [u \in Vars |-> Durable(u)]
           t == [u \in Vars |-> Durable(u)']
           c == [u \in Vars |-> Copies(u)]
           e == [u \in Vars |-> Copies(u)']
<1>1. Store!Live = L
  BY DEF Store!Live, Store!None, None
<1>2. e = [c EXCEPT ![v] = @ \cup {d}]
  OBVIOUS
<1>3. IF v \notin L /\ Cardinality(L) >= PageWords
      THEN \E x \in L : t = [s EXCEPT ![v] = d, ![x] = None]
      ELSE t = [s EXCEPT ![v] = d]
  <2>1. CASE v \notin L /\ Cardinality(L) >= PageWords
    <3>1. PICK x \in L : /\ Durable(x)' = None
                         /\ \A u \in Vars \ {v, x} : Durable(u)' = Durable(u)
      BY <2>1
    <3>2. x # v /\ x \in Vars
      BY <2>1
    <3>3. t = [s EXCEPT ![v] = d, ![x] = None]
      BY <3>1, <3>2
    <3> QED
      BY <2>1, <3>3
  <2>2. CASE ~(v \notin L /\ Cardinality(L) >= PageWords)
    <3>1. t = [s EXCEPT ![v] = d]
      BY <2>2
    <3> QED
      BY <2>2, <3>1
  <2> QED
    BY <2>1, <2>2
<1>4. Store!Cardinality(Store!Live) = Cardinality(L)
  BY <1>1 DEF Store!Cardinality, Cardinality, Store!IsFiniteSet, IsFiniteSet
<1>5. Store!Put
  BY <1>1, <1>2, <1>3, <1>4 DEF Store!Put, Store!None, None
<1> QED
  BY <1>5 DEF Simulated, Store!Next
\* eeprom_write up to the transfer: the value is there, put, or waits.
LEMMA WritingStep == ASSUME MaxErrors = 0, Sound, Sound', StoreInv, Writing
                     PROVE  StoreInv' /\ Simulated
<1>0. /\ TypeOK /\ IndexOK /\ HandleMatchesFlash /\ errors = 0 /\ errors' = 0
      /\ flash \in [Pages -> PageStates] /\ flash' \in [Pages -> PageStates]
      /\ booted \in BOOLEAN /\ HandleMatchesFlash' /\ IndexOK' /\ TypeOK'
      /\ Contiguous /\ Waiting /\ Formats /\ Transfers /\ Deletion
  BY DEF Sound, IndInv, TypeOK, StoreInv
<1>1. ASSUME flash' = flash
      PROVE  Contiguous' /\ \A v \in Vars : Durable(v)' = Durable(v) /\ Copies(v)' = Copies(v)
  BY <1>0, <1>1, SameWords DEF Contiguous
<1> DEFINE w == WordsOf(flash, active)
<1>2. /\ pc = "ready" /\ script # <<>> /\ booted /\ booted' = booted
      /\ active' = active /\ Head(script).kind \in {"write", "put"}
  BY <1>0 DEF Writing, WriteSame, WriteWord, WriteFull, Stores, Running, Waiting
<1>3. active \in Pages /\ OneInUse
  BY <1>0, <1>2 DEF IndexOK, HandleMatchesFlash
<1>4. PICK v \in Vars, d \in Data : v = Head(script).va /\ d = Head(script).data
  BY <1>0, <1>2, HeadType
<1>5. /\ Marks(flash, "active", active) /\ Marks(flash, "receiving", NoPage)
      /\ w = flash[active].word /\ w \in WordArrays /\ InOrder(w)
      /\ \A u \in Vars : /\ Durable(u) = Value(w, u) /\ Copies(u) = Values(w, u)
                         /\ Durable(u) = Read(u)
  BY <1>0, <1>3, OnePage DEF Contiguous
<1>6. \A u \in Vars : /\ Durable(u) # None <=> At(w, u) # {}
                      /\ Durable(u) # None => Durable(u) \in Copies(u)
  BY <1>5, ValueIn
<1> HIDE DEF w
<1>7. CASE WriteSame
  <2>1. /\ Read(v) = d /\ script' = Tail(script)
        /\ UNCHANGED <<flash, pc>>
    BY <1>4, <1>7 DEF WriteSame
  <2>2. StoreInv'
    BY <1>0, <1>1, <1>2, <2>1 DEF StoreInv, Waiting, Formats, Transfers, Deletion
  <2>3. /\ \A u \in Vars : Durable(u)' = Durable(u) /\ Copies(u)' = Copies(u)
        /\ Durable(v) = d /\ d # None
    <3>1. None \notin Data
      BY DEF Data, None
    <3>2. Durable(v) = Read(v)
      BY <1>5
    <3> QED
      BY <1>1, <1>4, <2>1, <3>1, <3>2
  <2>4. Copies(v)' = Copies(v) \cup {d} /\ v \in {u \in Vars : Durable(u) # None}
    BY <1>4, <1>6, <2>3
  <2>5. Simulated
    <3> DEFINE L == {u \in Vars : Durable(u) # None}
    <3>1. v \in L /\ L = {u \in Vars : Durable(u) # None}
      BY <2>4
    <3> HIDE DEF L
    <3>2. /\ Durable(v)' = d /\ Copies(v)' = Copies(v) \cup {d}
          /\ \A u \in Vars \ {v} : Durable(u)' = Durable(u) /\ Copies(u)' = Copies(u)
      BY <1>4, <2>3, <2>4
    <3> QED
      BY <1>2, <1>4, <2>1, <3>1, <3>2, PutsOne
  <2> QED
    BY <2>2, <2>5
<1>8. CASE WriteWord
  <2>1. /\ Free(active) # {} /\ script' = Tail(script)
        /\ ProgramWord(TRUE, active, First(Free(active)), [va |-> v, data |-> d])
        /\ UNCHANGED <<pc, receiving>>
    <3>1. PICK ok \in BOOLEAN :
             /\ Outcome(ok)
             /\ ProgramWord(ok, active, First(Free(active)), [va |-> v, data |-> d])
             /\ IF ok THEN script' = Tail(script) /\ UNCHANGED <<receiving, pc>>
                      ELSE StartTransfer /\ UNCHANGED script
      BY <1>4, <1>8 DEF WriteWord
    <3>2. ok = TRUE
      BY <1>0, <3>1 DEF Outcome
    <3> QED
      BY <1>8, <3>1, <3>2 DEF WriteWord
  <2>2. /\ WordsOf(flash', active) = Put(w, v, d) /\ Contiguous'
        /\ \A q \in Pages : flash'[q].status = flash[q].status
    BY <1>0, <1>3, <1>4, <2>1, PutWord DEF w
  <2>3. StoreInv'
    BY <1>0, <1>2, <2>1, <2>2 DEF StoreInv, Waiting, Formats, Transfers, Deletion
  <2>4. \A u \in Vars : /\ Durable(u)' = Value(Put(w, v, d), u)
                        /\ Copies(u)' = Values(Put(w, v, d), u)
    <3>1. Marks(flash', "active", active) /\ Marks(flash', "receiving", NoPage)
      BY <1>5, <2>2 DEF Marks
    <3>2. WordsOf(flash', NoPage) = Blank
      BY DEF WordsOf
    <3> QED
      BY <1>0, <1>3, <1>5, <2>2, <3>1, <3>2, MappedStep, MergedBlank DEF MayBePage
  <2>5. /\ Room(w) # {} /\ Value(Put(w, v, d), v) = d
        /\ Values(Put(w, v, d), v) = Values(w, v) \cup {d}
        /\ \A u \in Vars \ {v} : /\ Value(Put(w, v, d), u) = Value(w, u)
                                 /\ Values(Put(w, v, d), u) = Values(w, u)
    <3>1. Room(w) # {}
      BY <1>5, <2>1 DEF Room, Free
    <3> QED
      BY <1>4, <1>5, <3>1, PutEffect
  <2>6. ~(Cardinality({u \in Vars : Durable(u) # None}) >= PageWords)
    <3> DEFINE L == {u \in Vars : At(w, u) # {}}
    <3>1. {u \in Vars : Durable(u) # None} = L
      BY <1>6
    <3>2. IsFiniteSet(L) /\ Cardinality(L) < PageWords
      BY <1>5, <2>5, LiveFits
    <3> HIDE DEF L
    <3>3. Cardinality(L) \in Nat
      BY <3>2, FS_CardinalityType
    <3> QED
      BY <3>1, <3>2, <3>3, EepromAssumption
  <2>7. Simulated
    <3>1. Durable(v)' = d /\ Copies(v)' = Copies(v) \cup {d}
      BY <1>4, <1>5, <2>4, <2>5
    <3>2. \A u \in Vars \ {v} : Durable(u)' = Durable(u) /\ Copies(u)' = Copies(u)
      BY <1>5, <2>4, <2>5
    <3> QED
      BY <1>2, <1>4, <2>1, <2>6, <3>1, <3>2, PutsOne
  <2> QED
    BY <2>3, <2>7
<1>9. CASE WriteFull
  <2>1. StartTransfer /\ UNCHANGED <<flash, script>>
    BY <1>9 DEF WriteFull
  <2>2. /\ pc' = "mark" /\ receiving' \in Pages /\ receiving' # active
        /\ ValidEmpty(receiving')
    BY <1>0, <1>3, <2>1, StartTransferHandle
  <2>3. WordsOf(flash', receiving') = Blank
    BY <2>1, <2>2, ErasedBlank DEF ValidEmpty, WordsOf, NoPage, Pages
  <2>4. StoreInv'
    BY <1>0, <1>1, <1>2, <2>1, <2>2, <2>3
       DEF StoreInv, Waiting, Formats, Transfers, Deletion
  <2> QED
    BY <1>1, <1>2, <2>1, <2>4, Stutters
<1> QED
  BY <1>7, <1>8, <1>9 DEF Writing
\* While two pages are in use both arrays of words are known.
LEMMA TwoPages ==
    ASSUME flash \in [Pages -> PageStates], active \in Pages, receiving \in Pages,
           TwoInUse, Contiguous
    PROVE  /\ Marks(flash, "active", active) /\ Marks(flash, "receiving", receiving)
           /\ receiving # active
           /\ active \in MayBePage /\ receiving \in MayBePage
           /\ WordsOf(flash, active) = flash[active].word
           /\ WordsOf(flash, receiving) = flash[receiving].word
           /\ WordsOf(flash, active) \in WordArrays
           /\ WordsOf(flash, receiving) \in WordArrays
           /\ InOrder(WordsOf(flash, receiving))
<1>1. active # NoPage /\ receiving # NoPage
  BY DEF NoPage, Pages
<1>2. active \in MayBePage /\ receiving \in MayBePage
  BY DEF MayBePage
<1> QED
  BY <1>1, <1>2, WordsType DEF TwoInUse, Only, Marks, WordsOf, Contiguous

\* Marking the receiving page changes nothing: it is blank or marked already.
LEMMA TransferMarkStep ==
    ASSUME MaxErrors = 0, Sound, Sound', StoreInv, TransferMark
    PROVE  StoreInv' /\ Simulated
<1>0. /\ TypeOK /\ IndexOK /\ HandleMatchesFlash /\ errors = 0 /\ errors' = 0
      /\ flash \in [Pages -> PageStates] /\ flash' \in [Pages -> PageStates]
      /\ HandleMatchesFlash'
      /\ Contiguous /\ Waiting /\ Formats /\ Transfers /\ Deletion
  BY DEF Sound, IndInv, TypeOK, StoreInv
<1>1. /\ pc = "mark" /\ pc' = (IF script = <<>> THEN "copy" ELSE "new")
      /\ cur' = PageWords /\ UNCHANGED <<active, receiving, script, booted>>
      /\ active \in Pages /\ receiving \in Pages
  BY <1>0 DEF TransferMark, IndexOK
<1>2. ProgramStatus(TRUE, receiving, "receiving")
  <2>1. PICK ok \in BOOLEAN : ProgramStatus(ok, receiving, "receiving") /\ Outcome(ok)
    BY DEF TransferMark, ReceivingMark
  <2>2. ok = TRUE
    BY <1>0, <2>1 DEF Outcome
  <2> QED
    BY <2>1, <2>2
<1>3. \A q \in Pages : flash'[q].word = flash[q].word
  BY <1>0, <1>1, <1>2, StatusWords DEF Status
<1>4. TwoInUse'
  BY <1>0, <1>1 DEF HandleMatchesFlash
<1>5. /\ Marks(flash', "active", active) /\ Marks(flash', "receiving", receiving)
      /\ Marks(flash, "active", active)
  BY <1>0, <1>1, <1>4 DEF TwoInUse, Only, Marks, HandleMatchesFlash
<1>6. /\ WordsOf(flash', active) = WordsOf(flash, active)
      /\ WordsOf(flash', receiving) = WordsOf(flash, receiving)
      /\ WordsOf(flash, NoPage) = Blank
  BY <1>1, <1>3 DEF WordsOf
<1>7. \/ Marks(flash, "receiving", receiving)
      \/ /\ Marks(flash, "receiving", NoPage)
         /\ WordsOf(flash, receiving) = Blank
  <2>1. /\ \A p \in Pages : flash[p].status = "receiving" => p = receiving
        /\ flash[receiving].status \in {"erased", "receiving"}
    BY <1>0, <1>1 DEF HandleMatchesFlash, PagesOf
  <2>2. CASE flash[receiving].status = "receiving"
    BY <2>1, <2>2 DEF Marks
  <2>3. CASE flash[receiving].status = "erased"
    <3>1. Marks(flash, "receiving", NoPage)
      BY <2>1, <2>3 DEF Marks, NoPage, Pages
    <3> QED
      BY <1>0, <1>1, <2>3, <3>1 DEF Transfers
  <2> QED
    BY <2>1, <2>2, <2>3
<1>8. \A v \in Vars : Durable(v)' = Durable(v) /\ Copies(v)' = Copies(v)
  <2>1. active \in MayBePage /\ receiving \in MayBePage /\ NoPage \in MayBePage
    BY <1>1 DEF MayBePage
  <2>2. CASE Marks(flash, "receiving", receiving)
    BY <1>0, <1>5, <1>6, <2>1, <2>2, MappedStep
  <2>3. CASE Marks(flash, "receiving", NoPage) /\ WordsOf(flash, receiving) = Blank
    BY <1>0, <1>5, <1>6, <2>1, <2>3, MappedStep
  <2> QED
    BY <1>7, <2>2, <2>3
<1>9. StoreInv'
  <2>1. Contiguous'
    BY <1>0, <1>3, StayContiguous
  <2>2. \A a, r : Above(a, r, PageWords)
    BY EepromAssumption DEF Above, Index
  <2>3. script # <<>> => WordsOf(flash, receiving) = Blank
    BY <1>0, <1>1 DEF Transfers
  <2> QED
    BY <1>0, <1>1, <1>6, <2>1, <2>2, <2>3
       DEF StoreInv, Waiting, Formats, Transfers, Deletion
<1> QED
  BY <1>1, <1>8, <1>9, Stutters

\* The new value takes effect when it is put into the receiving page.
LEMMA TransferNewStep ==
    ASSUME MaxErrors = 0, Sound, Sound', StoreInv, TransferNew
    PROVE  StoreInv' /\ Simulated
<1>0. /\ TypeOK /\ IndexOK /\ HandleMatchesFlash /\ errors = 0 /\ errors' = 0
      /\ flash \in [Pages -> PageStates] /\ flash' \in [Pages -> PageStates]
      /\ Contiguous /\ Waiting /\ Formats /\ Transfers /\ Deletion
  BY DEF Sound, IndInv, TypeOK, StoreInv
<1>1. /\ pc = "new" /\ pc' = "copy" /\ script' = Tail(script) /\ script # <<>>
      /\ UNCHANGED <<active, receiving, cur, booted>> /\ booted /\ cur = PageWords
      /\ active \in Pages /\ receiving \in Pages /\ TwoInUse
  BY <1>0 DEF TransferNew, IndexOK, Waiting, Transfers, HandleMatchesFlash
<1> DEFINE a == WordsOf(flash, active)
<1>2. WordsOf(flash, receiving) = Blank
  BY <1>0, <1>1 DEF Transfers
<1>3. /\ Marks(flash, "active", active) /\ Marks(flash, "receiving", receiving)
      /\ receiving # active /\ active \in MayBePage /\ receiving \in MayBePage
      /\ WordsOf(flash, receiving) = flash[receiving].word /\ a \in WordArrays
  BY <1>0, <1>1, TwoPages
<1>4. Head(script).kind \in {"write", "put"}
  BY <1>0, <1>1, HeadType DEF IndexOK
<1>5. PICK v \in Vars, d \in Data : v = Head(script).va /\ d = Head(script).data
  BY <1>0, <1>1, <1>4, HeadType
<1> DEFINE r == Put(Blank, v, d)
<1>6. /\ WordsOf(flash', receiving) = r /\ Contiguous'
      /\ \A q \in Pages : /\ flash'[q].status = flash[q].status
                          /\ q # receiving => flash'[q] = flash[q]
  <2>1. Free(receiving) # {}
    <3>1. Free(receiving) = Room(Blank)
      BY <1>2, <1>3 DEF Free, Room
    <3> QED
      <4>1. 1 \in Index
        BY EepromAssumption DEF Index
      <4> QED
        BY <3>1, <4>1, NothingBlank
  <2>2. PICK ok \in BOOLEAN :
           /\ ProgramWord(ok, receiving, First(Free(receiving)), [va |-> v, data |-> d])
           /\ Outcome(ok)
    BY <1>5, <2>1 DEF TransferNew, PutInReceiving
  <2>3. ok = TRUE
    BY <1>0, <2>2 DEF Outcome
  <2> QED
    BY <1>0, <1>1, <1>2, <2>1, <2>2, <2>3, PutWord
<1>7. WordsOf(flash', active) = a
  BY <1>1, <1>3, <1>6 DEF WordsOf
<1> HIDE DEF a, r
<1>8. \A u \in Vars : /\ Durable(u) = Value(a, u) /\ Copies(u) = Values(a, u)
                      /\ Durable(u)' = Merged(a, r, u) /\ Copies(u)' = Both(a, r, u)
  <2>1. Marks(flash', "active", active) /\ Marks(flash', "receiving", receiving)
    BY <1>3, <1>6 DEF Marks
  <2>2. \A u \in Vars : /\ Durable(u) = Merged(a, Blank, u) /\ Copies(u) = Both(a, Blank, u)
                        /\ Durable(u)' = Merged(a, r, u) /\ Copies(u)' = Both(a, r, u)
    BY <1>0, <1>2, <1>3, <1>6, <1>7, <2>1, MappedStep DEF a
  <2> QED
    BY <2>2, MergedBlank
<1> DEFINE L == {u \in Vars : Durable(u) # None}
<1>9. L = {u \in Vars : At(a, u) # {}}
  BY <1>3, <1>8, ValueIn
<1>10. /\ Merged(a, r, v) = d /\ Both(a, r, v) = Values(a, v) \cup {d}
       /\ \A u \in Vars \ {v} : Both(a, r, u) = Values(a, u)
       /\ IF v \notin L /\ Cardinality(L) >= PageWords
          THEN \E x \in L : /\ Merged(a, r, x) = None
                            /\ \A u \in Vars \ {v, x} : Merged(a, r, u) = Value(a, u)
          ELSE \A u \in Vars \ {v} : Merged(a, r, u) = Value(a, u)
  <2> DEFINE M == {u \in Vars : At(a, u) # {}}
  <2>1. /\ Merged(a, r, v) = d /\ Both(a, r, v) = Values(a, v) \cup {d}
        /\ \A u \in Vars \ {v} : Both(a, r, u) = Values(a, u)
        /\ IF v \notin M /\ Cardinality(M) >= PageWords
           THEN \E x \in M : /\ Merged(a, r, x) = None
                             /\ \A u \in Vars \ {v, x} : Merged(a, r, u) = Value(a, u)
           ELSE \A u \in Vars \ {v} : Merged(a, r, u) = Value(a, u)
    BY <1>3, NewEffect DEF r
  <2>2. L = M
    BY <1>9
  <2> HIDE DEF L, M
  <2> QED
    BY <2>1, <2>2
<1>11. L \in SUBSET Vars /\ L = {u \in Vars : Durable(u) # None}
  OBVIOUS
<1> HIDE DEF L
<1>12. Simulated
  <2>1. Durable(v)' = d /\ Copies(v)' = Copies(v) \cup {d}
    BY <1>8, <1>10
  <2>2. \A u \in Vars \ {v} : Copies(u)' = Copies(u)
    BY <1>8, <1>10
  <2>3. IF v \notin L /\ Cardinality(L) >= PageWords
        THEN \E x \in L : /\ Durable(x)' = None
                          /\ \A u \in Vars \ {v, x} : Durable(u)' = Durable(u)
        ELSE \A u \in Vars \ {v} : Durable(u)' = Durable(u)
    BY <1>8, <1>10, <1>11
  <2> QED
    BY <1>1, <1>4, <1>5, <1>11, <2>1, <2>2, <2>3, PutsOne
<1>13. StoreInv'
  <2>1. \A b, c : Above(b, c, PageWords)
    BY EepromAssumption DEF Above, Index
  <2> QED
    BY <1>0, <1>1, <1>6, <2>1 DEF StoreInv, Waiting, Formats, Transfers, Deletion
<1> QED
  BY <1>12, <1>13
\* A word that is copied is what a restart would have copied anyway.
LEMMA TransferCopyStep ==
    ASSUME MaxErrors = 0, Sound, Sound', StoreInv, TransferCopy
    PROVE  StoreInv' /\ Simulated
<1>0. /\ TypeOK /\ IndexOK /\ HandleMatchesFlash /\ errors = 0 /\ errors' = 0
      /\ flash \in [Pages -> PageStates] /\ flash' \in [Pages -> PageStates]
      /\ Contiguous /\ Waiting /\ Formats /\ Transfers /\ Deletion
  BY DEF Sound, IndInv, TypeOK, StoreInv
<1>1. /\ pc = "copy" /\ pc' = "copy" /\ cur' = cur - 1 /\ cur \in Index
      /\ UNCHANGED <<active, receiving, script, booted>>
      /\ active \in Pages /\ receiving \in Pages /\ TwoInUse
  <2>1. cur \in 0 .. PageWords /\ cur > 0
    BY <1>0 DEF TransferCopy, IndexOK
  <2>2. cur \in Index
    BY <2>1, EepromAssumption DEF Index
  <2> QED
    BY <1>0, <2>2 DEF TransferCopy, IndexOK, HandleMatchesFlash
<1>2. PICK k \in Index : k = cur
  BY <1>1
<1> DEFINE a == WordsOf(flash, active)
           r == WordsOf(flash, receiving)
<1>3. /\ Marks(flash, "active", active) /\ Marks(flash, "receiving", receiving)
      /\ receiving # active /\ active \in MayBePage /\ receiving \in MayBePage
      /\ a = flash[active].word /\ r = flash[receiving].word
      /\ a \in WordArrays /\ r \in WordArrays /\ InOrder(r)
  BY <1>0, <1>1, TwoPages
<1>4. Above(a, r, k)
  BY <1>0, <1>1, <1>2 DEF Transfers
<1>5. \A j \in Index : j > k - 1 <=> j > k \/ j = k
  BY EepromAssumption DEF Index
<1>6. Copied(flash[active].word[cur]) <=> a[k].va \in Vars /\ At(r, a[k].va) = {}
  BY <1>2, <1>3 DEF Copied, Holding, At
<1> HIDE DEF a, r
<1>7. ASSUME flash' = flash, Copied(flash[active].word[cur]) => Free(receiving) = {}
      PROVE  StoreInv' /\ Simulated
  <2>1. \A v \in Vars : Durable(v)' = Durable(v) /\ Copies(v)' = Copies(v)
    BY <1>0, <1>7, SameWords
  <2>2. Above(a, r, k - 1)
    <3>1. Free(receiving) = Room(r)
      BY <1>3 DEF Free, Room
    <3> QED
      BY <1>4, <1>5, <1>6, <1>7, <3>1 DEF Above
  <2>3. Contiguous'
    BY <1>0, <1>7 DEF Contiguous
  <2>4. StoreInv'
    BY <1>0, <1>1, <1>2, <1>7, <2>2, <2>3
       DEF StoreInv, Waiting, Formats, Transfers, Deletion, a, r
  <2> QED
    BY <1>1, <2>1, <2>4, Stutters
<1>8. CASE Copied(flash[active].word[cur]) /\ Free(receiving) # {}
  <2>1. PICK v \in Vars, d \in Data : v = a[k].va /\ d = a[k].data
    BY <1>3, <1>6, <1>8 DEF WordArrays, Words, Empty, Dead, Vars
  <2>2. a[k] = [va |-> v, data |-> d]
    BY <1>3, <2>1 DEF WordArrays, Words, Empty, Dead, Vars
  <2>3. PICK ok \in BOOLEAN :
           /\ ProgramWord(ok, receiving, First(Free(receiving)), [va |-> v, data |-> d])
           /\ Outcome(ok)
    <3>1. flash[active].word[cur] = [va |-> v, data |-> d]
      BY <1>2, <1>3, <2>2
    <3> QED
      BY <1>8, <3>1 DEF TransferCopy, PutInReceiving
  <2>4. ok = TRUE
    BY <1>0, <2>3 DEF Outcome
  <2> DEFINE n == Put(r, v, d)
  <2>5. /\ WordsOf(flash', receiving) = n /\ Contiguous'
        /\ \A q \in Pages : /\ flash'[q].status = flash[q].status
                            /\ q # receiving => flash'[q] = flash[q]
    BY <1>0, <1>1, <1>8, <2>3, <2>4, PutWord DEF r
  <2>6. WordsOf(flash', active) = a
    BY <1>1, <1>3, <2>5 DEF WordsOf, a
  <2>7. Room(r) # {} /\ At(r, v) = {}
    BY <1>3, <1>6, <1>8, <2>1 DEF Free, Room
  <2>8. \A u \in Vars : Merged(a, n, u) = Merged(a, r, u) /\ Both(a, n, u) = Both(a, r, u)
    BY <1>3, <1>4, <2>1, <2>7, CopyEffect
  <2>9. At(n, v) # {} /\ \A u \in Vars \ {v} : At(n, u) = At(r, u)
    BY <1>3, <2>7, PutEffect
  <2> HIDE DEF n
  <2>10. \A u \in Vars : Durable(u)' = Durable(u) /\ Copies(u)' = Copies(u)
    <3>1. Marks(flash', "active", active) /\ Marks(flash', "receiving", receiving)
      BY <1>3, <2>5 DEF Marks
    <3> QED
      BY <1>0, <1>3, <2>5, <2>6, <2>8, <3>1, MappedStep DEF a, r
  <2>11. Above(a, n, k - 1)
    BY <1>4, <1>5, <2>1, <2>7, <2>9 DEF Above
  <2>12. StoreInv'
    BY <1>0, <1>1, <1>2, <2>5, <2>6, <2>11
       DEF StoreInv, Waiting, Formats, Transfers, Deletion
  <2> QED
    BY <1>1, <2>10, <2>12, Stutters
<1> QED
  BY <1>7, <1>8 DEF TransferCopy, PutInReceiving

\* The end of a transfer: old copies go with the old page.
LEMMA TransferStep == ASSUME MaxErrors = 0, Sound, Sound', StoreInv, Transfer
                      PROVE  StoreInv' /\ Simulated
<1>0. /\ TypeOK /\ IndexOK /\ HandleMatchesFlash /\ errors = 0 /\ errors' = 0
      /\ flash \in [Pages -> PageStates] /\ flash' \in [Pages -> PageStates]
      /\ booted \in BOOLEAN /\ HandleMatchesFlash'
      /\ Contiguous /\ Waiting /\ Formats /\ Transfers /\ Deletion
  BY DEF Sound, IndInv, TypeOK, StoreInv
<1>1. CASE TransferClean
  BY <1>0, <1>1 DEF TransferClean, HandleMatchesFlash
<1>2. CASE TransferMark
  BY <1>2, TransferMarkStep
<1>3. CASE TransferNew
  BY <1>3, TransferNewStep
<1>4. CASE TransferCopy
  BY <1>4, TransferCopyStep
<1>5. CASE TransferCount
  <2>1. /\ pc = "copy" /\ cur = 0 /\ UNCHANGED <<active, receiving, script>>
        /\ active \in Pages /\ receiving \in Pages
    BY <1>0, <1>5 DEF TransferCount, IndexOK
  <2>2. PICK ok \in BOOLEAN :
           /\ Outcome(ok)
           /\ ProgramCount(ok, receiving,
                BitsOf(EraseCounter + (IF receiving = 0 THEN 1 ELSE 0)))
           /\ IF ok THEN pc' = "drop" /\ UNCHANGED booted ELSE EndTransfer
    BY <1>5 DEF TransferCount
  <2>3. ok = TRUE /\ pc' = "drop" /\ booted' = booted
    BY <1>0, <2>2 DEF Outcome
  <2>4. \A q \in Pages : /\ flash'[q].status = flash[q].status
                         /\ flash'[q].word = flash[q].word
    BY <1>0, <2>1, <2>2, <2>3 DEF ProgramCount, PageStates
  <2>5. \A v \in Vars : Durable(v)' = Durable(v) /\ Copies(v)' = Copies(v)
    BY <1>0, <2>4, SameWords
  <2>6. /\ WordsOf(flash', active') = WordsOf(flash, active)
        /\ WordsOf(flash', receiving') = WordsOf(flash, receiving)
    BY <2>1, <2>4 DEF WordsOf
  <2>7. StoreInv'
    <3>1. Contiguous'
      BY <1>0, <2>4, StayContiguous
    <3> QED
      BY <1>0, <2>1, <2>3, <2>6, <3>1
         DEF StoreInv, Waiting, Formats, Transfers, Deletion
  <2> QED
    BY <2>1, <2>3, <2>5, <2>7, Stutters
<1>6. CASE TransferErase
  <2>1. /\ pc = "drop" /\ UNCHANGED <<active, receiving, script>>
        /\ active \in Pages /\ receiving \in Pages /\ TwoInUse
    BY <1>0, <1>6 DEF TransferErase, IndexOK, HandleMatchesFlash
  <2>2. PICK ok \in BOOLEAN :
           /\ Outcome(ok) /\ ErasePage(ok, active)
           /\ IF ok THEN pc' = "switch" /\ UNCHANGED booted ELSE EndTransfer
    BY <1>6 DEF TransferErase
  <2>3. ok = TRUE /\ pc' = "switch" /\ booted' = booted
    BY <1>0, <2>2 DEF Outcome
  <2>4. flash' = [flash EXCEPT ![active] = ErasedPage]
    BY <2>2, <2>3 DEF ErasePage
  <2> DEFINE a == WordsOf(flash, active)
             r == WordsOf(flash, receiving)
  <2>5. /\ Marks(flash, "active", active) /\ Marks(flash, "receiving", receiving)
        /\ receiving # active /\ active \in MayBePage /\ receiving \in MayBePage
        /\ a \in WordArrays /\ r \in WordArrays
    BY <1>0, <2>1, TwoPages
  <2>6. /\ Marks(flash', "active", NoPage) /\ Marks(flash', "receiving", receiving)
        /\ NoPage \in MayBePage
    BY <1>0, <2>1, <2>3 DEF HandleMatchesFlash, Only, Marks, MayBePage
  <2>7. WordsOf(flash', receiving) = r /\ WordsOf(flash', NoPage) = Blank
    BY <1>0, <2>1, <2>4, <2>5 DEF WordsOf
  <2>8. Above(a, r, 0)
    BY <1>0, <2>1 DEF Transfers
  <2> HIDE DEF a, r
  <2>9. \A v \in Vars : /\ Durable(v) = Value(r, v) /\ Copies(v) = Both(a, r, v)
                        /\ Durable(v)' = Value(r, v) /\ Copies(v)' = Values(r, v)
    <3>1. \A v \in Vars : Merged(a, r, v) = Value(r, v)
      BY <2>5, <2>8, EraseEffect
    <3>2. \A v \in Vars :
             /\ Durable(v) = Merged(a, r, v) /\ Copies(v) = Both(a, r, v)
             /\ Durable(v)' = Merged(Blank, r, v) /\ Copies(v)' = Both(Blank, r, v)
      BY <1>0, <2>5, <2>6, <2>7, MappedStep DEF a, r
    <3> QED
      BY <3>1, <3>2, MergedBlank
  <2>10. Store!Compact
    <3>1. \A v \in Vars : /\ Copies(v)' \in SUBSET Data /\ Copies(v)' \subseteq Copies(v)
                          /\ Durable(v) # None => Durable(v) \in Copies(v)'
                          /\ Durable(v)' = Durable(v)
      BY <2>5, <2>9, ValueIn DEF Both
    <3> QED
      BY <2>1, <2>3, <3>1 DEF Store!Compact, Store!Live, Store!None, None
  <2>11. StoreInv'
    <3>1. Contiguous'
      <4>1. \A p \in Pages : flash'[p].word = flash[p].word \/ flash'[p] = ErasedPage
        BY <1>0, <2>4
      <4> QED
        BY <1>0, <4>1, StayContiguous
    <3> QED
      BY <1>0, <2>1, <2>3, <3>1 DEF StoreInv, Waiting, Formats, Transfers, Deletion
  <2> QED
    BY <2>10, <2>11 DEF Simulated, Store!Next
<1>7. CASE TransferSwitch
  <2>1. /\ pc = "switch" /\ pc' = "ready" /\ booted' = TRUE /\ script' = script
        /\ receiving \in Pages
    BY <1>0, <1>7 DEF TransferSwitch, EndTransfer, IndexOK
  <2>2. /\ ProgramStatus(TRUE, receiving, "active")
        /\ active' = receiving /\ receiving' = NoPage
    <3>1. PICK ok \in BOOLEAN : /\ Outcome(ok) /\ ProgramStatus(ok, receiving, "active")
                                /\ IF ok THEN SwitchHandle ELSE UNCHANGED handle
      BY <1>7 DEF TransferSwitch
    <3>2. ok = TRUE
      BY <1>0, <3>1 DEF Outcome
    <3> QED
      BY <3>1, <3>2 DEF SwitchHandle
  <2>3. \A q \in Pages : flash'[q].word = flash[q].word
    BY <1>0, <2>1, <2>2, StatusWords DEF Status
  <2>4. /\ Marks(flash, "active", NoPage) /\ Marks(flash, "receiving", receiving)
        /\ Marks(flash', "active", receiving) /\ Marks(flash', "receiving", NoPage)
    <3>1. OneInUse'
      BY <1>0, <2>1 DEF HandleMatchesFlash
    <3>2. Only("active", active)' /\ Only("receiving", NoPage)'
      BY <3>1 DEF OneInUse
    <3> QED
      BY <1>0, <2>1, <2>2, <3>2 DEF Only, Marks, HandleMatchesFlash
  <2>5. \A v \in Vars : Durable(v)' = Durable(v) /\ Copies(v)' = Copies(v)
    <3>1. /\ WordsOf(flash', receiving) = WordsOf(flash, receiving)
          /\ WordsOf(flash', NoPage) = Blank /\ WordsOf(flash, NoPage) = Blank
      BY <2>1, <2>3 DEF WordsOf
    <3>2. receiving \in MayBePage /\ NoPage \in MayBePage
      BY <2>1 DEF MayBePage
    <3>3. \A v \in Vars :
             /\ Durable(v) = Merged(Blank, WordsOf(flash, receiving), v)
             /\ Copies(v) = Both(Blank, WordsOf(flash, receiving), v)
             /\ Durable(v)' = Merged(WordsOf(flash, receiving), Blank, v)
             /\ Copies(v)' = Both(WordsOf(flash, receiving), Blank, v)
      BY <1>0, <2>4, <3>1, <3>2, MappedStep
    <3> QED
      BY <3>3, MergedBlank
  <2>6. StoreInv'
    <3>1. Contiguous'
      BY <1>0, <2>3, StayContiguous
    <3> QED
      BY <1>0, <2>1, <3>1 DEF StoreInv, Waiting, Formats, Transfers, Deletion
  <2> QED
    BY <1>0, <2>1, <2>5, <2>6, Opens
<1> QED
  BY <1>1, <1>2, <1>3, <1>4, <1>5, <1>6, <1>7 DEF Transfer
\* eeprom_delete strikes out the copies one by one, newest first.
LEMMA DeletingStep == ASSUME MaxErrors = 0, Sound, Sound', StoreInv, Deleting
                      PROVE  StoreInv' /\ Simulated
<1>0. /\ TypeOK /\ IndexOK /\ HandleMatchesFlash /\ errors = 0 /\ errors' = 0
      /\ flash \in [Pages -> PageStates] /\ flash' \in [Pages -> PageStates]
      /\ booted \in BOOLEAN
      /\ Contiguous /\ Waiting /\ Formats /\ Transfers /\ Deletion
  BY DEF Sound, IndInv, TypeOK, StoreInv
<1>1. ASSUME flash' = flash
      PROVE  Contiguous' /\ \A v \in Vars : Durable(v)' = Durable(v) /\ Copies(v)' = Copies(v)
  BY <1>0, <1>1, SameWords DEF Contiguous
<1>2. CASE DeleteBegin
  <2>1. /\ pc' = "delete" /\ cur' = PageWords /\ Head(script).kind = "delete"
        /\ UNCHANGED <<flash, active, script, booted>>
    BY <1>2 DEF DeleteBegin, Running
  <2>2. \A k \in Index : ~(k > PageWords)
    BY EepromAssumption DEF Index
  <2>3. StoreInv'
    BY <1>0, <1>1, <2>1, <2>2 DEF StoreInv, Waiting, Formats, Transfers, Deletion
  <2> QED
    BY <1>1, <2>1, <2>3, Stutters
<1> DEFINE w == WordsOf(flash, active)
<1>3. ASSUME pc = "delete"
      PROVE  /\ active \in Pages /\ script # <<>> /\ booted /\ cur \in 0 .. PageWords
             /\ Head(script).kind = "delete" /\ Head(script).va \in Vars
             /\ Marks(flash, "active", active) /\ Marks(flash, "receiving", NoPage)
             /\ w = flash[active].word /\ w \in WordArrays /\ InOrder(w)
             /\ \A u \in Vars : Durable(u) = Value(w, u) /\ Copies(u) = Values(w, u)
  <2>1. active \in Pages /\ script # <<>> /\ booted /\ cur \in 0 .. PageWords /\ OneInUse
    BY <1>0, <1>3 DEF IndexOK, Waiting, HandleMatchesFlash
  <2>2. Head(script).kind = "delete" /\ Head(script).va \in Vars
    BY <1>0, <1>3, <2>1, HeadType DEF Deletion
  <2> QED
    BY <1>0, <2>1, <2>2, OnePage DEF Contiguous
<1> HIDE DEF w
<1>4. CASE DeleteWord
  <2>1. /\ pc = "delete" /\ pc' = "delete" /\ cur > 0 /\ cur' = cur - 1
        /\ UNCHANGED <<active, receiving, script, booted>>
    BY <1>4 DEF DeleteWord
  <2>2. PICK v \in Vars : v = Head(script).va
    BY <1>3, <2>1
  <2>3. PICK k \in Index : k = cur
    <3>1. cur \in Index
      BY <1>3, <2>1, EepromAssumption DEF Index
    <3> QED
      BY <3>1
  <2>4. \A j \in Index : j > cur' => j > k \/ j = k
    BY <2>1, <2>3, EepromAssumption DEF Index
  <2>5. \A j \in Index : j > k => w[j].va # v
    BY <1>0, <1>3, <2>1, <2>2, <2>3 DEF Deletion
  <2>6. CASE w[k].va # v
    <3>1. flash' = flash
      BY <1>3, <1>4, <2>1, <2>2, <2>3, <2>6 DEF DeleteWord
    <3>2. \A j \in Index : j > cur' => flash'[active'].word[j].va # Head(script').va
      BY <1>3, <2>1, <2>2, <2>4, <2>5, <2>6, <3>1
    <3>3. StoreInv'
      BY <1>0, <1>1, <1>3, <2>1, <3>1, <3>2
         DEF StoreInv, Waiting, Formats, Transfers, Deletion
    <3> QED
      BY <1>1, <2>1, <3>1, <3>3, Stutters
  <2>7. CASE w[k].va = v
    <3>1. PICK ok \in BOOLEAN : ProgramWord(ok, active, k, Dead) /\ Outcome(ok)
      BY <1>3, <1>4, <2>1, <2>2, <2>3, <2>7 DEF DeleteWord
    <3>2. ok = TRUE
      BY <1>0, <3>1 DEF Outcome
    <3> DEFINE n == [w EXCEPT ![k] = Dead]
    <3>3. /\ flash'[active].word = n
          /\ \A q \in Pages : /\ flash'[q].status = flash[q].status
                              /\ q # active => flash'[q] = flash[q]
      <4>1. /\ flash'[active].word = [flash[active].word EXCEPT ![k] = Dead]
            /\ \A q \in Pages : /\ flash'[q].status = flash[q].status
                                /\ q # active => flash'[q] = flash[q]
        BY <1>0, <1>3, <2>1, <3>1, <3>2, WordEffect
      <4>2. w = flash[active].word
        BY <1>3, <2>1
      <4> QED
        BY <4>1, <4>2
    <3>4. WordsOf(flash', active) = n
      BY <1>3, <2>1, <3>3 DEF WordsOf, NoPage, Pages
    <3>5. k \in At(w, v)
      BY <2>7 DEF At
    <3>6. /\ n \in WordArrays /\ InOrder(n) /\ Values(n, v) \subseteq Values(w, v)
          /\ \A u \in Vars \ {v} : Value(n, u) = Value(w, u) /\ Values(n, u) = Values(w, u)
      <4>1. w \in WordArrays /\ InOrder(w)
        BY <1>3, <2>1
      <4>2. n \in WordArrays /\ n[k] = Dead /\ \A j \in Index \ {k} : n[j] = w[j]
        BY <4>1 DEF WordArrays, Words
      <4> HIDE DEF n
      <4> QED
        BY <2>2, <3>5, <4>1, <4>2, StruckOut
    <3>7. \A j \in Index : j > cur' => n[j].va # v
      <4>1. w \in [Index -> Words]
        BY <1>3, <2>1 DEF WordArrays
      <4>2. \A j \in Index : j # k => n[j] = w[j]
        BY <4>1
      <4>3. n[k].va # v
        BY <4>1 DEF Dead, Vars
      <4>4. \A j \in Index : j > k => j # k
        BY EepromAssumption DEF Index
      <4> HIDE DEF n
      <4> QED
        BY <2>4, <2>5, <4>2, <4>3, <4>4
    <3> HIDE DEF n
    <3>8. \A u \in Vars : Durable(u)' = Value(n, u) /\ Copies(u)' = Values(n, u)
      <4>1. Marks(flash', "active", active) /\ Marks(flash', "receiving", NoPage)
        BY <1>3, <2>1, <3>3 DEF Marks
      <4>2. WordsOf(flash', NoPage) = Blank /\ active \in MayBePage /\ NoPage \in MayBePage
        BY <1>3, <2>1 DEF WordsOf, MayBePage
      <4>3. \A u \in Vars : Durable(u)' = Merged(n, Blank, u) /\ Copies(u)' = Both(n, Blank, u)
        BY <1>0, <1>3, <2>1, <3>4, <4>1, <4>2, MappedStep
      <4> QED
        BY <4>3, MergedBlank
    <3>9. /\ Copies(v)' \subseteq Copies(v)
          /\ Durable(v)' \in Copies(v)' \cup {None}
          /\ \A u \in Vars \ {v} : Durable(u)' = Durable(u) /\ Copies(u)' = Copies(u)
      BY <1>3, <2>1, <3>6, <3>8, ValueIn
    <3>10. Store!Fade
      BY <1>3, <2>1, <2>2, <3>9 DEF Store!Fade, Store!None, None
    <3>11. Contiguous'
      BY <1>0, <3>3, <3>6 DEF Contiguous
    <3>12. StoreInv'
      BY <1>0, <1>3, <2>1, <2>2, <3>3, <3>7, <3>11
         DEF StoreInv, Waiting, Formats, Transfers, Deletion
    <3> QED
      BY <3>10, <3>12 DEF Simulated, Store!Next
  <2> QED
    BY <2>6, <2>7
<1>5. CASE DeleteEnd
  <2>1. /\ pc = "delete" /\ pc' = "ready" /\ cur = 0 /\ script' = Tail(script)
        /\ UNCHANGED <<flash, active, receiving, booted>>
    BY <1>5 DEF DeleteEnd
  <2>2. PICK v \in Vars : v = Head(script).va
    BY <1>3, <2>1
  <2>3. At(w, v) = {}
    <3>1. \A j \in Index : j > 0
      BY EepromAssumption DEF Index
    <3>2. \A j \in Index : w[j].va # v
      BY <1>0, <1>3, <2>1, <2>2, <3>1 DEF Deletion
    <3> QED
      BY <3>2 DEF At
  <2>4. Durable(v) = None /\ Copies(v) = {}
    BY <1>3, <2>1, <2>3, ValueIn
  <2>5. Store!Deleted
    BY <1>1, <1>3, <2>1, <2>2, <2>4 DEF Store!Deleted, Store!None, None
  <2>6. StoreInv'
    BY <1>0, <1>1, <1>3, <2>1 DEF StoreInv, Waiting, Formats, Transfers, Deletion
  <2> QED
    BY <2>5, <2>6 DEF Simulated, Store!Next
<1> QED
  BY <1>2, <1>4, <1>5 DEF Deleting

\* A power failure changes nothing in the store.
LEMMA PowerLossStep == ASSUME MaxErrors = 0, Sound, Sound', StoreInv, PowerLoss
                       PROVE  StoreInv' /\ Simulated
<1>0. /\ flash' = flash /\ pc' = "off" /\ booted' = FALSE /\ script' = <<>>
      /\ flash \in [Pages -> PageStates] /\ Contiguous
  BY DEF PowerLoss, Sound, IndInv, TypeOK, StoreInv
<1>1. \A v \in Vars : Durable(v)' = Durable(v) /\ Copies(v)' = Copies(v)
  BY <1>0, SameWords
<1>2. Contiguous'
  BY <1>0 DEF Contiguous
<1>3. StoreInv'
  BY <1>0, <1>2 DEF StoreInv, Waiting, Formats, Transfers, Deletion
<1>4. Store!PowerLoss
  BY <1>0, <1>1 DEF Store!PowerLoss
<1> QED
  BY <1>3, <1>4 DEF Simulated, Store!Next

\* A new board has an empty store.
LEMMA InitStore == Init => StoreInv /\ Store!Init
<1> SUFFICES ASSUME Init PROVE StoreInv /\ Store!Init
  OBVIOUS
<1>1. /\ flash \in [Pages -> {ErasedPage, ForeignPage}]
      /\ pc = "off" /\ script = <<>> /\ booted = FALSE
  BY DEF Init
<1>2. Contiguous
  <2>1. InOrder(ForeignPage.word)
    BY DEF InOrder, ForeignPage, Dead, Empty
  <2>2. InOrder(ErasedPage.word)
    BY ErasedBlank
  <2>3. \A p \in Pages : flash[p] \in {ErasedPage, ForeignPage}
    BY <1>1
  <2> QED
    BY <2>1, <2>2, <2>3 DEF Contiguous
<1>3. StoreInv
  BY <1>1, <1>2 DEF StoreInv, Waiting, Formats, Transfers, Deletion
<1>4. \A v \in Vars : Durable(v) = None /\ Copies(v) = {}
  <2>1. \A p \in Pages : flash[p].status \notin {"active", "receiving"}
    BY <1>1 DEF ErasedPage, ForeignPage
  <2> QED
    BY <2>1 DEF Durable, Copies, HasActive, HasReceiving, PagesOf
<1> QED
  BY <1>1, <1>3, <1>4 DEF Store!Init, Store!None, None
----------------------------------------------------------------------------
(* The theorems.                                                           *)

\* Every step of the emulation is a step of the store, or none.
LEMMA StoreNext == ASSUME MaxErrors = 0, Sound, Sound', StoreInv, [Next]_vars
                   PROVE  StoreInv' /\ Simulated
<1>1. CASE Step
  BY <1>1, StartingStep, FormattingStep, WritingStep, TransferStep, DeletingStep
     DEF Step
<1>2. CASE Calling
  BY <1>2, CallingStep
<1>3. CASE PowerLoss
  BY <1>3, PowerLossStep
<1>4. CASE UNCHANGED vars
  <2>1. UNCHANGED <<flash, active, receiving, pc, cur, script, booted>>
    BY <1>4 DEF vars
  <2>2. \A v \in Vars : Durable(v)' = Durable(v) /\ Copies(v)' = Copies(v)
    BY <2>1, SameWords DEF Sound, IndInv, TypeOK
  <2>3. StoreInv'
    BY <2>1 DEF StoreInv, Contiguous, Waiting, Formats, Transfers, Deletion
  <2> QED
    BY <2>1, <2>2, <2>3, Stutters
<1> QED
  BY <1>1, <1>2, <1>3, <1>4 DEF Next

\* A driver that reports no error leaves the count at 0.
LEMMA SoundStart == MaxErrors = 0 /\ IndInv /\ HandleMatchesFlash => Sound
BY DEF Sound, IndInv, TypeOK

\* The emulation of eeprom_emulation.c implements EepromStore when the flash
\* driver reports no error, wherever power is lost: every step of every
\* function is a step of the durable map of EepromStore, or changes nothing.
THEOREM Implements == MaxErrors = 0 => (Spec => StoreSpec)
<1> SUFFICES ASSUME MaxErrors = 0 PROVE Spec => StoreSpec
  OBVIOUS
<1>1. Init => IndInv /\ HandleMatchesFlash /\ StoreInv /\ Store!Init
  BY InitType, InitStore
     DEF Init, HandleMatchesFlash, AtMostOne, PagesOf, ErasedPage, ForeignPage
<1>2. IndInv /\ HandleMatchesFlash /\ [Next]_vars => IndInv' /\ HandleMatchesFlash'
  BY NextType, NextHandle
<1>3. IndInv /\ HandleMatchesFlash => Sound
  BY SoundStart
<1>4. Sound /\ Sound' /\ StoreInv /\ [Next]_vars
      => StoreInv' /\ [Store!Next]_(Store!vars)
  BY StoreNext DEF Simulated
<1> QED
  BY <1>1, <1>2, <1>3, <1>4, PTL DEF Spec, StoreSpec, Store!Spec

\* Between two calls eeprom_read returns, for every variable, what a restart
\* would recover, as long as the flash driver has reported no error.
THEOREM ReadsAreDurable == Spec => []ReadsDurable
<1>1. Init => IndInv /\ HandleMatchesFlash
  BY InitType
     DEF Init, HandleMatchesFlash, AtMostOne, PagesOf, ErasedPage, ForeignPage
<1>2. IndInv /\ HandleMatchesFlash /\ [Next]_vars => IndInv' /\ HandleMatchesFlash'
  BY NextType, NextHandle
<1>3. IndInv /\ HandleMatchesFlash => ReadsDurable
  <2> SUFFICES ASSUME IndInv, HandleMatchesFlash, errors = 0, pc = "ready"
               PROVE  \A v \in Vars : Read(v) = Durable(v)
    BY DEF ReadsDurable
  <2>1. flash \in [Pages -> PageStates] /\ active \in Pages /\ OneInUse
    BY DEF IndInv, TypeOK, IndexOK, HandleMatchesFlash
  <2> QED
    BY <2>1, OnePage
<1> QED
  BY <1>1, <1>2, <1>3, PTL DEF Spec

----------------------------------------------------------------------------
(* The marks with one error of the driver.                                 *)

ActiveIn(S) == PagesOf("active") \subseteq S

\* Up to one error: a page is marked active only when no other is, because the
\* page it replaces has been erased, and the mark of a transfer goes to a page
\* that is erased or carries it already (what another firmware left would have
\* to survive an erasure in eeprom_init and one in the transfer).
MarksKept ==
    errors <= 1 =>
    /\ AtMostOne("active")
    /\ pc = "scan" => /\ active < cur
                      /\ active # NoPage => flash[active].status = "active"
                      /\ \A p \in Pages : p < cur =>
                            /\ flash[p].status = "active" => p = active
                            /\ flash[p].status = "other" => errors = 1
    /\ pc = "format" => /\ active # NoPage => ActiveIn({active})
                        /\ \A p \in Pages : p > cur => flash[p].status = "erased"
    /\ pc \in {"adopt", "formatted", "switch"} => ActiveIn({})
    /\ pc \in {"ready", "delete", "clean", "mark", "new", "copy", "drop"}
          => ActiveIn({active})
    /\ pc \notin {"off", "scan", "format", "wild"} /\ errors = 0
          => PagesOf("other") = {}
    /\ receiving \in Pages /\ pc # "clean" => flash[receiving].status # "other"

\* A call of the driver never takes an error back.
LEMMA OutcomeCounts ==
    ASSUME errors \in 0 .. MaxErrors, NEW ok \in BOOLEAN, Outcome(ok)
    PROVE  /\ errors \in Nat /\ errors' \in Nat /\ errors <= errors'
           /\ ~ok => errors' = errors + 1
BY EepromAssumption DEF Outcome

\* What erasing a page does to the marks.
LEMMA EraseFrame ==
    ASSUME flash \in [Pages -> PageStates], NEW p \in Pages, NEW ok \in BOOLEAN,
           ErasePage(ok, p)
    PROVE  /\ flash'[p].status = IF ok THEN "erased" ELSE flash[p].status
           /\ \A q \in Pages : q # p => flash'[q].status = flash[q].status
BY DEF ErasePage, ErasedPage

\* What programming a mark does to the marks.
LEMMA StatusFrame ==
    ASSUME flash \in [Pages -> PageStates], NEW p \in Pages, NEW ok \in BOOLEAN,
           NEW s \in {"active", "receiving"}, ProgramStatus(ok, p, s)
    PROVE  /\ \A q \in Pages : q # p => flash'[q].status = flash[q].status
           /\ flash'[p].status \in IF ok THEN AndStatus(flash[p].status, s)
                                   ELSE {flash[p].status}
<1>1. CASE ok
  <2>1. PICK t \in AndStatus(flash[p].status, s) :
           flash' = [flash EXCEPT ![p].status = t]
    BY <1>1 DEF ProgramStatus
  <2> QED
    BY <1>1, <2>1 DEF PageStates
<1>2. CASE ~ok
  BY <1>2 DEF ProgramStatus
<1> QED
  BY <1>1, <1>2

LEMMA StartingMarks == ASSUME IndInv, MarksKept, Starting, errors' <= 1
                       PROVE  MarksKept'
<1>0. TypeOK /\ IndexOK /\ flash \in [Pages -> PageStates] /\ errors \in 0 .. MaxErrors
  BY DEF IndInv, TypeOK
<1>1. CASE Boot
  <2>1. errors <= 1 /\ pc = "off" /\ flash' = flash /\ errors' = errors
    BY <1>1 DEF Boot
  <2>2. AtMostOne("active")
    BY <2>1 DEF MarksKept
  <2> QED
    BY <1>1, <2>1, <2>2 DEF Boot, MarksKept, AtMostOne, PagesOf, Pages, NoPage
<1>2. CASE ScanMarked
  <2>1. /\ errors <= 1 /\ pc = "scan" /\ flash' = flash /\ cur \in Pages /\ errors' = errors
        /\ active \in Pages \cup {NoPage} /\ receiving \in Pages \cup {NoPage}
    BY <1>0, <1>2, EepromAssumption DEF ScanMarked, TypeOK, IndexOK, Pages
  <2>2. /\ AtMostOne("active") /\ active < cur
        /\ active # NoPage => flash[active].status = "active"
        /\ \A p \in Pages : p < cur =>
              /\ flash[p].status = "active" => p = active
              /\ flash[p].status = "other" => errors = 1
        /\ receiving \in Pages => flash[receiving].status # "other"
    BY <2>1 DEF MarksKept
  <2>3. CASE flash[cur].status = "active"
    <3>1. active = NoPage
      BY <2>1, <2>2, <2>3 DEF AtMostOne, PagesOf, Pages, NoPage
    <3>2. active' = cur /\ cur' = cur + 1 /\ pc' = pc /\ receiving' = receiving
      BY <1>2, <2>3, <3>1 DEF ScanMarked
    <3> QED
      BY <2>1, <2>2, <2>3, <3>1, <3>2 DEF MarksKept, AtMostOne, PagesOf, Pages, NoPage
  <2>4. CASE flash[cur].status = "receiving"
    <3>1. active' = active
      BY <1>2, <2>4 DEF ScanMarked
    <3>2. CASE receiving = NoPage
      <4>1. receiving' = cur /\ cur' = cur + 1 /\ pc' = pc
        BY <1>2, <2>4, <3>2 DEF ScanMarked
      <4> QED
        BY <2>1, <2>2, <2>4, <3>1, <4>1 DEF MarksKept, AtMostOne, PagesOf, Pages, NoPage
    <3>3. CASE receiving # NoPage
      <4>1. receiving' = receiving /\ pc' = "format" /\ cur' = NumPages - 1
        BY <1>2, <2>4, <3>3 DEF ScanMarked, StartFormat
      <4>2. active # NoPage => ActiveIn({active})
        BY <2>1, <2>2 DEF ActiveIn, AtMostOne, PagesOf
      <4> QED
        BY <2>1, <2>2, <3>1, <4>1, <4>2, EepromAssumption
           DEF MarksKept, ActiveIn, AtMostOne, PagesOf, Pages, NoPage
    <3> QED
      BY <3>2, <3>3
  <2> QED
    BY <1>2, <2>3, <2>4 DEF ScanMarked
<1>3. CASE ScanUnmarked
  <2>1. /\ pc = "scan" /\ pc' = pc /\ cur' = cur + 1 /\ cur \in Pages
        /\ active' = active /\ receiving' = receiving
        /\ flash[cur].status \in {"erased", "other"}
        /\ active \in Pages \cup {NoPage} /\ receiving \in Pages \cup {NoPage}
    BY <1>0, <1>3, EepromAssumption DEF ScanUnmarked, TypeOK, IndexOK, Pages
  <2>2. /\ errors \in Nat /\ errors' \in Nat /\ errors <= errors'
        /\ flash'[cur].status \in {"erased", "other"}
        /\ \A q \in Pages : q # cur => flash'[q].status = flash[q].status
        /\ flash'[cur].status = "other" => errors' = 1
    <3>1. CASE ValidEmpty(cur)
      BY <1>0, <1>3, <2>1, <3>1, EepromAssumption DEF ScanUnmarked, ValidEmpty, ErasedPage
    <3>2. CASE ~ValidEmpty(cur)
      <4>1. PICK ok \in BOOLEAN : ErasePage(ok, cur) /\ Outcome(ok)
        BY <1>3, <3>2 DEF ScanUnmarked
      <4> QED
        BY <1>0, <2>1, <4>1, EraseFrame, OutcomeCounts
    <3> QED
      BY <3>1, <3>2
  <2>3. /\ AtMostOne("active") /\ active < cur
        /\ active # NoPage => flash[active].status = "active"
        /\ \A p \in Pages : p < cur =>
              /\ flash[p].status = "active" => p = active
              /\ flash[p].status = "other" => errors = 1
        /\ receiving \in Pages => flash[receiving].status # "other"
    BY <2>1, <2>2 DEF MarksKept
  <2>4. AtMostOne("active")'
    BY <2>1, <2>2, <2>3 DEF AtMostOne, PagesOf
  <2>5. receiving' \in Pages => flash'[receiving'].status # "other"
    <3>1. receiving \in Pages /\ receiving = cur => flash[cur].status = "erased"
      BY <2>1, <2>3
    <3>2. flash[cur].status = "erased" => flash'[cur].status = "erased"
      <4>1. CASE ValidEmpty(cur)
        BY <1>0, <1>3, <2>1, <4>1 DEF ScanUnmarked
      <4>2. CASE ~ValidEmpty(cur)
        <5>1. PICK ok \in BOOLEAN : ErasePage(ok, cur)
          BY <1>3, <4>2 DEF ScanUnmarked
        <5> QED
          BY <1>0, <2>1, <5>1, EraseFrame
      <4> QED
        BY <4>1, <4>2
    <3> QED
      BY <2>1, <2>2, <2>3, <3>1, <3>2
  <2>6. /\ active' < cur'
        /\ active' # NoPage => flash'[active'].status = "active"
        /\ \A p \in Pages : p < cur' =>
              /\ flash'[p].status = "active" => p = active'
              /\ flash'[p].status = "other" => errors' = 1
    BY <2>1, <2>2, <2>3 DEF Pages, NoPage
  <2> QED
    BY <2>1, <2>4, <2>5, <2>6 DEF MarksKept
<1>4. CASE ScanDone
  <2>1. /\ errors <= 1 /\ pc = "scan" /\ flash' = flash /\ cur = NumPages /\ errors' = errors
        /\ active \in Pages \cup {NoPage} /\ receiving \in Pages \cup {NoPage}
    BY <1>0, <1>4 DEF ScanDone, TypeOK
  <2>2. /\ AtMostOne("active")
        /\ \A p \in Pages : /\ flash[p].status = "active" => p = active
                            /\ flash[p].status = "other" => errors = 1
        /\ receiving \in Pages => flash[receiving].status # "other"
    BY <2>1, EepromAssumption DEF MarksKept, Pages
  <2>3. /\ ActiveIn({active}) /\ (active = NoPage => ActiveIn({}))
        /\ errors = 0 => PagesOf("other") = {}
    BY <2>2 DEF ActiveIn, PagesOf, Pages, NoPage
  <2>4. AtMostOne("active")' /\ (errors' = 0 => PagesOf("other")' = {})
    BY <2>1, <2>2, <2>3 DEF AtMostOne, PagesOf
  <2>5. CASE active = NoPage /\ receiving = NoPage
    <3>1. pc' = "format" /\ active' = active /\ receiving' = receiving /\ cur' = NumPages - 1
      BY <1>4, <2>5 DEF ScanDone, StartFormat
    <3> QED
      BY <2>1, <2>4, <2>5, <3>1, EepromAssumption DEF MarksKept, Pages, NoPage
  <2>6. CASE receiving = NoPage /\ active # NoPage
    <3>1. pc' = "ready" /\ active' = active /\ receiving' = receiving
      BY <1>4, <2>6 DEF ScanDone
    <3> QED
      BY <2>1, <2>3, <2>4, <2>6, <3>1 DEF MarksKept, ActiveIn, PagesOf, Pages, NoPage
  <2>7. CASE receiving # NoPage /\ active = NoPage
    <3>1. pc' = "adopt" /\ active' = receiving /\ receiving' = NoPage
      BY <1>4, <2>7 DEF ScanDone
    <3> QED
      BY <2>1, <2>3, <2>4, <2>7, <3>1 DEF MarksKept, ActiveIn, PagesOf, Pages, NoPage
  <2>8. CASE receiving # NoPage /\ active # NoPage
    <3>1. pc' = "mark" /\ active' = active /\ receiving' = receiving
      BY <1>4, <2>8 DEF ScanDone
    <3> QED
      BY <2>1, <2>2, <2>3, <2>4, <2>8, <3>1 DEF MarksKept, ActiveIn, PagesOf
  <2> QED
    BY <2>5, <2>6, <2>7, <2>8
<1>5. CASE Adopt
  <2>1. PICK ok \in BOOLEAN : ProgramStatus(ok, active, "active") /\ Outcome(ok)
    BY <1>5 DEF Adopt
  <2>2. /\ pc = "adopt" /\ pc' = "ready" /\ active' = active
        /\ receiving' = receiving /\ active \in Pages
    BY <1>0, <1>5 DEF Adopt, IndexOK
  <2>3. /\ errors \in Nat /\ errors <= errors' /\ errors' \in Nat
    BY <1>0, <2>1, OutcomeCounts
  <2>4. /\ ActiveIn({}) /\ (errors = 0 => PagesOf("other") = {})
        /\ receiving \in Pages => flash[receiving].status # "other"
    BY <1>0, <2>2, <2>3 DEF MarksKept
  <2>5. /\ \A q \in Pages : q # active => flash'[q].status = flash[q].status
        /\ flash'[active].status \in {"active", flash[active].status}
    BY <1>0, <2>1, <2>2, StatusFrame DEF AndStatus
  <2>6. ActiveIn({active})' /\ AtMostOne("active")'
    BY <2>2, <2>4, <2>5 DEF ActiveIn, AtMostOne, PagesOf
  <2>7. /\ errors' = 0 => PagesOf("other")' = {}
        /\ receiving' \in Pages => flash'[receiving'].status # "other"
    BY <2>2, <2>3, <2>4, <2>5 DEF PagesOf
  <2> QED
    BY <2>2, <2>6, <2>7 DEF MarksKept
<1> QED
  BY <1>1, <1>2, <1>3, <1>4, <1>5 DEF Starting

LEMMA FormattingMarks == ASSUME IndInv, MarksKept, Formatting, errors' <= 1
                         PROVE  MarksKept'
<1>0. TypeOK /\ IndexOK /\ flash \in [Pages -> PageStates] /\ errors \in 0 .. MaxErrors
  BY DEF IndInv, TypeOK
<1>1. CASE FormatErase
  <2>1. /\ pc = "format" /\ cur >= 0 /\ cur \in Pages
        /\ active' = active /\ receiving' = receiving
        /\ active \in Pages \cup {NoPage}
    BY <1>0, <1>1, EepromAssumption DEF FormatErase, IndexOK, TypeOK, Pages
  <2>2. /\ errors \in Nat /\ errors' \in Nat /\ errors <= errors'
        /\ flash'[cur].status \in {"erased", flash[cur].status}
        /\ \A q \in Pages : q # cur => flash'[q].status = flash[q].status
        /\ \/ pc' = "format" /\ cur' = cur - 1 /\ flash'[cur].status = "erased"
           \/ pc' = "wild" /\ active = NoPage
           \/ pc' = "ready" /\ active # NoPage /\ errors' = errors + 1
    <3>1. CASE ValidEmpty(cur)
      BY <1>0, <1>1, <2>1, <3>1, EepromAssumption DEF FormatErase, ValidEmpty, ErasedPage
    <3>2. CASE ~ValidEmpty(cur)
      <4>1. PICK ok \in BOOLEAN :
               /\ ErasePage(ok, cur) /\ Outcome(ok)
               /\ IF ok THEN cur' = cur - 1 /\ UNCHANGED pc
                        ELSE UNCHANGED cur /\ GiveUpFormat
        BY <1>1, <3>2 DEF FormatErase
      <4> QED
        BY <1>0, <2>1, <4>1, EraseFrame, OutcomeCounts DEF GiveUpFormat
    <3> QED
      BY <3>1, <3>2
  <2>3. /\ AtMostOne("active") /\ (active # NoPage => ActiveIn({active}))
        /\ \A p \in Pages : p > cur => flash[p].status = "erased"
        /\ receiving \in Pages => flash[receiving].status # "other"
    BY <2>1, <2>2 DEF MarksKept
  <2>4. /\ AtMostOne("active")' /\ (active' # NoPage => ActiveIn({active})')
        /\ receiving' \in Pages => flash'[receiving'].status # "other"
    BY <2>1, <2>2, <2>3 DEF AtMostOne, ActiveIn, PagesOf
  <2>5. \A p \in Pages : pc' = "format" /\ p > cur' => flash'[p].status = "erased"
    BY <2>1, <2>2, <2>3 DEF Pages
  <2> QED
    BY <2>1, <2>2, <2>4, <2>5 DEF MarksKept
<1>2. CASE FormatCount
  <2>1. PICK ok \in BOOLEAN :
           /\ ProgramCount(ok, 0, BitsOf(1)) /\ Outcome(ok)
           /\ pc' = IF ok THEN "formatted" ELSE "ready"
    BY <1>2 DEF FormatCount
  <2>2. /\ pc = "format" /\ cur = -1 /\ active' = 0 /\ receiving' = NoPage /\ 0 \in Pages
        /\ errors \in Nat /\ errors' \in Nat /\ errors <= errors'
    BY <1>0, <1>2, <2>1, OutcomeCounts, EepromAssumption DEF FormatCount, Pages
  <2>3. \A p \in Pages : flash[p].status = "erased"
    BY <2>2 DEF MarksKept, Pages
  <2>4. \A p \in Pages : flash'[p].status = "erased"
    BY <1>0, <2>1, <2>2, <2>3, CountFrame
  <2> QED
    BY <2>1, <2>2, <2>4 DEF MarksKept, AtMostOne, ActiveIn, PagesOf, Pages, NoPage
<1>3. CASE FormatActivate
  <2>1. PICK ok \in BOOLEAN : ProgramStatus(ok, active, "active") /\ Outcome(ok)
    BY <1>3 DEF FormatActivate
  <2>2. /\ pc = "formatted" /\ pc' = "ready" /\ active' = active
        /\ receiving' = receiving /\ active \in Pages
    BY <1>0, <1>3 DEF FormatActivate, IndexOK
  <2>3. /\ errors \in Nat /\ errors <= errors' /\ errors' \in Nat
    BY <1>0, <2>1, OutcomeCounts
  <2>4. /\ ActiveIn({}) /\ (errors = 0 => PagesOf("other") = {})
        /\ receiving \in Pages => flash[receiving].status # "other"
    BY <1>0, <2>2, <2>3 DEF MarksKept
  <2>5. /\ \A q \in Pages : q # active => flash'[q].status = flash[q].status
        /\ flash'[active].status \in {"active", flash[active].status}
    BY <1>0, <2>1, <2>2, StatusFrame DEF AndStatus
  <2>6. ActiveIn({active})' /\ AtMostOne("active")'
    BY <2>2, <2>4, <2>5 DEF ActiveIn, AtMostOne, PagesOf
  <2>7. /\ errors' = 0 => PagesOf("other")' = {}
        /\ receiving' \in Pages => flash'[receiving'].status # "other"
    BY <2>2, <2>3, <2>4, <2>5 DEF PagesOf
  <2> QED
    BY <2>2, <2>6, <2>7 DEF MarksKept
<1> QED
  BY <1>1, <1>2, <1>3 DEF Formatting

\* Between the calls of a running function nothing but pages[active] is
\* marked active.
Busy == {"ready", "delete", "mark", "new", "copy", "drop"}

\* A step that leaves the marks alone.
LEMMA SameMarks ==
    ASSUME MarksKept, errors \in Nat, errors' \in Nat, errors <= errors', errors' <= 1,
           pc \in Busy, pc' \in Busy, active' = active,
           receiving' = receiving,
           \A q \in Pages : flash'[q].status = flash[q].status
    PROVE  MarksKept'
<1>1. /\ ActiveIn({active}) /\ AtMostOne("active")
      /\ errors = 0 => PagesOf("other") = {}
      /\ receiving \in Pages => flash[receiving].status # "other"
  BY DEF MarksKept, Busy
<1>2. /\ ActiveIn({active})' /\ AtMostOne("active")'
      /\ errors' = 0 => PagesOf("other")' = {}
  BY <1>1 DEF ActiveIn, AtMostOne, PagesOf
<1> QED
  BY <1>1, <1>2 DEF MarksKept, Busy

LEMMA StartTransferMarks ==
    ASSUME MarksKept, errors \in Nat, errors' \in Nat, errors <= errors', errors' <= 1,
           pc = "ready", active \in Pages, active' = active, StartTransfer,
           \A q \in Pages : flash'[q].status = flash[q].status
    PROVE  MarksKept'
<1>1. /\ ActiveIn({active}) /\ AtMostOne("active")
      /\ errors = 0 => PagesOf("other") = {}
      /\ receiving \in Pages => flash[receiving].status # "other"
  BY DEF MarksKept
<1>2. /\ ActiveIn({active})' /\ AtMostOne("active")'
      /\ errors' = 0 => PagesOf("other")' = {}
  BY <1>1 DEF ActiveIn, AtMostOne, PagesOf
<1>3. /\ pc' \in {"mark", "clean"}
      /\ receiving' \in Pages /\ pc' # "clean" => flash[receiving'].status # "other"
  <2>1. CASE receiving # NoPage
    BY <1>1, <2>1 DEF StartTransfer
  <2>2. CASE receiving = NoPage
    BY <2>2 DEF StartTransfer, ValidEmpty, ErasedPage
  <2> QED
    BY <2>1, <2>2
<1> QED
  BY <1>2, <1>3 DEF MarksKept

LEMMA WritingMarks == ASSUME IndInv, MarksKept, Writing, errors' <= 1
                      PROVE  MarksKept'
<1>0. TypeOK /\ IndexOK /\ flash \in [Pages -> PageStates] /\ errors \in 0 .. MaxErrors
      /\ errors \in Nat
  BY EepromAssumption DEF IndInv, TypeOK
<1>1. CASE WriteSame
  BY <1>0, <1>1, SameMarks DEF WriteSame, Running, Busy
<1>2. CASE WriteWord
  <2>1. PICK ok \in BOOLEAN :
           /\ Outcome(ok)
           /\ ProgramWord(ok, active, First(Free(active)),
                [va |-> Head(script).va, data |-> Head(script).data])
           /\ IF ok THEN script' = Tail(script) /\ UNCHANGED <<receiving, pc>>
                    ELSE StartTransfer /\ UNCHANGED script
    BY <1>2 DEF WriteWord
  <2>2. /\ pc = "ready" /\ active' = active /\ active \in Pages
    BY <1>0, <1>2 DEF WriteWord, Stores, Running, IndexOK
  <2>3. \A q \in Pages : flash'[q].status = flash[q].status
    BY <1>0, <2>1, <2>2, WordFrame
  <2>4. errors' \in Nat /\ errors <= errors'
    BY <1>0, <2>1, OutcomeCounts
  <2>5. CASE ok
    BY <1>0, <2>1, <2>2, <2>3, <2>4, <2>5, SameMarks DEF Busy
  <2>6. CASE ~ok
    BY <1>0, <2>1, <2>2, <2>3, <2>4, <2>6, StartTransferMarks
  <2> QED
    BY <2>5, <2>6
<1>3. CASE WriteFull
  <2>1. /\ pc = "ready" /\ StartTransfer /\ active \in Pages
        /\ UNCHANGED <<flash, active, errors>>
    BY <1>0, <1>3 DEF WriteFull, Stores, Running, IndexOK
  <2> QED
    BY <1>0, <2>1, StartTransferMarks
<1> QED
  BY <1>1, <1>2, <1>3 DEF Writing

\* What a value put into the receiving page does to errors.
LEMMA PutCounts ==
    ASSUME errors \in 0 .. MaxErrors, NEW w, PutInReceiving(w)
    PROVE  errors \in Nat /\ errors' \in Nat /\ errors <= errors'
<1>1. errors \in Nat
  BY EepromAssumption
<1> QED
  BY <1>1, OutcomeCounts DEF PutInReceiving

LEMMA TransferMarks == ASSUME IndInv, MarksKept, Transfer, errors' <= 1
                       PROVE  MarksKept'
<1>0. TypeOK /\ IndexOK /\ flash \in [Pages -> PageStates] /\ errors \in 0 .. MaxErrors
      /\ errors \in Nat
  BY EepromAssumption DEF IndInv, TypeOK
<1>1. CASE TransferClean
  <2>1. PICK ok \in BOOLEAN : ErasePage(ok, receiving) /\ Outcome(ok)
    BY <1>1 DEF TransferClean
  <2>2. /\ pc = "clean" /\ pc' = "mark" /\ active' = active /\ receiving' = receiving
        /\ receiving \in Pages
    BY <1>0, <1>1 DEF TransferClean, IndexOK
  <2>3. errors' \in Nat /\ errors <= errors' /\ (~ok => errors' = errors + 1)
    BY <1>0, <2>1, OutcomeCounts
  <2>4. /\ flash'[receiving].status = IF ok THEN "erased" ELSE flash[receiving].status
        /\ \A q \in Pages : q # receiving => flash'[q].status = flash[q].status
    BY <1>0, <2>1, <2>2, EraseFrame
  <2>5. /\ ActiveIn({active}) /\ AtMostOne("active")
        /\ errors = 0 => PagesOf("other") = {}
    BY <1>0, <2>2, <2>3 DEF MarksKept
  <2>6. /\ ActiveIn({active})' /\ AtMostOne("active")'
        /\ errors' = 0 => PagesOf("other")' = {}
    BY <1>0, <2>2, <2>3, <2>4, <2>5 DEF ActiveIn, AtMostOne, PagesOf
  <2>7. flash'[receiving].status # "other"
    BY <1>0, <2>2, <2>3, <2>4, <2>5 DEF PagesOf
  <2> QED
    BY <2>2, <2>6, <2>7 DEF MarksKept
<1>2. CASE TransferMark
  <2>1. PICK ok \in BOOLEAN : /\ ProgramStatus(ok, receiving, "receiving")
                              /\ Outcome(ok)
    BY <1>2 DEF TransferMark, ReceivingMark
  <2>2. /\ pc = "mark" /\ pc' \in {"copy", "new"} /\ active' = active
        /\ receiving' = receiving /\ receiving \in Pages
    BY <1>0, <1>2 DEF TransferMark, IndexOK
  <2>3. errors' \in Nat /\ errors <= errors'
    BY <1>0, <2>1, OutcomeCounts
  <2>4. /\ ActiveIn({active}) /\ AtMostOne("active")
        /\ errors = 0 => PagesOf("other") = {}
        /\ flash[receiving].status # "other"
    BY <1>0, <2>2, <2>3 DEF MarksKept
  <2>5. /\ flash'[receiving].status \in {"receiving", flash[receiving].status}
        /\ \A q \in Pages : q # receiving => flash'[q].status = flash[q].status
    <3>1. flash[receiving].status \in Status
      BY <1>0, <2>2 DEF PageStates
    <3> QED
      BY <1>0, <2>1, <2>2, <2>4, <3>1, StatusFrame DEF AndStatus, Status
  <2>6. /\ ActiveIn({active})' /\ AtMostOne("active")'
        /\ errors' = 0 => PagesOf("other")' = {}
    BY <1>0, <2>2, <2>3, <2>4, <2>5 DEF ActiveIn, AtMostOne, PagesOf
  <2> QED
    BY <2>2, <2>4, <2>5, <2>6 DEF MarksKept
<1>3. CASE TransferNew
  <2> DEFINE w == [va |-> Head(script).va, data |-> Head(script).data]
  <2>1. /\ PutInReceiving(w) /\ pc = "new" /\ pc' = "copy" /\ UNCHANGED handle
        /\ receiving \in Pages
    BY <1>0, <1>3 DEF TransferNew, IndexOK, handle
  <2> HIDE DEF w
  <2> QED
    BY <1>0, <2>1, PutFrame, PutCounts, SameMarks DEF Busy, handle
<1>4. CASE TransferCopy
  <2> DEFINE w == flash[active].word[cur]
  <2>1. /\ pc = "copy" /\ pc' = pc /\ UNCHANGED handle /\ receiving \in Pages
        /\ IF Copied(w) THEN PutInReceiving(w) ELSE UNCHANGED <<flash, errors>>
    BY <1>0, <1>4 DEF TransferCopy, IndexOK, handle
  <2> HIDE DEF w
  <2>2. /\ \A q \in Pages : flash'[q].status = flash[q].status
        /\ errors' \in Nat /\ errors <= errors'
    BY <1>0, <2>1, PutFrame, PutCounts
  <2> QED
    BY <1>0, <2>1, <2>2, SameMarks DEF Busy, handle
<1>5. CASE TransferCount
  <2> DEFINE c == BitsOf(EraseCounter + (IF receiving = 0 THEN 1 ELSE 0))
  <2>1. PICK ok \in BOOLEAN :
           /\ Outcome(ok) /\ ProgramCount(ok, receiving, c)
           /\ IF ok THEN pc' = "drop" /\ UNCHANGED booted ELSE EndTransfer
    BY <1>5 DEF TransferCount
  <2> HIDE DEF c
  <2>2. /\ pc = "copy" /\ pc' \in {"drop", "ready"} /\ UNCHANGED handle /\ receiving \in Pages
    BY <1>0, <1>5, <2>1 DEF TransferCount, IndexOK, EndTransfer, handle
  <2>3. /\ \A q \in Pages : flash'[q].status = flash[q].status
        /\ errors' \in Nat /\ errors <= errors'
    BY <1>0, <2>1, <2>2, CountFrame, OutcomeCounts
  <2> QED
    BY <1>0, <2>2, <2>3, SameMarks DEF Busy, handle
<1>6. CASE TransferErase
  <2>1. PICK ok \in BOOLEAN :
           /\ Outcome(ok) /\ ErasePage(ok, active)
           /\ IF ok THEN pc' = "switch" /\ UNCHANGED booted ELSE EndTransfer
    BY <1>6 DEF TransferErase
  <2>2. /\ pc = "drop" /\ active' = active /\ receiving' = receiving
        /\ active \in Pages
        /\ pc' = IF ok THEN "switch" ELSE "ready"
    BY <1>0, <1>6, <2>1 DEF TransferErase, IndexOK, EndTransfer
  <2>3. errors' \in Nat /\ errors <= errors'
    BY <1>0, <2>1, OutcomeCounts
  <2>4. /\ flash'[active].status = IF ok THEN "erased" ELSE flash[active].status
        /\ \A q \in Pages : q # active => flash'[q].status = flash[q].status
    BY <1>0, <2>1, <2>2, EraseFrame
  <2>5. /\ ActiveIn({active}) /\ AtMostOne("active")
        /\ errors = 0 => PagesOf("other") = {}
        /\ receiving \in Pages => flash[receiving].status # "other"
    BY <1>0, <2>2, <2>3 DEF MarksKept
  <2>6. /\ ActiveIn({active})' /\ AtMostOne("active")' /\ (ok => ActiveIn({})')
        /\ errors' = 0 => PagesOf("other")' = {}
        /\ receiving \in Pages => flash'[receiving].status # "other"
    BY <1>0, <2>2, <2>3, <2>4, <2>5 DEF ActiveIn, AtMostOne, PagesOf
  <2> QED
    BY <2>2, <2>6 DEF MarksKept
<1>7. CASE TransferSwitch
  <2>1. PICK ok \in BOOLEAN :
           /\ Outcome(ok) /\ ProgramStatus(ok, receiving, "active")
           /\ IF ok THEN SwitchHandle ELSE UNCHANGED handle
    BY <1>7 DEF TransferSwitch
  <2>2. /\ pc = "switch" /\ pc' = "ready" /\ receiving \in Pages
        /\ IF ok THEN active' = receiving /\ receiving' = NoPage
           ELSE active' = active /\ receiving' = receiving
    BY <1>0, <1>7, <2>1 DEF TransferSwitch, IndexOK, EndTransfer, SwitchHandle, handle
  <2>3. errors' \in Nat /\ errors <= errors'
    BY <1>0, <2>1, OutcomeCounts
  <2>4. /\ \A q \in Pages : q # receiving => flash'[q].status = flash[q].status
        /\ flash'[receiving].status = IF ok THEN "active" ELSE flash[receiving].status
    BY <1>0, <2>1, <2>2, StatusFrame DEF AndStatus
  <2>5. /\ ActiveIn({})
        /\ errors = 0 => PagesOf("other") = {}
        /\ flash[receiving].status # "other"
    BY <1>0, <2>2, <2>3 DEF MarksKept
  <2>6. /\ ActiveIn({active})' /\ AtMostOne("active")'
        /\ errors' = 0 => PagesOf("other")' = {}
        /\ flash'[receiving].status # "other"
    BY <1>0, <2>2, <2>3, <2>4, <2>5 DEF ActiveIn, AtMostOne, PagesOf
  <2>7. receiving' \in Pages => flash'[receiving'].status # "other"
    BY <2>2, <2>6 DEF Pages, NoPage
  <2> QED
    BY <2>2, <2>6, <2>7 DEF MarksKept
<1> QED
  BY <1>1, <1>2, <1>3, <1>4, <1>5, <1>6, <1>7 DEF Transfer

LEMMA DeletingMarks == ASSUME IndInv, MarksKept, Deleting, errors' <= 1
                       PROVE  MarksKept'
<1>0. TypeOK /\ IndexOK /\ flash \in [Pages -> PageStates] /\ errors \in 0 .. MaxErrors
      /\ errors \in Nat
  BY EepromAssumption DEF IndInv, TypeOK
<1>1. /\ pc \in {"ready", "delete"} /\ pc' \in {"ready", "delete"}
      /\ UNCHANGED handle /\ active \in Pages
  BY <1>0 DEF Deleting, DeleteBegin, DeleteWord, DeleteEnd, Running, IndexOK, handle
<1>2. \/ UNCHANGED <<flash, errors>>
      \/ \E ok \in BOOLEAN : ProgramWord(ok, active, cur, Dead) /\ Outcome(ok)
  BY DEF Deleting, DeleteBegin, DeleteWord, DeleteEnd
<1>3. /\ \A q \in Pages : flash'[q].status = flash[q].status
      /\ errors' \in Nat /\ errors <= errors'
  BY <1>0, <1>1, <1>2, OutcomeCounts, WordFrame
<1> QED
  BY <1>0, <1>1, <1>3, SameMarks DEF Busy, handle

LEMMA CallingMarks == ASSUME IndInv, MarksKept, Calling, errors' <= 1
                      PROVE  MarksKept'
<1>0. errors \in Nat
  BY EepromAssumption DEF IndInv, TypeOK
<1>1. CASE FormatCall
  <2>1. /\ pc = "ready" /\ pc' = "format" /\ cur' = NumPages - 1
        /\ UNCHANGED <<flash, active, receiving, errors>>
    BY <1>1 DEF FormatCall, StartFormat, Idle
  <2>2. /\ ActiveIn({active}) /\ AtMostOne("active")
        /\ receiving \in Pages => flash[receiving].status # "other"
    BY <2>1 DEF MarksKept
  <2>3. /\ ActiveIn({active})' /\ AtMostOne("active")'
        /\ \A p \in Pages : p > cur' => flash'[p].status = "erased"
    BY <2>1, <2>2, EepromAssumption DEF ActiveIn, AtMostOne, PagesOf, Pages
  <2> QED
    BY <2>1, <2>2, <2>3 DEF MarksKept
<1>2. ASSUME NEW ops, Start(ops) PROVE MarksKept'
  <2>1. pc' = pc /\ pc = "ready" /\ UNCHANGED <<flash, active, receiving, errors>>
    BY <1>2 DEF Start, Idle
  <2> QED
    BY <1>0, <2>1, SameMarks DEF Busy
<1>3. \/ FormatCall \/ \E ops : Start(ops)
  BY DEF Calling, WriteCall, WriteArrayLenCall, WriteArrayCall, DeleteCall,
         DeleteArrayCall
<1> QED
  BY <1>1, <1>2, <1>3

LEMMA NextMarks == IndInv /\ MarksKept /\ [Next]_vars => MarksKept'
<1> SUFFICES ASSUME IndInv, MarksKept, [Next]_vars PROVE MarksKept'
  OBVIOUS
<1>1. CASE ~(errors' <= 1)
  BY <1>1 DEF MarksKept
<1>2. CASE errors' <= 1 /\ Step
  BY <1>2, StartingMarks, FormattingMarks, WritingMarks, TransferMarks, DeletingMarks
     DEF Step
<1>3. CASE errors' <= 1 /\ Calling
  BY <1>3, CallingMarks
<1>4. CASE PowerLoss
  BY <1>4 DEF PowerLoss, MarksKept, AtMostOne, PagesOf, Pages, NoPage
<1>5. CASE UNCHANGED vars
  BY <1>5 DEF vars, MarksKept, ActiveIn, AtMostOne, PagesOf
<1> QED
  BY <1>1, <1>2, <1>3, <1>4, <1>5 DEF Next

\* With one error of the driver at any point of eeprom_init, eeprom_format or
\* eeprom_page_transfer, and power lost at any other, two pages are never active.
THEOREM NeverTwoActive == Spec => []OneActive
<1>1. Init => MarksKept
  BY DEF Init, MarksKept, AtMostOne, PagesOf, ErasedPage, ForeignPage, Pages, NoPage
<1>2. MarksKept => OneActive
  BY DEF MarksKept, OneActive, AtMostOne
<1> QED
  BY <1>1, <1>2, InitType, NextType, NextMarks, PTL DEF Spec

----------------------------------------------------------------------------
(* Powers of two and the bits of a number.                                 *)

\* f gives the powers of two up to the n-th.
Powers(f, n) == \A k \in 0 .. n : f[k] = IF k = 0 THEN 1 ELSE 2 * f[k - 1]

LEMMA PowersUnique ==
    ASSUME NEW f, NEW g, NEW n \in Nat, NEW m \in Nat, Powers(f, n), Powers(g, m)
    PROVE  \A k \in Nat : k <= n /\ k <= m => f[k] = g[k]
<1> DEFINE S == {k \in Nat : k <= n /\ k <= m /\ f[k] # g[k]}
<1> SUFFICES ASSUME S # {} PROVE FALSE
  OBVIOUS
<1>1. PICK k \in S : \A j \in S : k <= j
  BY Least
<1>2. k \in 0 .. n /\ k \in 0 .. m /\ f[k] # g[k]
  BY <1>1
<1>3. CASE k = 0
  BY <1>2, <1>3 DEF Powers
<1>4. CASE k # 0
  <2>1. k - 1 \in Nat /\ k - 1 <= n /\ k - 1 <= m /\ ~(k - 1 \in S)
    BY <1>1, <1>2, <1>4
  <2>2. f[k - 1] = g[k - 1]
    BY <2>1
  <2> QED
    BY <1>2, <1>4, <2>2 DEF Powers
<1> QED
  BY <1>3, <1>4

LEMMA PowersExist == \A n \in Nat : \E f : Powers(f, n)
<1> DEFINE S == {n \in Nat : ~ \E f : Powers(f, n)}
<1> SUFFICES ASSUME S # {} PROVE FALSE
  OBVIOUS
<1>1. PICK n \in S : \A j \in S : n <= j
  BY Least
<1>2. CASE n = 0
  <2>1. Powers([k \in {0} |-> 1], 0)
    BY DEF Powers
  <2> QED
    BY <1>1, <1>2, <2>1
<1>3. CASE n # 0
  <2>1. n - 1 \in Nat /\ ~(n - 1 \in S)
    BY <1>1, <1>3
  <2>2. PICK f : Powers(f, n - 1)
    BY <2>1
  <2> DEFINE g == [k \in 0 .. n |-> IF k = n THEN 2 * f[n - 1] ELSE f[k]]
  <2>3. \A k \in 0 .. n : g[k] = IF k = n THEN 2 * f[n - 1] ELSE f[k]
    OBVIOUS
  <2> HIDE DEF g
  <2>4. ASSUME NEW k \in 0 .. n PROVE g[k] = IF k = 0 THEN 1 ELSE 2 * g[k - 1]
    <3>1. CASE k = n
      <4>1. n - 1 \in 0 .. n /\ n - 1 # n
        BY <1>3
      <4>2. g[n - 1] = f[n - 1]
        BY <2>3, <4>1
      <4> QED
        BY <1>3, <2>3, <3>1, <4>2
    <3>2. CASE k # n
      <4>1. k \in 0 .. n - 1 /\ (k # 0 => k - 1 \in 0 .. n /\ k - 1 # n)
        BY <3>2
      <4>2. f[k] = IF k = 0 THEN 1 ELSE 2 * f[k - 1]
        BY <2>2, <4>1 DEF Powers
      <4>3. g[k] = f[k] /\ (k # 0 => g[k - 1] = f[k - 1])
        BY <2>3, <3>2, <4>1
      <4> QED
        BY <4>2, <4>3
    <3> QED
      BY <3>1, <3>2
  <2>5. Powers(g, n)
    BY <2>4 DEF Powers
  <2> QED
    BY <1>1, <2>5
<1> QED
  BY <1>2, <1>3

\* The function of the model has the values of its equation.
LEMMA Pow2Is == \A n \in Nat : Pow2[n] = IF n = 0 THEN 1 ELSE 2 * Pow2[n - 1]
<1> DEFINE F(f) == f = [n \in Nat |-> IF n = 0 THEN 1 ELSE 2 * f[n - 1]]
           P(n) == CHOOSE f : Powers(f, n)
           g == [n \in Nat |-> P(n)[n]]
<1>1. \A n \in Nat : Powers(P(n), n)
  BY PowersExist
<1>2. \A n \in Nat : g[n] = P(n)[n]
  OBVIOUS
<1>3. ASSUME NEW n \in Nat PROVE g[n] = IF n = 0 THEN 1 ELSE 2 * g[n - 1]
  <2> HIDE DEF P, g
  <2>1. P(n)[n] = IF n = 0 THEN 1 ELSE 2 * P(n)[n - 1]
    <3>1. Powers(P(n), n) /\ n \in 0 .. n
      BY <1>1
    <3> QED
      BY <3>1 DEF Powers
  <2>2. ASSUME n # 0 PROVE P(n)[n - 1] = g[n - 1]
    <3>1. n - 1 \in Nat
      BY <2>2
    <3>2. P(n)[n - 1] = P(n - 1)[n - 1]
      BY <1>1, <3>1, PowersUnique
    <3> QED
      BY <1>2, <3>1, <3>2
  <2> QED
    BY <1>2, <2>1, <2>2
<1>4. F(g)
  <2>1. g = [n \in Nat |-> g[n]]
    BY <1>2
  <2> HIDE DEF P, g
  <2> QED
    BY <1>3, <2>1
<1>5. F(Pow2)
  <2>1. Pow2 = CHOOSE f : F(f)
    BY DEF Pow2
  <2> HIDE DEF g, F
  <2> QED
    BY <1>4, <2>1
<1> QED
  BY <1>5

LEMMA Pow2Positive == \A n \in Nat : Pow2[n] \in Nat \ {0}
<1> DEFINE S == {n \in Nat : Pow2[n] \notin Nat \ {0}}
<1> SUFFICES ASSUME S # {} PROVE FALSE
  OBVIOUS
<1>1. PICK n \in S : \A j \in S : n <= j
  BY Least
<1>2. CASE n = 0
  BY <1>1, <1>2, Pow2Is
<1>3. CASE n # 0
  <2>1. n - 1 \in Nat /\ ~(n - 1 \in S)
    BY <1>1, <1>3
  <2>2. Pow2[n - 1] \in Nat \ {0}
    BY <2>1
  <2>3. Pow2[n] = 2 * Pow2[n - 1]
    BY <1>1, <1>3, Pow2Is
  <2> QED
    BY <1>1, <2>2, <2>3
<1> QED
  BY <1>2, <1>3

LEMMA Halves == ASSUME NEW a \in Nat, NEW n \in Nat
                PROVE  /\ a \div Pow2[n] \in Nat
                       /\ a \div Pow2[n + 1] = (a \div Pow2[n]) \div 2
<1> DEFINE P == Pow2[n]
<1>1. P \in Nat /\ P > 0 /\ Pow2[n + 1] = 2 * P
  BY Pow2Is, Pow2Positive
<1> HIDE DEF P
<1>2. a \div P \in Nat /\ a \div (2 * P) = (a \div P) \div 2
  BY <1>1
<1> QED
  BY <1>1, <1>2 DEF P

\* Two numbers with the same bits are the same.
LEMMA BitsTell ==
    ASSUME NEW a \in 0 .. CountMax, NEW b \in 0 .. CountMax, BitsOf(a) = BitsOf(b)
    PROVE  a = b
<1>0. CountBits \in Nat /\ Pow2[CountBits] \in Nat \ {0}
  BY EepromAssumption, Pow2Positive
<1>1. a \in Nat /\ b \in Nat /\ a < Pow2[CountBits] /\ b < Pow2[CountBits]
  BY <1>0 DEF CountMax
<1>2. \A i \in Bits : (a \div Pow2[i]) % 2 = (b \div Pow2[i]) % 2
  <2>1. \A i \in Bits : i \in Nat
    BY <1>0 DEF Bits
  <2> SUFFICES ASSUME NEW i \in Bits PROVE (a \div Pow2[i]) % 2 = (b \div Pow2[i]) % 2
    OBVIOUS
  <2> DEFINE x == a \div Pow2[i]
             y == b \div Pow2[i]
  <2>2. x \in Nat /\ y \in Nat
    BY <1>1, <2>1, Halves
  <2>3. x % 2 = 1 <=> y % 2 = 1
    BY DEF BitsOf
  <2> HIDE DEF x, y
  <2>4. x % 2 = y % 2
    BY <2>2, <2>3
  <2> QED
    BY <2>4 DEF x, y
<1> DEFINE S == {k \in 0 .. CountBits : a \div Pow2[CountBits - k] # b \div Pow2[CountBits - k]}
<1>3. CASE S # {}
  <2>1. PICK k \in S : \A j \in S : k <= j
    <3>1. S \subseteq Nat
      BY <1>0
    <3> HIDE DEF S
    <3> QED
      BY <1>3, <3>1, Least
  <2>2. k \in 0 .. CountBits /\ k \in Nat
    BY <1>0, <2>1
  <2>3. k # 0
    BY <1>0, <1>1, <2>1
  <2> DEFINE i == CountBits - k
             x == a \div Pow2[i]
             y == b \div Pow2[i]
  <2>4. i \in Bits /\ i \in Nat /\ i + 1 = CountBits - (k - 1)
    BY <1>0, <2>2, <2>3 DEF Bits
  <2>5. k - 1 \in 0 .. CountBits /\ ~(k - 1 \in S)
    BY <1>0, <2>1, <2>2, <2>3
  <2>6. a \div Pow2[i + 1] = b \div Pow2[i + 1]
    BY <2>4, <2>5
  <2>7. x # y
    BY <2>1
  <2>8. x \in Nat /\ y \in Nat /\ x \div 2 = y \div 2
    BY <1>1, <2>4, <2>6, Halves
  <2>9. x % 2 = y % 2
    BY <1>2, <2>4
  <2> HIDE DEF x, y
  <2> QED
    BY <2>7, <2>8, <2>9
<1>4. CASE S = {}
  <2>1. a \div Pow2[CountBits - CountBits] = b \div Pow2[CountBits - CountBits]
    BY <1>0, <1>4
  <2>2. Pow2[CountBits - CountBits] = 1
    BY <1>0, Pow2Is
  <2> QED
    BY <1>1, <2>1, <2>2
<1> QED
  BY <1>3, <1>4

----------------------------------------------------------------------------
(* The erase counts while the driver reports no error.                     *)

\* The counts that have been written, and the number that one stands for.
Counts == {BitsOf(n) : n \in 0 .. CountMax}
Counted(c) == LET n == NumberOf(c) IN IF n = CountMax THEN 0 ELSE n
Carried(c, q) == BitsOf(Counted(c) + (IF q = 0 THEN 1 ELSE 0))

\* The page that takes over carries the count of the active page, or does not have one yet.
MarkedCounts ==
    /\ \A p \in PagesOf("active") : flash[p].count \in Counts
    /\ \A p \in PagesOf("active"), q \in PagesOf("receiving") :
          flash[q].count \in {Bits, Carried(flash[p].count, q)}
    /\ PagesOf("active") = {} =>
          \A q \in PagesOf("receiving") : flash[q].count \in Counts

CountsKept ==
    errors = 0 =>
    /\ MarkedCounts
    /\ pc = "drop" => flash[receiving].count = Carried(flash[active].count, receiving)
    /\ pc = "formatted" => flash[0].count = BitsOf(1)
    /\ pc = "mark" /\ flash[receiving].status = "erased" => ValidEmpty(receiving)

LEMMA CountMaxIs == CountMax \in Nat /\ CountMax >= 1
<1>1. CountBits \in Nat /\ CountBits - 1 \in Nat /\ CountBits # 0
  BY EepromAssumption
<1>2. Pow2[CountBits] = 2 * Pow2[CountBits - 1] /\ Pow2[CountBits - 1] \in Nat \ {0}
  BY <1>1, Pow2Is, Pow2Positive
<1> QED
  BY <1>2 DEF CountMax

LEMMA NumberIs == ASSUME NEW n \in 0 .. CountMax PROVE NumberOf(BitsOf(n)) = n
<1> DEFINE c == BitsOf(n)
<1>1. \A m \in 0 .. CountMax : BitsOf(m) = c => m = n
  BY BitsTell
<1> QED
  BY <1>1 DEF NumberOf

LEMMA CountedIs ==
    ASSUME NEW n \in 0 .. CountMax
    PROVE  Counted(BitsOf(n)) = IF n = CountMax THEN 0 ELSE n
BY NumberIs DEF Counted

LEMMA CountedIn == ASSUME NEW c \in Counts PROVE Counted(c) \in 0 .. CountMax - 1
<1>1. PICK n \in 0 .. CountMax : c = BitsOf(n)
  BY DEF Counts
<1> QED
  BY <1>1, CountedIs, CountMaxIs

\* A count that is carried over grows by one at most, and wraps.
LEMMA CarriedOver ==
    ASSUME NEW c \in Counts, NEW q
    PROVE  /\ Carried(c, q) \in Counts
           /\ Counted(Carried(c, q)) \in {Counted(c), (Counted(c) + 1) % CountMax}
<1> DEFINE x == Counted(c)
           n == x + (IF q = 0 THEN 1 ELSE 0)
<1>1. x \in 0 .. CountMax - 1 /\ CountMax \in Nat /\ CountMax >= 1
  BY CountedIn, CountMaxIs
<1> HIDE DEF x
<1>2. n \in 0 .. CountMax
  BY <1>1
<1>3. Carried(c, q) = BitsOf(n)
  BY DEF Carried, x
<1>4. Counted(Carried(c, q)) = IF n = CountMax THEN 0 ELSE n
  <2> HIDE DEF n
  <2> QED
    BY <1>2, <1>3, CountedIs
<1>5. x + 1 # CountMax => (x + 1) % CountMax = x + 1
  BY <1>1
<1>6. x + 1 = CountMax => (x + 1) % CountMax = 0
  BY <1>1
<1>7. (IF n = CountMax THEN 0 ELSE n) \in {x, (x + 1) % CountMax}
  BY <1>1, <1>5, <1>6
<1>8. Carried(c, q) \in Counts
  <2> HIDE DEF n
  <2> QED
    BY <1>2, <1>3 DEF Counts
<1> QED
  BY <1>4, <1>7, <1>8 DEF x

\* The count that the marks of pages f give a restart.
Marked(f, s) == {p \in Pages : f[p].status = s}
Recovered(f) ==
    Counted(f[IF Marked(f, "active") # {} THEN CHOOSE p \in Pages : f[p].status = "active"
              ELSE CHOOSE p \in Pages : f[p].status = "receiving"].count)

LEMMA RecoveredIs == /\ DurableCount = Recovered(flash)
                     /\ DurableCount' = Recovered(flash')
                     /\ HasActive <=> Marked(flash, "active") # {}
                     /\ (HasActive <=> Marked(flash, "active") # {})'
                     /\ HasReceiving <=> Marked(flash, "receiving") # {}
                     /\ (HasReceiving <=> Marked(flash, "receiving") # {})'
<1>1. DurableCount = Recovered(flash)
  BY DEF DurableCount, Recovered, Counted, HasActive, PagesOf, Marked, ActivePage, ReceivingPage
<1>2. DurableCount' = Recovered(flash')
  BY DEF DurableCount, Recovered, Counted, HasActive, PagesOf, Marked, ActivePage, ReceivingPage
<1> QED
  BY <1>1, <1>2 DEF HasActive, HasReceiving, PagesOf, Marked

LEMMA FromActive ==
    ASSUME NEW f, NEW p \in Pages, \A q \in Pages : f[q].status = "active" <=> q = p
    PROVE  Recovered(f) = Counted(f[p].count)
<1>1. Marked(f, "active") # {}
  BY DEF Marked
<1>2. (CHOOSE q \in Pages : f[q].status = "active") = p
  OBVIOUS
<1> QED
  BY <1>1, <1>2 DEF Recovered

LEMMA FromReceiving ==
    ASSUME NEW f, NEW p \in Pages, \A q \in Pages : f[q].status # "active",
           \A q \in Pages : f[q].status = "receiving" <=> q = p
    PROVE  Recovered(f) = Counted(f[p].count)
<1>1. Marked(f, "active") = {}
  BY DEF Marked
<1>2. (CHOOSE q \in Pages : f[q].status = "receiving") = p
  OBVIOUS
<1> QED
  BY <1>1, <1>2 DEF Recovered

\* What the property says of a step without an error.
Grows == /\ HasActive \/ HasReceiving
         /\ HasActive' \/ HasReceiving'
         /\ pc # "formatted"
         => DurableCount' \in {DurableCount, (DurableCount + 1) % CountMax}

\* A step that leaves the marked pages and their counts alone.
SameMarked ==
    \A q \in Pages : /\ \A s \in {"active", "receiving"} :
                           flash'[q].status = s <=> flash[q].status = s
                     /\ flash[q].status \in {"active", "receiving"} =>
                           flash'[q].count = flash[q].count

LEMMA SameGrows ==
    ASSUME AtMostOne("active"), AtMostOne("receiving"), SameMarked, MarkedCounts
    PROVE  MarkedCounts' /\ Grows
<1>1. /\ PagesOf("active")' = PagesOf("active")
      /\ PagesOf("receiving")' = PagesOf("receiving")
      /\ \A q \in PagesOf("active") : flash'[q].count = flash[q].count
      /\ \A q \in PagesOf("receiving") : flash'[q].count = flash[q].count
  BY DEF PagesOf, SameMarked
<1>2. MarkedCounts'
  BY <1>1 DEF MarkedCounts
<1>3. CASE HasActive
  <2>1. PICK p \in PagesOf("active") : TRUE
    BY <1>3 DEF HasActive
  <2>2. p \in Pages /\ \A q \in Pages : flash[q].status = "active" <=> q = p
    BY <2>1 DEF AtMostOne, PagesOf
  <2>3. \A q \in Pages : flash'[q].status = "active" <=> q = p
    BY <2>2 DEF SameMarked
  <2> QED
    BY <1>1, <1>2, <2>1, <2>2, <2>3, FromActive, RecoveredIs DEF Grows
<1>4. CASE ~HasActive /\ HasReceiving
  <2>1. PICK p \in PagesOf("receiving") : TRUE
    BY <1>4 DEF HasReceiving
  <2>2. p \in Pages /\ \A q \in Pages : flash[q].status = "receiving" <=> q = p
    BY <2>1 DEF AtMostOne, PagesOf
  <2>3. /\ \A q \in Pages : flash'[q].status = "receiving" <=> q = p
        /\ \A q \in Pages : flash[q].status # "active" /\ flash'[q].status # "active"
    BY <1>4, <2>2 DEF SameMarked, HasActive, PagesOf
  <2> QED
    BY <1>1, <1>2, <2>1, <2>2, <2>3, FromReceiving, RecoveredIs DEF Grows
<1> QED
  BY <1>2, <1>3, <1>4 DEF Grows

LEMMA OneMarked ==
    ASSUME IndInv, HandleMatchesFlash, errors = 0
    PROVE  AtMostOne("active") /\ AtMostOne("receiving")
<1>0. pc \in PCs
  BY DEF IndInv, TypeOK
<1>1. CASE pc \in {"off", "scan"}
  BY <1>1 DEF HandleMatchesFlash, Scanned
<1>2. CASE pc \in {"adopt", "switch"}
  BY <1>2 DEF HandleMatchesFlash, Only, AtMostOne, PagesOf
<1>3. CASE pc \in {"ready", "delete"}
  BY <1>3 DEF HandleMatchesFlash, OneInUse, Only, AtMostOne, PagesOf
<1>4. CASE pc \in {"new", "copy", "drop"}
  BY <1>4 DEF HandleMatchesFlash, TwoInUse, Only, AtMostOne, PagesOf
<1>5. CASE pc = "format"
  BY <1>5 DEF HandleMatchesFlash, Only, AtMostOne, PagesOf, Pages, NoPage
<1>6. CASE pc = "formatted"
  BY <1>6 DEF HandleMatchesFlash, CleanBut, ValidEmpty, ErasedPage, AtMostOne, PagesOf
<1>7. CASE pc = "mark"
  BY <1>7 DEF HandleMatchesFlash, Only, AtMostOne, PagesOf
<1> QED
  BY <1>0, <1>1, <1>2, <1>3, <1>4, <1>5, <1>6, <1>7 DEF HandleMatchesFlash, PCs

LEMMA SameCounts ==
    ASSUME IndInv, HandleMatchesFlash, CountsKept, errors = 0, SameMarked,
           pc' \notin {"drop", "formatted", "mark"}
    PROVE  CountsKept' /\ Grows
<1>1. MarkedCounts' /\ Grows
  BY OneMarked, SameGrows DEF CountsKept
<1> QED
  BY <1>1 DEF CountsKept

\* Programming a word leaves the counts alone.
LEMMA WordCounts ==
    ASSUME flash \in [Pages -> PageStates], NEW p \in Pages, NEW k, NEW w,
           NEW ok \in BOOLEAN, ProgramWord(ok, p, k, w)
    PROVE  SameMarked
<1>1. \A q \in Pages : flash'[q].status = flash[q].status /\ flash'[q].count = flash[q].count
  BY DEF ProgramWord, PageStates
<1> QED
  BY <1>1 DEF SameMarked

LEMMA FlashSame == ASSUME flash' = flash PROVE SameMarked
BY DEF SameMarked

\* A receiving page becomes the active one when there is none.
LEMMA TakesOver ==
    ASSUME flash \in [Pages -> PageStates], MarkedCounts, NEW p \in Pages,
           \A q \in Pages : flash[q].status # "active",
           \A q \in Pages : flash[q].status = "receiving" <=> q = p,
           ProgramStatus(TRUE, p, "active")
    PROVE  MarkedCounts' /\ Grows
<1>1. PICK t : t = "active" /\ flash' = [flash EXCEPT ![p].status = t]
  BY DEF ProgramStatus, AndStatus
<1>2. /\ flash'[p].status = "active" /\ flash'[p].count = flash[p].count
      /\ \A q \in Pages : q # p => flash'[q] = flash[q]
  BY <1>1 DEF PageStates
<1>3. /\ \A q \in Pages : flash'[q].status = "active" <=> q = p
      /\ \A q \in Pages : flash'[q].status # "receiving"
  BY <1>2
<1>4. flash[p].count \in Counts
  BY DEF MarkedCounts, PagesOf
<1>5. MarkedCounts'
  BY <1>2, <1>3, <1>4 DEF MarkedCounts, PagesOf
<1>6. Recovered(flash') = Counted(flash'[p].count)
  BY <1>3, FromActive
<1>7. Recovered(flash) = Counted(flash[p].count)
  BY FromReceiving
<1> QED
  BY <1>2, <1>5, <1>6, <1>7, RecoveredIs DEF Grows

LEMMA StartingCounts ==
    ASSUME IndInv, HandleMatchesFlash, CountsKept, Starting, errors' = 0
    PROVE  CountsKept' /\ Grows
<1>0. TypeOK /\ IndexOK /\ flash \in [Pages -> PageStates] /\ errors \in 0 .. MaxErrors
  BY DEF IndInv, TypeOK
<1>1. CASE Boot \/ ScanMarked
  <2>1. errors = 0 /\ flash' = flash /\ pc' \in {"scan", "format"}
    BY <1>1 DEF Boot, ScanMarked, StartFormat
  <2> QED
    BY <2>1, FlashSame, SameCounts
<1>2. CASE ScanUnmarked
  <2>1. /\ pc = "scan" /\ pc' = pc /\ cur \in Pages
        /\ flash[cur].status \in {"erased", "other"}
    BY <1>0, <1>2, EepromAssumption DEF ScanUnmarked, IndexOK, Pages
  <2>2. CASE flash' = flash /\ errors' = errors
    BY <2>1, <2>2, FlashSame, SameCounts
  <2>3. CASE \E ok \in BOOLEAN : ErasePage(ok, cur) /\ Outcome(ok)
    <3>1. errors = 0 /\ flash' = [flash EXCEPT ![cur] = ErasedPage]
      BY <1>0, <2>3, NoError DEF ErasePage
    <3>2. SameMarked
      BY <1>0, <2>1, <3>1 DEF SameMarked, ErasedPage
    <3> QED
      BY <2>1, <3>1, <3>2, SameCounts
  <2> QED
    BY <1>2, <2>2, <2>3 DEF ScanUnmarked
<1>3. CASE ScanDone
  <2>1. errors = 0 /\ flash' = flash /\ pc = "scan" /\ cur = NumPages
    BY <1>3 DEF ScanDone
  <2>2. CASE pc' \in {"format", "ready", "adopt"}
    BY <2>1, <2>2, FlashSame, SameCounts
  <2>3. CASE pc' = "mark"
    <3>1. receiving \in Pages /\ receiving' = receiving
      BY <1>0, <1>3, <2>3 DEF ScanDone, StartFormat, TypeOK
    <3>2. flash[receiving].status = "receiving"
      BY <2>1, <3>1, EepromAssumption DEF HandleMatchesFlash, Scanned, Pages
    <3>3. MarkedCounts' /\ Grows
      BY <2>1, FlashSame, OneMarked, SameGrows DEF CountsKept
    <3> QED
      BY <2>1, <2>3, <3>1, <3>2, <3>3 DEF CountsKept
  <2>4. pc' \in {"format", "ready", "adopt", "mark"}
    BY <1>3 DEF ScanDone, StartFormat
  <2> QED
    BY <2>2, <2>3, <2>4
<1>4. CASE Adopt
  <2>1. /\ pc = "adopt" /\ pc' = "ready" /\ active \in Pages
        /\ errors = 0 /\ ProgramStatus(TRUE, active, "active")
    BY <1>0, <1>4, NoError DEF Adopt, IndexOK
  <2>2. /\ \A q \in Pages : flash[q].status # "active"
        /\ \A q \in Pages : flash[q].status = "receiving" <=> q = active
        /\ MarkedCounts
    BY <2>1 DEF HandleMatchesFlash, Only, CountsKept, Pages, NoPage
  <2>3. MarkedCounts' /\ Grows
    BY <1>0, <2>1, <2>2, TakesOver
  <2> QED
    BY <2>1, <2>3 DEF CountsKept
<1> QED
  BY <1>1, <1>2, <1>3, <1>4 DEF Starting

LEMMA FormattingCounts ==
    ASSUME IndInv, HandleMatchesFlash, CountsKept, Formatting, errors' = 0
    PROVE  CountsKept' /\ Grows
<1>0. /\ TypeOK /\ IndexOK /\ flash \in [Pages -> PageStates] /\ errors \in 0 .. MaxErrors
      /\ 0 \in Pages
  BY EepromAssumption DEF IndInv, TypeOK, Pages
<1>1. CASE FormatErase
  <2>1. pc = "format" /\ cur \in Pages
    BY <1>0, <1>1, EepromAssumption DEF FormatErase, IndexOK, Pages
  <2>2. CASE flash' = flash /\ errors' = errors
    <3>1. pc' = pc
      BY <1>1, <1>0, <2>2, NoError DEF FormatErase, Outcome
    <3> QED
      BY <2>1, <2>2, <3>1, FlashSame, SameCounts
  <2>3. CASE \E ok \in BOOLEAN : /\ ErasePage(ok, cur) /\ Outcome(ok)
                                 /\ IF ok THEN cur' = cur - 1 /\ UNCHANGED pc
                                          ELSE UNCHANGED cur /\ GiveUpFormat
    <3>1. errors = 0 /\ pc' = pc /\ flash' = [flash EXCEPT ![cur] = ErasedPage]
      BY <1>0, <2>3, NoError DEF ErasePage
    <3>2. /\ \A p \in PagesOf("active") : p = active
          /\ PagesOf("receiving") = {}
      BY <2>1, <3>1 DEF HandleMatchesFlash, Only, PagesOf, Pages, NoPage
    <3>3. /\ flash'[cur].status = "erased"
          /\ \A q \in Pages : q # cur => flash'[q] = flash[q]
      BY <1>0, <2>1, <3>1 DEF ErasedPage
    <3>4. CASE cur = active /\ cur \in PagesOf("active")
      <4>1. PagesOf("active")' = {} /\ PagesOf("receiving")' = {}
        BY <3>2, <3>3, <3>4 DEF PagesOf
      <4>2. CountsKept'
        BY <2>1, <3>1, <4>1 DEF CountsKept, MarkedCounts
      <4> QED
        BY <4>1, <4>2 DEF Grows, HasActive, HasReceiving
    <3>5. CASE cur \notin PagesOf("active")
      <4>1. SameMarked
        BY <2>1, <3>2, <3>3, <3>5 DEF SameMarked, PagesOf
      <4> QED
        BY <2>1, <3>1, <4>1, SameCounts
    <3> QED
      BY <3>2, <3>4, <3>5
  <2> QED
    BY <1>1, <2>2, <2>3 DEF FormatErase
<1>2. CASE FormatCount
  <2>1. /\ pc = "format" /\ cur = -1 /\ pc' = "formatted" /\ errors = 0
        /\ flash' = [flash EXCEPT ![0].count = @ \cap BitsOf(1)]
    BY <1>0, <1>2, NoError DEF FormatCount, ProgramCount
  <2>2. \A q \in Pages : flash[q] = ErasedPage
    BY <2>1 DEF HandleMatchesFlash, ValidEmpty, Pages
  <2> DEFINE b == BitsOf(1)
  <2>3. b \subseteq Bits
    BY DEF BitsOf
  <2> HIDE DEF b
  <2>4. flash'[0].count = b /\ \A q \in Pages : flash'[q].status = "erased"
    BY <1>0, <2>1, <2>2, <2>3 DEF ErasedPage, b
  <2>5. PagesOf("active")' = {} /\ PagesOf("receiving")' = {}
    BY <2>4 DEF PagesOf
  <2>6. CountsKept'
    BY <2>1, <2>4, <2>5 DEF CountsKept, MarkedCounts, b
  <2> QED
    BY <2>5, <2>6 DEF Grows, HasActive, HasReceiving
<1>3. CASE FormatActivate
  <2>1. /\ pc = "formatted" /\ pc' = "ready" /\ errors = 0 /\ active = 0
        /\ \A q \in Pages : flash[q].status = "erased"
        /\ ProgramStatus(TRUE, active, "active")
    <3>1. /\ pc = "formatted" /\ pc' = "ready" /\ errors = 0
          /\ ProgramStatus(TRUE, active, "active")
      BY <1>0, <1>3, NoError DEF FormatActivate
    <3>2. active = 0 /\ flash[0].status = "erased" /\ CleanBut({0})
      BY <3>1 DEF HandleMatchesFlash
    <3>3. \A q \in Pages : q # 0 => flash[q] = ErasedPage
      BY <3>2 DEF CleanBut, ValidEmpty
    <3>4. ErasedPage.status = "erased"
      BY DEF ErasedPage
    <3> QED
      BY <3>1, <3>2, <3>3, <3>4
  <2>2. PICK t : t = "active" /\ flash' = [flash EXCEPT ![0].status = t]
    BY <2>1 DEF ProgramStatus, AndStatus
  <2>3. /\ flash'[0].status = "active" /\ flash'[0].count = flash[0].count
        /\ \A q \in Pages : q # 0 => flash'[q].status = "erased"
    BY <1>0, <2>1, <2>2 DEF PageStates
  <2>4. PagesOf("active")' = {0} /\ PagesOf("receiving")' = {}
    BY <1>0, <2>3 DEF PagesOf
  <2>5. flash[0].count \in Counts
    BY <2>1, CountMaxIs DEF CountsKept, Counts
  <2>6. CountsKept'
    BY <2>1, <2>3, <2>4, <2>5 DEF CountsKept, MarkedCounts
  <2> QED
    BY <2>1, <2>6 DEF Grows
<1> QED
  BY <1>1, <1>2, <1>3 DEF Formatting

LEMMA WritingCounts ==
    ASSUME IndInv, HandleMatchesFlash, CountsKept, Writing, errors' = 0
    PROVE  CountsKept' /\ Grows
<1>0. /\ TypeOK /\ IndexOK /\ flash \in [Pages -> PageStates] /\ errors \in 0 .. MaxErrors
  BY DEF IndInv, TypeOK
<1>1. pc = "ready"
  BY DEF Writing, WriteSame, WriteWord, WriteFull, Stores, Running
<1>2. active \in Pages
  BY <1>0, <1>1 DEF IndexOK
<1>3. CASE WriteSame
  BY <1>1, <1>3, FlashSame, SameCounts DEF WriteSame
<1>4. CASE WriteWord
  <2>1. PICK ok \in BOOLEAN :
           /\ Outcome(ok)
           /\ ProgramWord(ok, active, First(Free(active)),
                 [va |-> Head(script).va, data |-> Head(script).data])
           /\ ok => pc' = pc
    BY <1>4 DEF WriteWord
  <2>2. errors = 0 /\ pc' = pc /\ SameMarked
    BY <1>0, <1>2, <2>1, NoError, WordCounts
  <2> QED
    BY <1>1, <2>2, SameCounts
<1>5. CASE WriteFull
  <2>1. errors = 0 /\ flash' = flash /\ StartTransfer
    BY <1>5 DEF WriteFull
  <2>2. OneInUse
    BY <1>1, <2>1 DEF HandleMatchesFlash
  <2>3. pc' = "mark" /\ ValidEmpty(receiving')
    BY <1>0, <1>2, <2>1, <2>2, StartTransferHandle
  <2>4. ValidEmpty(receiving)'
    BY <2>1, <2>3 DEF ValidEmpty
  <2>5. MarkedCounts' /\ Grows
    BY <2>1, FlashSame, OneMarked, SameGrows DEF CountsKept
  <2> QED
    BY <2>3, <2>4, <2>5 DEF CountsKept
<1> QED
  BY <1>3, <1>4, <1>5 DEF Writing

LEMMA DeletingCounts ==
    ASSUME IndInv, HandleMatchesFlash, CountsKept, Deleting, errors' = 0
    PROVE  CountsKept' /\ Grows
<1>0. /\ TypeOK /\ IndexOK /\ flash \in [Pages -> PageStates] /\ errors \in 0 .. MaxErrors
  BY DEF IndInv, TypeOK
<1>1. pc' \in {"delete", "ready"}
  BY DEF Deleting, DeleteBegin, DeleteWord, DeleteEnd
<1>2. CASE flash' = flash /\ errors' = errors
  BY <1>1, <1>2, FlashSame, SameCounts
<1>3. ASSUME pc = "delete",
             NEW ok \in BOOLEAN, ProgramWord(ok, active, cur, Dead), Outcome(ok)
      PROVE  CountsKept' /\ Grows
  <2>1. active \in Pages
    BY <1>0, <1>3 DEF IndexOK
  <2>2. errors = 0 /\ SameMarked
    BY <1>0, <1>3, <2>1, NoError, WordCounts
  <2> QED
    BY <1>1, <2>2, SameCounts
<1> QED
  BY <1>2, <1>3 DEF Deleting, DeleteBegin, DeleteWord, DeleteEnd

LEMMA CallingCounts ==
    ASSUME IndInv, HandleMatchesFlash, CountsKept, Calling, errors' = 0
    PROVE  CountsKept' /\ Grows
<1>1. CASE FormatCall
  BY <1>1, FlashSame, SameCounts DEF FormatCall, StartFormat
<1>2. ASSUME NEW ops, Start(ops) PROVE CountsKept' /\ Grows
  <2>1. flash' = flash /\ errors' = errors /\ pc' = "ready"
    BY <1>2 DEF Start, Idle
  <2> QED
    BY <2>1, FlashSame, SameCounts
<1>3. \/ FormatCall \/ \E ops : Start(ops)
  BY DEF Calling, WriteCall, WriteArrayLenCall, WriteArrayCall, DeleteCall,
         DeleteArrayCall
<1> QED
  BY <1>1, <1>2, <1>3

LEMMA TransferCounts ==
    ASSUME IndInv, HandleMatchesFlash, CountsKept, Transfer, errors' = 0
    PROVE  CountsKept' /\ Grows
<1>0. /\ TypeOK /\ IndexOK /\ flash \in [Pages -> PageStates] /\ errors \in 0 .. MaxErrors
  BY DEF IndInv, TypeOK
<1>1. CASE TransferClean
  <2>1. pc = "clean" /\ errors = 0
    BY <1>0, <1>1, NoError DEF TransferClean
  <2> QED
    BY <2>1 DEF HandleMatchesFlash
<1>2. CASE TransferMark
  <2>1. /\ pc = "mark" /\ pc' \in {"new", "copy"} /\ errors = 0
        /\ receiving \in Pages /\ active \in Pages
        /\ ProgramStatus(TRUE, receiving, "receiving")
    BY <1>0, <1>2, NoError DEF TransferMark, ReceivingMark, IndexOK
  <2>2. /\ Only("active", active)
        /\ \A p \in PagesOf("receiving") : p = receiving
        /\ flash[receiving].status \in {"erased", "receiving"}
    BY <2>1 DEF HandleMatchesFlash
  <2>3. PICK t : t = "receiving" /\ flash' = [flash EXCEPT ![receiving].status = t]
    BY <2>1, <2>2 DEF ProgramStatus, AndStatus
  <2>4. /\ flash'[receiving].status = "receiving"
        /\ flash'[receiving].count = flash[receiving].count
        /\ \A q \in Pages : q # receiving => flash'[q] = flash[q]
    BY <1>0, <2>1, <2>3 DEF PageStates
  <2>5. CASE flash[receiving].status = "receiving"
    <3>1. SameMarked
      BY <2>1, <2>4, <2>5 DEF SameMarked
    <3> QED
      BY <2>1, <3>1, SameCounts
  <2>6. CASE flash[receiving].status = "erased"
    <3>1. flash[receiving].count = Bits
      BY <2>1, <2>6 DEF CountsKept, ValidEmpty, ErasedPage
    <3>2. /\ \A q \in Pages : flash[q].status = "active" <=> q = active
          /\ \A q \in Pages : flash'[q].status = "active" <=> q = active
          /\ flash'[active] = flash[active]
          /\ active # receiving
      BY <2>1, <2>2, <2>4, <2>6 DEF Only
    <3>3. PagesOf("active") = {active} /\ PagesOf("active")' = {active}
          /\ PagesOf("receiving")' = {receiving}
      BY <2>1, <2>2, <2>4, <2>6, <3>2 DEF PagesOf
    <3>4. flash[active].count \in Counts
      BY <2>1, <3>3 DEF CountsKept, MarkedCounts
    <3>5. CountsKept'
      BY <2>1, <2>4, <3>1, <3>2, <3>3, <3>4 DEF CountsKept, MarkedCounts
    <3>6. DurableCount' = DurableCount
      BY <2>1, <3>2, FromActive, RecoveredIs
    <3> QED
      BY <3>5, <3>6 DEF Grows
  <2> QED
    BY <2>2, <2>5, <2>6
<1>3. CASE TransferNew \/ TransferCopy
  <2>1. /\ pc \in {"new", "copy"} /\ pc' = "copy" /\ receiving \in Pages
        /\ \/ flash' = flash /\ errors' = errors
           \/ \E w : PutInReceiving(w)
    BY <1>0, <1>3 DEF TransferNew, TransferCopy, IndexOK
  <2>2. CASE flash' = flash /\ errors' = errors
    BY <2>1, <2>2, FlashSame, SameCounts
  <2>3. ASSUME NEW k, NEW w, NEW ok \in BOOLEAN, ProgramWord(ok, receiving, k, w), Outcome(ok)
        PROVE  CountsKept' /\ Grows
    <3>1. errors = 0 /\ SameMarked
      BY <1>0, <2>1, <2>3, NoError, WordCounts
    <3> QED
      BY <2>1, <3>1, SameCounts
  <2> QED
    BY <2>1, <2>2, <2>3 DEF PutInReceiving
<1>4. CASE TransferCount
  <2> DEFINE c == BitsOf(EraseCounter + (IF receiving = 0 THEN 1 ELSE 0))
  <2>1. /\ pc = "copy" /\ pc' = "drop" /\ errors = 0 /\ active' = active
        /\ receiving' = receiving /\ receiving \in Pages /\ active \in Pages
        /\ ProgramCount(TRUE, receiving, c)
    BY <1>0, <1>4, NoError DEF TransferCount, IndexOK
  <2>2. TwoInUse /\ MarkedCounts
    BY <2>1 DEF HandleMatchesFlash, CountsKept
  <2>3. /\ \A q \in Pages : flash[q].status = "active" <=> q = active
        /\ \A q \in Pages : flash[q].status = "receiving" <=> q = receiving
        /\ receiving # active
        /\ PagesOf("active") = {active} /\ PagesOf("receiving") = {receiving}
    BY <2>1, <2>2 DEF TwoInUse, Only, PagesOf
  <2>4. c = Carried(flash[active].count, receiving) /\ c \subseteq Bits
    BY <2>1 DEF EraseCounter, Carried, Counted, BitsOf, Pages, NoPage
  <2> HIDE DEF c
  <2>5. flash[receiving].count \in {Bits, c}
    BY <2>2, <2>3, <2>4 DEF MarkedCounts
  <2>6. /\ flash'[receiving].count = c
        /\ flash'[receiving].status = flash[receiving].status
        /\ \A q \in Pages : q # receiving => flash'[q] = flash[q]
    BY <1>0, <2>1, <2>4, <2>5 DEF ProgramCount, PageStates
  <2>7. /\ flash'[active] = flash[active]
        /\ \A q \in Pages : flash'[q].status = flash[q].status
    BY <2>1, <2>3, <2>6
  <2>8. PagesOf("active")' = {active} /\ PagesOf("receiving")' = {receiving}
    BY <2>3, <2>7 DEF PagesOf
  <2>9. flash[active].count \in Counts
    BY <2>2, <2>3 DEF MarkedCounts
  <2>10. CountsKept'
    BY <2>1, <2>4, <2>6, <2>7, <2>8, <2>9 DEF CountsKept, MarkedCounts
  <2>11. DurableCount' = DurableCount
    BY <2>1, <2>3, <2>7, FromActive, RecoveredIs
  <2> QED
    BY <2>10, <2>11 DEF Grows
<1>5. CASE TransferErase
  <2>1. /\ pc = "drop" /\ pc' = "switch" /\ errors = 0
        /\ receiving \in Pages /\ active \in Pages
        /\ flash' = [flash EXCEPT ![active] = ErasedPage]
    BY <1>0, <1>5, NoError DEF TransferErase, IndexOK, ErasePage
  <2>2. TwoInUse /\ MarkedCounts
        /\ flash[receiving].count = Carried(flash[active].count, receiving)
    BY <2>1 DEF HandleMatchesFlash, CountsKept
  <2>3. /\ \A q \in Pages : flash[q].status = "active" <=> q = active
        /\ \A q \in Pages : flash[q].status = "receiving" <=> q = receiving
        /\ receiving # active
        /\ PagesOf("active") = {active}
    BY <2>1, <2>2 DEF TwoInUse, Only, PagesOf
  <2>4. /\ flash'[active].status = "erased"
        /\ \A q \in Pages : q # active => flash'[q] = flash[q]
    BY <1>0, <2>1 DEF ErasedPage
  <2>5. /\ \A q \in Pages : flash'[q].status # "active"
        /\ \A q \in Pages : flash'[q].status = "receiving" <=> q = receiving
        /\ flash'[receiving] = flash[receiving]
    BY <2>1, <2>3, <2>4
  <2>6. PagesOf("active")' = {} /\ PagesOf("receiving")' = {receiving}
    BY <2>1, <2>5 DEF PagesOf
  <2> DEFINE a == flash[active].count
  <2>7. a \in Counts
    BY <2>2, <2>3 DEF MarkedCounts
  <2> HIDE DEF a
  <2>8. /\ Carried(a, receiving) \in Counts
        /\ Counted(Carried(a, receiving)) \in {Counted(a), (Counted(a) + 1) % CountMax}
    BY <2>7, CarriedOver
  <2>9. CountsKept'
    BY <2>1, <2>2, <2>5, <2>6, <2>8 DEF CountsKept, MarkedCounts, a
  <2>10. DurableCount = Counted(a)
    BY <2>1, <2>3, FromActive, RecoveredIs DEF a
  <2>11. DurableCount' = Counted(Carried(a, receiving))
    <3>1. Recovered(flash') = Counted(flash'[receiving].count)
      BY <2>1, <2>5, FromReceiving
    <3> QED
      BY <2>2, <2>5, <3>1, RecoveredIs DEF a
  <2> QED
    BY <2>8, <2>9, <2>10, <2>11 DEF Grows
<1>6. CASE TransferSwitch
  <2>1. /\ pc = "switch" /\ pc' = "ready" /\ errors = 0 /\ receiving \in Pages
        /\ ProgramStatus(TRUE, receiving, "active")
    BY <1>0, <1>6, NoError DEF TransferSwitch, EndTransfer, IndexOK
  <2>2. /\ \A q \in Pages : flash[q].status # "active"
        /\ \A q \in Pages : flash[q].status = "receiving" <=> q = receiving
        /\ MarkedCounts
    BY <2>1 DEF HandleMatchesFlash, Only, CountsKept, Pages, NoPage
  <2>3. MarkedCounts' /\ Grows
    BY <1>0, <2>1, <2>2, TakesOver
  <2> QED
    BY <2>1, <2>3 DEF CountsKept
<1> QED
  BY <1>1, <1>2, <1>3, <1>4, <1>5, <1>6 DEF Transfer


LEMMA NextCounts ==
    IndInv /\ HandleMatchesFlash /\ CountsKept /\ [Next]_vars
    => CountsKept' /\ (errors' = 0 /\ ~UNCHANGED vars => Grows)
<1> SUFFICES ASSUME IndInv, HandleMatchesFlash, CountsKept, [Next]_vars
             PROVE  CountsKept' /\ (errors' = 0 /\ ~UNCHANGED vars => Grows)
  OBVIOUS
<1>1. CASE errors' # 0
  BY <1>1 DEF CountsKept
<1>2. CASE errors' = 0 /\ Step
  BY <1>2, StartingCounts, FormattingCounts, WritingCounts, TransferCounts, DeletingCounts
     DEF Step
<1>3. CASE errors' = 0 /\ Calling
  BY <1>3, CallingCounts
<1>4. CASE errors' = 0 /\ PowerLoss
  <2>1. errors = 0 /\ flash' = flash /\ pc' = "off"
    BY <1>4 DEF PowerLoss
  <2> QED
    BY <2>1, FlashSame, SameCounts
<1>5. CASE errors' = 0 /\ UNCHANGED vars
  BY <1>5 DEF vars, CountsKept, MarkedCounts, PagesOf, ValidEmpty
<1> QED
  BY <1>1, <1>2, <1>3, <1>4, <1>5 DEF Next

\* Outside formatting the erase count that a restart recovers survives every
\* step of a transfer and every power failure and grows by one at a time.
THEOREM CountIsSteady == Spec => EraseCountSteady
<1>1. Init => CountsKept /\ HandleMatchesFlash
  BY DEF Init, CountsKept, MarkedCounts, PagesOf, ErasedPage, ForeignPage, HandleMatchesFlash, AtMostOne
<1>2. IndInv /\ HandleMatchesFlash /\ CountsKept /\ [Next]_vars
      => [errors' = 0 /\ (HasActive \/ HasReceiving) /\ (HasActive' \/ HasReceiving')
             /\ pc # "formatted"
          => DurableCount' \in {DurableCount,
                                (DurableCount + 1) % CountMax}]_vars
  BY NextCounts DEF Grows
<1> QED
  BY <1>1, <1>2, InitType, NextType, NextHandle, NextCounts, PTL DEF Spec, EraseCountSteady
=============================================================================
