-------------------------- MODULE EepromEmulation --------------------------
(***************************************************************************)
(* The EEPROM emulation of nmsdk2/targets/nm180100/utils/                  *)
(* eeprom_emulation.c: variables kept in the pages of a flash that can     *)
(* only clear bits word by word and set them page by page.  One page is    *)
(* active; when it is full the live variables are transferred to a         *)
(* receiving page, which then replaces it.                                 *)
(*                                                                         *)
(* Every action is one call of the flash driver (a word programmed or a    *)
(* page erased) together with the code up to the next one, so power can    *)
(* fail between any two of them; a loop over words that may program each   *)
(* takes one action per word.  The driver may also report an error, having *)
(* changed nothing, at most MaxErrors times.                               *)
(***************************************************************************)
EXTENDS Integers, FiniteSets, Sequences

CONSTANTS NumPages,    \* LORAWAN_EEPROM_NUMBER_OF_PAGES
          PageWords,   \* words of a page after the first (2047 in the code)
          NumVars,     \* virtual addresses in use: 1 .. NumVars
          Radix,       \* values of a byte (256 in the code)
          MaxLen,      \* longest array stored by eeprom_write_array
          CountBits,   \* width of the erase count (24 in the code)
          MaxErrors    \* bound on errors of the flash driver

ASSUME EepromAssumption ==
          /\ NumPages \in Nat /\ NumPages >= 2
          /\ PageWords \in Nat \ {0}
          /\ NumVars \in Nat \ {0}
          /\ Radix \in Nat \ {0}
          /\ MaxLen \in Nat
          /\ CountBits \in Nat \ {0}
          /\ MaxErrors \in Nat

Pages == 0 .. NumPages - 1
NoPage == -1
Vars == 1 .. NumVars
Data == 0 .. (MaxLen + 1) * Radix - 1
None == -1

\* A word is a virtual address and a value.  The erased word 0xFFFFFFFF has
\* the address 0xFFFF and a deleted one (programmed with 0x0000FFFF) the
\* address 0: neither is an address a variable can have.
Empty == [va |-> -1, data |-> 0]
Dead == [va |-> 0, data |-> 0]
Words == {Empty, Dead} \cup [va : Vars, data : Data]
Index == 1 .. PageWords

\* The first word: status byte and erase count, the latter as the set of the
\* bits that are still 1, so that programming is intersection.
Bits == 0 .. CountBits - 1
Status == {"erased", "receiving", "active", "other"}
ErasedPage == [status |-> "erased", count |-> Bits,
               word |-> [k \in Index |-> Empty]]
ForeignPage == [status |-> "other", count |-> Bits,
                word |-> [k \in Index |-> Dead]]
PageStates == [status : Status, count : SUBSET Bits, word : [Index -> Words]]

WriteOps == [kind : {"write", "put"}, va : Vars, data : Data]
DeleteOps == [kind : {"delete"}, va : Vars]

VARIABLES flash,      \* the pages, the only state that survives power loss
          active,     \* pHandle->active_page
          receiving,  \* pHandle->receiving_page
          pc,         \* where the running function is
          cur,        \* its loop variable: a page, or a word counted down
          script,     \* primitive operations the current call still performs
          booted,     \* BoardInitPeriph has returned
          errors      \* errors of the flash driver so far

handle == <<active, receiving>>
vars == <<flash, active, receiving, pc, cur, script, booted, errors>>

----------------------------------------------------------------------------
(* The flash driver and the pages.                                         *)

\* A call of the driver succeeds, or fails within the bound.
Outcome(ok) == IF ok THEN errors' = errors
                     ELSE errors < MaxErrors /\ errors' = errors + 1

\* Programming keeps the bits that are 0: 0xFF, 0xAA and 0x00 follow each
\* other in this order, and a byte of another firmware may become any of them.
AndStatus(old, new) == IF "active" \in {old, new} THEN {"active"}
                       ELSE IF old = "erased" THEN {new}
                       ELSE IF old = "receiving" THEN {"receiving"}
                       ELSE {"other", "receiving", "active"}

ProgramStatus(ok, p, s) ==
    IF ok THEN \E t \in AndStatus(flash[p].status, s) :
                  flash' = [flash EXCEPT ![p].status = t]
          ELSE flash' = flash
\* Mutation: the count programmed without 0xFF in the status byte.
ProgramCountBare(ok, p, c) ==
    flash' = IF ok THEN [flash EXCEPT ![p].count = @ \cap c, ![p].status = "active"]
                   ELSE flash
ProgramCount(ok, p, c) ==
    flash' = IF ok THEN [flash EXCEPT ![p].count = @ \cap c] ELSE flash
ProgramWord(ok, p, k, w) ==
    flash' = IF ok THEN [flash EXCEPT ![p].word[k] = w] ELSE flash
ErasePage(ok, p) ==
    flash' = IF ok THEN [flash EXCEPT ![p] = ErasedPage] ELSE flash

\* The number stored in a count, and the bits of a number.  The powers of two
\* are a function of this module so that the proofs know how they grow.
Pow2[n \in Nat] == IF n = 0 THEN 1 ELSE 2 * Pow2[n - 1]
CountMax == Pow2[CountBits] - 1   \* all bits 1: never written
BitsOf(n) == {b \in Bits : (n \div Pow2[b]) % 2 = 1}
NumberOf(c) == CHOOSE n \in 0 .. CountMax : BitsOf(n) = c

ValidEmpty(p) == flash[p] = ErasedPage
Holding(p, v) == {k \in Index : flash[p].word[k].va = v}
\* Mutation: the loop of page_write ends before the last word.
FreeButLast(p) == {k \in 1 .. PageWords - 1 : flash[p].word[k] = Empty}
Free(p) == {k \in Index : flash[p].word[k] = Empty}
First(S) == CHOOSE k \in S : \A j \in S : k <= j
Last(S) == CHOOSE k \in S : \A j \in S : k >= j

\* eeprom_read on page p: the last word of the page wins.
Lookup(p, v) == IF Holding(p, v) = {} THEN None
                ELSE flash[p].word[Last(Holding(p, v))].data
Read(v) == Lookup(active, v)

\* Mutation: the count read from the receiving page.
EraseCounterOfReceiving == LET n == NumberOf(flash[receiving].count)
                           IN  IF n = CountMax THEN 0 ELSE n
EraseCounter == IF active = NoPage THEN CountMax
                ELSE LET n == NumberOf(flash[active].count)
                     IN  IF n = CountMax THEN 0 ELSE n

----------------------------------------------------------------------------
(* eeprom_init, called by BoardInitPeriph at power-on.                     *)

Boot == /\ pc = "off"
        /\ active' = NoPage
        /\ receiving' = NoPage
        /\ cur' = 0
        /\ pc' = "scan"
        /\ UNCHANGED <<flash, script, booted, errors>>

\* Mutation: the caller ignores that eeprom_init failed.
StayUnformatted == pc' = "wild" /\ cur' = 0
\* Returns false: the caller formats.
StartFormat == /\ pc' = "format"
               /\ cur' = NumPages - 1

ScanMarked == /\ pc = "scan" /\ cur < NumPages
              /\ \/ /\ flash[cur].status = "active"
                    /\ IF active = NoPage
                       THEN active' = cur /\ cur' = cur + 1 /\ UNCHANGED pc
                       ELSE UNCHANGED active /\ StartFormat
                    /\ UNCHANGED receiving
                 \/ /\ flash[cur].status = "receiving"
                    /\ IF receiving = NoPage
                       THEN receiving' = cur /\ cur' = cur + 1 /\ UNCHANGED pc
                       ELSE UNCHANGED receiving /\ StartFormat
                    /\ UNCHANGED active
              /\ UNCHANGED <<flash, script, booted, errors>>

\* A page that only looks erased, or has no known status, is erased.
ScanUnmarked == /\ pc = "scan" /\ cur < NumPages
                /\ flash[cur].status \in {"erased", "other"}
                /\ IF ValidEmpty(cur)
                   THEN UNCHANGED <<flash, errors>>
                   ELSE \E ok \in BOOLEAN : ErasePage(ok, cur) /\ Outcome(ok)
                /\ cur' = cur + 1
                /\ UNCHANGED <<active, receiving, pc, script, booted>>

ScanDone == /\ pc = "scan" /\ cur = NumPages
            /\ IF active = NoPage /\ receiving = NoPage
               THEN StartFormat /\ UNCHANGED <<active, receiving, booted>>
               ELSE IF receiving = NoPage
               THEN /\ pc' = "ready" /\ booted' = TRUE
                    /\ UNCHANGED <<active, receiving, cur>>
               ELSE IF active = NoPage
               THEN /\ active' = receiving /\ receiving' = NoPage
                    /\ pc' = "adopt" /\ UNCHANGED <<booted, cur>>
               ELSE pc' = "mark" /\ UNCHANGED <<active, receiving, booted, cur>>
            /\ UNCHANGED <<flash, script, errors>>

\* Only a receiving page was found: its transfer was complete.
Adopt == /\ pc = "adopt"
         /\ \E ok \in BOOLEAN : /\ ProgramStatus(ok, active, "active")
                                /\ Outcome(ok)
         /\ pc' = "ready"
         /\ booted' = TRUE
         /\ UNCHANGED <<active, receiving, cur, script>>

----------------------------------------------------------------------------
(* eeprom_format, after a failed eeprom_init or from the command line.     *)

\* Formatting gives up when the driver fails.  With no active page the code
\* goes on with pages[-1], whatever lies there: the model ends the boot in
\* "wild", where BoardInitPeriph has returned but there is no store to call.
GiveUpReady == pc' = "ready"   \* mutation: pages[-1] taken for a page
GiveUpFormat == pc' = IF active = NoPage THEN "wild" ELSE "ready"

FormatErase == /\ pc = "format" /\ cur >= 0
               /\ IF ValidEmpty(cur)
                  THEN cur' = cur - 1 /\ UNCHANGED <<flash, errors, pc>>
                  ELSE \E ok \in BOOLEAN :
                          /\ ErasePage(ok, cur) /\ Outcome(ok)
                          /\ IF ok THEN cur' = cur - 1 /\ UNCHANGED pc
                                   ELSE UNCHANGED cur /\ GiveUpFormat
               /\ booted' = (pc' # "format" \/ booted)
               /\ UNCHANGED <<active, receiving, script>>

FormatCount == /\ pc = "format" /\ cur = -1
               /\ active' = 0
               /\ receiving' = NoPage
               /\ \E ok \in BOOLEAN : /\ ProgramCount(ok, 0, BitsOf(1))
                                      /\ Outcome(ok)
                                      /\ pc' = IF ok THEN "formatted" ELSE "ready"
               /\ booted' = (pc' = "ready" \/ booted)
               /\ UNCHANGED <<cur, script>>

FormatActivate == /\ pc = "formatted"
                  /\ \E ok \in BOOLEAN : /\ ProgramStatus(ok, active, "active")
                                         /\ Outcome(ok)
                  /\ pc' = "ready"
                  /\ booted' = TRUE
                  /\ UNCHANGED <<active, receiving, cur, script>>

----------------------------------------------------------------------------
(* The calls, made one at a time by the LoRaWAN task.                      *)

Idle == pc = "ready" /\ script = <<>>

Start(ops) == /\ Idle /\ booted
              /\ ops # <<>>
              /\ script' = ops
              /\ UNCHANGED <<flash, active, receiving, pc, cur, booted, errors>>

WriteOp(v, d) == [kind |-> "write", va |-> v, data |-> d]
PutOp(v, d) == [kind |-> "put", va |-> v, data |-> d]
DeleteOp(v) == [kind |-> "delete", va |-> v]

\* Deletions of len consecutive addresses; those above NumVars find nothing.
Deletes(v, len) ==
    [i \in 1 .. (IF v + len - 1 > NumVars THEN NumVars - v + 1 ELSE len)
        |-> DeleteOp(v + i - 1)]

\* An array keeps its length in the upper byte of its first value.
LenOf(d) == d \div Radix

\* eeprom_write and eeprom_write_array_len: eeprom_write byte by byte.
WriteCall == \E v \in Vars, d \in Data : Start(<<WriteOp(v, d)>>)

WriteArrayLenCall ==
    \E v \in Vars, n \in 1 .. NumVars :
       /\ v + n - 1 <= NumVars
       /\ \E b \in [1 .. n -> 0 .. Radix - 1] :
             Start([i \in 1 .. n |-> WriteOp(v + i - 1, b[i])])

\* eeprom_write_array: an array of another length is deleted first.
WriteArrayCall ==
    \E v \in Vars, n \in 1 .. MaxLen :
       /\ v + n - 1 <= NumVars
       /\ \E b \in [1 .. n -> 0 .. Radix - 1] :
             LET stored == IF Read(v) = None THEN n ELSE LenOf(Read(v))
                 puts == [i \in 1 .. n |->
                            PutOp(v + i - 1,
                                  IF i = 1 THEN n * Radix + b[1] ELSE b[i])]
             IN  Start(IF stored = n THEN puts ELSE Deletes(v, stored) \o puts)

DeleteCall == \E v \in Vars : Start(<<DeleteOp(v)>>)

DeleteArrayCall == \E v \in Vars : /\ Idle
                                   /\ Read(v) # None
                                   /\ Start(Deletes(v, LenOf(Read(v))))

\* `lorawan clear` on the command line, while no call is running.
FormatCall == /\ Idle /\ booted
              /\ StartFormat
              /\ UNCHANGED <<flash, active, receiving, script, booted, errors>>

----------------------------------------------------------------------------
(* eeprom_write: the first free word of the active page, or a transfer.    *)

Running(kinds) == pc = "ready" /\ script # <<>> /\ Head(script).kind \in kinds

\* eeprom_page_transfer picks the next page when none is receiving already.
NextPage == IF active + 1 >= NumPages THEN 0 ELSE active + 1

StartTransfer ==
    IF receiving # NoPage
    THEN pc' = "mark" /\ UNCHANGED receiving
    ELSE /\ receiving' = NextPage
         /\ pc' = IF ValidEmpty(receiving') THEN "mark" ELSE "clean"

WriteSame == /\ Running({"write"})
             /\ Read(Head(script).va) = Head(script).data
             /\ script' = Tail(script)
             /\ UNCHANGED <<flash, active, receiving, pc, cur, booted, errors>>

Stores == \/ Running({"put"})
          \/ /\ Running({"write"})
             /\ Read(Head(script).va) # Head(script).data

\* A free word is programmed; when that fails too, the code transfers.
WriteWord == /\ Stores
             /\ Free(active) # {}
             /\ \E ok \in BOOLEAN :
                   /\ Outcome(ok)
                   /\ ProgramWord(ok, active, First(Free(active)),
                         [va |-> Head(script).va, data |-> Head(script).data])
                   /\ IF ok THEN script' = Tail(script) /\ UNCHANGED <<receiving, pc>>
                            ELSE StartTransfer /\ UNCHANGED script
             /\ UNCHANGED <<active, cur, booted>>

WriteFull == /\ Stores
             /\ Free(active) = {}
             /\ StartTransfer
             /\ UNCHANGED <<flash, active, cur, script, booted, errors>>

----------------------------------------------------------------------------
(* eeprom_page_transfer.  The driver's errors are ignored up to the copy;  *)
(* from the erase count on, the first one ends the transfer.               *)

TransferClean == /\ pc = "clean"
                 /\ \E ok \in BOOLEAN : ErasePage(ok, receiving) /\ Outcome(ok)
                 /\ pc' = "mark"
                 /\ UNCHANGED <<active, receiving, cur, script, booted>>

ReceivingMark == "receiving"

TransferMark == /\ pc = "mark"
                /\ \E ok \in BOOLEAN : /\ ProgramStatus(ok, receiving, ReceivingMark)
                                       /\ Outcome(ok)
                /\ pc' = IF script = <<>> THEN "copy" ELSE "new"
                /\ cur' = PageWords
                /\ UNCHANGED <<active, receiving, script, booted>>

\* eeprom_page_write on the receiving page: without a free word, or when the
\* driver fails, the value is lost and nobody is told.
PutInReceiving(w) ==
    IF Free(receiving) = {}
    THEN UNCHANGED <<flash, errors>>
    ELSE \E ok \in BOOLEAN :
            ProgramWord(ok, receiving, First(Free(receiving)), w) /\ Outcome(ok)

TransferNew == /\ pc = "new"
               /\ PutInReceiving([va |-> Head(script).va, data |-> Head(script).data])
               /\ script' = Tail(script)
               /\ pc' = "copy"
               /\ UNCHANGED <<active, receiving, cur, booted>>

CopiedAlways(w) == w.va \in Vars   \* mutation: also what is there already
\* Newest first, a variable is copied unless it has already been.
Copied(w) == w.va \in Vars /\ Holding(receiving, w.va) = {}

TransferCopy == /\ pc = "copy" /\ cur > 0
                /\ LET w == flash[active].word[cur]
                   IN  IF Copied(w)
                       THEN PutInReceiving(w)
                       ELSE UNCHANGED <<flash, errors>>
                /\ cur' = cur - 1
                /\ UNCHANGED <<active, receiving, pc, script, booted>>

\* The transfer is over: eeprom_write and eeprom_init return true whatever
\* its status.
EndTransfer == pc' = "ready" /\ booted' = TRUE

TransferCount == /\ pc = "copy" /\ cur = 0
                 /\ \E ok \in BOOLEAN :
                       /\ Outcome(ok)
                       /\ ProgramCount(ok, receiving,
                             BitsOf(EraseCounter + (IF receiving = 0 THEN 1 ELSE 0)))
                       /\ IF ok THEN pc' = "drop" /\ UNCHANGED booted
                                ELSE EndTransfer
                 /\ UNCHANGED <<active, receiving, cur, script>>

TransferErase == /\ pc = "drop"
                 /\ \E ok \in BOOLEAN :
                       /\ Outcome(ok)
                       /\ ErasePage(ok, active)
                       /\ IF ok THEN pc' = "switch" /\ UNCHANGED booted
                                ELSE EndTransfer
                 /\ UNCHANGED <<active, receiving, cur, script>>

SwitchUnwrapped == active' = active + 1 /\ receiving' = NoPage   \* mutation
KeepHandle == active' = active /\ receiving' = NoPage   \* mutation
SwitchHandle == active' = receiving /\ receiving' = NoPage

TransferSwitch == /\ pc = "switch"
                  /\ \E ok \in BOOLEAN :
                        /\ Outcome(ok)
                        /\ ProgramStatus(ok, receiving, "active")
                        /\ IF ok THEN SwitchHandle
                                 ELSE UNCHANGED handle
                  /\ EndTransfer
                  /\ UNCHANGED <<cur, script>>

----------------------------------------------------------------------------
(* eeprom_delete: every copy, newest first; the driver's errors ignored.   *)

DeleteBegin == /\ Running({"delete"})
               /\ pc' = "delete"
               /\ cur' = PageWords
               /\ UNCHANGED <<flash, active, receiving, script, booted, errors>>

DeleteWord == /\ pc = "delete" /\ cur > 0
              /\ IF flash[active].word[cur].va = Head(script).va
                 THEN \E ok \in BOOLEAN : /\ ProgramWord(ok, active, cur, Dead)
                                          /\ Outcome(ok)
                 ELSE UNCHANGED <<flash, errors>>
              /\ cur' = cur - 1
              /\ UNCHANGED <<active, receiving, pc, script, booted>>

DeleteEnd == /\ pc = "delete" /\ cur = 0
             /\ script' = Tail(script)
             /\ pc' = "ready"
             /\ UNCHANGED <<flash, active, receiving, cur, booted, errors>>

----------------------------------------------------------------------------

\* Power is lost: only the flash remains.
PowerLoss == /\ pc # "off"
             /\ pc' = "off"
             /\ active' = NoPage
             /\ receiving' = NoPage
             /\ cur' = 0
             /\ script' = <<>>
             /\ booted' = FALSE
             /\ UNCHANGED <<flash, errors>>

\* A new board: flash never written, or left over from other firmware.
Init == /\ flash \in [Pages -> {ErasedPage, ForeignPage}]
        /\ active = NoPage
        /\ receiving = NoPage
        /\ pc = "off"
        /\ cur = 0
        /\ script = <<>>
        /\ booted = FALSE
        /\ errors = 0

Starting == Boot \/ ScanMarked \/ ScanUnmarked \/ ScanDone \/ Adopt
Formatting == FormatErase \/ FormatCount \/ FormatActivate
Calling == \/ WriteCall \/ WriteArrayLenCall \/ WriteArrayCall
           \/ DeleteCall \/ DeleteArrayCall \/ FormatCall
Writing == WriteSame \/ WriteWord \/ WriteFull
Transfer == \/ TransferClean \/ TransferMark \/ TransferNew \/ TransferCopy
            \/ TransferCount \/ TransferErase \/ TransferSwitch
Deleting == DeleteBegin \/ DeleteWord \/ DeleteEnd

\* What the code does of itself once a call is made.
Step == Starting \/ Formatting \/ Writing \/ Transfer \/ Deleting

Next == Step \/ Calling \/ PowerLoss

Spec == Init /\ [][Next]_vars

\* The processor keeps running between power failures.
FairSpec == Spec /\ WF_vars(Step)

----------------------------------------------------------------------------
PCs == {"off", "scan", "adopt", "format", "formatted", "wild", "ready",
        "clean", "mark", "new", "copy", "drop", "switch", "delete"}

\* Types of the variables.
TypeOK == /\ flash \in [Pages -> PageStates]
          /\ active \in Pages \cup {NoPage}
          /\ receiving \in Pages \cup {NoPage}
          /\ pc \in PCs
          /\ cur \in Int
          /\ script \in Seq(WriteOps \cup DeleteOps)
          /\ booted \in BOOLEAN
          /\ errors \in 0 .. MaxErrors

\* Every index into pages[], the words of a page or the script is one that is
\* there, whatever the driver reports, but in one state: once an erase has
\* failed while no page was active ("wild"), the result of eeprom_format is
\* dropped (board.c:61) and the next call takes pages[-1] for a page.  No boot
\* gets there before the driver has reported an error.
IndexOK == /\ pc \notin {"off", "scan", "format", "wild"} => active \in Pages
           /\ pc \in {"clean", "mark", "new", "copy", "drop", "switch"}
                 => receiving \in Pages
           /\ pc = "scan" => cur \in 0 .. NumPages
           /\ pc = "format" => cur \in -1 .. NumPages - 1
           /\ pc \in {"new", "copy", "delete"} => cur \in 0 .. PageWords
           /\ pc \in {"new", "delete"} => script # <<>>
           /\ pc \in {"off", "scan"} => script = <<>>
           /\ pc \in {"clean", "mark", "new"} /\ script # <<>>
                 => Head(script).kind # "delete"
           /\ pc = "wild" => errors > 0 /\ active = NoPage

PagesOf(s) == {p \in Pages : flash[p].status = s}

\* Page q is the only one marked s; no page is, when q = NoPage.
Only(s, q) == \A p \in Pages : flash[p].status = s <=> p = q
AtMostOne(s) == \A p, q \in PagesOf(s) : p = q
CleanBut(S) == \A p \in Pages \ S : ValidEmpty(p)

\* eeprom_init knows the marks of the pages it has looked at.
Scanned == /\ AtMostOne("active") /\ AtMostOne("receiving")
           /\ active < cur /\ receiving < cur
           /\ \A p \in Pages : p < cur =>
                 /\ flash[p].status = "active" <=> p = active
                 /\ flash[p].status = "receiving" <=> p = receiving
                 /\ p \notin {active, receiving} => ValidEmpty(p)

OneInUse == /\ Only("active", active) /\ Only("receiving", NoPage)
            /\ receiving = NoPage
            /\ CleanBut({active})

TwoInUse == /\ Only("active", active) /\ Only("receiving", receiving)
            /\ receiving # active
            /\ CleanBut({active, receiving})

\* While the driver reports no error the handle in RAM and the marks in flash
\* agree, at every step of every function.  In particular eeprom_init never
\* meets two active or two receiving pages, the states in which it gives up
\* and its caller formats the flash, and all pages but the active one are
\* really erased when a transfer begins.
HandleMatchesFlash ==
    errors = 0 =>
       /\ pc = "off" => AtMostOne("active") /\ AtMostOne("receiving")
       /\ pc = "scan" => Scanned
       /\ pc = "adopt" => /\ Only("active", NoPage) /\ Only("receiving", active)
                          /\ receiving = NoPage
                          /\ CleanBut({active})
       /\ pc = "format" => /\ \A p \in PagesOf("active") : p = active
                           /\ Only("receiving", NoPage)
                           /\ \A p \in Pages : p > cur => ValidEmpty(p)
       /\ pc = "formatted" => /\ active = 0 /\ receiving = NoPage
                              /\ flash[0].status = "erased"
                              /\ CleanBut({0})
       /\ pc \in {"ready", "delete"} => OneInUse
       /\ pc = "mark" => /\ Only("active", active)
                         /\ \A p \in PagesOf("receiving") : p = receiving
                         /\ flash[receiving].status \in {"erased", "receiving"}
                         /\ CleanBut({active, receiving})
       /\ pc \in {"new", "copy", "drop"} => TwoInUse
       /\ pc = "switch" => /\ Only("active", NoPage)
                           /\ Only("receiving", receiving)
                           /\ CleanBut({receiving})
       /\ pc \notin {"clean", "wild"}
============================================================================
