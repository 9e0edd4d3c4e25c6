------------------------------- MODULE NvmData -------------------------------
(***************************************************************************)
(* The context of the LoRaWAN MAC in non-volatile memory: NvmDataMgmt.c,   *)
(* nvmm.c below it and LoRaMacHandleNvm above it.  The context is cut into *)
(* groups, each ending in a CRC.  After every run of the MAC the groups    *)
(* that changed are written to the EEPROM byte by byte; at the next start  *)
(* the whole context is restored, or nothing.                              *)
(*                                                                         *)
(* Each action up to one byte of the EEPROM is one step, so power can fail *)
(* between any two bytes and the command line can wipe the EEPROM there.   *)
(* That a byte is either old or new is what EepromStore promises.          *)
(***************************************************************************)
EXTENDS Integers, FiniteSets, Sequences

CONSTANTS NumGroups,   \* groups of LoRaMacNvmData_t (7 in the code)
          NumBytes,    \* bytes of a group before its CRC
          MaxChanges,  \* bound on changes of the context by the MAC
          MaxWipes     \* bound on `lorawan clear` and factory resets

ASSUME NvmAssumption == /\ NumGroups \in Nat \ {0}
                        /\ NumBytes \in Nat \ {0}
                        /\ MaxChanges \in Nat
                        /\ MaxWipes \in Nat

Groups == 1 .. NumGroups    \* in the order of LoRaMacNvmData_t
Crypto == 1
Positions == 1 .. NumBytes

\* A byte is the number of the change that wrote it; 0 is its default.
Missing == -1
Bytes == 0 .. MaxChanges

\* The CRC of some bytes stands for the bytes: different ones have different
\* CRCs, none of which is the 0 that memset and NvmmReset leave.
Crc(data) == data
ZeroCrc == [k \in Positions |-> -2]
MissingCrc == [k \in Positions |-> Missing]
Crcs == [Positions -> Bytes] \cup {ZeroCrc}

Defaults == [g \in Groups |-> [data |-> [k \in Positions |-> 0], crc |-> ZeroCrc]]
Blank == [g \in Groups |->
            [data |-> [k \in Positions |-> Missing], crc |-> MissingCrc]]

VARIABLES nvm,       \* Nvm of LoRaMac.c: the context in RAM
          flags,     \* NvmNotifyFlags
          eeprom,    \* the bytes in the EEPROM, Missing when never written
          pc,        \* "off", "init", "run", "store", "reset"
          group,     \* the group being written
          position,  \* the next byte of it; NumBytes + 1 is the CRC
          restored,  \* whether the last NvmDataMgmtRestore returned > 0
          changes,   \* changes of the context so far
          newest,    \* changes of the Crypto group since power-on
          wipes      \* wipes so far

vars == <<nvm, flags, eeprom, pc, group, position, restored, changes, newest, wipes>>

----------------------------------------------------------------------------
(* LmHandlerInit: the defaults, then NvmDataMgmtRestore.                   *)

PowerOn == /\ pc = "off"
           /\ pc' = "init"
           /\ nvm' = Defaults
           /\ UNCHANGED <<flags, eeprom, group, position, restored, changes,
                          newest, wipes>>

ReadableCrc(g) == eeprom[g].crc # MissingCrc
Readable(g) == \A k \in Positions : eeprom[g].data[k] # Missing

CrcUnchecked(g) == Readable(g)   \* mutation: the CRCs not compared
\* NvmmCrc32Check: also true when the CRC itself was never written.
CrcCheck(g) == \/ ~ReadableCrc(g)
               \/ Readable(g) /\ Crc(eeprom[g].data) = eeprom[g].crc

Whole(g) == Readable(g) /\ ReadableCrc(g)

\* NvmmRead of the whole context copies byte by byte up to the first one that
\* is missing, straight into the context of the MAC.
ReadUpTo(g) == IF \A h \in 1 .. g - 1 : Whole(h)
               THEN [data |-> [k \in Positions |->
                        IF \A j \in 1 .. k : eeprom[g].data[j] # Missing
                        THEN eeprom[g].data[k] ELSE nvm[g].data[k]],
                     crc |-> IF Whole(g) THEN eeprom[g].crc ELSE nvm[g].crc]
               ELSE nvm[g]

Restore == /\ pc = "init"
           /\ IF \A g \in Groups : CrcCheck(g)
              THEN /\ nvm' = [g \in Groups |-> ReadUpTo(g)]
                   /\ restored' = \A g \in Groups : Whole(g)
              ELSE restored' = FALSE /\ UNCHANGED nvm
           /\ pc' = "run"
           /\ UNCHANGED <<flags, eeprom, group, position, changes, newest, wipes>>

----------------------------------------------------------------------------
(* LmHandlerProcess: LoRaMacProcess, then NvmDataMgmtStore.                *)

\* The MAC changes some bytes of a group.
MacChange ==
    /\ pc = "run" /\ changes < MaxChanges
    /\ changes' = changes + 1
    /\ \E g \in Groups, S \in (SUBSET Positions) \ {{}} :
          /\ nvm' = [nvm EXCEPT ![g].data =
                        [k \in Positions |-> IF k \in S THEN changes' ELSE @[k]]]
          /\ newest' = IF g = Crypto THEN newest \cup {changes'} ELSE newest
    /\ UNCHANGED <<flags, eeprom, pc, group, position, restored, wipes>>

\* Mutation: the last group forgotten.
ChangedButLast == {g \in Groups \ {NumGroups} : Crc(nvm[g].data) # nvm[g].crc}
Changed == {g \in Groups : Crc(nvm[g].data) # nvm[g].crc}

\* Mutation: the groups written from the last to the first.
FirstOfBackwards(S) == CHOOSE g \in S : \A h \in S : g >= h
FirstOf(S) == CHOOSE g \in S : \A h \in S : g <= h

\* Mutation: the flags not reset.
AdvanceFlagged(todo) == /\ position' = 1
                        /\ flags' = IF todo = {} THEN {group} ELSE todo
                        /\ IF todo = {}
                           THEN pc' = "run" /\ UNCHANGED group
                           ELSE group' = FirstOf(todo) /\ pc' = pc
Advance(todo) == /\ position' = 1
                 /\ IF todo = {}
                    THEN flags' = {} /\ pc' = "run" /\ UNCHANGED group
                    ELSE flags' = todo /\ group' = FirstOf(todo) /\ pc' = pc

\* LoRaMacHandleNvm renews the CRCs and notifies; NvmDataMgmtStore, called
\* next, finds the MAC idle, as LoRaMacHandleNvm did, and stops it.
Process == /\ pc = "run" /\ Changed # {}
           /\ nvm' = [g \in Groups |-> [nvm[g] EXCEPT !.crc = Crc(nvm[g].data)]]
           /\ flags' = Changed
           /\ group' = FirstOf(Changed)
           /\ position' = 1
           /\ pc' = "store"
           /\ UNCHANGED <<eeprom, restored, changes, newest, wipes>>

\* NvmmWrite of a group.  flags is what remains of NvmNotifyFlags to be done:
\* the code clears it at the end.
StoreByte == /\ pc = "store" /\ position <= NumBytes
             /\ eeprom' = [eeprom EXCEPT ![group].data[position] =
                                            nvm[group].data[position]]
             /\ position' = position + 1
             /\ UNCHANGED <<nvm, flags, pc, group, restored, changes, newest, wipes>>

StoreCrc == /\ pc = "store" /\ position = NumBytes + 1
            /\ eeprom' = [eeprom EXCEPT ![group].crc = nvm[group].crc]
            /\ Advance(flags \ {group})
            /\ UNCHANGED <<nvm, restored, changes, newest, wipes>>

----------------------------------------------------------------------------
(* NvmDataMgmtFactoryReset and `lorawan clear`: neither touches the RAM.   *)

FactoryReset == /\ pc = "run" /\ wipes < MaxWipes
                /\ wipes' = wipes + 1
                /\ pc' = "reset"
                /\ group' = 1
                /\ UNCHANGED <<nvm, flags, eeprom, position, restored, changes, newest>>

ResetGroup == /\ pc = "reset"
              /\ eeprom' = [eeprom EXCEPT ![group].crc = ZeroCrc]
              /\ IF group = NumGroups THEN pc' = "run" /\ UNCHANGED group
                                      ELSE group' = group + 1 /\ UNCHANGED pc
              /\ UNCHANGED <<nvm, flags, position, restored, changes, newest, wipes>>

\* The console has the higher priority: between any two bytes.
Clear == /\ pc \in {"run", "store"} /\ wipes < MaxWipes
         /\ wipes' = wipes + 1
         /\ eeprom' = Blank
         /\ UNCHANGED <<nvm, flags, pc, group, position, restored, changes, newest>>

PowerLoss == /\ pc # "off"
             /\ pc' = "off"
             /\ nvm' = Defaults
             /\ flags' = {}
             /\ group' = 1
             /\ position' = 1
             /\ restored' = FALSE
             /\ newest' = {}
             /\ UNCHANGED <<eeprom, changes, wipes>>

Init == /\ nvm = Defaults
        /\ flags = {}
        /\ eeprom = Blank
        /\ pc = "off"
        /\ group = 1
        /\ position = 1
        /\ restored = FALSE
        /\ changes = 0
        /\ newest = {}
        /\ wipes = 0

Next == \/ PowerOn \/ Restore
        \/ MacChange \/ Process \/ StoreByte \/ StoreCrc
        \/ FactoryReset \/ ResetGroup \/ Clear \/ PowerLoss

Spec == Init /\ [][Next]_vars

----------------------------------------------------------------------------
\* Types, and how far the writing of groups can be.
TypeOK == /\ nvm \in [Groups -> [data : [Positions -> Bytes], crc : Crcs]]
          /\ flags \in SUBSET Groups
          /\ eeprom \in [Groups -> [data : [Positions -> Bytes \cup {Missing}],
                                    crc : Crcs \cup {MissingCrc}]]
          /\ pc \in {"off", "init", "run", "store", "reset"}
          /\ group \in Groups
          /\ position \in 1 .. NumBytes + 1
          /\ restored \in BOOLEAN
          /\ changes \in 0 .. MaxChanges
          /\ newest \in SUBSET (1 .. MaxChanges)
          /\ wipes \in 0 .. MaxWipes
          /\ pc = "store" <=> flags # {}
          /\ pc = "store" => group \in flags

\* The CRCs in RAM tell what is in the EEPROM: a group whose CRC is current and
\* that is not waiting to be written is there, byte for byte, whatever was torn
\* by a power failure and whatever a restore took over.
SavedUnlessFlagged ==
    wipes = 0 => \A g \in Groups \ flags :
                    nvm[g].crc # ZeroCrc => /\ eeprom[g].crc = nvm[g].crc
                                            /\ eeprom[g].data = nvm[g].crc

\* A restore that reports success leaves a context whose CRCs all match, never
\* a group that a power failure or a wipe left half written.
RestoresValid ==
    [][Restore /\ restored' =>
          \A g \in Groups : nvm'[g].crc = Crc(nvm'[g].data)]_vars

Newest(data) == CHOOSE n \in {data[k] : k \in Positions} :
                   \A k \in Positions : data[k] <= n

\* The frame counters are not behind the rest of the context: once a group that
\* changed after the Crypto group did is in the EEPROM, so is that change of
\* the Crypto group, wherever power was lost.
CryptoNotBehind ==
    wipes = 0 =>
       \A g \in Groups \ {Crypto} :
          Whole(g) /\ Crc(eeprom[g].data) = eeprom[g].crc =>
             \A n \in newest : n < Newest(eeprom[g].data) =>
                /\ Whole(Crypto)
                /\ n <= Newest(eeprom[Crypto].data)
=============================================================================
