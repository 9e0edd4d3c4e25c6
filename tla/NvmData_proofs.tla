---------------------------- MODULE NvmData_proofs ----------------------------
(***************************************************************************)
(* What holds of the stored context for any number of groups, bytes,       *)
(* changes, wipes and power failures: its types, that the CRCs in RAM tell *)
(* what the EEPROM holds, and that a restore takes over whole groups only. *)
(***************************************************************************)
EXTENDS NvmData, WellFoundedInduction, TLAPS

\* A set of groups that is not empty has a first one.
LEMMA FirstGroup == ASSUME NEW S \in SUBSET Groups, S # {}
                    PROVE  FirstOf(S) \in S /\ \A h \in S : FirstOf(S) <= h
<1> DEFINE R == OpToRel(<, Nat)
<1>1. S \subseteq Nat
  BY NvmAssumption DEF Groups
<1>2. IsWellFoundedOn(R, Nat)
  BY NatLessThanWellFounded
<1>3. PICK g \in S : \A h \in S : ~(<<h, g>> \in R)
  <2> HIDE DEF R
  <2> QED
    BY <1>1, <1>2, WFMin
<1>4. \A h \in S : ~(h < g)
  BY <1>1, <1>3 DEF OpToRel
<1>5. \A h \in S : g <= h
  BY <1>1, <1>4
<1> QED
  BY <1>5 DEF FirstOf

\* The context as it is while the groups are written: the CRCs are current,
\* and the group being written is in the EEPROM up to the next byte.
Storing == /\ pc = "store" =>
                 /\ \A g \in Groups : nvm[g].crc = Crc(nvm[g].data)
                 /\ \A k \in Positions : k < position =>
                       eeprom[group].data[k] = nvm[group].data[k] \/ wipes > 0
           /\ pc \in {"off", "init"} => nvm = Defaults
           /\ pc = "reset" => wipes > 0

IndInv == TypeOK /\ Storing /\ SavedUnlessFlagged

\* The defaults of the context have their type.
LEMMA DefaultsType ==
    /\ Defaults \in [Groups -> [data : [Positions -> Bytes], crc : Crcs]]
    /\ Blank \in [Groups -> [data : [Positions -> Bytes \cup {Missing}],
                             crc : Crcs \cup {MissingCrc}]]
<1>1. [k \in Positions |-> 0] \in [Positions -> Bytes]
  BY NvmAssumption DEF Bytes
<1>2. [k \in Positions |-> Missing] \in [Positions -> Bytes \cup {Missing}]
  OBVIOUS
<1> QED
  BY <1>1, <1>2 DEF Defaults, Blank, Crcs

\* The invariant holds before the first start.
LEMMA InitInv == Init => IndInv
<1> SUFFICES ASSUME Init PROVE IndInv
  OBVIOUS
<1>1. restored \in BOOLEAN
  BY Zenon DEF Init
<1>2. /\ nvm \in [Groups -> [data : [Positions -> Bytes], crc : Crcs]]
      /\ eeprom \in [Groups -> [data : [Positions -> Bytes \cup {Missing}],
                                crc : Crcs \cup {MissingCrc}]]
  BY DefaultsType DEF Init
<1>3. /\ 1 \in Groups /\ 1 \in 1 .. NumBytes + 1
      /\ changes \in 0 .. MaxChanges /\ wipes \in 0 .. MaxWipes
  BY NvmAssumption DEF Init, Groups
<1>4. TypeOK
  BY <1>1, <1>2, <1>3 DEF Init, TypeOK
<1>5. Storing
  BY DEF Init, Storing
<1>6. SavedUnlessFlagged
  BY DEF Init, SavedUnlessFlagged, Defaults
<1> QED
  BY <1>4, <1>5, <1>6 DEF IndInv

\* Power-on, and the restore.
LEMMA StartInv == ASSUME IndInv, PowerOn \/ Restore PROVE IndInv'
<1>0. TypeOK /\ Storing /\ SavedUnlessFlagged
  BY DEF IndInv
<1>1. CASE PowerOn
  <2>1. TypeOK'
    BY <1>0, <1>1, DefaultsType DEF PowerOn, TypeOK
  <2> QED
    BY <1>0, <1>1, <2>1 DEF PowerOn, IndInv, Storing, SavedUnlessFlagged, Defaults
<1>2. CASE Restore
  <2>1. /\ pc = "init" /\ pc' = "run" /\ nvm = Defaults
        /\ UNCHANGED <<flags, eeprom, group, position, changes, newest, wipes>>
    BY <1>0, <1>2 DEF Restore, Storing
  <2>2. restored' \in BOOLEAN
    <3>1. restored' = (\A g \in Groups : Whole(g)) \/ restored' = FALSE
      BY <1>2 DEF Restore
    <3> QED
      BY <3>1, Zenon
  <2>3. \/ nvm' = nvm
        \/ /\ nvm' = [g \in Groups |-> ReadUpTo(g)]
           /\ \A g \in Groups : CrcCheck(g)
    BY <1>2 DEF Restore
  <2>4. nvm' \in [Groups -> [data : [Positions -> Bytes], crc : Crcs]]
    <3>1. ASSUME NEW g \in Groups
          PROVE  ReadUpTo(g) \in [data : [Positions -> Bytes], crc : Crcs]
      <4>1. nvm[g] \in [data : [Positions -> Bytes], crc : Crcs]
        BY <1>0 DEF TypeOK
      <4>2. /\ eeprom[g].data \in [Positions -> Bytes \cup {Missing}]
            /\ eeprom[g].crc \in Crcs \cup {MissingCrc}
        BY <1>0 DEF TypeOK
      <4>3. ASSUME NEW k \in Positions, eeprom[g].data[k] # Missing
            PROVE  eeprom[g].data[k] \in Bytes
        BY <4>2, <4>3
      <4>4. [k \in Positions |->
                IF \A j \in 1 .. k : eeprom[g].data[j] # Missing
                THEN eeprom[g].data[k] ELSE nvm[g].data[k]] \in [Positions -> Bytes]
        BY <4>1, <4>3, NvmAssumption DEF Positions
      <4>5. (IF Whole(g) THEN eeprom[g].crc ELSE nvm[g].crc) \in Crcs
        BY <4>1, <4>2 DEF Whole, ReadableCrc
      <4> QED
        BY <4>1, <4>4, <4>5 DEF ReadUpTo
    <3> QED
      BY <1>0, <2>3, <3>1 DEF TypeOK
  <2>5. TypeOK'
    BY <1>0, <2>1, <2>2, <2>4 DEF TypeOK
  <2>6. Storing'
    BY <2>1 DEF Storing
  <2>7. SavedUnlessFlagged'
    <3> SUFFICES ASSUME wipes' = 0, NEW g \in Groups \ flags', nvm'[g].crc # ZeroCrc
                 PROVE  eeprom'[g].crc = nvm'[g].crc /\ eeprom'[g].data = nvm'[g].crc
      BY DEF SavedUnlessFlagged
    <3>1. nvm[g].crc = ZeroCrc
      BY <2>1 DEF Defaults
    <3>2. nvm'[g] = ReadUpTo(g) /\ CrcCheck(g)
      BY <2>3, <3>1
    <3>3. Whole(g) /\ nvm'[g].crc = eeprom[g].crc
      BY <3>1, <3>2 DEF ReadUpTo
    <3>4. eeprom[g].data = eeprom[g].crc
      BY <3>2, <3>3 DEF CrcCheck, Whole, Crc
    <3> QED
      BY <2>1, <3>3, <3>4
  <2> QED
    BY <2>5, <2>6, <2>7 DEF IndInv
<1> QED
  BY <1>1, <1>2

\* The MAC changes the context, and the changed groups are found.
LEMMA ChangeInv == ASSUME IndInv, MacChange \/ Process PROVE IndInv'
<1>0. TypeOK /\ Storing /\ SavedUnlessFlagged
  BY DEF IndInv
<1>1. CASE MacChange
  <2>1. PICK g \in Groups, S \in (SUBSET Positions) \ {{}} :
           /\ nvm' = [nvm EXCEPT ![g].data =
                         [k \in Positions |-> IF k \in S THEN changes' ELSE @[k]]]
           /\ newest' = IF g = Crypto THEN newest \cup {changes'} ELSE newest
    BY <1>1 DEF MacChange
  <2>2. /\ pc = "run" /\ changes' \in 1 .. MaxChanges
        /\ UNCHANGED <<flags, eeprom, pc, group, position, restored, wipes>>
    BY <1>0, <1>1, NvmAssumption DEF MacChange, TypeOK
  <2>3. /\ nvm' \in [Groups -> [data : [Positions -> Bytes], crc : Crcs]]
        /\ \A h \in Groups : nvm'[h].crc = nvm[h].crc
    <3> DEFINE d == [k \in Positions |-> IF k \in S THEN changes' ELSE nvm[g].data[k]]
    <3>1. /\ nvm[g] \in [data : [Positions -> Bytes], crc : Crcs]
          /\ changes' \in Bytes
      BY <1>0, <2>2, NvmAssumption DEF TypeOK, Bytes
    <3>2. d \in [Positions -> Bytes]
      BY <3>1
    <3>3. nvm' = [nvm EXCEPT ![g].data = d]
      BY <2>1
    <3> HIDE DEF d
    <3> QED
      BY <1>0, <3>2, <3>3 DEF TypeOK
  <2>4. newest' \in SUBSET (1 .. MaxChanges)
    BY <1>0, <2>1, <2>2 DEF TypeOK
  <2>5. TypeOK'
    BY <1>0, <2>2, <2>3, <2>4 DEF TypeOK
  <2> QED
    BY <1>0, <2>2, <2>3, <2>5 DEF IndInv, Storing, SavedUnlessFlagged
<1>2. CASE Process
  <2>1. /\ pc = "run" /\ pc' = "store" /\ flags' = Changed /\ position' = 1
        /\ group' = FirstOf(Changed) /\ Changed # {} /\ Changed \subseteq Groups
        /\ UNCHANGED <<eeprom, restored, changes, newest, wipes>>
    BY <1>2 DEF Process, Changed
  <2>2. nvm' = [g \in Groups |-> [nvm[g] EXCEPT !.crc = Crc(nvm[g].data)]]
    BY <1>2 DEF Process
  <2>3. \A g \in Groups : /\ nvm'[g].data = nvm[g].data
                          /\ nvm'[g].crc = Crc(nvm[g].data)
    BY <1>0, <2>2 DEF TypeOK
  <2>4. nvm' \in [Groups -> [data : [Positions -> Bytes], crc : Crcs]]
    BY <1>0, <2>2 DEF TypeOK, Crc, Crcs
  <2>5. group' \in Changed
    BY <2>1, FirstGroup
  <2>6. TypeOK'
    BY <1>0, <2>1, <2>4, <2>5, NvmAssumption DEF TypeOK
  <2>7. Storing'
    BY <2>1, <2>3 DEF Storing, Positions
  <2>8. flags = {}
    BY <1>0, <2>1 DEF TypeOK
  <2>9. SavedUnlessFlagged'
    BY <1>0, <2>1, <2>3, <2>8 DEF SavedUnlessFlagged, Changed
  <2> QED
    BY <2>6, <2>7, <2>9 DEF IndInv
<1> QED
  BY <1>1, <1>2

\* The groups are written.
LEMMA StoreInv == ASSUME IndInv, StoreByte \/ StoreCrc PROVE IndInv'
<1>0. TypeOK /\ Storing /\ SavedUnlessFlagged
  BY DEF IndInv
<1>1. CASE StoreByte
  <2>1. /\ pc = "store" /\ position \in Positions /\ position' = position + 1
        /\ group \in Groups /\ group \in flags
        /\ eeprom' = [eeprom EXCEPT ![group].data[position] =
                                       nvm[group].data[position]]
        /\ UNCHANGED <<nvm, flags, pc, group, restored, changes, newest, wipes>>
    BY <1>0, <1>1 DEF StoreByte, TypeOK, Positions
  <2>2. nvm[group].data[position] \in Bytes
    BY <1>0, <2>1 DEF TypeOK
  <2>3. eeprom' \in [Groups -> [data : [Positions -> Bytes \cup {Missing}],
                                crc : Crcs \cup {MissingCrc}]]
    BY <1>0, <2>1, <2>2 DEF TypeOK
  <2>4. /\ \A g \in Groups : g # group => eeprom'[g] = eeprom[g]
        /\ eeprom'[group].data[position] = nvm[group].data[position]
        /\ \A k \in Positions : k # position =>
              eeprom'[group].data[k] = eeprom[group].data[k]
    BY <1>0, <2>1 DEF TypeOK
  <2>5. TypeOK'
    <3>1. position' \in 1 .. NumBytes + 1
      BY <2>1, NvmAssumption DEF Positions
    <3> QED
      BY <1>0, <2>1, <2>3, <3>1 DEF TypeOK
  <2>6. Storing'
    <3>1. ASSUME NEW k \in Positions, k < position'
          PROVE  eeprom'[group].data[k] = nvm[group].data[k] \/ wipes > 0
      <4>1. k = position \/ (k # position /\ k < position)
        BY <2>1, <3>1, NvmAssumption DEF Positions
      <4> QED
        BY <1>0, <2>1, <2>4, <4>1 DEF Storing
    <3>2. \A g \in Groups : nvm[g].crc = Crc(nvm[g].data)
      BY <1>0, <2>1 DEF Storing
    <3>3. /\ pc' = "store" /\ wipes' = wipes /\ group' = group
          /\ nvm' = nvm
      BY <2>1
    <3> QED
      BY <3>1, <3>2, <3>3 DEF Storing, Crc
  <2>7. SavedUnlessFlagged'
    BY <1>0, <2>1, <2>4 DEF SavedUnlessFlagged
  <2> QED
    BY <2>5, <2>6, <2>7 DEF IndInv
<1>2. CASE StoreCrc
  <2>1. /\ pc = "store" /\ position = NumBytes + 1
        /\ group \in Groups /\ group \in flags /\ flags \subseteq Groups
        /\ eeprom' = [eeprom EXCEPT ![group].crc = nvm[group].crc]
        /\ Advance(flags \ {group})
        /\ UNCHANGED <<nvm, restored, changes, newest, wipes>>
    BY <1>0, <1>2 DEF StoreCrc, TypeOK
  <2>2. eeprom' \in [Groups -> [data : [Positions -> Bytes \cup {Missing}],
                                crc : Crcs \cup {MissingCrc}]]
    BY <1>0, <2>1 DEF TypeOK
  <2>3. /\ \A g \in Groups : eeprom'[g].data = eeprom[g].data
        /\ \A g \in Groups : g # group => eeprom'[g].crc = eeprom[g].crc
        /\ eeprom'[group].crc = nvm[group].crc
    BY <1>0, <2>1 DEF TypeOK
  <2>4. /\ flags' = flags \ {group} /\ position' = 1 /\ group' \in Groups
        /\ IF flags' = {} THEN pc' = "run" ELSE pc' = "store" /\ group' \in flags'
    <3>1. flags \ {group} # {} => FirstOf(flags \ {group}) \in flags \ {group}
      BY <2>1, FirstGroup
    <3> QED
      BY <2>1, <3>1 DEF Advance
  <2>5. TypeOK'
    BY <1>0, <2>1, <2>2, <2>4, NvmAssumption DEF TypeOK
  <2>6. Storing'
    BY <1>0, <2>1, <2>4 DEF Storing, Positions
  <2>7. wipes = 0 => eeprom[group].data = nvm[group].crc
    <3> SUFFICES ASSUME wipes = 0 PROVE eeprom[group].data = nvm[group].crc
      OBVIOUS
    <3>1. \A k \in Positions : eeprom[group].data[k] = nvm[group].data[k]
      BY <1>0, <2>1, NvmAssumption DEF Storing, Positions
    <3>2. /\ eeprom[group].data \in [Positions -> Bytes \cup {Missing}]
          /\ nvm[group].data \in [Positions -> Bytes]
      BY <1>0, <2>1 DEF TypeOK
    <3>3. eeprom[group].data = nvm[group].data
      BY <3>1, <3>2
    <3> QED
      BY <1>0, <2>1, <3>3 DEF Storing, Crc
  <2>8. SavedUnlessFlagged'
    BY <1>0, <2>1, <2>3, <2>4, <2>7 DEF SavedUnlessFlagged
  <2> QED
    BY <2>5, <2>6, <2>8 DEF IndInv
<1> QED
  BY <1>1, <1>2

\* Wipes and power failures.
LEMMA WipeInv == ASSUME IndInv, FactoryReset \/ ResetGroup \/ Clear \/ PowerLoss
                 PROVE  IndInv'
<1>0. TypeOK /\ Storing /\ SavedUnlessFlagged
  BY DEF IndInv
<1>1. CASE FactoryReset
  <2>1. wipes' \in 1 .. MaxWipes
    BY <1>0, <1>1, NvmAssumption DEF FactoryReset, TypeOK
  <2>2. TypeOK'
    BY <1>0, <1>1, <2>1, NvmAssumption DEF FactoryReset, TypeOK, Groups
  <2> QED
    BY <1>1, <2>1, <2>2 DEF FactoryReset, IndInv, Storing, SavedUnlessFlagged
<1>2. CASE ResetGroup
  <2>1. eeprom' \in [Groups -> [data : [Positions -> Bytes \cup {Missing}],
                                crc : Crcs \cup {MissingCrc}]]
    BY <1>0, <1>2 DEF ResetGroup, TypeOK, Crcs
  <2>2. /\ group' \in Groups /\ pc = "reset" /\ pc' \in {"run", "reset"}
        /\ UNCHANGED <<nvm, flags, position, restored, changes, newest, wipes>>
    BY <1>0, <1>2, NvmAssumption DEF ResetGroup, TypeOK, Groups
  <2>3. wipes > 0
    BY <1>0, <2>2 DEF Storing
  <2>4. TypeOK'
    BY <1>0, <2>1, <2>2 DEF TypeOK
  <2> QED
    BY <1>0, <2>2, <2>3, <2>4 DEF IndInv, Storing, SavedUnlessFlagged, TypeOK
<1>3. CASE Clear
  <2>1. wipes' \in 1 .. MaxWipes /\ pc \in {"run", "store"}
    BY <1>0, <1>3, NvmAssumption DEF Clear, TypeOK
  <2>2. TypeOK'
    BY <1>0, <1>3, <2>1, DefaultsType DEF Clear, TypeOK
  <2> QED
    BY <1>0, <1>3, <2>1, <2>2 DEF Clear, IndInv, Storing, SavedUnlessFlagged
<1>4. CASE PowerLoss
  <2>1. restored' \in BOOLEAN
    BY <1>4, Zenon DEF PowerLoss
  <2>2. nvm' = Defaults /\ group' \in Groups /\ position' \in 1 .. NumBytes + 1
    BY <1>4, NvmAssumption DEF PowerLoss, Groups
  <2>3. TypeOK'
    BY <1>0, <1>4, <2>1, <2>2, DefaultsType DEF PowerLoss, TypeOK
  <2> QED
    BY <1>4, <2>3 DEF PowerLoss, IndInv, Storing, SavedUnlessFlagged, Defaults
<1> QED
  BY <1>1, <1>2, <1>3, <1>4

\* Every step preserves the invariant.
LEMMA NextInv == IndInv /\ [Next]_vars => IndInv'
<1> SUFFICES ASSUME IndInv, [Next]_vars PROVE IndInv'
  OBVIOUS
<1>1. CASE UNCHANGED vars
  BY <1>1 DEF vars, IndInv, TypeOK, Storing, SavedUnlessFlagged
<1> QED
  BY <1>1, StartInv, ChangeInv, StoreInv, WipeInv DEF Next

\* Types, and that groups are flagged exactly while they are being written.
THEOREM TypeCorrect == Spec => []TypeOK
<1>1. IndInv => TypeOK
  BY DEF IndInv
<1> QED
  BY <1>1, InitInv, NextInv, PTL DEF Spec

\* A group whose CRC in RAM is current and that is not flagged is in the
\* EEPROM, byte for byte.
THEOREM CrcsTell == Spec => []SavedUnlessFlagged
<1>1. IndInv => SavedUnlessFlagged
  BY DEF IndInv
<1> QED
  BY <1>1, InitInv, NextInv, PTL DEF Spec

\* A restore that reports success takes over whole groups only.
THEOREM WholeGroupsOnly == Spec => RestoresValid
<1>1. ASSUME IndInv, Restore, restored', NEW g \in Groups
      PROVE  nvm'[g].crc = Crc(nvm'[g].data)
  <2>1. /\ \A h \in Groups : CrcCheck(h) /\ Whole(h)
        /\ nvm' = [h \in Groups |-> ReadUpTo(h)]
    BY <1>1 DEF Restore
  <2>2. \A h \in 1 .. g - 1 : h \in Groups
    BY NvmAssumption DEF Groups
  <2>3. \A k \in Positions : \A j \in 1 .. k : j \in Positions
    BY NvmAssumption DEF Positions
  <2>4. /\ nvm'[g].data = [k \in Positions |-> eeprom[g].data[k]]
        /\ nvm'[g].crc = eeprom[g].crc
    BY <2>1, <2>2, <2>3 DEF ReadUpTo, Whole, Readable
  <2>5. eeprom[g].data \in [Positions -> Bytes \cup {Missing}]
    BY <1>1 DEF IndInv, TypeOK
  <2>6. nvm'[g].data = eeprom[g].data
    BY <2>4, <2>5
  <2>7. eeprom[g].data = eeprom[g].crc
    BY <2>1 DEF CrcCheck, Whole, Crc
  <2> QED
    BY <2>4, <2>6, <2>7 DEF Crc
<1>2. IndInv /\ [Next]_vars =>
         [Restore /\ restored' =>
             \A g \in Groups : nvm'[g].crc = Crc(nvm'[g].data)]_vars
  BY <1>1
<1> QED
  BY <1>2, InitInv, NextInv, PTL DEF Spec, RestoresValid

----------------------------------------------------------------------------
(* The frame counters.                                                     *)

\* The bytes of some data have a largest.
LEMMA NewestIs == ASSUME NEW data \in [Positions -> Bytes \cup {Missing}]
                  PROVE  /\ \E k \in Positions : Newest(data) = data[k]
                         /\ \A k \in Positions : data[k] <= Newest(data)
<1> DEFINE R == OpToRel(<, Nat)
           D == {MaxChanges - data[k] : k \in Positions}
<1>1. \A k \in Positions : data[k] \in Int /\ data[k] <= MaxChanges
  BY NvmAssumption DEF Bytes, Missing
<1>2. D \subseteq Nat
  BY <1>1, NvmAssumption
<1>3. 1 \in Positions
  BY NvmAssumption DEF Positions
<1>4. IsWellFoundedOn(R, Nat)
  BY NatLessThanWellFounded
<1>5. D # {}
  BY <1>3
<1>6. PICK m \in D : \A d \in D : ~(<<d, m>> \in R)
  <2> HIDE DEF R, D
  <2> QED
    BY <1>2, <1>4, <1>5, WFMin
<1>7. PICK j \in Positions : m = MaxChanges - data[j]
  OBVIOUS
<1>8. \A k \in Positions : data[k] <= data[j]
  <2> SUFFICES ASSUME NEW k \in Positions PROVE data[k] <= data[j]
    OBVIOUS
  <2>1. ~(MaxChanges - data[k] < m)
    BY <1>2, <1>6 DEF OpToRel
  <2> QED
    BY <1>1, <1>7, <2>1, NvmAssumption
<1> HIDE DEF R, D
<1>9. \E n \in {data[k] : k \in Positions} : \A k \in Positions : data[k] <= n
  BY <1>8
<1> QED
  BY <1>9 DEF Newest

\* Each change n of the Crypto group since power-on is kept in the EEPROM, or
\* nothing else there is newer.
Kept(n) == /\ Whole(Crypto)
           /\ \E k \in Positions : n <= eeprom[Crypto].data[k]
Oldest(n) == \A g \in Groups \ {Crypto}, k \in Positions : eeprom[g].data[k] <= n

\* No byte is newer than the last change; a change of the Crypto group is in RAM,
\* where no byte is older than a saved one; the Crypto group is written first.
Counted ==
    /\ \A n \in newest : n <= changes
    /\ \A g \in Groups, k \in Positions : /\ nvm[g].data[k] <= changes
                                         /\ eeprom[g].data[k] <= changes
    /\ pc \in {"off", "init"} => newest = {}
    /\ \A n \in newest : \E k \in Positions : n <= nvm[Crypto].data[k]
    /\ \A n \in newest, k \in Positions :
          n <= eeprom[Crypto].data[k] => n <= nvm[Crypto].data[k]
    /\ pc = "store" /\ Crypto \in flags => group = Crypto

CryptoFirst ==
    wipes = 0 =>
       /\ \A n \in newest : Kept(n) \/ Oldest(n)
       /\ pc = "store" /\ Crypto \notin flags => \A n \in newest : Kept(n)

\* The types of what is compared.
LEMMA Numbers == ASSUME TypeOK
                 PROVE  /\ changes \in Nat /\ newest \subseteq Nat \ {0}
                        /\ Crypto \in Groups
                        /\ \A g \in Groups, k \in Positions :
                              nvm[g].data[k] \in Nat /\ eeprom[g].data[k] \in Int
BY NvmAssumption DEF TypeOK, Groups, Crypto, Bytes, Missing

\* A group that is saved as it is in RAM keeps all changes.
LEMMA SavedKeeps ==
    ASSUME TypeOK, Counted, eeprom[Crypto].data = nvm[Crypto].data,
           eeprom[Crypto].crc = Crc(nvm[Crypto].data)
    PROVE  \A n \in newest : Kept(n)
<1>1. /\ nvm[Crypto].data \in [Positions -> Bytes] /\ 1 \in Positions
      /\ Missing \notin Bytes
  BY NvmAssumption, Numbers DEF TypeOK, Positions, Bytes, Missing
<1>2. Readable(Crypto)
  BY <1>1 DEF Readable
<1>3. ReadableCrc(Crypto)
  <2>1. nvm[Crypto].data[1] # MissingCrc[1]
    BY <1>1 DEF MissingCrc
  <2> QED
    BY <2>1 DEF ReadableCrc, Crc
<1> QED
  BY <1>2, <1>3 DEF Kept, Whole, Counted

\* It holds before the first start.
LEMMA InitCrypto == Init => Counted /\ CryptoFirst
<1> SUFFICES ASSUME Init PROVE Counted /\ CryptoFirst
  OBVIOUS
<1>1. \A g \in Groups, k \in Positions : nvm[g].data[k] = 0 /\ eeprom[g].data[k] = -1
  BY DEF Init, Defaults, Blank, Missing
<1> QED
  BY <1>1 DEF Init, Counted, CryptoFirst

\* The start changes no byte of the EEPROM, and nothing has changed since.
LEMMA StartCrypto ==
    ASSUME IndInv, Counted, CryptoFirst, PowerOn \/ Restore \/ PowerLoss
    PROVE  Counted' /\ CryptoFirst'
<1>0. TypeOK /\ Storing
  BY DEF IndInv
<1>1. /\ newest' = {} /\ pc' # "store" /\ changes' = changes /\ eeprom' = eeprom
  BY DEF PowerOn, Restore, PowerLoss, Counted
<1>2. \A g \in Groups, k \in Positions : nvm'[g].data[k] <= changes
  <2>1. CASE nvm' = Defaults \/ nvm' = nvm
    BY <1>0, <2>1, Numbers DEF Defaults, Counted
  <2>2. CASE nvm' = [g \in Groups |-> ReadUpTo(g)]
    BY <2>2 DEF ReadUpTo, Counted
  <2> QED
    BY <2>1, <2>2 DEF PowerOn, Restore, PowerLoss
<1> QED
  BY <1>1, <1>2 DEF Counted, CryptoFirst

\* A change is newer than all that is saved.
LEMMA ChangeCrypto ==
    ASSUME IndInv, Counted, CryptoFirst, MacChange
    PROVE  Counted' /\ CryptoFirst'
<1>0. TypeOK
  BY DEF IndInv
<1>1. PICK g \in Groups, S \in (SUBSET Positions) \ {{}} :
         /\ nvm' = [nvm EXCEPT ![g].data =
                       [k \in Positions |-> IF k \in S THEN changes' ELSE @[k]]]
         /\ newest' = IF g = Crypto THEN newest \cup {changes'} ELSE newest
  BY DEF MacChange
<1>2. /\ pc = "run" /\ pc' = "run" /\ changes' = changes + 1
      /\ UNCHANGED <<flags, eeprom, group, position, restored, wipes>>
  BY DEF MacChange
<1>3. /\ \A h \in Groups \ {g} : nvm'[h] = nvm[h]
      /\ \A k \in Positions : nvm'[g].data[k] = IF k \in S THEN changes' ELSE nvm[g].data[k]
  BY <1>0, <1>1 DEF TypeOK
<1>4. PICK j \in Positions : nvm'[g].data[j] = changes'
  BY <1>1, <1>3
<1>5. \A h \in Groups, k \in Positions :
         /\ nvm'[h].data[k] <= changes' /\ nvm[h].data[k] <= nvm'[h].data[k]
         /\ eeprom[h].data[k] < changes'
  BY <1>0, <1>2, <1>3, Numbers DEF Counted
<1>6. \A n \in newest' : n \in newest \/ (n = changes' /\ g = Crypto)
  BY <1>1
<1>7. \A n \in newest : n \in Nat /\ n <= changes'
  BY <1>0, <1>2, Numbers DEF Counted
<1>8. \A n \in newest' : \E k \in Positions : n <= nvm'[Crypto].data[k]
  <2> SUFFICES ASSUME NEW n \in newest'
               PROVE  \E k \in Positions : n <= nvm'[Crypto].data[k]
    OBVIOUS
  <2>1. CASE n = changes' /\ g = Crypto
    BY <1>0, <1>2, <1>4, <2>1, Numbers
  <2>2. CASE n \in newest
    <3>1. PICK k \in Positions : n <= nvm[Crypto].data[k]
      BY <2>2 DEF Counted
    <3>2. /\ nvm[Crypto].data[k] \in Int /\ nvm'[Crypto].data[k] \in Int /\ n \in Int
          /\ nvm[Crypto].data[k] <= nvm'[Crypto].data[k]
      BY <1>0, <1>2, <1>3, <1>5, <1>7, <2>2, Numbers
    <3> QED
      BY <3>1, <3>2
  <2> QED
    BY <1>6, <2>1, <2>2
<1>9. \A n \in newest', k \in Positions :
        n <= eeprom[Crypto].data[k] => n <= nvm'[Crypto].data[k]
  <2> SUFFICES ASSUME NEW n \in newest', NEW k \in Positions,
                      n <= eeprom[Crypto].data[k]
               PROVE  n <= nvm'[Crypto].data[k]
    OBVIOUS
  <2>1. /\ eeprom[Crypto].data[k] < changes' /\ eeprom[Crypto].data[k] \in Int
        /\ changes' \in Int
    BY <1>0, <1>2, <1>5, Numbers
  <2>2. n # changes'
    BY <2>1
  <2>3. n \in newest /\ n \in Int /\ n <= nvm[Crypto].data[k]
    BY <1>6, <1>7, <2>2 DEF Counted
  <2>4. /\ nvm[Crypto].data[k] \in Int /\ nvm'[Crypto].data[k] \in Int
        /\ nvm[Crypto].data[k] <= nvm'[Crypto].data[k]
    BY <1>0, <1>2, <1>3, <1>5, Numbers
  <2> QED
    BY <2>3, <2>4
<1>10. Counted'
  <2>1. \A h \in Groups, k \in Positions : eeprom'[h].data[k] <= changes'
    BY <1>0, <1>2, <1>5, Numbers
  <2>2. \A n \in newest' : n <= changes'
    BY <1>0, <1>2, <1>6, <1>7, Numbers
  <2> QED
    BY <1>2, <1>5, <1>8, <1>9, <2>1, <2>2 DEF Counted
<1>11. \A n \in newest' : (n \in newest /\ (Kept(n) <=> Kept(n)') /\ (Oldest(n) <=> Oldest(n)'))
                         \/ Oldest(n)'
  BY <1>0, <1>2, <1>5, <1>6, Numbers DEF Kept, Oldest, Whole, Readable, ReadableCrc
<1>12. CryptoFirst'
  BY <1>2, <1>11 DEF CryptoFirst
<1> QED
  BY <1>10, <1>12

\* The bytes and the CRC of the Crypto group in RAM are never the empty ones.
LEMMA NotMissing == ASSUME TypeOK
                    PROVE  /\ \A k \in Positions : nvm[Crypto].data[k] # Missing
                           /\ nvm[Crypto].data # MissingCrc
                           /\ nvm[Crypto].data # ZeroCrc
<1>1. \A k \in Positions : nvm[Crypto].data[k] \in Nat
  BY Numbers
<1>2. \A k \in Positions : nvm[Crypto].data[k] # -1 /\ nvm[Crypto].data[k] # -2
  BY <1>1
<1>3. 1 \in Positions
  BY NvmAssumption DEF Positions
<1>4. MissingCrc[1] = -1 /\ ZeroCrc[1] = -2
  BY <1>3 DEF MissingCrc, ZeroCrc, Missing
<1> QED
  BY <1>2, <1>3, <1>4 DEF Missing

\* The Crypto group, when it changed, is the first to be written; when it did
\* not, it is in the EEPROM.
LEMMA ProcessCrypto ==
    ASSUME IndInv, Counted, CryptoFirst, Process
    PROVE  Counted' /\ CryptoFirst'
<1>0. TypeOK /\ SavedUnlessFlagged
  BY DEF IndInv
<1>1. /\ pc = "run" /\ pc' = "store" /\ flags' = Changed /\ flags = {}
      /\ group' = FirstOf(Changed) /\ Changed # {} /\ Changed \in SUBSET Groups
      /\ UNCHANGED <<eeprom, restored, changes, newest, wipes>>
  BY <1>0 DEF Process, Changed, TypeOK
<1>2. \A g \in Groups : nvm'[g].data = nvm[g].data
  BY <1>0 DEF Process, TypeOK
<1>3. Crypto \in Changed => FirstOf(Changed) = Crypto
  <2> SUFFICES ASSUME Crypto \in Changed PROVE FirstOf(Changed) = Crypto
    OBVIOUS
  <2>1. FirstOf(Changed) \in Groups /\ FirstOf(Changed) <= Crypto
    BY <1>1, FirstGroup
  <2> QED
    BY <2>1, NvmAssumption DEF Groups, Crypto
<1>4. Counted'
  BY <1>0, <1>1, <1>2, <1>3, Numbers DEF Counted
<1>5. \A n : (Kept(n) <=> Kept(n)') /\ (Oldest(n) <=> Oldest(n)')
  BY <1>1 DEF Kept, Oldest, Whole, Readable, ReadableCrc
<1>6. ASSUME wipes = 0, Crypto \notin Changed PROVE \A n \in newest : Kept(n)
  <2>1. nvm[Crypto].crc = nvm[Crypto].data
    BY <1>0, <1>6, Numbers DEF Changed, Crc
  <2>2. Crypto \in Groups \ flags /\ nvm[Crypto].crc # ZeroCrc
    BY <1>0, <1>1, <2>1, Numbers, NotMissing
  <2>3. /\ eeprom[Crypto].crc = nvm[Crypto].crc
        /\ eeprom[Crypto].data = nvm[Crypto].crc
    BY <1>0, <1>6, <2>2 DEF SavedUnlessFlagged
  <2> QED
    BY <1>0, <2>1, <2>3, SavedKeeps DEF Crc
<1>7. CryptoFirst'
  BY <1>1, <1>5, <1>6 DEF CryptoFirst
<1> QED
  BY <1>4, <1>7

\* A byte of the Crypto group is replaced by one that is not older; the other
\* groups are written only when the Crypto group keeps every change.
LEMMA ByteCrypto ==
    ASSUME IndInv, Counted, CryptoFirst, StoreByte
    PROVE  Counted' /\ CryptoFirst'
<1>0. TypeOK
  BY DEF IndInv
<1>1. /\ pc = "store" /\ position \in Positions
      /\ group \in Groups /\ group \in flags
      /\ eeprom' = [eeprom EXCEPT ![group].data[position] =
                                     nvm[group].data[position]]
      /\ UNCHANGED <<nvm, flags, pc, group, restored, changes, newest, wipes>>
  BY <1>0 DEF StoreByte, TypeOK, Positions
<1>2. /\ \A g \in Groups : g # group => eeprom'[g] = eeprom[g]
      /\ eeprom'[group].crc = eeprom[group].crc
      /\ eeprom'[group].data[position] = nvm[group].data[position]
      /\ \A k \in Positions : k # position =>
            eeprom'[group].data[k] = eeprom[group].data[k]
  BY <1>0, <1>1 DEF TypeOK
<1>3. \A g \in Groups, k \in Positions :
         \/ eeprom'[g].data[k] = eeprom[g].data[k]
         \/ g = group /\ k = position /\ eeprom'[g].data[k] = nvm[g].data[k]
  BY <1>2
<1>4. Counted'
  <2>1. \A g \in Groups, k \in Positions : eeprom'[g].data[k] <= changes'
    BY <1>1, <1>3 DEF Counted
  <2>2. \A n \in newest', k \in Positions :
           n <= eeprom'[Crypto].data[k] => n <= nvm'[Crypto].data[k]
    BY <1>0, <1>1, <1>3, Numbers DEF Counted
  <2> QED
    BY <1>1, <2>1, <2>2 DEF Counted
<1>5. CryptoFirst'
  <2>1. CASE group = Crypto
    <3>1. ASSUME NEW n \in newest, Kept(n) PROVE Kept(n)'
      <4>1. Readable(Crypto)'
        BY <1>0, <1>1, <1>3, <2>1, <3>1, NotMissing, Numbers
           DEF Kept, Whole, Readable
      <4>2. ReadableCrc(Crypto)'
        BY <1>2, <2>1, <3>1 DEF Kept, Whole, ReadableCrc
      <4>3. PICK k \in Positions : n <= eeprom[Crypto].data[k]
        BY <3>1 DEF Kept
      <4>4. n <= nvm[Crypto].data[k]
        BY <4>3 DEF Counted
      <4>5. n <= eeprom'[Crypto].data[k]
        BY <1>0, <1>3, <4>3, <4>4, Numbers
      <4> QED
        BY <4>1, <4>2, <4>5 DEF Kept, Whole
    <3>2. \A n \in newest : Oldest(n) => Oldest(n)'
      BY <1>2, <2>1 DEF Oldest
    <3> QED
      BY <1>1, <2>1, <3>1, <3>2 DEF CryptoFirst
  <2>2. CASE group # Crypto
    <3>1. wipes = 0 => \A n \in newest : Kept(n)
      BY <1>1, <2>2 DEF Counted, CryptoFirst
    <3>2. eeprom'[Crypto] = eeprom[Crypto]
      BY <1>0, <1>2, <2>2, Numbers
    <3>3. \A n : Kept(n) => Kept(n)'
      BY <3>2 DEF Kept, Whole, Readable, ReadableCrc
    <3> QED
      BY <1>1, <3>1, <3>3 DEF CryptoFirst
  <2> QED
    BY <2>1, <2>2
<1> QED
  BY <1>4, <1>5

\* With its CRC the Crypto group is in the EEPROM as it is in RAM.
LEMMA CrcCrypto ==
    ASSUME IndInv, Counted, CryptoFirst, StoreCrc
    PROVE  Counted' /\ CryptoFirst'
<1>0. TypeOK /\ Storing
  BY DEF IndInv
<1>1. /\ pc = "store" /\ position = NumBytes + 1
      /\ group \in Groups /\ group \in flags /\ flags \subseteq Groups
      /\ eeprom' = [eeprom EXCEPT ![group].crc = nvm[group].crc]
      /\ Advance(flags \ {group})
      /\ UNCHANGED <<nvm, restored, changes, newest, wipes>>
  BY <1>0 DEF StoreCrc, TypeOK
<1>2. /\ \A g \in Groups : eeprom'[g].data = eeprom[g].data
      /\ \A g \in Groups : g # group => eeprom'[g].crc = eeprom[g].crc
      /\ eeprom'[group].crc = nvm[group].crc
  BY <1>0, <1>1 DEF TypeOK
<1>3. flags' = flags \ {group} /\ pc' \in {"run", "store"}
  BY <1>1 DEF Advance
<1>4. Crypto \notin flags'
  BY <1>1, <1>3 DEF Counted
<1>5. Counted'
  BY <1>0, <1>1, <1>2, <1>3, <1>4, Numbers DEF Counted
<1>6. ASSUME wipes = 0, NEW n \in newest PROVE Kept(n)'
  <2>1. CASE group = Crypto
    <3>1. \A k \in Positions : eeprom[Crypto].data[k] = nvm[Crypto].data[k]
      BY <1>0, <1>1, <1>6, <2>1, NvmAssumption DEF Storing, Positions
    <3>2. \A k \in Positions : eeprom'[Crypto].data[k] = nvm[Crypto].data[k]
      BY <1>0, <1>2, <3>1, Numbers
    <3>3. Readable(Crypto)'
      BY <1>0, <3>2, NotMissing DEF Readable
    <3>4. ReadableCrc(Crypto)'
      BY <1>0, <1>1, <1>2, <2>1, NotMissing, Numbers DEF Storing, ReadableCrc, Crc
    <3>5. \E k \in Positions : n <= eeprom'[Crypto].data[k]
      BY <1>6, <3>2 DEF Counted
    <3> QED
      BY <3>3, <3>4, <3>5 DEF Kept, Whole
  <2>2. CASE group # Crypto
    <3>1. Kept(n)
      BY <1>1, <1>6, <2>2 DEF Counted, CryptoFirst
    <3>2. /\ eeprom'[Crypto].data = eeprom[Crypto].data
          /\ eeprom'[Crypto].crc = eeprom[Crypto].crc
      BY <1>0, <1>2, <2>2, Numbers
    <3> QED
      BY <3>1, <3>2 DEF Kept, Whole, Readable, ReadableCrc
  <2> QED
    BY <2>1, <2>2
<1>7. CryptoFirst'
  BY <1>1, <1>6 DEF CryptoFirst
<1> QED
  BY <1>5, <1>7

\* After a wipe nothing is promised but the order of the numbers.
LEMMA WipeCrypto ==
    ASSUME IndInv, Counted, FactoryReset \/ ResetGroup \/ Clear
    PROVE  Counted' /\ CryptoFirst'
<1>0. TypeOK /\ Storing
  BY DEF IndInv
<1>1. wipes' > 0 /\ wipes' # 0
  BY <1>0, NvmAssumption DEF FactoryReset, ResetGroup, Clear, TypeOK, Storing
<1>2. /\ UNCHANGED <<nvm, changes, newest>>
      /\ pc' \in {"off", "init"} => pc \in {"off", "init"}
      /\ pc' = "store" => pc = "store" /\ UNCHANGED <<flags, group>>
  BY DEF FactoryReset, ResetGroup, Clear
<1>3. \A g \in Groups, k \in Positions :
         eeprom'[g].data[k] = eeprom[g].data[k] \/ eeprom'[g].data[k] = -1
  <2>1. CASE Clear
    BY <2>1 DEF Clear, Blank, Missing
  <2>2. CASE FactoryReset
    BY <2>2 DEF FactoryReset
  <2>3. CASE ResetGroup
    <3>1. eeprom' = [eeprom EXCEPT ![group].crc = ZeroCrc]
      BY <2>3 DEF ResetGroup
    <3>2. \A g \in Groups : eeprom'[g].data = eeprom[g].data
      BY <1>0, <3>1 DEF TypeOK
    <3> QED
      BY <3>2
  <2> QED
    BY <2>1, <2>2, <2>3
<1>4. Counted'
  <2>1. \A g \in Groups, k \in Positions : eeprom'[g].data[k] <= changes
    BY <1>0, <1>3, Numbers DEF Counted
  <2>2. \A n \in newest, k \in Positions :
           n <= eeprom'[Crypto].data[k] => n <= nvm[Crypto].data[k]
    <3> SUFFICES ASSUME NEW n \in newest, NEW k \in Positions,
                        n <= eeprom'[Crypto].data[k]
                 PROVE  n <= nvm[Crypto].data[k]
      OBVIOUS
    <3>1. n \in Nat /\ n # 0
      BY <1>0, Numbers
    <3>2. eeprom'[Crypto].data[k] = eeprom[Crypto].data[k]
      BY <1>0, <1>3, <3>1, Numbers
    <3> QED
      BY <3>2 DEF Counted
  <2> QED
    BY <1>2, <2>1, <2>2 DEF Counted
<1> QED
  BY <1>1, <1>4 DEF CryptoFirst

CryptoInv == IndInv /\ Counted /\ CryptoFirst

\* Every step preserves what is known of the frame counters.
LEMMA NextCrypto == CryptoInv /\ [Next]_vars => CryptoInv'
<1> SUFFICES ASSUME CryptoInv, [Next]_vars PROVE CryptoInv'
  OBVIOUS
<1>0. IndInv /\ Counted /\ CryptoFirst
  BY DEF CryptoInv
<1>1. IndInv'
  BY <1>0, NextInv
<1>2. CASE UNCHANGED vars
  BY <1>0, <1>1, <1>2 DEF vars, CryptoInv, Counted, CryptoFirst, Kept, Oldest,
                          Whole, Readable, ReadableCrc
<1>3. CASE Next
  <2>1. Counted' /\ CryptoFirst'
    BY <1>0, <1>3, StartCrypto, ChangeCrypto, ProcessCrypto, ByteCrypto, CrcCrypto,
       WipeCrypto DEF Next
  <2> QED
    BY <1>1, <2>1 DEF CryptoInv
<1> QED
  BY <1>2, <1>3

\* The frame counters in the EEPROM are not behind the rest of the context,
\* wherever power was lost.
THEOREM CountersNotBehind == Spec => []CryptoNotBehind
<1>1. CryptoInv => CryptoNotBehind
  <2> SUFFICES ASSUME CryptoInv, wipes = 0, NEW g \in Groups \ {Crypto},
                      NEW n \in newest, n < Newest(eeprom[g].data)
               PROVE  Whole(Crypto) /\ n <= Newest(eeprom[Crypto].data)
    BY DEF CryptoNotBehind
  <2>1. TypeOK
    BY DEF CryptoInv, IndInv
  <2>2. n \in Nat
    BY <2>1, Numbers
  <2>3. ~Oldest(n)
    <3>1. eeprom[g].data \in [Positions -> Bytes \cup {Missing}]
      BY <2>1 DEF TypeOK
    <3>2. PICK k \in Positions : Newest(eeprom[g].data) = eeprom[g].data[k]
      BY <3>1, NewestIs
    <3>3. eeprom[g].data[k] \in Int
      BY <2>1, Numbers
    <3> QED
      BY <2>2, <3>2, <3>3 DEF Oldest
  <2>4. Kept(n)
    BY <2>3 DEF CryptoInv, CryptoFirst
  <2>5. PICK k \in Positions : n <= eeprom[Crypto].data[k]
    BY <2>4 DEF Kept
  <2>6. eeprom[Crypto].data \in [Positions -> Bytes \cup {Missing}]
    BY <2>1, Numbers DEF TypeOK
  <2>7. /\ eeprom[Crypto].data[k] <= Newest(eeprom[Crypto].data)
        /\ \E j \in Positions : Newest(eeprom[Crypto].data) = eeprom[Crypto].data[j]
    BY <2>6, NewestIs
  <2>8. eeprom[Crypto].data[k] \in Int /\ Newest(eeprom[Crypto].data) \in Int
    BY <2>1, <2>7, Numbers
  <2> QED
    BY <2>2, <2>4, <2>5, <2>7, <2>8 DEF Kept
<1>2. Init => CryptoInv
  BY InitInv, InitCrypto DEF CryptoInv
<1> QED
  BY <1>1, <1>2, NextCrypto, PTL DEF Spec
=============================================================================
