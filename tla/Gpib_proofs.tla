------------------------------ MODULE Gpib_proofs ------------------------------
(* Proofs about the slots of Gpib, for any number of slots and of writes.  *)
EXTENDS Gpib, TLAPS

\* The type of a slot, from and to the types of its fields.
LEMMA SlotType ==
    ASSUME NEW a \in BOOLEAN, NEW b \in BOOLEAN, NEW c \in BOOLEAN, NEW d \in BOOLEAN,
           NEW x \in Int, NEW y \in Int
    PROVE  [requestLocal |-> a, requestGlobal |-> b, knownLocal |-> c, knownGlobal |-> d,
            currentLocal |-> x, currentGlobal |-> y] \in SlotRecord
BY Zenon DEF SlotRecord

LEMMA FieldTypes ==
    ASSUME NEW r \in SlotRecord
    PROVE  /\ r.requestLocal \in BOOLEAN /\ r.requestGlobal \in BOOLEAN
           /\ r.knownLocal \in BOOLEAN /\ r.knownGlobal \in BOOLEAN
           /\ r.currentLocal \in Int /\ r.currentGlobal \in Int
BY Zenon DEF SlotRecord

\* The beginning.
LEMMA InitInv == Init => SlotInv
BY GpibAssumption DEF Init, SlotInv, SlotTypes, BufferType, Types, Places, Mistakes, LastWrite,
   InBuffer, SlotRecord, NewSlot, NoWrites, NoDevices, Empty, SlotIds, InPile, MayMistake, Idle

\* One slot changed into a record of the right type.
LEMMA SlotChange ==
    ASSUME SlotTypes, NEW i \in SlotIds, NEW q \in SlotRecord, slots' = [slots EXCEPT ![i] = q]
    PROVE  SlotTypes' /\ slots'[i] = q /\ \A s \in SlotIds : s # i => slots'[s] = slots[s]
BY DEF SlotTypes

\* gpib_slot_add puts a new slot behind those in the pile and connects its device.
LEMMA AddedFacts ==
    ASSUME SlotInv, SlotAdded
    PROVE  /\ occupied + 1 \in SlotIds /\ occupied + 1 \notin InPile
           /\ occupied' = occupied + 1 /\ InPile' = InPile \cup {occupied + 1}
           /\ slots' = slots
           /\ slots[occupied + 1] = NewSlot
<1>1. occupied + 1 \in SlotIds /\ occupied + 1 \notin InPile /\ occupied \in 0 .. NSlot
    BY GpibAssumption DEF SlotInv, Types, SlotAdded, SlotIds, InPile
<1>2. occupied' = occupied + 1 /\ InPile' = InPile \cup {occupied + 1}
    BY <1>1 DEF SlotAdded, InPile
<1>3. slots[occupied + 1] = NewSlot
    BY <1>1 DEF SlotInv, Places
<1>4. slots' = [slots EXCEPT ![occupied + 1] = slots[occupied + 1]]
    BY <1>3 DEF SlotAdded
<1>5. slots' = slots
    BY <1>1, <1>4 DEF SlotInv, SlotTypes
<1> QED
    BY <1>1, <1>2, <1>3, <1>5

-----------------------------------------------------------------------------
\* One lemma per action, with one step per conjunct of the invariant.

LEMMA GuiConnectStep ==
    ASSUME SlotInv, GuiConnect
    PROVE  SlotInv'
<1>1. SlotTypes'
    BY DEF SlotInv, SlotTypes, SlotRecord, GuiConnect, NoDevices, pileVars
<1>2. BufferType'
    BY DEF SlotInv, BufferType, GuiConnect, NoDevices
<1>3. Types'
    BY DEF SlotInv, Types, GuiConnect, NoDevices, pileVars, gpibVars, historyVars
<1>4. Places'
    BY DEF SlotInv, Places, GuiConnect, NoDevices, pileVars, gpibVars, historyVars, InPile
<1>5. Mistakes'
    BY DEF SlotInv, Places, Mistakes, GuiConnect, NoDevices, pileVars, InPile
<1>6. LastWrite'
    BY DEF SlotInv, Places, LastWrite, GuiConnect, NoDevices, pileVars, InPile
<1>7. InBuffer'
    BY DEF SlotInv, Places, InBuffer, GuiConnect, NoDevices, pileVars, gpibVars, InPile
<1> QED
    BY <1>1, <1>2, <1>3, <1>4, <1>5, <1>6, <1>7 DEF SlotInv

LEMMA GuiQueryStep ==
    ASSUME SlotInv, GuiQuery
    PROVE  SlotInv'
<1>1. SlotTypes'
    BY DEF SlotInv, SlotTypes, SlotRecord, GuiQuery, pileVars
<1>2. BufferType'
    BY GpibAssumption DEF SlotInv, BufferType, GuiQuery, Text, Empty
<1>3. Types'
    BY DEF SlotInv, Types, GuiQuery, busVars, pileVars, gpibVars, historyVars
<1>4. Places'
    BY DEF SlotInv, Places, GuiQuery, Text, Empty, pileVars, gpibVars, historyVars, SlotIds,
       InPile
<1>5. Mistakes'
    BY DEF SlotInv, Places, Mistakes, GuiQuery, pileVars, InPile
<1>6. LastWrite'
    BY DEF SlotInv, Places, LastWrite, GuiQuery, pileVars, InPile
<1>7. InBuffer'
    BY DEF SlotInv, Places, InBuffer, GuiQuery, pileVars, gpibVars, InPile
<1> QED
    BY <1>1, <1>2, <1>3, <1>4, <1>5, <1>6, <1>7 DEF SlotInv

LEMMA GuiStartStep ==
    ASSUME SlotInv, GuiStart
    PROVE  SlotInv'
<1>1. SlotTypes'
    BY DEF SlotInv, SlotTypes, SlotRecord, GuiStart, NewSlot
<1>2. BufferType'
    BY GpibAssumption DEF SlotInv, Types, BufferType, GuiStart, Text, Empty
<1>3. Types'
    BY DEF SlotInv, Types, Places, GuiStart, DeviceStates, historyVars
<1>4. Places'
    BY DEF SlotInv, Types, Places, GuiStart, Text, Empty, historyVars, SlotIds, InPile
<1>5. Mistakes'
    BY GpibAssumption DEF SlotInv, Types, Places, Mistakes, Foreign, GuiStart, NewSlot, Text,
       Empty, SlotIds, InPile
<1>6. LastWrite'
    BY GpibAssumption DEF SlotInv, Places, LastWrite, GuiStart, NewSlot, SlotIds, InPile
<1>7. InBuffer'
    BY GpibAssumption DEF SlotInv, InBuffer, GuiStart, DeviceStates, SlotIds, InPile
<1> QED
    BY <1>1, <1>2, <1>3, <1>4, <1>5, <1>6, <1>7 DEF SlotInv

LEMMA GuiPauseStep ==
    ASSUME SlotInv, GuiPause
    PROVE  SlotInv'
<1>1. SlotTypes'
    BY DEF SlotInv, SlotTypes, SlotRecord, GuiPause, pileVars
<1>2. BufferType'
    BY DEF SlotInv, BufferType, GuiPause
<1>3. Types'
    BY DEF SlotInv, Types, GuiPause, busVars, pileVars, gpibVars, historyVars
<1>4. Places'
    BY DEF SlotInv, Places, GuiPause, pileVars, gpibVars, historyVars, InPile
<1>5. Mistakes'
    BY DEF SlotInv, Mistakes, MayMistake, GuiPause, busVars, pileVars, historyVars, InPile
<1>6. LastWrite'
    BY DEF SlotInv, LastWrite, Idle, GuiPause, busVars, pileVars, gpibVars, historyVars, InPile
<1>7. InBuffer'
    BY DEF SlotInv, InBuffer, MayMistake, Idle, GuiPause, busVars, pileVars, gpibVars,
       historyVars, InPile
<1> QED
    BY <1>1, <1>2, <1>3, <1>4, <1>5, <1>6, <1>7 DEF SlotInv

\* A new slot takes the place of one that was described as empty.
LEMMA DaqAddStep ==
    ASSUME SlotInv, DaqAdd
    PROVE  SlotInv'
<1>1. SlotTypes'
    BY GpibAssumption DEF SlotInv, Types, SlotTypes, SlotRecord, DaqAdd, SlotAdded, NewSlot,
       SlotIds
<1>2. BufferType'
    BY DEF SlotInv, BufferType, DaqAdd, SlotAdded
<1>3. Types'
    BY GpibAssumption DEF SlotInv, Types, DaqAdd, SlotAdded, DeviceStates, gpibVars,
       historyVars, SlotIds
<1>4. Places'
  <2>1. \A s \in SlotIds \ InPile' : s \in SlotIds \ InPile /\ s # occupied + 1
      BY AddedFacts DEF DaqAdd
  <2>2. \A s \in SlotIds \ InPile' : s \notin raced' /\ s \notin mixed' /\ buf'.slot # s
      BY <2>1, GpibAssumption DEF SlotInv, Places, DaqAdd, historyVars, SlotIds, InPile
  <2>3. last' = last /\ sent' = sent /\ slots' = slots /\ gpibPc' = gpibPc /\ at' = at /\
   daqPc' = "loop"
      BY AddedFacts DEF DaqAdd, gpibVars
  <2>4. InPile \subseteq InPile'
      BY AddedFacts DEF DaqAdd
  <2> QED
      BY <2>1, <2>2, <2>3, <2>4 DEF SlotInv, Places
<1>5. Mistakes'
    BY GpibAssumption DEF SlotInv, Types, Places, Mistakes, Foreign, MayMistake, DaqAdd,
       SlotAdded, NewSlot, historyVars, SlotIds, InPile
<1>6. LastWrite'
    BY GpibAssumption DEF SlotInv, Types, Places, LastWrite, Idle, DaqAdd, SlotAdded, NewSlot,
       gpibVars, historyVars, SlotIds, InPile
<1>7. InBuffer'
    BY GpibAssumption DEF SlotInv, Types, Places, InBuffer, MayMistake, Idle, DaqAdd,
       SlotAdded, DeviceStates, gpibVars, historyVars, SlotIds, InPile
<1> QED
    BY <1>1, <1>2, <1>3, <1>4, <1>5, <1>6, <1>7 DEF SlotInv

\* The text of an introduction is nobody's reply.
LEMMA DaqParseStep ==
    ASSUME SlotInv, DaqParse
    PROVE  SlotInv'
<1>1. SlotTypes'
    BY GpibAssumption DEF SlotInv, Types, SlotTypes, SlotRecord, DaqParse, SlotAdded, NewSlot,
       SlotIds
<1>2. BufferType'
    BY GpibAssumption DEF SlotInv, BufferType, DaqParse, SlotAdded, Text, Empty
<1>3. Types'
  <2>1. raced' \subseteq SlotIds /\ mixed' \subseteq SlotIds
    <3>1. gpibPc \in {"send", "parse"} => at \in SlotIds
        BY GpibAssumption DEF SlotInv, Types, Places, SlotIds, InPile
    <3>2. \/ raced' = raced /\ mixed' = mixed
          \/ /\ raced' = IF gpibPc = "send" THEN raced \cup {at} ELSE raced
             /\ mixed' = IF gpibPc = "parse" THEN mixed \cup {at} ELSE mixed
        BY DEF DaqParse, historyVars
    <3> QED
        BY <3>1, <3>2 DEF SlotInv, Types
  <2>2. occupied' \in 0 .. NSlot
      BY GpibAssumption DEF SlotInv, Types, DaqParse, SlotAdded
  <2>3. dev' \in [SlotIds -> {"none", "ok", "failed"}]
      BY DEF SlotInv, Types, DaqParse, SlotAdded, DeviceStates
  <2> QED
      BY <2>1, <2>2, <2>3 DEF SlotInv, Types, DaqParse, gpibVars, flagVars
<1>4. Places'
  <2>1. \A s \in SlotIds \ InPile' : s \in SlotIds \ InPile /\ s # occupied + 1
      BY AddedFacts DEF DaqParse
  <2>2. \A s \in SlotIds \ InPile' : s \notin raced' /\ s \notin mixed' /\ buf'.slot # s
      BY <2>1, GpibAssumption DEF SlotInv, Places, DaqParse, Text, Empty, historyVars, SlotIds,
         InPile
  <2>3. last' = last /\ sent' = sent /\ slots' = slots /\ gpibPc' = gpibPc /\ at' = at /\
   daqPc' = "loop"
      BY AddedFacts DEF DaqParse, gpibVars
  <2>4. InPile \subseteq InPile'
      BY AddedFacts DEF DaqParse
  <2> QED
      BY <2>1, <2>2, <2>3, <2>4 DEF SlotInv, Places
<1>5. Mistakes'
    BY SMTT(60), GpibAssumption DEF SlotInv, Types, Places, Mistakes, Foreign, MayMistake,
       DaqParse, SlotAdded, NewSlot, Text, Empty, historyVars, SlotIds, InPile
<1>6. LastWrite'
    BY GpibAssumption DEF SlotInv, Types, Places, LastWrite, Idle, DaqParse, SlotAdded,
       NewSlot, gpibVars, historyVars, SlotIds, InPile
<1>7. InBuffer'
    BY GpibAssumption DEF SlotInv, Types, InBuffer, MayMistake, Idle, DaqParse, SlotAdded,
       DeviceStates, Text, Empty, gpibVars, historyVars, SlotIds, InPile
<1> QED
    BY <1>1, <1>2, <1>3, <1>4, <1>5, <1>6, <1>7 DEF SlotInv

\* Under the mutex no transfer of a reading is under way.
LEMMA DaqSweepStep ==
    ASSUME SlotInv, NEW s \in SlotIds, DaqSweep(s)
    PROVE  SlotInv'
<1>1. SlotTypes'
  <2>1. slots \in [SlotIds -> SlotRecord] /\ last[s] + 1 \in Int
      BY DEF SlotInv, SlotTypes, Types
  <2>2. PICK q : q = [slots[s] EXCEPT !.currentGlobal = last[s] + 1, !.knownGlobal = TRUE,
                                     !.requestGlobal = TRUE]
      OBVIOUS
  <2>3. q = [requestLocal |-> slots[s].requestLocal, requestGlobal |-> TRUE,
             knownLocal |-> slots[s].knownLocal, knownGlobal |-> TRUE,
             currentLocal |-> slots[s].currentLocal, currentGlobal |-> last[s] + 1]
      BY <2>1, <2>2 DEF SlotRecord
  <2>4. q \in SlotRecord
      BY <2>1, <2>3, SlotType, FieldTypes, Zenon
  <2>5. slots' = [slots EXCEPT ![s] = q]
      BY <2>1, <2>2 DEF DaqSweep, Written
  <2> QED
      BY <2>1, <2>4, <2>5 DEF SlotTypes
<1>2. BufferType'
    BY DEF SlotInv, BufferType, DaqSweep, Written
<1>3. Types'
    BY DEF SlotInv, Types, DaqSweep, Written, busVars, gpibVars
<1>4. Places'
    BY DEF SlotInv, Places, SlotTypes, SlotRecord, DaqSweep, Written, gpibVars, InPile
<1>5. Mistakes'
    BY SMTT(60), GpibAssumption DEF SlotInv, Types, SlotTypes, SlotRecord, Mistakes, Foreign,
       MayMistake, DaqSweep, Written, busVars, SlotIds, InPile
<1>6. LastWrite'
    BY GpibAssumption DEF SlotInv, Types, SlotTypes, SlotRecord, LastWrite, Idle, DaqSweep,
       Written, busVars, gpibVars, SlotIds, InPile
<1>7. InBuffer'
    BY SMTT(30), GpibAssumption DEF SlotInv, Types, Places, SlotTypes, SlotRecord, InBuffer, MayMistake,
       Idle, DaqSweep, Written, busVars, gpibVars, SlotIds, InPile
<1> QED
    BY <1>1, <1>2, <1>3, <1>4, <1>5, <1>6, <1>7 DEF SlotInv

\* Without the mutex one may be, and then the slot is in raced.
LEMMA DaqWriteStep ==
    ASSUME SlotInv, NEW s \in SlotIds, DaqWrite(s)
    PROVE  SlotInv'
<1>1. SlotTypes'
  <2>1. slots \in [SlotIds -> SlotRecord] /\ last[s] + 1 \in Int
      BY DEF SlotInv, SlotTypes, Types
  <2>2. PICK q : q = [slots[s] EXCEPT !.currentGlobal = last[s] + 1, !.knownGlobal = TRUE,
                                     !.requestGlobal = TRUE]
      OBVIOUS
  <2>3. q = [requestLocal |-> slots[s].requestLocal, requestGlobal |-> TRUE,
             knownLocal |-> slots[s].knownLocal, knownGlobal |-> TRUE,
             currentLocal |-> slots[s].currentLocal, currentGlobal |-> last[s] + 1]
      BY <2>1, <2>2 DEF SlotRecord
  <2>4. q \in SlotRecord
      BY <2>1, <2>3, SlotType, FieldTypes, Zenon
  <2>5. slots' = [slots EXCEPT ![s] = q]
      BY <2>1, <2>2 DEF DaqWrite, Written
  <2> QED
      BY <2>1, <2>4, <2>5 DEF SlotTypes
<1>2. BufferType'
    BY DEF SlotInv, BufferType, DaqWrite, Written
<1>3. Types'
    BY DEF SlotInv, Types, DaqWrite, Written, busVars, gpibVars
<1>4. Places'
    BY DEF SlotInv, Places, SlotTypes, SlotRecord, DaqWrite, Written, gpibVars, InPile
<1>5. Mistakes'
    BY SMTT(60), GpibAssumption DEF SlotInv, Types, SlotTypes, SlotRecord, Mistakes, Foreign,
       MayMistake, DaqWrite, Written, busVars, SlotIds, InPile
<1>6. LastWrite'
    BY SMTT(30), GpibAssumption DEF SlotInv, Types, SlotTypes, SlotRecord, LastWrite, Idle, DaqWrite,
       Written, busVars, gpibVars, SlotIds, InPile
<1>7. InBuffer'
    BY SMTT(30), GpibAssumption DEF SlotInv, Types, Places, SlotTypes, SlotRecord, LastWrite, InBuffer,
       Mistakes, MayMistake, Idle, Foreign, DaqWrite, Written, busVars, gpibVars, SlotIds,
       InPile
<1> QED
    BY <1>1, <1>2, <1>3, <1>4, <1>5, <1>6, <1>7 DEF SlotInv

LEMMA DaqStopStep ==
    ASSUME SlotInv, DaqStop
    PROVE  SlotInv'
<1>1. SlotTypes'
    BY DEF SlotInv, SlotTypes, SlotRecord, DaqStop, pileVars
<1>2. BufferType'
    BY DEF SlotInv, BufferType, DaqStop
<1>3. Types'
    BY DEF SlotInv, Types, DaqStop, busVars, pileVars, gpibVars, historyVars
<1>4. Places'
    BY DEF SlotInv, Places, DaqStop, pileVars, gpibVars, historyVars, InPile
<1>5. Mistakes'
    BY DEF SlotInv, Mistakes, MayMistake, DaqStop, busVars, pileVars, historyVars, InPile
<1>6. LastWrite'
    BY DEF SlotInv, LastWrite, Idle, DaqStop, busVars, pileVars, gpibVars, historyVars, InPile
<1>7. InBuffer'
    BY DEF SlotInv, InBuffer, MayMistake, Idle, DaqStop, busVars, pileVars, gpibVars,
       historyVars, InPile
<1> QED
    BY <1>1, <1>2, <1>3, <1>4, <1>5, <1>6, <1>7 DEF SlotInv

LEMMA DaqJoinStep ==
    ASSUME SlotInv, DaqJoin
    PROVE  SlotInv'
<1>1. SlotTypes'
    BY DEF SlotInv, SlotTypes, SlotRecord, DaqJoin, NoDevices, NewSlot, NoWrites
<1>2. BufferType'
    BY GpibAssumption DEF SlotInv, BufferType, DaqJoin, NoDevices, NoWrites, Text, Empty
<1>3. Types'
    BY GpibAssumption DEF SlotInv, Types, DaqJoin, NoDevices, NoWrites, gpibVars
<1>4. Places'
    BY DEF SlotInv, Places, DaqJoin, NoDevices, NoWrites, Text, Empty, gpibVars, SlotIds
<1>5. Mistakes'
    BY DEF SlotInv, Mistakes, DaqJoin, NoDevices, NoWrites, InPile
<1>6. LastWrite'
    BY DEF SlotInv, LastWrite, DaqJoin, NoDevices, NoWrites, InPile
<1>7. InBuffer'
    BY DEF SlotInv, InBuffer, DaqJoin, NoDevices, NoWrites, gpibVars, InPile
<1> QED
    BY <1>1, <1>2, <1>3, <1>4, <1>5, <1>6, <1>7 DEF SlotInv

LEMMA GpibTakeStep ==
    ASSUME SlotInv, GpibTake
    PROVE  SlotInv'
<1>1. SlotTypes'
    BY DEF SlotInv, SlotTypes, SlotRecord, GpibTake, pileVars
<1>2. BufferType'
    BY DEF SlotInv, BufferType, GpibTake
<1>3. Types'
    BY DEF SlotInv, Types, GpibTake, busVars, pileVars, historyVars
<1>4. Places'
    BY DEF SlotInv, Places, GpibTake, pileVars, historyVars, InPile
<1>5. Mistakes'
    BY DEF SlotInv, Mistakes, MayMistake, GpibTake, busVars, pileVars, historyVars, InPile
<1>6. LastWrite'
    BY DEF SlotInv, LastWrite, Idle, GpibTake, busVars, pileVars, historyVars, InPile
<1>7. InBuffer'
    BY DEF SlotInv, InBuffer, GpibTake, busVars, pileVars, InPile
<1> QED
    BY <1>1, <1>2, <1>3, <1>4, <1>5, <1>6, <1>7 DEF SlotInv

LEMMA GpibEndStep ==
    ASSUME SlotInv, GpibEnd
    PROVE  SlotInv'
<1>1. SlotTypes'
    BY DEF SlotInv, SlotTypes, SlotRecord, GpibEnd, pileVars
<1>2. BufferType'
    BY DEF SlotInv, BufferType, GpibEnd
<1>3. Types'
    BY DEF SlotInv, Types, GpibEnd, busVars, pileVars, historyVars
<1>4. Places'
    BY DEF SlotInv, Places, GpibEnd, pileVars, historyVars, InPile
<1>5. Mistakes'
    BY DEF SlotInv, Mistakes, MayMistake, GpibEnd, busVars, pileVars, historyVars, InPile
<1>6. LastWrite'
    BY DEF SlotInv, LastWrite, Idle, GpibEnd, busVars, pileVars, historyVars, InPile
<1>7. InBuffer'
    BY DEF SlotInv, InBuffer, GpibEnd, busVars, pileVars, InPile
<1> QED
    BY <1>1, <1>2, <1>3, <1>4, <1>5, <1>6, <1>7 DEF SlotInv

\* Either the request moves from global to local with its value, or nothing does.
LEMMA GpibTransferStep ==
    ASSUME SlotInv, GpibTransfer
    PROVE  SlotInv'
<1>a. at \in SlotIds /\ at \in InPile /\ slots[at] \in SlotRecord
    BY GpibAssumption DEF SlotInv, SlotTypes, Types, GpibTransfer, SlotIds, InPile
<1>p. PICK q : q = [slots[at] EXCEPT !.requestGlobal = FALSE, !.requestLocal = TRUE,
                                     !.currentLocal = slots[at].currentGlobal]
    OBVIOUS
<1>b. \/ slots' = slots
      \/ slots[at].requestGlobal /\ slots' = [slots EXCEPT ![at] = q]
    BY <1>a, <1>p DEF GpibTransfer, SlotInv, SlotTypes
<1>c. q = [requestLocal |-> TRUE, requestGlobal |-> FALSE, knownLocal |-> slots[at].knownLocal,
           knownGlobal |-> slots[at].knownGlobal, currentLocal |-> slots[at].currentGlobal,
           currentGlobal |-> slots[at].currentGlobal]
    BY <1>a, <1>p DEF SlotRecord
<1>d. q \in SlotRecord
    BY <1>a, <1>c, SlotType, FieldTypes, Zenon
<1>e. /\ q.currentLocal = slots[at].currentGlobal
      /\ q.currentGlobal = slots[at].currentGlobal
    BY <1>c
<1>1. SlotTypes'
    BY <1>a, <1>b, <1>d, SlotChange DEF SlotInv, SlotTypes
<1>2. BufferType'
    BY DEF SlotInv, BufferType, GpibTransfer
<1>3. Types'
    BY DEF SlotInv, Types, GpibTransfer, busVars, historyVars
<1>4. Places'
    BY DEF SlotInv, Places, SlotTypes, SlotRecord, GpibTransfer, historyVars, InPile
<1>5. Mistakes'
  <2>1. \A s \in SlotIds : slots'[s] = slots[s] \/ (s = at /\ slots'[s] = q)
      BY <1>a, <1>b, <1>d, SlotChange DEF SlotInv
  <2>2. dev' = dev /\ mixed' = mixed /\ occupied' = occupied /\ sent' = sent /\ buf' = buf
      BY DEF GpibTransfer, busVars, historyVars
  <2>3. InPile \subseteq SlotIds
      BY GpibAssumption DEF SlotInv, Types, SlotIds, InPile
  <2> QED
      BY <1>a, <1>e, <2>1, <2>2, <2>3 DEF SlotInv, Mistakes, MayMistake, InPile
<1>6. LastWrite'
    BY SMTT(60), GpibAssumption DEF SlotInv, Types, SlotTypes, SlotRecord, LastWrite, InBuffer,
       Mistakes, MayMistake, Idle, Foreign, GpibTransfer, busVars, flagVars, historyVars,
       SlotIds, InPile
<1>7. InBuffer'
    BY DEF SlotInv, InBuffer, GpibTransfer, busVars, InPile
<1> QED
    BY <1>1, <1>2, <1>3, <1>4, <1>5, <1>6, <1>7 DEF SlotInv

LEMMA GpibCopyKnownStep ==
    ASSUME SlotInv, GpibCopyKnown
    PROVE  SlotInv'
<1>1. SlotTypes'
  <2>1. at \in SlotIds /\ slots[at] \in SlotRecord
      BY GpibAssumption DEF SlotInv, SlotTypes, Types, Places, GpibCopyKnown, SlotIds, InPile
  <2>2. PICK q : q = [slots[at] EXCEPT !.knownGlobal = slots[at].knownLocal]
      OBVIOUS
  <2>3. q = [requestLocal |-> slots[at].requestLocal, requestGlobal |-> slots[at].requestGlobal,
             knownLocal |-> slots[at].knownLocal, knownGlobal |-> slots[at].knownLocal,
             currentLocal |-> slots[at].currentLocal, currentGlobal |-> slots[at].currentGlobal]
      BY <2>1, <2>2 DEF SlotRecord
  <2>4. q \in SlotRecord
      BY <2>1, <2>3, SlotType, FieldTypes, Zenon
  <2>5. slots' = [slots EXCEPT ![at] = q]
      BY <2>1, <2>2 DEF GpibCopyKnown, SlotInv, SlotTypes
  <2> QED
      BY <2>1, <2>4, <2>5, SlotChange DEF SlotInv
<1>2. BufferType'
    BY DEF SlotInv, BufferType, GpibCopyKnown
<1>3. Types'
    BY DEF SlotInv, Types, GpibCopyKnown, busVars, historyVars
<1>4. Places'
    BY DEF SlotInv, Places, GpibCopyKnown, historyVars, InPile
<1>5. Mistakes'
    BY DEF SlotInv, Mistakes, MayMistake, GpibCopyKnown, busVars, historyVars, InPile
<1>6. LastWrite'
    BY DEF SlotInv, LastWrite, Idle, GpibCopyKnown, busVars, historyVars, InPile
<1>7. InBuffer'
    BY DEF SlotInv, InBuffer, GpibCopyKnown, busVars, InPile
<1> QED
    BY <1>1, <1>2, <1>3, <1>4, <1>5, <1>6, <1>7 DEF SlotInv

\* The slot is idle, so its local copy is the last write, or it is in raced.
LEMMA GpibCopyCurrentStep ==
    ASSUME SlotInv, GpibCopyCurrent
    PROVE  SlotInv'
<1>1. SlotTypes'
  <2>1. at \in SlotIds /\ slots[at] \in SlotRecord
      BY GpibAssumption DEF SlotInv, SlotTypes, Types, Places, GpibCopyCurrent, SlotIds, InPile
  <2>2. PICK q : q = [slots[at] EXCEPT !.currentGlobal = slots[at].currentLocal]
      OBVIOUS
  <2>3. q = [requestLocal |-> slots[at].requestLocal, requestGlobal |-> slots[at].requestGlobal,
             knownLocal |-> slots[at].knownLocal, knownGlobal |-> slots[at].knownGlobal,
             currentLocal |-> slots[at].currentLocal, currentGlobal |-> slots[at].currentLocal]
      BY <2>1, <2>2 DEF SlotRecord
  <2>4. q \in SlotRecord
      BY <2>1, <2>3, SlotType, FieldTypes, Zenon
  <2>5. slots' = [slots EXCEPT ![at] = q]
      BY <2>1, <2>2 DEF GpibCopyCurrent, SlotInv, SlotTypes
  <2> QED
      BY <2>1, <2>4, <2>5, SlotChange DEF SlotInv
<1>2. BufferType'
    BY DEF SlotInv, BufferType, GpibCopyCurrent
<1>3. Types'
    BY DEF SlotInv, Types, GpibCopyCurrent, busVars, historyVars
<1>4. Places'
    BY DEF SlotInv, Places, GpibCopyCurrent, historyVars, InPile
<1>5. Mistakes'
    BY DEF SlotInv, Mistakes, MayMistake, GpibCopyCurrent, busVars, historyVars, InPile
<1>6. LastWrite'
    BY DEF SlotInv, LastWrite, Idle, GpibCopyCurrent, busVars, historyVars, InPile
<1>7. InBuffer'
    BY DEF SlotInv, InBuffer, GpibCopyCurrent, busVars, InPile
<1> QED
    BY <1>1, <1>2, <1>3, <1>4, <1>5, <1>6, <1>7 DEF SlotInv

LEMMA GpibUnlockStep ==
    ASSUME SlotInv, GpibUnlock
    PROVE  SlotInv'
<1>1. SlotTypes'
    BY DEF SlotInv, SlotTypes, SlotRecord, GpibUnlock, pileVars
<1>2. BufferType'
    BY DEF SlotInv, BufferType, GpibUnlock
<1>3. Types'
    BY DEF SlotInv, Types, GpibUnlock, busVars, pileVars, historyVars
<1>4. Places'
    BY DEF SlotInv, Places, GpibUnlock, pileVars, historyVars, InPile
<1>5. Mistakes'
    BY DEF SlotInv, Mistakes, MayMistake, GpibUnlock, busVars, pileVars, historyVars, InPile
<1>6. LastWrite'
    BY DEF SlotInv, LastWrite, Idle, GpibUnlock, busVars, pileVars, historyVars, InPile
<1>7. InBuffer'
    BY DEF SlotInv, InBuffer, GpibUnlock, busVars, pileVars, InPile
<1> QED
    BY <1>1, <1>2, <1>3, <1>4, <1>5, <1>6, <1>7 DEF SlotInv

\* The request leaves the slot for the buffer.
LEMMA GpibFormatStep ==
    ASSUME SlotInv, GpibFormat
    PROVE  SlotInv'
<1>1. SlotTypes'
  <2>1. at \in SlotIds /\ slots[at] \in SlotRecord
      BY GpibAssumption DEF SlotInv, SlotTypes, Types, GpibFormat, SlotIds, InPile
  <2>2. PICK q : q = [slots[at] EXCEPT !.requestLocal = FALSE]
      OBVIOUS
  <2>3. q = [requestLocal |-> FALSE, requestGlobal |-> slots[at].requestGlobal,
             knownLocal |-> slots[at].knownLocal, knownGlobal |-> slots[at].knownGlobal,
             currentLocal |-> slots[at].currentLocal, currentGlobal |-> slots[at].currentGlobal]
      BY <2>1, <2>2 DEF SlotRecord
  <2>4. q \in SlotRecord
      BY <2>1, <2>3, SlotType, FieldTypes, Zenon
  <2>5. slots' = [slots EXCEPT ![at] = q]
      BY <2>1, <2>2 DEF GpibFormat, SlotInv, SlotTypes
  <2> QED
      BY <2>1, <2>4, <2>5, SlotChange DEF SlotInv
<1>2. BufferType'
    BY GpibAssumption DEF SlotInv, Types, BufferType, SlotTypes, SlotRecord, GpibFormat,
       SlotIds, InPile
<1>3. Types'
    BY DEF SlotInv, Types, SlotTypes, SlotRecord, GpibFormat, busVars, historyVars
<1>4. Places'
    BY DEF SlotInv, Places, GpibFormat, historyVars, InPile
<1>5. Mistakes'
    BY DEF SlotInv, Mistakes, MayMistake, GpibFormat, busVars, historyVars, InPile
<1>6. LastWrite'
    BY DEF SlotInv, LastWrite, Idle, GpibFormat, busVars, historyVars, InPile
<1>7. InBuffer'
    BY GpibAssumption DEF SlotInv, Types, LastWrite, InBuffer, Idle, GpibFormat, busVars,
       historyVars, SlotIds, InPile
<1> QED
    BY <1>1, <1>2, <1>3, <1>4, <1>5, <1>6, <1>7 DEF SlotInv

\* What is sent is the command of this slot.
LEMMA GpibSendStep ==
    ASSUME SlotInv, GpibSend
    PROVE  SlotInv'
<1>1. SlotTypes'
    BY DEF SlotInv, SlotTypes, SlotRecord, GpibSend, pileVars
<1>2. BufferType'
    BY GpibAssumption DEF SlotInv, BufferType, GpibSend, Empty
<1>3. Types'
  <2>1. sent' \in [SlotIds -> Int]
      BY DEF SlotInv, Types, BufferType, GpibSend
  <2>2. at' \in Nat
      BY DEF SlotInv, Types, GpibSend
  <2> QED
      BY <2>1, <2>2 DEF SlotInv, Types, GpibSend, busVars, pileVars, historyVars
<1>4. Places'
    BY SMTT(60), GpibAssumption DEF SlotInv, Types, Places, GpibSend, Empty, pileVars,
       historyVars, SlotIds, InPile
<1>5. Mistakes'
  <2> SUFFICES ASSUME NEW s \in InPile', ~MayMistake(s)'
               PROVE  /\ slots'[s].currentLocal # Foreign /\ slots'[s].currentGlobal # Foreign
                      /\ sent'[s] # Foreign /\ (buf'.slot = s => buf'.n # Foreign)
      BY DEF Mistakes
  <2>1. s \in InPile /\ s \in SlotIds /\ ~MayMistake(s) /\ slots' = slots
      BY GpibAssumption DEF SlotInv, Types, GpibSend, busVars, pileVars, historyVars,
         MayMistake,
                            InPile, SlotIds
  <2>2. /\ slots[s].currentLocal # Foreign /\ slots[s].currentGlobal # Foreign
        /\ sent[s] # Foreign /\ (buf.slot = s => buf.n # Foreign)
      BY <2>1 DEF SlotInv, Mistakes
  <2>3. buf' = buf \/ buf' = Empty
      BY DEF GpibSend
  <2>4. sent'[s] # Foreign
    <3>1. sent' = sent \/ (sent' = [sent EXCEPT ![at] = buf.n] /\ dev[at] = "ok" /\ board =
   "real" /\ buf.kind = "command")
        BY DEF SlotInv, Types, Places, InBuffer, GpibSend
    <3>2. sent' = sent \/ sent'[s] = sent[s] \/ (s = at /\ sent'[s] = buf.n)
        BY <2>1, <3>1 DEF SlotInv, Types
    <3>3. buf.kind = "command" => buf.slot = at
        BY DEF SlotInv, InBuffer, GpibSend
    <3> QED
        BY <2>2, <3>1, <3>2, <3>3
  <2> QED
      BY <2>1, <2>2, <2>3, <2>4 DEF Empty, Foreign
<1>6. LastWrite'
    BY SMTT(60), GpibAssumption DEF SlotInv, Types, LastWrite, InBuffer, Idle, GpibSend,
       busVars, pileVars, historyVars, SlotIds, InPile
<1>7. InBuffer'
    BY DEF SlotInv, InBuffer, GpibSend, busVars, pileVars, InPile
<1> QED
    BY <1>1, <1>2, <1>3, <1>4, <1>5, <1>6, <1>7 DEF SlotInv

LEMMA GpibSkipStep ==
    ASSUME SlotInv, GpibSkip
    PROVE  SlotInv'
<1>1. SlotTypes'
    BY DEF SlotInv, SlotTypes, SlotRecord, GpibSkip, pileVars
<1>2. BufferType'
    BY DEF SlotInv, BufferType, GpibSkip
<1>3. Types'
    BY DEF SlotInv, Types, GpibSkip, busVars, pileVars, historyVars
<1>4. Places'
    BY DEF SlotInv, Places, GpibSkip, pileVars, historyVars, InPile
<1>5. Mistakes'
    BY DEF SlotInv, Mistakes, MayMistake, GpibSkip, busVars, pileVars, historyVars, InPile
<1>6. LastWrite'
    BY DEF SlotInv, LastWrite, Idle, GpibSkip, busVars, pileVars, historyVars, InPile
<1>7. InBuffer'
    BY DEF SlotInv, InBuffer, GpibSkip, busVars, pileVars, InPile
<1> QED
    BY <1>1, <1>2, <1>3, <1>4, <1>5, <1>6, <1>7 DEF SlotInv

\* The reply is the instrument's own, or the buffer stays as it was.
LEMMA GpibQueryStep ==
    ASSUME SlotInv, GpibQuery
    PROVE  SlotInv'
<1>1. SlotTypes'
    BY DEF SlotInv, SlotTypes, SlotRecord, GpibQuery, Replied, pileVars
<1>2. BufferType'
    BY GpibAssumption DEF SlotInv, Types, BufferType, GpibQuery, Replied, Empty, SlotIds,
       InPile
<1>3. Types'
    BY DEF SlotInv, Types, GpibQuery, Replied, busVars, pileVars, historyVars
<1>4. Places'
    BY DEF SlotInv, Places, GpibQuery, Replied, Empty, pileVars, historyVars, SlotIds, InPile
<1>5. Mistakes'
    BY SMTT(60) DEF SlotInv, Mistakes, MayMistake, GpibQuery, Replied, Empty, busVars,
       pileVars, historyVars, InPile
<1>6. LastWrite'
    BY DEF SlotInv, LastWrite, Idle, GpibQuery, Replied, busVars, pileVars, historyVars, InPile
<1>7. InBuffer'
    BY DEF SlotInv, InBuffer, MayMistake, GpibQuery, Replied, Empty, busVars, pileVars, InPile
<1> QED
    BY <1>1, <1>2, <1>3, <1>4, <1>5, <1>6, <1>7 DEF SlotInv

\* A reading is the last write once no request is pending.
LEMMA GpibParseStep ==
    ASSUME SlotInv, GpibParse
    PROVE  SlotInv'
<1>1. SlotTypes'
  <2>1. at \in SlotIds /\ slots[at] \in SlotRecord
      BY GpibAssumption DEF SlotInv, SlotTypes, Types, Places, GpibParse, SlotIds, InPile
  <2>2. PICK p \in Parsed : slots' = [slots EXCEPT ![at].knownLocal = p.known,
                                                   ![at].currentLocal = p.value]
      BY DEF GpibParse
  <2>3. p.known \in BOOLEAN /\ p.value \in Int
    <3>1. sent[at] \in Int /\ buf.n \in Int /\ slots[at].currentLocal \in Int /\ Foreign \in Int
        BY <2>1, FieldTypes DEF SlotInv, Types, BufferType, Foreign
    <3>2. p = NoReading \/ \E n \in Int : p = Reading(n)
        BY <3>1 DEF Parsed
    <3>3. CASE p = NoReading
        BY <3>1, <3>3 DEF NoReading
    <3>4. CASE \E n \in Int : p = Reading(n)
        BY <3>4 DEF Reading
    <3> QED
        BY <3>2, <3>3, <3>4
  <2>4. PICK q : q = [slots[at] EXCEPT !.knownLocal = p.known, !.currentLocal = p.value]
      OBVIOUS
  <2>5. q = [requestLocal |-> slots[at].requestLocal, requestGlobal |-> slots[at].requestGlobal,
             knownLocal |-> p.known, knownGlobal |-> slots[at].knownGlobal,
             currentLocal |-> p.value, currentGlobal |-> slots[at].currentGlobal]
      BY <2>1, <2>4 DEF SlotRecord
  <2>6. q \in SlotRecord
      BY <2>1, <2>3, <2>5, SlotType, FieldTypes, Zenon
  <2>7. slots' = [slots EXCEPT ![at] = q]
      BY <2>1, <2>2, <2>4 DEF SlotInv, SlotTypes
  <2> QED
      BY <2>1, <2>6, <2>7, SlotChange DEF SlotInv
<1>2. BufferType'
    BY DEF SlotInv, BufferType, GpibParse, Parsed, Reading, NoReading
<1>3. Types'
    BY DEF SlotInv, Types, GpibParse, Parsed, Reading, NoReading, busVars, historyVars
<1>4. Places'
    BY DEF SlotInv, Places, SlotTypes, SlotRecord, GpibParse, Parsed, Reading, NoReading,
       historyVars, InPile
<1>5. Mistakes'
    BY SMTT(60), GpibAssumption DEF SlotInv, Types, SlotTypes, SlotRecord, Mistakes, Foreign,
       MayMistake, GpibParse, Parsed, Reading, NoReading, busVars, historyVars, SlotIds, InPile
<1>6. LastWrite'
    BY SMTT(60), GpibAssumption DEF SlotInv, Types, SlotTypes, SlotRecord, LastWrite, Idle,
       GpibParse, Parsed, Reading, NoReading, busVars, historyVars, SlotIds, InPile
<1>7. InBuffer'
    BY DEF SlotInv, InBuffer, GpibParse, Parsed, Reading, NoReading, busVars, InPile
<1> QED
    BY <1>1, <1>2, <1>3, <1>4, <1>5, <1>6, <1>7 DEF SlotInv

LEMMA GpibMessageStep ==
    ASSUME SlotInv, GpibMessage
    PROVE  SlotInv'
<1>1. SlotTypes'
    BY DEF SlotInv, SlotTypes, SlotRecord, GpibMessage, pileVars
<1>2. BufferType'
    BY GpibAssumption DEF SlotInv, BufferType, GpibMessage, Text, Empty
<1>3. Types'
    BY DEF SlotInv, Types, GpibMessage, busVars, pileVars, historyVars
<1>4. Places'
    BY DEF SlotInv, Places, GpibMessage, Text, Empty, pileVars, historyVars, SlotIds, InPile
<1>5. Mistakes'
    BY DEF SlotInv, Mistakes, MayMistake, GpibMessage, Text, Empty, busVars, pileVars,
       historyVars, InPile
<1>6. LastWrite'
    BY DEF SlotInv, LastWrite, Idle, GpibMessage, busVars, pileVars, historyVars, InPile
<1>7. InBuffer'
    BY DEF SlotInv, InBuffer, GpibMessage, busVars, pileVars, InPile
<1> QED
    BY <1>1, <1>2, <1>3, <1>4, <1>5, <1>6, <1>7 DEF SlotInv

-----------------------------------------------------------------------------
\* Every step keeps the invariant.
LEMMA StepInv == SlotInv /\ [Next]_vars => SlotInv'
<1> SUFFICES ASSUME SlotInv, [Next]_vars PROVE SlotInv'
    OBVIOUS
<1>1. CASE GuiNext
    BY <1>1, GuiConnectStep, GuiQueryStep, GuiStartStep, GuiPauseStep DEF GuiNext
<1>2. CASE DaqNext
    BY <1>2, DaqAddStep, DaqParseStep, DaqSweepStep, DaqWriteStep, DaqStopStep, DaqJoinStep
       DEF DaqNext
<1>3. CASE GpibNext
    BY <1>3, GpibTakeStep, GpibEndStep, GpibTransferStep, GpibCopyKnownStep,
       GpibCopyCurrentStep, GpibUnlockStep, GpibFormatStep, GpibSendStep, GpibSkipStep,
       GpibQueryStep, GpibParseStep, GpibMessageStep
       DEF GpibNext
<1>4. CASE UNCHANGED vars
  <2>1. /\ board' = board /\ dev' = dev /\ slots' = slots /\ occupied' = occupied /\ buf' = buf
        /\ gpibPc' = gpibPc /\ at' = at /\ mutex' = mutex /\ daqPc' = daqPc
        /\ last' = last /\ sent' = sent /\ raced' = raced /\ mixed' = mixed
      BY <1>4 DEF vars, busVars, gpibVars, pileVars, historyVars
  <2> QED
      BY <2>1 DEF SlotInv, SlotTypes, BufferType, Types, Places, Mistakes, LastWrite, InBuffer,
                  MayMistake, Idle, InPile
<1> QED
    BY <1>1, <1>2, <1>3, <1>4 DEF Next

\* The slots, the buffer and the GPIB thread are always in one of the states which
\* the invariant describes.
THEOREM SlotsInOrder == Spec => []SlotInv
<1> QED
    BY InitInv, StepInv, PTL DEF Spec

\* gpib_slot_read never answers with a value older than the last gpib_slot_write which
\* no race met, for any number of slots and writes.
THEOREM ReadingsFollowWrites == Spec => []NoOldReading
<1>1. SlotInv => NoOldReading
  <2> SUFFICES ASSUME SlotInv, NEW s \in InPile \ raced, slots[s].knownGlobal
               PROVE  slots[s].currentGlobal
                          \in {last[s]} \cup (IF MayMistake(s) THEN {Foreign} ELSE {})
      BY DEF NoOldReading
  <2>1. slots[s].currentGlobal = last[s] \/ slots[s].currentGlobal = Foreign
      BY DEF SlotInv, LastWrite
  <2>2. ~MayMistake(s) => slots[s].currentGlobal # Foreign
      BY DEF SlotInv, Mistakes
  <2> QED
      BY <2>1, <2>2
<1> QED
    BY <1>1, SlotsInOrder, PTL

\* gpib_multi_tick takes a value out of a text which is not its instrument's reply only
\* for a failed device, or beside an introduction.
THEOREM ReadingsAreOwn == Spec => []OwnReading
<1>1. SlotInv => OwnReading
    BY DEF SlotInv, Mistakes, OwnReading
<1> QED
    BY <1>1, SlotsInOrder, PTL
-----------------------------------------------------------------------------
\* The place of the GPIB thread stays within the slots and one behind them.
LEMMA AtRangeStep ==
    ASSUME SlotInv, AtRange, [Next]_vars
    PROVE  AtRange'
<1>1. \A s \in InPile : s + 1 \in 1 .. NSlot + 1
    BY GpibAssumption DEF SlotInv, Types, InPile
<1>2. 1 \in 1 .. NSlot + 1
    BY GpibAssumption
<1>3. gpibPc \in {"current", "send", "parse"} => at \in InPile
    BY DEF SlotInv, Places
<1>4. at' \in {at, 1} \/ (at \in InPile /\ at' = at + 1)
  <2>1. CASE UNCHANGED at
      BY <2>1
  <2>2. CASE at' # at /\ [Next]_vars
    <3>1. ~GuiNext /\ ~DaqNext
        BY <2>2 DEF GuiNext, GuiConnect, GuiQuery, GuiStart, GuiPause, DaqNext, DaqAdd, DaqParse,
               DaqSweep, DaqWrite, DaqStop, DaqJoin, gpibVars
    <3>2. ~UNCHANGED vars
        BY <2>2 DEF vars, gpibVars
    <3>3. GpibNext
        BY <2>2, <3>1, <3>2 DEF Next
    <3> QED
        BY <2>2, <3>3, <1>3
           DEF GpibNext, GpibTake, GpibEnd, GpibTransfer, GpibCopyKnown, GpibCopyCurrent,
               GpibUnlock, GpibFormat, GpibSend, GpibSkip, GpibQuery, GpibParse, GpibMessage
  <2> QED
      BY <2>1, <2>2
<1> QED
    BY <1>1, <1>2, <1>4 DEF AtRange

\* What is left of a round is a natural number.
RoundLeftNatural == RoundLeft \in Nat

LEMMA RoundIsNatural ==
    ASSUME AtRange
    PROVE  RoundLeftNatural
<1>1. NSlot + 1 - at \in Nat
    BY GpibAssumption DEF AtRange
<1> QED
    BY <1>1, GpibAssumption DEF RoundLeftNatural, RoundLeft, TransferLeft

LEMMA RoundStaysNatural == AtRange' => RoundLeftNatural'
<1>1. AtRange => RoundLeftNatural
    BY RoundIsNatural
<1> QED
    BY <1>1, PTL

\* A round of the GPIB thread always ends, and gpib_mutex is free again before: the
\* number of the steps left is a natural number which each step lowers and no other
\* thread raises, for any number of slots.  This is the part of WriteArrives, and of the
\* waiting in run_acquisition and run_sweep_step, which needs no fairness.
THEOREM RoundsEnd == Spec => []RoundLeftNatural /\ RoundShrinks
<1> DEFINE Shrinks == gpibPc \notin Resting => /\ RoundLeft' <= RoundLeft
                                               /\ GpibNext => RoundLeft' < RoundLeft
<1>1. Init => AtRange
    BY GpibAssumption DEF Init, AtRange
<1>2. SlotInv /\ AtRange /\ [Next]_vars => AtRange'
    BY AtRangeStep
<1>3. AtRange => RoundLeftNatural
    BY RoundIsNatural
<1>4. ASSUME SlotInv, AtRange, [Next]_vars
      PROVE  [Shrinks]_vars
  <2> SUFFICES ASSUME Next, gpibPc \notin Resting
               PROVE  /\ RoundLeft' <= RoundLeft
                      /\ GpibNext => RoundLeft' < RoundLeft
      BY <1>4
  <2>1. NSlot \in Nat \ {0} /\ at \in 1 .. NSlot + 1 /\ RoundLeft \in Nat
      BY <1>4, <1>3, GpibAssumption DEF AtRange, RoundLeftNatural
  <2>2. /\ gpibPc \in {"known", "current", "send", "parse"} => at \in InPile
        /\ daqPc = "off" => gpibPc = "off"
        /\ InPile \subseteq 1 .. NSlot
        /\ gpibPc \in {"off", "start", "test", "known", "current", "tick", "send", "parse",
                       "message", "wait"}
      BY <1>4, GpibAssumption DEF SlotInv, Places, Types, InPile
  <2>3. CASE GuiNext \/ DaqNext
    <3>1. gpibPc' = gpibPc /\ at' = at
        BY <2>2, <2>3
           DEF GuiNext, GuiConnect, GuiQuery, GuiStart, GuiPause, DaqNext, DaqAdd, DaqParse,
               DaqSweep, DaqWrite, DaqStop, DaqJoin, gpibVars, Resting
    <3>2. RoundLeft' = RoundLeft
        BY <3>1 DEF RoundLeft, TransferLeft
    <3>3. ~GpibNext
      <4>1. ASSUME GpibNext
            PROVE  gpibPc' # gpibPc \/ at' # at
          BY <4>1, <2>1, <2>2
             DEF GpibNext, GpibTake, GpibEnd, GpibTransfer, GpibCopyKnown, GpibCopyCurrent,
                 GpibUnlock, GpibFormat, GpibSend, GpibSkip, GpibQuery, GpibParse, GpibMessage
      <4> QED
          BY <3>1, <4>1
    <3> QED
        BY <2>1, <3>2, <3>3
  <2>4. CASE GpibNext
    <3>1. ~GpibTake /\ ~GpibEnd
        BY DEF GpibTake, GpibEnd, Resting
    <3>2. RoundLeft' < RoundLeft
      <4>1. CASE GpibTransfer
          BY <4>1, <2>1, <2>2 DEF GpibTransfer, RoundLeft, TransferLeft, Resting
      <4>2. CASE GpibCopyKnown
          BY <4>2, <2>1, <2>2 DEF GpibCopyKnown, RoundLeft, TransferLeft, Resting
      <4>3. CASE GpibCopyCurrent
          BY <4>3, <2>1, <2>2 DEF GpibCopyCurrent, RoundLeft, TransferLeft, Resting
      <4>4. CASE GpibUnlock
          BY <4>4, <2>1 DEF GpibUnlock, RoundLeft, TransferLeft, Resting
      <4>5. CASE GpibFormat \/ GpibQuery
          BY <4>5, <2>1 DEF GpibFormat, GpibQuery, RoundLeft, Resting
      <4>6. CASE GpibSend \/ GpibParse
          BY <4>6, <2>1, <2>2 DEF GpibSend, GpibParse, RoundLeft, Resting
      <4>7. CASE GpibSkip
          BY <4>7, <2>1 DEF GpibSkip, RoundLeft, Resting
      <4>8. CASE GpibMessage
          BY <4>8, <2>1 DEF GpibMessage, RoundLeft, Resting
      <4> QED
          BY <2>4, <3>1, <4>1, <4>2, <4>3, <4>4, <4>5, <4>6, <4>7, <4>8 DEF GpibNext
    <3>3. RoundLeft' \in Nat
        BY <1>4, AtRangeStep, RoundStaysNatural DEF RoundLeftNatural
    <3> QED
        BY <2>1, <3>2, <3>3
  <2> QED
      BY <2>3, <2>4 DEF Next
<1> QED
    BY <1>1, <1>2, <1>3, <1>4, SlotsInOrder, PTL DEF Spec, RoundShrinks
=============================================================================
