---------------------------- MODULE Tables_proofs ----------------------------
(***************************************************************************)
(* Theorems about Tables, proved for every value of its constants: the     *)
(* slots of the StateContext, which threads claim and release without a    *)
(* lock, and the scans over them; the five tables against the documented   *)
(* interface, with their observers, counters and streams; and the serial   *)
(* transactions of TxTable.                                                *)
(***************************************************************************)
EXTENDS Tables, FiniteSetTheorems, SequenceTheorems, WellFoundedInduction, NaturalsInduction, TLAPS

-----------------------------------------------------------------------------
(***************************************************************************)
(* The inductive invariant of the StateContext.                            *)
(***************************************************************************)

States == {"idle", "claim", "assign", "active", "reset", "release", "overrun"}

\* Types; all timestamps are below DTS_INF.
CtxType ==
    /\ nextTxID \in Nat /\ nextTxID >= 2
    /\ lastCTS \in 1 .. DTS_INF - 1
    /\ usedSlots \subseteq Slots /\ phantom \subseteq Slots
    /\ slotID \in [Slots -> Nat] /\ slotRead \in [Slots -> 0 .. DTS_INF - 1]
    /\ pc \in [Clients -> States]
    /\ txnID \in [Clients -> 0 .. MaxTxID] /\ pos \in [Clients -> Nat]
    /\ leaked \in Nat

\* Transaction IDs are given once, and a slot shows one ID at most.
IdInv ==
    /\ \A c \in Clients : pc[c] = "idle" <=> txnID[c] = 0
    /\ \A c \in Clients : txnID[c] < nextTxID /\ txnID[c] # 1
    /\ \A c, d \in Clients : c # d /\ pc[c] # "idle" => txnID[c] # txnID[d]
    /\ \A s \in Slots : slotID[s] < nextTxID
    /\ \A s, z \in Slots : slotID[s] = slotID[z] /\ slotID[s] # 0 => s = z

\* A transaction that has not filled its slot is shown by none, the others by
\* their own.
OwnInv ==
    /\ \A c \in Clients : pc[c] \in {"claim", "assign", "overrun"} =>
          \A s \in Slots : slotID[s] # txnID[c]
    /\ \A c \in InTx : pos[c] \in usedSlots
    /\ \A c \in InTx : pc[c] # "assign" => slotID[pos[c]] = txnID[c]
    /\ \A c, d \in InTx : c # d => pos[c] # pos[d]

\* Every bit has its reason.
CountInv == Cardinality(usedSlots) = Cardinality(phantom) + leaked + Cardinality(InTx)

\* A registered transaction that the scan has to respect is still to be
\* looked at, in the slot it had when the scan began and with the timestamp it
\* had then, or the minimum does respect it.
Respected(c) == gc.running[c][IF gc.kind = "active" THEN 1 ELSE 2]
ScanInv ==
    /\ gc = [kind |-> gc.kind, todo |-> gc.todo, newMin |-> gc.newMin, running |-> gc.running]
    /\ gc = NoScan \/ gc.kind \in {"active", "visible"}
    /\ gc.todo \subseteq Slots /\ gc.newMin \in Nat
    /\ \A c \in DOMAIN gc.running :
          /\ c \in Clients
          /\ gc.running[c][1] \in 2 .. nextTxID - 1
          /\ pc[c] \in {"claim", "assign", "overrun"} => gc.running[c][1] # txnID[c]
          /\ pc[c] \in {"active", "reset"} /\ gc.running[c][1] = txnID[c] =>
                /\ gc.kind = "visible" => slotRead[pos[c]] = gc.running[c][2] /\ slotRead[pos[c]] # 0
                /\ pos[c] \in gc.todo \/ gc.newMin <= Respected(c)

CtxInv == CtxType /\ IdInv /\ OwnInv /\ CountInv /\ OverrunOnlyByLeaks /\ ScanInv

-----------------------------------------------------------------------------
(***************************************************************************)
(* The operators.                                                          *)
(***************************************************************************)

\* A set of numbers that is not empty has a smallest one.
LEMMA MinOf ==
    ASSUME NEW T, T \subseteq Nat, T # {}
    PROVE  Min(T) \in T /\ \A n \in T : Min(T) <= n
  <1>1. PICK m \in T : \A n \in T : <<n, m>> \notin OpToRel(<, Nat)
    BY NatLessThanWellFounded, WFMin
  <1>2. \A n \in T : ~(n < m)
    BY <1>1 DEF OpToRel
  <1>3. \A n \in T : m <= n
    BY <1>2
  <1> QED BY <1>3 DEF Min

LEMMA SlotsFinite == IsFiniteSet(Slots) /\ Cardinality(Slots) = NumSlots /\ Slots \subseteq Nat
  BY FS_Interval, ContextAssumption DEF Slots

\* getFreePos yields a slot that is free, or says that there is none.
LEMMA FreePos ==
    ASSUME NEW v
    PROVE  /\ getFreePos(v) \in Nat
           /\ getFreePos(v) # NumSlots => getFreePos(v) \in Slots \ v
           /\ getFreePos(v) = NumSlots => Slots \subseteq v
  <1> DEFINE T == (Slots \ v) \cup {NumSlots}
  <1>1. T \subseteq Nat /\ T # {}
    BY SlotsFinite, ContextAssumption
  <1>2. Min(T) \in T /\ \A n \in T : Min(T) <= n
    BY <1>1, MinOf
  <1>3. getFreePos(v) = Min(T)
    BY DEF getFreePos
  <1>4. \A s \in Slots : ~(NumSlots <= s)
    BY ContextAssumption DEF Slots
  <1> QED BY <1>1, <1>2, <1>3, <1>4

\* A transaction that has filled its slot finds it by its ID.
LEMMA OwnSlot ==
    ASSUME CtxType, IdInv, OwnInv, NEW c \in InTx, pc[c] # "assign"
    PROVE  /\ pos[c] \in Slots /\ c \in Clients
           /\ getPosFromTxnID(txnID[c]) = {pos[c]}
           /\ MyRead(c) = slotRead[pos[c]]
  <1>1. c \in Clients /\ pos[c] \in Slots /\ pc[c] # "idle"
    BY DEF InTx, OwnInv, CtxType
  <1>2. slotID[pos[c]] = txnID[c] /\ txnID[c] # 0
    BY <1>1 DEF OwnInv, IdInv
  <1>3. \A s \in Slots : slotID[s] = txnID[c] <=> s = pos[c]
    BY <1>1, <1>2 DEF IdInv
  <1>4. ~(pos[c] < pos[c])
    <2>1. pos[c] \in Nat
      BY <1>1 DEF CtxType
    <2> QED BY ONLY <2>1
  <1>5. getPosFromTxnID(txnID[c]) = {pos[c]}
    BY <1>1, <1>3, <1>4 DEF getPosFromTxnID
  <1>6. MyRead(c) = slotRead[pos[c]]
    BY <1>5 DEF MyRead
  <1> QED BY <1>1, <1>5, <1>6

LEMMA InTxIs == \A c : c \in InTx <=> c \in Clients /\ pc[c] \in {"assign", "active", "reset", "release"}
  BY DEF InTx

-----------------------------------------------------------------------------
(***************************************************************************)
(* Types and transaction IDs.                                              *)
(***************************************************************************)

LEMMA NextCtxType ==
    ASSUME CtxType, IdInv, OwnInv, ContextNext
    PROVE  CtxType'
  <1> USE DEF CtxType, States, slotVars, clientVars
  <1>0. MaxTxID \in Nat /\ DTS_INF = MaxTxID + 2
    BY ContextAssumption DEF DTS_INF
  <1>1. ASSUME NEW c \in Clients, newTx(c)
        PROVE  CtxType'
    BY <1>0, <1>1 DEF newTx, Goto
  <1>2. ASSUME NEW c \in Clients, getSetFreePos(c)
        PROVE  CtxType'
    <2>1. getFreePos(expected[c]) \in Nat /\ (getFreePos(expected[c]) # NumSlots => getFreePos(expected[c]) \in Slots)
      BY FreePos
    <2> QED BY <1>2, <2>1 DEF getSetFreePos, Goto
  <1>3. ASSUME NEW c \in Clients, fillSlot(c)
        PROVE  CtxType'
    <2>1. 0 \in 0 .. DTS_INF - 1 /\ txnID[c] \in Nat
      BY <1>0
    <2>2. slotRead' \in [Slots -> 0 .. DTS_INF - 1]
      BY <1>3, <2>1 DEF fillSlot
    <2>3. slotID' \in [Slots -> Nat]
      BY <1>3, <2>1 DEF fillSlot
    <2> QED BY <1>3, <2>2, <2>3 DEF fillSlot, Goto
  <1>4. ASSUME NEW c \in Clients, setReadCTS(c)
        PROVE  CtxType'
    <2>1. lastCTS \in 0 .. DTS_INF - 1
      BY <1>0
    <2>2. slotRead' \in [Slots -> 0 .. DTS_INF - 1]
      BY <1>4, <2>1 DEF setReadCTS
    <2> QED BY <1>4, <2>2 DEF setReadCTS
  <1>5. ASSUME NEW c \in Clients, setLastCTS(c)
        PROVE  CtxType'
    BY <1>0, <1>5 DEF setLastCTS, Goto
  <1>6. ASSUME NEW c \in Clients, abort(c)
        PROVE  CtxType'
    BY <1>0, <1>6 DEF abort, End, Goto
  <1>7. ASSUME NEW c \in Clients, removeTx(c)
        PROVE  CtxType'
    <2>1. \A s \in getPosFromTxnID(txnID[c]) : s \in Slots /\ s \in Nat
      BY SlotsFinite DEF getPosFromTxnID
    <2> QED BY <1>0, <1>7, <2>1 DEF removeTx, Goto
  <1>8. ASSUME NEW c \in Clients, unsetPos(c)
        PROVE  CtxType'
    BY <1>0, <1>8 DEF unsetPos, End, Goto
  <1>9. CASE getOldestActiveTx \/ recalcOldestVisible \/ scanSlot \/ endScan
    BY <1>9 DEF getOldestActiveTx, recalcOldestVisible, scanSlot, endScan
  <1> QED BY <1>1, <1>2, <1>3, <1>4, <1>5, <1>6, <1>7, <1>8, <1>9 DEF ContextNext

LEMMA NextIdInv ==
    ASSUME CtxType, IdInv, OwnInv, ContextNext
    PROVE  IdInv'
  <1> USE DEF CtxType, States, slotVars, clientVars
  <1>1. ASSUME NEW c \in Clients, newTx(c)
        PROVE  IdInv'
    BY <1>1, ContextAssumption DEF newTx, Goto, IdInv
  <1>2. ASSUME NEW c \in Clients, getSetFreePos(c)
        PROVE  IdInv'
    BY <1>2 DEF getSetFreePos, Goto, IdInv
  <1>3. ASSUME NEW c \in Clients, fillSlot(c)
        PROVE  IdInv'
    <2>1. \A s \in Slots : slotID[s] # txnID[c]
      BY <1>3 DEF fillSlot, OwnInv
    <2> QED BY <1>3, <2>1 DEF fillSlot, Goto, IdInv
  <1>4. ASSUME NEW c \in Clients, setReadCTS(c) \/ setLastCTS(c)
        PROVE  IdInv'
    BY <1>4 DEF setReadCTS, setLastCTS, Goto, IdInv
  <1>5. ASSUME NEW c \in Clients, abort(c)
        PROVE  IdInv'
    BY <1>5 DEF abort, End, Goto, IdInv
  <1>6. ASSUME NEW c \in Clients, removeTx(c)
        PROVE  IdInv'
    BY <1>6 DEF removeTx, Goto, IdInv
  <1>7. ASSUME NEW c \in Clients, unsetPos(c)
        PROVE  IdInv'
    BY <1>7 DEF unsetPos, End, Goto, IdInv
  <1>8. CASE getOldestActiveTx \/ recalcOldestVisible \/ scanSlot \/ endScan
    BY <1>8 DEF getOldestActiveTx, recalcOldestVisible, scanSlot, endScan, IdInv
  <1> QED BY <1>1, <1>2, <1>3, <1>4, <1>5, <1>6, <1>7, <1>8 DEF ContextNext

-----------------------------------------------------------------------------
(***************************************************************************)
(* The owners of the slots.                                                *)
(***************************************************************************)

LEMMA NextOwnInv ==
    ASSUME CtxType, IdInv, OwnInv, ContextNext
    PROVE  OwnInv'
  <1> USE DEF CtxType, slotVars, clientVars
  <1>1. ASSUME NEW c \in Clients, newTx(c)
        PROVE  OwnInv'
    <2>1. \A s \in Slots : slotID[s] # nextTxID
      BY DEF IdInv
    <2>2. InTx' = InTx /\ c \notin InTx
      BY <1>1 DEF newTx, Goto, InTx
    <2> QED BY <1>1, <2>1, <2>2 DEF newTx, Goto, OwnInv, InTx
  <1>2. ASSUME NEW c \in Clients, getSetFreePos(c)
        PROVE  OwnInv'
    <2>1. CASE UNCHANGED <<pc, pos, usedSlots>>
      BY <1>2, <2>1 DEF getSetFreePos, OwnInv, InTx
    <2>2. CASE pc' = [pc EXCEPT ![c] = "overrun"] /\ UNCHANGED <<pos, usedSlots>>
      <3>1. InTx' = InTx
        BY <1>2, <2>2 DEF getSetFreePos, InTx
      <3> QED BY <1>2, <2>2, <3>1 DEF getSetFreePos, OwnInv, InTx
    <2>3. ASSUME NEW f, f = getFreePos(expected[c]), usedSlots = expected[c], f # NumSlots,
                 usedSlots' = usedSlots \union {f}, pos' = [pos EXCEPT ![c] = f],
                 pc' = [pc EXCEPT ![c] = "assign"], UNCHANGED <<slotID, txnID>>, pc[c] = "claim"
          PROVE  OwnInv'
      <3>1. f \in Slots /\ f \notin usedSlots
        BY <2>3, FreePos
      <3>2. \A d : d \in InTx' <=> d \in InTx \/ d = c
        BY <2>3 DEF InTx
      <3>3. c \notin InTx
        BY <2>3 DEF InTx
      <3>4. \A d \in InTx : pos'[d] = pos[d] /\ pc'[d] = pc[d] /\ d \in Clients
        BY <2>3, <3>3 DEF InTx
      <3>5. pos'[c] = f /\ pc'[c] = "assign"
        BY <2>3
      <3>6. \A d \in Clients : pc'[d] \in {"claim", "assign", "overrun"} => pc[d] \in {"claim", "assign", "overrun"}
        BY <2>3
      <3> QED BY <2>3, <3>1, <3>2, <3>3, <3>4, <3>5, <3>6 DEF OwnInv
    <2> QED BY <1>2, <2>1, <2>2, <2>3 DEF getSetFreePos, Goto
  <1>3. ASSUME NEW c \in Clients, fillSlot(c)
        PROVE  OwnInv'
    <2>1. /\ pc[c] = "assign" /\ pc' = [pc EXCEPT ![c] = "active"] /\ c \in InTx
          /\ slotID' = [slotID EXCEPT ![pos[c]] = txnID[c]] /\ UNCHANGED <<usedSlots, txnID, pos>>
      BY <1>3 DEF fillSlot, Goto, InTx
    <2>2. InTx' = InTx /\ pos[c] \in Slots
      BY <2>1 DEF InTx, OwnInv
    <2>3. \A d \in InTx : d # c => pos[d] # pos[c]
      BY <2>1 DEF OwnInv
    <2>4. \A s \in Slots : slotID'[s] = IF s = pos[c] THEN txnID[c] ELSE slotID[s]
      BY <2>1
    <2>5. \A d \in Clients : d # c /\ pc[d] # "idle" => txnID[d] # txnID[c]
      BY DEF IdInv
    <2>6. ASSUME NEW d \in Clients, pc'[d] \in {"claim", "assign", "overrun"}, NEW s \in Slots
          PROVE  slotID'[s] # txnID[d]
      BY <2>1, <2>4, <2>5, <2>6 DEF OwnInv
    <2>7. ASSUME NEW d \in InTx, pc'[d] # "assign"
          PROVE  slotID'[pos[d]] = txnID[d]
      BY <2>1, <2>2, <2>3, <2>4, <2>7 DEF OwnInv, InTx
    <2> QED BY <2>1, <2>2, <2>6, <2>7 DEF OwnInv
  <1>4. ASSUME NEW c \in Clients, setReadCTS(c)
        PROVE  OwnInv'
    BY <1>4 DEF setReadCTS, OwnInv, InTx
  <1>5. ASSUME NEW c \in Clients, setLastCTS(c)
        PROVE  OwnInv'
    <2>1. InTx' = InTx
      BY <1>5 DEF setLastCTS, Goto, InTx
    <2> QED BY <1>5, <2>1 DEF setLastCTS, Goto, OwnInv, InTx
  <1>6. ASSUME NEW c \in Clients, abort(c)
        PROVE  OwnInv'
    <2>1. InTx' = InTx \ {c}
      BY <1>6 DEF abort, End, Goto, InTx
    <2> QED BY <1>6, <2>1 DEF abort, End, Goto, OwnInv, InTx
  <1>7. ASSUME NEW c \in Clients, removeTx(c)
        PROVE  OwnInv'
    <2>1. c \in InTx /\ pc[c] # "assign" /\ InTx' = InTx
      BY <1>7 DEF removeTx, Goto, InTx
    <2>2. pos' = pos
      <3>1. getPosFromTxnID(txnID[c]) = {pos[c]}
        BY <2>1, OwnSlot
      <3> QED BY <1>7, <3>1 DEF removeTx
    <2> QED BY <1>7, <2>1, <2>2 DEF removeTx, Goto, OwnInv, InTx
  <1>8. ASSUME NEW c \in Clients, unsetPos(c)
        PROVE  OwnInv'
    <2>1. CASE UNCHANGED <<pc, txnID, pos, usedSlots>>
      BY <1>8, <2>1 DEF unsetPos, OwnInv, InTx
    <2>2. CASE usedSlots' = usedSlots \ {pos[c]} /\ End(c)
      <3>1. InTx' = InTx \ {c} /\ c \in InTx
        BY <1>8, <2>2 DEF unsetPos, End, Goto, InTx
      <3>2. \A d \in InTx' : pos'[d] = pos[d] /\ txnID'[d] = txnID[d] /\ pc'[d] = pc[d] /\ pos[d] # pos[c]
        BY <2>2, <3>1 DEF End, Goto, OwnInv, InTx
      <3>3. \A d \in Clients : pc'[d] \in {"claim", "assign", "overrun"} => pc'[d] = pc[d] /\ txnID'[d] = txnID[d]
        BY <2>2 DEF End, Goto
      <3>4. slotID' = slotID
        BY <1>8 DEF unsetPos
      <3> QED BY <2>2, <3>1, <3>2, <3>3, <3>4 DEF OwnInv
    <2> QED BY <1>8, <2>1, <2>2 DEF unsetPos
  <1>9. CASE getOldestActiveTx \/ recalcOldestVisible \/ scanSlot \/ endScan
    BY <1>9 DEF getOldestActiveTx, recalcOldestVisible, scanSlot, endScan, OwnInv, InTx
  <1> QED BY <1>1, <1>2, <1>3, <1>4, <1>5, <1>6, <1>7, <1>8, <1>9 DEF ContextNext

\* Who is in a transaction, and which bits are set, change together.
LEMMA NextCountInv ==
    ASSUME CtxType, IdInv, OwnInv, CountInv, ContextNext
    PROVE  CountInv'
  <1>1. /\ IsFiniteSet(usedSlots) /\ IsFiniteSet(InTx)
        /\ Cardinality(usedSlots) \in Nat /\ Cardinality(InTx) \in Nat
    <2>1. IsFiniteSet(usedSlots)
      BY SlotsFinite, FS_Subset DEF CtxType
    <2>2. IsFiniteSet(InTx)
      <3>1. InTx \in SUBSET Clients
        BY DEF InTx
      <3> QED BY <3>1, ContextAssumption, FS_Subset
    <2> QED BY <2>1, <2>2, FS_CardinalityType
  <1>2. Cardinality(phantom) \in Nat /\ leaked \in Nat
    <2>1. IsFiniteSet(phantom)
      BY SlotsFinite, FS_Subset DEF CtxType
    <2> QED BY <2>1, FS_CardinalityType DEF CtxType
  <1>3. CASE UNCHANGED <<usedSlots, phantom, leaked>> /\ InTx' = InTx
    BY <1>3 DEF CountInv
  <1>4. ASSUME NEW c \in Clients, getSetFreePos(c), usedSlots = expected[c], getFreePos(expected[c]) # NumSlots,
               usedSlots' = usedSlots \union {getFreePos(expected[c])}, pc' = [pc EXCEPT ![c] = "assign"]
        PROVE  CountInv'
    <2>1. getFreePos(expected[c]) \notin usedSlots
      BY <1>4, FreePos
    <2>2. InTx' = InTx \cup {c} /\ c \notin InTx
      BY <1>4 DEF getSetFreePos, InTx, CtxType
    <2>3. Cardinality(usedSlots') = Cardinality(usedSlots) + 1
      BY <1>1, <1>4, <2>1, FS_AddElement
    <2>4. Cardinality(InTx') = Cardinality(InTx) + 1
      BY <1>1, <2>2, FS_AddElement
    <2>5. UNCHANGED <<phantom, leaked>>
      BY <1>4 DEF getSetFreePos
    <2>6. Cardinality(InTx)' = Cardinality(InTx')
      OBVIOUS
    <2> QED BY <1>1, <1>2, <2>3, <2>4, <2>5 DEF CountInv
  <1>5. ASSUME NEW c \in Clients, abort(c)
        PROVE  CountInv'
    <2>1. InTx' = InTx \ {c} /\ c \in InTx
      BY <1>5 DEF abort, End, Goto, InTx, CtxType
    <2>2. Cardinality(InTx') = Cardinality(InTx) - 1
      BY <1>1, <2>1, FS_RemoveElement
    <2>3. UNCHANGED <<phantom, usedSlots>> /\ leaked' = leaked + 1
      BY <1>5 DEF abort, slotVars
    <2> QED BY <1>1, <1>2, <2>2, <2>3 DEF CountInv
  <1>6. ASSUME NEW c \in Clients, unsetPos(c), usedSlots' = usedSlots \ {pos[c]}, End(c)
        PROVE  CountInv'
    <2>1. InTx' = InTx \ {c} /\ c \in InTx
      BY <1>6 DEF unsetPos, End, Goto, InTx, CtxType
    <2>2. Cardinality(InTx') = Cardinality(InTx) - 1
      BY <1>1, <2>1, FS_RemoveElement
    <2>3. Cardinality(usedSlots') = Cardinality(usedSlots) - 1
      <3>1. pos[c] \in usedSlots
        BY <2>1 DEF OwnInv
      <3> QED BY <1>1, <1>6, <3>1, FS_RemoveElement
    <2>4. UNCHANGED <<phantom, leaked>>
      BY <1>6 DEF unsetPos
    <2> QED BY <1>1, <1>2, <2>2, <2>3, <2>4 DEF CountInv
  <1>7. ASSUME NEW c \in Clients, newTx(c) \/ fillSlot(c) \/ setReadCTS(c) \/ setLastCTS(c) \/ removeTx(c)
        PROVE  UNCHANGED <<usedSlots, phantom, leaked>> /\ InTx' = InTx
    BY <1>7 DEF newTx, fillSlot, setReadCTS, setLastCTS, removeTx, Goto, slotVars, clientVars, InTx, CtxType
  <1>8. ASSUME NEW c \in Clients, getSetFreePos(c)
        PROVE  CountInv'
    <2>1. CASE UNCHANGED <<pc, usedSlots>>
      BY <1>3, <1>8, <2>1 DEF getSetFreePos, InTx
    <2>2. CASE pc' = [pc EXCEPT ![c] = "overrun"] /\ UNCHANGED usedSlots
      <3>1. InTx' = InTx
        BY <1>8, <2>2 DEF getSetFreePos, InTx, CtxType
      <3> QED BY <1>3, <1>8, <2>2, <3>1 DEF getSetFreePos
    <2> QED BY <1>4, <1>8, <2>1, <2>2 DEF getSetFreePos, Goto
  <1>9. ASSUME NEW c \in Clients, unsetPos(c)
        PROVE  CountInv'
    <2>1. CASE UNCHANGED <<pc, usedSlots>>
      BY <1>3, <1>9, <2>1 DEF unsetPos, InTx
    <2> QED BY <1>6, <1>9, <2>1 DEF unsetPos
  <1>10. CASE getOldestActiveTx \/ recalcOldestVisible \/ scanSlot \/ endScan
    <2>1. UNCHANGED <<usedSlots, phantom, leaked>> /\ InTx' = InTx
      BY <1>10 DEF getOldestActiveTx, recalcOldestVisible, scanSlot, endScan, slotVars, clientVars, InTx
    <2> QED BY <1>3, <2>1
  <1> QED BY <1>3, <1>5, <1>7, <1>8, <1>9, <1>10 DEF ContextNext

\* At an overrun all slots are in use, by transactions other than the one that
\* overruns them, by leaks and by what was set in the beginning.
LEMMA NextOverrun ==
    ASSUME CtxType, CountInv, OverrunOnlyByLeaks, ContextNext
    PROVE  OverrunOnlyByLeaks'
  <1> DEFINE Few == Cardinality(phantom) + leaked + Cardinality(Clients) > NumSlots
  <1>0. /\ Cardinality(phantom) \in Nat /\ leaked \in Nat /\ Cardinality(Clients) \in Nat
        /\ Cardinality(InTx) \in Nat /\ NumSlots \in Nat
    <2>1. IsFiniteSet(phantom)
      BY SlotsFinite, FS_Subset DEF CtxType
    <2>2. IsFiniteSet(InTx)
      <3>1. InTx \in SUBSET Clients
        BY DEF InTx
      <3> QED BY <3>1, ContextAssumption, FS_Subset
    <2> QED BY <2>1, <2>2, FS_CardinalityType, ContextAssumption DEF CtxType
  <1>1. phantom' = phantom /\ (leaked' = leaked \/ leaked' = leaked + 1)
    BY DEF ContextNext, newTx, getSetFreePos, fillSlot, setReadCTS, setLastCTS, abort, removeTx, unsetPos,
           getOldestActiveTx, recalcOldestVisible, scanSlot, endScan
  <1>2. Few => Few'
    BY <1>0, <1>1
  <1>3. ASSUME NEW c \in Clients, getSetFreePos(c), usedSlots = expected[c], getFreePos(expected[c]) = NumSlots
        PROVE  Few
    <2>1. usedSlots = Slots
      BY <1>3, FreePos, SMTT(60) DEF CtxType
    <2>2. NumSlots = Cardinality(phantom) + leaked + Cardinality(InTx)
      BY <2>1, SlotsFinite DEF CountInv
    <2>3. Cardinality(InTx) < Cardinality(Clients)
      <3>1. InTx \in SUBSET Clients /\ InTx # Clients
        BY <1>3 DEF InTx, getSetFreePos
      <3>2. /\ Cardinality(InTx) <= Cardinality(Clients)
            /\ Cardinality(Clients) = Cardinality(InTx) => Clients = InTx
        BY <3>1, ContextAssumption, FS_Subset
      <3> QED BY <1>0, <3>1, <3>2
    <2> QED BY <1>0, <2>2, <2>3
  <1>4. ASSUME NEW d \in Clients, pc'[d] = "overrun"
        PROVE  Few'
    <2>1. CASE pc[d] = "overrun"
      BY <1>2, <2>1 DEF OverrunOnlyByLeaks
    <2>2. CASE pc[d] # "overrun"
      <3>1. \E c \in Clients : getSetFreePos(c) /\ usedSlots = expected[c] /\ getFreePos(expected[c]) = NumSlots
        BY <1>4, <2>2 DEF CtxType, ContextNext, newTx, getSetFreePos, fillSlot, setReadCTS, setLastCTS, abort,
              removeTx, unsetPos, getOldestActiveTx, recalcOldestVisible, scanSlot, endScan, Goto, End, clientVars
      <3> QED BY <1>2, <1>3, <3>1
    <2> QED BY <2>1, <2>2
  <1> QED BY <1>4 DEF OverrunOnlyByLeaks

-----------------------------------------------------------------------------
(***************************************************************************)
(* The scans.                                                              *)
(***************************************************************************)

\* What ScanInv says of a transaction that ran when the scan began.
Scanned(c) ==
    /\ c \in Clients
    /\ gc.running[c][1] \in 2 .. nextTxID - 1
    /\ pc[c] \in {"claim", "assign", "overrun"} => gc.running[c][1] # txnID[c]
    /\ pc[c] \in {"active", "reset"} /\ gc.running[c][1] = txnID[c] =>
          /\ gc.kind = "visible" => slotRead[pos[c]] = gc.running[c][2] /\ slotRead[pos[c]] # 0
          /\ pos[c] \in gc.todo \/ gc.newMin <= Respected(c)

LEMMA ScanInvIs ==
    ScanInv <=> /\ gc = [kind |-> gc.kind, todo |-> gc.todo, newMin |-> gc.newMin, running |-> gc.running]
                /\ gc = NoScan \/ gc.kind \in {"active", "visible"}
                /\ gc.todo \subseteq Slots /\ gc.newMin \in Nat
                /\ \A c \in DOMAIN gc.running : Scanned(c)
  BY DEF ScanInv, Scanned

\* The steps of the transactions leave the scan alone.
LEMMA ScanKept ==
    ASSUME ScanInv, gc' = gc, \A c \in DOMAIN gc.running : Scanned(c)'
    PROVE  ScanInv'
  BY DEF ScanInv, Scanned

\* A thread that goes on with other IDs and slots is no longer respected.
LEMMA NextScanInv ==
    ASSUME CtxType, IdInv, OwnInv, ScanInv, ContextNext
    PROVE  ScanInv'
  <1>0. \A c \in DOMAIN gc.running : Scanned(c)
    BY ScanInvIs
  <1>1. ASSUME NEW c \in Clients, newTx(c)
        PROVE  ScanInv'
    <2>1. ASSUME NEW d \in DOMAIN gc.running
          PROVE  Scanned(d)'
      <3>1. Scanned(d) /\ d \in Clients
        BY <1>0 DEF Scanned
      <3> QED BY <1>1, <3>1 DEF newTx, Goto, Scanned, Respected, CtxType, slotVars
    <2> QED BY <1>1, <2>1, ScanKept DEF newTx
  <1>2. ASSUME NEW c \in Clients, getSetFreePos(c)
        PROVE  ScanInv'
    <2>1. ASSUME NEW d \in DOMAIN gc.running
          PROVE  Scanned(d)'
      <3>1. Scanned(d) /\ d \in Clients
        BY <1>0 DEF Scanned
      <3>2. CASE d # c
        BY <1>2, <3>1, <3>2 DEF getSetFreePos, Goto, Scanned, Respected, CtxType
      <3>3. CASE d = c
        BY <1>2, <3>1, <3>3 DEF getSetFreePos, Goto, Scanned, Respected, CtxType
      <3> QED BY <3>2, <3>3
    <2> QED BY <1>2, <2>1, ScanKept DEF getSetFreePos
  <1>3. ASSUME NEW c \in Clients, fillSlot(c)
        PROVE  ScanInv'
    <2>1. c \in InTx /\ pc[c] = "assign"
      BY <1>3 DEF fillSlot, InTx
    <2>2. ASSUME NEW d \in DOMAIN gc.running
          PROVE  Scanned(d)'
      <3>1. Scanned(d) /\ d \in Clients
        BY <1>0 DEF Scanned
      <3>2. CASE d # c
        <4>1. pc[d] \in {"active", "reset"} => pos[d] # pos[c] /\ pos[d] \in Slots
          BY <2>1, <3>1, <3>2 DEF OwnInv, InTx, CtxType
        <4>2. pc[d] \in {"active", "reset"} => slotRead'[pos[d]] = slotRead[pos[d]]
          BY <1>3, <4>1 DEF fillSlot, CtxType
        <4> QED BY <1>3, <3>1, <3>2, <4>2 DEF fillSlot, Goto, Scanned, Respected, CtxType
      <3>3. CASE d = c
        BY <1>3, <3>1, <3>3 DEF fillSlot, Goto, Scanned, Respected, CtxType
      <3> QED BY <3>2, <3>3
    <2> QED BY <1>3, <2>2, ScanKept DEF fillSlot
  <1>4. ASSUME NEW c \in Clients, setReadCTS(c)
        PROVE  ScanInv'
    <2>1. c \in InTx /\ pc[c] # "assign"
      BY <1>4 DEF setReadCTS, InTx
    <2>2. slotRead[pos[c]] = 0 /\ slotRead' = [slotRead EXCEPT ![pos[c]] = lastCTS]
      BY <1>4, <2>1, OwnSlot, ZenonT(60) DEF setReadCTS
    <2>3. ASSUME NEW d \in DOMAIN gc.running
          PROVE  Scanned(d)'
      <3>1. Scanned(d) /\ d \in Clients
        BY <1>0 DEF Scanned
      <3>2. pc[d] \in {"active", "reset"} /\ slotRead[pos[d]] # 0 => slotRead'[pos[d]] = slotRead[pos[d]]
        <4>1. pc[d] \in {"active", "reset"} => pos[d] \in Slots
          BY <3>1 DEF OwnInv, InTx, CtxType
        <4> QED BY <2>2, <4>1 DEF CtxType
      <3> QED BY <1>4, <3>1, <3>2 DEF setReadCTS, Scanned, Respected, clientVars
    <2> QED BY <1>4, <2>3, ScanKept DEF setReadCTS
  <1>5. ASSUME NEW c \in Clients, setLastCTS(c)
        PROVE  ScanInv'
    <2>1. ASSUME NEW d \in DOMAIN gc.running
          PROVE  Scanned(d)'
      <3>1. Scanned(d) /\ d \in Clients
        BY <1>0 DEF Scanned
      <3> QED BY <1>5, <3>1 DEF setLastCTS, Goto, Scanned, Respected, CtxType, slotVars
    <2> QED BY <1>5, <2>1, ScanKept DEF setLastCTS
  <1>6. ASSUME NEW c \in Clients, abort(c)
        PROVE  ScanInv'
    <2>1. ASSUME NEW d \in DOMAIN gc.running
          PROVE  Scanned(d)'
      <3>1. Scanned(d) /\ d \in Clients
        BY <1>0 DEF Scanned
      <3> QED BY <1>6, <3>1 DEF abort, End, Goto, Scanned, Respected, CtxType, slotVars
    <2> QED BY <1>6, <2>1, ScanKept DEF abort
  <1>7. ASSUME NEW c \in Clients, removeTx(c)
        PROVE  ScanInv'
    <2>1. c \in InTx /\ pc[c] # "assign"
      BY <1>7 DEF removeTx, InTx
    <2>2. slotRead' = [slotRead EXCEPT ![pos[c]] = 0] /\ pos' = pos
      <3>1. getPosFromTxnID(txnID[c]) = {pos[c]}
        BY <2>1, OwnSlot
      <3> QED BY <1>7, <3>1 DEF removeTx, CtxType
    <2>3. ASSUME NEW d \in DOMAIN gc.running
          PROVE  Scanned(d)'
      <3>1. Scanned(d) /\ d \in Clients
        BY <1>0 DEF Scanned
      <3>2. CASE d # c
        <4>1. pc[d] \in {"active", "reset"} => pos[d] # pos[c] /\ pos[d] \in Slots
          BY <2>1, <3>1, <3>2 DEF OwnInv, InTx, CtxType
        <4>2. pc[d] \in {"active", "reset"} => slotRead'[pos[d]] = slotRead[pos[d]]
          BY <2>2, <4>1 DEF CtxType
        <4> QED BY <1>7, <2>2, <3>1, <3>2, <4>2 DEF removeTx, Goto, Scanned, Respected, CtxType
      <3>3. CASE d = c
        BY <1>7, <3>1, <3>3 DEF removeTx, Goto, Scanned, Respected, CtxType
      <3> QED BY <3>2, <3>3
    <2> QED BY <1>7, <2>3, ScanKept DEF removeTx
  <1>8. ASSUME NEW c \in Clients, unsetPos(c)
        PROVE  ScanInv'
    <2>1. ASSUME NEW d \in DOMAIN gc.running
          PROVE  Scanned(d)'
      <3>1. Scanned(d) /\ d \in Clients
        BY <1>0 DEF Scanned
      <3>2. CASE d # c
        BY <1>8, <3>1, <3>2 DEF unsetPos, End, Goto, Scanned, Respected, CtxType
      <3>3. CASE d = c
        BY <1>8, <3>1, <3>3 DEF unsetPos, End, Goto, Scanned, Respected, CtxType
      <3> QED BY <3>2, <3>3
    <2> QED BY <1>8, <2>1, ScanKept DEF unsetPos
  <1>9. ASSUME NEW D, D \subseteq Registered
        PROVE  \A d \in D : d \in InTx /\ pc[d] # "assign" /\ pos[d] \in usedSlots /\ pos[d] \in Slots
                            /\ txnID[d] \in 2 .. nextTxID - 1 /\ d \in Clients
    <2>1. \A d \in D : d \in Clients /\ pc[d] \in {"active", "reset"}
      BY <1>9 DEF Registered
    <2>2. \A d \in D : d \in InTx /\ pc[d] # "assign" /\ pos[d] \in usedSlots
      BY <2>1 DEF InTx, OwnInv
    <2>3. \A d \in D : txnID[d] # 0 /\ txnID[d] # 1 /\ txnID[d] < nextTxID /\ txnID[d] \in Nat /\ nextTxID \in Nat
      BY <2>1 DEF IdInv, CtxType
    <2> QED BY <2>1, <2>2, <2>3 DEF CtxType
  <1>10. CASE getOldestActiveTx
    <2> DEFINE run == [c \in Registered |-> <<txnID[c], 0>>]
    <2>1. /\ gc' = [kind |-> "active", todo |-> usedSlots, newMin |-> DTS_INF, running |-> run]
          /\ UNCHANGED <<nextTxID, slotID, slotRead, pc, txnID, pos>>
      BY <1>10 DEF getOldestActiveTx, slotVars, clientVars
    <2>2. /\ gc'.kind = "active" /\ gc'.todo = usedSlots /\ gc'.newMin = DTS_INF /\ gc'.running = run
          /\ DOMAIN run = Registered /\ \A c \in Registered : run[c][1] = txnID[c]
      BY <2>1
    <2> HIDE DEF run
    <2>3. DTS_INF \in Nat
      BY ContextAssumption DEF DTS_INF
    <2>4. ASSUME NEW d \in Registered
          PROVE  Scanned(d)'
      BY <1>9, <2>1, <2>2 DEF Scanned, Registered
    <2> QED BY <2>1, <2>2, <2>3, <2>4 DEF ScanInv, Scanned, CtxType
  <1>11. CASE recalcOldestVisible
    <2>1. UNCHANGED <<nextTxID, slotID, slotRead, pc, txnID, pos>>
      BY <1>11 DEF recalcOldestVisible, slotVars, clientVars
    <2>2. CASE oldestVisibleVersion = 0
      <3>1. gc' = [kind |-> "visible", todo |-> {}, newMin |-> lastCTS, running |-> <<>>]
        BY <1>11, <2>2 DEF recalcOldestVisible
      <3>2. lastCTS \in Nat /\ DOMAIN <<>> = {}
        BY DEF CtxType
      <3> QED BY <3>1, <3>2 DEF ScanInv
    <2>3. CASE oldestVisibleVersion # 0
      <3> DEFINE D == {x \in Registered : MyRead(x) # 0}
                 run == [c \in D |-> <<txnID[c], MyRead(c)>>]
      <3>1. gc' = [kind |-> "visible", todo |-> usedSlots, newMin |-> DTS_INF, running |-> run]
        BY <1>11, <2>3 DEF recalcOldestVisible
      <3>2. /\ gc'.kind = "visible" /\ gc'.todo = usedSlots /\ gc'.newMin = DTS_INF /\ gc'.running = run
            /\ DOMAIN run = D /\ \A c \in D : run[c][1] = txnID[c] /\ run[c][2] = MyRead(c) /\ MyRead(c) # 0
        BY <3>1
      <3> HIDE DEF run
      <3>3. DTS_INF \in Nat
        BY ContextAssumption DEF DTS_INF
      <3>4. D \subseteq Registered
        OBVIOUS
      <3>5. ASSUME NEW d \in D
            PROVE  Scanned(d)'
        <4>1. d \in InTx /\ pc[d] # "assign" /\ pos[d] \in usedSlots /\ txnID[d] \in 2 .. nextTxID - 1
              /\ d \in Clients /\ pc[d] \in {"active", "reset"}
          BY <1>9, <3>4 DEF Registered
        <4>2. MyRead(d) = slotRead[pos[d]]
          BY <4>1, OwnSlot
        <4> QED BY <2>1, <3>2, <4>1, <4>2 DEF Scanned
      <3> HIDE DEF D
      <3> QED BY <3>1, <3>2, <3>3, <3>5 DEF ScanInv, Scanned, CtxType
    <2> QED BY <2>2, <2>3
  <1>12. CASE scanSlot
    <2> DEFINE s == Min(gc.todo)
               m == Min({gc.newMin, Seen(s)})
    <2>1. gc = [kind |-> gc.kind, todo |-> gc.todo, newMin |-> gc.newMin, running |-> gc.running]
          /\ (gc = NoScan \/ gc.kind \in {"active", "visible"})
          /\ gc.todo \subseteq Slots /\ gc.newMin \in Nat
      BY DEF ScanInv
    <2>2. s \in gc.todo
      <3>1. gc.todo # {} /\ gc.todo \subseteq Nat
        BY <1>12, <2>1, SlotsFinite DEF scanSlot
      <3> QED BY <3>1, MinOf
    <2>3. gc' = [gc EXCEPT !.todo = gc.todo \ {s}, !.newMin = m]
          /\ UNCHANGED <<nextTxID, slotID, slotRead, pc, txnID, pos>>
      BY <1>12 DEF scanSlot, slotVars, clientVars
    <2> HIDE DEF s
    <2>4. Seen(s) \in Nat
      <3>1. DTS_INF \in Nat /\ s \in Slots
        BY <2>1, <2>2, ContextAssumption DEF DTS_INF
      <3>2. slotID[s] \in Nat /\ slotRead[s] \in Nat
        BY <3>1 DEF CtxType
      <3> QED BY <3>1, <3>2 DEF Seen
    <2>5. m \in {gc.newMin, Seen(s)} /\ m <= gc.newMin /\ m <= Seen(s) /\ m \in Nat
      <3>1. {gc.newMin, Seen(s)} \subseteq Nat /\ {gc.newMin, Seen(s)} # {}
        BY <2>1, <2>4
      <3> QED BY <3>1, MinOf
    <2> HIDE DEF m
    <2>6. gc' = [kind |-> gc.kind, todo |-> gc.todo \ {s}, newMin |-> m, running |-> gc.running]
      BY <2>1, <2>3
    <2>7. gc'.kind = gc.kind /\ gc'.todo = gc.todo \ {s} /\ gc'.newMin = m /\ gc'.running = gc.running
      BY <2>6
    <2>8. gc.kind \in {"active", "visible"}
      BY <1>12, <2>1 DEF scanSlot, NoScan
    <2>9. ASSUME NEW d \in DOMAIN gc.running
          PROVE  Scanned(d)'
      <3>1. Scanned(d) /\ d \in Clients
        BY <1>0 DEF Scanned
      <3>2. ASSUME pc[d] \in {"active", "reset"}, gc.running[d][1] = txnID[d]
            PROVE  pos[d] \in gc.todo \ {s} \/ m <= Respected(d)
        <4>1. Respected(d) \in Nat
          <5>1. txnID[d] \in Nat
            BY <3>1 DEF CtxType
          <5>2. gc.kind = "visible" => gc.running[d][2] \in Nat
            <6>1. pos[d] \in Slots
              BY <3>1, <3>2 DEF OwnInv, InTx, CtxType
            <6> QED BY <3>1, <3>2, <6>1 DEF Scanned, CtxType
          <5> QED BY <2>8, <3>2, <5>1, <5>2 DEF Respected
        <4>2. CASE gc.newMin <= Respected(d)
          BY <2>1, <2>5, <4>1, <4>2
        <4>3. CASE pos[d] \in gc.todo /\ pos[d] # s
          BY <4>3
        <4>4. CASE pos[d] = s
          <5>1. Seen(s) = Respected(d)
            <6>1. slotID[pos[d]] = txnID[d]
              BY <3>1, <3>2 DEF OwnInv, InTx
            <6>2. CASE gc.kind = "active"
              BY <3>2, <4>4, <6>1, <6>2 DEF Seen, Respected
            <6>3. CASE gc.kind = "visible"
              BY <3>1, <3>2, <4>4, <6>3 DEF Seen, Respected, Scanned
            <6> QED BY <2>8, <6>2, <6>3
          <5> QED BY <2>5, <5>1
        <4> QED BY <3>1, <3>2, <4>2, <4>3, <4>4 DEF Scanned
      <3>3. Respected(d)' = Respected(d)
        BY <2>7 DEF Respected
      <3> QED BY <2>3, <2>7, <3>1, <3>2, <3>3 DEF Scanned
    <2>10. gc'.todo \subseteq Slots /\ gc'.newMin \in Nat /\ gc'.kind \in {"active", "visible"}
      BY <2>1, <2>5, <2>7, <2>8
    <2> QED BY <2>6, <2>7, <2>9, <2>10 DEF ScanInv, Scanned
  <1>13. CASE endScan
    <2>1. gc' = NoScan
      BY <1>13 DEF endScan
    <2>2. DOMAIN <<>> = {} /\ {} \subseteq Slots /\ 0 \in Nat
      OBVIOUS
    <2> QED BY <2>1, <2>2 DEF ScanInv, NoScan
  <1> QED BY <1>1, <1>2, <1>3, <1>4, <1>5, <1>6, <1>7, <1>8, <1>10, <1>11, <1>12, <1>13 DEF ContextNext

-----------------------------------------------------------------------------
\* Slots have one owner, every bit that is set and nobody's was set in the
\* beginning or left by an abort, only such bits and too many transactions
\* make newTx write behind the array, and what the scans compute respects
\* every transaction that is registered all the time, for any number of slots,
\* threads and transactions: getSetFreePos and unsetPos change the bitmap only
\* if it is the one they have looked at.
THEOREM ContextStaysSound == Spec => []ContextSound
  <1>1. Init => CtxInv
    <2> SUFFICES ASSUME Init
                 PROVE  CtxInv
      OBVIOUS
    <2>1. ContextInit
      BY DEF Init
    <2>2. DTS_INF \in Nat /\ DTS_INF >= 2
      BY ContextAssumption DEF DTS_INF
    <2>3. CtxType
      <3>1. 0 \in 0 .. DTS_INF - 1 /\ 1 \in 1 .. DTS_INF - 1 /\ 0 \in 0 .. MaxTxID
        BY <2>2, ContextAssumption
      <3> QED BY <2>1, <3>1 DEF ContextInit, CtxType, States
    <2>4. InTx = {}
      BY <2>1 DEF ContextInit, InTx
    <2>5. IdInv /\ OwnInv
      BY <2>1, <2>4 DEF ContextInit, IdInv, OwnInv
    <2>6. CountInv
      <3>1. Cardinality({}) = 0
        BY FS_EmptySet
      <3>2. IsFiniteSet(phantom)
        BY <2>3, SlotsFinite, FS_Subset DEF CtxType
      <3>3. Cardinality(phantom) \in Nat
        BY <3>2, FS_CardinalityType
      <3> QED BY <2>1, <2>4, <3>1, <3>3 DEF ContextInit, CountInv
    <2>7. OverrunOnlyByLeaks
      BY <2>1 DEF ContextInit, OverrunOnlyByLeaks
    <2>8. ScanInv
      <3>1. DOMAIN <<>> = {} /\ {} \subseteq Slots /\ 0 \in Nat
        OBVIOUS
      <3> QED BY <2>1, <3>1 DEF ContextInit, ScanInv, NoScan
    <2> QED BY <2>3, <2>5, <2>6, <2>7, <2>8 DEF CtxInv
  <1>2. CtxInv /\ [Next]_vars => CtxInv'
    <2> SUFFICES ASSUME CtxInv, [Next]_vars
                 PROVE  CtxInv'
      OBVIOUS
    <2>1. CASE UNCHANGED ctxVars
      <3>1. CtxType' /\ IdInv'
        BY <2>1 DEF CtxInv, ctxVars, slotVars, clientVars, CtxType, IdInv
      <3>2. OwnInv' /\ CountInv' /\ OverrunOnlyByLeaks'
        BY <2>1 DEF CtxInv, ctxVars, slotVars, clientVars, OwnInv, CountInv, OverrunOnlyByLeaks, InTx
      <3>3. ScanInv'
        BY <2>1 DEF CtxInv, ctxVars, slotVars, clientVars, ScanInv, Respected
      <3> QED BY <3>1, <3>2, <3>3 DEF CtxInv
    <2>2. CASE ContextNext
      BY <2>2, NextCtxType, NextIdInv, NextOwnInv, NextCountInv, NextOverrun, NextScanInv DEF CtxInv
    <2> QED BY <2>1, <2>2 DEF Next, vars
  <1>3. CtxInv => ContextSound
    <2> SUFFICES ASSUME CtxInv
                 PROVE  ContextSound
      OBVIOUS
    <2>1. SlotsOwned
      <3>1. \A c \in InTx : pc[c] # "assign" => getPosFromTxnID(txnID[c]) = {pos[c]}
        BY OwnSlot DEF CtxInv
      <3> QED BY <3>1 DEF CtxInv, OwnInv, CountInv, SlotsOwned
    <2>2. ASSUME gc # NoScan, gc.todo = {}, NEW c \in DOMAIN gc.running \intersect Registered,
                 gc.running[c][1] = txnID[c]
          PROVE  Result <= gc.running[c][IF gc.kind = "active" THEN 1 ELSE 2]
      <3>1. /\ gc.kind \in {"active", "visible"} /\ gc.newMin \in Nat /\ gc.newMin <= Respected(c)
            /\ c \in Clients /\ pc[c] \in {"active", "reset"}
            /\ gc.kind = "visible" => slotRead[pos[c]] = gc.running[c][2] /\ slotRead[pos[c]] # 0
        BY <2>2 DEF CtxInv, ScanInv, Registered
      <3>2. CASE gc.kind = "active"
        BY <3>1, <3>2 DEF Result, Respected
      <3>3. CASE gc.kind = "visible"
        <4>1. pos[c] \in Slots
          BY <3>1 DEF CtxInv, OwnInv, InTx, CtxType
        <4>2. gc.running[c][2] \in 0 .. DTS_INF - 1 /\ DTS_INF \in Nat
          BY <3>1, <3>3, <4>1, ContextAssumption DEF CtxInv, CtxType, DTS_INF
        <4>3. Respected(c) = gc.running[c][2]
          BY <3>3 DEF Respected
        <4>4. gc.newMin # DTS_INF
          BY <3>1, <4>2, <4>3
        <4> QED BY <3>1, <3>3, <4>3, <4>4 DEF Result
      <3> QED BY <3>1, <3>2, <3>3
    <2>3. ScansConservative
      BY <2>2 DEF ScansConservative
    <2> QED BY <2>1, <2>3 DEF CtxInv, ContextSound
  <1> QED BY <1>1, <1>2, <1>3, PTL DEF Spec

-----------------------------------------------------------------------------
(***************************************************************************)
(* The inductive invariant of the tables.                                  *)
(***************************************************************************)

Exact == {"HashMapTable", "RDBTable"}

IsTable(t) == DOMAIN t \subseteq Keys /\ t \in [DOMAIN t -> Records]

SomeKeys == Keys \union {Garbage, CHOOSE k \in Keys : TRUE}
NoteSet == [key : SomeKeys, rec : Records \union {Garbage}, mode : {"Insert", "Update", "Delete"}]
ElementSet == [key : SomeKeys, rec : Records \union {Garbage}, outdated : BOOLEAN]
EntrySet == [op : {"Insert", "Delete"}, key : Keys, rec : Records]
OperationSet == [op : {"Insert", "Delete", "Keep", "Update", "DeleteWhere", "UpdateWhere", "Truncate"},
                 key : SomeKeys, rec : Records]

\* The table and those that watch it.
TableType ==
    /\ backend \in Backends /\ (program = "tx" => backend \in Exact)
    /\ IsTable(rows) /\ IsTable(ref)
    /\ numRecords \in Int /\ miscounted \in Int
    /\ observer \in {"Immediate", "OnCommit"}
    /\ notes \in Seq(NoteSet) /\ pending \in Seq(ElementSet) /\ published \in Seq(ElementSet)

\* The transactions; one is committed at a time, entry by entry.
TxType ==
    /\ logBuffer \in [Txs -> Seq(EntrySet)]
    /\ committed \in Seq(OperationSet)
    /\ reopens \in Nat
    /\ committing # NoTx =>
          /\ program = "tx"
          /\ committing = [tx |-> committing.tx, next |-> committing.next]
          /\ committing.tx \in Txs
          /\ committing.next \in 1 .. Len(logBuffer[committing.tx]) + 1

\* HashMapTable and RDBTable never leave the documented table, the others not
\* before they deviate.
RowsInv == backend \in Exact \/ faithful => rows = ref

CountedInv == backend = "RDBTable" => numRecords = Cardinality(DOMAIN rows) + miscounted

\* What is published and what is pending make up the table, and to a reader of
\* the flag as it is meant a copy that shares no key with the table.
Apart(t, u) == DOMAIN t \intersect DOMAIN u = {}

StreamedInv ==
    program = "stream" /\ backend \in Exact /\ announced =>
      /\ After(None, StreamLog(published \o pending, TRUE)) = rows
      /\ Apart(After(None, StreamLog(published \o pending, FALSE)), rows)

\* ToTable: a key has several live elements only if it is one of twice (l are
\* the live elements, w those keys), and the others have theirs in the table t.
Unique(l, w) == \A e, x \in l : e.key = x.key /\ e.key \notin w => e = x
Tracks(t, l, w) ==
    \A k \in Keys \ w :
      /\ \A x \in l : x.key = k => Has(t, k) /\ t[k] = x.rec
      /\ (\A x \in l : x.key # k) => ~Has(t, k)

TrackedInv ==
    /\ live \subseteq [key : Keys, rec : Records]
    /\ Unique(live, twice)
    /\ program = "stream" /\ backend # "BDCCPTable" => Tracks(rows, live, twice)

\* The operations whose effect is in the table: those of the committed
\* transactions and, during a commit, the entries it has applied.
Done ==
    IF committing = NoTx THEN committed
    ELSE committed \o SubSeq(logBuffer[committing.tx], 1, committing.next - 1)

SerialInv ==
    program = "tx" /\ ~torn /\ (backend = "RDBTable" \/ reopens = 0) => rows = After(None, Done)

TablesInv ==
    TableType /\ TxType /\ RowsInv /\ ObserversAgree /\ CountedInv /\ StreamedInv /\ TrackedInv /\ SerialInv

-----------------------------------------------------------------------------
(***************************************************************************)
(* What sequences of operations make of a table.                           *)
(***************************************************************************)

\* f holds the tables after each of the first n operations of log.
Runs(t, log, n, f) == f[0] = t /\ \A i \in 1 .. n : f[i] = Applied(f[i - 1], log[i])

LEMMA RunsExists ==
    ASSUME NEW t, NEW log, NEW n \in Nat
    PROVE  \E f : f = [i \in 0 .. n |-> f[i]] /\ Runs(t, log, n, f)
  <1> DEFINE P(m) == \E f : f = [i \in 0 .. m |-> f[i]] /\ Runs(t, log, m, f)
             T == {m \in Nat : ~P(m)}
  <1>1. SUFFICES ASSUME T # {}
                 PROVE  FALSE
    OBVIOUS
  <1>2. PICK m \in T : \A i \in T : m <= i
    <2>1. T \subseteq Nat
      OBVIOUS
    <2> QED BY ONLY <1>1, <2>1, MinOf
  <1>3. CASE m = 0
    <2> DEFINE g == [i \in 0 .. 0 |-> t]
    <2>1. g = [i \in 0 .. 0 |-> g[i]] /\ g[0] = t
      OBVIOUS
    <2>2. Runs(t, log, 0, g)
      BY <2>1 DEF Runs
    <2>3. P(0)
      BY <2>1, <2>2
    <2> QED BY <1>3, <2>3
  <1>4. CASE m # 0
    <2>1. m - 1 \in Nat /\ m - 1 \notin T
      BY <1>2, <1>4
    <2>2. P(m - 1)
      BY <2>1
    <2>3. PICK f : Runs(t, log, m - 1, f)
      BY <2>2
    <2> DEFINE g == [i \in 0 .. m |-> IF i = m THEN Applied(f[m - 1], log[m]) ELSE f[i]]
    <2>4. g = [i \in 0 .. m |-> g[i]]
      OBVIOUS
    <2>5. g[0] = t
      BY <1>4, <2>3 DEF Runs
    <2>6. ASSUME NEW i \in 1 .. m
          PROVE  g[i] = Applied(g[i - 1], log[i])
      <3>1. i \in 0 .. m /\ i - 1 \in 0 .. m /\ i - 1 # m
        OBVIOUS
      <3>2. g[i - 1] = f[i - 1]
        BY <3>1
      <3>3. CASE i = m
        BY <3>1, <3>2, <3>3
      <3>4. CASE i # m
        <4>1. i \in 1 .. m - 1
          BY <3>4
        <4>2. f[i] = Applied(f[i - 1], log[i])
          BY <2>3, <4>1 DEF Runs
        <4>3. g[i] = f[i]
          BY <3>1, <3>4
        <4> QED BY <3>2, <4>2, <4>3
      <3> QED BY <3>3, <3>4
    <2>7. Runs(t, log, m, g)
      <3> HIDE DEF g
      <3> QED BY <2>5, <2>6 DEF Runs
    <2>8. P(m)
      BY <2>4, <2>7
    <2> QED BY <2>8
  <1> QED BY <1>3, <1>4

\* Two runs agree as far as their operations do.
LEMMA RunsUnique ==
    ASSUME NEW t, NEW log, NEW run, NEW n \in Nat, NEW m \in Nat, n <= m,
           NEW f, Runs(t, log, n, f), NEW g, Runs(t, run, m, g),
           \A i \in 1 .. n : log[i] = run[i]
    PROVE  f[n] = g[n]
  <1> DEFINE T == {i \in 0 .. n : f[i] # g[i]}
  <1>1. SUFFICES ASSUME T # {}
                 PROVE  FALSE
    OBVIOUS
  <1>2. PICK k \in T : \A i \in T : k <= i
    <2>1. T \subseteq Nat
      OBVIOUS
    <2> QED BY ONLY <1>1, <2>1, MinOf
  <1>3. k # 0
    BY DEF Runs
  <1>4. k \in 1 .. n /\ k \in 1 .. m /\ k - 1 \in 0 .. n /\ k - 1 \notin T
    BY <1>2, <1>3
  <1>5. f[k - 1] = g[k - 1] /\ log[k] = run[k]
    BY <1>4
  <1>6. f[k] = Applied(f[k - 1], log[k])
    BY <1>4 DEF Runs
  <1>7. g[k] = Applied(g[k - 1], run[k])
    BY <1>4 DEF Runs
  <1> QED BY <1>5, <1>6, <1>7

\* After is where a run over the whole sequence ends.
LEMMA AfterIs ==
    ASSUME NEW t, NEW log, Len(log) \in Nat
    PROVE  \E f : Runs(t, log, Len(log), f) /\ After(t, log) = f[Len(log)]
  <1> DEFINE Step(f) == [i \in 0 .. Len(log) |-> IF i = 0 THEN t ELSE Applied(f[i - 1], log[i])]
             v == CHOOSE f : f = Step(f)
  <1>1. PICK g : g = [i \in 0 .. Len(log) |-> g[i]] /\ Runs(t, log, Len(log), g)
    BY RunsExists
  <1>2. g = Step(g)
    <2>1. ASSUME NEW i \in 0 .. Len(log)
          PROVE  g[i] = Step(g)[i]
      <3>1. CASE i = 0
        BY <1>1, <3>1 DEF Runs
      <3>2. CASE i # 0
        <4>1. i \in 1 .. Len(log)
          BY <3>2
        <4> QED BY <1>1, <3>2, <4>1 DEF Runs
      <3> QED BY <3>1, <3>2
    <2> QED BY <1>1, <2>1
  <1>3. v = Step(v)
    BY <1>2
  <1>4. After(t, log) = v[Len(log)]
    BY DEF After
  <1> HIDE DEF v
  <1>5. Runs(t, log, Len(log), v)
    <2>1. v[0] = t
      BY <1>3
    <2>2. ASSUME NEW i \in 1 .. Len(log)
          PROVE  v[i] = Applied(v[i - 1], log[i])
      <3>1. i \in 0 .. Len(log) /\ i # 0
        OBVIOUS
      <3> QED BY <1>3, <3>1
    <2> QED BY <2>1, <2>2 DEF Runs
  <1> QED BY <1>4, <1>5

\* A run that ends in a table shows what After is.
LEMMA AfterRun ==
    ASSUME NEW t, NEW log, Len(log) \in Nat, NEW f, Runs(t, log, Len(log), f)
    PROVE  After(t, log) = f[Len(log)]
  <1>1. PICK g : Runs(t, log, Len(log), g) /\ After(t, log) = g[Len(log)]
    BY AfterIs
  <1>2. g[Len(log)] = f[Len(log)]
    BY <1>1, RunsUnique
  <1> QED BY <1>1, <1>2

LEMMA AfterNothing ==
    ASSUME NEW t, NEW log, Len(log) = 0
    PROVE  After(t, log) = t
  BY AfterIs DEF Runs

LEMMA AfterOne ==
    ASSUME NEW t, NEW log, Len(log) = 1
    PROVE  After(t, log) = Applied(t, log[1])
  <1>0. Len(log) \in Nat
    OBVIOUS
  <1>1. PICK f : Runs(t, log, Len(log), f) /\ After(t, log) = f[Len(log)]
    BY <1>0, AfterIs
  <1>2. f[1] = Applied(f[1 - 1], log[1]) /\ f[0] = t
    BY <1>1 DEF Runs
  <1> QED BY <1>1, <1>2

LEMMA AfterConcat ==
    ASSUME NEW t, NEW S, NEW log \in Seq(S), NEW more \in Seq(S)
    PROVE  After(t, log \o more) = After(After(t, log), more)
  <1> DEFINE n == Len(log)
             m == Len(more)
             u == After(t, log)
             all == log \o more
  <1>1. /\ n \in Nat /\ m \in Nat /\ Len(all) = n + m
        /\ \A i \in 1 .. n : all[i] = log[i]
        /\ \A i \in 1 .. m : all[n + i] = more[i]
    BY ConcatProperties
  <1>2. PICK f : Runs(t, log, n, f) /\ u = f[n]
    BY <1>1, AfterIs
  <1>3. PICK g : Runs(u, more, m, g) /\ After(u, more) = g[m]
    BY <1>1, AfterIs
  <1> HIDE DEF n, m, u, all
  <1> DEFINE h == [i \in 0 .. n + m |-> IF i <= n THEN f[i] ELSE g[i - n]]
  <1>4. h[0] = t
    BY <1>1, <1>2 DEF Runs
  <1>5. ASSUME NEW i \in 1 .. n + m
        PROVE  h[i] = Applied(h[i - 1], all[i])
    <2>1. i \in 0 .. n + m /\ i - 1 \in 0 .. n + m
      BY <1>1
    <2>2. CASE i <= n
      <3>1. i \in 1 .. n /\ i - 1 <= n
        BY <1>1, <2>2
      <3>2. h[i] = f[i] /\ h[i - 1] = f[i - 1]
        BY <2>1, <2>2, <3>1
      <3>3. f[i] = Applied(f[i - 1], log[i]) /\ all[i] = log[i]
        BY <1>1, <1>2, <3>1 DEF Runs
      <3> QED BY <3>2, <3>3
    <2>3. CASE ~(i <= n)
      <3>1. i - n \in 1 .. m /\ (i - n) - 1 = (i - 1) - n /\ n + (i - n) = i
        BY <1>1, <2>3
      <3>2. h[i] = g[i - n]
        BY <2>1, <2>3
      <3>3. h[i - 1] = g[(i - n) - 1]
        <4>1. CASE i - 1 = n
          <5>1. h[i - 1] = f[n] /\ (i - n) - 1 = 0
            BY <1>1, <2>1, <4>1
          <5> QED BY <1>2, <1>3, <5>1 DEF Runs
        <4>2. CASE i - 1 # n
          <5>1. ~(i - 1 <= n)
            BY <1>1, <2>3, <4>2
          <5> QED BY <2>1, <3>1, <5>1
        <4> QED BY <4>1, <4>2
      <3>4. g[i - n] = Applied(g[(i - n) - 1], more[i - n])
        BY <1>3, <3>1 DEF Runs
      <3>5. all[i] = more[i - n]
        BY <1>1, <3>1
      <3> QED BY <3>2, <3>3, <3>4, <3>5
    <2> QED BY <2>2, <2>3
  <1>6. Runs(t, all, n + m, h)
    <2> HIDE DEF h
    <2> QED BY <1>4, <1>5 DEF Runs
  <1>7. After(t, all) = h[n + m]
    <2> HIDE DEF h
    <2> QED BY <1>1, <1>6, AfterRun
  <1>8. h[n + m] = g[m]
    <2>1. CASE m = 0
      <3>1. h[n + m] = f[n]
        BY <1>1, <2>1
      <3> QED BY <1>2, <1>3, <2>1, <3>1 DEF Runs
    <2>2. CASE m # 0
      <3>1. ~(n + m <= n) /\ (n + m) - n = m /\ n + m \in 0 .. n + m
        BY <1>1, <2>2
      <3> QED BY <3>1
    <2> QED BY <2>1, <2>2
  <1> QED BY <1>3, <1>7, <1>8 DEF u, all

LEMMA RecordsClosed == 0 \in Records /\ \A v \in Records : Updated(v) \in Records
  <1> DEFINE n == Cardinality(Records)
  <1>1. n \in Nat
    BY TablesAssumption, FS_CardinalityType
  <1>2. Records = 0 .. n - 1 /\ Records # {}
    BY TablesAssumption
  <1>3. n >= 1
    BY <1>1, <1>2
  <1>4. ASSUME NEW v \in Nat
        PROVE  (v + 1) % n \in 0 .. n - 1
    <2> HIDE DEF n
    <2> QED BY <1>1, <1>3
  <1> QED BY <1>1, <1>2, <1>3, <1>4 DEF Updated

LEMMA NoneTable == IsTable(None) /\ DOMAIN None = {}
  BY DEF IsTable, None

LEMMA PutTable ==
    ASSUME NEW t, IsTable(t), NEW k \in Keys, NEW v \in Records
    PROVE  IsTable(Put(t, k, v)) /\ DOMAIN Put(t, k, v) = DOMAIN t \union {k}
  BY DEF IsTable, Put

LEMMA DelTable ==
    ASSUME NEW t, IsTable(t), NEW k
    PROVE  IsTable(Del(t, k)) /\ DOMAIN Del(t, k) = DOMAIN t \ {k}
  BY DEF IsTable, Del, Restrict

\* Deleting what is not there changes nothing.
LEMMA DelAbsent ==
    ASSUME NEW t, IsTable(t), NEW k, k \notin DOMAIN t
    PROVE  Del(t, k) = t
  BY DEF IsTable, Del, Restrict

\* A key that is erased first is put like any other.
LEMMA PutDel ==
    ASSUME NEW t, IsTable(t), NEW k, NEW v
    PROVE  Put(Del(t, k), k, v) = Put(t, k, v)
  BY DEF IsTable, Del, Restrict, Put

LEMMA RestrictTable ==
    ASSUME NEW t, IsTable(t), NEW S, S \subseteq DOMAIN t
    PROVE  IsTable(Restrict(t, S)) /\ DOMAIN Restrict(t, S) = S
  BY DEF IsTable, Restrict

\* A function on the keys with records on them is a table.
LEMMA MapTable ==
    ASSUME NEW t, IsTable(t), NEW f, f = [k \in DOMAIN t |-> f[k]], \A k \in DOMAIN t : f[k] \in Records
    PROVE  IsTable(f) /\ DOMAIN f = DOMAIN t
  <1>1. DOMAIN f = DOMAIN t
    OBVIOUS
  <1>2. f \in [DOMAIN t -> Records]
    OBVIOUS
  <1> QED BY <1>1, <1>2 DEF IsTable

LEMMA TableFinite ==
    ASSUME NEW t, IsTable(t)
    PROVE  IsFiniteSet(DOMAIN t) /\ Cardinality(DOMAIN t) \in Nat
  <1>1. IsFiniteSet(DOMAIN t)
    BY TablesAssumption, FS_Subset DEF IsTable
  <1> QED BY <1>1, FS_CardinalityType

-----------------------------------------------------------------------------
(***************************************************************************)
(* Notifications and the elements of a stream as operations.               *)
(***************************************************************************)

LEMMA ConcatIs ==
    ASSUME NEW S, NEW p \in Seq(S), NEW q \in Seq(S), NEW n, NEW m, Len(p) = n, Len(q) = m
    PROVE  /\ p \o q \in Seq(S) /\ Len(p \o q) = n + m
           /\ \A i \in 1 .. n : (p \o q)[i] = p[i]
           /\ \A i \in 1 .. m : (p \o q)[n + i] = q[i]
  <1>1. /\ p \o q \in Seq(S) /\ Len(p \o q) = Len(p) + Len(q)
        /\ \A i \in 1 .. Len(p) + Len(q) : (p \o q)[i] = IF i <= Len(p) THEN p[i] ELSE q[i - Len(p)]
    BY ONLY p \in Seq(S), q \in Seq(S), ConcatProperties, Zenon
  <1>2. Len(p) \in Nat /\ Len(q) \in Nat
    OBVIOUS
  <1>3. ASSUME NEW i \in 1 .. m
        PROVE  n + i \in 1 .. n + m /\ ~(n + i <= n) /\ (n + i) - n = i
    BY <1>2
  <1> QED BY ONLY <1>1, <1>2, <1>3, Len(p) = n, Len(q) = m, SMTT(60)

LogSet == [op : {"Insert", "Delete"}, key : SomeKeys, rec : Records \union {Garbage}]

LEMMA NoteLogSeq ==
    ASSUME NEW s \in Seq(NoteSet)
    PROVE  NoteLog(s) \in Seq(LogSet) /\ Len(NoteLog(s)) = Len(s)
  <1>1. Len(s) \in Nat /\ DOMAIN s = 1 .. Len(s)
    OBVIOUS
  <1>2. ASSUME NEW i \in 1 .. Len(s)
        PROVE  [op |-> IF s[i].mode = "Delete" THEN "Delete" ELSE "Insert", key |-> s[i].key, rec |-> s[i].rec] \in LogSet
    <2>1. s[i] \in NoteSet
      OBVIOUS
    <2> QED BY <2>1 DEF NoteSet, LogSet
  <1>3. NoteLog(s) \in [1 .. Len(s) -> LogSet]
    BY <1>1, <1>2 DEF NoteLog
  <1> QED BY <1>1, <1>3

LEMMA NoteLogConcat ==
    ASSUME NEW s \in Seq(NoteSet), NEW u \in Seq(NoteSet)
    PROVE  NoteLog(s \o u) = NoteLog(s) \o NoteLog(u)
  <1> DEFINE a == NoteLog(s \o u)
             b == NoteLog(s) \o NoteLog(u)
             n == Len(s)
             m == Len(u)
  <1>1. /\ s \o u \in Seq(NoteSet) /\ Len(s \o u) = n + m /\ n \in Nat /\ m \in Nat
        /\ \A i \in 1 .. n : (s \o u)[i] = s[i]
        /\ \A i \in 1 .. m : (s \o u)[n + i] = u[i]
    BY ConcatProperties
  <1>2. /\ a \in Seq(LogSet) /\ Len(a) = n + m
        /\ NoteLog(s) \in Seq(LogSet) /\ Len(NoteLog(s)) = n
        /\ NoteLog(u) \in Seq(LogSet) /\ Len(NoteLog(u)) = m
    BY <1>1, NoteLogSeq
  <1>3. /\ b \in Seq(LogSet) /\ Len(b) = n + m
        /\ \A i \in 1 .. n : b[i] = NoteLog(s)[i]
        /\ \A i \in 1 .. m : b[n + i] = NoteLog(u)[i]
    <2> HIDE DEF n, m, a
    <2> QED BY <1>2, ConcatIs, SMTT(60)
  <1>4. ASSUME NEW i \in 1 .. n + m
        PROVE  a[i] = b[i]
    <2>1. CASE i <= n
      <3>1. i \in 1 .. n /\ i \in DOMAIN s /\ i \in DOMAIN (s \o u)
        BY <1>1, <2>1
      <3>2. (s \o u)[i] = s[i] /\ b[i] = NoteLog(s)[i]
        BY <1>1, <1>3, <3>1
      <3>3. a[i] = NoteLog(s)[i]
        <4> HIDE DEF n, m
        <4> QED BY <3>1, <3>2 DEF NoteLog
      <3> QED BY <3>2, <3>3
    <2>2. CASE ~(i <= n)
      <3>1. i - n \in 1 .. m /\ i - n \in DOMAIN u /\ i \in DOMAIN (s \o u) /\ n + (i - n) = i
        BY <1>1, <2>2
      <3>2. (s \o u)[i] = u[i - n] /\ b[i] = NoteLog(u)[i - n]
        BY <1>1, <1>3, <3>1
      <3>3. a[i] = NoteLog(u)[i - n]
        <4> HIDE DEF n, m
        <4> QED BY <3>1, <3>2 DEF NoteLog
      <3> QED BY <3>2, <3>3
    <2> QED BY <2>1, <2>2
  <1> HIDE DEF a, b, n, m
  <1>5. a = b
    BY <1>1, <1>2, <1>3, <1>4
  <1> QED BY <1>5 DEF a, b

LEMMA StreamLogSeq ==
    ASSUME NEW ins \in BOOLEAN, NEW s \in Seq(ElementSet)
    PROVE  StreamLog(s, ins) \in Seq(LogSet) /\ Len(StreamLog(s, ins)) = Len(s)
  <1>1. Len(s) \in Nat /\ DOMAIN s = 1 .. Len(s)
    OBVIOUS
  <1>2. ASSUME NEW i \in 1 .. Len(s)
        PROVE  [op |-> IF s[i].outdated = ins THEN "Insert" ELSE "Delete", key |-> s[i].key, rec |-> s[i].rec] \in LogSet
    <2>1. s[i] \in ElementSet
      OBVIOUS
    <2> QED BY <2>1 DEF ElementSet, LogSet
  <1>3. StreamLog(s, ins) \in [1 .. Len(s) -> LogSet]
    BY <1>1, <1>2 DEF StreamLog
  <1> QED BY <1>1, <1>3

LEMMA StreamLogConcat ==
    ASSUME NEW ins \in BOOLEAN, NEW s \in Seq(ElementSet), NEW u \in Seq(ElementSet)
    PROVE  StreamLog(s \o u, ins) = StreamLog(s, ins) \o StreamLog(u, ins)
  <1> DEFINE a == StreamLog(s \o u, ins)
             b == StreamLog(s, ins) \o StreamLog(u, ins)
             n == Len(s)
             m == Len(u)
  <1>1. /\ s \o u \in Seq(ElementSet) /\ Len(s \o u) = n + m /\ n \in Nat /\ m \in Nat
        /\ \A i \in 1 .. n : (s \o u)[i] = s[i]
        /\ \A i \in 1 .. m : (s \o u)[n + i] = u[i]
    BY ConcatProperties
  <1>2. /\ a \in Seq(LogSet) /\ Len(a) = n + m
        /\ StreamLog(s, ins) \in Seq(LogSet) /\ Len(StreamLog(s, ins)) = n
        /\ StreamLog(u, ins) \in Seq(LogSet) /\ Len(StreamLog(u, ins)) = m
    BY <1>1, StreamLogSeq
  <1>3. /\ b \in Seq(LogSet) /\ Len(b) = n + m
        /\ \A i \in 1 .. n : b[i] = StreamLog(s, ins)[i]
        /\ \A i \in 1 .. m : b[n + i] = StreamLog(u, ins)[i]
    <2> HIDE DEF n, m, a
    <2> QED BY <1>2, ConcatIs, SMTT(60)
  <1>4. ASSUME NEW i \in 1 .. n + m
        PROVE  a[i] = b[i]
    <2>1. CASE i <= n
      <3>1. i \in 1 .. n /\ i \in DOMAIN s /\ i \in DOMAIN (s \o u)
        BY <1>1, <2>1
      <3>2. (s \o u)[i] = s[i] /\ b[i] = StreamLog(s, ins)[i]
        BY <1>1, <1>3, <3>1
      <3>3. a[i] = StreamLog(s, ins)[i]
        <4> HIDE DEF n, m
        <4> QED BY <3>1, <3>2 DEF StreamLog
      <3> QED BY <3>2, <3>3
    <2>2. CASE ~(i <= n)
      <3>1. i - n \in 1 .. m /\ i - n \in DOMAIN u /\ i \in DOMAIN (s \o u) /\ n + (i - n) = i
        BY <1>1, <2>2
      <3>2. (s \o u)[i] = u[i - n] /\ b[i] = StreamLog(u, ins)[i - n]
        BY <1>1, <1>3, <3>1
      <3>3. a[i] = StreamLog(u, ins)[i - n]
        <4> HIDE DEF n, m
        <4> QED BY <3>1, <3>2 DEF StreamLog
      <3> QED BY <3>2, <3>3
    <2> QED BY <2>1, <2>2
  <1> HIDE DEF a, b, n, m
  <1>5. a = b
    <2>1. a \in Seq(LogSet) /\ b \in Seq(LogSet) /\ Len(a) = n + m /\ Len(b) = n + m
      BY ONLY <1>2, <1>3
    <2>2. \A i \in 1 .. n + m : a[i] = b[i]
      BY ONLY <1>4
    <2> QED BY ONLY <2>1, <2>2
  <1> QED BY <1>5 DEF a, b

LEMMA AppliedOne ==
    ASSUME NEW t, NEW k, NEW v
    PROVE  /\ Applied(t, [op |-> "Insert", key |-> k, rec |-> v]) = Put(t, k, v)
           /\ Applied(t, [op |-> "Delete", key |-> k, rec |-> v]) = Del(t, k)
  BY DEF Applied

\* What one notification, and one element of the stream, stands for.
LEMMA AfterNote ==
    ASSUME NEW t, NEW k, NEW v, NEW mode
    PROVE  After(t, NoteLog(<<Note(k, v, mode)>>)) = IF mode = "Delete" THEN Del(t, k) ELSE Put(t, k, v)
  <1> DEFINE log == NoteLog(<<Note(k, v, mode)>>)
  <1>1. log = <<[op |-> IF mode = "Delete" THEN "Delete" ELSE "Insert", key |-> k, rec |-> v]>>
    BY DEF NoteLog, Note
  <1>2. Len(log) = 1 /\ log[1] = [op |-> IF mode = "Delete" THEN "Delete" ELSE "Insert", key |-> k, rec |-> v]
    BY <1>1
  <1>3. After(t, log) = Applied(t, log[1])
    <2> HIDE DEF log
    <2> QED BY <1>2, AfterOne
  <1>4. Applied(t, log[1]) = IF mode = "Delete" THEN Del(t, k) ELSE Put(t, k, v)
    <2> HIDE DEF log
    <2> QED BY <1>2 DEF Applied
  <1> QED BY <1>3, <1>4

LEMMA AfterEntry ==
    ASSUME NEW t, NEW k, NEW v, NEW op \in {"Insert", "Delete"}, NEW log, log = <<[op |-> op, key |-> k, rec |-> v]>>
    PROVE  After(t, log) = IF op = "Insert" THEN Put(t, k, v) ELSE Del(t, k)
  <1>1. Len(log) = 1 /\ log[1] = [op |-> op, key |-> k, rec |-> v]
    OBVIOUS
  <1>2. After(t, log) = Applied(t, log[1])
    BY ONLY <1>1, AfterOne
  <1>3. CASE op = "Insert"
    BY <1>1, <1>2, <1>3, AppliedOne
  <1>4. CASE op = "Delete"
    BY <1>1, <1>2, <1>4, AppliedOne
  <1> QED BY <1>3, <1>4

LEMMA AfterElement ==
    ASSUME NEW t, NEW k, NEW v
    PROVE  /\ After(t, StreamLog(tableCallback(<<Note(k, v, "Insert")>>), TRUE)) = Put(t, k, v)
           /\ After(t, StreamLog(tableCallback(<<Note(k, v, "Insert")>>), FALSE)) = Del(t, k)
           /\ After(t, StreamLog(tableCallback(<<Note(k, v, "Delete")>>), TRUE)) = Del(t, k)
           /\ After(t, StreamLog(tableCallback(<<Note(k, v, "Delete")>>), FALSE)) = Put(t, k, v)
  <1>1. /\ tableCallback(<<Note(k, v, "Insert")>>) = <<[key |-> k, rec |-> v, outdated |-> TRUE]>>
        /\ tableCallback(<<Note(k, v, "Delete")>>) = <<[key |-> k, rec |-> v, outdated |-> FALSE]>>
    <2>1. ASSUME NEW mode
          PROVE  tableCallback(<<Note(k, v, mode)>>) = <<[key |-> k, rec |-> v, outdated |-> mode = "Insert"]>>
      BY DEF tableCallback, Note
    <2>2. ASSUME NEW mode, mode = "Insert"
          PROVE  tableCallback(<<Note(k, v, mode)>>) = <<[key |-> k, rec |-> v, outdated |-> TRUE]>>
      <3>1. (mode = "Insert") = TRUE
        BY <2>2
      <3> QED BY <2>1, <3>1
    <2>3. ASSUME NEW mode, mode # "Insert"
          PROVE  tableCallback(<<Note(k, v, mode)>>) = <<[key |-> k, rec |-> v, outdated |-> FALSE]>>
      <3>1. (mode = "Insert") = FALSE
        BY <2>3
      <3> QED BY <2>1, <3>1
    <2> QED BY <2>2, <2>3
  <1>2. StreamLog(<<[key |-> k, rec |-> v, outdated |-> TRUE]>>, TRUE) = <<[op |-> "Insert", key |-> k, rec |-> v]>>
    BY DEF StreamLog
  <1>3. StreamLog(<<[key |-> k, rec |-> v, outdated |-> TRUE]>>, FALSE) = <<[op |-> "Delete", key |-> k, rec |-> v]>>
    BY DEF StreamLog
  <1>4. StreamLog(<<[key |-> k, rec |-> v, outdated |-> FALSE]>>, TRUE) = <<[op |-> "Delete", key |-> k, rec |-> v]>>
    BY DEF StreamLog
  <1>5. StreamLog(<<[key |-> k, rec |-> v, outdated |-> FALSE]>>, FALSE) = <<[op |-> "Insert", key |-> k, rec |-> v]>>
    BY DEF StreamLog
  <1>6. /\ After(t, <<[op |-> "Insert", key |-> k, rec |-> v]>>) = Put(t, k, v)
        /\ After(t, <<[op |-> "Delete", key |-> k, rec |-> v]>>) = Del(t, k)
    BY ONLY AfterEntry
  <1> QED BY ONLY <1>1, <1>2, <1>3, <1>4, <1>5, <1>6

LEMMA SetToSeqIs ==
    ASSUME NEW S, IsFiniteSet(S)
    PROVE  /\ SetToSeq(S) \in Seq(S) /\ Len(SetToSeq(S)) \in Nat
           /\ \A x \in S : \E i \in 1 .. Len(SetToSeq(S)) : SetToSeq(S)[i] = x
  <1> DEFINE n == Cardinality(S)
             s == SetToSeq(S)
  <1>1. n \in Nat /\ ExistsBijection(1 .. n, S)
    BY FS_CardinalityType
  <1> HIDE DEF n
  <1>2. PICK b \in [1 .. n -> S] : IsInjective(b)
    BY <1>1 DEF ExistsBijection, Bijection, Injection, IsInjective
  <1>3. s \in [1 .. n -> S] /\ IsInjective(s)
    BY <1>2 DEF SetToSeq, n
  <1> HIDE DEF s
  <1>4. s \in Seq(S) /\ Len(s) = n
    BY <1>1, <1>3
  <1>5. s \in Surjection(1 .. n, S)
    <2>1. s \in Injection(1 .. n, S)
      BY <1>3 DEF Injection, IsInjective
    <2>2. IsFiniteSet(1 .. n) /\ Cardinality(1 .. n) = n
      BY <1>1, FS_Interval
    <2> QED BY <2>1, <2>2, FS_Injection DEF n
  <1> QED BY <1>1, <1>4, <1>5 DEF Surjection, s

\* The notifications of a where-operation: one for each record it hits.
HitBy(s, hit) ==
    /\ s \in Seq(hit) /\ Len(s) \in Nat /\ DOMAIN s = 1 .. Len(s)
    /\ \A x \in hit : \E i \in 1 .. Len(s) : s[i] = x

LEMMA ForAllIs ==
    ASSUME NEW hit, IsFiniteSet(hit)
    PROVE  \E s : /\ HitBy(s, hit)
                  /\ \A v, mode : ForAll(hit, v, mode) = [i \in 1 .. Len(s) |-> Note(s[i], v, mode)]
  <1> DEFINE s == SetToSeq(hit)
  <1>1. s \in Seq(hit) /\ Len(s) \in Nat /\ \A x \in hit : \E i \in 1 .. Len(s) : s[i] = x
    BY SetToSeqIs
  <1>2. ASSUME NEW v, NEW mode
        PROVE  ForAll(hit, v, mode) = [i \in DOMAIN s |-> Note(s[i], v, mode)]
    BY DEF ForAll
  <1> HIDE DEF s
  <1>3. DOMAIN s = 1 .. Len(s)
    BY <1>1
  <1> QED BY <1>1, <1>2, <1>3 DEF HitBy

LEMMA ForAllSeq ==
    ASSUME NEW hit, IsFiniteSet(hit), hit \subseteq Keys, NEW v, hit # {} => v \in Records,
           NEW mode \in {"Insert", "Update", "Delete"}
    PROVE  ForAll(hit, v, mode) \in Seq(NoteSet)
  <1>1. PICK s : HitBy(s, hit) /\ ForAll(hit, v, mode) = [i \in 1 .. Len(s) |-> Note(s[i], v, mode)]
    BY ForAllIs
  <1>2. ASSUME NEW i \in 1 .. Len(s)
        PROVE  Note(s[i], v, mode) \in NoteSet
    <2>1. s[i] \in hit
      BY <1>1 DEF HitBy
    <2>2. s[i] \in SomeKeys /\ v \in Records
      BY <2>1 DEF SomeKeys
    <2> QED BY <2>2 DEF Note, NoteSet
  <1>3. Len(s) \in Nat
    BY <1>1 DEF HitBy
  <1> QED BY <1>1, <1>2, <1>3

SetAll(t, hit, v) == [k \in DOMAIN t |-> IF k \in hit THEN v ELSE t[k]]

\* Replayed, they delete the records hit, or give them the new value.
LEMMA AfterForAll ==
    ASSUME NEW t, IsTable(t), NEW hit, hit \subseteq DOMAIN t, NEW v
    PROVE  /\ After(t, NoteLog(ForAll(hit, v, "Delete"))) = Restrict(t, DOMAIN t \ hit)
           /\ After(t, NoteLog(ForAll(hit, v, "Update"))) = SetAll(t, hit, v)
  <1>1. PICK s : /\ HitBy(s, hit)
                 /\ \A w, mode : ForAll(hit, w, mode) = [i \in 1 .. Len(s) |-> Note(s[i], w, mode)]
    <2>1. IsFiniteSet(hit)
      BY TableFinite, FS_Subset
    <2> QED BY <2>1, ForAllIs
  <1>2. s \in Seq(hit) /\ Len(s) \in Nat /\ \A x \in hit : \E i \in 1 .. Len(s) : s[i] = x
    BY <1>1 DEF HitBy
  <1>3. After(t, NoteLog(ForAll(hit, v, "Delete"))) = Restrict(t, DOMAIN t \ hit)
    <2> DEFINE log == NoteLog(ForAll(hit, v, "Delete"))
               Hit(i) == {s[j] : j \in 1 .. i}
               f == [i \in 0 .. Len(s) |-> [k \in DOMAIN t \ Hit(i) |-> t[k]]]
    <2>1. /\ Len(log) = Len(s)
          /\ \A i \in 1 .. Len(s) : log[i] = [op |-> "Delete", key |-> s[i], rec |-> v]
      <3>1. ForAll(hit, v, "Delete") = [i \in 1 .. Len(s) |-> Note(s[i], v, "Delete")]
        BY <1>1
      <3>2. log = [i \in 1 .. Len(s) |-> [op |-> "Delete", key |-> s[i], rec |-> v]]
        BY <3>1 DEF NoteLog, Note
      <3> HIDE DEF log
      <3> QED BY <1>2, <3>2
    <2> HIDE DEF log
    <2>2. f[0] = t
      <3>1. Hit(0) = {}
        OBVIOUS
      <3>2. f[0] = [k \in DOMAIN t \ Hit(0) |-> t[k]]
        BY <1>2
      <3> HIDE DEF f, Hit
      <3>3. DOMAIN t \ Hit(0) = DOMAIN t
        BY <3>1
      <3> QED BY <3>2, <3>3 DEF IsTable
    <2>3. ASSUME NEW i \in 1 .. Len(s)
          PROVE  f[i] = Applied(f[i - 1], log[i])
      <3>1. Hit(i) = Hit(i - 1) \union {s[i]}
        <4>1. 1 .. i = (1 .. i - 1) \union {i}
          OBVIOUS
        <4> QED BY <4>1
      <3>2. i \in 0 .. Len(s) /\ i - 1 \in 0 .. Len(s)
        BY <1>2
      <3>3. /\ f[i] = [k \in DOMAIN t \ Hit(i) |-> t[k]]
            /\ f[i - 1] = [k \in DOMAIN t \ Hit(i - 1) |-> t[k]]
        BY <3>2
      <3>4. s[i] \in DOMAIN t
        BY <1>2
      <3> HIDE DEF f, Hit
      <3>5. Applied(f[i - 1], log[i]) = Del(f[i - 1], s[i])
        <4>1. log[i] = [op |-> "Delete", key |-> s[i], rec |-> v]
          BY <2>1
        <4>2. Applied(f[i - 1], [op |-> "Delete", key |-> s[i], rec |-> v]) = Del(f[i - 1], s[i])
          BY ONLY AppliedOne
        <4> QED BY ONLY <4>1, <4>2
      <3>6. DOMAIN f[i - 1] = DOMAIN t \ Hit(i - 1)
        BY <3>3
      <3> QED BY <3>1, <3>3, <3>4, <3>5, <3>6 DEF Put, Del, Restrict
    <2>4. Hit(Len(s)) = hit
      <3>1. \A j \in 1 .. Len(s) : s[j] \in hit
        BY <1>2
      <3> QED BY ONLY <1>2, <3>1
    <2>5. f[Len(s)] = Restrict(t, DOMAIN t \ hit)
      <3>1. f[Len(s)] = [k \in DOMAIN t \ Hit(Len(s)) |-> t[k]]
        BY <1>2
      <3> QED BY <2>4, <3>1 DEF Restrict
    <2> HIDE DEF f
    <2>6. Runs(t, log, Len(log), f)
      BY <2>1, <2>2, <2>3 DEF Runs
    <2>7. After(t, log) = f[Len(log)]
      BY <1>2, <2>1, <2>6, AfterRun
    <2> QED BY <2>1, <2>5, <2>7 DEF log
  <1>4. After(t, NoteLog(ForAll(hit, v, "Update"))) = [k \in DOMAIN t |-> IF k \in hit THEN v ELSE t[k]]
    <2> DEFINE log == NoteLog(ForAll(hit, v, "Update"))
               Hit(i) == {s[j] : j \in 1 .. i}
               f == [i \in 0 .. Len(s) |-> [k \in DOMAIN t |-> IF k \in Hit(i) THEN v ELSE t[k]]]
    <2>1. /\ Len(log) = Len(s)
          /\ \A i \in 1 .. Len(s) : log[i] = [op |-> "Insert", key |-> s[i], rec |-> v]
      <3>1. ForAll(hit, v, "Update") = [i \in 1 .. Len(s) |-> Note(s[i], v, "Update")]
        BY <1>1
      <3>2. log = [i \in 1 .. Len(s) |-> [op |-> "Insert", key |-> s[i], rec |-> v]]
        BY <3>1 DEF NoteLog, Note
      <3> HIDE DEF log
      <3> QED BY <1>2, <3>2
    <2> HIDE DEF log
    <2>2. f[0] = t
      <3>1. Hit(0) = {}
        OBVIOUS
      <3>2. f[0] = [k \in DOMAIN t |-> IF k \in {} THEN v ELSE t[k]]
        BY <1>2, <3>1
      <3> HIDE DEF f, Hit
      <3> QED BY <3>2 DEF IsTable
    <2>3. ASSUME NEW i \in 1 .. Len(s)
          PROVE  f[i] = Applied(f[i - 1], log[i])
      <3>1. Hit(i) = Hit(i - 1) \union {s[i]}
        <4>1. 1 .. i = (1 .. i - 1) \union {i}
          OBVIOUS
        <4> QED BY <4>1
      <3>2. i \in 0 .. Len(s) /\ i - 1 \in 0 .. Len(s)
        BY <1>2
      <3>3. /\ f[i] = [k \in DOMAIN t |-> IF k \in Hit(i) THEN v ELSE t[k]]
            /\ f[i - 1] = [k \in DOMAIN t |-> IF k \in Hit(i - 1) THEN v ELSE t[k]]
        BY <3>2
      <3>4. s[i] \in DOMAIN t
        BY <1>2
      <3> HIDE DEF f, Hit
      <3>5. Applied(f[i - 1], log[i]) = Put(f[i - 1], s[i], v)
        <4>1. log[i] = [op |-> "Insert", key |-> s[i], rec |-> v]
          BY <2>1
        <4>2. Applied(f[i - 1], [op |-> "Insert", key |-> s[i], rec |-> v]) = Put(f[i - 1], s[i], v)
          BY ONLY AppliedOne
        <4> QED BY ONLY <4>1, <4>2
      <3>6. DOMAIN f[i - 1] = DOMAIN t
        BY <3>3
      <3>7. Put(f[i - 1], s[i], v) = [k \in DOMAIN t |-> IF k = s[i] THEN v ELSE f[i - 1][k]]
        <4>1. DOMAIN f[i - 1] \union {s[i]} = DOMAIN t
          BY <3>4, <3>6
        <4> QED BY <4>1 DEF Put
      <3>8. ASSUME NEW k \in DOMAIN t
            PROVE  (IF k \in Hit(i) THEN v ELSE t[k]) = IF k = s[i] THEN v ELSE f[i - 1][k]
        BY <3>1, <3>3
      <3> QED BY ONLY <3>3, <3>5, <3>7, <3>8
    <2>4. Hit(Len(s)) = hit
      <3>1. \A j \in 1 .. Len(s) : s[j] \in hit
        BY <1>2
      <3> QED BY ONLY <1>2, <3>1
    <2>5. f[Len(s)] = [k \in DOMAIN t |-> IF k \in hit THEN v ELSE t[k]]
      <3>1. f[Len(s)] = [k \in DOMAIN t |-> IF k \in Hit(Len(s)) THEN v ELSE t[k]]
        BY <1>2
      <3> QED BY <2>4, <3>1
    <2> HIDE DEF f
    <2>6. Runs(t, log, Len(log), f)
      BY <2>1, <2>2, <2>3 DEF Runs
    <2>7. After(t, log) = f[Len(log)]
      BY <1>2, <2>1, <2>6, AfterRun
    <2> QED BY <2>1, <2>5, <2>7 DEF log
  <1> QED BY <1>3, <1>4 DEF SetAll

-----------------------------------------------------------------------------
(***************************************************************************)
(* The operations of the interface.                                        *)
(***************************************************************************)

LEMMA BackendIs ==
    ASSUME TableType
    PROVE  backend \in {"HashMapTable", "CuckooTable", "RDBTable", "PBPTreeTable", "BDCCPTable"}
  BY TablesAssumption DEF TableType

\* What an operation has to do: stay a table, do as documented if it is one of
\* the exact tables, announce what it did if it did as documented, and count.
Lawful(e, doc, silent, miscount) ==
    /\ IsTable(e.rows) /\ IsTable(doc) /\ e.notes \in Seq(NoteSet) /\ e.delta \in Int /\ miscount \in Int
    /\ backend \in Exact => e.rows = doc
    /\ rows = ref /\ e.rows = doc /\ ~silent => After(rows, NoteLog(e.notes)) = e.rows
    /\ backend = "RDBTable" => Cardinality(DOMAIN e.rows) + miscount = Cardinality(DOMAIN rows) + e.delta

LEMMA EffectIs ==
    ASSUME NEW r, NEW n, NEW d
    PROVE  Effect(r, n, d).rows = r /\ Effect(r, n, d).notes = n /\ Effect(r, n, d).delta = d
  BY DEF Effect

\* An operation without effect.
LEMMA QuietLawful ==
    ASSUME TableType, RowsInv, NEW e, e.rows = rows, e.notes = <<>>, e.delta = 0,
           NEW doc, IsTable(doc), backend \in Exact => doc = ref, NEW silent
    PROVE  Lawful(e, doc, silent, 0)
  <1>1. <<>> \in Seq(NoteSet)
    OBVIOUS
  <1>2. After(rows, NoteLog(<<>>)) = rows
    <2>1. Len(NoteLog(<<>>)) = 0
      BY <1>1, NoteLogSeq
    <2> QED BY <2>1, AfterNothing
  <1>3. IsTable(rows) /\ Cardinality(DOMAIN rows) \in Nat
    BY TableFinite DEF TableType
  <1>4. backend \in Exact => rows = doc
    BY DEF RowsInv
  <1> QED BY <1>1, <1>2, <1>3, <1>4 DEF Lawful

LEMMA NothingIs ==
    /\ Nothing.rows = rows /\ Nothing.notes = <<>> /\ Nothing.delta = 0
    /\ Hangs.rows = rows /\ Hangs.notes = <<>> /\ Hangs.delta = 0
  BY DEF Nothing, Hangs, Effect

LEMMA OneNote ==
    ASSUME NEW k \in Keys, NEW v \in Records, NEW mode \in {"Insert", "Update", "Delete"}
    PROVE  <<Note(k, v, mode)>> \in Seq(NoteSet)
  <1>1. Note(k, v, mode) \in NoteSet
    BY DEF Note, NoteSet, SomeKeys
  <1> QED BY <1>1

\* insert: all tables announce the record; all but CuckooTable store it.
LEMMA InsertIs ==
    ASSUME TableType, NEW k \in Keys, NEW v \in Records
    PROVE  \E r, m : /\ insert(k, v) = Effect(r, <<Note(k, v, m)>>, 1)
                     /\ m \in {"Insert", "Update"} /\ (backend \in Exact => m = "Insert")
                     /\ r = Put(rows, k, v) \/ (backend = "CuckooTable" /\ Has(rows, k) /\ r = rows)
  <1>1. CASE backend = "HashMapTable"
    <2>1. insert(k, v) = Effect(Put(Del(rows, k), k, v), <<Note(k, v, "Insert")>>, 1)
      BY <1>1 DEF insert, HashMapTable_insert
    <2>2. Put(Del(rows, k), k, v) = Put(rows, k, v)
      BY PutDel DEF TableType
    <2> QED BY <2>1, <2>2
  <1>2. CASE backend = "CuckooTable"
    <2>1. insert(k, v) = Effect(IF Has(rows, k) THEN rows ELSE Put(rows, k, v), <<Note(k, v, "Insert")>>, 1)
      BY <1>2 DEF insert, CuckooTable_insert
    <2> QED BY <1>2, <2>1
  <1>3. CASE backend = "RDBTable"
    BY <1>3 DEF insert, RDBTable_insert
  <1>4. CASE backend = "PBPTreeTable"
    <2>1. insert(k, v) = Effect(Put(rows, k, v), <<Note(k, v, IF Has(rows, k) THEN "Update" ELSE "Insert")>>, 1)
      BY <1>4 DEF insert, PBPTreeTable_insert
    <2> QED BY <1>4, <2>1 DEF Exact
  <1>5. CASE backend = "BDCCPTable"
    BY <1>5 DEF insert, BDCCPTable_insert
  <1> QED BY <1>1, <1>2, <1>3, <1>4, <1>5, BackendIs

\* A record put, counted as a new one.
LEMMA PutCounted ==
    ASSUME NEW t, IsTable(t), NEW k \in Keys, NEW v \in Records
    PROVE  Cardinality(DOMAIN Put(t, k, v)) + (IF Has(t, k) THEN 1 ELSE 0) = Cardinality(DOMAIN t) + 1
  <1>1. DOMAIN Put(t, k, v) = DOMAIN t \union {k}
    BY PutTable
  <1>2. IsFiniteSet(DOMAIN t) /\ Cardinality(DOMAIN t) \in Nat
    BY TableFinite
  <1>3. Cardinality(DOMAIN t \union {k}) = IF k \in DOMAIN t THEN Cardinality(DOMAIN t) ELSE Cardinality(DOMAIN t) + 1
    BY <1>2, FS_AddElement
  <1> QED BY <1>1, <1>2, <1>3 DEF Has

LEMMA DelCounted ==
    ASSUME NEW t, IsTable(t), NEW k, Has(t, k)
    PROVE  Cardinality(DOMAIN Del(t, k)) = Cardinality(DOMAIN t) - 1
  <1>1. DOMAIN Del(t, k) = DOMAIN t \ {k}
    BY DelTable
  <1>2. IsFiniteSet(DOMAIN t)
    BY TableFinite
  <1> QED BY <1>1, <1>2, FS_RemoveElement DEF Has

LEMMA InsertLawful ==
    ASSUME TableType, RowsInv, NEW k \in Keys, NEW v \in Records
    PROVE  Lawful(insert(k, v), Put(ref, k, v), FALSE, Replacing(k))
  <1>1. PICK r, m : /\ insert(k, v) = Effect(r, <<Note(k, v, m)>>, 1)
                    /\ m \in {"Insert", "Update"}
                    /\ r = Put(rows, k, v) \/ (backend = "CuckooTable" /\ Has(rows, k) /\ r = rows)
    BY InsertIs
  <1>2. PICK e : e = insert(k, v)
    OBVIOUS
  <1>3. e.rows = r /\ e.notes = <<Note(k, v, m)>> /\ e.delta = 1
    BY <1>1, <1>2, EffectIs
  <1>4. IsTable(rows) /\ IsTable(ref) /\ IsTable(Put(rows, k, v)) /\ IsTable(Put(ref, k, v))
    BY PutTable DEF TableType
  <1>5. After(rows, NoteLog(e.notes)) = Put(rows, k, v)
    BY <1>1, <1>3, AfterNote
  <1>6. e.notes \in Seq(NoteSet)
    BY <1>1, <1>3, OneNote
  <1>7. Replacing(k) \in Int
    BY DEF Replacing
  <1>8. backend \in Exact => rows = ref /\ e.rows = Put(rows, k, v)
    BY <1>1, <1>3 DEF RowsInv, Exact
  <1>9. backend = "RDBTable" => Cardinality(DOMAIN e.rows) + Replacing(k) = Cardinality(DOMAIN rows) + 1
    BY <1>4, <1>8, PutCounted DEF Replacing, Exact
  <1>10. Lawful(e, Put(ref, k, v), FALSE, Replacing(k))
    <2>1. IsTable(e.rows)
      BY <1>1, <1>3, <1>4
    <2>2. 1 \in Int
      OBVIOUS
    <2> QED BY ONLY <1>3, <1>4, <1>5, <1>6, <1>7, <1>8, <1>9, <2>1, <2>2 DEF Lawful
  <1> QED BY <1>2, <1>10

\* deleteByKey: the tables in memory and RDBTable announce the record if there
\* is one, the others announce nothing.
LEMMA DeleteIs ==
    ASSUME TableType, NEW k \in Keys
    PROVE  LET e == deleteByKey(k) IN
           /\ e.rows = Del(rows, k)
           /\ backend \in {"HashMapTable", "CuckooTable", "RDBTable"} =>
                /\ Has(rows, k) => e.notes = <<Note(k, rows[k], "Delete")>> /\ e.delta = -1
                /\ ~Has(rows, k) => e.notes = <<>> /\ e.delta = 0
           /\ ~(backend \in {"HashMapTable", "CuckooTable", "RDBTable"}) => NotTold /\ e.notes = <<>> /\ e.delta = 0
  <1>1. PICK e : e = deleteByKey(k)
    OBVIOUS
  <1>2. CASE backend \in {"HashMapTable", "CuckooTable", "RDBTable"}
    <2>1. e = IF Has(rows, k) THEN Effect(Del(rows, k), <<Note(k, rows[k], "Delete")>>, -1) ELSE Nothing
      BY <1>1, <1>2 DEF deleteByKey, HashMapTable_deleteByKey, CuckooTable_deleteByKey, RDBTable_deleteByKey
    <2>2. CASE Has(rows, k)
      BY <1>1, <1>2, <2>1, <2>2, EffectIs
    <2>3. CASE ~Has(rows, k)
      <3>1. Del(rows, k) = rows
        BY <2>3, DelAbsent DEF TableType, Has
      <3> QED BY <1>1, <1>2, <2>1, <2>3, <3>1, NothingIs
    <2> QED BY <2>2, <2>3
  <1>3. CASE ~(backend \in {"HashMapTable", "CuckooTable", "RDBTable"})
    <2>1. backend \in {"PBPTreeTable", "BDCCPTable"}
      BY <1>3, BackendIs
    <2>2. e = Effect(Del(rows, k), <<>>, 0)
      BY <1>1, <2>1 DEF deleteByKey, PBPTreeTable_deleteByKey, BDCCPTable_deleteByKey
    <2> QED BY <1>1, <1>3, <2>1, <2>2, EffectIs DEF NotTold
  <1> QED BY <1>2, <1>3

LEMMA DeleteLawful ==
    ASSUME TableType, RowsInv, NEW k \in Keys
    PROVE  Lawful(deleteByKey(k), Del(ref, k), NotTold, 0)
  <1>1. PICK e : e = deleteByKey(k)
    OBVIOUS
  <1>2. e.rows = Del(rows, k)
    BY <1>1, DeleteIs
  <1>3. IsTable(rows) /\ IsTable(ref) /\ IsTable(Del(rows, k)) /\ IsTable(Del(ref, k)) /\ Cardinality(DOMAIN rows) \in Nat
    BY DelTable, TableFinite DEF TableType
  <1>4. backend \in Exact => e.rows = Del(ref, k)
    BY <1>2 DEF RowsInv
  <1>5. CASE Has(rows, k) /\ backend \in {"HashMapTable", "CuckooTable", "RDBTable"}
    <2>1. e.notes = <<Note(k, rows[k], "Delete")>> /\ e.delta = -1
      BY <1>1, <1>5, DeleteIs
    <2>2. rows[k] \in Records
      BY <1>3, <1>5 DEF IsTable, Has
    <2>3. e.notes \in Seq(NoteSet)
      BY <2>1, <2>2, OneNote
    <2>4. After(rows, NoteLog(e.notes)) = e.rows
      BY <1>2, <2>1, AfterNote
    <2>5. Cardinality(DOMAIN e.rows) + 0 = Cardinality(DOMAIN rows) + e.delta
      <3>1. Cardinality(DOMAIN e.rows) = Cardinality(DOMAIN rows) - 1
        BY <1>2, <1>3, <1>5, DelCounted
      <3> QED BY <1>3, <2>1, <3>1
    <2>6. Lawful(e, Del(ref, k), NotTold, 0)
      <3>1. IsTable(e.rows) /\ e.delta \in Int /\ 0 \in Int
        BY <1>2, <1>3, <2>1
      <3> QED BY ONLY <1>3, <1>4, <2>3, <2>4, <2>5, <3>1 DEF Lawful
    <2> QED BY <1>1, <2>6
  <1>6. CASE ~Has(rows, k) /\ backend \in {"HashMapTable", "CuckooTable", "RDBTable"}
    <2>1. e.rows = rows /\ e.notes = <<>> /\ e.delta = 0
      BY <1>1, <1>2, <1>3, <1>6, DeleteIs, DelAbsent DEF Has
    <2>2. backend \in Exact => Del(ref, k) = ref
      BY <1>3, <1>6, DelAbsent DEF Has, RowsInv
    <2>3. Lawful(e, Del(ref, k), NotTold, 0)
      BY <1>3, <2>1, <2>2, QuietLawful
    <2> QED BY <1>1, <2>3
  <1>7. CASE ~(backend \in {"HashMapTable", "CuckooTable", "RDBTable"})
    <2>1. NotTold /\ e.notes = <<>> /\ e.delta = 0
      BY <1>1, <1>7, DeleteIs
    <2>2. <<>> \in Seq(NoteSet) /\ backend # "RDBTable"
      BY <1>7
    <2>3. Lawful(e, Del(ref, k), NotTold, 0)
      BY <1>2, <1>3, <1>4, <2>1, <2>2 DEF Lawful
    <2> QED BY <1>1, <2>3
  <1> QED BY <1>5, <1>6, <1>7

LEMMA DeleteWhereLawful ==
    ASSUME TableType, RowsInv
    PROVE  Lawful(deleteWhere, Restrict(ref, DOMAIN ref \ Matching(ref)), FALSE, 0)
  <1>1. PICK e : e = deleteWhere
    OBVIOUS
  <1> DEFINE doc == Restrict(ref, DOMAIN ref \ Matching(ref))
  <1>2. IsTable(rows) /\ IsTable(ref) /\ IsTable(doc)
    BY RestrictTable DEF TableType
  <1> HIDE DEF doc
  <1>3. CASE backend \in Exact
    <2>1. PICK hit : hit = Matching(rows)
      OBVIOUS
    <2>2. hit \subseteq DOMAIN rows /\ (hit # {} => 1 \in Records)
      BY <1>2, <2>1 DEF Matching, Selected, IsTable
    <2>3. e = Effect(Restrict(rows, DOMAIN rows \ hit), ForAll(hit, 1, "Delete"), -Cardinality(hit))
      BY <1>1, <1>3, <2>1 DEF Exact, deleteWhere, HashMapTable_deleteWhere, RDBTable_deleteWhere
    <2>4. e.rows = Restrict(rows, DOMAIN rows \ hit) /\ e.notes = ForAll(hit, 1, "Delete") /\ e.delta = -Cardinality(hit)
      BY <2>3, EffectIs
    <2>5. IsFiniteSet(DOMAIN rows) /\ Cardinality(DOMAIN rows) \in Nat /\ IsFiniteSet(hit) /\ Cardinality(hit) \in Nat
      BY <1>2, <2>2, TableFinite, FS_Subset, FS_CardinalityType
    <2>6. IsTable(e.rows) /\ DOMAIN e.rows = DOMAIN rows \ hit
      BY <1>2, <2>4, RestrictTable
    <2>7. e.rows = doc
      BY <1>3, <2>1, <2>4 DEF doc, RowsInv
    <2>8. After(rows, NoteLog(e.notes)) = e.rows
      <3>1. After(rows, NoteLog(ForAll(hit, 1, "Delete"))) = Restrict(rows, DOMAIN rows \ hit)
        BY ONLY <1>2, <2>2, AfterForAll
      <3> QED BY <2>4, <3>1
    <2>9. e.notes \in Seq(NoteSet)
      BY <1>2, <2>2, <2>4, <2>5, ForAllSeq DEF IsTable
    <2>10. Cardinality(DOMAIN e.rows) + 0 = Cardinality(DOMAIN rows) + e.delta
      <3>1. Cardinality(DOMAIN rows \ hit) = Cardinality(DOMAIN rows) - Cardinality(DOMAIN rows \cap hit)
        BY <2>5, FS_Difference
      <3>2. DOMAIN rows \cap hit = hit
        BY <2>2
      <3>3. Cardinality(DOMAIN e.rows) = Cardinality(DOMAIN rows) - Cardinality(hit)
        BY ONLY <2>6, <3>1, <3>2
      <3> QED BY ONLY <2>4, <2>5, <3>3
    <2>11. e.delta \in Int /\ 0 \in Int
      BY <2>4, <2>5
    <2>12. Lawful(e, doc, FALSE, 0)
      BY ONLY <1>2, <2>6, <2>7, <2>8, <2>9, <2>10, <2>11 DEF Lawful
    <2> QED BY <1>1, <2>12 DEF doc
  <1>4. CASE ~(backend \in Exact)
    <2>1. e = Nothing \/ e = Hangs
      BY <1>1, <1>4, BackendIs DEF Exact, deleteWhere, CuckooTable_deleteWhere, PBPTreeTable_deleteWhere, BDCCPTable_deleteWhere
    <2>2. e.rows = rows /\ e.notes = <<>> /\ e.delta = 0
      BY <2>1, NothingIs
    <2>3. Lawful(e, doc, FALSE, 0)
      BY <1>2, <1>4, <2>2, QuietLawful
    <2> QED BY <1>1, <2>3 DEF doc
  <1> QED BY <1>3, <1>4

\* Updating one record is putting its new value.
LEMMA PutUpdated ==
    ASSUME NEW t, IsTable(t), NEW k
    PROVE  /\ k \in DOMAIN t => [x \in DOMAIN t |-> IF x \in {k} THEN Updated(t[x]) ELSE t[x]] = Put(t, k, Updated(t[k]))
           /\ k \notin DOMAIN t => [x \in DOMAIN t |-> IF x \in {k} THEN Updated(t[x]) ELSE t[x]] = t
  <1>1. k \in DOMAIN t => DOMAIN t \union {k} = DOMAIN t
    OBVIOUS
  <1>2. CASE k \in DOMAIN t
    BY <1>1, <1>2 DEF Put
  <1>3. CASE k \notin DOMAIN t
    BY <1>3 DEF IsTable
  <1> QED BY <1>2, <1>3

LEMMA UpdateTable ==
    ASSUME NEW t, IsTable(t), NEW hit
    PROVE  IsTable([k \in DOMAIN t |-> IF k \in hit THEN Updated(t[k]) ELSE t[k]])
  <1> DEFINE f == [k \in DOMAIN t |-> IF k \in hit THEN Updated(t[k]) ELSE t[k]]
  <1>1. ASSUME NEW k \in DOMAIN t
        PROVE  f[k] \in Records
    <2>1. t[k] \in Records
      BY DEF IsTable
    <2> QED BY <2>1, RecordsClosed
  <1>2. f = [k \in DOMAIN t |-> f[k]]
    OBVIOUS
  <1> HIDE DEF f
  <1>3. IsTable(f)
    BY <1>1, <1>2, MapTable
  <1> QED BY <1>3 DEF f

LEMMA UpdateLawful ==
    ASSUME TableType, RowsInv, NEW k \in Keys
    PROVE  Lawful(updateByKey(k), DocUpdate({k}), NotTold, 0)
  <1>1. PICK e : e = updateByKey(k)
    OBVIOUS
  <1>2. PICK doc : doc = DocUpdate({k})
    OBVIOUS
  <1>3. IsTable(rows) /\ IsTable(ref) /\ IsTable(doc)
    BY <1>2, UpdateTable DEF TableType, DocUpdate
  <1>4. CASE e.rows = rows /\ e.notes = <<>> /\ e.delta = 0 /\ (backend \in Exact => ~Has(rows, k))
    <2>1. backend \in Exact => doc = ref
      <3>1. k \notin DOMAIN ref => DocUpdate({k}) = ref
        BY <1>3, PutUpdated DEF DocUpdate
      <3> QED BY <1>2, <1>4, <3>1 DEF RowsInv, Has
    <2>2. Lawful(e, doc, NotTold, 0)
      BY <1>3, <1>4, <2>1, QuietLawful
    <2> QED BY <1>1, <1>2, <2>2
  <1>5. CASE Has(rows, k) /\ backend \in {"HashMapTable", "CuckooTable", "RDBTable"}
    <2>1. e = Effect(Put(rows, k, Updated(rows[k])), <<Note(k, Updated(rows[k]), "Update")>>, 0)
      BY <1>1, <1>5 DEF updateByKey, HashMapTable_updateByKey, CuckooTable_updateByKey, RDBTable_updateByKey
    <2>2. PICK u : u = Updated(rows[k])
      OBVIOUS
    <2>3. e.rows = Put(rows, k, u) /\ e.notes = <<Note(k, u, "Update")>> /\ e.delta = 0
      BY <2>1, <2>2, EffectIs
    <2>4. rows[k] \in Records
      BY <1>3, <1>5 DEF IsTable, Has
    <2>5. u \in Records
      BY <2>2, <2>4, RecordsClosed
    <2>6. IsTable(e.rows) /\ DOMAIN e.rows = DOMAIN rows
      <3>1. IsTable(Put(rows, k, u)) /\ DOMAIN Put(rows, k, u) = DOMAIN rows \union {k}
        BY <1>3, <2>5, PutTable
      <3>2. DOMAIN rows \union {k} = DOMAIN rows
        BY <1>5 DEF Has
      <3> QED BY ONLY <2>3, <3>1, <3>2
    <2>7. After(rows, NoteLog(e.notes)) = e.rows
      BY <2>3, AfterNote
    <2>8. e.notes \in Seq(NoteSet)
      BY <2>3, <2>5, OneNote
    <2>9. backend \in Exact => e.rows = doc
      BY <1>2, <1>3, <1>5, <2>2, <2>3, PutUpdated DEF RowsInv, DocUpdate, Has
    <2>10. Cardinality(DOMAIN e.rows) + 0 = Cardinality(DOMAIN rows) + e.delta /\ e.delta \in Int /\ 0 \in Int
      <3>1. Cardinality(DOMAIN rows) \in Nat
        BY <1>3, TableFinite
      <3> QED BY <2>3, <2>6, <3>1
    <2>11. Lawful(e, doc, NotTold, 0)
      BY ONLY <1>3, <2>6, <2>7, <2>8, <2>9, <2>10 DEF Lawful
    <2> QED BY <1>1, <1>2, <2>11
  <1>6. CASE Has(rows, k) /\ backend = "PBPTreeTable"
    <2>1. e = Effect(Put(rows, k, Updated(rows[k])), <<>>, 0)
      BY <1>1, <1>6 DEF updateByKey, PBPTreeTable_updateByKey
    <2>2. e.rows = Put(rows, k, Updated(rows[k])) /\ e.notes = <<>> /\ e.delta = 0
      BY <2>1, EffectIs
    <2>3. rows[k] \in Records
      BY <1>3, <1>6 DEF IsTable, Has
    <2>4. IsTable(e.rows)
      <3>1. Updated(rows[k]) \in Records
        BY <2>3, RecordsClosed
      <3>2. IsTable(Put(rows, k, Updated(rows[k])))
        BY ONLY <1>3, <3>1, k \in Keys, PutTable
      <3> QED BY ONLY <2>2, <3>2
    <2>5. NotTold /\ backend # "RDBTable" /\ backend \notin Exact /\ <<>> \in Seq(NoteSet)
      BY <1>6 DEF NotTold, Exact
    <2>6. Lawful(e, doc, NotTold, 0)
      BY <1>3, <2>2, <2>4, <2>5 DEF Lawful
    <2> QED BY <1>1, <1>2, <2>6
  <1>7. CASE ~Has(rows, k) \/ backend = "BDCCPTable"
    <2>1. e = Nothing
      BY <1>1, <1>7, BackendIs DEF updateByKey, HashMapTable_updateByKey, CuckooTable_updateByKey, RDBTable_updateByKey,
         PBPTreeTable_updateByKey, BDCCPTable_updateByKey
    <2> QED BY <1>4, <1>7, <2>1, NothingIs DEF Exact
  <1> QED BY <1>5, <1>6, <1>7, BackendIs

LEMMA UpdateWhereLawful ==
    ASSUME TableType, RowsInv
    PROVE  Lawful(updateWhere, DocUpdate(Matching(ref)), FALSE, 0)
  <1>1. PICK e : e = updateWhere
    OBVIOUS
  <1>2. PICK doc : doc = DocUpdate(Matching(ref))
    OBVIOUS
  <1>3. IsTable(rows) /\ IsTable(ref) /\ IsTable(doc)
    BY <1>2, UpdateTable DEF TableType, DocUpdate
  <1>4. CASE backend \in {"HashMapTable", "CuckooTable", "RDBTable"}
    <2>1. PICK hit : hit = Matching(rows)
      OBVIOUS
    <2>2. PICK u : u = Updated(1)
      OBVIOUS
    <2>3. hit \subseteq DOMAIN rows /\ hit \subseteq Keys /\ (hit # {} => u \in Records)
      <3>1. hit \subseteq DOMAIN rows /\ (hit # {} => 1 \in Records)
        BY <1>3, <2>1 DEF Matching, Selected, IsTable
      <3> QED BY <1>3, <2>2, <3>1, RecordsClosed DEF IsTable
    <2>4. e = Effect([k \in DOMAIN rows |-> IF k \in hit THEN u ELSE rows[k]], ForAll(hit, u, "Update"), 0)
      BY <1>1, <1>4, <2>1, <2>2 DEF updateWhere, HashMapTable_updateWhere, CuckooTable_updateWhere, RDBTable_updateWhere
    <2>5. e.rows = [k \in DOMAIN rows |-> IF k \in hit THEN u ELSE rows[k]] /\ e.notes = ForAll(hit, u, "Update") /\ e.delta = 0
      BY <2>4, EffectIs
    <2>6. IsTable(e.rows) /\ DOMAIN e.rows = DOMAIN rows
      <3>1. \A k \in DOMAIN rows : e.rows[k] \in Records
        BY <1>3, <2>3, <2>5 DEF IsTable
      <3>2. e.rows = [k \in DOMAIN rows |-> e.rows[k]]
        BY <2>5
      <3> QED BY ONLY <1>3, <3>1, <3>2, MapTable
    <2>7. IsFiniteSet(hit)
      BY <1>3, <2>3, TableFinite, FS_Subset
    <2>8. e.notes \in Seq(NoteSet)
      <3>1. ForAll(hit, u, "Update") \in Seq(NoteSet)
        BY ONLY <2>3, <2>7, ForAllSeq
      <3> QED BY <2>5, <3>1
    <2>9. After(rows, NoteLog(e.notes)) = e.rows
      <3>1. After(rows, NoteLog(ForAll(hit, u, "Update"))) = SetAll(rows, hit, u)
        BY ONLY <1>3, <2>3, AfterForAll
      <3> QED BY <2>5, <3>1 DEF SetAll
    <2>10. backend \in Exact => e.rows = doc
      <3>1. SUFFICES ASSUME backend \in Exact
                     PROVE  e.rows = doc
        OBVIOUS
      <3>2. doc = [k \in DOMAIN rows |-> IF k \in hit THEN Updated(rows[k]) ELSE rows[k]]
        BY <1>2, <2>1, <3>1 DEF DocUpdate, RowsInv
      <3>3. \A k \in hit : rows[k] = 1
        BY <2>1 DEF Matching, Selected
      <3> QED BY ONLY <2>2, <2>5, <3>2, <3>3
    <2>11. Cardinality(DOMAIN e.rows) + 0 = Cardinality(DOMAIN rows) + e.delta /\ e.delta \in Int /\ 0 \in Int
      <3>1. Cardinality(DOMAIN rows) \in Nat
        BY <1>3, TableFinite
      <3>2. e.delta = 0
        BY <2>5
      <3> QED BY ONLY <2>6, <3>1, <3>2
    <2>12. Lawful(e, doc, FALSE, 0)
      BY ONLY <1>3, <2>6, <2>8, <2>9, <2>10, <2>11 DEF Lawful
    <2> QED BY <1>1, <1>2, <2>12
  <1>5. CASE ~(backend \in {"HashMapTable", "CuckooTable", "RDBTable"})
    <2>1. e = Nothing /\ backend \notin Exact
      BY <1>1, <1>5, BackendIs DEF Exact, updateWhere, PBPTreeTable_updateWhere, BDCCPTable_updateWhere
    <2>2. e.rows = rows /\ e.notes = <<>> /\ e.delta = 0
      BY <2>1, NothingIs
    <2>3. Lawful(e, doc, FALSE, 0)
      BY <1>3, <2>1, <2>2, QuietLawful
    <2> QED BY <1>1, <1>2, <2>3
  <1> QED BY <1>4, <1>5

LEMMA UpdelLawful ==
    ASSUME TableType, RowsInv, NEW k \in Keys, NEW keep \in BOOLEAN, NEW ins \in BOOLEAN, NEW v \in Records
    PROVE  Lawful(updateOrDeleteByKey(k, keep, ins, v), DocUpdel(k, keep, ins, v),
                  backend = "HashMapTable" /\ Has(rows, k) /\ ~keep, IF keep THEN 0 ELSE Replacing(k))
  <1>1. PICK e : e = updateOrDeleteByKey(k, keep, ins, v)
    OBVIOUS
  <1>2. PICK doc : doc = DocUpdel(k, keep, ins, v)
    OBVIOUS
  <1>3. PICK silent : silent = (backend = "HashMapTable" /\ Has(rows, k) /\ ~keep)
    OBVIOUS
  <1>4. PICK mis : mis = IF keep THEN 0 ELSE Replacing(k)
    OBVIOUS
  <1>5. IsTable(rows) /\ IsTable(ref) /\ Cardinality(DOMAIN rows) \in Nat
    BY TableFinite DEF TableType
  <1>6. IsTable(doc)
    <2>1. CASE Has(ref, k)
      <3>1. ref[k] \in Records
        BY <1>5, <2>1 DEF IsTable, Has
      <3>2. IsTable(Put(ref, k, Updated(ref[k]))) /\ IsTable(Del(ref, k))
        BY <1>5, <3>1, RecordsClosed, PutTable, DelTable
      <3> QED BY <1>2, <2>1, <3>2 DEF DocUpdel
    <2>2. CASE ~Has(ref, k)
      <3>1. IsTable(Put(ref, k, v))
        BY <1>5, PutTable
      <3> QED BY <1>2, <1>5, <2>2, <3>1 DEF DocUpdel
    <2> QED BY <2>1, <2>2
  <1>7. SUFFICES Lawful(e, doc, silent, mis)
    BY <1>1, <1>2, <1>3, <1>4
  <1>8. backend \in Exact => rows = ref
    BY DEF RowsInv
  <1>9. mis \in Int
    BY <1>4 DEF Replacing
  <1>10. CASE e.rows = rows /\ e.notes = <<>> /\ e.delta = 0 /\ (backend \in Exact => ~Has(rows, k) /\ ~ins)
    <2>1. backend \in Exact => doc = ref /\ mis = 0
      BY <1>2, <1>4, <1>8, <1>10 DEF DocUpdel, Replacing
    <2>2. Lawful(e, doc, silent, 0)
      BY <1>6, <1>10, <2>1, QuietLawful
    <2>3. backend = "RDBTable" => mis = 0
      BY <2>1 DEF Exact
    <2> QED BY <1>9, <2>2, <2>3 DEF Lawful
  <1>11. CASE backend \in {"HashMapTable", "CuckooTable", "RDBTable"} /\ Has(rows, k)
    <2>1. rows[k] \in Records
      BY <1>5, <1>11 DEF IsTable, Has
    <2>2. PICK u : u = Updated(rows[k])
      OBVIOUS
    <2>3. u \in Records
      BY <2>1, <2>2, RecordsClosed
    <2>4. IsTable(Put(rows, k, u)) /\ DOMAIN Put(rows, k, u) = DOMAIN rows /\ IsTable(Del(rows, k))
      <3>1. DOMAIN Put(rows, k, u) = DOMAIN rows \union {k}
        BY <1>5, <2>3, PutTable
      <3>2. DOMAIN rows \union {k} = DOMAIN rows
        BY <1>11 DEF Has
      <3> QED BY <1>5, <2>3, <3>1, <3>2, PutTable, DelTable
    <2>5. rows = ref => doc = IF keep THEN Put(rows, k, u) ELSE Del(rows, k)
      BY <1>2, <1>11, <2>2 DEF DocUpdel
    <2>6. CASE keep
      <3>1. /\ e.notes = <<Note(k, u, "Update")>> /\ e.delta = 0
            /\ e.rows = Put(rows, k, u) \/ (e.rows = rows /\ backend \notin Exact)
        <4>1. CASE backend = "HashMapTable"
          BY <1>1, <1>11, <2>2, <2>6, <4>1, EffectIs DEF updateOrDeleteByKey, HashMapTable_updateOrDeleteByKey
        <4>2. CASE backend = "CuckooTable"
          BY <1>1, <1>11, <2>2, <2>6, <4>2, EffectIs DEF updateOrDeleteByKey, CuckooTable_updateOrDeleteByKey, Exact
        <4>3. CASE backend = "RDBTable"
          BY <1>1, <1>11, <2>2, <2>6, <4>3, EffectIs DEF updateOrDeleteByKey, RDBTable_updateOrDeleteByKey
        <4> QED BY <1>11, <4>1, <4>2, <4>3
      <3>2. e.notes \in Seq(NoteSet) /\ e.delta \in Int /\ IsTable(e.rows) /\ DOMAIN e.rows = DOMAIN rows
        BY <1>5, <2>3, <2>4, <3>1, OneNote
      <3>3. After(rows, NoteLog(e.notes)) = Put(rows, k, u)
        BY <3>1, AfterNote
      <3>4. rows = ref => doc = Put(rows, k, u)
        BY <2>5, <2>6
      <3>5. Cardinality(DOMAIN e.rows) + mis = Cardinality(DOMAIN rows) + e.delta
        BY <1>4, <1>5, <2>6, <3>1, <3>2
      <3> QED BY ONLY <1>6, <1>8, <1>9, <3>1, <3>2, <3>3, <3>4, <3>5 DEF Lawful
    <2>7. CASE ~keep
      <3>1. /\ e.rows = Del(rows, k)
            /\ backend = "HashMapTable" => e.notes = <<Note(Garbage, Garbage, "Delete")>> /\ e.delta = -1
            /\ backend # "HashMapTable" => e.notes = <<Note(k, u, "Delete")>> /\ e.delta = 0
        <4>1. CASE backend = "HashMapTable"
          BY <1>1, <1>11, <2>2, <2>7, <4>1, EffectIs DEF updateOrDeleteByKey, HashMapTable_updateOrDeleteByKey
        <4>2. CASE backend = "CuckooTable"
          BY <1>1, <1>11, <2>2, <2>7, <4>2, EffectIs DEF updateOrDeleteByKey, CuckooTable_updateOrDeleteByKey
        <4>3. CASE backend = "RDBTable"
          BY <1>1, <1>11, <2>2, <2>7, <4>3, EffectIs DEF updateOrDeleteByKey, RDBTable_updateOrDeleteByKey
        <4> QED BY <1>11, <4>1, <4>2, <4>3
      <3>2. IsTable(e.rows) /\ e.delta \in Int
        BY <2>4, <3>1
      <3>3. e.notes \in Seq(NoteSet)
        <4>1. Note(Garbage, Garbage, "Delete") \in NoteSet
          BY DEF Note, NoteSet, SomeKeys
        <4>2. <<Note(Garbage, Garbage, "Delete")>> \in Seq(NoteSet)
          BY <4>1
        <4> QED BY <2>3, <3>1, <4>2, OneNote
      <3>4. backend # "HashMapTable" => After(rows, NoteLog(e.notes)) = e.rows
        BY <3>1, AfterNote
      <3>5. backend = "HashMapTable" => silent
        BY <1>3, <1>11, <2>7
      <3>6. rows = ref => doc = e.rows
        BY <2>5, <2>7, <3>1
      <3>7. backend = "RDBTable" => Cardinality(DOMAIN e.rows) + mis = Cardinality(DOMAIN rows) + e.delta
        <4>1. Cardinality(DOMAIN e.rows) = Cardinality(DOMAIN rows) - 1
          BY <1>5, <1>11, <3>1, DelCounted
        <4>2. backend = "RDBTable" => mis = 1 /\ e.delta = 0
          BY <1>4, <1>8, <1>11, <2>7, <3>1 DEF Replacing, Exact
        <4> QED BY <1>5, <4>1, <4>2
      <3> QED BY ONLY <1>6, <1>8, <1>9, <3>2, <3>3, <3>4, <3>5, <3>6, <3>7 DEF Lawful
    <2> QED BY <2>6, <2>7
  <1>12. CASE backend \in {"HashMapTable", "CuckooTable", "RDBTable"} /\ ~Has(rows, k) /\ ins
    <2>1. e = insert(k, v)
      BY <1>1, <1>12 DEF updateOrDeleteByKey, HashMapTable_updateOrDeleteByKey, CuckooTable_updateOrDeleteByKey,
         RDBTable_updateOrDeleteByKey, insert
    <2>2. Lawful(e, Put(ref, k, v), FALSE, Replacing(k))
      BY <2>1, InsertLawful
    <2>3. rows = ref => doc = Put(ref, k, v) /\ mis = 0 /\ Replacing(k) = 0
      BY <1>2, <1>4, <1>12 DEF DocUpdel, Replacing
    <2>4. backend = "RDBTable" => rows = ref
      BY <1>8 DEF Exact
    <2> QED BY ONLY <1>6, <1>8, <1>9, <2>2, <2>3, <2>4 DEF Lawful
  <1>13. CASE backend \notin {"HashMapTable", "CuckooTable", "RDBTable"} \/ (~Has(rows, k) /\ ~ins)
    <2>1. e = Nothing
      BY <1>1, <1>13, BackendIs DEF updateOrDeleteByKey, HashMapTable_updateOrDeleteByKey, CuckooTable_updateOrDeleteByKey,
         RDBTable_updateOrDeleteByKey, PBPTreeTable_updateOrDeleteByKey, BDCCPTable_updateOrDeleteByKey
    <2> QED BY <1>10, <1>13, <2>1, NothingIs DEF Exact
  <1> QED BY <1>11, <1>12, <1>13

LEMMA SelectLawful ==
    ASSUME TableType, RowsInv
    PROVE  Lawful(select, ref, FALSE, 0)
  <1>1. PICK e : e = select
    OBVIOUS
  <1>2. e = Effect(rows, <<>>, 0) \/ e = Hangs
    BY <1>1, BackendIs DEF select, HashMapTable_select, CuckooTable_select, RDBTable_select, PBPTreeTable_select, BDCCPTable_select
  <1>3. e.rows = rows /\ e.notes = <<>> /\ e.delta = 0
    BY <1>2, NothingIs, EffectIs
  <1>4. Lawful(e, ref, FALSE, 0)
    BY <1>3, QuietLawful DEF TableType
  <1> QED BY <1>1, <1>4

LEMMA TruncateLawful ==
    ASSUME TableType, RowsInv, CountedInv
    PROVE  Lawful(truncate, None, TRUE, -miscounted)
  <1>1. PICK e : e = truncate
    OBVIOUS
  <1>2. e = Effect(None, <<>>, IF backend = "RDBTable" THEN -numRecords ELSE 0)
    BY <1>1, BackendIs DEF truncate, HashMapTable_truncate, CuckooTable_truncate, RDBTable_truncate, PBPTreeTable_truncate, BDCCPTable_truncate
  <1>3. e.rows = None /\ e.notes = <<>> /\ e.delta = IF backend = "RDBTable" THEN -numRecords ELSE 0
    BY <1>2, EffectIs
  <1>4. IsTable(None) /\ DOMAIN None = {} /\ <<>> \in Seq(NoteSet) /\ Cardinality({}) = 0
    BY NoneTable, FS_EmptySet
  <1>5. numRecords \in Int /\ miscounted \in Int /\ -miscounted \in Int /\ Cardinality(DOMAIN rows) \in Nat
    BY TableFinite DEF TableType
  <1>6. e.delta \in Int
    BY <1>3, <1>5
  <1>7. backend = "RDBTable" => Cardinality(DOMAIN e.rows) + (-miscounted) = Cardinality(DOMAIN rows) + e.delta
    <2>1. Cardinality(DOMAIN e.rows) = 0
      BY <1>3, <1>4
    <2> QED BY <1>3, <1>5, <2>1 DEF CountedInv
  <1>8. Lawful(e, None, TRUE, -miscounted)
    BY ONLY <1>3, <1>4, <1>5, <1>6, <1>7 DEF Lawful
  <1> QED BY <1>1, <1>8

-----------------------------------------------------------------------------
(***************************************************************************)
(* The steps.                                                              *)
(***************************************************************************)

\* What is announced belongs to what was announced before.
LEMMA NotesGoOn ==
    ASSUME NEW n \in Seq(NoteSet), NEW out \in Seq(NoteSet), NEW t, NEW u,
           After(None, NoteLog(n)) = t, After(t, NoteLog(out)) = u
    PROVE  After(None, NoteLog(n \o out)) = u
  <1>1. NoteLog(n) \in Seq(LogSet) /\ NoteLog(out) \in Seq(LogSet)
    BY NoteLogSeq
  <1>2. After(None, NoteLog(n) \o NoteLog(out)) = After(After(None, NoteLog(n)), NoteLog(out))
    BY <1>1, AfterConcat
  <1> QED BY <1>2, NoteLogConcat

LEMMA ElementsGoOn ==
    ASSUME NEW ins \in BOOLEAN, NEW n \in Seq(ElementSet), NEW out \in Seq(ElementSet), NEW t, NEW u,
           After(None, StreamLog(n, ins)) = t, After(t, StreamLog(out, ins)) = u
    PROVE  After(None, StreamLog(n \o out, ins)) = u
  <1>1. StreamLog(n, ins) \in Seq(LogSet) /\ StreamLog(out, ins) \in Seq(LogSet)
    BY StreamLogSeq
  <1>2. After(None, StreamLog(n, ins) \o StreamLog(out, ins)) = After(After(None, StreamLog(n, ins)), StreamLog(out, ins))
    BY <1>1, AfterConcat
  <1> QED BY <1>2, StreamLogConcat

\* What a call tells FromTable goes with what it does: r are the rows after it.
Streams(out, r) ==
    /\ After(rows, StreamLog(out, TRUE)) = r
    /\ \A t : Apart(t, rows) => Apart(After(t, StreamLog(out, FALSE)), r)

LEMMA PutApart ==
    ASSUME NEW t, NEW u, NEW k, NEW v, Apart(t, u)
    PROVE  Apart(Del(t, k), Put(u, k, v)) /\ Apart(Put(t, k, v), Del(u, k))
  <1>1. DOMAIN Put(t, k, v) = DOMAIN t \union {k} /\ DOMAIN Put(u, k, v) = DOMAIN u \union {k}
    BY DEF Put
  <1>2. DOMAIN Del(t, k) = DOMAIN t \ {k} /\ DOMAIN Del(u, k) = DOMAIN u \ {k}
    BY DEF Del, Restrict
  <1> QED BY <1>1, <1>2 DEF Apart

LEMMA tableCallbackSeq ==
    ASSUME NEW out \in Seq(NoteSet)
    PROVE  tableCallback(out) \in Seq(ElementSet)
  <1>1. Len(out) \in Nat /\ DOMAIN out = 1 .. Len(out)
    OBVIOUS
  <1>2. ASSUME NEW i \in 1 .. Len(out)
        PROVE  [key |-> out[i].key, rec |-> out[i].rec, outdated |-> out[i].mode = "Insert"] \in ElementSet
    <2>1. out[i] \in NoteSet
      OBVIOUS
    <2>2. PICK b \in BOOLEAN : b = (out[i].mode = "Insert")
      OBVIOUS
    <2>3. [key |-> out[i].key, rec |-> out[i].rec, outdated |-> b] \in ElementSet
      BY <2>1 DEF NoteSet, ElementSet
    <2> QED BY <2>2, <2>3
  <1>3. tableCallback(out) \in [1 .. Len(out) -> ElementSet]
    BY <1>1, <1>2 DEF tableCallback
  <1> QED BY <1>1, <1>3

LEMMA NotifiedIs ==
    ASSUME TableType, NEW out
    PROVE  notifyObservers(out, "Immediate")[observer] = IF observer = "Immediate" THEN out ELSE <<>>
  <1>1. notifyObservers(out, "Immediate") = Told(out, "Immediate")
    BY BackendIs DEF notifyObservers, HashMapTable_notifyObservers, CuckooTable_notifyObservers, RDBTable_notifyObservers,
       PBPTreeTable_notifyObservers, BDCCPTable_notifyObservers
  <1> QED BY <1>1 DEF Told, TableType

\* A lawful call keeps the table and what is known of it.
LEMMA CallKeeps ==
    ASSUME TableType, RowsInv, ObserversAgree, CountedInv,
           NEW e, NEW doc, NEW silent, NEW miscount, Lawful(e, doc, silent, miscount), Call(e, doc, silent, miscount)
    PROVE  TableType' /\ RowsInv' /\ ObserversAgree' /\ CountedInv'
  <1>1. /\ rows' = e.rows /\ ref' = doc
        /\ numRecords' = Size(e) /\ miscounted' = miscounted + miscount
        /\ faithful' = (faithful /\ e.rows = doc)
        /\ announced' = (announced /\ ~silent)
        /\ backend' = backend /\ program' = program /\ observer' = observer /\ published' = published
    BY DEF Call
  <1>2. /\ program = "stream" => pending' = pending \o tableCallback(e.notes) /\ notes' = notes
        /\ program # "stream" => notes' = notes \o notifyObservers(e.notes, "Immediate")[observer] /\ pending' = pending
    BY DEF Call
  <1>3. /\ IsTable(e.rows) /\ IsTable(doc) /\ e.notes \in Seq(NoteSet) /\ e.delta \in Int /\ miscount \in Int
        /\ backend \in Exact => e.rows = doc
        /\ rows = ref /\ e.rows = doc /\ ~silent => After(rows, NoteLog(e.notes)) = e.rows
        /\ backend = "RDBTable" => Cardinality(DOMAIN e.rows) + miscount = Cardinality(DOMAIN rows) + e.delta
    BY DEF Lawful
  <1>4. Cardinality(DOMAIN e.rows) \in Nat /\ Cardinality(DOMAIN rows) \in Nat
    BY <1>3, TableFinite DEF TableType
  <1>5. numRecords \in Int /\ miscounted \in Int
    BY DEF TableType
  <1>6. TableType'
    <2>1. numRecords' \in Int /\ miscounted' \in Int
      BY <1>1, <1>3, <1>4, <1>5 DEF Size
    <2>2. notes' \in Seq(NoteSet) /\ pending' \in Seq(ElementSet) /\ published' \in Seq(ElementSet)
      <3>1. CASE program = "stream"
        <4>1. tableCallback(e.notes) \in Seq(ElementSet)
          BY <1>3, tableCallbackSeq
        <4>2. pending \o tableCallback(e.notes) \in Seq(ElementSet)
          BY <4>1, ConcatProperties DEF TableType
        <4> QED BY <1>1, <1>2, <3>1, <4>2 DEF TableType
      <3>2. CASE program # "stream"
        <4>1. notifyObservers(e.notes, "Immediate")[observer] \in Seq(NoteSet)
          <5>1. <<>> \in Seq(NoteSet)
            OBVIOUS
          <5> QED BY <1>3, <5>1, NotifiedIs
        <4>2. notes \o notifyObservers(e.notes, "Immediate")[observer] \in Seq(NoteSet)
          BY <4>1, ConcatProperties DEF TableType
        <4> QED BY <1>1, <1>2, <3>2, <4>2 DEF TableType
      <3> QED BY <3>1, <3>2
    <2> QED BY <1>1, <1>3, <2>1, <2>2 DEF TableType
  <1>7. RowsInv'
    BY <1>1, <1>3 DEF RowsInv
  <1>8. ObserversAgree'
    <2>1. SUFFICES ASSUME faithful', announced', program = "api", observer = "Immediate"
                   PROVE  After(None, NoteLog(notes')) = rows'
      BY <1>1 DEF ObserversAgree
    <2>2. faithful /\ announced /\ e.rows = doc /\ ~silent
      BY <1>1, <2>1
    <2>3. rows = ref /\ After(None, NoteLog(notes)) = rows
      BY <2>1, <2>2 DEF RowsInv, ObserversAgree
    <2>4. After(rows, NoteLog(e.notes)) = e.rows
      BY <1>3, <2>2, <2>3
    <2>5. notes' = notes \o e.notes
      BY <1>2, <2>1, NotifiedIs
    <2>6. notes \in Seq(NoteSet)
      BY DEF TableType
    <2>7. After(None, NoteLog(notes \o e.notes)) = e.rows
      BY ONLY <1>3, <2>3, <2>4, <2>6, NotesGoOn
    <2> QED BY <1>1, <2>5, <2>7
  <1>9. CountedInv'
    <2>1. SUFFICES ASSUME backend = "RDBTable"
                   PROVE  numRecords' = Cardinality(DOMAIN rows') + miscounted'
      BY <1>1 DEF CountedInv
    <2>2. numRecords' = numRecords + e.delta /\ numRecords = Cardinality(DOMAIN rows) + miscounted
      BY <1>1, <2>1 DEF Size, CountedInv
    <2>3. Cardinality(DOMAIN e.rows) + miscount = Cardinality(DOMAIN rows) + e.delta
      BY <1>3, <2>1
    <2>4. e.delta \in Int /\ miscount \in Int
      BY <1>3
    <2>5. numRecords + e.delta = Cardinality(DOMAIN e.rows) + (miscounted + miscount)
      BY ONLY <1>4, <1>5, <2>2, <2>3, <2>4
    <2>6. DOMAIN rows' = DOMAIN e.rows /\ miscounted' = miscounted + miscount
      BY <1>1
    <2> QED BY ONLY <2>2, <2>5, <2>6
  <1> QED BY <1>6, <1>7, <1>8, <1>9

\* The calls that the stream makes: the elements of FromTable go on from the
\* table as it was.
LEMMA CallStreams ==
    ASSUME TableType, StreamedInv,
           NEW e, NEW doc, NEW silent, NEW miscount, e.notes \in Seq(NoteSet), Call(e, doc, silent, miscount),
           program = "stream" /\ backend \in Exact => Streams(tableCallback(e.notes), e.rows)
    PROVE  StreamedInv'
  <1>1. /\ rows' = e.rows /\ announced' = (announced /\ ~silent)
        /\ backend' = backend /\ program' = program /\ published' = published
        /\ program = "stream" => pending' = pending \o tableCallback(e.notes)
    BY DEF Call
  <1>2. SUFFICES ASSUME program = "stream", backend \in Exact, announced'
                 PROVE  /\ After(None, StreamLog(published' \o pending', TRUE)) = rows'
                        /\ Apart(After(None, StreamLog(published' \o pending', FALSE)), rows')
    BY <1>1 DEF StreamedInv
  <1>3. PICK p, q, r : p = published \o pending /\ q = tableCallback(e.notes) /\ r = e.rows
    OBVIOUS
  <1>4. After(None, StreamLog(p, TRUE)) = rows /\ Apart(After(None, StreamLog(p, FALSE)), rows)
    BY <1>1, <1>2, <1>3 DEF StreamedInv
  <1>5. published \in Seq(ElementSet) /\ pending \in Seq(ElementSet) /\ q \in Seq(ElementSet)
    BY <1>3, tableCallbackSeq DEF TableType
  <1>6. p \in Seq(ElementSet)
    BY <1>3, <1>5, ConcatProperties
  <1>7. After(rows, StreamLog(q, TRUE)) = r /\ Apart(After(After(None, StreamLog(p, FALSE)), StreamLog(q, FALSE)), r)
    BY <1>2, <1>3, <1>4 DEF Streams
  <1>8. After(None, StreamLog(p \o q, TRUE)) = r
    BY ONLY <1>4, <1>5, <1>6, <1>7, ElementsGoOn
  <1>9. After(None, StreamLog(p \o q, FALSE)) = After(After(None, StreamLog(p, FALSE)), StreamLog(q, FALSE))
    <2>1. PICK t, u : t = After(None, StreamLog(p, FALSE)) /\ u = After(t, StreamLog(q, FALSE))
      OBVIOUS
    <2>2. After(None, StreamLog(p \o q, FALSE)) = u
      BY <1>5, <1>6, <2>1, ElementsGoOn, Zenon
    <2> QED BY ONLY <2>1, <2>2
  <1>10. p \o q = published \o (pending \o q)
    BY ONLY <1>3, <1>5, ConcatAssociative, SMTT(60)
  <1>11. published' \o pending' = p \o q /\ rows' = r
    BY <1>1, <1>2, <1>3, <1>10
  <1> QED BY <1>7, <1>8, <1>9, <1>11

\* The calls of the api program.
LEMMA ApiKeeps ==
    ASSUME TablesInv, Api
    PROVE  TableType' /\ RowsInv' /\ ObserversAgree' /\ CountedInv'
  <1>1. TableType /\ RowsInv /\ ObserversAgree /\ CountedInv
    BY DEF TablesInv
  <1>2. ASSUME NEW k \in Keys, NEW v \in Records, Insert(k, v)
        PROVE  TableType' /\ RowsInv' /\ ObserversAgree' /\ CountedInv'
    <2>1. PICK e, doc, s, m : e = insert(k, v) /\ doc = Put(ref, k, v) /\ s = FALSE /\ m = Replacing(k)
      OBVIOUS
    <2>2. Lawful(e, doc, s, m)
      BY <1>1, <2>1, InsertLawful
    <2>3. Call(e, doc, s, m)
      BY <1>2, <2>1 DEF Insert
    <2> QED BY <1>1, <2>2, <2>3, CallKeeps
  <1>3. ASSUME NEW k \in Keys, DeleteByKey(k)
        PROVE  TableType' /\ RowsInv' /\ ObserversAgree' /\ CountedInv'
    <2>1. PICK e, doc, s, m : e = deleteByKey(k) /\ doc = Del(ref, k) /\ s = NotTold /\ m = 0
      OBVIOUS
    <2>2. Lawful(e, doc, s, m)
      BY <1>1, <2>1, DeleteLawful
    <2>3. Call(e, doc, s, m)
      BY <1>3, <2>1 DEF DeleteByKey
    <2> QED BY <1>1, <2>2, <2>3, CallKeeps
  <1>4. CASE Call(deleteWhere, Restrict(ref, DOMAIN ref \ Matching(ref)), FALSE, 0)
    <2>1. PICK e, doc, s, m : e = deleteWhere /\ doc = Restrict(ref, DOMAIN ref \ Matching(ref)) /\ s = FALSE /\ m = 0
      OBVIOUS
    <2>2. Lawful(e, doc, s, m)
      BY <1>1, <2>1, DeleteWhereLawful
    <2>3. Call(e, doc, s, m)
      BY <1>4, <2>1
    <2> QED BY <1>1, <2>2, <2>3, CallKeeps
  <1>5. ASSUME NEW k \in Keys, NEW keep \in BOOLEAN, NEW ins \in BOOLEAN, UpdateOrDeleteByKey(k, keep, ins, 0)
        PROVE  TableType' /\ RowsInv' /\ ObserversAgree' /\ CountedInv'
    <2>1. PICK e, doc, s, m : /\ e = updateOrDeleteByKey(k, keep, ins, 0) /\ doc = DocUpdel(k, keep, ins, 0)
                              /\ s = (backend = "HashMapTable" /\ Has(rows, k) /\ ~keep)
                              /\ m = IF keep THEN 0 ELSE Replacing(k)
      OBVIOUS
    <2>2. 0 \in Records
      BY RecordsClosed
    <2>3. Lawful(e, doc, s, m)
      BY <1>1, <2>1, <2>2, UpdelLawful
    <2>4. Call(e, doc, s, m)
      BY <1>5, <2>1 DEF UpdateOrDeleteByKey
    <2> QED BY <1>1, <2>3, <2>4, CallKeeps
  <1>6. ASSUME NEW k \in Keys, Call(updateByKey(k), DocUpdate({k}), NotTold, 0)
        PROVE  TableType' /\ RowsInv' /\ ObserversAgree' /\ CountedInv'
    <2>1. PICK e, doc, s, m : e = updateByKey(k) /\ doc = DocUpdate({k}) /\ s = NotTold /\ m = 0
      OBVIOUS
    <2>2. Lawful(e, doc, s, m)
      BY <1>1, <2>1, UpdateLawful
    <2>3. Call(e, doc, s, m)
      BY <1>6, <2>1
    <2> QED BY <1>1, <2>2, <2>3, CallKeeps
  <1>7. CASE Call(updateWhere, DocUpdate(Matching(ref)), FALSE, 0)
    <2>1. PICK e, doc, s, m : e = updateWhere /\ doc = DocUpdate(Matching(ref)) /\ s = FALSE /\ m = 0
      OBVIOUS
    <2>2. Lawful(e, doc, s, m)
      BY <1>1, <2>1, UpdateWhereLawful
    <2>3. Call(e, doc, s, m)
      BY <1>7, <2>1
    <2> QED BY <1>1, <2>2, <2>3, CallKeeps
  <1>8. CASE SelectFromTable
    <2>1. PICK e, doc, s, m : e = select /\ doc = ref /\ s = FALSE /\ m = 0
      OBVIOUS
    <2>2. Lawful(e, doc, s, m)
      BY <1>1, <2>1, SelectLawful
    <2>3. Call(e, doc, s, m)
      BY <1>8, <2>1 DEF SelectFromTable
    <2> QED BY <1>1, <2>2, <2>3, CallKeeps
  <1>9. CASE Call(truncate, None, TRUE, -miscounted)
    <2>1. PICK e, doc, s, m : e = truncate /\ doc = None /\ s = TRUE /\ m = -miscounted
      OBVIOUS
    <2>2. Lawful(e, doc, s, m)
      BY <1>1, <2>1, TruncateLawful
    <2>3. Call(e, doc, s, m)
      BY <1>9, <2>1
    <2> QED BY <1>1, <2>2, <2>3, CallKeeps
  <1> QED BY <1>2, <1>3, <1>4, <1>5, <1>6, <1>7, <1>8, <1>9 DEF Api

\* A new element, stored under its key or, where the key had one, maybe not.
LEMMA TrackPut ==
    ASSUME NEW l, l \subseteq [key : Keys, rec : Records], NEW w, Unique(l, w), NEW t,
           NEW e \in [key : Keys, rec : Records],
           NEW w2, w2 = IF \E x \in l : x.key = e.key THEN w \union {e.key} ELSE w,
           NEW t2, t2 = Put(t, e.key, e.rec) \/ (Has(t, e.key) /\ t2 = t)
    PROVE  Unique(l \union {e}, w2) /\ (Tracks(t, l, w) => Tracks(t2, l \union {e}, w2))
  <1>1. \A x \in l : x.key = e.key => e.key \in w2
    OBVIOUS
  <1>2. w \subseteq w2
    OBVIOUS
  <1>3. Unique(l \union {e}, w2)
    BY <1>1, <1>2 DEF Unique
  <1>4. SUFFICES ASSUME Tracks(t, l, w), NEW k \in Keys \ w2
                 PROVE  /\ \A x \in l \union {e} : x.key = k => Has(t2, k) /\ t2[k] = x.rec
                        /\ (\A x \in l \union {e} : x.key # k) => ~Has(t2, k)
    BY <1>3 DEF Tracks
  <1>5. k \in Keys \ w
    BY <1>2
  <1>6. /\ \A x \in l : x.key = k => Has(t, k) /\ t[k] = x.rec
        /\ (\A x \in l : x.key # k) => ~Has(t, k)
    BY <1>4, <1>5 DEF Tracks
  <1>7. CASE k = e.key
    <2>1. \A x \in l : x.key # k
      BY <1>1, <1>4, <1>7
    <2>2. t2 = Put(t, k, e.rec)
      BY <1>6, <1>7, <2>1
    <2>3. Has(t2, k) /\ t2[k] = e.rec
      BY <2>2 DEF Put, Has
    <2> QED BY <1>7, <2>1, <2>3
  <1>8. CASE k # e.key
    <2>1. (Has(t2, k) <=> Has(t, k)) /\ (Has(t, k) => t2[k] = t[k])
      BY <1>8 DEF Put, Has
    <2> QED BY <1>6, <1>8, <2>1
  <1> QED BY <1>7, <1>8

\* An outdated element deletes its key.
LEMMA TrackDel ==
    ASSUME NEW l, l \subseteq [key : Keys, rec : Records], NEW w, Unique(l, w), NEW t, NEW e \in l
    PROVE  Unique(l \ {e}, w) /\ (Tracks(t, l, w) => Tracks(Del(t, e.key), l \ {e}, w))
  <1>1. Unique(l \ {e}, w)
    BY DEF Unique
  <1>2. SUFFICES ASSUME Tracks(t, l, w), NEW k \in Keys \ w
                 PROVE  /\ \A x \in l \ {e} : x.key = k => Has(Del(t, e.key), k) /\ Del(t, e.key)[k] = x.rec
                        /\ (\A x \in l \ {e} : x.key # k) => ~Has(Del(t, e.key), k)
    BY <1>1 DEF Tracks
  <1>3. /\ \A x \in l : x.key = k => Has(t, k) /\ t[k] = x.rec
        /\ (\A x \in l : x.key # k) => ~Has(t, k)
    BY <1>2 DEF Tracks
  <1>4. CASE k = e.key
    <2>1. \A x \in l \ {e} : x.key # k
      BY <1>4 DEF Unique
    <2>2. ~Has(Del(t, e.key), k)
      BY <1>4 DEF Del, Restrict, Has
    <2> QED BY <2>1, <2>2
  <1>5. CASE k # e.key
    <2>1. (Has(Del(t, e.key), k) <=> Has(t, k)) /\ (Has(t, k) => Del(t, e.key)[k] = t[k])
      BY <1>5 DEF Del, Restrict, Has
    <2> QED BY <1>3, <1>5, <2>1
  <1> QED BY <1>4, <1>5

\* ToTable calls insert and deleteByKey.
LEMMA ToTableKeeps ==
    ASSUME TablesInv, NEW e \in [key : Keys, rec : Records], NEW outdated \in BOOLEAN, ToTable(e, outdated)
    PROVE  TableType' /\ RowsInv' /\ ObserversAgree' /\ CountedInv' /\ StreamedInv' /\ TrackedInv'
  <1>1. TableType /\ RowsInv /\ ObserversAgree /\ CountedInv /\ StreamedInv /\ TrackedInv
    BY DEF TablesInv
  <1>2. /\ program = "stream"
        /\ outdated <=> e \in live
        /\ outdated => DeleteByKey(e.key)
        /\ ~outdated => Insert(e.key, e.rec)
        /\ live' = IF outdated THEN live \ {e} ELSE live \union {e}
        /\ twice' = IF ~outdated /\ \E x \in live : x.key = e.key THEN twice \union {e.key} ELSE twice
    BY DEF ToTable
  <1>3. PICK k, v : k = e.key /\ v = e.rec /\ k \in Keys /\ v \in Records
    OBVIOUS
  <1>4. /\ live \subseteq [key : Keys, rec : Records] /\ Unique(live, twice)
        /\ backend # "BDCCPTable" => Tracks(rows, live, twice)
    BY <1>1, <1>2 DEF TrackedInv
  <1>5. CASE ~outdated
    <2>1. PICK f, doc, s, m : f = insert(k, v) /\ doc = Put(ref, k, v) /\ s = FALSE /\ m = Replacing(k)
      OBVIOUS
    <2>2. Lawful(f, doc, s, m)
      BY <1>1, <1>3, <2>1, InsertLawful
    <2>3. Call(f, doc, s, m)
      BY <1>2, <1>3, <1>5, <2>1 DEF Insert
    <2>4. PICK r, mode : /\ f = Effect(r, <<Note(k, v, mode)>>, 1)
                         /\ (backend \in Exact => mode = "Insert")
                         /\ r = Put(rows, k, v) \/ (backend = "CuckooTable" /\ Has(rows, k) /\ r = rows)
      BY <1>1, <1>3, <2>1, InsertIs
    <2>5. f.rows = r /\ f.notes = <<Note(k, v, mode)>>
      BY <2>4, EffectIs
    <2>6. backend \in Exact => Streams(tableCallback(f.notes), f.rows)
      <3>1. SUFFICES ASSUME backend \in Exact
                     PROVE  Streams(tableCallback(f.notes), f.rows)
        OBVIOUS
      <3>2. PICK out : out = tableCallback(<<Note(k, v, "Insert")>>) /\ out = tableCallback(f.notes)
        BY <2>4, <2>5, <3>1
      <3>3. f.rows = Put(rows, k, v)
        BY <2>4, <2>5, <3>1 DEF Exact
      <3>4. ASSUME NEW t
            PROVE  After(t, StreamLog(out, TRUE)) = Put(t, k, v) /\ After(t, StreamLog(out, FALSE)) = Del(t, k)
        BY <3>2, AfterElement
      <3> QED BY <3>2, <3>3, <3>4, PutApart DEF Streams
    <2>7. f.notes \in Seq(NoteSet)
      BY <2>2 DEF Lawful
    <2>8. StreamedInv'
      BY <1>1, <2>3, <2>6, <2>7, CallStreams
    <2>9. rows' = r /\ backend' = backend /\ program' = program
      BY <2>3, <2>5 DEF Call
    <2>10. TrackedInv'
      <3>1. r = Put(rows, e.key, e.rec) \/ (Has(rows, e.key) /\ r = rows)
        BY <1>3, <2>4
      <3>2. live' = live \union {e} /\ twice' = IF \E x \in live : x.key = e.key THEN twice \union {e.key} ELSE twice
        BY <1>2, <1>5
      <3>3. PICK w : w = twice'
        OBVIOUS
      <3>4. Unique(live \union {e}, w) /\ (Tracks(rows, live, twice) => Tracks(r, live \union {e}, w))
        BY <1>4, <3>1, <3>2, <3>3, TrackPut
      <3>5. live \union {e} \subseteq [key : Keys, rec : Records]
        BY <1>4
      <3> QED BY <1>4, <2>9, <3>2, <3>3, <3>4, <3>5 DEF TrackedInv
    <2> QED BY <1>1, <2>2, <2>3, <2>8, <2>10, CallKeeps
  <1>6. CASE outdated
    <2>1. PICK f, doc, s, m : f = deleteByKey(k) /\ doc = Del(ref, k) /\ s = NotTold /\ m = 0
      OBVIOUS
    <2>2. Lawful(f, doc, s, m)
      BY <1>1, <1>3, <2>1, DeleteLawful
    <2>3. Call(f, doc, s, m)
      BY <1>2, <1>3, <1>6, <2>1 DEF DeleteByKey
    <2>4. f.rows = Del(rows, k)
      BY <1>1, <1>3, <2>1, DeleteIs
    <2>5. backend \in Exact => Streams(tableCallback(f.notes), f.rows)
      <3>1. SUFFICES ASSUME backend \in Exact
                     PROVE  Streams(tableCallback(f.notes), f.rows)
        OBVIOUS
      <3>2. CASE Has(rows, k)
        <4>1. PICK old : old = rows[k]
          OBVIOUS
        <4>2. f.notes = <<Note(k, old, "Delete")>>
          BY <1>1, <1>3, <2>1, <3>1, <3>2, <4>1, DeleteIs DEF Exact
        <4>3. PICK out : out = tableCallback(<<Note(k, old, "Delete")>>) /\ out = tableCallback(f.notes)
          BY <4>2
        <4>4. ASSUME NEW t
              PROVE  After(t, StreamLog(out, TRUE)) = Del(t, k) /\ After(t, StreamLog(out, FALSE)) = Put(t, k, old)
          BY <4>3, AfterElement
        <4> QED BY <2>4, <4>3, <4>4, PutApart DEF Streams
      <3>3. CASE ~Has(rows, k)
        <4>1. f.notes = <<>>
          BY <1>1, <1>3, <2>1, <3>1, <3>3, DeleteIs DEF Exact
        <4>2. Del(rows, k) = rows
          BY <1>1, <3>3, DelAbsent DEF TableType, Has
        <4>3. ASSUME NEW ins
              PROVE  Len(StreamLog(tableCallback(<<>>), ins)) = 0
          BY DEF StreamLog, tableCallback
        <4>4. PICK out : out = tableCallback(<<>>) /\ out = tableCallback(f.notes)
          BY <4>1
        <4>5. ASSUME NEW t, NEW ins
              PROVE  After(t, StreamLog(out, ins)) = t
          BY <4>3, <4>4, AfterNothing
        <4> QED BY <2>4, <4>2, <4>4, <4>5 DEF Streams
      <3> QED BY <3>2, <3>3
    <2>6. f.notes \in Seq(NoteSet)
      BY <2>2 DEF Lawful
    <2>7. StreamedInv'
      BY <1>1, <2>3, <2>5, <2>6, CallStreams
    <2>8. rows' = Del(rows, e.key) /\ backend' = backend /\ program' = program
      BY <1>3, <2>3, <2>4 DEF Call
    <2>9. TrackedInv'
      <3>1. live' = live \ {e} /\ twice' = twice /\ e \in live
        BY <1>2, <1>6
      <3>2. Unique(live \ {e}, twice) /\ (Tracks(rows, live, twice) => Tracks(Del(rows, e.key), live \ {e}, twice))
        BY <1>4, <3>1, TrackDel
      <3>3. live \ {e} \subseteq [key : Keys, rec : Records]
        BY <1>4
      <3> QED BY <1>4, <2>8, <3>1, <3>2, <3>3 DEF TrackedInv
    <2> QED BY <1>1, <2>2, <2>3, <2>7, <2>9, CallKeeps
  <1> QED BY <1>5, <1>6

LEMMA AfterAppend ==
    ASSUME NEW t, NEW S, NEW log \in Seq(S), NEW e \in S
    PROVE  After(t, Append(log, e)) = Applied(After(t, log), e)
  <1>1. PICK one : one = <<e>>
    OBVIOUS
  <1>2. Append(log, e) = log \o one /\ one \in Seq(S) /\ Len(one) = 1 /\ one[1] = e
    BY <1>1
  <1>3. After(t, log \o one) = After(After(t, log), one)
    BY ONLY <1>2, log \in Seq(S), AfterConcat
  <1>4. After(After(t, log), one) = Applied(After(t, log), one[1])
    BY ONLY <1>2, AfterOne
  <1> QED BY ONLY <1>2, <1>3, <1>4

\* What the table is, as long as nobody touches it.
LEMMA TableKept ==
    ASSUME TableType, RowsInv, ObserversAgree, CountedInv, StreamedInv, TrackedInv,
           UNCHANGED <<backend, program, rows, ref, numRecords, miscounted, observer, faithful, announced, notes,
                       pending, published, interrupted, live, twice>>
    PROVE  TableType' /\ RowsInv' /\ ObserversAgree' /\ CountedInv' /\ StreamedInv' /\ TrackedInv'
  <1>1. TableType' /\ RowsInv' /\ CountedInv'
    BY DEF TableType, RowsInv, CountedInv
  <1>2. ObserversAgree' /\ StreamedInv' /\ TrackedInv'
    BY DEF ObserversAgree, StreamedInv, TrackedInv
  <1> QED BY <1>1, <1>2

LEMMA TxKept ==
    ASSUME TxType, SerialInv, UNCHANGED <<program, backend, rows, logBuffer, committing, committed, torn, reopens>>
    PROVE  TxType' /\ SerialInv'
  BY DEF TxType, SerialInv, Done

\* While a transaction is committed its log stays.
LEMMA LogsKept ==
    ASSUME TablesInv, NEW t \in Txs, committing.tx # t, NEW log \in Seq(EntrySet),
           logBuffer' = [logBuffer EXCEPT ![t] = log],
           UNCHANGED <<backend, program, rows, committing, committed, torn, reopens>>
    PROVE  TxType' /\ SerialInv'
  <1>1. TxType /\ SerialInv
    BY DEF TablesInv
  <1>2. logBuffer' \in [Txs -> Seq(EntrySet)]
    BY <1>1 DEF TxType
  <1>3. committing # NoTx => logBuffer'[committing.tx] = logBuffer[committing.tx]
    BY <1>1 DEF TxType
  <1>4. TxType'
    BY <1>1, <1>2, <1>3 DEF TxType
  <1>5. Done' = Done
    BY <1>3 DEF Done
  <1> QED BY <1>1, <1>4, <1>5 DEF SerialInv

LEMMA CommitBegins ==
    ASSUME TablesInv, NEW t \in Txs, transactionCommit(t)
    PROVE  TxType' /\ SerialInv'
  <1>1. TxType /\ SerialInv
    BY DEF TablesInv
  <1>2. /\ program = "tx" /\ committing = NoTx /\ committing' = [tx |-> t, next |-> 1]
        /\ UNCHANGED <<backend, program, rows, reopens, logBuffer, committed, torn>>
    BY DEF transactionCommit, tableVars
  <1>3. committing' # NoTx /\ committing'.tx = t /\ committing'.next = 1
    BY <1>2, TablesAssumption DEF NoTx
  <1>4. logBuffer[t] \in Seq(EntrySet) /\ Len(logBuffer[t]) \in Nat
    BY <1>1 DEF TxType
  <1>5. TxType'
    <2>1. 1 \in 1 .. Len(logBuffer[t]) + 1
      BY <1>4
    <2> QED BY <1>1, <1>2, <1>3, <2>1 DEF TxType
  <1>6. Done' = Done
    <2>1. Done = committed
      BY <1>2 DEF Done
    <2>2. Done' = committed \o SubSeq(logBuffer[t], 1, 0)
      BY <1>2, <1>3 DEF Done
    <2>3. SubSeq(logBuffer[t], 1, 0) = <<>>
      BY <1>4
    <2>4. committed \o <<>> = committed
      BY <1>1 DEF TxType
    <2> QED BY <2>1, <2>2, <2>3, <2>4
  <1> QED BY <1>1, <1>2, <1>5, <1>6 DEF SerialInv

\* One entry more is one operation more.
LEMMA CommitGoesOn ==
    ASSUME TablesInv, commitStep
    PROVE  TablesInv'
  <1>1. TableType /\ TxType /\ RowsInv /\ CountedInv /\ TrackedInv /\ SerialInv
    BY DEF TablesInv
  <1>2. PICK t, n : t = committing.tx /\ n = committing.next
    OBVIOUS
  <1>3. PICK log : log = logBuffer[t]
    BY SMTT(60)
  <1>4. /\ committing # NoTx /\ n <= Len(log)
        /\ committing' = [committing EXCEPT !.next = @ + 1]
        /\ UNCHANGED <<backend, program, observer, faithful, announced, notes, pending, published, interrupted,
                       reopens, logBuffer, committed, torn, live, twice>>
    BY <1>2, <1>3 DEF commitStep, streamVars
  <1>5. /\ program = "tx" /\ t \in Txs /\ n \in Nat /\ n >= 1 /\ log \in Seq(EntrySet) /\ Len(log) \in Nat
        /\ committing = [tx |-> t, next |-> n]
    BY <1>1, <1>2, <1>3, <1>4 DEF TxType
  <1>6. PICK e : e = log[n]
    OBVIOUS
  <1>7. e \in EntrySet
    BY <1>4, <1>5, <1>6
  <1>8. e.op \in {"Insert", "Delete"} /\ e.key \in Keys /\ e.rec \in Records
    BY <1>7 DEF EntrySet
  <1>9. PICK f : f = IF e.op = "Insert" THEN insert(e.key, e.rec) ELSE deleteByKey(e.key)
    BY SMTT(60)
  <1>10. /\ rows' = f.rows /\ numRecords' = Size(f)
         /\ ref' = IF e.op = "Insert" THEN Put(ref, e.key, e.rec) ELSE Del(ref, e.key)
         /\ miscounted' = miscounted + (IF e.op = "Insert" THEN Replacing(e.key) ELSE 0)
    BY <1>2, <1>3, <1>6, <1>9 DEF commitStep
  <1>11. PICK m : m = IF e.op = "Insert" THEN Replacing(e.key) ELSE 0
    OBVIOUS
  <1>12. \E s : Lawful(f, ref', s, m)
    <2>1. CASE e.op = "Insert"
      <3>1. Lawful(insert(e.key, e.rec), Put(ref, e.key, e.rec), FALSE, Replacing(e.key))
        BY <1>1, <1>8, InsertLawful
      <3> QED BY <1>9, <1>10, <1>11, <2>1, <3>1
    <2>2. CASE e.op # "Insert"
      <3>1. Lawful(deleteByKey(e.key), Del(ref, e.key), NotTold, 0)
        BY <1>1, <1>8, DeleteLawful
      <3> QED BY <1>9, <1>10, <1>11, <2>2, <3>1
    <2> QED BY <2>1, <2>2
  <1>13. backend \in Exact /\ rows = ref
    BY <1>1, <1>5 DEF TableType, RowsInv
  <1>14. /\ IsTable(rows') /\ IsTable(ref') /\ rows' = ref' /\ f.delta \in Int /\ m \in Int
         /\ backend = "RDBTable" => Cardinality(DOMAIN f.rows) + m = Cardinality(DOMAIN rows) + f.delta
    BY <1>10, <1>12, <1>13 DEF Lawful
  <1>15. rows' = Applied(rows, e)
    BY <1>8, <1>10, <1>13, <1>14 DEF Applied
  <1>16. /\ Cardinality(DOMAIN rows') \in Nat /\ Cardinality(DOMAIN rows) \in Nat
         /\ numRecords \in Int /\ miscounted \in Int
    BY <1>1, <1>14, TableFinite DEF TableType
  <1>17. miscounted' = miscounted + m /\ numRecords' = (IF backend = "RDBTable" THEN numRecords + f.delta ELSE Cardinality(DOMAIN rows'))
    BY <1>10, <1>11 DEF Size
  <1>18. TableType'
    <2>1. numRecords' \in Int /\ miscounted' \in Int
      BY <1>14, <1>16, <1>17
    <2> QED BY <1>1, <1>4, <1>14, <2>1 DEF TableType
  <1>19. RowsInv'
    BY <1>14 DEF RowsInv
  <1>20. CountedInv'
    <2>1. SUFFICES ASSUME backend = "RDBTable"
                   PROVE  numRecords' = Cardinality(DOMAIN rows') + miscounted'
      BY <1>4 DEF CountedInv
    <2>2. numRecords = Cardinality(DOMAIN rows) + miscounted /\ numRecords' = numRecords + f.delta
      BY <1>1, <1>17, <2>1 DEF CountedInv
    <2>3. Cardinality(DOMAIN rows') + m = Cardinality(DOMAIN rows) + f.delta
      BY <1>10, <1>14, <2>1
    <2>4. f.delta \in Int /\ m \in Int /\ miscounted' = miscounted + m
      BY <1>14, <1>17
    <2> QED BY ONLY <1>16, <2>2, <2>3, <2>4
  <1>21. ObserversAgree' /\ StreamedInv' /\ TrackedInv'
    BY <1>1, <1>4, <1>5 DEF ObserversAgree, StreamedInv, TrackedInv
  <1>22. committing' = [tx |-> t, next |-> n + 1] /\ committing' # NoTx
    BY <1>4, <1>5, TablesAssumption DEF NoTx
  <1>23. TxType'
    <2>1. n + 1 \in 1 .. Len(log) + 1
      BY <1>4, <1>5
    <2> QED BY <1>1, <1>3, <1>4, <1>5, <1>22, <2>1 DEF TxType
  <1>24. SerialInv'
    <2>1. SUFFICES ASSUME ~torn, backend = "RDBTable" \/ reopens = 0
                   PROVE  rows' = After(None, Done')
      BY <1>4 DEF SerialInv
    <2>2. Done = committed \o SubSeq(log, 1, n - 1)
      BY <1>2, <1>3, <1>4 DEF Done
    <2>3. Done' = committed \o SubSeq(log, 1, n)
      <3>1. committing'.tx = t /\ committing'.next - 1 = n /\ committing' # NoTx
        BY <1>5, <1>22
      <3>2. Done' = committed' \o SubSeq(logBuffer'[committing'.tx], 1, committing'.next - 1)
        BY <3>1 DEF Done
      <3> QED BY <1>3, <1>4, <3>1, <3>2
    <2>4. rows = After(None, Done)
      BY <1>1, <1>5, <2>1 DEF SerialInv
    <2>5. Done \in Seq(OperationSet) /\ e \in OperationSet /\ Done' = Append(Done, e)
      <3>1. EntrySet \subseteq OperationSet
        BY DEF EntrySet, OperationSet, SomeKeys
      <3>2. PICK p : p = SubSeq(log, 1, n - 1)
        OBVIOUS
      <3>3. p \in Seq(EntrySet) /\ SubSeq(log, 1, n) = Append(p, e)
        BY <1>4, <1>5, <1>6, <3>2, SMTT(60)
      <3>4. p \in Seq(OperationSet) /\ e \in OperationSet /\ committed \in Seq(OperationSet)
        BY <1>1, <1>7, <3>1, <3>3 DEF TxType
      <3>5. committed \o Append(p, e) = Append(committed \o p, e) /\ committed \o p \in Seq(OperationSet)
        BY <3>4
      <3> QED BY <2>2, <2>3, <3>2, <3>3, <3>4, <3>5
    <2>6. After(None, Done') = Applied(After(None, Done), e)
      BY <2>5, AfterAppend
    <2> QED BY <1>15, <2>4, <2>6
  <1> QED BY <1>18, <1>19, <1>20, <1>21, <1>23, <1>24 DEF TablesInv

LEMMA CommitEnds ==
    ASSUME TablesInv, commitEnd
    PROVE  TxType' /\ SerialInv'
  <1>1. TxType /\ SerialInv
    BY DEF TablesInv
  <1>2. PICK t, log : t = committing.tx /\ log = logBuffer[t]
    OBVIOUS
  <1>3. /\ committing # NoTx /\ committing.next > Len(log)
        /\ committed' = committed \o log
        /\ logBuffer' = [logBuffer EXCEPT ![t] = <<>>]
        /\ committing' = NoTx
        /\ UNCHANGED <<backend, program, rows, reopens, torn>>
    BY <1>2 DEF commitEnd, tableVars
  <1>4. /\ program = "tx" /\ t \in Txs /\ log \in Seq(EntrySet) /\ Len(log) \in Nat
        /\ committing.next = Len(log) + 1 /\ committed \in Seq(OperationSet)
    BY <1>1, <1>2, <1>3 DEF TxType
  <1>5. EntrySet \subseteq OperationSet
    BY DEF EntrySet, OperationSet, SomeKeys
  <1>6. log \in Seq(OperationSet) /\ committed \o log \in Seq(OperationSet)
    <2>1. log \in Seq(OperationSet)
      BY <1>4, <1>5
    <2> QED BY <1>4, <2>1
  <1>7. TxType'
    <2>1. logBuffer' \in [Txs -> Seq(EntrySet)]
      <3>1. <<>> \in Seq(EntrySet)
        OBVIOUS
      <3> QED BY <1>1, <1>3, <3>1 DEF TxType
    <2> QED BY <1>1, <1>3, <1>6, <2>1 DEF TxType
  <1>8. Done' = Done
    <2>1. Done' = committed \o log
      BY <1>3 DEF Done
    <2>2. Done = committed \o SubSeq(log, 1, (Len(log) + 1) - 1)
      BY <1>2, <1>3, <1>4 DEF Done
    <2>3. (Len(log) + 1) - 1 = Len(log)
      BY <1>4
    <2>4. SubSeq(log, 1, Len(log)) = log
      BY <1>4
    <2> QED BY <2>1, <2>2, <2>3, <2>4
  <1> QED BY <1>1, <1>3, <1>7, <1>8 DEF SerialInv

\* An operation without a transaction is one of its own, if it does not come
\* into the middle of a commit.
LEMMA WithoutTxKeeps ==
    ASSUME TablesInv, NEW op \in {"Keep", "Update", "DeleteWhere", "UpdateWhere", "Truncate"}, NEW k \in SomeKeys,
           NEW e, WithoutTx(op, k, e), NEW doc, NEW silent, NEW m, Lawful(e, doc, silent, m),
           m = IF op = "Truncate" THEN -miscounted ELSE 0,
           backend \in Exact => doc = Applied(ref, [op |-> op, key |-> k, rec |-> 0])
    PROVE  TablesInv'
  <1>1. TableType /\ TxType /\ RowsInv /\ CountedInv /\ TrackedInv /\ SerialInv
    BY DEF TablesInv
  <1>2. PICK entry : entry = [op |-> op, key |-> k, rec |-> 0]
    OBVIOUS
  <1>3. /\ program = "tx" /\ rows' = e.rows /\ ref' = e.rows /\ numRecords' = Size(e)
        /\ miscounted' = (IF op = "Truncate" THEN 0 ELSE miscounted)
        /\ torn' = (torn \/ committing # NoTx)
        /\ committed' = Append(committed, entry)
        /\ UNCHANGED <<backend, program, observer, faithful, announced, notes, pending, published, interrupted,
                       reopens, logBuffer, committing, live, twice>>
    BY <1>2 DEF WithoutTx, streamVars
  <1>4. backend \in Exact /\ rows = ref
    BY <1>1, <1>3 DEF TableType, RowsInv
  <1>5. /\ IsTable(rows') /\ rows' = ref' /\ rows' = doc /\ e.delta \in Int /\ m \in Int
        /\ backend = "RDBTable" => Cardinality(DOMAIN rows') + m = Cardinality(DOMAIN rows) + e.delta
    BY <1>3, <1>4 DEF Lawful
  <1>6. rows' = Applied(rows, entry)
    BY <1>2, <1>4, <1>5
  <1>7. /\ Cardinality(DOMAIN rows') \in Nat /\ Cardinality(DOMAIN rows) \in Nat
        /\ numRecords \in Int /\ miscounted \in Int
    BY <1>1, <1>5, TableFinite DEF TableType
  <1>8. numRecords' = (IF backend = "RDBTable" THEN numRecords + e.delta ELSE Cardinality(DOMAIN rows'))
    BY <1>3 DEF Size
  <1>9. miscounted' = miscounted + m
    BY <1>3, <1>7
  <1>10. TableType'
    <2>1. numRecords' \in Int /\ miscounted' \in Int
      BY <1>5, <1>7, <1>8, <1>9
    <2> QED BY <1>1, <1>3, <1>5, <2>1 DEF TableType
  <1>11. RowsInv'
    BY <1>5 DEF RowsInv
  <1>12. CountedInv'
    <2>1. SUFFICES ASSUME backend = "RDBTable"
                   PROVE  numRecords' = Cardinality(DOMAIN rows') + miscounted'
      BY <1>3 DEF CountedInv
    <2>2. numRecords = Cardinality(DOMAIN rows) + miscounted /\ numRecords' = numRecords + e.delta
      BY <1>1, <1>8, <2>1 DEF CountedInv
    <2>3. Cardinality(DOMAIN rows') + m = Cardinality(DOMAIN rows) + e.delta /\ e.delta \in Int /\ m \in Int
      BY <1>5, <2>1
    <2> QED BY ONLY <1>7, <1>9, <2>2, <2>3
  <1>13. ObserversAgree' /\ StreamedInv' /\ TrackedInv'
    BY <1>1, <1>3 DEF ObserversAgree, StreamedInv, TrackedInv
  <1>14. entry \in OperationSet /\ committed \in Seq(OperationSet)
    <2>1. 0 \in Records
      BY RecordsClosed
    <2> QED BY <1>1, <1>2, <2>1 DEF OperationSet, TxType
  <1>15. TxType'
    <2>1. committed' \in Seq(OperationSet)
      BY <1>3, <1>14
    <2> QED BY <1>1, <1>3, <2>1 DEF TxType
  <1>16. SerialInv'
    <2>1. SUFFICES ASSUME ~torn', backend = "RDBTable" \/ reopens = 0
                   PROVE  rows' = After(None, Done')
      BY <1>3 DEF SerialInv
    <2>2. ~torn /\ committing = NoTx
      BY <1>3, <2>1
    <2>3. Done = committed /\ Done' = Append(committed, entry)
      BY <1>3, <2>2 DEF Done
    <2>4. rows = After(None, committed)
      BY <1>1, <1>3, <2>1, <2>2, <2>3 DEF SerialInv
    <2>5. After(None, Append(committed, entry)) = Applied(After(None, committed), entry)
      BY <1>14, AfterAppend
    <2> QED BY <1>6, <2>3, <2>4, <2>5
  <1> QED BY <1>10, <1>11, <1>12, <1>13, <1>15, <1>16 DEF TablesInv

LEMMA UntransactedKeeps ==
    ASSUME TablesInv, Untransacted
    PROVE  TablesInv'
  <1>1. TableType /\ RowsInv /\ CountedInv /\ IsTable(ref)
    BY DEF TablesInv, TableType
  <1>2. PICK t : t = ref
    OBVIOUS
  <1>3. ASSUME NEW k \in Keys, WithoutTx("Keep", k, TxTable_updateOrDeleteByKey(k))
        PROVE  TablesInv'
    <2>1. PICK e : e = Nothing
      OBVIOUS
    <2>2. e.rows = rows /\ e.notes = <<>> /\ e.delta = 0
      BY <2>1, NothingIs
    <2>3. Lawful(e, t, FALSE, 0)
      BY <1>1, <1>2, <2>2, QuietLawful
    <2>4. WithoutTx("Keep", k, e)
      BY <1>3, <2>1 DEF TxTable_updateOrDeleteByKey
    <2>5. t = Applied(ref, [op |-> "Keep", key |-> k, rec |-> 0])
      BY <1>2 DEF Applied
    <2>6. k \in SomeKeys
      BY DEF SomeKeys
    <2> QED BY <2>3, <2>4, <2>5, <2>6, WithoutTxKeeps
  <1>4. ASSUME NEW k \in Keys, WithoutTx("Update", k, TxTable_updateByKey(k))
        PROVE  TablesInv'
    <2>1. PICK e, doc, s : e = updateByKey(k) /\ doc = DocUpdate({k}) /\ s = NotTold
      OBVIOUS
    <2>2. Lawful(e, doc, s, 0)
      BY <1>1, <2>1, UpdateLawful
    <2>3. WithoutTx("Update", k, e)
      BY <1>4, <2>1 DEF TxTable_updateByKey
    <2>4. doc = Applied(ref, [op |-> "Update", key |-> k, rec |-> 0])
      BY <2>1 DEF Applied, DocUpdate
    <2>5. k \in SomeKeys
      BY DEF SomeKeys
    <2> QED BY <2>2, <2>3, <2>4, <2>5, WithoutTxKeeps
  <1>5. PICK k : k = CHOOSE x \in Keys : TRUE
    OBVIOUS
  <1>6. k \in SomeKeys
    BY <1>5 DEF SomeKeys
  <1>7. CASE WithoutTx("DeleteWhere", k, TxTable_deleteWhere)
    <2>1. PICK e, doc : e = deleteWhere /\ doc = Restrict(ref, DOMAIN ref \ Matching(ref))
      OBVIOUS
    <2>2. Lawful(e, doc, FALSE, 0)
      BY <1>1, <2>1, DeleteWhereLawful
    <2>3. WithoutTx("DeleteWhere", k, e)
      BY <1>7, <2>1 DEF TxTable_deleteWhere
    <2>4. doc = Applied(ref, [op |-> "DeleteWhere", key |-> k, rec |-> 0])
      BY <2>1 DEF Applied
    <2> QED BY <1>6, <2>2, <2>3, <2>4, WithoutTxKeeps
  <1>8. CASE WithoutTx("UpdateWhere", k, TxTable_updateWhere)
    <2>1. PICK e, doc : e = updateWhere /\ doc = DocUpdate(Matching(ref))
      OBVIOUS
    <2>2. Lawful(e, doc, FALSE, 0)
      BY <1>1, <2>1, UpdateWhereLawful
    <2>3. WithoutTx("UpdateWhere", k, e)
      BY <1>8, <2>1 DEF TxTable_updateWhere
    <2>4. doc = Applied(ref, [op |-> "UpdateWhere", key |-> k, rec |-> 0])
      BY <2>1 DEF Applied, DocUpdate, Matching
    <2> QED BY <1>6, <2>2, <2>3, <2>4, WithoutTxKeeps
  <1>9. CASE WithoutTx("Truncate", k, TxTable_truncate)
    <2>1. PICK e, m : e = truncate /\ m = -miscounted
      OBVIOUS
    <2>2. Lawful(e, None, TRUE, m)
      BY <1>1, <2>1, TruncateLawful
    <2>3. WithoutTx("Truncate", k, e)
      BY <1>9, <2>1 DEF TxTable_truncate
    <2>4. None = Applied(ref, [op |-> "Truncate", key |-> k, rec |-> 0])
      BY DEF Applied
    <2>5. m = IF "Truncate" = "Truncate" THEN -miscounted ELSE 0
      BY <2>1
    <2> QED BY <1>6, <2>2, <2>3, <2>4, <2>5, WithoutTxKeeps
  <1> QED BY <1>3, <1>4, <1>5, <1>7, <1>8, <1>9 DEF Untransacted

LEMMA DropKeeps ==
    ASSUME TablesInv, Drop
    PROVE  TablesInv'
  <1>1. TableType /\ TxType /\ RowsInv /\ CountedInv /\ TrackedInv
    BY DEF TablesInv
  <1>2. afterDrop = None
    BY <1>1, BackendIs DEF afterDrop, HashMapTable_drop, CuckooTable_drop, RDBTable_drop, PBPTreeTable_drop, BDCCPTable_drop
  <1>3. /\ program = "api" /\ rows' = None /\ ref' = None /\ announced' = FALSE
        /\ numRecords' = IF backend = "RDBTable" THEN numRecords ELSE 0
        /\ miscounted' = miscounted + Cardinality(DOMAIN rows)
        /\ UNCHANGED <<backend, program, observer, faithful, notes, pending, published, interrupted, reopens,
                       logBuffer, committing, committed, torn, live, twice>>
    BY <1>2 DEF Drop, txVars, streamVars
  <1>4. IsTable(None) /\ DOMAIN None = {} /\ Cardinality({}) = 0
    BY NoneTable, FS_EmptySet
  <1>5. TableType' /\ RowsInv' /\ CountedInv'
    <2>1. Cardinality(DOMAIN rows) \in Nat /\ numRecords \in Int /\ miscounted \in Int
      BY <1>1, TableFinite DEF TableType
    <2>2. TableType' /\ RowsInv'
      BY <1>1, <1>3, <1>4, <2>1 DEF TableType, RowsInv
    <2>3. CountedInv'
      BY <1>1, <1>3, <1>4, <2>1 DEF CountedInv
    <2> QED BY <2>2, <2>3
  <1>6. ObserversAgree' /\ StreamedInv' /\ TrackedInv'
    BY <1>1, <1>3 DEF ObserversAgree, StreamedInv, TrackedInv
  <1>7. TxType' /\ SerialInv'
    BY <1>1, <1>3 DEF TxType, SerialInv
  <1> QED BY <1>5, <1>6, <1>7 DEF TablesInv

\* A new process: the tables in memory are empty, the others as they were, and
\* so is what they are compared with.
LEMMA ReopenKeeps ==
    ASSUME TablesInv, Reopen
    PROVE  TablesInv'
  <1>1. TableType /\ TxType /\ RowsInv /\ TrackedInv /\ SerialInv
    BY DEF TablesInv
  <1>2. /\ reopens' = reopens + 1 /\ rows' = openOrCreateTable
        /\ ref' = (IF backend \in Persistent THEN ref ELSE None)
        /\ numRecords' = Cardinality(DOMAIN rows') /\ miscounted' = 0 /\ announced' = FALSE
        /\ pending' = <<>> /\ live' = {} /\ twice' = twice \union {e.key : e \in live}
        /\ logBuffer' = [t \in Txs |-> <<>>] /\ torn' = (torn \/ committing # NoTx) /\ committing' = NoTx
        /\ UNCHANGED <<backend, program, observer, faithful, notes, published, committed>>
    BY DEF Reopen
  <1>3. rows' = IF backend \in Persistent THEN rows ELSE None
    BY <1>1, <1>2, BackendIs DEF Persistent, openOrCreateTable, HashMapTable_openOrCreateTable, CuckooTable_openOrCreateTable,
       RDBTable_openOrCreateTable, PBPTreeTable_openOrCreateTable, BDCCPTable_openOrCreateTable
  <1>4. IsTable(None) /\ DOMAIN None = {}
    BY NoneTable
  <1>5. IsTable(rows') /\ IsTable(ref')
    BY <1>1, <1>2, <1>3, <1>4 DEF TableType
  <1>6. Cardinality(DOMAIN rows') \in Nat
    BY <1>5, TableFinite
  <1>7. TableType'
    <2>1. <<>> \in Seq(ElementSet)
      OBVIOUS
    <2>2. numRecords' \in Int /\ miscounted' \in Int
      BY <1>2, <1>6
    <2> QED BY <1>1, <1>2, <1>5, <2>1, <2>2 DEF TableType
  <1>8. RowsInv'
    BY <1>1, <1>2, <1>3 DEF RowsInv
  <1>9. CountedInv'
    BY <1>2, <1>6 DEF CountedInv
  <1>10. ObserversAgree' /\ StreamedInv'
    BY <1>2 DEF ObserversAgree, StreamedInv
  <1>11. TrackedInv'
    <2>1. ASSUME Tracks(rows, live, twice)
          PROVE  Tracks(rows', {}, twice')
      <3>1. ASSUME NEW k \in Keys \ twice'
            PROVE  ~Has(rows', k)
        <4>1. k \notin twice /\ \A x \in live : x.key # k
          BY <1>2
        <4>2. ~Has(rows, k)
          BY <2>1, <4>1 DEF Tracks
        <4> QED BY <1>3, <1>4, <4>2 DEF Has
      <3> QED BY <3>1 DEF Tracks
    <2>2. Unique({}, twice') /\ {} \subseteq [key : Keys, rec : Records]
      BY DEF Unique
    <2> QED BY <1>1, <1>2, <2>1, <2>2 DEF TrackedInv
  <1>12. TxType'
    <2>1. <<>> \in Seq(EntrySet)
      OBVIOUS
    <2>2. [t \in Txs |-> <<>>] \in [Txs -> Seq(EntrySet)]
      BY <2>1
    <2>3. reopens' \in Nat
      BY <1>1, <1>2 DEF TxType
    <2> QED BY <1>1, <1>2, <2>2, <2>3 DEF TxType
  <1>13. SerialInv'
    <2>1. SUFFICES ASSUME program = "tx", ~torn', backend = "RDBTable" \/ reopens' = 0
                   PROVE  rows' = After(None, Done')
      BY <1>2 DEF SerialInv
    <2>2. ~torn /\ committing = NoTx
      BY <1>2, <2>1
    <2>3. backend = "RDBTable"
      <3>1. reopens' # 0
        BY <1>1, <1>2 DEF TxType
      <3> QED BY <2>1, <3>1
    <2>4. Done = committed /\ Done' = committed
      BY <1>2, <2>2 DEF Done
    <2>5. rows = After(None, committed)
      BY <1>1, <2>1, <2>2, <2>3, <2>4 DEF SerialInv
    <2>6. rows' = rows
      BY <1>3, <2>3 DEF Persistent
    <2> QED BY <2>4, <2>5, <2>6
  <1> QED BY <1>7, <1>8, <1>9, <1>10, <1>11, <1>12, <1>13 DEF TablesInv

\* FromTable's thread and its destructor: what is pending is published, or stays.
LEMMA FromTableKeeps ==
    ASSUME TablesInv, producer \/ destroyBegins \/ destroyEnds
    PROVE  TablesInv'
  <1>1. TableType /\ TxType /\ RowsInv /\ ObserversAgree /\ CountedInv /\ StreamedInv /\ TrackedInv /\ SerialInv
    BY DEF TablesInv
  <1>2. /\ \/ pending' = <<>> /\ published' = published \o pending
           \/ pending' = pending /\ published' = published
        /\ UNCHANGED <<backend, program, observer, rows, numRecords, ref, faithful, announced, notes, reopens, miscounted,
                       logBuffer, committing, committed, torn, live, twice>>
    <2>1. CASE producerTests
      BY <2>1 DEF producerTests, txVars, streamVars
    <2>2. CASE producerLocks
      BY <2>2 DEF producerLocks, txVars, streamVars
    <2>3. CASE destroyBegins
      BY <2>3 DEF destroyBegins, txVars, streamVars
    <2>4. CASE destroyEnds
      BY <2>4 DEF destroyEnds, txVars, streamVars
    <2> QED BY <2>1, <2>2, <2>3, <2>4 DEF producer
  <1>3. /\ published \in Seq(ElementSet) /\ pending \in Seq(ElementSet) /\ <<>> \in Seq(ElementSet)
        /\ published \o pending \in Seq(ElementSet)
        /\ (published \o pending) \o <<>> = published \o pending
    BY <1>1 DEF TableType
  <1>4. TableType' /\ RowsInv' /\ CountedInv'
    BY <1>1, <1>2, <1>3 DEF TableType, RowsInv, CountedInv
  <1>5. ObserversAgree' /\ TrackedInv'
    BY <1>1, <1>2 DEF ObserversAgree, TrackedInv
  <1>6. StreamedInv'
    <2>1. published' \o pending' = published \o pending
      BY <1>2, <1>3
    <2> QED BY <1>1, <1>2, <2>1 DEF StreamedInv
  <1>7. TxType' /\ SerialInv'
    BY <1>1, <1>2, TxKept
  <1> QED BY <1>4, <1>5, <1>6, <1>7 DEF TablesInv

LEMMA ApiLeaves ==
    ASSUME Api
    PROVE  UNCHANGED <<program, backend, reopens>>
  <1>1. ASSUME NEW k \in Keys, NEW v \in Records, Insert(k, v)
        PROVE  UNCHANGED <<program, backend, reopens>>
    BY <1>1 DEF Insert, Call
  <1>2. ASSUME NEW k \in Keys, DeleteByKey(k)
        PROVE  UNCHANGED <<program, backend, reopens>>
    BY <1>2 DEF DeleteByKey, Call
  <1>3. CASE Call(deleteWhere, Restrict(ref, DOMAIN ref \ Matching(ref)), FALSE, 0)
    BY <1>3 DEF Call
  <1>4. ASSUME NEW k \in Keys, NEW keep \in BOOLEAN, NEW ins \in BOOLEAN, UpdateOrDeleteByKey(k, keep, ins, 0)
        PROVE  UNCHANGED <<program, backend, reopens>>
    BY <1>4 DEF UpdateOrDeleteByKey, Call
  <1>5. ASSUME NEW k \in Keys, Call(updateByKey(k), DocUpdate({k}), NotTold, 0)
        PROVE  UNCHANGED <<program, backend, reopens>>
    BY <1>5 DEF Call
  <1>6. CASE Call(updateWhere, DocUpdate(Matching(ref)), FALSE, 0)
    BY <1>6 DEF Call
  <1>7. CASE SelectFromTable
    BY <1>7 DEF SelectFromTable, Call
  <1>8. CASE Call(truncate, None, TRUE, -miscounted)
    BY <1>8 DEF Call
  <1> QED BY <1>1, <1>2, <1>3, <1>4, <1>5, <1>6, <1>7, <1>8 DEF Api

LEMMA TableStepKeeps ==
    ASSUME TablesInv, TableStep
    PROVE  TablesInv'
  <1>1. TableType /\ TxType /\ RowsInv /\ ObserversAgree /\ CountedInv /\ StreamedInv /\ TrackedInv /\ SerialInv
    BY DEF TablesInv
  <1>2. CASE Api
    <2>1. TableType' /\ RowsInv' /\ ObserversAgree' /\ CountedInv'
      BY <1>2, ApiKeeps
    <2>2. program = "api" /\ UNCHANGED <<program, backend, reopens, logBuffer, committing, committed, torn, live, twice>>
      <3>1. program = "api" /\ UNCHANGED <<txVars, streamVars>>
        BY <1>2 DEF Api
      <3>2. UNCHANGED <<program, backend, reopens>>
        BY <1>2, ApiLeaves
      <3> QED BY <3>1, <3>2 DEF txVars, streamVars
    <2>3. StreamedInv' /\ TrackedInv'
      BY <1>1, <2>2 DEF StreamedInv, TrackedInv
    <2>4. TxType' /\ SerialInv'
      BY <1>1, <2>2 DEF TxType, SerialInv
    <2> QED BY <2>1, <2>3, <2>4 DEF TablesInv
  <1>3. ASSUME NEW e \in [key : Keys, rec : Records], NEW outdated \in BOOLEAN, ToTable(e, outdated)
        PROVE  TablesInv'
    <2>1. program = "stream" /\ UNCHANGED <<program, backend, reopens, logBuffer, committing, committed, torn>>
      BY <1>3 DEF ToTable, Insert, DeleteByKey, Call, txVars
    <2>2. TxType' /\ SerialInv'
      BY <1>1, <2>1 DEF TxType, SerialInv
    <2>3. TableType' /\ RowsInv' /\ ObserversAgree' /\ CountedInv' /\ StreamedInv' /\ TrackedInv'
      BY <1>3, ToTableKeeps
    <2> QED BY <2>2, <2>3 DEF TablesInv
  <1>4. ASSUME NEW t \in Txs, NEW entry \in EntrySet, Log(t, entry)
        PROVE  TablesInv'
    <2>1. /\ committing.tx # t /\ logBuffer' = [logBuffer EXCEPT ![t] = Append(logBuffer[t], entry)]
          /\ UNCHANGED <<backend, program, rows, ref, numRecords, miscounted, observer, faithful, announced, notes,
                         pending, published, interrupted, live, twice, committing, committed, torn, reopens>>
      BY <1>4 DEF Log, streamVars
    <2>2. PICK log : log = Append(logBuffer[t], entry)
      OBVIOUS
    <2>3. log \in Seq(EntrySet)
      BY <1>1, <2>2 DEF TxType
    <2>4. TxType' /\ SerialInv'
      BY <2>1, <2>2, <2>3, LogsKept
    <2>5. TableType' /\ RowsInv' /\ ObserversAgree' /\ CountedInv' /\ StreamedInv' /\ TrackedInv'
      BY <1>1, <2>1, TableKept
    <2> QED BY <2>4, <2>5 DEF TablesInv
  <1>5. ASSUME NEW t \in Txs, NEW k \in Keys, NEW v \in Records, insertTx(t, k, v)
        PROVE  TablesInv'
    <2>1. [op |-> "Insert", key |-> k, rec |-> v] \in EntrySet
      BY DEF EntrySet
    <2> QED BY <1>4, <1>5, <2>1 DEF insertTx
  <1>6. ASSUME NEW t \in Txs, NEW k \in Keys, deleteByKeyTx(t, k)
        PROVE  TablesInv'
    <2>1. [op |-> "Delete", key |-> k, rec |-> 0] \in EntrySet
      BY RecordsClosed DEF EntrySet
    <2> QED BY <1>4, <1>6, <2>1 DEF deleteByKeyTx
  <1>7. ASSUME NEW t \in Txs, transactionAbort(t)
        PROVE  TablesInv'
    <2>1. /\ committing.tx # t /\ logBuffer' = [logBuffer EXCEPT ![t] = <<>>]
          /\ UNCHANGED <<backend, program, rows, ref, numRecords, miscounted, observer, faithful, announced, notes,
                         pending, published, interrupted, live, twice, committing, committed, torn, reopens>>
      BY <1>7 DEF transactionAbort, tableVars, streamVars
    <2>2. <<>> \in Seq(EntrySet)
      OBVIOUS
    <2>3. TxType' /\ SerialInv'
      BY <2>1, <2>2, LogsKept
    <2>4. TableType' /\ RowsInv' /\ ObserversAgree' /\ CountedInv' /\ StreamedInv' /\ TrackedInv'
      BY <1>1, <2>1, TableKept
    <2> QED BY <2>3, <2>4 DEF TablesInv
  <1>8. ASSUME NEW t \in Txs, transactionCommit(t)
        PROVE  TablesInv'
    <2>1. UNCHANGED <<backend, program, rows, ref, numRecords, miscounted, observer, faithful, announced, notes,
                      pending, published, interrupted, live, twice>>
      BY <1>8 DEF transactionCommit, tableVars, streamVars
    <2>2. TableType' /\ RowsInv' /\ ObserversAgree' /\ CountedInv' /\ StreamedInv' /\ TrackedInv'
      BY <1>1, <2>1, TableKept
    <2> QED BY <1>8, <2>2, CommitBegins DEF TablesInv
  <1>9. CASE commitEnd
    <2>1. UNCHANGED <<backend, program, rows, ref, numRecords, miscounted, observer, faithful, announced, notes,
                      pending, published, interrupted, live, twice>>
      BY <1>9 DEF commitEnd, tableVars, streamVars
    <2>2. TableType' /\ RowsInv' /\ ObserversAgree' /\ CountedInv' /\ StreamedInv' /\ TrackedInv'
      BY <1>1, <2>1, TableKept
    <2> QED BY <1>9, <2>2, CommitEnds DEF TablesInv
  <1> QED BY <1>2, <1>3, <1>5, <1>6, <1>7, <1>8, <1>9, DropKeeps, ReopenKeeps, FromTableKeeps, CommitGoesOn, UntransactedKeeps
          DEF TableStep

LEMMA InitTables ==
    ASSUME Init
    PROVE  TablesInv
  <1>1. /\ backend \in Backends /\ (program = "tx" => backend \in Exact)
        /\ rows = None /\ numRecords = 0 /\ ref = None /\ notes = <<>> /\ pending = <<>> /\ published = <<>>
        /\ reopens = 0 /\ miscounted = 0 /\ live = {} /\ twice = {}
        /\ logBuffer = [t \in Txs |-> <<>>] /\ committing = NoTx /\ committed = <<>>
    BY DEF Init, Exact
  <1>2. observer \in {"Immediate", "OnCommit"}
    <2>1. ASSUME NEW mode, registerObserver(mode)
          PROVE  observer = mode
      BY <1>1, <2>1, TablesAssumption DEF registerObserver, HashMapTable_registerObserver, CuckooTable_registerObserver,
         RDBTable_registerObserver, PBPTreeTable_registerObserver, BDCCPTable_registerObserver
    <2>2. registerObserver("Immediate") \/ registerObserver("OnCommit")
      BY DEF Init
    <2> QED BY <2>1, <2>2
  <1>3. IsTable(None) /\ DOMAIN None = {} /\ Cardinality({}) = 0
    BY NoneTable, FS_EmptySet
  <1>4. /\ <<>> \in Seq(NoteSet) /\ <<>> \in Seq(ElementSet) /\ <<>> \in Seq(EntrySet) /\ <<>> \in Seq(OperationSet)
        /\ <<>> \o <<>> = <<>>
    OBVIOUS
  <1>5. TableType
    BY <1>1, <1>2, <1>3, <1>4 DEF TableType
  <1>6. TxType
    <2>1. [t \in Txs |-> <<>>] \in [Txs -> Seq(EntrySet)]
      BY <1>4
    <2> QED BY <1>1, <1>4, <2>1 DEF TxType
  <1>7. RowsInv /\ CountedInv
    BY <1>1, <1>3 DEF RowsInv, CountedInv
  <1>8. ObserversAgree
    <2>1. Len(NoteLog(<<>>)) = 0
      BY <1>4, NoteLogSeq
    <2>2. After(None, NoteLog(<<>>)) = None
      BY <2>1, AfterNothing
    <2> QED BY <1>1, <2>2 DEF ObserversAgree
  <1>9. StreamedInv
    <2>1. Len(StreamLog(<<>>, TRUE)) = 0 /\ Len(StreamLog(<<>>, FALSE)) = 0
      BY <1>4, StreamLogSeq
    <2>2. After(None, StreamLog(<<>>, TRUE)) = None /\ After(None, StreamLog(<<>>, FALSE)) = None
      BY <2>1, AfterNothing
    <2> QED BY <1>1, <1>3, <1>4, <2>2 DEF StreamedInv, Apart
  <1>10. TrackedInv
    BY <1>1, <1>3 DEF TrackedInv, Unique, Tracks, Has
  <1>11. SerialInv
    <2>1. Done = <<>> /\ Len(<<>>) = 0
      BY <1>1 DEF Done
    <2>2. After(None, <<>>) = None
      BY <2>1, AfterNothing
    <2> QED BY <1>1, <2>1, <2>2 DEF SerialInv
  <1> QED BY <1>5, <1>6, <1>7, <1>8, <1>9, <1>10, <1>11 DEF TablesInv

LEMMA NextTables ==
    ASSUME TablesInv, [Next]_vars
    PROVE  TablesInv'
  <1>1. CASE TableStep
    BY <1>1, TableStepKeeps
  <1>2. CASE UNCHANGED <<tableVars, txVars, streamVars>>
    <2>1. TableType /\ TxType /\ RowsInv /\ ObserversAgree /\ CountedInv /\ StreamedInv /\ TrackedInv /\ SerialInv
      BY DEF TablesInv
    <2>2. UNCHANGED <<backend, program, rows, ref, numRecords, miscounted, observer, faithful, announced, notes,
                      pending, published, interrupted, live, twice>>
      BY <1>2 DEF tableVars, streamVars
    <2>3. UNCHANGED <<program, backend, rows, logBuffer, committing, committed, torn, reopens>>
      BY <1>2 DEF tableVars, txVars
    <2>4. TableType' /\ RowsInv' /\ ObserversAgree' /\ CountedInv' /\ StreamedInv' /\ TrackedInv'
      BY <2>1, <2>2, TableKept
    <2>5. TxType' /\ SerialInv'
      BY <2>1, <2>3, TxKept
    <2> QED BY <2>4, <2>5 DEF TablesInv
  <1> QED BY <1>1, <1>2 DEF Next, vars

\* Whatever is called, in any order, across restarts, and for any number of
\* keys, records and operations: HashMapTable and RDBTable read as documented;
\* who replays the notifications of any of the five tables has the table until
\* it deviates; RDBTable's counter is wrong by exactly the keys replaced,
\* update-deleted and dropped; FromTable's stream reproduces the table to who
\* inverts its flag, and a table without a common key to who does not; and
\* ToTable has the live element of every key that never had two.
THEOREM BackendsStayExact == Spec => []BackendsExact
  <1>1. TablesInv => BackendsExact
    <2> SUFFICES ASSUME TablesInv
                 PROVE  BackendsExact
      OBVIOUS
    <2>1. TableType /\ RowsInv /\ ObserversAgree /\ CountedInv /\ StreamedInv /\ TrackedInv
      BY DEF TablesInv
    <2>2. TableAsDocumented
      <3>1. SUFFICES ASSUME backend \in Exact
                     PROVE  /\ \A k \in Keys : getByKey(k) = {ref[x] : x \in DOMAIN ref \intersect {k}}
                            /\ scan(Records) = DOMAIN ref
                            /\ scan({v \in Records : Selected(v)}) = Matching(ref)
        BY DEF TableAsDocumented, Exact
      <3>2. rows = ref /\ IsTable(ref)
        BY <2>1, <3>1 DEF RowsInv, TableType
      <3>3. ASSUME NEW k
            PROVE  getByKey(k) = {ref[x] : x \in DOMAIN ref \intersect {k}}
        BY <3>1, <3>2 DEF Exact, getByKey, HashMapTable_getByKey, RDBTable_getByKey
      <3>4. ASSUME NEW func
            PROVE  scan(func) = {k \in DOMAIN ref : ref[k] \in func}
        BY <3>1, <3>2 DEF Exact, scan, HashMapIterator, RDBTableIterator
      <3>5. \A k \in DOMAIN ref : ref[k] \in Records
        BY <3>2 DEF IsTable
      <3>6. scan(Records) = DOMAIN ref
        BY <3>4, <3>5
      <3>7. scan({v \in Records : Selected(v)}) = Matching(ref)
        <4>1. scan({v \in Records : Selected(v)}) = {k \in DOMAIN ref : ref[k] \in {v \in Records : Selected(v)}}
          BY <3>4
        <4> QED BY <3>5, <4>1 DEF Matching
      <3> QED BY <3>3, <3>6, <3>7
    <2>3. SizeCounts
      <3>1. Cardinality(DOMAIN rows) \in Nat
        BY <2>1, TableFinite DEF TableType
      <3> QED BY <2>1, <3>1, BackendIs DEF SizeCounts, CountedInv, size, HashMapTable_size, CuckooTable_size, RDBTable_size,
              PBPTreeTable_size, BDCCPTable_size
    <2>4. StreamReplaysTable
      <3>1. published \in Seq(ElementSet)
        BY <2>1 DEF TableType
      <3>2. published \o <<>> = published
        BY <3>1
      <3> QED BY <2>1, <3>2 DEF StreamReplaysTable, StreamedInv, Exact, Apart
    <2>5. ToTableTracks
      <3>1. SUFFICES ASSUME program = "stream", backend # "BDCCPTable", NEW k \in Keys \ twice
                     PROVE  IF \E e \in live : e.key = k THEN Has(rows, k) /\ rows[k] = Latest(k).rec ELSE ~Has(rows, k)
        BY DEF ToTableTracks
      <3>2. /\ \A x \in live : x.key = k => Has(rows, k) /\ rows[k] = x.rec
            /\ (\A x \in live : x.key # k) => ~Has(rows, k)
        BY <2>1, <3>1 DEF TrackedInv, Tracks
      <3>3. (\E e \in live : e.key = k) => Latest(k) \in live /\ Latest(k).key = k
        BY DEF Latest
      <3> QED BY <3>2, <3>3
    <2> QED BY <2>1, <2>2, <2>3, <2>4, <2>5 DEF BackendsExact
  <1> QED BY <1>1, InitTables, NextTables, PTL DEF Spec

\* The transactions of a TxTable are serial, for any number of transactions,
\* operations and keys: commits do not overlap (tblMtx), and what the table
\* holds in the middle of one is the committed operations and its own first
\* entries.
THEOREM TransactionsStaySerial == Spec => []TxSerial
  <1>1. TablesInv => TxSerial
    <2> SUFFICES ASSUME TablesInv, program = "tx", committing = NoTx, ~torn, backend = "RDBTable" \/ reopens = 0
                 PROVE  LET t == After(None, committed)
                        IN /\ \A k \in Keys : TxTable_getByKey(k) = {t[x] : x \in DOMAIN t \intersect {k}}
                           /\ TxTable_select({v \in Records : Selected(v)}) = Matching(t)
                           /\ backend = "HashMapTable" => TxTable_size = Cardinality(DOMAIN t)
      BY DEF TxSerial
    <2>1. TableType /\ SerialInv
      BY DEF TablesInv
    <2>2. After(None, committed) = rows
      BY <2>1 DEF SerialInv, Done
    <2>3. backend \in Exact /\ IsTable(rows)
      BY <2>1 DEF TableType
    <2>4. ASSUME NEW k
          PROVE  TxTable_getByKey(k) = {rows[x] : x \in DOMAIN rows \intersect {k}}
      BY <2>3 DEF Exact, TxTable_getByKey, getByKey, HashMapTable_getByKey, RDBTable_getByKey
    <2>5. TxTable_select({v \in Records : Selected(v)}) = Matching(rows)
      <3>1. TxTable_select({v \in Records : Selected(v)}) = {k \in DOMAIN rows : rows[k] \in {v \in Records : Selected(v)}}
        BY <2>3 DEF Exact, TxTable_select, scan, HashMapIterator, RDBTableIterator
      <3>2. \A k \in DOMAIN rows : rows[k] \in Records
        BY <2>3 DEF IsTable
      <3> QED BY <3>1, <3>2 DEF Matching
    <2>6. backend = "HashMapTable" => TxTable_size = Cardinality(DOMAIN rows)
      BY DEF TxTable_size, size, HashMapTable_size
    <2> QED BY <2>2, <2>4, <2>5, <2>6
  <1> QED BY <1>1, InitTables, NextTables, PTL DEF Spec
=============================================================================
