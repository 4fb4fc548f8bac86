----------------------------- MODULE StateContext -----------------------------
(***************************************************************************)
(* The slots of active transactions in a StateContext: a bitmap that       *)
(* threads change by compare-and-exchange, an array with ID and read       *)
(* timestamp of each slot's transaction, and the two scans over it,        *)
(* getOldestActiveTx and recalcOldestVisible, which run while transactions *)
(* begin and end.                                                          *)
(*                                                                         *)
(* usedSlots has no initial value: Init lets it be any set of slots.       *)
(***************************************************************************)
EXTENDS Integers, FiniteSets, FiniteSetsExt

CONSTANTS NumSlots,     \* 64 in the code
          Clients,      \* the threads with transactions
          MaxTxID,      \* bound: transactions
          MaxScans      \* bound: scans

ASSUME ContextAssumption == NumSlots \in Nat /\ MaxTxID \in Nat /\ IsFiniteSet(Clients)

VARIABLES nextTxID, lastCTS, oldestVisibleVersion,
          usedSlots, slotID, slotRead,   \* activeTxs: transaction ID, ReadCTS
          pc, txnID, pos, expected,      \* each thread; the bitmap it has loaded
          gc,                            \* the scan that is running
          scans,
          phantom,                       \* bits that were set in the beginning
          leaked                         \* slots that aborted transactions left

slotVars == <<usedSlots, slotID, slotRead>>
clientVars == <<pc, txnID, pos, expected>>
ctxVars == <<nextTxID, lastCTS, oldestVisibleVersion, slotVars, clientVars, gc, scans, phantom, leaked>>

Slots == 0 .. NumSlots - 1
DTS_INF == MaxTxID + 2
NoScan == [kind |-> "none", todo |-> {}, newMin |-> 0, running |-> <<>>]

ContextInit ==
    /\ nextTxID = 2 /\ lastCTS = 1 /\ oldestVisibleVersion = 0
    /\ usedSlots \in SUBSET Slots /\ phantom = usedSlots
    /\ slotID = [s \in Slots |-> 0] /\ slotRead = [s \in Slots |-> 0]
    /\ pc = [c \in Clients |-> "idle"] /\ txnID = [c \in Clients |-> 0]
    /\ pos = [c \in Clients |-> 0] /\ expected = [c \in Clients |-> {}]
    /\ gc = NoScan /\ scans = 0 /\ leaked = 0

Goto(c, next) == pc' = [pc EXCEPT ![c] = next]
End(c) ==
    /\ Goto(c, "idle")
    /\ txnID' = [txnID EXCEPT ![c] = 0] /\ pos' = [pos EXCEPT ![c] = 0] /\ expected' = [expected EXCEPT ![c] = {}]

----------------------------------------------------------------------------
\* Mutant of getFreePos: the last slot is taken for none.
getFreePosButLast(v) == Min((Slots \ v) \union {NumSlots}) + (IF Slots \ v = {NumSlots - 1} THEN 1 ELSE 0)

\* The position of the first 0, NumSlots if there is none.
getFreePos(v) == Min((Slots \ v) \union {NumSlots})

\* The search in activeTxs: it looks at released slots, too, and does not end
\* if no slot holds the ID.
getPosFromTxnID(id) == {s \in Slots : slotID[s] = id /\ \A z \in Slots : z < s => slotID[z] # id}

Registered == {c \in Clients : pc[c] \in {"active", "reset"}}
MyRead(c) == slotRead[CHOOSE s \in getPosFromTxnID(txnID[c]) : TRUE]

\* newTx: the ID, then the first load of getSetFreePos.
newTx(c) ==
    /\ pc[c] = "idle" /\ nextTxID <= MaxTxID
    /\ nextTxID' = nextTxID + 1
    /\ txnID' = [txnID EXCEPT ![c] = nextTxID]
    /\ expected' = [expected EXCEPT ![c] = usedSlots]
    /\ Goto(c, "claim")
    /\ UNCHANGED <<lastCTS, oldestVisibleVersion, slotVars, pos, gc, scans, phantom, leaked>>

\* Mutant of getSetFreePos: the bitmap is stored without a comparison.
getSetFreePosStores(c) ==
    /\ pc[c] = "claim"
    /\ getFreePos(expected[c]) # NumSlots
    /\ pos' = [pos EXCEPT ![c] = getFreePos(expected[c])]
    /\ usedSlots' = expected[c] \union {getFreePos(expected[c])}
    /\ Goto(c, "assign")
    /\ UNCHANGED <<nextTxID, lastCTS, oldestVisibleVersion, slotID, slotRead, txnID, expected, gc, scans, phantom,
                   leaked>>

\* The compare-and-exchange of getSetFreePos.  With all slots in use the
\* position is one behind the array, and what happens then is undefined.
getSetFreePos(c) ==
    LET free == getFreePos(expected[c])
    IN  /\ pc[c] = "claim"
        /\ \/ /\ usedSlots # expected[c]
              /\ expected' = [expected EXCEPT ![c] = usedSlots]
              /\ UNCHANGED <<pc, pos, usedSlots>>
           \/ /\ usedSlots = expected[c] /\ free # NumSlots
              /\ usedSlots' = usedSlots \union {free}
              /\ pos' = [pos EXCEPT ![c] = free]
              /\ Goto(c, "assign")
              /\ expected' = [expected EXCEPT ![c] = {}]
           \/ /\ usedSlots = expected[c] /\ free = NumSlots
              /\ Goto(c, "overrun")
              /\ UNCHANGED <<expected, pos, usedSlots>>
        /\ UNCHANGED <<nextTxID, lastCTS, oldestVisibleVersion, slotID, slotRead, txnID, gc, scans, phantom, leaked>>

\* The rest of newTx: the slot showed the transaction before it until now.
fillSlot(c) ==
    /\ pc[c] = "assign"
    /\ slotID' = [slotID EXCEPT ![pos[c]] = txnID[c]]
    /\ slotRead' = [slotRead EXCEPT ![pos[c]] = 0]
    /\ Goto(c, "active")
    /\ UNCHANGED <<nextTxID, lastCTS, oldestVisibleVersion, usedSlots, txnID, pos, expected, gc, scans, phantom,
                   leaked>>

\* A query stores the snapshot it has read from lastCTS.
setReadCTS(c) ==
    /\ pc[c] = "active"
    /\ \E s \in getPosFromTxnID(txnID[c]) : slotRead[s] = 0 /\ slotRead' = [slotRead EXCEPT ![s] = lastCTS]
    /\ UNCHANGED <<nextTxID, lastCTS, oldestVisibleVersion, usedSlots, slotID, clientVars, gc, scans, phantom, leaked>>

\* A writer has committed; there is one writer at a time.
setLastCTS(c) ==
    /\ pc[c] = "active" /\ MyRead(c) = 0 /\ lastCTS < txnID[c]
    /\ lastCTS' = txnID[c]
    /\ Goto(c, "reset")
    /\ UNCHANGED <<nextTxID, oldestVisibleVersion, slotVars, txnID, pos, expected, gc, scans, phantom, leaked>>

\* An aborted transaction is not removed.
abort(c) ==
    /\ pc[c] = "active"
    /\ leaked' = leaked + 1
    /\ End(c)
    /\ UNCHANGED <<nextTxID, lastCTS, oldestVisibleVersion, slotVars, gc, scans, phantom>>

\* removeTx: the read timestamp is reset, then the bitmap is loaded ...
removeTx(c) ==
    /\ pc[c] \in {"active", "reset"}
    /\ \E s \in getPosFromTxnID(txnID[c]) : /\ slotRead' = [slotRead EXCEPT ![s] = 0]
                                            /\ pos' = [pos EXCEPT ![c] = s]
    /\ expected' = [expected EXCEPT ![c] = usedSlots]
    /\ Goto(c, "release")
    /\ UNCHANGED <<nextTxID, lastCTS, oldestVisibleVersion, usedSlots, slotID, txnID, gc, scans, phantom, leaked>>

\* Mutant of unsetPos: the bitmap is stored without a comparison.
unsetPosStores(c) ==
    /\ pc[c] = "release"
    /\ usedSlots' = expected[c] \ {pos[c]}
    /\ End(c)
    /\ UNCHANGED <<nextTxID, lastCTS, oldestVisibleVersion, slotID, slotRead, gc, scans, phantom, leaked>>

\* ... and exchanged, if it is still the same.
unsetPos(c) ==
    /\ pc[c] = "release"
    /\ \/ /\ usedSlots # expected[c]
          /\ expected' = [expected EXCEPT ![c] = usedSlots]
          /\ UNCHANGED <<pc, txnID, pos, usedSlots>>
       \/ /\ usedSlots = expected[c]
          /\ usedSlots' = usedSlots \ {pos[c]}
          /\ End(c)
    /\ UNCHANGED <<nextTxID, lastCTS, oldestVisibleVersion, slotID, slotRead, gc, scans, phantom, leaked>>

----------------------------------------------------------------------------
(* The scans, in a thread of their own.  gc.running remembers, for the     *)
(* properties, ID and snapshot of the transactions that were registered    *)
(* when the scan began.                                                    *)

getOldestActiveTx ==
    /\ gc = NoScan /\ scans < MaxScans
    /\ gc' = [kind |-> "active", todo |-> usedSlots, newMin |-> DTS_INF,
                running |-> [c \in Registered |-> <<txnID[c], 0>>]]
    /\ scans' = scans + 1
    /\ UNCHANGED <<nextTxID, lastCTS, oldestVisibleVersion, slotVars, clientVars, phantom, leaked>>

\* The first time, with no bound calculated yet, the slots are not looked at.
recalcOldestVisible ==
    /\ gc = NoScan /\ scans < MaxScans
    /\ gc' = IF oldestVisibleVersion = 0
               THEN [kind |-> "visible", todo |-> {}, newMin |-> lastCTS, running |-> <<>>]
               ELSE [kind |-> "visible", todo |-> usedSlots, newMin |-> DTS_INF,
                     running |-> [c \in {x \in Registered : MyRead(x) # 0} |-> <<txnID[c], MyRead(c)>>]]
    /\ scans' = scans + 1
    /\ UNCHANGED <<nextTxID, lastCTS, oldestVisibleVersion, slotVars, clientVars, phantom, leaked>>

\* One iteration.
Seen(s) == IF gc.kind = "active" THEN slotID[s] ELSE IF slotRead[s] = 0 THEN DTS_INF ELSE slotRead[s]

\* Mutant of scanSlot: the largest value is kept.
scanSlotMax ==
    /\ gc.todo # {}
    /\ LET s == Min(gc.todo)
       IN gc' = [gc EXCEPT !.todo = @ \ {s}, !.newMin = IF @ = DTS_INF THEN Seen(s) ELSE Max({@, Seen(s)})]
    /\ UNCHANGED <<nextTxID, lastCTS, oldestVisibleVersion, slotVars, clientVars, scans, phantom, leaked>>

scanSlot ==
    /\ gc.todo # {}
    /\ LET s == Min(gc.todo)
       IN gc' = [gc EXCEPT !.todo = @ \ {s}, !.newMin = Min({@, Seen(s)})]
    /\ UNCHANGED <<nextTxID, lastCTS, oldestVisibleVersion, slotVars, clientVars, scans, phantom, leaked>>

\* The result, and for recalcOldestVisible its exchange with the old one.
Result == IF gc.kind = "visible" /\ gc.newMin = DTS_INF THEN lastCTS ELSE gc.newMin

endScan ==
    /\ gc # NoScan /\ gc.todo = {}
    /\ gc' = NoScan
    /\ oldestVisibleVersion' = IF gc.kind = "visible" THEN Max({oldestVisibleVersion, Result})
                               ELSE oldestVisibleVersion
    /\ UNCHANGED <<nextTxID, lastCTS, slotVars, clientVars, scans, phantom, leaked>>

ContextNext ==
    \/ \E c \in Clients :
          \/ newTx(c) \/ getSetFreePos(c) \/ fillSlot(c) \/ setReadCTS(c)
          \/ setLastCTS(c) \/ abort(c) \/ removeTx(c) \/ unsetPos(c)
    \/ getOldestActiveTx \/ recalcOldestVisible \/ scanSlot \/ endScan

----------------------------------------------------------------------------
InTx == {c \in Clients : pc[c] \in {"assign", "active", "reset", "release"}}

\* Threads that begin and end transactions at the same time never share a
\* slot, a transaction finds its own one by the search for its ID, and the
\* bits that belong to nobody are those of aborted transactions and those
\* that happened to be set when the context was made: nothing else uses up
\* the slots or gives a slot away that is in use (getSetFreePos, unsetPos).
SlotsOwned ==
    /\ \A c, d \in InTx : c # d => pos[c] # pos[d]
    /\ \A c \in InTx : pos[c] \in usedSlots
    /\ \A c \in InTx : pc[c] # "assign" => getPosFromTxnID(txnID[c]) = {pos[c]}
    /\ Cardinality(usedSlots) = Cardinality(phantom) + leaked + Cardinality(InTx)

\* newTx writes behind the array of slots only if there are more transactions
\* at the same time than slots that are not lost.
OverrunOnlyByLeaks ==
    (\E c \in Clients : pc[c] = "overrun") => Cardinality(phantom) + leaked + Cardinality(Clients) > NumSlots

\* What the garbage collections use is not above any transaction that was
\* registered when the scan began and still is, although others took and
\* released slots meanwhile: no version or write set that it needs is erased.
ScansConservative ==
    gc # NoScan /\ gc.todo = {} =>
        \A c \in DOMAIN gc.running \intersect Registered :
            gc.running[c][1] = txnID[c] =>
                Result <= gc.running[c][IF gc.kind = "active" THEN 1 ELSE 2]
=============================================================================
