----------------------------- MODULE MVCCObject -----------------------------
(***************************************************************************)
(* The version array that MVCCTable keeps for one key (struct MVCCObject,  *)
(* src/table/MVCCTable.hpp).  An object has a fixed number of slots; the   *)
(* bitmap `usedSlots' says which of them hold a version, `headers' gives   *)
(* the validity interval [cts, dts) of each version and `values' its       *)
(* record.  Everything here is a pure operator: the tables that use them   *)
(* decide under which lock they run.                                       *)
(***************************************************************************)
EXTENDS Integers, FiniteSets

CONSTANTS
    VERSIONS,   \* number of version slots of an object (2 in the code)
    MaxTxID,    \* bound: the largest transaction ID ever handed out
    Values      \* the records a stream element can carry

ASSUME VersionsAssumption == VERSIONS \in Nat /\ VERSIONS >= 2
ASSUME MaxTxIDAssumption == MaxTxID \in Nat /\ MaxTxID >= 1
ASSUME ValuesAssumption == Values \subseteq Nat

Slots == 0 .. VERSIONS - 1

\* std::numeric_limits<TransactionID>::max(): larger than every real ID.
DTS_INF == MaxTxID + 1

TS == 0 .. DTS_INF

\* The content of a slot that never held a record.
NoValue == -1

MVCCObjects == [used : SUBSET Slots,
                cts  : [Slots -> TS],
                dts  : [Slots -> TS],
                val  : [Slots -> Values \cup {NoValue}]]

\* A default-constructed object.  It also stands for a key that the table
\* does not contain: an object that is in a table always has a used slot.
EmptyObject == [used |-> {},
                cts  |-> [i \in Slots |-> DTS_INF],
                dts  |-> [i \in Slots |-> 0],
                val  |-> [i \in Slots |-> NoValue]]

\* The used slots whose version is valid at timestamp ts.
Visible(o, ts) == {i \in o.used : o.cts[i] <= ts /\ ts < o.dts[i]}

\* Mutant of GetCurrent: the newest version, whatever the snapshot.
GetCurrentNewest(o, ts) == {i \in o.used : o.dts[i] = DTS_INF}

\* getCurrent(txnID) returns the first slot that is valid at txnID.  It is
\* stated as the set of the slots it may return: empty stands for -1.
GetCurrent(o, ts) ==
    {i \in Visible(o, ts) : \A j \in Visible(o, ts) : i <= j}

\* getFreePos(usedSlots): the position of the lowest clear bit; the empty
\* set stands for a position beyond the last version slot.
GetFreePos(o) ==
    {i \in Slots \ o.used : \A j \in Slots \ o.used : i <= j}

\* Mutants of NewEntry: the previous version stays open; it ends one
\* timestamp too late.
NewEntryKeepsOpen(o, tx, iPos, dPos, v) ==
    [used |-> o.used \cup {iPos},
     cts  |-> [o.cts EXCEPT ![iPos] = tx],
     dts  |-> [o.dts EXCEPT ![iPos] = DTS_INF],
     val  |-> [o.val EXCEPT ![iPos] = v]]

NewEntryClosesLate(o, tx, iPos, dPos, v) ==
    [used |-> o.used \cup {iPos},
     cts  |-> [o.cts EXCEPT ![iPos] = tx],
     dts  |-> [o.dts EXCEPT ![iPos] = DTS_INF, ![dPos] = tx + 1],
     val  |-> [o.val EXCEPT ![iPos] = v]]

\* newEntry(txnID, iPos, dPos, value), run under the key's bucket lock.
NewEntry(o, tx, iPos, dPos, v) ==
    [used |-> o.used \cup {iPos},
     cts  |-> [o.cts EXCEPT ![iPos] = tx],
     dts  |-> [o.dts EXCEPT ![iPos] = DTS_INF, ![dPos] = tx],
     val  |-> [o.val EXCEPT ![iPos] = v]]

\* The first version of a key that the table does not contain yet.
FirstEntry(tx, v) ==
    [used |-> {0},
     cts  |-> [i \in Slots |-> IF i = 0 THEN tx ELSE DTS_INF],
     dts  |-> [i \in Slots |-> IF i = 0 THEN DTS_INF ELSE 0],
     val  |-> [i \in Slots |-> IF i = 0 THEN v ELSE NoValue]]

\* cleanUpVersions(oldestReadVersion): free every slot whose version ended
\* at or before the oldest snapshot in use.
CleanUpVersions(o, oldest) ==
    LET dead == {i \in Slots : o.dts[i] <= oldest}
    IN  [used |-> o.used \ dead,
         cts  |-> [i \in Slots |-> IF i \in dead THEN DTS_INF ELSE o.cts[i]],
         dts  |-> [i \in Slots |-> IF i \in dead THEN 0 ELSE o.dts[i]],
         val  |-> o.val]
=============================================================================
