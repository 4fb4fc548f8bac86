----------------------------- MODULE BOCCTable ------------------------------
(***************************************************************************)
(* Two tables under backward-oriented optimistic concurrency control       *)
(* (BOCCTable.hpp): one writer collects a transaction's elements, saves    *)
(* the keys of the write set with a validation timestamp, writes the       *)
(* tables in place and stamps the end; FromTxTables queries read without   *)
(* locks and validate their keys against the saved write sets afterwards.  *)
(*                                                                         *)
(* A step ends where another thread can look: at an access to a table, to  *)
(* the timestamp counter or to a slot of the StateContext, and at the      *)
(* release of dQLock.  dQLock's mutex and condition variables are one      *)
(* guard per waiting operation; every change of the awaited condition is   *)
(* made under the mutex and followed by a notification.                    *)
(***************************************************************************)
EXTENDS Integers, Sequences, FiniteSets

CONSTANTS
    Keys, Values,
    Loaded,     \* the keys that prepareTables wrote
    InitValue,  \* the value it wrote for them
    Replaces,   \* whether the backend's insert replaces an existing record
    Readers,    \* the reading topologies
    TxSize,     \* number of keys a read transaction asks for
    NumSlots,   \* slots of the StateContext (64 in the code)
    MaxTS,      \* bound: the largest timestamp ever handed out
    MaxWrites,  \* bound: stream elements per write transaction
    MaxAborts   \* bound: aborted write transactions

ASSUME DataAssumption == Loaded \subseteq Keys /\ Values \subseteq Nat /\ InitValue \in Nat
ASSUME SizeAssumption == TxSize \in Nat /\ TxSize >= 1
ASSUME ReadersAssumption == IsFiniteSet(Readers)
ASSUME SlotAssumption == NumSlots \in Nat /\ Cardinality(Readers) < NumSlots
ASSUME BackendAssumption == Replaces \in BOOLEAN
ASSUME BoundAssumption == MaxTS \in Nat /\ MaxWrites \in Nat /\ MaxAborts \in Nat

VARIABLES
    \* StateContext
    nextTxID, usedSlots,
    activeTxs,     \* the transaction ID in each slot
    \* the tables
    tbl,
    committedWSs,  \* saved write sets, the newest one first
    active_readers, active_writer,  \* dQLock of each table
    \* the writer's thread
    wpc, wtx, wslot,
    writeSet,      \* the elements collected, the same for both tables
    at,            \* the table that is saved or committed
    todo,          \* elements that transactionCommit has not written yet
    wts,           \* the timestamp drawn last
    scan, oldest,  \* getOldestActiveTx: slots to look at, minimum so far
    \* the readers' threads
    rpc, rtx, rslot, rkeys, rpos, got,
    rat,           \* the table whose readCommit runs
    rts, failed,
    \* history
    snaps,         \* the states that the committed transactions leave
    began,         \* number of commits when the reader's query began
    quiet,         \* no query has run since the last TxBegin
    aborted        \* number of aborted transactions

ctxVars == <<nextTxID, usedSlots, activeTxs>>
lockVars == <<active_readers, active_writer>>
writerVars == <<wpc, wtx, wslot, writeSet, at, todo, wts, scan, oldest>>
readerVars == <<rpc, rtx, rslot, rkeys, rpos, got, rat, rts, failed>>
histVars == <<snaps, began, quiet, aborted>>
vars == <<ctxVars, tbl, committedWSs, lockVars, writerVars, readerVars, histVars>>

Tables == {0, 1}
Slots == 0 .. NumSlots - 1
Reads == 0 .. 2 * TxSize - 1
KeyOf(r, n) == rkeys[r][(n \div 2) + 1]

DTS_INF == MaxTS + 2    \* larger than every timestamp
NoValue == -1
NoReads == [n \in Reads |-> NoValue]

(***************************************************************************)
(* What tbl.insert of v makes of a record.  The backend is chosen by the   *)
(* build: RDBTable and PBPTreeTable replace an existing record;            *)
(* CuckooTable, the default, hands v to libcuckoo's insert, which leaves   *)
(* an existing record as it is.                                            *)
(***************************************************************************)
Stored(rec, v) == IF Replaces \/ rec = NoValue THEN v ELSE rec

\* getSetFreePos: the lowest clear bit.
FreeSlot == {s \in Slots \ usedSlots : \A z \in Slots \ usedSlots : s <= z}

Init ==
    /\ nextTxID = 1 /\ usedSlots = {}
    /\ activeTxs = [s \in Slots |-> 0]
    /\ tbl = [t \in Tables |-> [k \in Keys |->
                IF k \in Loaded THEN InitValue ELSE NoValue]]
    /\ committedWSs = [t \in Tables |-> <<>>]
    /\ active_readers = [t \in Tables |-> 0]
    /\ active_writer = [t \in Tables |-> FALSE]
    /\ wpc = "idle" /\ wtx = 0 /\ wslot = 0 /\ writeSet = <<>> /\ at = 1
    /\ todo = <<>> /\ wts = 0 /\ scan = {} /\ oldest = DTS_INF
    /\ rpc = [r \in Readers |-> "idle"]
    /\ rtx = [r \in Readers |-> 0]
    /\ rslot = [r \in Readers |-> 0]
    /\ rkeys = [r \in Readers |-> <<>>]
    /\ rpos = [r \in Readers |-> 0]
    /\ got = [r \in Readers |-> NoReads]
    /\ rat = [r \in Readers |-> 0]
    /\ rts = [r \in Readers |-> 0]
    /\ failed = [r \in Readers |-> FALSE]
    /\ snaps = <<tbl[0]>>
    /\ began = [r \in Readers |-> 1]
    /\ quiet = TRUE /\ aborted = 0

-----------------------------------------------------------------------------
(***************************************************************************)
(* The writer.                                                             *)
(***************************************************************************)

\* newTx, whose parts only the writer itself can tell apart (no reader
\* looks at slots), then TxBegin at both tables.
TransactionBegin ==
    /\ wpc = "idle"
    /\ nextTxID <= MaxTS
    /\ nextTxID' = nextTxID + 1
    /\ wtx' = nextTxID
    /\ \E s \in FreeSlot : /\ wslot' = s
                           /\ usedSlots' = usedSlots \cup {s}
                           /\ activeTxs' = [activeTxs EXCEPT ![s] = nextTxID]
    /\ wpc' = "active"
    /\ quiet' = \A r \in Readers : rpc[r] = "idle"
    /\ UNCHANGED <<tbl, committedWSs, lockVars, writeSet, at, todo, wts, scan,
                   oldest, readerVars, snaps, began, aborted>>

Insert(k, v) ==
    /\ wpc = "active"
    /\ Len(writeSet) < MaxWrites
    /\ writeSet' = Append(writeSet, <<k, v>>)
    /\ UNCHANGED <<ctxVars, tbl, committedWSs, lockVars, wpc, wtx, wslot, at,
                   todo, wts, scan, oldest, readerVars, histVars>>

\* The write sets are dropped; the transaction's slot stays in use.
TransactionAbort ==
    /\ wpc = "active"
    /\ aborted < MaxAborts
    /\ writeSet' = <<>>
    /\ wtx' = 0 /\ wslot' = 0
    /\ wpc' = "idle"
    /\ aborted' = aborted + 1
    /\ UNCHANGED <<ctxVars, tbl, committedWSs, lockVars, at, todo, wts, scan,
                   oldest, readerVars, snaps, began, quiet>>

\* TxCommit passes table 0 and reaches table 1, which saves and commits
\* both, itself first.
TransactionPreCommit ==
    /\ wpc = "active"
    /\ wpc' = "valTS"
    /\ at' = 1
    /\ UNCHANGED <<ctxVars, tbl, committedWSs, lockVars, wtx, wslot, writeSet,
                   todo, wts, scan, oldest, readerVars, histVars>>

\* getNewTS for a validation or for an end timestamp.
DrawTS ==
    /\ wpc \in {"valTS", "endTS"}
    /\ nextTxID <= MaxTS
    /\ nextTxID' = nextTxID + 1
    /\ wts' = nextTxID
    /\ wpc' = IF wpc = "valTS" THEN "saveLock" ELSE "stamp"
    /\ UNCHANGED <<usedSlots, activeTxs, tbl, committedWSs, lockVars, wtx,
                   wslot, writeSet, at, todo, scan, oldest, readerVars, histVars>>

\* dQLock.lockExclusive, to save or to erase write sets.
LockExclusive ==
    /\ wpc \in {"saveLock", "eraseLock"}
    /\ active_readers[at] = 0
    /\ active_writer' = [active_writer EXCEPT ![at] = TRUE]
    /\ wpc' = IF wpc = "saveLock" THEN "save" ELSE "erase"
    /\ UNCHANGED <<ctxVars, tbl, committedWSs, active_readers, wtx, wslot,
                   writeSet, at, todo, wts, scan, oldest, readerVars, histVars>>

KeysOf(ws) == {ws[n][1] : n \in 1 .. Len(ws)}

\* The state that the elements of ws make of state s: the last element of
\* a key counts, or the first one when the backend keeps what it has.
Applied(s, ws) ==
    [k \in Keys |->
        LET pos == {n \in 1 .. Len(ws) : ws[n][1] = k}
        IN  IF pos = {} THEN s[k]
            ELSE Stored(s[k], ws[CHOOSE n \in pos : \A j \in pos :
                                    IF Replaces THEN j <= n ELSE n <= j][2])]

\* Mutant of Enter: the new write set is entered at the wrong end.
EnterBack(wss, ks) ==
    wss \o <<[keys |-> ks, valTS |-> wts, endTS |-> DTS_INF]>>

\* committedWSs.emplace_front: the transaction is still writing.
Enter(wss, ks) ==
    <<[keys |-> ks, valTS |-> wts, endTS |-> DTS_INF]>> \o wss

\* saveWriteSet enters the keys and releases dQLock.  The other table is
\* next; then the tables are written.
SaveWriteSet ==
    /\ wpc = "save"
    /\ committedWSs' = [committedWSs EXCEPT ![at] = Enter(@, KeysOf(writeSet))]
    /\ active_writer' = [active_writer EXCEPT ![at] = FALSE]
    /\ wts' = 0
    /\ at' = 1 - at
    /\ \/ /\ at = 1
          /\ wpc' = "valTS"
          /\ UNCHANGED <<todo, snaps>>
       \/ /\ at = 0
          /\ wpc' = "write"
          /\ todo' = writeSet
          /\ snaps' = Append(snaps, Applied(snaps[Len(snaps)], writeSet))
    /\ UNCHANGED <<ctxVars, tbl, active_readers, wtx, wslot, writeSet, scan,
                   oldest, readerVars, began, quiet, aborted>>

\* transactionCommit: one tbl.insert.
Write ==
    /\ wpc = "write"
    /\ todo # <<>>
    /\ tbl' = [tbl EXCEPT ![at][Head(todo)[1]] = Stored(@, Head(todo)[2])]
    /\ todo' = Tail(todo)
    /\ UNCHANGED <<ctxVars, committedWSs, lockVars, wpc, wtx, wslot, writeSet,
                   at, wts, scan, oldest, readerVars, histVars>>

EndWrite ==
    /\ wpc = "write"
    /\ todo = <<>>
    /\ wpc' = "endTS"
    /\ UNCHANGED <<ctxVars, tbl, committedWSs, lockVars, wtx, wslot, writeSet,
                   at, todo, wts, scan, oldest, readerVars, histVars>>

\* The end timestamp is stored without the lock.  getOldestActiveTx begins
\* with a load of usedSlots.
StampEnd ==
    /\ wpc = "stamp"
    /\ committedWSs' = [committedWSs EXCEPT ![at][1].endTS = wts]
    /\ scan' = usedSlots
    /\ wts' = 0
    /\ wpc' = "scan"
    /\ UNCHANGED <<ctxVars, tbl, lockVars, wtx, wslot, writeSet, at, todo,
                   oldest, readerVars, histVars>>

\* The transaction ID of the next used slot.
ScanSlot ==
    /\ wpc = "scan"
    /\ \E s \in scan : /\ \A z \in scan : s <= z
                       /\ scan' = scan \ {s}
                       /\ oldest' = IF activeTxs[s] < oldest THEN activeTxs[s]
                                                             ELSE oldest
    /\ UNCHANGED <<ctxVars, tbl, committedWSs, lockVars, wpc, wtx, wslot,
                   writeSet, at, todo, wts, readerVars, histVars>>

\* Mutant of Expired: no write set ever is.
ExpiredNever(t) == {n \in 1 .. Len(committedWSs[t]) : FALSE}

\* The positions of the write sets that ended before the oldest active
\* transaction; the committing one itself counts with its validation.
Expired(t) ==
    LET bound == IF oldest = wtx THEN committedWSs[t][1].valTS ELSE oldest
    IN  {n \in 1 .. Len(committedWSs[t]) : committedWSs[t][n].endTS <= bound}

\* The transactionCommit of this table is over.
NextTable ==
    /\ at' = 1 - at
    /\ oldest' = DTS_INF
    /\ \/ /\ at = 1
          /\ wpc' = "write"
          /\ todo' = writeSet
          /\ UNCHANGED writeSet
       \/ /\ at = 0
          /\ wpc' = "remove"
          /\ writeSet' = <<>>
          /\ UNCHANGED todo

EndScan ==
    /\ wpc = "scan"
    /\ scan = {}
    /\ \/ /\ Expired(at) = {}
          /\ NextTable
       \/ /\ Expired(at) # {}
          /\ wpc' = "eraseLock"
          /\ UNCHANGED <<at, todo, writeSet, oldest>>
    /\ UNCHANGED <<ctxVars, tbl, committedWSs, lockVars, wtx, wslot, wts, scan,
                   readerVars, histVars>>

\* The first expired write set and all older ones are erased.
EraseWriteSets ==
    /\ wpc = "erase"
    /\ \E n \in Expired(at) :
          /\ \A m \in Expired(at) : n <= m
          /\ committedWSs' = [committedWSs EXCEPT ![at] = SubSeq(@, 1, n - 1)]
    /\ active_writer' = [active_writer EXCEPT ![at] = FALSE]
    /\ NextTable
    /\ UNCHANGED <<ctxVars, tbl, active_readers, wtx, wslot, wts, scan,
                   readerVars, histVars>>

\* setLastCTS, which no BOCC transaction looks at, and removeTx.
RemoveTx ==
    /\ wpc = "remove"
    /\ usedSlots' = usedSlots \ {wslot}
    /\ wtx' = 0 /\ wslot' = 0
    /\ wpc' = "idle"
    /\ UNCHANGED <<nextTxID, activeTxs, tbl, committedWSs, lockVars, writeSet,
                   at, todo, wts, scan, oldest, readerVars, histVars>>

-----------------------------------------------------------------------------
(***************************************************************************)
(* The readers: FromTxTables::start.                                       *)
(***************************************************************************)

\* The number of transactions that are completely committed.
Committed == IF wpc \in {"idle", "active", "valTS", "saveLock", "save"}
             THEN Len(snaps) ELSE Len(snaps) - 1

StartRead(r, ks) ==
    /\ rpc[r] = "idle"
    /\ rkeys' = [rkeys EXCEPT ![r] = ks]
    /\ rpc' = [rpc EXCEPT ![r] = "begin"]
    /\ began' = [began EXCEPT ![r] = Committed]
    /\ quiet' = FALSE
    /\ UNCHANGED <<ctxVars, tbl, committedWSs, lockVars, writerVars, rtx, rslot,
                   rpos, got, rat, rts, failed, snaps, aborted>>

\* newTx draws the transaction ID ...
NewTx(r) ==
    /\ rpc[r] = "begin"
    /\ nextTxID <= MaxTS
    /\ nextTxID' = nextTxID + 1
    /\ rtx' = [rtx EXCEPT ![r] = nextTxID]
    /\ rpc' = [rpc EXCEPT ![r] = "slot"]
    /\ UNCHANGED <<usedSlots, activeTxs, tbl, committedWSs, lockVars,
                   writerVars, rslot, rkeys, rpos, got, rat, rts, failed,
                   histVars>>

\* ... then takes a slot ...
TakeSlot(r) ==
    /\ rpc[r] = "slot"
    /\ \E s \in FreeSlot : /\ usedSlots' = usedSlots \cup {s}
                           /\ rslot' = [rslot EXCEPT ![r] = s]
    /\ rpc' = [rpc EXCEPT ![r] = "register"]
    /\ UNCHANGED <<nextTxID, activeTxs, tbl, committedWSs, lockVars, writerVars,
                   rtx, rkeys, rpos, got, rat, rts, failed, histVars>>

\* ... and enters its ID there; until then the slot shows an older one.
Register(r) ==
    /\ rpc[r] = "register"
    /\ activeTxs' = [activeTxs EXCEPT ![rslot[r]] = rtx[r]]
    /\ rpc' = [rpc EXCEPT ![r] = "get"]
    /\ UNCHANGED <<nextTxID, usedSlots, tbl, committedWSs, lockVars, writerVars,
                   rtx, rslot, rkeys, rpos, got, rat, rts, failed, histVars>>

\* getByKey: a missing record restarts the reads under the same ID.
GetByKey(r) ==
    LET t == rpos[r] % 2
        k == KeyOf(r, rpos[r])
    IN  /\ rpc[r] = "get"
        /\ \/ /\ tbl[t][k] = NoValue
              /\ rpos' = [rpos EXCEPT ![r] = 0]
              /\ got' = [got EXCEPT ![r] = NoReads]
              /\ UNCHANGED rpc
           \/ /\ tbl[t][k] # NoValue
              /\ got' = [got EXCEPT ![r][rpos[r]] = tbl[t][k]]
              /\ rpos' = [rpos EXCEPT ![r] = @ + 1]
              /\ rpc' = [rpc EXCEPT ![r] = IF rpos[r] + 1 \in Reads THEN "get"
                                                                   ELSE "draw"]
        /\ UNCHANGED <<ctxVars, tbl, committedWSs, lockVars, writerVars, rtx,
                       rslot, rkeys, rat, rts, failed, histVars>>

\* readCommit draws two timestamps and validates with the second one.
DrawValTS(r) ==
    /\ rpc[r] = "draw"
    /\ nextTxID + 1 <= MaxTS
    /\ nextTxID' = nextTxID + 2
    /\ rts' = [rts EXCEPT ![r] = nextTxID + 1]
    /\ rpc' = [rpc EXCEPT ![r] = "lock"]
    /\ UNCHANGED <<usedSlots, activeTxs, tbl, committedWSs, lockVars,
                   writerVars, rtx, rslot, rkeys, rpos, got, rat, failed,
                   histVars>>

LockShared(r) ==
    /\ rpc[r] = "lock"
    /\ ~active_writer[rat[r]]
    /\ active_readers' = [active_readers EXCEPT ![rat[r]] = @ + 1]
    /\ rpc' = [rpc EXCEPT ![r] = "validate"]
    /\ UNCHANGED <<ctxVars, tbl, committedWSs, active_writer, writerVars, rtx,
                   rslot, rkeys, rpos, got, rat, rts, failed, histVars>>

\* Mutant of Conflicts: only transactions that have ended count.
ConflictsEnded(r, ws) ==
    /\ rtx[r] < ws.endTS /\ ws.endTS < rts[r]
    /\ \E i \in 1 .. TxSize : rkeys[r][i] \in ws.keys

\* The transaction of ws wrote while r was reading, and wrote a key of r.
Conflicts(r, ws) ==
    /\ rtx[r] < ws.endTS /\ rts[r] > ws.valTS
    /\ \E i \in 1 .. TxSize : rkeys[r][i] \in ws.keys

InConflict(r) ==
    \E n \in 1 .. Len(committedWSs[rat[r]]) :
        Conflicts(r, committedWSs[rat[r]][n])

\* Mutant of UnlockShared: the branch that returns ABORT falls through to
\* the second unlockShared.
UnlockSharedTwice(r) ==
    active_readers' = [active_readers EXCEPT ![rat[r]] =
                          IF InConflict(r) THEN @ - 2 ELSE @ - 1]

UnlockShared(r) ==
    active_readers' = [active_readers EXCEPT ![rat[r]] = @ - 1]

\* readCommit: the saved write sets are compared and dQLock is released.
\* Both tables are validated before the outcome is looked at.
Validate(r) ==
    /\ rpc[r] = "validate"
    /\ failed' = [failed EXCEPT ![r] = @ \/ InConflict(r)]
    /\ UnlockShared(r)
    /\ rts' = [rts EXCEPT ![r] = 0]
    /\ \/ /\ rat[r] = 0
          /\ rat' = [rat EXCEPT ![r] = 1]
          /\ rpc' = [rpc EXCEPT ![r] = "draw"]
       \/ /\ rat[r] = 1
          /\ rat' = [rat EXCEPT ![r] = 0]
          /\ rpc' = [rpc EXCEPT ![r] = IF failed'[r] THEN "restart" ELSE "done"]
    /\ UNCHANGED <<ctxVars, tbl, committedWSs, active_writer, writerVars, rtx,
                   rslot, rkeys, rpos, got, histVars>>

\* Mutant of RestartRead: newTx is called without removeTx.
RestartReadKeepsSlot(r) ==
    /\ rpc[r] = "restart"
    /\ rpos' = [rpos EXCEPT ![r] = 0]
    /\ got' = [got EXCEPT ![r] = NoReads]
    /\ rtx' = [rtx EXCEPT ![r] = 0]
    /\ rslot' = [rslot EXCEPT ![r] = 0]
    /\ failed' = [failed EXCEPT ![r] = FALSE]
    /\ rpc' = [rpc EXCEPT ![r] = "begin"]
    /\ UNCHANGED <<ctxVars, tbl, committedWSs, lockVars, writerVars, rkeys, rat,
                   rts, histVars>>

\* A failed validation: removeTx, then newTx and all reads again.
RestartRead(r) ==
    /\ rpc[r] = "restart"
    /\ usedSlots' = usedSlots \ {rslot[r]}
    /\ rpos' = [rpos EXCEPT ![r] = 0]
    /\ got' = [got EXCEPT ![r] = NoReads]
    /\ rtx' = [rtx EXCEPT ![r] = 0]
    /\ rslot' = [rslot EXCEPT ![r] = 0]
    /\ failed' = [failed EXCEPT ![r] = FALSE]
    /\ rpc' = [rpc EXCEPT ![r] = "begin"]
    /\ UNCHANGED <<nextTxID, activeTxs, tbl, committedWSs, lockVars, writerVars,
                   rkeys, rat, rts, histVars>>

\* The tuples are published; removeTx.
FinishRead(r) ==
    /\ rpc[r] = "done"
    /\ usedSlots' = usedSlots \ {rslot[r]}
    /\ rtx' = [rtx EXCEPT ![r] = 0]
    /\ rslot' = [rslot EXCEPT ![r] = 0]
    /\ rkeys' = [rkeys EXCEPT ![r] = <<>>]
    /\ rpos' = [rpos EXCEPT ![r] = 0]
    /\ got' = [got EXCEPT ![r] = NoReads]
    /\ rpc' = [rpc EXCEPT ![r] = "idle"]
    /\ began' = [began EXCEPT ![r] = 1]
    /\ UNCHANGED <<nextTxID, activeTxs, tbl, committedWSs, lockVars, writerVars,
                   rat, rts, failed, snaps, quiet, aborted>>

-----------------------------------------------------------------------------
WriterStep ==
    \/ TransactionBegin
    \/ \E k \in Keys, v \in Values : Insert(k, v)
    \/ TransactionAbort
    \/ TransactionPreCommit
    \/ DrawTS \/ LockExclusive \/ SaveWriteSet
    \/ Write \/ EndWrite \/ StampEnd \/ ScanSlot \/ EndScan \/ EraseWriteSets
    \/ RemoveTx

ReaderStep(r) ==
    \/ \E ks \in [1 .. TxSize -> Keys] : StartRead(r, ks)
    \/ NewTx(r) \/ TakeSlot(r) \/ Register(r) \/ GetByKey(r)
    \/ DrawValTS(r) \/ LockShared(r) \/ Validate(r)
    \/ RestartRead(r) \/ FinishRead(r)

Next == WriterStep \/ \E r \in Readers : ReaderStep(r)

Spec == Init /\ [][Next]_vars

-----------------------------------------------------------------------------
(***************************************************************************)
(* Properties                                                              *)
(***************************************************************************)

Records == Values \cup {InitValue, NoValue}
TS == 0 .. MaxTS + 2
WriteSets == [keys : SUBSET Keys, valTS : TS, endTS : TS]

\* Every variable has its type; in particular no dQLock has a negative
\* number of readers.
TypeOK ==
    /\ nextTxID \in 1 .. MaxTS + 1
    /\ usedSlots \subseteq Slots
    /\ activeTxs \in [Slots -> TS]
    /\ tbl \in [Tables -> [Keys -> Records]]
    /\ committedWSs \in [Tables -> Seq(WriteSets)]
    /\ active_readers \in [Tables -> Nat]
    /\ active_writer \in [Tables -> BOOLEAN]
    /\ wpc \in {"idle", "active", "valTS", "saveLock", "save", "write", "endTS",
                "stamp", "scan", "eraseLock", "erase", "remove"}
    /\ wtx \in TS /\ wslot \in Slots /\ at \in Tables /\ wts \in TS
    /\ writeSet \in Seq(Keys \X Values) /\ todo \in Seq(Keys \X Values)
    /\ scan \subseteq Slots /\ oldest \in TS
    /\ rpc \in [Readers -> {"idle", "begin", "slot", "register", "get", "draw",
                            "lock", "validate", "restart", "done"}]
    /\ rtx \in [Readers -> TS] /\ rslot \in [Readers -> Slots]
    /\ rkeys \in [Readers -> {<<>>} \cup [1 .. TxSize -> Keys]]
    /\ rpos \in [Readers -> 0 .. 2 * TxSize]
    /\ got \in [Readers -> [Reads -> Records]]
    /\ rat \in [Readers -> Tables] /\ rts \in [Readers -> TS]
    /\ failed \in [Readers -> BOOLEAN]
    /\ snaps \in Seq([Keys -> Records])
    /\ began \in [Readers -> Nat] /\ quiet \in BOOLEAN /\ aborted \in 0 .. MaxAborts

\* A query that passed the validation of both tables publishes the state
\* that one committed transaction left, not older than the last commit
\* before the query began - although it read without locks, validated the
\* tables one after the other, and old write sets were erased meanwhile.
ReadsSerializable ==
    \A r \in Readers : rpc[r] = "done" =>
        \E i \in began[r] .. Len(snaps) :
            \A n \in Reads : got[r][n] = snaps[i][KeyOf(r, n)]

\* The saved write sets are ordered from the newest to the oldest, their
\* write phases do not overlap, and only the newest one can still be open:
\* what the cleanup relies on when it erases everything behind the first
\* expired one, and endTS when it stamps the front.
WriteSetsOrdered ==
    \A t \in Tables : \A m, n \in 1 .. Len(committedWSs[t]) :
        m < n => committedWSs[t][n].endTS < committedWSs[t][m].valTS

\* The write sets do not pile up: after a commit that no query overlapped,
\* only the last one is left, as long as no transaction was aborted: an
\* aborted one stays registered (BOCCTable.hpp:290) and stops the cleanup.
WriteSetsCollected ==
    wpc = "remove" /\ quiet /\ aborted = 0 =>
        \A t \in Tables : Len(committedWSs[t]) <= 1

\* The slots of active transactions: no two transactions share one, every
\* running one has its own, and the others that are in use belong to aborted
\* transactions.  Queries that restart leak none, so that the slots, which
\* getSetFreePos takes without asking whether one is free
\* (StateContext.cpp:53), are used up by aborts only.
SlotsAccounted ==
    LET taken == {r \in Readers : rpc[r] \notin {"idle", "begin", "slot"}}
        writers == IF wpc = "idle" THEN {} ELSE {wslot}
        owned == writers \cup {rslot[r] : r \in taken}
    IN  /\ owned \subseteq usedSlots
        /\ Cardinality(owned) = Cardinality(writers) + Cardinality(taken)
        /\ Cardinality(usedSlots \ owned) = aborted

\* What the validation and the cleanup rely on: the write sets are ordered, only as
\* many as queries or aborted transactions keep alive are saved, and the slots that
\* decide this are accounted for (saveWriteSet, cleanUpWriteSets, newTx, removeTx).
WriteSetsKept == TypeOK /\ WriteSetsOrdered /\ WriteSetsCollected /\ SlotsAccounted
=============================================================================
