----------------------------- MODULE MVCCTable ------------------------------
(***************************************************************************)
(* Multi-version tables under one StateContext: the two states of a        *)
(* topology group (an "account" table and its "replica"), the single       *)
(* writer that streams transactions into both of them through a chain of   *)
(* two ToTxTable operators, and the FromTxTables queries that read a few    *)
(* keys from both tables as one read transaction.  The default build is    *)
(* modelled, in which the tables are CuckooTables: libcuckoo's find copies *)
(* an object and update_fn modifies it while holding the key's bucket      *)
(* lock.                                                                   *)
(*                                                                         *)
(* A step of this specification ends where another thread can look: at a   *)
(* load or store of lastCTS, of a readCTS or of oldestVisibleVersion, and  *)
(* at the release of a bucket lock.  Write sets and write states are only  *)
(* touched by the writer's thread.                                         *)
(***************************************************************************)
EXTENDS MVCCObject, Sequences

CONSTANTS
    Keys,       \* the keys of both tables, ordered as integers
    Loaded,     \* the keys that prepareTables wrote before the queries start
    InitValue,  \* the value it wrote for them
    Readers,    \* the reading topologies (FromTxTables operators)
    TxSize,     \* number of keys a read transaction asks for
    MaxWrites   \* bound: stream elements per write transaction

ASSUME KeysAssumption == Keys \subseteq Nat /\ Loaded \subseteq Keys
ASSUME InitValueAssumption == InitValue \in Values
ASSUME TxSizeAssumption == TxSize \in Nat /\ TxSize >= 1
ASSUME MaxWritesAssumption == MaxWrites \in Nat

VARIABLES
    \* StateContext
    nextTxID,   \* counter the transaction IDs are drawn from
    lastCTS,    \* last committed transaction of the topology group
    oldest,     \* oldestVisibleVersion
    status,     \* write state of the running transaction in each table
    readCTS,    \* snapshot of each reader's transaction, 0 when it has none
    active,     \* the readers that are registered in the context
    \* the tables
    tbl,        \* the object of each key in each table
    writeSet,   \* the collected writes of each table
    \* the writer's thread
    wpc, wtx,
    ctbl,       \* table whose transactionCommit is running
    todo,       \* keys of its sorted write set that are not applied yet
    scan,       \* readers recalcOldestVisible still has to look at
    newMin,
    \* the readers' threads
    rpc, rkeys, rpos, rcopy, rsnap, got,
    \* history
    snaps,      \* the state each committed transaction should leave behind
    want,       \* the smallest value the running transaction inserts per key
    intent      \* what the last element of each key asked for

ctxVars == <<nextTxID, lastCTS, oldest, status, readCTS, active>>
tblVars == <<tbl, writeSet>>
writerVars == <<wpc, wtx, ctbl, todo, scan, newMin>>
readerVars == <<rpc, rkeys, rpos, rcopy, rsnap, got>>
histVars == <<snaps, want, intent>>
vars == <<ctxVars, tblVars, writerVars, readerVars, histVars>>

Tables == {0, 1}
Other(t) == 1 - t

\* Reads are numbered: read n is key n \div 2 + 1 of table n % 2.
Reads == 0 .. 2 * TxSize - 1
KeyOf(r, n) == rkeys[r][(n \div 2) + 1]

WriteStates == {"Active", "Commit"}
WriterPCs == {"idle", "active", "forwarded", "commitThis", "commitOther",
              "spin", "scan", "publish"}
ReaderPCs == {"idle", "get", "load", "store", "restart", "done"}

\* No element of the running transaction touched the key.
Untouched == -2

Pairs == Keys \X Values
NoReads == [n \in Reads |-> NoValue]
KeysIn(ws) == {k \in Keys : \E n \in 1 .. Len(ws) : ws[n][1] = k}

Init ==
    /\ nextTxID = 2 /\ lastCTS = 1 /\ oldest = 0
    /\ status = [t \in Tables |-> "Active"]
    /\ readCTS = [r \in Readers |-> 0]
    /\ active = {}
    /\ tbl = [t \in Tables |-> [k \in Keys |->
                 IF k \in Loaded THEN FirstEntry(1, InitValue) ELSE EmptyObject]]
    /\ writeSet = [t \in Tables |-> <<>>]
    /\ wpc = "idle" /\ wtx = 1 /\ ctbl = 1 /\ todo = {}
    /\ scan = {} /\ newMin = 0
    /\ rpc = [r \in Readers |-> "idle"]
    /\ rkeys = [r \in Readers |-> <<>>]
    /\ rpos = [r \in Readers |-> 0]
    /\ rcopy = [r \in Readers |-> EmptyObject]
    /\ rsnap = [r \in Readers |-> 0]
    /\ got = [r \in Readers |-> NoReads]
    /\ snaps = [ts \in {1} |-> [k \in Keys |->
                  IF k \in Loaded THEN InitValue ELSE NoValue]]
    /\ want = [k \in Keys |-> Untouched]
    /\ intent = [k \in Keys |-> Untouched]

-----------------------------------------------------------------------------
(***************************************************************************)
(* The writer: stream elements and punctuations pass through both          *)
(* ToTxTable operators in one thread.                                      *)
(***************************************************************************)

\* newTx, then TxBegin at both tables.
TransactionBegin ==
    /\ wpc = "idle"
    /\ nextTxID <= MaxTxID
    /\ nextTxID' = nextTxID + 1
    /\ wtx' = nextTxID
    /\ status' = [t \in Tables |-> "Active"]
    /\ wpc' = "active"
    /\ UNCHANGED <<lastCTS, oldest, readCTS, active, tblVars, ctbl, todo, scan,
                   newMin, readerVars, histVars>>

Deleted == {k \in Keys : intent[k] = NoValue}

\* The bound on the number of elements of a transaction.
MoreElements == Len(writeSet[0]) + Cardinality(Deleted) < MaxWrites

\* A new element: MVCCTable::insert appends it to the write sets.
Insert(k, v) ==
    /\ wpc = "active"
    /\ MoreElements
    /\ writeSet' = [t \in Tables |-> Append(writeSet[t], <<k, v>>)]
    /\ want' = [want EXCEPT ![k] = IF @ = Untouched \/ v < @ THEN v ELSE @]
    /\ intent' = [intent EXCEPT ![k] = v]
    /\ UNCHANGED <<ctxVars, tbl, writerVars, readerVars, snaps>>

\* An outdated element: MVCCTable::deleteByKey only returns 1.
DeleteByKey(k) ==
    /\ wpc = "active"
    /\ MoreElements
    /\ intent' = [intent EXCEPT ![k] = NoValue]
    /\ UNCHANGED <<ctxVars, tblVars, writerVars, readerVars, snaps, want>>

\* TxAbort at both tables: the write sets are dropped.
TransactionAbort ==
    /\ wpc = "active"
    /\ writeSet' = [t \in Tables |-> <<>>]
    /\ wpc' = "idle"
    /\ want' = [k \in Keys |-> Untouched]
    /\ intent' = [k \in Keys |-> Untouched]
    /\ UNCHANGED <<ctxVars, tbl, wtx, ctbl, todo, scan, newMin, readerVars,
                   snaps>>

\* TxCommit at table t.  The table that finds the other one ready commits
\* both, itself first; otherwise the punctuation is forwarded.
TransactionPreCommit(t) ==
    /\ wpc = IF t = 0 THEN "active" ELSE "forwarded"
    /\ status' = [status EXCEPT ![t] = "Commit"]
    /\ \/ /\ status[Other(t)] = "Commit"
          /\ wpc' = "commitThis"
          /\ ctbl' = t
          /\ todo' = KeysIn(writeSet[t])
       \/ /\ status[Other(t)] # "Commit"
          /\ wpc' = "forwarded"
          /\ UNCHANGED <<ctbl, todo>>
    /\ UNCHANGED <<nextTxID, lastCTS, oldest, readCTS, active, tblVars, wtx,
                   scan, newMin, readerVars, histVars>>

\* std::sort orders the write set by key, then by value ...
NextKey == {k \in todo : \A l \in todo : k <= l}

\* Mutant of KeptValue: the order of the sort is reversed.
KeptValueLargest(ws, k) ==
    {v \in Values : /\ \E n \in 1 .. Len(ws) : ws[n] = <<k, v>>
                    /\ \A n \in 1 .. Len(ws) : ws[n][1] = k => v >= ws[n][2]}

\* ... and std::unique keeps the first entry of every key.
KeptValue(ws, k) ==
    {v \in Values : /\ \E n \in 1 .. Len(ws) : ws[n] = <<k, v>>
                    /\ \A n \in 1 .. Len(ws) : ws[n][1] = k => v <= ws[n][2]}

Committing == wpc \in {"commitThis", "commitOther"}

\* updateByKey finds no entry: the key is inserted.
CommitInsert(k, v) ==
    /\ Committing
    /\ k \in NextKey
    /\ v \in KeptValue(writeSet[ctbl], k)
    /\ tbl[ctbl][k].used = {}
    /\ tbl' = [tbl EXCEPT ![ctbl][k] = FirstEntry(wtx, v)]
    /\ todo' = todo \ {k}
    /\ UNCHANGED <<ctxVars, writeSet, wpc, wtx, ctbl, scan, newMin, readerVars,
                   histVars>>

\* updateByKey finds an entry with a free version slot.
CommitUpdate(k, v) ==
    /\ Committing
    /\ k \in NextKey
    /\ v \in KeptValue(writeSet[ctbl], k)
    /\ tbl[ctbl][k].used # {}
    /\ \E i \in GetFreePos(tbl[ctbl][k]), d \in GetCurrent(tbl[ctbl][k], wtx) :
          tbl' = [tbl EXCEPT ![ctbl][k] = NewEntry(@, wtx, i, d, v)]
    /\ todo' = todo \ {k}
    /\ UNCHANGED <<ctxVars, writeSet, wpc, wtx, ctbl, scan, newMin, readerVars,
                   histVars>>

\* updateByKey finds an entry without a free slot.  From here to EndRecalc
\* the writer holds the bucket lock of the key.  `wpc' forgets which of the
\* two tables it was working on: ctbl = 1 is `this'.
EnterSpin(k) ==
    /\ Committing
    /\ k \in NextKey
    /\ GetFreePos(tbl[ctbl][k]) = {}
    /\ wpc' = "spin"
    /\ UNCHANGED <<ctxVars, tblVars, wtx, ctbl, todo, scan, newMin, readerVars,
                   histVars>>

\* recalcOldestVisible: load oldestVisibleVersion and usedSlots.
StartRecalc ==
    /\ wpc = "spin"
    /\ \/ /\ oldest # 0
          /\ newMin' = DTS_INF
          /\ scan' = active
       \/ /\ oldest = 0
          /\ newMin' = lastCTS
          /\ scan' = {}
    /\ wpc' = "scan"
    /\ UNCHANGED <<ctxVars, tblVars, wtx, ctbl, todo, readerVars, histVars>>

\* One iteration of its loop over the used slots.
ScanSlot(r) ==
    /\ wpc = "scan"
    /\ r \in scan
    /\ scan' = scan \ {r}
    /\ newMin' = IF readCTS[r] # 0 /\ readCTS[r] < newMin THEN readCTS[r]
                                                           ELSE newMin
    /\ UNCHANGED <<ctxVars, tblVars, wpc, wtx, ctbl, todo, readerVars, histVars>>

\* Mutants of EndRecalc: the result of an empty scan is used as it is; the
\* compare-and-exchange lost its `min < newMin' condition.
EndRecalcNoFallback(k, v) ==
    LET o == CleanUpVersions(tbl[ctbl][k], newMin)
    IN  /\ wpc = "scan" /\ scan = {}
        /\ k \in NextKey
        /\ v \in KeptValue(writeSet[ctbl], k)
        /\ oldest' = IF oldest < newMin THEN newMin ELSE oldest
        /\ \E i \in GetFreePos(o), d \in GetCurrent(tbl[ctbl][k], wtx) :
              tbl' = [tbl EXCEPT ![ctbl][k] = NewEntry(o, wtx, i, d, v)]
        /\ wpc' = IF ctbl = 1 THEN "commitThis" ELSE "commitOther"
        /\ todo' = todo \ {k}
        /\ newMin' = 0
        /\ UNCHANGED <<nextTxID, lastCTS, status, readCTS, active, writeSet,
                       wtx, ctbl, scan, readerVars, histVars>>

EndRecalcAlwaysStores(k, v) ==
    LET min == IF newMin = DTS_INF THEN lastCTS ELSE newMin
        o   == CleanUpVersions(tbl[ctbl][k], min)
    IN  /\ wpc = "scan" /\ scan = {}
        /\ k \in NextKey
        /\ v \in KeptValue(writeSet[ctbl], k)
        /\ oldest' = min
        /\ \/ /\ GetFreePos(o) = {}
              /\ tbl' = [tbl EXCEPT ![ctbl][k] = o]
              /\ wpc' = "spin"
              /\ UNCHANGED todo
           \/ /\ \E i \in GetFreePos(o), d \in GetCurrent(tbl[ctbl][k], wtx) :
                    tbl' = [tbl EXCEPT ![ctbl][k] = NewEntry(o, wtx, i, d, v)]
              /\ wpc' = IF ctbl = 1 THEN "commitThis" ELSE "commitOther"
              /\ todo' = todo \ {k}
        /\ newMin' = 0
        /\ UNCHANGED <<nextTxID, lastCTS, status, readCTS, active, writeSet,
                       wtx, ctbl, scan, readerVars, histVars>>

\* The end of recalcOldestVisible, then cleanUpVersions.  The writer either
\* finds a free slot now, adds its version and releases the bucket lock, or
\* recalculates again.
EndRecalc(k, v) ==
    LET min == IF newMin = DTS_INF THEN lastCTS ELSE newMin
        o   == CleanUpVersions(tbl[ctbl][k], min)
    IN  /\ wpc = "scan"
        /\ scan = {}
        /\ k \in NextKey
        /\ v \in KeptValue(writeSet[ctbl], k)
        /\ oldest' = IF oldest < min THEN min ELSE oldest
        /\ \/ /\ GetFreePos(o) = {}
              /\ tbl' = [tbl EXCEPT ![ctbl][k] = o]
              /\ wpc' = "spin"
              /\ UNCHANGED todo
           \/ /\ \E i \in GetFreePos(o), d \in GetCurrent(tbl[ctbl][k], wtx) :
                    tbl' = [tbl EXCEPT ![ctbl][k] = NewEntry(o, wtx, i, d, v)]
              /\ wpc' = IF ctbl = 1 THEN "commitThis" ELSE "commitOther"
              /\ todo' = todo \ {k}
        /\ newMin' = 0
        /\ UNCHANGED <<nextTxID, lastCTS, status, readCTS, active, writeSet,
                       wtx, ctbl, scan, readerVars, histVars>>

\* Mutants of CommitOther: lastCTS is set when the first table is done; the
\* write set of the first table is not cleaned.
CommitOtherPublishesEarly ==
    /\ wpc = "commitThis"
    /\ todo = {}
    /\ writeSet' = [writeSet EXCEPT ![ctbl] = <<>>]
    /\ ctbl' = Other(ctbl)
    /\ todo' = KeysIn(writeSet[Other(ctbl)])
    /\ wpc' = "commitOther"
    /\ lastCTS' = wtx
    /\ snaps' = [ts \in DOMAIN snaps \cup {wtx} |->
                   IF ts # wtx THEN snaps[ts]
                   ELSE [k \in Keys |-> IF want[k] = Untouched
                                        THEN snaps[lastCTS][k] ELSE want[k]]]
    /\ UNCHANGED <<nextTxID, oldest, status, readCTS, active, tbl, wtx, scan,
                   newMin, readerVars, want, intent>>

CommitOtherKeepsWriteSet ==
    /\ wpc = "commitThis"
    /\ todo = {}
    /\ ctbl' = Other(ctbl)
    /\ todo' = KeysIn(writeSet[Other(ctbl)])
    /\ wpc' = "commitOther"
    /\ UNCHANGED <<ctxVars, tblVars, wtx, scan, newMin, readerVars, histVars>>

\* transactionCommit of `this' returns, transactionCommit of the other
\* registered state starts.
CommitOther ==
    /\ wpc = "commitThis"
    /\ todo = {}
    /\ writeSet' = [writeSet EXCEPT ![ctbl] = <<>>]
    /\ ctbl' = Other(ctbl)
    /\ todo' = KeysIn(writeSet[Other(ctbl)])
    /\ wpc' = "commitOther"
    /\ UNCHANGED <<ctxVars, tbl, wtx, scan, newMin, readerVars, histVars>>

\* It returns as well.
EndCommitOther ==
    /\ wpc = "commitOther"
    /\ todo = {}
    /\ writeSet' = [writeSet EXCEPT ![ctbl] = <<>>]
    /\ wpc' = "publish"
    /\ UNCHANGED <<ctxVars, tbl, wtx, ctbl, todo, scan, newMin, readerVars,
                   histVars>>

\* setLastCTS, then removeTx (whose effect on a writer's slot, readCTS = 0,
\* nobody can see).
SetLastCTS ==
    /\ wpc = "publish"
    /\ lastCTS' = wtx
    /\ wpc' = "idle"
    /\ snaps' = [ts \in DOMAIN snaps \cup {wtx} |->
                   IF ts # wtx THEN snaps[ts]
                   ELSE [k \in Keys |-> IF want[k] = Untouched
                                        THEN snaps[lastCTS][k] ELSE want[k]]]
    /\ want' = [k \in Keys |-> Untouched]
    /\ intent' = [k \in Keys |-> Untouched]
    /\ UNCHANGED <<nextTxID, oldest, status, readCTS, active, tblVars, wtx,
                   ctbl, todo, scan, newMin, readerVars>>

-----------------------------------------------------------------------------
(***************************************************************************)
(* The readers: FromTxTables::start, called again and again by runEvery.   *)
(***************************************************************************)

\* newTx and the choice of the keys.
StartRead(r, ks) ==
    /\ rpc[r] = "idle"
    /\ active' = active \cup {r}
    /\ rkeys' = [rkeys EXCEPT ![r] = ks]
    /\ rpos' = [rpos EXCEPT ![r] = 0]
    /\ rpc' = [rpc EXCEPT ![r] = "get"]
    /\ UNCHANGED <<nextTxID, lastCTS, oldest, status, readCTS, tblVars,
                   writerVars, rcopy, rsnap, got, histVars>>

\* The writer is inside update_fn of this key.
Locked(t, k) == wpc \in {"spin", "scan"} /\ t = ctbl /\ k \in NextKey

\* The end of getByKey: the version of object o that is valid at ts, or
\* NOT_FOUND.
ReadVersion(r, o, ts) ==
    \/ /\ GetCurrent(o, ts) = {}
       /\ rpc' = [rpc EXCEPT ![r] = "restart"]
       /\ UNCHANGED <<rpos, got>>
    \/ \E i \in GetCurrent(o, ts) :
       /\ got' = [got EXCEPT ![r][rpos[r]] = o.val[i]]
       /\ rpos' = [rpos EXCEPT ![r] = rpos[r] + 1]
       /\ rpc' = [rpc EXCEPT ![r] = IF rpos[r] + 1 \in Reads THEN "get" ELSE "done"]

\* getByKey: tbl.getByKey copies the object (find waits for the bucket
\* lock).  With a snapshot at hand the rest of the call is local.
GetByKey(r) ==
    LET t == rpos[r] % 2
        k == KeyOf(r, rpos[r])
    IN  /\ rpc[r] = "get"
        /\ ~Locked(t, k)
        /\ \/ /\ tbl[t][k].used = {}
              /\ rpc' = [rpc EXCEPT ![r] = "restart"]
              /\ UNCHANGED <<rcopy, rpos, got>>
           \/ /\ tbl[t][k].used # {}
              /\ readCTS[r] = 0
              /\ rcopy' = [rcopy EXCEPT ![r] = tbl[t][k]]
              /\ rpc' = [rpc EXCEPT ![r] = "load"]
              /\ UNCHANGED <<rpos, got>>
           \/ /\ tbl[t][k].used # {}
              /\ readCTS[r] # 0
              /\ ReadVersion(r, tbl[t][k], readCTS[r])
              /\ UNCHANGED rcopy
        /\ UNCHANGED <<ctxVars, tblVars, writerVars, rkeys, rsnap, histVars>>

\* The first read of the transaction fixes the snapshot: load lastCTS ...
LoadLastCTS(r) ==
    /\ rpc[r] = "load"
    /\ rsnap' = [rsnap EXCEPT ![r] = lastCTS]
    /\ rpc' = [rpc EXCEPT ![r] = "store"]
    /\ UNCHANGED <<ctxVars, tblVars, writerVars, rkeys, rpos, rcopy, got,
                   histVars>>

\* ... store it in the slot, and read the version from the copy.
StoreReadCTS(r) ==
    /\ rpc[r] = "store"
    /\ readCTS' = [readCTS EXCEPT ![r] = rsnap[r]]
    /\ ReadVersion(r, rcopy[r], rsnap[r])
    /\ rcopy' = [rcopy EXCEPT ![r] = EmptyObject]
    /\ rsnap' = [rsnap EXCEPT ![r] = 0]
    /\ UNCHANGED <<nextTxID, lastCTS, oldest, status, active, tblVars,
                   writerVars, rkeys, histVars>>

\* A failed read: setReadCTS(0) and `goto restart' with the same keys.
RestartRead(r) ==
    /\ rpc[r] = "restart"
    /\ readCTS' = [readCTS EXCEPT ![r] = 0]
    /\ rpos' = [rpos EXCEPT ![r] = 0]
    /\ got' = [got EXCEPT ![r] = NoReads]
    /\ rpc' = [rpc EXCEPT ![r] = "get"]
    /\ UNCHANGED <<nextTxID, lastCTS, oldest, status, active, tblVars,
                   writerVars, rkeys, rcopy, rsnap, histVars>>

\* Mutant of FinishRead: removeTx is not called.
FinishReadKeepsSlot(r) ==
    /\ rpc[r] = "done"
    /\ rkeys' = [rkeys EXCEPT ![r] = <<>>]
    /\ rpos' = [rpos EXCEPT ![r] = 0]
    /\ got' = [got EXCEPT ![r] = NoReads]
    /\ rpc' = [rpc EXCEPT ![r] = "idle"]
    /\ UNCHANGED <<ctxVars, tblVars, writerVars, rcopy, rsnap, histVars>>

\* readCommit has nothing to do; the tuples are published and removeTx
\* resets the snapshot and releases the slot.
FinishRead(r) ==
    /\ rpc[r] = "done"
    /\ readCTS' = [readCTS EXCEPT ![r] = 0]
    /\ active' = active \ {r}
    /\ rkeys' = [rkeys EXCEPT ![r] = <<>>]
    /\ rpos' = [rpos EXCEPT ![r] = 0]
    /\ got' = [got EXCEPT ![r] = NoReads]
    /\ rpc' = [rpc EXCEPT ![r] = "idle"]
    /\ UNCHANGED <<nextTxID, lastCTS, oldest, status, tblVars, writerVars,
                   rcopy, rsnap, histVars>>

-----------------------------------------------------------------------------
CommitStep ==
    \/ \E k \in Keys, v \in Values :
          CommitInsert(k, v) \/ CommitUpdate(k, v) \/ EndRecalc(k, v)
    \/ \E k \in Keys : EnterSpin(k)
    \/ StartRecalc
    \/ \E r \in Readers : ScanSlot(r)
    \/ CommitOther
    \/ EndCommitOther
    \/ SetLastCTS

WriterStep ==
    \/ TransactionBegin
    \/ \E k \in Keys, v \in Values : Insert(k, v)
    \/ \E k \in Keys : DeleteByKey(k)
    \/ TransactionAbort
    \/ \E t \in Tables : TransactionPreCommit(t)
    \/ CommitStep

ReaderStep(r) ==
    \/ \E ks \in [1 .. TxSize -> Keys] : StartRead(r, ks)
    \/ GetByKey(r)
    \/ LoadLastCTS(r)
    \/ StoreReadCTS(r)
    \/ RestartRead(r)
    \/ FinishRead(r)

Next == WriterStep \/ \E r \in Readers : ReaderStep(r)

Spec == Init /\ [][Next]_vars

(***************************************************************************)
(* The operating system runs every thread: a thread that can take its next *)
(* step eventually does.  Nothing forces the stream to deliver another     *)
(* element, or runEvery to start another query.                            *)
(***************************************************************************)
Fairness ==
    /\ WF_vars(CommitStep \/ TransactionPreCommit(1))
    /\ \A r \in Readers :
          WF_vars(ReaderStep(r) /\ rpc[r] # "idle")

FairSpec == Spec /\ Fairness

-----------------------------------------------------------------------------
(***************************************************************************)
(* Properties                                                              *)
(***************************************************************************)

\* Every variable has its type; in particular commit and read timestamps
\* stay below DTS_INF, which marks an open version.
TypeOK ==
    /\ nextTxID \in 2 .. DTS_INF
    /\ lastCTS \in 1 .. MaxTxID
    /\ oldest \in 0 .. MaxTxID
    /\ status \in [Tables -> WriteStates]
    /\ readCTS \in [Readers -> 0 .. MaxTxID]
    /\ active \subseteq Readers
    /\ tbl \in [Tables -> [Keys -> MVCCObjects]]
    /\ writeSet \in [Tables -> Seq(Pairs)]
    /\ wpc \in WriterPCs
    /\ wtx \in 1 .. MaxTxID
    /\ ctbl \in Tables
    /\ todo \subseteq Keys
    /\ scan \subseteq Readers
    /\ newMin \in TS
    /\ rpc \in [Readers -> ReaderPCs]
    /\ rkeys \in [Readers -> {<<>>} \cup [1 .. TxSize -> Keys]]
    /\ rpos \in [Readers -> 0 .. 2 * TxSize]
    /\ rcopy \in [Readers -> MVCCObjects]
    /\ rsnap \in [Readers -> 0 .. MaxTxID]
    /\ got \in [Readers -> [Reads -> Values \cup {NoValue}]]
    /\ DOMAIN snaps \subseteq 1 .. MaxTxID
    /\ \A ts \in DOMAIN snaps : snaps[ts] \in [Keys -> Values \cup {NoValue}]
    /\ want \in [Keys -> Values \cup {Untouched}]
    /\ intent \in [Keys -> Values \cup {NoValue, Untouched}]

\* The validity intervals of an object's versions do not overlap, and an
\* object that exists has exactly one open version.  newEntry closes the
\* version getCurrent(txnID) finds: it would write in front of the header
\* array if there were none, and leave two open versions if it were another.
WellFormed(o) ==
    /\ \A i, j \in o.used : i # j => \/ o.dts[i] <= o.cts[j]
                                     \/ o.dts[j] <= o.cts[i]
    /\ \A i \in o.used : o.cts[i] < o.dts[i]
    /\ o.used # {} => \E i \in o.used : o.dts[i] = DTS_INF

\* Every object of both tables is well formed, also while a commit or the
\* garbage collection runs.
VersionsWellFormed ==
    \A t \in Tables, k \in Keys : WellFormed(tbl[t][k])

\* Whatever a running commit has done so far, and whatever the garbage
\* collection reclaimed, every key of both tables still has the value that
\* the last committed transaction left, at that transaction's timestamp: a
\* snapshot taken now can be read completely.
LastSnapshotComplete ==
    \A t \in Tables, k \in Keys :
        {tbl[t][k].val[i] : i \in Visible(tbl[t][k], lastCTS)}
            = {snaps[lastCTS][k]} \ {NoValue}

\* A version that is visible at a committed transaction's timestamp holds
\* the value of that transaction's state: a reader may find nothing and
\* restart, but it never finds a wrong value in the tables.
VisibleVersionsRight ==
    \A t \in Tables, k \in Keys, ts \in DOMAIN snaps :
        \A i \in Visible(tbl[t][k], ts) : tbl[t][k].val[i] = snaps[ts][k]

\* What FromTxTables publishes.  All reads but the first return the state
\* of the reader's snapshot; the first one, which copies the object before
\* the snapshot is chosen, returns the state of this or of an earlier one.
OnlyFirstReadStale ==
    \A r \in Readers : rpc[r] = "done" =>
        /\ readCTS[r] \in DOMAIN snaps
        /\ \A n \in Reads \ {0} : got[r][n] = snaps[readCTS[r]][KeyOf(r, n)]
        /\ \E ts \in DOMAIN snaps : /\ ts <= readCTS[r]
                                    /\ got[r][0] = snaps[ts][KeyOf(r, 0)]

\* The value of key k of table t at timestamp ts.
ValueAt(t, k, ts) ==
    LET cur == GetCurrent(tbl[t][k], ts)
    IN  IF cur = {} THEN NoValue ELSE tbl[t][k].val[CHOOSE i \in cur : TRUE]

\* The committed state of the group: what a reader sees at lastCTS.
store == INSTANCE TxStore WITH
            db <- [t \in Tables |-> [k \in Keys |-> ValueAt(t, k, lastCTS)]],
            running <- (wpc # "idle")

\* The tables implement the transactional store: a commit that goes through
\* the write sets key by key and table by table is one step of the store.
ImplementsTxStore == store!Spec

\* lastCTS and oldestVisibleVersion never go back, and the garbage
\* collection never runs ahead of the last committed transaction.
TimestampsAdvance ==
    [][lastCTS' >= lastCTS /\ oldest' >= oldest /\ oldest' <= lastCTS']_vars

\* A read transaction returns the state that some committed transaction
\* left ("The transactional context guarantees snapshot isolation of this
\* query").
SnapshotIsolation ==
    \A r \in Readers : rpc[r] = "done" =>
        \E ts \in DOMAIN snaps :
            \A n \in Reads : got[r][n] = snaps[ts][KeyOf(r, n)]

\* The waiting point of a commit is left again, unless a query waits for the
\* very record whose bucket lock the waiting writer holds (update_fn of
\* libcuckoo, MVCCTable.hpp:356): any other query finishes or restarts, and
\* the versions it kept alive are then reclaimed.
OnlyBlockedReadersStopCommit ==
    wpc = "spin" ~>
        \/ wpc = "idle"
        \/ \E r \in Readers : /\ rpc[r] = "get"
                              /\ Locked(rpos[r] % 2, KeyOf(r, rpos[r]))

\* A commit leaves the same value of a key in both tables: the one it had, if
\* the transaction did not insert the key, and otherwise one that is not
\* above the last inserted one - of several inserts of a key, sort and unique
\* keep the smallest (MVCCTable.hpp:339), and a delete keeps the insert that
\* precedes it (MVCCTable.hpp:484).
CommitsInsertedValue ==
    [][lastCTS' # lastCTS => \A k \in Keys, t \in Tables :
          LET v == ValueAt(t, k, lastCTS)'
          IN  /\ v = ValueAt(Other(t), k, lastCTS)'
              /\ intent[k] = Untouched => v = ValueAt(t, k, lastCTS)
              /\ intent[k] \in Values => v <= intent[k]]_vars
=============================================================================
