----------------------------- MODULE S2PLTable ------------------------------
(***************************************************************************)
(* Two tables under strict two-phase locking (S2PLTable.hpp): one writer   *)
(* streams transactions through a chain of two ToTxTable operators and     *)
(* changes the tables in place under exclusive row locks; FromTxTables     *)
(* queries read under shared row locks, which they never wait for.         *)
(*                                                                         *)
(* A step ends where another thread can look: at the release of a row      *)
(* lock's mutex, and at an access to a table.  All row locks exist before  *)
(* the queries start, because prepareTables writes every key.              *)
(***************************************************************************)
EXTENDS Integers, Sequences, FiniteSets

CONSTANTS
    Keys, Values,
    InitValue,  \* what prepareTables wrote for every key
    Replaces,   \* whether the backend's insert replaces an existing record
    Readers,    \* the reading topologies
    TxSize,     \* number of keys a read transaction asks for
    MaxTx,      \* bound: write transactions
    MaxWrites   \* bound: stream elements per write transaction

ASSUME SizeAssumption == TxSize \in Nat /\ TxSize >= 1
ASSUME BoundAssumption == MaxTx \in Nat /\ MaxWrites \in Nat
ASSUME DataAssumption == Values \subseteq Nat /\ InitValue \in Nat
ASSUME ReadersAssumption == IsFiniteSet(Readers)
ASSUME BackendAssumption == Replaces \in BOOLEAN

VARIABLES
    active_readers, active_writer,  \* the row locks of each table
    wKeysLocked,  \* the keys each table's writer has locked
    tbl,          \* the records
    lastCTS,      \* number of the last committed transaction
    \* the writer's thread
    wpc, wtx,
    elem,         \* the element on its way through the two operators
    at,           \* the table whose operator works
    notified,     \* writerQ of the row lock it waits for was notified
    \* the readers' threads
    rpc, rkeys, rpos, released, got,
    \* history
    snaps,        \* the states the finished transactions left in the tables
    want,         \* the state the running transaction is making
    began         \* index of the last one in snaps when the reader's query began

lockVars == <<active_readers, active_writer>>
tblVars == <<wKeysLocked, tbl, lastCTS>>
writerVars == <<wpc, wtx, elem, at, notified>>
readerVars == <<rpc, rkeys, rpos, released, got>>
histVars == <<snaps, want, began>>
vars == <<lockVars, tblVars, writerVars, readerVars, histVars>>

Tables == {0, 1}
Reads == 0 .. 2 * TxSize - 1
KeyOf(r, n) == rkeys[r][(n \div 2) + 1]

NoValue == -1    \* the table has no record for the key
NoReads == [n \in Reads |-> NoValue]
NoElem == <<0, NoValue>>

(***************************************************************************)
(* What tbl.insert or tbl.deleteByKey of element v makes of a record.  The *)
(* backend is chosen by the build: RDBTable and PBPTreeTable replace an    *)
(* existing record; CuckooTable, the default, hands the element to         *)
(* libcuckoo's insert, which leaves an existing record as it is.           *)
(***************************************************************************)
Stored(rec, v) == IF Replaces \/ v = NoValue \/ rec = NoValue THEN v ELSE rec

Init ==
    /\ active_readers = [t \in Tables |-> [k \in Keys |-> 0]]
    /\ active_writer = [t \in Tables |-> [k \in Keys |-> FALSE]]
    /\ wKeysLocked = [t \in Tables |-> <<>>]
    /\ tbl = [t \in Tables |-> [k \in Keys |-> InitValue]]
    /\ lastCTS = 0
    /\ wpc = "idle" /\ wtx = 0 /\ elem = NoElem /\ at = 0 /\ notified = FALSE
    /\ rpc = [r \in Readers |-> "idle"]
    /\ rkeys = [r \in Readers |-> <<>>]
    /\ rpos = [r \in Readers |-> 0]
    /\ released = [r \in Readers |-> 0]
    /\ got = [r \in Readers |-> NoReads]
    /\ snaps = <<[k \in Keys |-> InitValue]>>
    /\ want = [k \in Keys |-> InitValue]
    /\ began = [r \in Readers |-> 1]

-----------------------------------------------------------------------------
(***************************************************************************)
(* The writer.                                                             *)
(***************************************************************************)

TransactionBegin ==
    /\ wpc = "idle"
    /\ wtx < MaxTx
    /\ wtx' = wtx + 1
    /\ wpc' = "active"
    /\ UNCHANGED <<lockVars, tblVars, elem, at, notified, readerVars, histVars>>

\* A stream element <<k, v>> reaches the first operator; NoValue stands for
\* an outdated element, which deletes the key.
Element(k, v) ==
    /\ wpc = "active"
    /\ Len(wKeysLocked[0]) < MaxWrites
    /\ elem' = <<k, v>>
    /\ at' = 0
    /\ wpc' = "lock"
    /\ want' = [want EXCEPT ![k] = Stored(@, v)]
    /\ UNCHANGED <<lockVars, tblVars, wtx, notified, readerVars, snaps, began>>

\* Mutant of TryExclusive: the lock is granted although there are readers.
TryExclusiveNoWait(k) ==
    /\ wKeysLocked' = [wKeysLocked EXCEPT ![at] = Append(@, k)]
    /\ wpc' = "write"

\* The loop condition of lockExclusive: with readers it waits on writerQ.
TryExclusive(k) ==
    \/ /\ active_readers[at][k] = 0
       /\ wKeysLocked' = [wKeysLocked EXCEPT ![at] = Append(@, k)]
       /\ wpc' = "write"
    \/ /\ active_readers[at][k] # 0
       /\ wpc' = "wait"
       /\ UNCHANGED wKeysLocked

\* lockExclusive turns new readers away before it waits for the old ones.
LockExclusive ==
    /\ wpc = "lock"
    /\ active_writer' = [active_writer EXCEPT ![at][elem[1]] = TRUE]
    /\ TryExclusive(elem[1])
    /\ notified' = FALSE
    /\ UNCHANGED <<active_readers, tbl, lastCTS, wtx, elem, at, readerVars,
                   histVars>>

\* writerQ.wait returns and the readers are counted again.
WakeUp ==
    /\ wpc = "wait"
    /\ notified
    /\ TryExclusive(elem[1])
    /\ notified' = FALSE
    /\ UNCHANGED <<lockVars, tbl, lastCTS, wtx, elem, at, readerVars, histVars>>

\* tbl.insert or tbl.deleteByKey; then the element goes to the next operator.
Write ==
    /\ wpc = "write"
    /\ tbl' = [tbl EXCEPT ![at][elem[1]] = Stored(@, elem[2])]
    /\ \/ /\ at = 0
          /\ at' = 1
          /\ wpc' = "lock"
          /\ UNCHANGED elem
       \/ /\ at = 1
          /\ at' = 0
          /\ elem' = NoElem
          /\ wpc' = "active"
    /\ UNCHANGED <<lockVars, wKeysLocked, lastCTS, wtx, notified, readerVars,
                   histVars>>

\* TxCommit reaches the first operator, which only notes it, and then the
\* second one, whose table commits itself first and then the other table.
TransactionPreCommit ==
    /\ wpc = "active"
    /\ wpc' = "commit"
    /\ at' = 1
    /\ snaps' = Append(snaps, want)
    /\ UNCHANGED <<lockVars, tblVars, wtx, elem, notified, readerVars, want,
                   began>>

\* TxAbort reaches the first operator, then the second one.  Nothing is
\* undone.
TransactionAbort ==
    /\ wpc = "active"
    /\ wpc' = "abort"
    /\ at' = 0
    /\ snaps' = Append(snaps, want)
    /\ UNCHANGED <<lockVars, tblVars, wtx, elem, notified, readerVars, want,
                   began>>

\* unlockExclusive of the next key of wKeysLocked.
UnlockExclusive ==
    /\ wpc \in {"commit", "abort"}
    /\ wKeysLocked[at] # <<>>
    /\ active_writer' = [active_writer EXCEPT ![at][Head(wKeysLocked[at])] = FALSE]
    /\ wKeysLocked' = [wKeysLocked EXCEPT ![at] = Tail(@)]
    /\ UNCHANGED <<active_readers, tbl, lastCTS, writerVars, readerVars, histVars>>

\* The table has released its locks: the other table is next; after it,
\* setLastCTS and removeTx end a commit.  An abort leaves its slot in use.
TableReleased ==
    /\ wpc \in {"commit", "abort"}
    /\ wKeysLocked[at] = <<>>
    /\ \/ /\ at = IF wpc = "commit" THEN 1 ELSE 0
          /\ at' = 1 - at
          /\ UNCHANGED <<wpc, lastCTS>>
       \/ /\ at = IF wpc = "commit" THEN 0 ELSE 1
          /\ at' = 0
          /\ lastCTS' = IF wpc = "commit" THEN wtx ELSE lastCTS
          /\ wpc' = "idle"
    /\ UNCHANGED <<lockVars, wKeysLocked, tbl, wtx, elem, notified, readerVars,
                   histVars>>

-----------------------------------------------------------------------------
(***************************************************************************)
(* The readers: FromTxTables::start.                                       *)
(***************************************************************************)

StartRead(r, ks) ==
    /\ rpc[r] = "idle"
    /\ rkeys' = [rkeys EXCEPT ![r] = ks]
    /\ rpos' = [rpos EXCEPT ![r] = 0]
    /\ rpc' = [rpc EXCEPT ![r] = "lock"]
    /\ began' = [began EXCEPT ![r] = Len(snaps)]
    /\ UNCHANGED <<lockVars, tblVars, writerVars, released, got, snaps, want>>

\* Mutant of LockShared: a waiting or working writer is ignored.
LockSharedIgnoresWriter(r) ==
    LET t == rpos[r] % 2
        k == KeyOf(r, rpos[r])
    IN  /\ rpc[r] = "lock"
        /\ active_readers' = [active_readers EXCEPT ![t][k] = @ + 1]
        /\ rpc' = [rpc EXCEPT ![r] = "fetch"]
        /\ UNCHANGED <<active_writer, tblVars, writerVars, rkeys, rpos,
                       released, got, histVars>>

\* getByKey: lockShared takes the row lock, or refuses it at once when a
\* writer holds it or waits for it.
LockShared(r) ==
    LET t == rpos[r] % 2
        k == KeyOf(r, rpos[r])
    IN  /\ rpc[r] = "lock"
        /\ \/ /\ active_writer[t][k]
              /\ rpc' = [rpc EXCEPT ![r] = "restart"]
              /\ UNCHANGED active_readers
           \/ /\ ~active_writer[t][k]
              /\ active_readers' = [active_readers EXCEPT ![t][k] = @ + 1]
              /\ rpc' = [rpc EXCEPT ![r] = "fetch"]
        /\ UNCHANGED <<active_writer, tblVars, writerVars, rkeys, rpos,
                       released, got, histVars>>

\* getByKey: tbl.getByKey copies the record, if there is one.
Fetch(r) ==
    LET t == rpos[r] % 2
        k == KeyOf(r, rpos[r])
    IN  /\ rpc[r] = "fetch"
        /\ \/ /\ tbl[t][k] = NoValue
              /\ rpc' = [rpc EXCEPT ![r] = "giveback"]
              /\ UNCHANGED <<got, rpos>>
           \/ /\ tbl[t][k] # NoValue
              /\ got' = [got EXCEPT ![r][rpos[r]] = tbl[t][k]]
              /\ rpos' = [rpos EXCEPT ![r] = @ + 1]
              /\ rpc' = [rpc EXCEPT ![r] = IF rpos[r] + 1 \in Reads THEN "lock"
                                                                   ELSE "done"]
        /\ UNCHANGED <<lockVars, tblVars, writerVars, rkeys, released, histVars>>

\* Mutant of UnlockShared: the writer is not notified.
UnlockSharedSilent(t, k) ==
    /\ active_readers' = [active_readers EXCEPT ![t][k] = @ - 1]
    /\ UNCHANGED notified

\* unlockShared, with the notification of the row lock's writerQ.
UnlockShared(t, k) ==
    /\ active_readers' = [active_readers EXCEPT ![t][k] = @ - 1]
    /\ notified' = (notified \/ (wpc = "wait" /\ at = t /\ elem[1] = k))

\* getByKey: the key has no record, the lock of this read is given back.
GiveBack(r) ==
    /\ rpc[r] = "giveback"
    /\ UnlockShared(rpos[r] % 2, KeyOf(r, rpos[r]))
    /\ rpc' = [rpc EXCEPT ![r] = "restart"]
    /\ UNCHANGED <<active_writer, tblVars, wpc, wtx, elem, at, rkeys, rpos,
                   released, got, histVars>>

\* Mutant of Until: the read that failed is counted as well.
UntilAll(n, s) == (n \div 2) + 1

\* How many keys of table s cleanUpReads releases when read n failed; all
\* of them when n is the number of reads.
Until(n, s) == IF n % 2 > s THEN (n \div 2) + 1 ELSE n \div 2

\* Mutant of CleanUpReads: table 0 is cleaned up twice, table 1 never.
CleanUpReadsTwice(r) ==
    LET n == rpos[r]
        i == IF released[r] < Until(n, 0) THEN released[r]
                                          ELSE released[r] - Until(n, 0)
    IN  /\ rpc[r] \in {"restart", "done"}
        /\ released[r] < Until(n, 0) + Until(n, 1)
        /\ UnlockShared(0, rkeys[r][i + 1])
        /\ released' = [released EXCEPT ![r] = @ + 1]
        /\ UNCHANGED <<active_writer, tblVars, wpc, wtx, elem, at, rpc, rkeys,
                       rpos, got, histVars>>

\* cleanUpReads of both tables, after a failed read or after publishing:
\* one unlockShared at a time.
CleanUpReads(r) ==
    LET n == rpos[r]
        s == IF released[r] < Until(n, 0) THEN 0 ELSE 1
        i == IF s = 0 THEN released[r] ELSE released[r] - Until(n, 0)
    IN  /\ rpc[r] \in {"restart", "done"}
        /\ released[r] < Until(n, 0) + Until(n, 1)
        /\ UnlockShared(s, rkeys[r][i + 1])
        /\ released' = [released EXCEPT ![r] = @ + 1]
        /\ UNCHANGED <<active_writer, tblVars, wpc, wtx, elem, at, rpc, rkeys,
                       rpos, got, histVars>>

AllReleased(r) == released[r] = Until(rpos[r], 0) + Until(rpos[r], 1)

\* `goto restart' with the same keys.
RestartRead(r) ==
    /\ rpc[r] = "restart"
    /\ AllReleased(r)
    /\ rpos' = [rpos EXCEPT ![r] = 0]
    /\ released' = [released EXCEPT ![r] = 0]
    /\ got' = [got EXCEPT ![r] = NoReads]
    /\ rpc' = [rpc EXCEPT ![r] = "lock"]
    /\ UNCHANGED <<lockVars, tblVars, writerVars, rkeys, histVars>>

FinishRead(r) ==
    /\ rpc[r] = "done"
    /\ AllReleased(r)
    /\ rkeys' = [rkeys EXCEPT ![r] = <<>>]
    /\ rpos' = [rpos EXCEPT ![r] = 0]
    /\ released' = [released EXCEPT ![r] = 0]
    /\ got' = [got EXCEPT ![r] = NoReads]
    /\ rpc' = [rpc EXCEPT ![r] = "idle"]
    /\ began' = [began EXCEPT ![r] = 1]
    /\ UNCHANGED <<lockVars, tblVars, writerVars, snaps, want>>

-----------------------------------------------------------------------------
\* The steps the writer's thread takes without further input.
WriterRuns ==
    \/ LockExclusive \/ WakeUp \/ Write \/ UnlockExclusive \/ TableReleased

WriterStep ==
    \/ TransactionBegin
    \/ \E k \in Keys, v \in Values \cup {NoValue} : Element(k, v)
    \/ TransactionPreCommit
    \/ TransactionAbort
    \/ WriterRuns

QueryRuns(r) ==
    \/ LockShared(r) \/ Fetch(r) \/ GiveBack(r) \/ CleanUpReads(r)
    \/ RestartRead(r) \/ FinishRead(r)

ReaderStep(r) ==
    \/ \E ks \in [1 .. TxSize -> Keys] : StartRead(r, ks)
    \/ QueryRuns(r)

Next == WriterStep \/ \E r \in Readers : ReaderStep(r)

Spec == Init /\ [][Next]_vars

(***************************************************************************)
(* Every thread that can go on eventually does.  The stream need not       *)
(* deliver another element, and no query need be started.                  *)
(***************************************************************************)
Fairness == WF_vars(WriterRuns) /\ \A r \in Readers : WF_vars(QueryRuns(r))

FairSpec == Spec /\ Fairness

-----------------------------------------------------------------------------
(***************************************************************************)
(* Properties                                                              *)
(***************************************************************************)

Records == Values \cup {InitValue, NoValue}

\* Every variable has its type; in particular no row lock has a negative
\* number of readers.
TypeOK ==
    /\ active_readers \in [Tables -> [Keys -> Nat]]
    /\ active_writer \in [Tables -> [Keys -> BOOLEAN]]
    /\ wKeysLocked \in [Tables -> Seq(Keys)]
    /\ tbl \in [Tables -> [Keys -> Records]]
    /\ lastCTS \in 0 .. MaxTx
    /\ wpc \in {"idle", "active", "lock", "wait", "write", "commit", "abort"}
    /\ wtx \in 0 .. MaxTx
    /\ elem \in (Keys \X Records) \cup {NoElem}
    /\ at \in Tables
    /\ notified \in BOOLEAN
    /\ rpc \in [Readers -> {"idle", "lock", "fetch", "giveback", "restart", "done"}]
    /\ rkeys \in [Readers -> {<<>>} \cup [1 .. TxSize -> Keys]]
    /\ rpos \in [Readers -> 0 .. 2 * TxSize]
    /\ released \in [Readers -> 0 .. 2 * TxSize]
    /\ got \in [Readers -> [Reads -> Records]]
    /\ snaps \in Seq([Keys -> Records])
    /\ want \in [Keys -> Records]
    /\ began \in [Readers -> Nat]

\* The reads whose row lock query r holds: the ones it has finished, and
\* the one it is fetching, without those that cleanUpReads has released.
Holds(r) ==
    LET n == rpos[r]
        givenBack(s) == IF s = 0
                        THEN IF released[r] < Until(n, 0) THEN released[r]
                                                          ELSE Until(n, 0)
                        ELSE IF released[r] < Until(n, 0) THEN 0
                                           ELSE released[r] - Until(n, 0)
    IN  {m \in Reads : /\ m < n \/ (m = n /\ rpc[r] \in {"fetch", "giveback"})
                       /\ m \div 2 >= givenBack(m % 2)}

\* Every shared lock is accounted for: active_readers of a row lock is the
\* number of reads that hold it.  A query that fails in the middle releases
\* exactly the locks it took (the `(i > s)? j+1 : j' of FromTxTables), so
\* no lock is lost and none is released twice.
LocksAccounted ==
    \A t \in Tables, k \in Keys :
        active_readers[t][k] =
            Cardinality({q \in Readers \X Reads :
                            /\ q[2] \in Holds(q[1])
                            /\ q[2] % 2 = t
                            /\ KeyOf(q[1], q[2]) = k})

\* While the running transaction holds a key exclusively no query reads it.
WriterExcludesReaders ==
    wpc \in {"active", "lock", "wait", "write"} =>
      \A t \in Tables, n \in 1 .. MaxWrites :
        n <= Len(wKeysLocked[t]) => active_readers[t][wKeysLocked[t][n]] = 0

\* Query r has read what is in snaps[i].
ReadsFrom(r, i) == \A n \in Reads : got[r][n] = snaps[i][KeyOf(r, n)]

\* What a query publishes is the state that one transaction left when it
\* ended, by a commit or by an abort (which undoes nothing, S2PLTable.hpp:221),
\* the last one before the query began or a later one: the query
\* sees no transaction in the middle, although the locks of its two tables
\* are taken and released one by one.
ReadsAtomic ==
    \A r \in Readers : rpc[r] = "done" =>
        \E i \in began[r] .. Len(snaps) : ReadsFrom(r, i)

\* A writer that waits for the readers of a key gets the key: no new reader
\* joins, and the last one to leave wakes it up.
WriterGetsLock == wpc = "wait" ~> wpc = "write"

\* The locking protocol as a whole, from lockShared and lockExclusive to cleanUpReads
\* and the unlocks of commit and abort: every lock that is held is accounted for by
\* the queries and the writer that took it, whatever failed in between, and no row
\* that the writer has locked is read.
LocksExclude == TypeOK /\ LocksAccounted /\ WriterExcludesReaders
=============================================================================
