-------------------------- MODULE S2PLTable_proofs --------------------------
(***************************************************************************)
(* Theorems about S2PLTable, for any number of queries, keys, values and   *)
(* transactions: the row locks are accounted for and exclude each other,   *)
(* and what a query publishes is the state one transaction left.           *)
(***************************************************************************)
EXTENDS S2PLTable, FiniteSetTheorems, TLAPS

-----------------------------------------------------------------------------
(***************************************************************************)
(* The inductive invariant.                                                *)
(***************************************************************************)

Locked(t) == {wKeysLocked[t][i] : i \in 1 .. Len(wKeysLocked[t])}
Growing == {"active", "lock", "wait", "write"}
Working == {"lock", "wait", "write"}
LastState == snaps[Len(snaps)]

\* The writer's locks at each stage of its transaction: none between two
\* transactions, the released table's are gone, and in the growing phase
\* each of them keeps readers out.
WriterLocks ==
    /\ wpc = "idle" => \A t \in Tables : wKeysLocked[t] = <<>>
    /\ wpc = "commit" /\ at = 0 => wKeysLocked[1] = <<>>
    /\ wpc = "abort" /\ at = 1 => wKeysLocked[0] = <<>>
    /\ wpc \in Working => elem \in Keys \X Records
    /\ wpc \in Growing =>
         \A t \in Tables : \A k \in Locked(t) :
            active_writer[t][k] /\ active_readers[t][k] = 0
    /\ wpc = "wait" => active_writer[at][elem[1]]
    /\ wpc = "write" => elem[1] \in Locked(at)

\* Which part of the running transaction has reached which table.
WriterState ==
    /\ Len(snaps) >= 1
    /\ wpc \notin Growing => want = LastState
    /\ wpc \notin Growing => \A t \in Tables : tbl[t] = LastState
    /\ wpc = "active" => \A t \in Tables : tbl[t] = want
    /\ wpc \in Working =>
         \A t \in Tables : t >= at =>
            want[elem[1]] = Stored(tbl[t][elem[1]], elem[2])
    /\ wpc \in Working =>
         \A t \in Tables : \A k \in Keys :
            tbl[t][k] = want[k] \/ (k = elem[1] /\ t >= at)
    /\ wpc \in Growing =>
         \A t \in Tables : \A k \in Keys :
            k \in Locked(t) \/ tbl[t][k] = LastState[k]

\* Where a query is, by its control state.
QueryPlace(r) ==
    /\ rpc[r] = "idle" => rpos[r] = 0
    /\ rpc[r] \in {"idle", "lock", "fetch", "giveback"} => released[r] = 0
    /\ rpc[r] # "idle" => rkeys[r] \in [1 .. TxSize -> Keys]
    /\ rpc[r] \in {"lock", "fetch", "giveback", "restart"} => rpos[r] < 2 * TxSize
    /\ rpc[r] = "done" => rpos[r] = 2 * TxSize
    /\ released[r] <= rpos[r]
    /\ began[r] \in 1 .. Len(snaps)

\* What a query has read so far is still in the tables while it goes on.
QueryReads(r) ==
    rpc[r] \in {"lock", "fetch", "giveback"} =>
        \A m \in Reads : m < rpos[r] => got[r][m] = tbl[m % 2][KeyOf(r, m)]

IInv ==
    /\ TypeOK
    /\ WriterLocks
    /\ WriterState
    /\ \A r \in Readers : QueryPlace(r) /\ QueryReads(r)
    /\ LocksAccounted
    /\ ReadsAtomic

-----------------------------------------------------------------------------
(***************************************************************************)
(* The locks that a query holds.                                           *)
(***************************************************************************)

\* cleanUpReads releases as many locks as there were finished reads: the
\* `(i > s)? j+1 : j' of FromTxTables misses none.
LEMMA UntilSum ==
    ASSUME NEW n \in Nat
    PROVE  /\ Until(n, 0) \in Nat /\ Until(n, 1) \in Nat
           /\ Until(n, 0) + Until(n, 1) = n
  BY DEF Until

\* Holds(r) as a function of the query's position, of how many locks it has
\* released and of whether it is in the middle of a read.
HeldReads(n, rel, reading) ==
    {m \in Reads :
        /\ m < n \/ (m = n /\ reading)
        /\ m \div 2 >= IF m % 2 = 0
                       THEN IF rel < Until(n, 0) THEN rel ELSE Until(n, 0)
                       ELSE IF rel < Until(n, 0) THEN 0 ELSE rel - Until(n, 0)}

LEMMA HoldsIs ==
    ASSUME NEW r
    PROVE  Holds(r) = HeldReads(rpos[r], released[r], rpc[r] \in {"fetch", "giveback"})
  BY DEF Holds, HeldReads

\* Before anything is released, the locks of all reads are held.
LEMMA HeldBefore ==
    ASSUME NEW n \in Nat, NEW reading \in BOOLEAN
    PROVE  HeldReads(n, 0, reading) = {m \in Reads : m < n \/ (m = n /\ reading)}
  <1>1. Until(n, 0) \in Nat
    BY UntilSum
  <1>2. \A m \in Reads : m \in Nat /\ m \div 2 >= 0 /\ m % 2 \in {0, 1}
    BY SizeAssumption DEF Reads
  <1> QED BY <1>1, <1>2 DEF HeldReads

\* When all are released, none is held.
LEMMA HeldAfter ==
    ASSUME NEW n \in Nat
    PROVE  HeldReads(n, n, FALSE) = {}
  BY SizeAssumption, UntilSum DEF HeldReads, Reads, Until

\* One step of cleanUpReads releases the lock of exactly one read.
LEMMA HeldStep ==
    ASSUME NEW n \in 0 .. 2 * TxSize, NEW rel \in Nat, rel < n
    PROVE  LET s == IF rel < Until(n, 0) THEN 0 ELSE 1
               i == IF s = 0 THEN rel ELSE rel - Until(n, 0)
               m == 2 * i + s
           IN  /\ m \in Reads /\ m % 2 = s /\ m \div 2 = i
               /\ m \in HeldReads(n, rel, FALSE)
               /\ HeldReads(n, rel + 1, FALSE) = HeldReads(n, rel, FALSE) \ {m}
  BY SizeAssumption, UntilSum DEF HeldReads, Reads, Until

\* The reads of all queries that hold the row lock of key k in table t.
Holders(t, k) ==
    {q \in Readers \X Reads : /\ q[2] \in Holds(q[1])
                              /\ q[2] % 2 = t
                              /\ KeyOf(q[1], q[2]) = k}

LEMMA HoldersFinite ==
    ASSUME NEW t, NEW k
    PROVE  /\ IsFiniteSet(Holders(t, k))
           /\ Cardinality(Holders(t, k)) \in Nat
  <1>1. IsFiniteSet(Reads)
    BY SizeAssumption, FS_Interval DEF Reads
  <1>2. IsFiniteSet(Readers \X Reads)
    BY <1>1, ReadersAssumption, FS_Product
  <1>3. IsFiniteSet(Holders(t, k))
    BY <1>2, FS_Subset DEF Holders
  <1> QED BY <1>3, FS_CardinalityType

\* A query asks for keys of the tables.
LEMMA KeyOfType ==
    ASSUME NEW r \in Readers, rkeys[r] \in [1 .. TxSize -> Keys], NEW m \in Reads
    PROVE  KeyOf(r, m) \in Keys /\ m % 2 \in Tables
  <1>1. m \div 2 + 1 \in 1 .. TxSize /\ m % 2 \in {0, 1}
    BY SizeAssumption DEF Reads
  <1> QED BY <1>1 DEF KeyOf, Tables

\* A row lock that a query holds has a reader.
LEMMA HeldHasReader ==
    ASSUME LocksAccounted, NEW r \in Readers, NEW m \in Holds(r),
           m \in Reads, KeyOf(r, m) \in Keys, m % 2 \in Tables
    PROVE  active_readers[m % 2][KeyOf(r, m)] # 0
  <1> DEFINE H == Holders(m % 2, KeyOf(r, m))
  <1>1. <<r, m>> \in H
    BY DEF Holders
  <1>2. Cardinality(H) # 0
    BY <1>1, HoldersFinite, FS_EmptySet
  <1>3. active_readers[m % 2][KeyOf(r, m)] = Cardinality(H)
    BY DEF LocksAccounted, Holders
  <1> QED BY <1>2, <1>3

\* What a query that still goes on has read, it holds the lock of.
LEMMA ReadIsHeld ==
    ASSUME IInv, NEW r \in Readers, rpc[r] \in {"lock", "fetch", "giveback"},
           NEW m \in Reads, m < rpos[r] \/ (m = rpos[r] /\ rpc[r] # "lock")
    PROVE  /\ KeyOf(r, m) \in Keys /\ m % 2 \in Tables
           /\ active_readers[m % 2][KeyOf(r, m)] # 0
  <1>1. released[r] = 0 /\ rpos[r] \in Nat /\ rkeys[r] \in [1 .. TxSize -> Keys]
    BY SizeAssumption DEF IInv, QueryPlace, TypeOK
  <1>2. m \in Holds(r)
    <2> DEFINE reading == rpc[r] \in {"fetch", "giveback"}
    <2>1. reading \in BOOLEAN /\ (reading <=> rpc[r] # "lock")
      OBVIOUS
    <2>2. HeldReads(rpos[r], 0, reading) = {x \in Reads : x < rpos[r] \/ (x = rpos[r] /\ reading)}
      BY <1>1, <2>1, HeldBefore
    <2>3. Holds(r) = HeldReads(rpos[r], 0, reading)
      BY <1>1, HoldsIs
    <2> QED BY <2>1, <2>2, <2>3
  <1>3. KeyOf(r, m) \in Keys /\ m % 2 \in Tables
    BY <1>1, KeyOfType
  <1> QED BY <1>2, <1>3, HeldHasReader DEF IInv

-----------------------------------------------------------------------------
(***************************************************************************)
(* The writer's steps.                                                     *)
(***************************************************************************)

\* No step of the writer touches a query or the number of readers.
LEMMA WriterFrame ==
    ASSUME WriterStep \/ UNCHANGED vars
    PROVE  UNCHANGED <<active_readers, readerVars, began>>
  <1>1. ASSUME NEW k \in Keys, NEW v \in Values \cup {NoValue}, Element(k, v)
        PROVE  UNCHANGED <<active_readers, readerVars, began>>
    BY <1>1 DEF Element, lockVars
  <1>2. CASE TransactionBegin
    BY <1>2 DEF TransactionBegin, lockVars, histVars
  <1>3. CASE TransactionPreCommit \/ TransactionAbort
    BY <1>3 DEF TransactionPreCommit, TransactionAbort, lockVars
  <1>4. CASE LockExclusive
    BY <1>4 DEF LockExclusive, histVars
  <1>5. CASE WakeUp \/ Write
    BY <1>5 DEF WakeUp, Write, lockVars, histVars
  <1>6. CASE UnlockExclusive \/ TableReleased
    BY <1>6 DEF UnlockExclusive, TableReleased, lockVars, histVars
  <1>7. CASE UNCHANGED vars
    BY <1>7 DEF vars, lockVars, histVars
  <1> QED BY <1>1, <1>2, <1>3, <1>4, <1>5, <1>6, <1>7 DEF WriterStep, WriterRuns

\* The history of transactions only grows, and by the state that the writer
\* has made.
LEMMA WriterHistory ==
    ASSUME IInv, WriterStep \/ UNCHANGED vars
    PROVE  \/ snaps' = snaps
           \/ snaps' = Append(snaps, want) /\ wpc = "active" /\ want' = want
  <1>1. ASSUME NEW k \in Keys, NEW v \in Values \cup {NoValue}, Element(k, v)
        PROVE  snaps' = snaps
    BY <1>1 DEF Element
  <1>2. CASE TransactionBegin \/ LockExclusive \/ WakeUp \/ Write \/ UnlockExclusive \/ TableReleased
    BY <1>2 DEF TransactionBegin, LockExclusive, WakeUp, Write, UnlockExclusive, TableReleased, histVars
  <1>3. CASE TransactionPreCommit \/ TransactionAbort
    BY <1>3 DEF TransactionPreCommit, TransactionAbort
  <1>4. CASE UNCHANGED vars
    BY <1>4 DEF vars, histVars
  <1> QED BY <1>1, <1>2, <1>3, <1>4 DEF WriterStep, WriterRuns

\* The writer leaves the accounts of the locks and the place of every query.
LEMMA WriterKeepsQueries ==
    ASSUME IInv, WriterStep \/ UNCHANGED vars
    PROVE  /\ LocksAccounted'
           /\ \A r \in Readers : QueryPlace(r)'
           /\ ReadsAtomic'
  <1>1. UNCHANGED <<active_readers, rpc, rkeys, rpos, released, got, began>>
    BY WriterFrame DEF readerVars
  <1>2. \A r : Holds(r)' = Holds(r)
    BY <1>1 DEF Holds
  <1>3. \A r, n : KeyOf(r, n)' = KeyOf(r, n)
    BY <1>1 DEF KeyOf
  <1>4. LocksAccounted'
    BY <1>1, <1>2, <1>3 DEF IInv, LocksAccounted
  <1>5. /\ Len(snaps') \in Nat /\ Len(snaps) \in Nat /\ Len(snaps) <= Len(snaps')
        /\ \A i \in 1 .. Len(snaps) : snaps'[i] = snaps[i]
    <2>1. snaps \in Seq([Keys -> Records]) /\ want \in [Keys -> Records]
      BY DEF IInv, TypeOK
    <2>2. CASE snaps' = snaps
      BY <2>1, <2>2
    <2>3. CASE snaps' = Append(snaps, want)
      BY <2>1, <2>3
    <2> QED BY <2>2, <2>3, WriterHistory
  <1>6. ASSUME NEW r \in Readers
        PROVE  QueryPlace(r)'
    <2>1. QueryPlace(r)
      BY DEF IInv
    <2>2. began'[r] \in 1 .. Len(snaps')
      BY <1>1, <1>5, <2>1 DEF QueryPlace
    <2> QED BY <1>1, <2>1, <2>2 DEF QueryPlace
  <1>7. ASSUME NEW r \in Readers, rpc'[r] = "done"
        PROVE  \E i \in began'[r] .. Len(snaps') : ReadsFrom(r, i)'
    <2>1. PICK i \in began[r] .. Len(snaps) : ReadsFrom(r, i)
      BY <1>1, <1>7 DEF IInv, ReadsAtomic
    <2>2. i \in 1 .. Len(snaps)
      BY <2>1 DEF IInv, QueryPlace, TypeOK
    <2>3. ReadsFrom(r, i)'
      BY <1>1, <1>3, <1>5, <2>1, <2>2 DEF ReadsFrom
    <2>4. i \in began'[r] .. Len(snaps')
      BY <1>1, <1>5, <2>1, <2>2
    <2> QED BY <2>3, <2>4
  <1> QED BY <1>4, <1>6, <1>7 DEF ReadsAtomic

\* A key that a query holds is not the writer's: a granted lock has no
\* readers.
LEMMA WriterKeepsReads ==
    ASSUME IInv, WriterStep \/ UNCHANGED vars
    PROVE  \A r \in Readers : QueryReads(r)'
  <1> SUFFICES ASSUME NEW r \in Readers, rpc'[r] \in {"lock", "fetch", "giveback"},
                      NEW m \in Reads, m < rpos'[r]
               PROVE  got'[r][m] = tbl'[m % 2][KeyOf(r, m)']
    BY DEF QueryReads
  <1>1. UNCHANGED <<active_readers, rpc, rkeys, rpos, released, got, began>>
    BY WriterFrame DEF readerVars
  <1> DEFINE t == m % 2
             k == KeyOf(r, m)
  <1>2. KeyOf(r, m)' = k
    BY <1>1 DEF KeyOf
  <1>3. k \in Keys /\ t \in Tables /\ active_readers[t][k] # 0
    BY <1>1, ReadIsHeld
  <1>4. got[r][m] = tbl[t][k]
    BY <1>1 DEF IInv, QueryReads
  <1>5. tbl'[t][k] = tbl[t][k]
    <2>1. CASE Write
      <3>1. elem[1] \in Locked(at) /\ active_readers[at][elem[1]] = 0
        BY <2>1 DEF Write, IInv, WriterLocks, Growing, TypeOK
      <3>2. t # at \/ k # elem[1]
        BY <1>3, <3>1
      <3>3. tbl' = [tbl EXCEPT ![at][elem[1]] = Stored(tbl[at][elem[1]], elem[2])]
        BY <2>1 DEF Write
      <3> QED BY <1>3, <3>2, <3>3 DEF IInv, TypeOK
    <2>2. CASE tbl' = tbl
      BY <2>2
    <2>3. Write \/ tbl' = tbl
      <3>1. ASSUME NEW x \in Keys, NEW v \in Values \cup {NoValue}, Element(x, v)
            PROVE  tbl' = tbl
        BY <3>1 DEF Element, tblVars
      <3>2. CASE TransactionBegin \/ TransactionPreCommit \/ TransactionAbort
        BY <3>2 DEF TransactionBegin, TransactionPreCommit, TransactionAbort, tblVars
      <3>3. CASE LockExclusive \/ WakeUp \/ UnlockExclusive \/ TableReleased
        BY <3>3 DEF LockExclusive, WakeUp, UnlockExclusive, TableReleased
      <3>4. CASE UNCHANGED vars
        BY <3>4 DEF vars, tblVars
      <3> QED BY <3>1, <3>2, <3>3, <3>4 DEF WriterStep, WriterRuns
    <2> QED BY <2>1, <2>2, <2>3
  <1> QED BY <1>1, <1>2, <1>4, <1>5

\* A granted lock is one more of the writer's locks.
LEMMA LockedAppend ==
    ASSUME TypeOK, NEW t \in Tables, NEW k \in Keys,
           wKeysLocked' = [wKeysLocked EXCEPT ![t] = Append(@, k)]
    PROVE  /\ Locked(t)' = Locked(t) \cup {k}
           /\ \A u \in Tables : u # t => Locked(u)' = Locked(u)
           /\ wKeysLocked' \in [Tables -> Seq(Keys)]
  <1>1. wKeysLocked[t] \in Seq(Keys) /\ wKeysLocked'[t] = Append(wKeysLocked[t], k)
    BY DEF TypeOK
  <1>2. Locked(t)' = Locked(t) \cup {k}
    <2> DEFINE s == wKeysLocked[t]
    <2>1. Len(Append(s, k)) = Len(s) + 1 /\ Len(s) \in Nat
      BY <1>1
    <2>2. \A i \in 1 .. Len(s) : Append(s, k)[i] = s[i]
      BY <1>1
    <2>3. Append(s, k)[Len(s) + 1] = k
      BY <1>1
    <2> QED BY <1>1, <2>1, <2>2, <2>3 DEF Locked
  <1>3. \A u \in Tables : u # t => Locked(u)' = Locked(u)
    BY DEF TypeOK, Locked
  <1>4. wKeysLocked' \in [Tables -> Seq(Keys)]
    BY <1>1 DEF TypeOK
  <1> QED BY <1>2, <1>3, <1>4

LEMMA TransactionBeginInv ==
    ASSUME IInv, TransactionBegin
    PROVE  TypeOK' /\ WriterLocks' /\ WriterState'
  <1> USE DEF TransactionBegin, lockVars, tblVars, readerVars, histVars
  <1>1. TypeOK'
    BY BoundAssumption DEF IInv, TypeOK
  <1>2. \A t \in Tables : wKeysLocked[t] = <<>> /\ Locked(t) = {}
    BY DEF IInv, WriterLocks, Locked
  <1>3. WriterLocks'
    BY <1>2 DEF IInv, WriterLocks, Locked, Working, Growing
  <1>4. WriterState'
    BY DEF IInv, WriterState, Locked, Working, Growing, LastState
  <1> QED BY <1>1, <1>3, <1>4

LEMMA ElementInv ==
    ASSUME IInv, NEW k \in Keys, NEW v \in Values \cup {NoValue}, Element(k, v)
    PROVE  TypeOK' /\ WriterLocks' /\ WriterState'
  <1> USE DEF Element, lockVars, tblVars, readerVars, histVars
  <1>1. <<k, v>> \in Keys \X Records /\ v \in Records
    BY DEF Records
  <1>2. TypeOK'
    BY <1>1 DEF IInv, TypeOK, Tables, Stored
  <1>3. WriterLocks'
    BY <1>1 DEF IInv, WriterLocks, Locked, Working, Growing
  <1>4. WriterState'
    <2>1. /\ want' = [want EXCEPT ![k] = Stored(want[k], v)] /\ want \in [Keys -> Records]
          /\ elem' = <<k, v>>
      BY DEF IInv, TypeOK
    <2>2. \A t \in Tables : tbl[t] = want /\ t >= 0
      BY DEF IInv, WriterState, Tables
    <2> QED BY <2>1, <2>2 DEF IInv, WriterState, Locked, Working, Growing, LastState
  <1> QED BY <1>2, <1>3, <1>4

\* With the lock granted, or not: lockExclusive, and the wakeup in it.
LEMMA TryExclusiveInv ==
    ASSUME IInv, LockExclusive \/ WakeUp
    PROVE  TypeOK' /\ WriterLocks' /\ WriterState'
  <1> DEFINE k == elem[1]
  <1>1. /\ UNCHANGED <<active_readers, tbl, lastCTS, wtx, elem, at, readerVars, histVars>>
        /\ TryExclusive(k) /\ notified' = FALSE /\ wpc \in {"lock", "wait"}
    BY DEF LockExclusive, WakeUp, lockVars
  <1>2. elem \in Keys \X Records /\ k \in Keys /\ at \in Tables
    BY <1>1 DEF IInv, WriterLocks, Working, TypeOK
  <1>3. active_writer' = [active_writer EXCEPT ![at][k] = TRUE]
    <2>1. CASE LockExclusive
      BY <2>1 DEF LockExclusive
    <2>2. CASE WakeUp
      <3>1. active_writer[at][k] = TRUE
        BY <2>2 DEF WakeUp, IInv, WriterLocks, TypeOK, Tables
      <3> QED BY <1>2, <2>2, <3>1 DEF WakeUp, lockVars, IInv, TypeOK
    <2> QED BY <2>1, <2>2
  <1>4. active_writer' \in [Tables -> [Keys -> BOOLEAN]]
    BY <1>2, <1>3 DEF IInv, TypeOK
  <1>5. /\ active_writer'[at][k]
        /\ \A t \in Tables : \A x \in Keys : active_writer[t][x] => active_writer'[t][x]
    BY <1>2, <1>3 DEF IInv, TypeOK
  <1>6. \A t \in Tables : \A x \in Locked(t) : x \in Keys /\ active_writer[t][x] /\ active_readers[t][x] = 0
    BY <1>1, SMTT(60) DEF IInv, WriterLocks, Growing, Locked, TypeOK
  <1>7. CASE /\ active_readers[at][k] = 0
             /\ wKeysLocked' = [wKeysLocked EXCEPT ![at] = Append(@, k)]
             /\ wpc' = "write"
    <2>1. /\ Locked(at)' = Locked(at) \cup {k}
          /\ \A u \in Tables : u # at => Locked(u)' = Locked(u)
          /\ wKeysLocked' \in [Tables -> Seq(Keys)]
      <3>1. PICK t \in Tables : t = at
        BY <1>2
      <3>2. PICK x \in Keys : x = k
        BY <1>2
      <3>3. /\ Locked(t)' = Locked(t) \cup {x}
            /\ \A u \in Tables : u # t => Locked(u)' = Locked(u)
            /\ wKeysLocked' \in [Tables -> Seq(Keys)]
        BY <1>7, <3>1, <3>2, LockedAppend DEF IInv
      <3>4. Locked(at)' = Locked(t)' /\ Locked(at) = Locked(t)
        BY <1>1, <3>1 DEF Locked
      <3> QED BY <3>1, <3>2, <3>3, <3>4
    <2>2. TypeOK'
      BY <1>1, <1>4, <1>7, <2>1 DEF IInv, TypeOK, readerVars, histVars
    <2>3. \A t \in Tables : \A x \in Locked(t)' : active_writer'[t][x] /\ active_readers'[t][x] = 0
      BY <1>1, <1>5, <1>6, <1>7, <2>1
    <2>4. WriterLocks'
      BY <1>1, <1>2, <1>7, <2>1, <2>3 DEF WriterLocks, Growing, Working
    <2>5. WriterState'
      BY <1>1, <1>7, <2>1 DEF IInv, WriterState, Growing, Working, LastState, histVars
    <2> QED BY <2>2, <2>4, <2>5
  <1>8. CASE wpc' = "wait" /\ wKeysLocked' = wKeysLocked
    <2>1. TypeOK'
      BY <1>1, <1>4, <1>8 DEF IInv, TypeOK, readerVars, histVars
    <2>2. WriterLocks'
      BY <1>1, <1>2, <1>5, <1>6, <1>8 DEF WriterLocks, Growing, Working, Locked
    <2>3. WriterState'
      BY <1>1, <1>8 DEF IInv, WriterState, Growing, Working, LastState, Locked, histVars
    <2> QED BY <2>1, <2>2, <2>3
  <1> QED BY <1>1, <1>7, <1>8 DEF TryExclusive

LEMMA WriteInv ==
    ASSUME IInv, Write
    PROVE  TypeOK' /\ WriterLocks' /\ WriterState'
  <1> DEFINE k == elem[1]
             v == elem[2]
  <1>1. /\ k \in Keys /\ v \in Records /\ at \in Tables /\ elem \in Keys \X Records
        /\ k \in Locked(at)
        /\ \A t \in Tables : t >= at => want[k] = Stored(tbl[t][k], v)
    BY DEF Write, IInv, WriterLocks, WriterState, Working, TypeOK
  <1>2. /\ UNCHANGED <<lockVars, wKeysLocked, lastCTS, wtx, notified, readerVars, histVars>>
        /\ tbl' = [tbl EXCEPT ![at][k] = Stored(tbl[at][k], v)]
    BY DEF Write
  <1> DEFINE rec == Stored(tbl[at][k], v)
  <1>a. rec \in Records /\ rec = want[k]
    BY <1>1 DEF IInv, TypeOK, Stored, Tables
  <1>3. /\ tbl' \in [Tables -> [Keys -> Records]]
        /\ tbl'[at][k] = want[k]
        /\ \A t \in Tables : \A x \in Keys : t # at \/ x # k => tbl'[t][x] = tbl[t][x]
    <2> HIDE DEF rec
    <2>1. tbl' = [tbl EXCEPT ![at][k] = rec]
      BY <1>2 DEF rec
    <2> QED BY <1>1, <1>a, <2>1 DEF IInv, TypeOK
  <1>4. \A t \in Tables : \A x \in Keys : tbl[t][x] = want[x] \/ (x = k /\ t >= at)
    BY DEF Write, IInv, WriterState, Working
  <1>5. \A t \in Tables : \A x \in Keys : x \in Locked(t) \/ tbl'[t][x] = LastState[x]
    BY <1>1, <1>3 DEF Write, IInv, WriterState, Growing
  <1>6. \A t \in Tables : \A x \in Locked(t) : active_writer[t][x] /\ active_readers[t][x] = 0
    BY DEF Write, IInv, WriterLocks, Growing
  <1>7. \/ at = 0 /\ at' = 1 /\ wpc' = "lock" /\ elem' = elem
        \/ at = 1 /\ at' = 0 /\ wpc' = "active" /\ elem' = NoElem
    BY DEF Write
  <1>8. TypeOK'
    BY <1>1, <1>2, <1>3, <1>7 DEF IInv, TypeOK, lockVars, readerVars, histVars, Tables
  <1>9. WriterLocks'
    BY <1>1, <1>2, <1>6, <1>7 DEF WriterLocks, Locked, Working, lockVars
  <1>10. WriterState'
    <2>1. Len(snaps)' >= 1 /\ UNCHANGED <<snaps, want, wKeysLocked>>
      BY <1>2 DEF IInv, WriterState, histVars
    <2>2. \A t \in Tables : \A x \in Keys : x \in Locked(t)' \/ tbl'[t][x] = LastState'[x]
      BY <1>5, <2>1 DEF Locked, LastState
    <2>3. CASE at = 0 /\ at' = 1 /\ wpc' = "lock" /\ elem' = elem
      <3>1. \A t \in Tables : \A x \in Keys : tbl'[t][x] = want[x] \/ (x = k /\ t >= 1)
        BY <1>1, <1>3, <1>4, <2>3 DEF Tables
      <3>2. \A t \in Tables : t >= 1 => want[k] = Stored(tbl'[t][k], v)
        BY <1>1, <1>3, <2>3 DEF Tables
      <3> QED BY <1>1, <2>1, <2>2, <2>3, <3>1, <3>2 DEF WriterState, Growing, Working, Stored
    <2>4. CASE at = 1 /\ at' = 0 /\ wpc' = "active" /\ elem' = NoElem
      <3>1. \A t \in Tables : \A x \in Keys : tbl'[t][x] = want[x]
        BY <1>1, <1>3, <1>4, <2>4 DEF Tables
      <3>2. \A t \in Tables : tbl'[t] = want
        BY <1>3, <3>1 DEF IInv, TypeOK
      <3> QED BY <2>1, <2>2, <2>4, <3>2 DEF WriterState, Growing, Working
    <2> QED BY <1>7, <2>3, <2>4
  <1> QED BY <1>8, <1>9, <1>10

\* The end of a transaction: what it made is the last state, in all tables.
LEMMA TransactionEndInv ==
    ASSUME IInv, TransactionPreCommit \/ TransactionAbort
    PROVE  TypeOK' /\ WriterLocks' /\ WriterState'
  <1>1. /\ UNCHANGED <<lockVars, tblVars, wtx, elem, notified, readerVars, want, began>>
        /\ snaps' = Append(snaps, want) /\ wpc = "active"
        /\ (wpc' = "commit" /\ at' = 1) \/ (wpc' = "abort" /\ at' = 0)
    BY DEF TransactionPreCommit, TransactionAbort
  <1>2. snaps \in Seq([Keys -> Records]) /\ want \in [Keys -> Records]
    BY DEF IInv, TypeOK
  <1>3. /\ snaps' \in Seq([Keys -> Records]) /\ Len(snaps') = Len(snaps) + 1
        /\ snaps'[Len(snaps')] = want /\ Len(snaps) \in Nat
    BY <1>1, <1>2
  <1>4. TypeOK'
    BY <1>1, <1>3 DEF IInv, TypeOK, lockVars, tblVars, readerVars, Tables
  <1>5. WriterLocks'
    BY <1>1 DEF WriterLocks, Working, Growing
  <1>6. \A t \in Tables : tbl[t] = want
    BY <1>1 DEF IInv, WriterState
  <1>7. WriterState'
    BY <1>1, <1>3, <1>6 DEF WriterState, Working, Growing, LastState, tblVars
  <1> QED BY <1>4, <1>5, <1>7

LEMMA ReleaseInv ==
    ASSUME IInv, UnlockExclusive \/ TableReleased
    PROVE  TypeOK' /\ WriterLocks' /\ WriterState'
  <1>1. /\ wpc \in {"commit", "abort"} /\ wpc' \in {wpc, "idle"}
        /\ UNCHANGED <<active_readers, tbl, wtx, elem, notified, readerVars, histVars>>
    BY DEF UnlockExclusive, TableReleased, lockVars, writerVars
  <1>2. WriterState'
    BY <1>1 DEF IInv, WriterState, Working, Growing, LastState, histVars
  <1>3. CASE UnlockExclusive
    <2> USE <1>3 DEF UnlockExclusive
    <2> DEFINE s == wKeysLocked[at]
    <2>1. at \in Tables /\ s \in Seq(Keys) /\ s # <<>>
      BY DEF IInv, TypeOK
    <2>2. Head(s) \in Keys /\ Tail(s) \in Seq(Keys)
      BY <2>1
    <2>3. active_writer' \in [Tables -> [Keys -> BOOLEAN]] /\ wKeysLocked' \in [Tables -> Seq(Keys)]
      BY <2>1, <2>2 DEF IInv, TypeOK
    <2>4. TypeOK'
      BY <1>1, <2>3 DEF IInv, TypeOK, readerVars, histVars, writerVars
    <2>5. \A t \in Tables : t # at => wKeysLocked'[t] = wKeysLocked[t]
      BY DEF IInv, TypeOK
    <2>6. WriterLocks'
      BY <1>1, <2>5 DEF IInv, WriterLocks, writerVars, Growing, Working, Tables
    <2> QED BY <1>2, <2>4, <2>6
  <1>4. CASE TableReleased
    <2>1. at \in Tables /\ wtx \in 0 .. MaxTx /\ at' \in Tables
      BY <1>4 DEF TableReleased, IInv, TypeOK, Tables
    <2>2. TypeOK'
      BY <1>1, <1>4, <2>1 DEF TableReleased, IInv, TypeOK, readerVars, histVars, lockVars
    <2>3. WriterLocks'
      BY <1>1, <1>4, <2>1 DEF TableReleased, IInv, WriterLocks, Growing, Working, Tables
    <2> QED BY <1>2, <2>2, <2>3
  <1> QED BY <1>3, <1>4

LEMMA WriterStepInv ==
    ASSUME IInv, WriterStep \/ UNCHANGED vars
    PROVE  IInv'
  <1>1. TypeOK' /\ WriterLocks' /\ WriterState'
    <2>1. CASE UNCHANGED vars
      <3> USE <2>1 DEF vars, lockVars, tblVars, writerVars, readerVars, histVars
      <3>1. TypeOK'
        BY DEF IInv, TypeOK
      <3>2. WriterLocks'
        BY DEF IInv, WriterLocks, Locked
      <3>3. WriterState'
        BY DEF IInv, WriterState, LastState, Locked
      <3> QED BY <3>1, <3>2, <3>3
    <2> QED
      BY <2>1, TransactionBeginInv, ElementInv, TryExclusiveInv, WriteInv,
         TransactionEndInv, ReleaseInv DEF WriterStep, WriterRuns
  <1> QED BY <1>1, WriterKeepsQueries, WriterKeepsReads DEF IInv

-----------------------------------------------------------------------------
(***************************************************************************)
(* The queries' steps.                                                     *)
(***************************************************************************)

\* The accounts when one more read of query r holds its lock, ...
LEMMA HoldersGrow ==
    ASSUME TypeOK, LocksAccounted, NEW r \in Readers, NEW n \in Reads,
           n \notin Holds(r), n % 2 \in Tables, KeyOf(r, n) \in Keys,
           Holds(r)' = Holds(r) \cup {n},
           \A z \in Readers : z # r => Holds(z)' = Holds(z),
           rkeys' = rkeys,
           active_readers' = [active_readers EXCEPT ![n % 2][KeyOf(r, n)] = @ + 1]
    PROVE  LocksAccounted' /\ active_readers' \in [Tables -> [Keys -> Nat]]
  <1>1. \A z, m : KeyOf(z, m)' = KeyOf(z, m)
    BY DEF KeyOf
  <1>2. ASSUME NEW t \in Tables, NEW k \in Keys
        PROVE  active_readers'[t][k] = Cardinality(Holders(t, k)')
    <2>1. /\ active_readers[t][k] = Cardinality(Holders(t, k))
          /\ active_readers[t][k] \in Nat
      BY DEF LocksAccounted, Holders, TypeOK
    <2>2. CASE t = n % 2 /\ k = KeyOf(r, n)
      <3>1. Holders(t, k)' = Holders(t, k) \cup {<<r, n>>}
        BY <1>1, <2>2 DEF Holders
      <3>2. <<r, n>> \notin Holders(t, k)
        BY DEF Holders
      <3>3. IsFiniteSet(Holders(t, k))
        BY HoldersFinite
      <3>4. Cardinality(Holders(t, k)') = Cardinality(Holders(t, k)) + 1
        BY <3>1, <3>2, <3>3, FS_AddElement
      <3>5. active_readers'[t][k] = active_readers[t][k] + 1
        BY <2>2 DEF TypeOK
      <3> QED BY <2>1, <3>4, <3>5
    <2>3. CASE ~(t = n % 2 /\ k = KeyOf(r, n))
      <3>1. Holders(t, k)' = Holders(t, k)
        BY <1>1, <2>3 DEF Holders
      <3>2. active_readers'[t][k] = active_readers[t][k]
        BY <2>3 DEF TypeOK
      <3> QED BY <2>1, <3>1, <3>2
    <2> QED BY <2>2, <2>3
  <1>3. LocksAccounted'
    BY <1>2 DEF LocksAccounted, Holders
  <1>4. active_readers' \in [Tables -> [Keys -> Nat]]
    BY SMTT(60) DEF TypeOK
  <1> QED BY <1>3, <1>4

LEMMA RemoveOne ==
    ASSUME NEW S, IsFiniteSet(S), NEW x \in S
    PROVE  Cardinality(S \ {x}) = Cardinality(S) - 1
  BY FS_RemoveElement

\* ... when one of its reads gives it back, ...
LEMMA HoldersShrink ==
    ASSUME TypeOK, LocksAccounted, NEW r \in Readers, NEW n \in Reads,
           n \in Holds(r), n % 2 \in Tables, KeyOf(r, n) \in Keys,
           Holds(r)' = Holds(r) \ {n},
           \A z \in Readers : z # r => Holds(z)' = Holds(z),
           rkeys' = rkeys,
           active_readers' = [active_readers EXCEPT ![n % 2][KeyOf(r, n)] = @ - 1]
    PROVE  /\ LocksAccounted' /\ active_readers' \in [Tables -> [Keys -> Nat]]
           /\ active_readers[n % 2][KeyOf(r, n)] # 0
  <1>1. \A z, m : KeyOf(z, m)' = KeyOf(z, m)
    BY DEF KeyOf
  <1>2. ASSUME NEW t \in Tables, NEW k \in Keys
        PROVE  active_readers'[t][k] = Cardinality(Holders(t, k)')
    <2>1. /\ active_readers[t][k] = Cardinality(Holders(t, k))
          /\ active_readers[t][k] \in Nat
      BY DEF LocksAccounted, Holders, TypeOK
    <2>2. CASE t = n % 2 /\ k = KeyOf(r, n)
      <3>1. Holders(t, k)' = Holders(t, k) \ {<<r, n>>}
        BY <1>1, <2>2 DEF Holders
      <3>2. <<r, n>> \in Holders(t, k)
        BY <2>2 DEF Holders
      <3>3. IsFiniteSet(Holders(t, k))
        BY HoldersFinite
      <3>4. Cardinality(Holders(t, k)') = Cardinality(Holders(t, k)) - 1
        BY <3>1, <3>2, <3>3, RemoveOne
      <3>5. active_readers'[t][k] = active_readers[t][k] - 1
        BY <2>2 DEF TypeOK
      <3> QED BY <2>1, <3>4, <3>5
    <2>3. CASE ~(t = n % 2 /\ k = KeyOf(r, n))
      <3>1. Holders(t, k)' = Holders(t, k)
        BY <1>1, <2>3 DEF Holders
      <3>2. active_readers'[t][k] = active_readers[t][k]
        BY <2>3 DEF TypeOK
      <3> QED BY <2>1, <3>1, <3>2
    <2> QED BY <2>2, <2>3
  <1>3. LocksAccounted'
    BY <1>2 DEF LocksAccounted, Holders
  <1>4. active_readers[n % 2][KeyOf(r, n)] # 0
    BY HeldHasReader
  <1>5. active_readers[n % 2][KeyOf(r, n)] - 1 \in Nat
    BY <1>4 DEF TypeOK
  <1>6. active_readers' \in [Tables -> [Keys -> Nat]]
    BY <1>5 DEF TypeOK
  <1> QED BY <1>3, <1>4, <1>6

\* ... and when nothing is locked or released.
LEMMA HoldersSame ==
    ASSUME LocksAccounted, active_readers' = active_readers,
           \A z \in Readers : Holds(z)' = Holds(z),
           \A z \in Readers : \A m \in Holds(z) : KeyOf(z, m)' = KeyOf(z, m)
    PROVE  LocksAccounted'
  <1>1. \A t, k : Holders(t, k)' = Holders(t, k)
    BY DEF Holders
  <1> QED BY <1>1 DEF LocksAccounted, Holders

\* No step of a query touches the tables or the writer's locks.
LEMMA ReaderFrame ==
    ASSUME NEW r \in Readers, ReaderStep(r)
    PROVE  UNCHANGED <<active_writer, tblVars, wpc, wtx, elem, at, snaps, want>>
  <1>1. ASSUME NEW ks \in [1 .. TxSize -> Keys], StartRead(r, ks)
        PROVE  UNCHANGED <<active_writer, tblVars, wpc, wtx, elem, at, snaps, want>>
    BY <1>1 DEF StartRead, lockVars, writerVars
  <1>2. CASE LockShared(r)
    BY <1>2 DEF LockShared, writerVars, histVars
  <1>3. CASE Fetch(r)
    BY <1>3 DEF Fetch, lockVars, writerVars, histVars
  <1>4. CASE GiveBack(r)
    BY <1>4 DEF GiveBack, histVars
  <1>5. CASE CleanUpReads(r)
    BY <1>5 DEF CleanUpReads, histVars
  <1>6. CASE RestartRead(r)
    BY <1>6 DEF RestartRead, lockVars, writerVars, histVars
  <1>7. CASE FinishRead(r)
    BY <1>7 DEF FinishRead, lockVars, writerVars
  <1> QED BY <1>1, <1>2, <1>3, <1>4, <1>5, <1>6, <1>7 DEF ReaderStep, QueryRuns

\* The other queries stay where they are.
LEMMA ReaderAlone ==
    ASSUME TypeOK, NEW r \in Readers, ReaderStep(r), NEW z \in Readers, z # r
    PROVE  /\ rpc'[z] = rpc[z] /\ rkeys'[z] = rkeys[z] /\ rpos'[z] = rpos[z]
           /\ released'[z] = released[z] /\ got'[z] = got[z] /\ began'[z] = began[z]
           /\ Holds(z)' = Holds(z)
  <1> USE DEF TypeOK
  <1>1. /\ rpc'[z] = rpc[z] /\ rkeys'[z] = rkeys[z] /\ rpos'[z] = rpos[z]
        /\ released'[z] = released[z] /\ got'[z] = got[z] /\ began'[z] = began[z]
    <2>1. ASSUME NEW ks \in [1 .. TxSize -> Keys], StartRead(r, ks)
          PROVE  rpc'[z] = rpc[z] /\ rkeys'[z] = rkeys[z] /\ rpos'[z] = rpos[z] /\
                 released'[z] = released[z] /\ got'[z] = got[z] /\ began'[z] = began[z]
      BY <2>1 DEF StartRead
    <2>2. CASE LockShared(r)
      BY <2>2 DEF LockShared, histVars
    <2>3. CASE Fetch(r)
      BY <2>3 DEF Fetch, histVars
    <2>4. CASE GiveBack(r)
      BY <2>4 DEF GiveBack, histVars
    <2>5. CASE CleanUpReads(r)
      BY <2>5 DEF CleanUpReads, histVars
    <2>6. CASE RestartRead(r)
      BY <2>6 DEF RestartRead, histVars
    <2>7. CASE FinishRead(r)
      BY <2>7 DEF FinishRead
    <2> QED BY <2>1, <2>2, <2>3, <2>4, <2>5, <2>6, <2>7 DEF ReaderStep, QueryRuns
  <1>2. Holds(z)' = Holds(z)
    BY <1>1 DEF Holds
  <1> QED BY <1>1, <1>2

\* What a step of query r has to establish; the rest is left alone.
LEMMA ReaderStepFrame ==
    ASSUME IInv, NEW r \in Readers, ReaderStep(r),
           TypeOK', LocksAccounted', QueryPlace(r)', QueryReads(r)',
           rpc'[r] = "done" => \E i \in began'[r] .. Len(snaps') : ReadsFrom(r, i)',
           wpc \in Growing => \A t \in Tables : \A k \in Locked(t) : active_readers'[t][k] = 0
    PROVE  IInv'
  <1>1. UNCHANGED <<active_writer, wKeysLocked, tbl, lastCTS, wpc, wtx, elem, at, snaps, want>>
    BY ReaderFrame DEF tblVars
  <1>2. WriterLocks'
    BY <1>1 DEF IInv, WriterLocks, Locked
  <1>3. WriterState'
    BY <1>1 DEF IInv, WriterState, Locked, LastState
  <1>4. ASSUME NEW z \in Readers, z # r
        PROVE  /\ QueryPlace(z)' /\ QueryReads(z)'
               /\ rpc'[z] = "done" => \E i \in began'[z] .. Len(snaps') : ReadsFrom(z, i)'
    <2>1. /\ rpc'[z] = rpc[z] /\ rkeys'[z] = rkeys[z] /\ rpos'[z] = rpos[z]
          /\ released'[z] = released[z] /\ got'[z] = got[z] /\ began'[z] = began[z]
      BY <1>4, ReaderAlone DEF IInv
    <2>2. \A m : KeyOf(z, m)' = KeyOf(z, m)
      BY <2>1 DEF KeyOf
    <2>3. QueryPlace(z)'
      BY <1>1, <2>1 DEF IInv, QueryPlace
    <2>4. QueryReads(z)'
      BY <1>1, <2>1, <2>2 DEF IInv, QueryReads
    <2>5. \A i : ReadsFrom(z, i)' <=> ReadsFrom(z, i)
      BY <1>1, <2>1, <2>2 DEF ReadsFrom
    <2>6. rpc[z] = "done" => \E i \in began[z] .. Len(snaps) : ReadsFrom(z, i)
      BY DEF IInv, ReadsAtomic
    <2> QED BY <1>1, <2>1, <2>3, <2>4, <2>5, <2>6
  <1>5. ReadsAtomic'
    BY <1>4 DEF ReadsAtomic
  <1> QED BY <1>2, <1>3, <1>4, <1>5 DEF IInv

LEMMA StartReadInv ==
    ASSUME IInv, NEW r \in Readers, NEW ks \in [1 .. TxSize -> Keys], StartRead(r, ks)
    PROVE  IInv'
  <1>1. ReaderStep(r)
    BY DEF ReaderStep
  <1> USE DEF StartRead
  <1>2. TypeOK'
    BY SizeAssumption, SMTT(60) DEF IInv, TypeOK, lockVars, tblVars, writerVars
  <1>3. /\ rpos[r] = 0 /\ released[r] = 0 /\ rpos'[r] = 0 /\ released'[r] = 0
        /\ rpc[r] = "idle" /\ rpc'[r] = "lock" /\ rkeys'[r] = ks
    BY DEF IInv, TypeOK, QueryPlace
  <1>4. Holds(r) = {} /\ Holds(r)' = {}
    <2>1. Holds(r) = HeldReads(0, 0, FALSE) /\ Holds(r)' = HeldReads(0, 0, FALSE)
      BY <1>3 DEF Holds, HeldReads
    <2> QED BY <2>1, HeldAfter
  <1>5. LocksAccounted'
    <2>1. \A z \in Readers : z # r => /\ Holds(z)' = Holds(z)
                                      /\ \A m : KeyOf(z, m)' = KeyOf(z, m)
      BY <1>1, ReaderAlone DEF IInv, KeyOf
    <2> QED BY <1>4, <2>1, HoldersSame DEF IInv, lockVars
  <1>6. began'[r] \in 1 .. Len(snaps')
    BY DEF IInv, TypeOK, WriterState
  <1>7. QueryPlace(r)' /\ QueryReads(r)'
    BY <1>3, <1>6, SizeAssumption DEF QueryPlace, QueryReads, Reads
  <1>8. wpc \in Growing => \A t \in Tables : \A k \in Locked(t) : active_readers'[t][k] = 0
    BY DEF IInv, WriterLocks, lockVars
  <1> QED BY <1>1, <1>2, <1>3, <1>5, <1>7, <1>8, ReaderStepFrame

LEMMA LockSharedInv ==
    ASSUME IInv, NEW r \in Readers, LockShared(r)
    PROVE  IInv'
  <1>1. ReaderStep(r)
    BY DEF ReaderStep, QueryRuns
  <1>2. PICK n \in Reads : n = rpos[r]
    BY SizeAssumption DEF LockShared, IInv, QueryPlace, TypeOK, Reads
  <1> DEFINE t == n % 2
             k == KeyOf(r, n)
  <1>3. /\ rkeys[r] \in [1 .. TxSize -> Keys] /\ released[r] = 0 /\ rpc[r] = "lock"
        /\ n < 2 * TxSize /\ n \in Nat /\ began[r] \in 1 .. Len(snaps)
    BY <1>2, SizeAssumption DEF LockShared, IInv, QueryPlace, Reads
  <1>4. k \in Keys /\ t \in Tables
    BY <1>3, KeyOfType
  <1>5. UNCHANGED <<active_writer, tblVars, writerVars, rkeys, rpos, released, got, histVars>>
    BY DEF LockShared
  <1>6. Holds(r) = HeldReads(n, 0, FALSE) /\ Holds(r) = {m \in Reads : m < n}
    <2>1. Holds(r) = HeldReads(n, 0, FALSE)
      BY <1>2, <1>3 DEF Holds, HeldReads
    <2> QED BY <1>3, <2>1, HeldBefore
  <1>7. \A z \in Readers : z # r => Holds(z)' = Holds(z)
    BY <1>1, ReaderAlone DEF IInv
  <1>8. \A z, m : KeyOf(z, m)' = KeyOf(z, m)
    BY <1>5 DEF KeyOf
  <1>9. CASE active_writer[t][k] /\ rpc' = [rpc EXCEPT ![r] = "restart"] /\ active_readers' = active_readers
    <2>1. rpc'[r] = "restart"
      BY <1>9 DEF IInv, TypeOK
    <2>2. TypeOK'
      BY <1>5, <1>9 DEF IInv, TypeOK, tblVars, writerVars, histVars
    <2>3. Holds(r)' = Holds(r)
      BY <1>2, <1>3, <1>5, <2>1 DEF Holds
    <2>4. LocksAccounted'
      BY <1>7, <1>8, <1>9, <2>3, HoldersSame DEF IInv
    <2>5. QueryPlace(r)' /\ QueryReads(r)'
      BY <1>2, <1>3, <1>5, <2>1 DEF QueryPlace, QueryReads, histVars
    <2>6. wpc \in Growing => \A u \in Tables : \A x \in Locked(u) : active_readers'[u][x] = 0
      BY <1>9 DEF IInv, WriterLocks
    <2> QED BY <1>1, <2>1, <2>2, <2>4, <2>5, <2>6, ReaderStepFrame
  <1>10. CASE /\ ~active_writer[t][k] /\ rpc' = [rpc EXCEPT ![r] = "fetch"]
              /\ active_readers' = [active_readers EXCEPT ![t][k] = @ + 1]
    <2>1. rpc'[r] = "fetch"
      BY <1>10 DEF IInv, TypeOK
    <2>2. Holds(r)' = Holds(r) \cup {n}
      <3>1. HeldReads(n, 0, TRUE) = {m \in Reads : m < n \/ m = n}
        BY <1>3, HeldBefore
      <3>2. Holds(r)' = HeldReads(n, 0, TRUE)
        BY <1>2, <1>3, <1>5, <2>1 DEF Holds, HeldReads
      <3> QED BY <1>2, <1>6, <3>1, <3>2
    <2>3. n \notin Holds(r)
      <3>1. ~(n < n)
        BY <1>3
      <3> QED BY <1>6, <3>1
    <2>4. LocksAccounted' /\ active_readers' \in [Tables -> [Keys -> Nat]]
      BY <1>4, <1>5, <1>7, <1>10, <2>2, <2>3, HoldersGrow DEF IInv
    <2>5. TypeOK'
      BY <1>5, <1>10, <2>4 DEF IInv, TypeOK, tblVars, writerVars, histVars
    <2>6. QueryPlace(r)'
      BY <1>2, <1>3, <1>5, <2>1 DEF QueryPlace, histVars, IInv
    <2>7. QueryReads(r)'
      BY <1>3, <1>5, <1>8, <2>1 DEF IInv, QueryReads, tblVars
    <2>8. wpc \in Growing => \A u \in Tables : \A x \in Locked(u) : active_readers'[u][x] = 0
      <3> SUFFICES ASSUME wpc \in Growing, NEW u \in Tables, NEW x \in Locked(u)
                   PROVE  active_readers'[u][x] = 0
        OBVIOUS
      <3>1. active_writer[u][x] /\ active_readers[u][x] = 0 /\ x \in Keys
        BY SMTT(60) DEF IInv, WriterLocks, Locked, TypeOK
      <3>2. u # t \/ x # k
        BY <1>10, <3>1
      <3> QED BY <1>4, <1>10, <3>1, <3>2 DEF IInv, TypeOK
    <2> QED BY <1>1, <2>1, <2>4, <2>5, <2>6, <2>7, <2>8, ReaderStepFrame
  <1> QED BY <1>2, <1>9, <1>10 DEF LockShared

\* The last read finds all that was read still in the tables, all of it
\* locked, hence all of it what the last transaction left.
LEMMA FetchInv ==
    ASSUME IInv, NEW r \in Readers, Fetch(r)
    PROVE  IInv'
  <1>1. ReaderStep(r)
    BY DEF ReaderStep, QueryRuns
  <1>2. PICK n \in Reads : n = rpos[r]
    BY SizeAssumption DEF Fetch, IInv, QueryPlace, TypeOK, Reads
  <1> DEFINE t == n % 2
             k == KeyOf(r, n)
  <1>3. /\ rkeys[r] \in [1 .. TxSize -> Keys] /\ released[r] = 0 /\ rpc[r] = "fetch"
        /\ n < 2 * TxSize /\ n \in Nat /\ n + 1 \in 0 .. 2 * TxSize
        /\ began[r] \in 1 .. Len(snaps) /\ Len(snaps) \in Nat
    BY <1>2, SizeAssumption, SMTT(60) DEF Fetch, IInv, QueryPlace, Reads, TypeOK
  <1>4. k \in Keys /\ t \in Tables /\ tbl[t][k] \in Records
    <2>1. k \in Keys /\ t \in Tables
      BY <1>2, <1>3, KeyOfType
    <2>2. tbl \in [Tables -> [Keys -> Records]]
      BY DEF IInv, TypeOK
    <2> QED BY ONLY <2>1, <2>2
  <1>5. UNCHANGED <<lockVars, tblVars, writerVars, rkeys, released, histVars>>
    BY DEF Fetch
  <1>6. \A z \in Readers : z # r => Holds(z)' = Holds(z)
    BY <1>1, ReaderAlone DEF IInv
  <1>7. \A z, m : KeyOf(z, m)' = KeyOf(z, m)
    BY <1>5 DEF KeyOf
  <1>8. wpc \in Growing => \A u \in Tables : \A x \in Locked(u) : active_readers'[u][x] = 0
    BY <1>5 DEF IInv, WriterLocks, lockVars
  <1>9. CASE rpc' = [rpc EXCEPT ![r] = "giveback"] /\ UNCHANGED <<got, rpos>>
    <2>1. rpc'[r] = "giveback"
      BY <1>9 DEF IInv, TypeOK
    <2>2. TypeOK'
      BY <1>5, <1>9 DEF IInv, TypeOK, lockVars, tblVars, writerVars, histVars
    <2>3. Holds(r)' = Holds(r)
      BY <1>3, <1>5, <1>9, <2>1 DEF Holds
    <2>4. LocksAccounted'
      BY <1>5, <1>6, <1>7, <2>3, HoldersSame DEF IInv, lockVars
    <2>5. QueryPlace(r)'
      BY <1>2, <1>3, <1>5, <1>9, <2>1 DEF QueryPlace, histVars
    <2>6. QueryReads(r)'
      BY <1>3, <1>5, <1>7, <1>9, <2>1 DEF IInv, QueryReads, tblVars
    <2> QED BY <1>1, <1>8, <2>1, <2>2, <2>4, <2>5, <2>6, ReaderStepFrame
  <1>10. CASE /\ got' = [got EXCEPT ![r][n] = tbl[t][k]]
              /\ rpos' = [rpos EXCEPT ![r] = n + 1]
              /\ rpc' = [rpc EXCEPT ![r] = IF n + 1 \in Reads THEN "lock" ELSE "done"]
    <2>1. /\ rpos'[r] = n + 1 /\ released'[r] = 0 /\ rkeys'[r] = rkeys[r]
          /\ rpc'[r] = IF n + 1 \in Reads THEN "lock" ELSE "done"
      BY <1>3, <1>5, <1>10 DEF IInv, TypeOK
    <2>2. /\ got' \in [Readers -> [Reads -> Records]]
          /\ rpos' \in [Readers -> 0 .. 2 * TxSize]
          /\ rpc' \in [Readers -> {"idle", "lock", "fetch", "giveback", "restart", "done"}]
      BY <1>3, <1>4, <1>10 DEF IInv, TypeOK
    <2>3. TypeOK'
      BY <1>5, <2>2 DEF IInv, TypeOK, lockVars, tblVars, writerVars, histVars
    <2>4. Holds(r)' = Holds(r)
      <3>1. Holds(r) = HeldReads(n, 0, TRUE)
        BY <1>2, <1>3 DEF Holds, HeldReads
      <3>2. Holds(r)' = HeldReads(n + 1, 0, FALSE)
        BY <2>1 DEF Holds, HeldReads
      <3>3. HeldReads(n, 0, TRUE) = {m \in Reads : m < n \/ m = n}
        BY <1>3, HeldBefore
      <3>4. HeldReads(n + 1, 0, FALSE) = {m \in Reads : m < n + 1}
        <4>1. n + 1 \in Nat
          BY <1>3
        <4>2. HeldReads(n + 1, 0, FALSE) = {m \in Reads : m < n + 1 \/ (m = n + 1 /\ FALSE)}
          BY <4>1, HeldBefore
        <4> QED BY <4>2
      <3>5. \A m \in Reads : m < n \/ m = n <=> m < n + 1
        BY <1>3, SizeAssumption DEF Reads
      <3> QED BY <3>1, <3>2, <3>3, <3>4, <3>5
    <2>5. LocksAccounted'
      BY <1>5, <1>6, <1>7, <2>4, HoldersSame DEF IInv, lockVars
    <2>6. QueryPlace(r)'
      BY <1>3, <1>5, <2>1, SizeAssumption DEF QueryPlace, histVars, Reads
    <2>7. \A m \in Reads : m < n + 1 => got'[r][m] = tbl[m % 2][KeyOf(r, m)]
      <3> SUFFICES ASSUME NEW m \in Reads, m < n + 1
                   PROVE  got'[r][m] = tbl[m % 2][KeyOf(r, m)]
        OBVIOUS
      <3>1. CASE m = n
        BY <1>10, <3>1 DEF IInv, TypeOK
      <3>2. CASE m # n
        <4>1. m < rpos[r]
          BY <1>2, <1>3, <3>2, SizeAssumption DEF Reads
        <4>2. got[r][m] = tbl[m % 2][KeyOf(r, m)]
          BY <1>3, <4>1 DEF IInv, QueryReads
        <4> QED BY <1>10, <3>2, <4>2 DEF IInv, TypeOK
      <3> QED BY <3>1, <3>2
    <2>8. QueryReads(r)'
      BY <1>5, <1>7, <2>1, <2>7 DEF QueryReads, tblVars
    <2>9. ASSUME rpc'[r] = "done"
          PROVE  \E i \in began'[r] .. Len(snaps') : ReadsFrom(r, i)'
      <3>1. \A m \in Reads : m < n + 1
        BY <1>3, <2>1, <2>9, SizeAssumption DEF Reads
      <3>2. ASSUME NEW m \in Reads
            PROVE  tbl[m % 2][KeyOf(r, m)] = LastState[KeyOf(r, m)]
        <4>1. m < rpos[r] \/ m = rpos[r]
          BY <1>2, <1>3, <3>1, SizeAssumption DEF Reads
        <4>2. KeyOf(r, m) \in Keys /\ m % 2 \in Tables /\ active_readers[m % 2][KeyOf(r, m)] # 0
          BY <1>3, <4>1, ReadIsHeld
        <4>3. CASE wpc \in Growing
          BY <4>2, <4>3 DEF IInv, WriterLocks, WriterState
        <4>4. CASE wpc \notin Growing
          BY <4>2, <4>4 DEF IInv, WriterState
        <4> QED BY <4>3, <4>4
      <3>3. ReadsFrom(r, Len(snaps))'
        BY <1>5, <1>7, <2>7, <3>1, <3>2 DEF ReadsFrom, LastState, histVars
      <3>4. snaps' = snaps /\ began'[r] = began[r]
        BY <1>5 DEF histVars
      <3>5. Len(snaps) \in began[r] .. Len(snaps)
        BY <1>3
      <3> QED BY <3>3, <3>4, <3>5 DEF ReadsFrom
    <2> QED BY <1>1, <1>8, <2>3, <2>5, <2>6, <2>8, <2>9, ReaderStepFrame
  <1> QED BY <1>2, <1>9, <1>10 DEF Fetch

\* A released lock was one with readers, hence not one of the writer's.
LEMMA UnlockKeepsWriter ==
    ASSUME IInv, NEW t \in Tables, NEW k \in Keys, active_readers[t][k] # 0,
           active_readers' = [active_readers EXCEPT ![t][k] = @ - 1]
    PROVE  wpc \in Growing => \A u \in Tables : \A x \in Locked(u) : active_readers'[u][x] = 0
  <1> SUFFICES ASSUME wpc \in Growing, NEW u \in Tables, NEW x \in Locked(u)
               PROVE  active_readers'[u][x] = 0
    OBVIOUS
  <1>1. active_readers[u][x] = 0 /\ x \in Keys
    <2>1. active_readers[u][x] = 0
      BY DEF IInv, WriterLocks
    <2>2. x \in Keys
      <3>1. wKeysLocked[u] \in Seq(Keys)
        BY DEF IInv, TypeOK
      <3>2. \A i \in 1 .. Len(wKeysLocked[u]) : wKeysLocked[u][i] \in Keys
        BY ONLY <3>1
      <3> QED BY <3>2 DEF Locked
    <2> QED BY <2>1, <2>2
  <1>2. u # t \/ x # k
    BY <1>1
  <1> QED BY <1>1, <1>2 DEF IInv, TypeOK

LEMMA GiveBackInv ==
    ASSUME IInv, NEW r \in Readers, GiveBack(r)
    PROVE  IInv'
  <1>1. ReaderStep(r)
    BY DEF ReaderStep, QueryRuns
  <1>2. PICK n \in Reads : n = rpos[r]
    BY SizeAssumption DEF GiveBack, IInv, QueryPlace, TypeOK, Reads
  <1> DEFINE t == n % 2
             k == KeyOf(r, n)
  <1>3. /\ rkeys[r] \in [1 .. TxSize -> Keys] /\ released[r] = 0 /\ rpc[r] = "giveback"
        /\ n < 2 * TxSize /\ n \in Nat /\ began[r] \in 1 .. Len(snaps)
    BY <1>2, SizeAssumption DEF GiveBack, IInv, QueryPlace, Reads
  <1>4. k \in Keys /\ t \in Tables
    BY <1>3, KeyOfType
  <1>5. /\ UNCHANGED <<active_writer, tblVars, wpc, wtx, elem, at, rkeys, rpos, released, got, histVars>>
        /\ active_readers' = [active_readers EXCEPT ![t][k] = @ - 1]
        /\ notified' = (notified \/ (wpc = "wait" /\ at = t /\ elem[1] = k))
        /\ rpc' = [rpc EXCEPT ![r] = "restart"]
    BY <1>2 DEF GiveBack, UnlockShared
  <1>6. rpc'[r] = "restart"
    BY <1>5 DEF IInv, TypeOK
  <1>7. Holds(r) = {m \in Reads : m < n \/ m = n} /\ Holds(r)' = {m \in Reads : m < n}
    <2>1. Holds(r) = HeldReads(n, 0, TRUE) /\ Holds(r)' = HeldReads(n, 0, FALSE)
      BY <1>2, <1>3, <1>5, <1>6 DEF Holds, HeldReads
    <2> QED BY <1>3, <2>1, HeldBefore
  <1>8. n \in Holds(r) /\ Holds(r)' = Holds(r) \ {n}
    <2>1. \A m \in Reads : m < n => m # n
      BY <1>3, SizeAssumption DEF Reads
    <2> QED BY <1>7, <2>1
  <1>9. \A z \in Readers : z # r => Holds(z)' = Holds(z)
    BY <1>1, ReaderAlone DEF IInv
  <1>10. /\ LocksAccounted' /\ active_readers' \in [Tables -> [Keys -> Nat]]
         /\ active_readers[t][k] # 0
    BY <1>4, <1>5, <1>8, <1>9, HoldersShrink DEF IInv
  <1>11. TypeOK'
    BY <1>5, <1>10 DEF IInv, TypeOK, tblVars, histVars
  <1>12. QueryPlace(r)' /\ QueryReads(r)'
    BY <1>2, <1>3, <1>5, <1>6 DEF QueryPlace, QueryReads, histVars
  <1> QED BY <1>1, <1>4, <1>5, <1>6, <1>10, <1>11, <1>12, UnlockKeepsWriter, ReaderStepFrame

LEMMA CleanUpReadsInv ==
    ASSUME IInv, NEW r \in Readers, CleanUpReads(r)
    PROVE  IInv'
  <1>1. ReaderStep(r)
    BY DEF ReaderStep, QueryRuns
  <1>2. PICK n \in 0 .. 2 * TxSize, rel \in 0 .. 2 * TxSize : n = rpos[r] /\ rel = released[r]
    BY DEF IInv, TypeOK
  <1>3. /\ rkeys[r] \in [1 .. TxSize -> Keys] /\ rpc[r] \in {"restart", "done"}
        /\ began[r] \in 1 .. Len(snaps)
    BY DEF CleanUpReads, IInv, QueryPlace
  <1>4. n \in Nat /\ rel \in Nat /\ rel < n
    <2>1. n \in Nat /\ rel \in Nat
      BY SizeAssumption
    <2> QED BY <1>2, <2>1, UntilSum DEF CleanUpReads
  <1> DEFINE s == IF rel < Until(n, 0) THEN 0 ELSE 1
             i == IF s = 0 THEN rel ELSE rel - Until(n, 0)
             m == 2 * i + s
  <1>5. /\ m \in Reads /\ m % 2 = s /\ m \div 2 = i
        /\ m \in HeldReads(n, rel, FALSE)
        /\ HeldReads(n, rel + 1, FALSE) = HeldReads(n, rel, FALSE) \ {m}
    BY <1>4, HeldStep
  <1>6. /\ UNCHANGED <<active_writer, tblVars, wpc, wtx, elem, at, rpc, rkeys, rpos, got, histVars>>
        /\ UnlockShared(s, rkeys[r][i + 1])
        /\ released' = [released EXCEPT ![r] = @ + 1]
    BY <1>2 DEF CleanUpReads
  <1>7. rkeys[r][i + 1] = KeyOf(r, m)
    BY <1>5 DEF KeyOf
  <1> HIDE DEF s, i, m
  <1>8. KeyOf(r, m) \in Keys /\ m % 2 \in Tables
    BY <1>3, <1>5, KeyOfType
  <1>9. /\ active_readers' = [active_readers EXCEPT ![m % 2][KeyOf(r, m)] = @ - 1]
        /\ notified' \in BOOLEAN
    BY <1>5, <1>6, <1>7 DEF UnlockShared, IInv, TypeOK
  <1>10. released'[r] = rel + 1
    BY <1>2, <1>6 DEF IInv, TypeOK
  <1>11. Holds(r) = HeldReads(n, rel, FALSE) /\ Holds(r)' = HeldReads(n, rel + 1, FALSE)
    BY <1>2, <1>3, <1>6, <1>10 DEF Holds, HeldReads
  <1>12. m \in Holds(r) /\ Holds(r)' = Holds(r) \ {m}
    BY <1>5, <1>11
  <1>13. \A z \in Readers : z # r => Holds(z)' = Holds(z)
    BY <1>1, ReaderAlone DEF IInv
  <1>14. /\ LocksAccounted' /\ active_readers' \in [Tables -> [Keys -> Nat]]
         /\ active_readers[m % 2][KeyOf(r, m)] # 0
    BY <1>5, <1>6, <1>8, <1>9, <1>12, <1>13, HoldersShrink DEF IInv
  <1>15. TypeOK'
    <2>1. rel + 1 \in 0 .. 2 * TxSize
      BY <1>4, SizeAssumption
    <2>2. released' \in [Readers -> 0 .. 2 * TxSize]
      BY <1>2, <1>6, <2>1 DEF IInv, TypeOK
    <2> QED BY <1>6, <1>9, <1>14, <2>2 DEF IInv, TypeOK, tblVars, histVars
  <1>16. QueryPlace(r)'
    <2>1. QueryPlace(r) /\ rel + 1 <= n
      BY <1>4 DEF IInv
    <2> QED BY <1>2, <1>3, <1>6, <1>10, <2>1 DEF QueryPlace, histVars
  <1>17. QueryReads(r)'
    BY <1>3, <1>6 DEF QueryReads
  <1>18. rpc'[r] = "done" => \E j \in began'[r] .. Len(snaps') : ReadsFrom(r, j)'
    <2>1. \A j : ReadsFrom(r, j)' <=> ReadsFrom(r, j)
      BY <1>6 DEF ReadsFrom, KeyOf, histVars
    <2>2. rpc[r] = "done" => \E j \in began[r] .. Len(snaps) : ReadsFrom(r, j)
      BY DEF IInv, ReadsAtomic
    <2> QED BY <1>6, <2>1, <2>2 DEF histVars
  <1>19. wpc \in Growing => \A u \in Tables : \A x \in Locked(u) : active_readers'[u][x] = 0
    BY <1>8, <1>9, <1>14, UnlockKeepsWriter
  <1> QED BY <1>1, <1>14, <1>15, <1>16, <1>17, <1>18, <1>19, ReaderStepFrame

\* A query that has released everything holds nothing.
LEMMA NothingHeld ==
    ASSUME IInv, NEW r \in Readers, rpc[r] \in {"restart", "done"}, AllReleased(r)
    PROVE  Holds(r) = {}
  <1>1. rpos[r] \in Nat /\ released[r] = rpos[r]
    <2>1. rpos[r] \in Nat
      BY SizeAssumption DEF IInv, TypeOK
    <2> QED BY <2>1, UntilSum DEF AllReleased
  <1>2. Holds(r) = HeldReads(rpos[r], rpos[r], FALSE)
    BY <1>1 DEF Holds, HeldReads
  <1> QED BY <1>1, <1>2, HeldAfter

LEMMA RestartReadInv ==
    ASSUME IInv, NEW r \in Readers, RestartRead(r)
    PROVE  IInv'
  <1>1. ReaderStep(r)
    BY DEF ReaderStep, QueryRuns
  <1>2. /\ rpos'[r] = 0 /\ released'[r] = 0 /\ rpc'[r] = "lock" /\ rpc[r] = "restart"
        /\ rkeys' = rkeys /\ AllReleased(r)
        /\ UNCHANGED <<lockVars, tblVars, writerVars, histVars>>
    BY DEF RestartRead, IInv, TypeOK
  <1>3. TypeOK'
    <2>1. NoReads \in [Reads -> Records]
      BY DEF NoReads, Records
    <2> QED BY <2>1, SizeAssumption DEF RestartRead, IInv, TypeOK, lockVars, tblVars, writerVars, histVars
  <1>4. Holds(r) = {} /\ Holds(r)' = {}
    <2>1. Holds(r)' = HeldReads(0, 0, FALSE)
      BY <1>2 DEF Holds, HeldReads
    <2> QED BY <1>2, <2>1, HeldAfter, NothingHeld
  <1>5. LocksAccounted'
    <2>1. \A z \in Readers : z # r => Holds(z)' = Holds(z)
      BY <1>1, ReaderAlone DEF IInv
    <2>2. \A z, m : KeyOf(z, m)' = KeyOf(z, m)
      BY <1>2 DEF KeyOf
    <2> QED BY <1>2, <1>4, <2>1, <2>2, HoldersSame DEF IInv, lockVars
  <1>6. QueryPlace(r)'
    <2>1. rkeys[r] \in [1 .. TxSize -> Keys] /\ began[r] \in 1 .. Len(snaps)
      BY <1>2 DEF IInv, QueryPlace
    <2> QED BY <1>2, <2>1, SizeAssumption DEF QueryPlace, histVars
  <1>7. QueryReads(r)'
    BY <1>2, SizeAssumption DEF QueryReads, Reads
  <1>8. wpc \in Growing => \A t \in Tables : \A k \in Locked(t) : active_readers'[t][k] = 0
    BY <1>2 DEF IInv, WriterLocks, lockVars
  <1> QED BY <1>1, <1>2, <1>3, <1>5, <1>6, <1>7, <1>8, ReaderStepFrame

LEMMA FinishReadInv ==
    ASSUME IInv, NEW r \in Readers, FinishRead(r)
    PROVE  IInv'
  <1>1. ReaderStep(r)
    BY DEF ReaderStep, QueryRuns
  <1>2. /\ rpos'[r] = 0 /\ released'[r] = 0 /\ rpc'[r] = "idle" /\ rpc[r] = "done"
        /\ AllReleased(r) /\ began'[r] = 1
        /\ UNCHANGED <<lockVars, tblVars, writerVars, snaps, want>>
    BY DEF FinishRead, IInv, TypeOK
  <1>3. TypeOK'
    <2>1. NoReads \in [Reads -> Records]
      BY DEF NoReads, Records
    <2> QED BY <2>1, SizeAssumption DEF FinishRead, IInv, TypeOK, lockVars, tblVars, writerVars
  <1>4. Holds(r) = {} /\ Holds(r)' = {}
    <2>1. Holds(r)' = HeldReads(0, 0, FALSE)
      BY <1>2 DEF Holds, HeldReads
    <2> QED BY <1>2, <2>1, HeldAfter, NothingHeld
  <1>5. LocksAccounted'
    <2>1. \A z \in Readers : z # r => /\ Holds(z)' = Holds(z)
                                      /\ \A m : KeyOf(z, m)' = KeyOf(z, m)
      BY <1>1, ReaderAlone DEF IInv, KeyOf
    <2> QED BY <1>2, <1>4, <2>1, HoldersSame DEF IInv, lockVars
  <1>6. QueryPlace(r)' /\ QueryReads(r)'
    <2>1. Len(snaps) \in Nat /\ Len(snaps) >= 1
      BY DEF IInv, TypeOK, WriterState
    <2> QED BY <1>2, <2>1, SizeAssumption DEF QueryPlace, QueryReads
  <1>7. wpc \in Growing => \A t \in Tables : \A k \in Locked(t) : active_readers'[t][k] = 0
    BY <1>2 DEF IInv, WriterLocks, lockVars
  <1> QED BY <1>1, <1>2, <1>3, <1>5, <1>6, <1>7, ReaderStepFrame

-----------------------------------------------------------------------------
(***************************************************************************)
(* The theorems.                                                           *)
(***************************************************************************)

LEMMA InitInv == Init => IInv
  <1> SUFFICES ASSUME Init
               PROVE  IInv
    OBVIOUS
  <1> USE DEF Init
  <1>1. TypeOK
    <2>1. NoReads \in [Reads -> Records]
      BY DEF NoReads, Records
    <2>2. snaps \in Seq([Keys -> Records])
      BY DEF Records
    <2>3. want \in [Keys -> Records] /\ tbl \in [Tables -> [Keys -> Records]]
      BY DEF Records
    <2>4. wKeysLocked \in [Tables -> Seq(Keys)]
      OBVIOUS
    <2>5. lastCTS \in 0 .. MaxTx /\ wtx \in 0 .. MaxTx
      BY BoundAssumption
    <2>6. at \in Tables
      BY DEF Tables
    <2> QED BY <2>1, <2>2, <2>3, <2>4, <2>5, <2>6, SizeAssumption DEF TypeOK
  <1>2. WriterLocks
    BY DEF WriterLocks, Working, Growing
  <1>3. WriterState
    <2>1. Len(snaps) = 1 /\ LastState = [k \in Keys |-> InitValue]
      BY DEF LastState
    <2> QED BY <2>1 DEF WriterState, Working, Growing
  <1>4. ASSUME NEW r \in Readers
        PROVE  QueryPlace(r) /\ QueryReads(r) /\ Holds(r) = {}
    <2>1. Len(snaps) = 1
      OBVIOUS
    <2>2. Holds(r) = HeldReads(0, 0, FALSE)
      BY DEF Holds, HeldReads
    <2>3. Holds(r) = {}
      BY <2>2, HeldAfter
    <2>4. QueryPlace(r)
      BY <2>1 DEF QueryPlace
    <2>5. QueryReads(r)
      BY DEF QueryReads
    <2> QED BY <2>3, <2>4, <2>5
  <1>5. LocksAccounted
    <2>1. \A t, k : Holders(t, k) = {}
      BY <1>4 DEF Holders
    <2>2. Cardinality({}) = 0
      BY FS_EmptySet
    <2>3. \A t \in Tables, k \in Keys : active_readers[t][k] = Cardinality(Holders(t, k))
      BY <2>1, <2>2
    <2> QED BY <2>3 DEF LocksAccounted, Holders
  <1>6. ReadsAtomic
    BY DEF ReadsAtomic
  <1> QED BY <1>1, <1>2, <1>3, <1>4, <1>5, <1>6 DEF IInv

LEMMA NextInv == IInv /\ [Next]_vars => IInv'
  <1> SUFFICES ASSUME IInv, [Next]_vars
               PROVE  IInv'
    OBVIOUS
  <1>1. CASE WriterStep \/ UNCHANGED vars
    BY <1>1, WriterStepInv
  <1>2. ASSUME NEW r \in Readers, ReaderStep(r)
        PROVE  IInv'
    BY <1>2, StartReadInv, LockSharedInv, FetchInv, GiveBackInv, CleanUpReadsInv,
       RestartReadInv, FinishReadInv DEF ReaderStep, QueryRuns
  <1> QED BY <1>1, <1>2 DEF Next

LEMMA Inductive == Spec => []IInv
  BY InitInv, NextInv, PTL DEF Spec

\* The locking protocol keeps its promise for any number of queries and keys: every
\* row lock's active_readers is the number of reads that hold it, whatever query failed
\* where and cleaned up after itself, and no row that the running transaction has
\* locked has a reader.
THEOREM LocksStayExclusive == Spec => []LocksExclude
  <1>1. IInv => LocksExclude
    <2> SUFFICES ASSUME IInv, wpc \in Growing, NEW t \in Tables, NEW n \in 1 .. MaxWrites,
                        n <= Len(wKeysLocked[t])
                 PROVE  active_readers[t][wKeysLocked[t][n]] = 0
      BY DEF IInv, LocksExclude, WriterExcludesReaders, Growing
    <2>1. n \in 1 .. Len(wKeysLocked[t])
      BY BoundAssumption DEF IInv, TypeOK
    <2>2. wKeysLocked[t][n] \in Locked(t)
      BY <2>1 DEF Locked
    <2> QED BY <2>2 DEF IInv, WriterLocks
  <1> QED BY <1>1, Inductive, PTL

\* What a FromTxTables query publishes is the state that one transaction left in both
\* tables, the last one before the query began or a later one, although it takes the
\* row locks one by one and the writer changes the tables in place.
THEOREM ReadsStayAtomic == Spec => []ReadsAtomic
  <1>1. IInv => ReadsAtomic
    BY DEF IInv
  <1> QED BY <1>1, Inductive, PTL
=============================================================================
