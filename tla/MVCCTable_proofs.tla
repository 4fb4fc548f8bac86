-------------------------- MODULE MVCCTable_proofs --------------------------
(***************************************************************************)
(* Theorems about MVCCTable, for any number of keys, values, readers,      *)
(* version slots and transactions.                                         *)
(***************************************************************************)
EXTENDS MVCCTable, TLAPS

-----------------------------------------------------------------------------
(***************************************************************************)
(* The inductive invariant.                                                *)
(***************************************************************************)

CommitPCs == {"commitThis", "commitOther", "spin", "scan"}

\* The write set ws holds exactly the writes that `want' sums up.
Matches(ws) ==
    \A k \in Keys :
        /\ want[k] = Untouched => k \notin KeysIn(ws)
        /\ want[k] # Untouched => /\ k \in KeysIn(ws)
                                  /\ want[k] \in KeptValue(ws, k)

\* Where the writer is, and how its timestamps relate.
ClockInv ==
    /\ nextTxID = wtx + 1
    /\ lastCTS <= wtx
    /\ wpc # "idle" => lastCTS < wtx
    /\ lastCTS \in DOMAIN snaps
    /\ \A ts \in DOMAIN snaps : ts <= lastCTS
    /\ oldest <= lastCTS
    /\ wpc = "scan" => newMin <= lastCTS \/ newMin = DTS_INF

\* Where a reader is.
PosInv ==
    \A r \in Readers :
        /\ readCTS[r] <= lastCTS
        /\ rsnap[r] <= lastCTS
        /\ rpc[r] # "idle" => rkeys[r] \in [1 .. TxSize -> Keys]
        /\ rpc[r] \in {"get", "load", "store"} => rpos[r] \in Reads

Inv1 == TypeOK /\ ClockInv /\ PosInv

\* What the write sets hold at each stage of the two-phase commit.
WriterInv ==
    /\ wpc = "active" => status[0] = "Active" /\ status[1] = "Active"
    /\ wpc = "forwarded" => status[0] = "Commit" /\ status[1] = "Active"
    /\ wpc = "commitThis" => ctbl = 1
    /\ wpc = "commitOther" => ctbl = 0
    /\ wpc = "idle" => /\ writeSet = [t \in Tables |-> <<>>]
                       /\ want = [k \in Keys |-> Untouched]
    /\ wpc \in {"active", "forwarded"} =>
          Matches(writeSet[0]) /\ writeSet[1] = writeSet[0]
    /\ wpc \in CommitPCs => /\ Matches(writeSet[ctbl])
                            /\ Matches(writeSet[0])
                            /\ ctbl = 0 => writeSet[1] = <<>>
                            /\ todo \subseteq KeysIn(writeSet[ctbl])
    /\ wpc = "publish" => writeSet = [t \in Tables |-> <<>>]

\* The running transaction has already written key k of table t.
Applied(t, k) ==
    /\ want[k] # Untouched
    /\ \/ wpc = "publish"
       \/ wpc \in CommitPCs /\ ctbl = 0 /\ (t = 1 \/ k \notin todo)
       \/ wpc \in CommitPCs /\ ctbl = 1 /\ t = 1 /\ k \notin todo

\* A key the running transaction has not written: all its versions are
\* committed ones, and the open one holds the current value.
Old(o, k) ==
    /\ \A i \in o.used : /\ o.cts[i] \in DOMAIN snaps
                         /\ o.dts[i] <= lastCTS \/ o.dts[i] = DTS_INF
    /\ o.used = {} => snaps[lastCTS][k] = NoValue

\* A key it has written: the open version is its own, and the version it
\* replaced is still there.
New(o, k) ==
    /\ \A i \in o.used :
          \/ o.cts[i] = wtx /\ o.dts[i] = DTS_INF /\ o.val[i] = want[k]
          \/ /\ o.cts[i] \in DOMAIN snaps
             /\ o.dts[i] <= lastCTS \/ o.dts[i] = wtx
    /\ o.used # {}
    /\ snaps[lastCTS][k] # NoValue =>
          \E i \in o.used : o.cts[i] <= lastCTS /\ o.dts[i] = wtx

\* What holds of the object of a key at every time.
Sound(o, k) ==
    /\ WellFormed(o)
    /\ \A i \in o.used : o.val[i] \in Values
    /\ \A ts \in DOMAIN snaps : \A i \in Visible(o, ts) :
          o.val[i] = snaps[ts][k]

ObjectInv ==
    \A t \in Tables, k \in Keys :
        /\ Sound(tbl[t][k], k)
        /\ Applied(t, k) => New(tbl[t][k], k)
        /\ ~Applied(t, k) => Old(tbl[t][k], k)

\* A version in a reader's copy was written by a committed transaction, or
\* by the one that is just being committed.
CopySound(o, k) ==
    \A i \in o.used :
        \/ o.cts[i] \in DOMAIN snaps /\ o.val[i] = snaps[o.cts[i]][k]
        \/ /\ o.cts[i] = wtx /\ o.val[i] = want[k]
           /\ wpc \in CommitPCs \cup {"publish"}
           /\ want[k] # Untouched

ReaderInv ==
    \A r \in Readers :
        /\ rpc[r] = "idle" => readCTS[r] = 0
        /\ rpc[r] \in {"load", "store"} =>
              /\ rpos[r] = 0
              /\ CopySound(rcopy[r], KeyOf(r, 0))
        /\ rpc[r] = "store" => rsnap[r] \in DOMAIN snaps
        /\ rpc[r] = "get" /\ rpos[r] = 0 => readCTS[r] = 0
        /\ readCTS[r] # 0 => readCTS[r] \in DOMAIN snaps
        /\ rpc[r] \in {"get", "done"} /\ rpos[r] # 0 =>
              /\ readCTS[r] # 0
              /\ \E ts \in DOMAIN snaps : /\ ts <= readCTS[r]
                                          /\ got[r][0] = snaps[ts][KeyOf(r, 0)]
              /\ \A n \in Reads : n # 0 /\ n < rpos[r] =>
                    got[r][n] = snaps[readCTS[r]][KeyOf(r, n)]
        /\ rpc[r] = "done" => rpos[r] = 2 * TxSize

IInv == Inv1 /\ WriterInv /\ ObjectInv /\ ReaderInv

-----------------------------------------------------------------------------
(***************************************************************************)
(* The operations on objects return objects.                               *)
(***************************************************************************)

LEMMA SlotsFact == /\ Slots \subseteq Nat /\ 0 \in Slots
                   /\ 0 \in TS /\ DTS_INF \in TS /\ 1 .. MaxTxID \subseteq TS
  BY VersionsAssumption, MaxTxIDAssumption DEF Slots, TS, DTS_INF

LEMMA EmptyType == EmptyObject \in MVCCObjects
  BY SlotsFact DEF EmptyObject, MVCCObjects

LEMMA FirstEntryType ==
  ASSUME NEW tx \in 1 .. MaxTxID, NEW v \in Values
  PROVE  FirstEntry(tx, v) \in MVCCObjects
  BY SlotsFact DEF FirstEntry, EmptyObject, MVCCObjects

LEMMA NewEntryType ==
  ASSUME NEW o \in MVCCObjects, NEW tx \in 1 .. MaxTxID, NEW i \in Slots,
         NEW d \in Slots, NEW v \in Values
  PROVE  NewEntry(o, tx, i, d, v) \in MVCCObjects
  BY SlotsFact DEF NewEntry, MVCCObjects

LEMMA CleanUpType ==
  ASSUME NEW o \in MVCCObjects, NEW oldestTS
  PROVE  CleanUpVersions(o, oldestTS) \in MVCCObjects
  BY SlotsFact DEF CleanUpVersions, MVCCObjects

LEMMA CurrentType ==
  ASSUME NEW o \in MVCCObjects, NEW ts
  PROVE  /\ GetCurrent(o, ts) \subseteq Slots
         /\ GetCurrent(o, ts) \subseteq o.used
         /\ GetFreePos(o) \subseteq Slots \ o.used
  BY DEF GetCurrent, GetFreePos, Visible, MVCCObjects

-----------------------------------------------------------------------------
(***************************************************************************)
(* Types and timestamps.                                                   *)
(***************************************************************************)

LEMMA KeyOfType ==
  ASSUME NEW r \in Readers, NEW n \in Reads,
         rkeys[r] \in [1 .. TxSize -> Keys]
  PROVE  KeyOf(r, n) \in Keys /\ n % 2 \in Tables
  <1>1. (n \div 2) + 1 \in 1 .. TxSize /\ n % 2 \in {0, 1}
    BY TxSizeAssumption DEF Reads
  <1> QED BY <1>1 DEF KeyOf, Tables

LEMMA InitInv1 == Init => Inv1
  <1> SUFFICES ASSUME Init PROVE Inv1 OBVIOUS
  <1>1. /\ tbl \in [Tables -> [Keys -> MVCCObjects]]
        /\ rcopy \in [Readers -> MVCCObjects]
    BY EmptyType, FirstEntryType, MaxTxIDAssumption, InitValueAssumption
    DEF Init
  <1>2. TypeOK
    BY <1>1, MaxTxIDAssumption, InitValueAssumption, TxSizeAssumption
    DEF Init, TypeOK, DTS_INF, TS, Tables, WriteStates, WriterPCs, ReaderPCs,
        NoReads, Pairs
  <1>3. ClockInv /\ PosInv
    BY DEF Init, ClockInv, PosInv
  <1> QED BY <1>2, <1>3 DEF Inv1

\* What a read step does to the reader's position and results.
LEMMA ReadVersionType ==
  ASSUME TypeOK, NEW r \in Readers, rpos[r] \in Reads,
         NEW o \in MVCCObjects, NEW ts, ReadVersion(r, o, ts)
  PROVE  /\ rpc' \in [Readers -> ReaderPCs]
         /\ rpos' \in [Readers -> 0 .. 2 * TxSize]
         /\ got' \in [Readers -> [Reads -> Values \cup {NoValue}]]
         /\ \A q \in Readers : q # r => /\ rpc'[q] = rpc[q]
                                        /\ rpos'[q] = rpos[q]
                                        /\ got'[q] = got[q]
         /\ rpc'[r] \in {"get", "restart", "done"}
         /\ rpc'[r] = "get" => rpos'[r] \in Reads
  <1>1. CASE GetCurrent(o, ts) = {} /\ rpc' = [rpc EXCEPT ![r] = "restart"]
             /\ UNCHANGED <<rpos, got>>
    BY <1>1 DEF TypeOK, ReaderPCs
  <1>2. ASSUME NEW i \in GetCurrent(o, ts),
               got' = [got EXCEPT ![r][rpos[r]] = o.val[i]],
               rpos' = [rpos EXCEPT ![r] = rpos[r] + 1],
               rpc' = [rpc EXCEPT ![r] =
                          IF rpos[r] + 1 \in Reads THEN "get" ELSE "done"]
        PROVE  /\ rpc' \in [Readers -> ReaderPCs]
               /\ rpos' \in [Readers -> 0 .. 2 * TxSize]
               /\ got' \in [Readers -> [Reads -> Values \cup {NoValue}]]
               /\ \A q \in Readers : q # r => /\ rpc'[q] = rpc[q]
                                              /\ rpos'[q] = rpos[q]
                                              /\ got'[q] = got[q]
               /\ rpc'[r] \in {"get", "restart", "done"}
               /\ rpc'[r] = "get" => rpos'[r] \in Reads
    <2>1. o.val[i] \in Values \cup {NoValue}
      BY <1>2, CurrentType DEF MVCCObjects
    <2>2. rpos[r] + 1 \in 0 .. 2 * TxSize
      BY TxSizeAssumption DEF Reads
    <2> QED BY <1>2, <2>1, <2>2 DEF TypeOK, ReaderPCs
  <1> QED BY <1>1, <1>2 DEF ReadVersion

LEMMA NextInv1 == Inv1 /\ [Next]_vars => Inv1'
  <1> SUFFICES ASSUME Inv1, [Next]_vars PROVE Inv1'
    OBVIOUS
  <1> USE MaxTxIDAssumption, TxSizeAssumption
  <1>1. CASE TransactionBegin
    BY <1>1, SMTT(60) DEF TransactionBegin, Inv1, TypeOK, ClockInv, PosInv, tblVars,
       readerVars, histVars, DTS_INF, WriteStates, WriterPCs
  <1>2. ASSUME NEW k \in Keys, NEW v \in Values, Insert(k, v)
        PROVE  Inv1'
    BY <1>2 DEF Insert, Inv1, TypeOK, ClockInv, PosInv, ctxVars, writerVars,
       readerVars, Pairs
  <1>3. ASSUME NEW k \in Keys, DeleteByKey(k)
        PROVE  Inv1'
    BY <1>3 DEF DeleteByKey, Inv1, TypeOK, ClockInv, PosInv, ctxVars, tblVars,
       writerVars, readerVars
  <1>4. CASE TransactionAbort
    BY <1>4 DEF TransactionAbort, Inv1, TypeOK, ClockInv, PosInv, ctxVars,
       readerVars, WriterPCs, Pairs
  <1>5. ASSUME NEW t \in Tables, TransactionPreCommit(t)
        PROVE  Inv1'
    <2>1. KeysIn(writeSet[t]) \subseteq Keys
      BY DEF KeysIn
    <2> QED
      BY <1>5, <2>1 DEF TransactionPreCommit, Inv1, TypeOK, ClockInv, PosInv,
         tblVars, readerVars, histVars, WriterPCs, WriteStates
  <1>6. ASSUME NEW k \in Keys, NEW v \in Values, CommitInsert(k, v)
        PROVE  Inv1'
    <2>1. FirstEntry(wtx, v) \in MVCCObjects
      BY FirstEntryType DEF Inv1, TypeOK
    <2> QED
      BY <1>6, <2>1 DEF CommitInsert, Committing, Inv1, TypeOK, ClockInv,
         PosInv, ctxVars, readerVars, histVars
  <1>7. ASSUME NEW k \in Keys, NEW v \in Values, CommitUpdate(k, v)
        PROVE  Inv1'
    <2>1. tbl[ctbl][k] \in MVCCObjects /\ wtx \in 1 .. MaxTxID
      BY DEF Inv1, TypeOK
    <2>2. PICK i \in GetFreePos(tbl[ctbl][k]),
               d \in GetCurrent(tbl[ctbl][k], wtx) :
             tbl' = [tbl EXCEPT ![ctbl][k] =
                       NewEntry(tbl[ctbl][k], wtx, i, d, v)]
      BY <1>7 DEF CommitUpdate, Inv1, TypeOK
    <2>3. NewEntry(tbl[ctbl][k], wtx, i, d, v) \in MVCCObjects
      <3>1. i \in Slots /\ d \in Slots
        BY <2>1, <2>2, CurrentType
      <3> QED BY <2>1, <3>1, NewEntryType
    <2> QED
      BY <1>7, <2>2, <2>3 DEF CommitUpdate, Committing, Inv1, TypeOK, ClockInv,
         PosInv, ctxVars, readerVars, histVars
  <1>8. ASSUME NEW k \in Keys, NEW v \in Values, EndRecalc(k, v)
        PROVE  Inv1'
    <2> DEFINE min == IF newMin = DTS_INF THEN lastCTS ELSE newMin
               o == CleanUpVersions(tbl[ctbl][k], min)
    <2>1. tbl[ctbl][k] \in MVCCObjects /\ wtx \in 1 .. MaxTxID
      BY DEF Inv1, TypeOK
    <2>2. o \in MVCCObjects
      BY <2>1, CleanUpType
    <2>3. min \in 0 .. MaxTxID /\ min <= lastCTS
      BY <1>8 DEF EndRecalc, Inv1, TypeOK, ClockInv, TS, DTS_INF
    <2>4. tbl' \in [Tables -> [Keys -> MVCCObjects]]
      <3>1. CASE tbl' = [tbl EXCEPT ![ctbl][k] = o]
        BY <2>2, <3>1 DEF Inv1, TypeOK
      <3>2. ASSUME NEW i \in GetFreePos(o),
                   NEW d \in GetCurrent(tbl[ctbl][k], wtx),
                   tbl' = [tbl EXCEPT ![ctbl][k] = NewEntry(o, wtx, i, d, v)]
            PROVE  tbl' \in [Tables -> [Keys -> MVCCObjects]]
        <4>1. i \in Slots /\ d \in Slots
          BY <2>1, <2>2, <3>2, CurrentType
        <4>2. NewEntry(o, wtx, i, d, v) \in MVCCObjects
          BY <2>1, <2>2, <4>1, NewEntryType
        <4> HIDE DEF o
        <4> QED BY <3>2, <4>2 DEF Inv1, TypeOK
      <3> QED BY <1>8, <3>1, <3>2 DEF EndRecalc
    <2>5. oldest' = (IF oldest < min THEN min ELSE oldest)
      BY <1>8 DEF EndRecalc
    <2>6. /\ wpc' \in {"spin", "commitThis", "commitOther"}
          /\ todo' \subseteq todo
          /\ newMin' = 0
          /\ wpc = "scan"
          /\ UNCHANGED <<nextTxID, lastCTS, status, readCTS, active, writeSet,
                         wtx, ctbl, scan, readerVars, histVars>>
      BY <1>8 DEF EndRecalc
    <2> HIDE DEF min, o
    <2> QED
      BY <2>3, <2>4, <2>5, <2>6 DEF Inv1, TypeOK, ClockInv, PosInv, readerVars,
         histVars, WriterPCs, TS, DTS_INF
  <1>9. ASSUME NEW k \in Keys, EnterSpin(k)
        PROVE  Inv1'
    BY <1>9 DEF EnterSpin, Committing, Inv1, TypeOK, ClockInv, PosInv, ctxVars,
       tblVars, readerVars, histVars, WriterPCs
  <1>10. CASE StartRecalc
    BY <1>10 DEF StartRecalc, Inv1, TypeOK, ClockInv, PosInv, ctxVars, tblVars,
       readerVars, histVars, WriterPCs, TS, DTS_INF
  <1>11. ASSUME NEW r \in Readers, ScanSlot(r)
         PROVE  Inv1'
    <2>1. /\ newMin \in TS /\ readCTS[r] \in 0 .. MaxTxID
          /\ readCTS[r] <= lastCTS
          /\ newMin <= lastCTS \/ newMin = DTS_INF
      BY <1>11 DEF ScanSlot, Inv1, TypeOK, ClockInv, PosInv
    <2>2. /\ newMin' \in TS
          /\ newMin' <= lastCTS \/ newMin' = DTS_INF
      BY <1>11, <2>1 DEF ScanSlot, TS, DTS_INF
    <2>3. /\ wpc = "scan"
          /\ scan' = scan \ {r}
          /\ UNCHANGED <<ctxVars, tblVars, wpc, wtx, ctbl, todo, readerVars,
                         histVars>>
      BY <1>11 DEF ScanSlot
    <2> QED
      BY <2>2, <2>3 DEF Inv1, TypeOK, ClockInv, PosInv, ctxVars, tblVars,
         readerVars, histVars
  <1>12. CASE CommitOther
    <2>1. KeysIn(writeSet[Other(ctbl)]) \subseteq Keys
      BY DEF KeysIn
    <2>2. Other(ctbl) \in Tables
      BY DEF Other, Tables, Inv1, TypeOK
    <2> QED
      BY <1>12, <2>1, <2>2 DEF CommitOther, Inv1, TypeOK, ClockInv, PosInv,
         ctxVars, readerVars, histVars, WriterPCs, Pairs
  <1>13. CASE EndCommitOther
    BY <1>13 DEF EndCommitOther, Inv1, TypeOK, ClockInv, PosInv, ctxVars,
       readerVars, histVars, WriterPCs, Pairs
  <1>14. CASE SetLastCTS
    <2>1. DOMAIN snaps' = DOMAIN snaps \cup {wtx}
      BY <1>14 DEF SetLastCTS
    <2>2. \A ts \in DOMAIN snaps' : snaps'[ts] \in [Keys -> Values \cup {NoValue}]
      <3> SUFFICES ASSUME NEW ts \in DOMAIN snaps \cup {wtx}
                   PROVE  snaps'[ts] \in [Keys -> Values \cup {NoValue}]
        BY <2>1
      <3>1. CASE ts # wtx
        BY <1>14, <3>1 DEF SetLastCTS, Inv1, TypeOK
      <3>2. CASE ts = wtx
        <4>1. snaps[lastCTS] \in [Keys -> Values \cup {NoValue}]
          BY DEF Inv1, TypeOK, ClockInv
        <4>2. snaps'[ts] = [k \in Keys |-> IF want[k] = Untouched
                              THEN snaps[lastCTS][k] ELSE want[k]]
          BY <1>14, <3>2 DEF SetLastCTS
        <4> QED BY <4>1, <4>2 DEF Inv1, TypeOK
      <3> QED BY <3>1, <3>2
    <2>3. ClockInv' /\ PosInv'
      BY <1>14, <2>1 DEF SetLastCTS, Inv1, TypeOK, ClockInv, PosInv, readerVars
    <2>4. TypeOK'
      BY <1>14, <2>1, <2>2 DEF SetLastCTS, Inv1, TypeOK, tblVars, readerVars,
         WriterPCs
    <2> QED BY <2>3, <2>4 DEF Inv1
  <1>15. ASSUME NEW r \in Readers, NEW ks \in [1 .. TxSize -> Keys],
                StartRead(r, ks)
         PROVE  Inv1'
    BY <1>15, SMTT(60) DEF StartRead, Inv1, TypeOK, ClockInv, PosInv, tblVars,
       writerVars, histVars, ReaderPCs, Reads
  <1>16. ASSUME NEW r \in Readers, GetByKey(r)
         PROVE  Inv1'
    <2> DEFINE t == rpos[r] % 2
               k == KeyOf(r, rpos[r])
    <2>1. /\ rpos[r] \in Reads
          /\ t \in Tables /\ k \in Keys
          /\ tbl[t][k] \in MVCCObjects
      <3>1. rpos[r] \in Reads /\ rkeys[r] \in [1 .. TxSize -> Keys]
        BY <1>16 DEF GetByKey, Inv1, PosInv
      <3>2. t \in Tables /\ k \in Keys
        BY <3>1, KeyOfType, SMTT(60)
      <3> QED BY <3>1, <3>2 DEF Inv1, TypeOK
    <2>2. /\ rpc' \in [Readers -> ReaderPCs]
          /\ rpos' \in [Readers -> 0 .. 2 * TxSize]
          /\ got' \in [Readers -> [Reads -> Values \cup {NoValue}]]
          /\ rcopy' \in [Readers -> MVCCObjects]
          /\ \A q \in Readers : q # r => rpc'[q] = rpc[q] /\ rpos'[q] = rpos[q]
          /\ rpc'[r] # "idle"
          /\ rpc'[r] \in {"get", "load", "store"} => rpos'[r] \in Reads
      <3>1. CASE rpc' = [rpc EXCEPT ![r] = "restart"]
                 /\ UNCHANGED <<rcopy, rpos, got>>
        BY <3>1 DEF Inv1, TypeOK, ReaderPCs
      <3>2. CASE /\ rcopy' = [rcopy EXCEPT ![r] = tbl[t][k]]
                 /\ rpc' = [rpc EXCEPT ![r] = "load"]
                 /\ UNCHANGED <<rpos, got>>
        BY <2>1, <3>2 DEF Inv1, TypeOK, ReaderPCs
      <3>3. CASE /\ ReadVersion(r, tbl[t][k], readCTS[r])
                 /\ UNCHANGED rcopy
        BY <2>1, <3>3, ReadVersionType DEF Inv1, TypeOK
      <3> QED BY <1>16, <3>1, <3>2, <3>3 DEF GetByKey
    <2>3. UNCHANGED <<ctxVars, tblVars, writerVars, rkeys, rsnap, histVars>>
      BY <1>16 DEF GetByKey
    <2>4. rpc[r] = "get"
      BY <1>16 DEF GetByKey
    <2> HIDE DEF t, k
    <2> QED
      BY <2>2, <2>3, <2>4 DEF Inv1, TypeOK, ClockInv, PosInv, ctxVars, tblVars,
         writerVars, histVars
  <1>17. ASSUME NEW r \in Readers, LoadLastCTS(r)
         PROVE  Inv1'
    BY <1>17, SMTT(60) DEF LoadLastCTS, Inv1, TypeOK, ClockInv, PosInv, ctxVars, tblVars,
       writerVars, histVars, ReaderPCs
  <1>18. ASSUME NEW r \in Readers, StoreReadCTS(r)
         PROVE  Inv1'
    <2>1. rpos[r] \in Reads /\ rcopy[r] \in MVCCObjects
      BY <1>18 DEF StoreReadCTS, Inv1, TypeOK, PosInv
    <2>2. /\ rpc' \in [Readers -> ReaderPCs]
          /\ rpos' \in [Readers -> 0 .. 2 * TxSize]
          /\ got' \in [Readers -> [Reads -> Values \cup {NoValue}]]
          /\ \A q \in Readers : q # r => rpc'[q] = rpc[q] /\ rpos'[q] = rpos[q]
          /\ rpc'[r] \in {"get", "restart", "done"}
          /\ rpc'[r] = "get" => rpos'[r] \in Reads
      BY <1>18, <2>1, ReadVersionType DEF StoreReadCTS, Inv1
    <2>3. /\ rpc[r] = "store"
          /\ readCTS' = [readCTS EXCEPT ![r] = rsnap[r]]
          /\ rcopy' = [rcopy EXCEPT ![r] = EmptyObject]
          /\ rsnap' = [rsnap EXCEPT ![r] = 0]
          /\ UNCHANGED <<nextTxID, lastCTS, oldest, status, active, tblVars,
                         writerVars, rkeys, histVars>>
      BY <1>18 DEF StoreReadCTS
    <2> QED
      BY <2>2, <2>3, EmptyType, SMTT(60) DEF Inv1, TypeOK, ClockInv, PosInv, tblVars,
         writerVars, histVars
  <1>19. ASSUME NEW r \in Readers, RestartRead(r)
         PROVE  Inv1'
    BY <1>19, SMTT(60) DEF RestartRead, Inv1, TypeOK, ClockInv, PosInv, tblVars,
       writerVars, histVars, ReaderPCs, NoReads, Reads
  <1>20. ASSUME NEW r \in Readers, FinishRead(r)
         PROVE  Inv1'
    BY <1>20 DEF FinishRead, Inv1, TypeOK, ClockInv, PosInv, tblVars,
       writerVars, histVars, ReaderPCs, NoReads
  <1>21. CASE UNCHANGED vars
    BY <1>21 DEF vars, Inv1, TypeOK, ClockInv, PosInv, ctxVars, tblVars,
       writerVars, readerVars, histVars
  <1> QED
    BY <1>1, <1>2, <1>3, <1>4, <1>5, <1>6, <1>7, <1>8, <1>9, <1>10, <1>11,
       <1>12, <1>13, <1>14, <1>15, <1>16, <1>17, <1>18, <1>19, <1>20, <1>21
    DEF Next, WriterStep, CommitStep, ReaderStep

\* Every variable keeps its type, for any instance of the constants.
THEOREM TypeCorrect == Spec => []TypeOK
  <1>1. Spec => []Inv1
    BY InitInv1, NextInv1, PTL DEF Spec
  <1>2. Inv1 => TypeOK
    BY DEF Inv1
  <1> QED BY <1>1, <1>2, PTL

-----------------------------------------------------------------------------
(***************************************************************************)
(* The write sets.                                                         *)
(***************************************************************************)

\* std::sort and std::unique leave one entry of each key.
LEMMA KeptValueUnique ==
  ASSUME NEW ws \in Seq(Pairs), NEW k \in Keys,
         NEW v \in KeptValue(ws, k), NEW w \in KeptValue(ws, k)
  PROVE  v = w
  <1>1. v \in Nat /\ w \in Nat
    BY ValuesAssumption DEF KeptValue
  <1>2. PICK m \in 1 .. Len(ws) : ws[m] = <<k, v>>
    BY DEF KeptValue
  <1>3. PICK n \in 1 .. Len(ws) : ws[n] = <<k, w>>
    BY DEF KeptValue
  <1>4. v <= w
    BY <1>3 DEF KeptValue
  <1>5. w <= v
    BY <1>2 DEF KeptValue
  <1> QED BY <1>1, <1>4, <1>5

\* What an append adds to the keys and to the kept values of a write set.
LEMMA AppendKeys ==
  ASSUME NEW ws \in Seq(Pairs), NEW k \in Keys, NEW v \in Values
  PROVE  /\ KeysIn(Append(ws, <<k, v>>)) = KeysIn(ws) \cup {k}
         /\ \A l \in Keys \ {k} :
               KeptValue(Append(ws, <<k, v>>), l) = KeptValue(ws, l)
         /\ \A w \in Values :
               /\ w \in KeptValue(ws, k) /\ w <= v
                     => w \in KeptValue(Append(ws, <<k, v>>), k)
               /\ w \in KeptValue(ws, k) /\ v < w
                     => v \in KeptValue(Append(ws, <<k, v>>), k)
         /\ k \notin KeysIn(ws) => v \in KeptValue(Append(ws, <<k, v>>), k)
  <1> DEFINE as == Append(ws, <<k, v>>)
             L == Len(ws)
  <1>1. /\ L \in Nat
        /\ Len(as) = L + 1
        /\ as[L + 1] = <<k, v>>
        /\ \A n \in 1 .. L : as[n] = ws[n]
    BY DEF Pairs
  <1>2. Values \subseteq Nat
    BY ValuesAssumption
  <1>3. \A n \in 1 .. L : \E x \in Keys, y \in Values : ws[n] = <<x, y>>
    BY DEF Pairs
  <1> HIDE DEF as
  <1>4. \A l : (\E n \in 1 .. Len(as) : as[n][1] = l)
                  <=> (l = k \/ \E n \in 1 .. L : ws[n][1] = l)
    <2>1. as[L + 1][1] = k
      BY <1>1
    <2>2. \A n \in 1 .. L + 1 : n \in 1 .. L \/ n = L + 1
      BY <1>1
    <2>3. 1 .. L \subseteq 1 .. L + 1 /\ L + 1 \in 1 .. L + 1
      BY <1>1
    <2> HIDE DEF L
    <2> QED BY <1>1, <2>1, <2>2, <2>3
  <1>5. \A l, w : (\E n \in 1 .. Len(as) : as[n] = <<l, w>>)
                  <=> \/ l = k /\ w = v
                      \/ \E n \in 1 .. L : ws[n] = <<l, w>>
    <2>1. \A n \in 1 .. L + 1 : n \in 1 .. L \/ n = L + 1
      BY <1>1
    <2>2. 1 .. L \subseteq 1 .. L + 1 /\ L + 1 \in 1 .. L + 1
      BY <1>1
    <2> HIDE DEF L
    <2> SUFFICES ASSUME NEW l, NEW w
                 PROVE  (\E n \in 1 .. L + 1 : as[n] = <<l, w>>)
                          <=> \/ l = k /\ w = v
                              \/ \E n \in 1 .. L : ws[n] = <<l, w>>
      BY <1>1, ZenonT(60)
    <2>3. as[L + 1] = <<l, w>> <=> l = k /\ w = v
      BY <1>1
    <2> QED BY <1>1, <2>1, <2>2, <2>3
  <1>6. \A l, w : (\A n \in 1 .. Len(as) : as[n][1] = l => w <= as[n][2])
                  <=> /\ l = k => w <= v
                      /\ \A n \in 1 .. L : ws[n][1] = l => w <= ws[n][2]
    <2>1. as[L + 1][1] = k /\ as[L + 1][2] = v
      BY <1>1
    <2>2. \A n \in 1 .. L + 1 : n \in 1 .. L \/ n = L + 1
      BY <1>1
    <2>3. 1 .. L \subseteq 1 .. L + 1 /\ L + 1 \in 1 .. L + 1
      BY <1>1
    <2> HIDE DEF L
    <2> QED BY <1>1, <2>1, <2>2, <2>3
  <1>7. KeysIn(as) = KeysIn(ws) \cup {k}
    BY <1>4 DEF KeysIn
  <1>8. \A l \in Keys \ {k} : KeptValue(as, l) = KeptValue(ws, l)
    BY <1>5, <1>6 DEF KeptValue
  <1>9. \A w \in Values :
           /\ w \in KeptValue(ws, k) /\ w <= v => w \in KeptValue(as, k)
           /\ w \in KeptValue(ws, k) /\ v < w => v \in KeptValue(as, k)
    <2> SUFFICES ASSUME NEW w \in Values, w \in KeptValue(ws, k)
                 PROVE  /\ w <= v => w \in KeptValue(as, k)
                        /\ v < w => v \in KeptValue(as, k)
      OBVIOUS
    <2>1. /\ \E n \in 1 .. L : ws[n] = <<k, w>>
          /\ \A n \in 1 .. L : ws[n][1] = k => w <= ws[n][2]
      BY DEF KeptValue
    <2>2. w <= v => w \in KeptValue(as, k)
      BY <1>5, <1>6, <2>1 DEF KeptValue
    <2>3. ASSUME v < w PROVE \A n \in 1 .. L : ws[n][1] = k => v <= ws[n][2]
      <3> SUFFICES ASSUME NEW n \in 1 .. L, ws[n][1] = k PROVE v <= ws[n][2]
        OBVIOUS
      <3>1. PICK x \in Keys, y \in Values : ws[n] = <<x, y>>
        BY <1>3
      <3> QED BY <1>2, <2>1, <2>3, <3>1
    <2>4. v < w => v \in KeptValue(as, k)
      <3> SUFFICES ASSUME v < w PROVE v \in KeptValue(as, k)
        OBVIOUS
      <3>1. \E n \in 1 .. Len(as) : as[n] = <<k, v>>
        BY <1>5
      <3>2. v <= v
        BY <1>2
      <3>3. \A n \in 1 .. Len(as) : as[n][1] = k => v <= as[n][2]
        BY <1>6, <2>3, <3>2
      <3> QED BY <3>1, <3>3 DEF KeptValue
    <2> QED BY <2>2, <2>4
  <1>10. k \notin KeysIn(ws) => v \in KeptValue(as, k)
    <2> SUFFICES ASSUME k \notin KeysIn(ws) PROVE v \in KeptValue(as, k)
      OBVIOUS
    <2>1. \A n \in 1 .. L : ws[n][1] # k
      BY DEF KeysIn
    <2>2. \E n \in 1 .. Len(as) : as[n] = <<k, v>>
      BY <1>5
    <2>3. v <= v
      BY <1>2
    <2>4. \A n \in 1 .. Len(as) : as[n][1] = k => v <= as[n][2]
      BY <1>6, <2>1, <2>3
    <2> QED BY <2>2, <2>4 DEF KeptValue
  <1> QED BY <1>7, <1>8, <1>9, <1>10 DEF as

\* The history variable `want' follows the write sets.
LEMMA InsertMatches ==
  ASSUME NEW ws \in Seq(Pairs), Matches(ws), NEW k \in Keys, NEW v \in Values,
         want \in [Keys -> Values \cup {Untouched}],
         want' = [want EXCEPT ![k] = IF @ = Untouched \/ v < @ THEN v ELSE @]
  PROVE  \A l \in Keys :
            /\ want'[l] = Untouched => l \notin KeysIn(Append(ws, <<k, v>>))
            /\ want'[l] # Untouched =>
                  /\ l \in KeysIn(Append(ws, <<k, v>>))
                  /\ want'[l] \in KeptValue(Append(ws, <<k, v>>), l)
  <1> DEFINE as == Append(ws, <<k, v>>)
  <1>1. Untouched \notin Values /\ Values \subseteq Nat
    BY ValuesAssumption DEF Untouched
  <1>2. /\ KeysIn(as) = KeysIn(ws) \cup {k}
        /\ \A l \in Keys \ {k} : KeptValue(as, l) = KeptValue(ws, l)
        /\ \A w \in Values :
              /\ w \in KeptValue(ws, k) /\ w <= v => w \in KeptValue(as, k)
              /\ w \in KeptValue(ws, k) /\ v < w => v \in KeptValue(as, k)
        /\ k \notin KeysIn(ws) => v \in KeptValue(as, k)
    BY AppendKeys
  <1> HIDE DEF as
  <1>3. \A l \in Keys \ {k} : want'[l] = want[l]
    OBVIOUS
  <1>4. want'[k] # Untouched /\ want'[k] \in KeptValue(as, k)
    <2>1. CASE want[k] = Untouched
      BY <1>1, <1>2, <2>1 DEF Matches
    <2>2. CASE want[k] # Untouched
      <3>1. want[k] \in Values /\ want[k] \in KeptValue(ws, k)
        BY <2>2 DEF Matches
      <3>2. v < want[k] \/ want[k] <= v
        <4>1. v \in Nat /\ want[k] \in Nat
          BY <1>1, <3>1
        <4> HIDE <1>1
        <4> QED BY <4>1
      <3>3. want'[k] = IF v < want[k] THEN v ELSE want[k]
        BY <2>2
      <3> QED BY <1>1, <1>2, <3>1, <3>2, <3>3
    <2> QED BY <2>1, <2>2
  <1>5. \A l \in Keys : /\ want'[l] = Untouched => l \notin KeysIn(as)
                        /\ want'[l] # Untouched => /\ l \in KeysIn(as)
                                                   /\ want'[l] \in KeptValue(as, l)
    BY <1>2, <1>3, <1>4 DEF Matches
  <1> QED BY <1>5 DEF as

LEMMA InitWriter == Init => WriterInv
  BY DEF Init, WriterInv, CommitPCs

LEMMA NextWriter == Inv1 /\ WriterInv /\ [Next]_vars => WriterInv'
  <1> SUFFICES ASSUME Inv1, WriterInv, [Next]_vars PROVE WriterInv'
    OBVIOUS
  <1> USE DEF CommitPCs
  <1>1. CASE TransactionBegin
    BY <1>1 DEF TransactionBegin, WriterInv, Matches, KeysIn, tblVars, histVars,
       Tables
  <1>2. ASSUME NEW k \in Keys, NEW v \in Values, Insert(k, v)
        PROVE  WriterInv'
    <2>1. /\ wpc = "active" /\ wpc' = "active"
          /\ writeSet[0] \in Seq(Pairs)
          /\ Matches(writeSet[0]) /\ writeSet[1] = writeSet[0]
          /\ status' = status
          /\ writeSet' = [t \in Tables |-> Append(writeSet[t], <<k, v>>)]
      BY <1>2 DEF Insert, WriterInv, Inv1, TypeOK, Tables, writerVars, ctxVars
    <2>2. Matches(writeSet[0])'
      <3>1. writeSet'[0] = Append(writeSet[0], <<k, v>>)
        BY <2>1 DEF Tables
      <3> QED
        <4>1. /\ want \in [Keys -> Values \cup {Untouched}]
              /\ want' = [want EXCEPT ![k] = IF @ = Untouched \/ v < @
                                            THEN v ELSE @]
          BY <1>2 DEF Insert, Inv1, TypeOK
        <4>2. \A l \in Keys :
                 /\ want'[l] = Untouched => l \notin KeysIn(writeSet'[0])
                 /\ want'[l] # Untouched =>
                       /\ l \in KeysIn(writeSet'[0])
                       /\ want'[l] \in KeptValue(writeSet'[0], l)
          BY <2>1, <3>1, <4>1, InsertMatches, ZenonT(60)
        <4> QED BY <4>2 DEF Matches, KeysIn, KeptValue
    <2>3. writeSet'[1] = writeSet'[0]
      BY <2>1 DEF Tables
    <2> QED BY <2>1, <2>2, <2>3 DEF WriterInv
  <1>3. ASSUME NEW k \in Keys, DeleteByKey(k)
        PROVE  WriterInv'
    BY <1>3 DEF DeleteByKey, WriterInv, Matches, ctxVars, tblVars, writerVars
  <1>4. CASE TransactionAbort
    BY <1>4 DEF TransactionAbort, WriterInv
  <1>5. ASSUME NEW t \in Tables, TransactionPreCommit(t)
        PROVE  WriterInv'
    BY <1>5 DEF TransactionPreCommit, WriterInv, Matches, Tables, Other, Inv1,
       TypeOK, tblVars, histVars
  <1>6. ASSUME NEW k \in Keys, NEW v \in Values,
               CommitInsert(k, v) \/ CommitUpdate(k, v)
        PROVE  WriterInv'
    BY <1>6 DEF CommitInsert, CommitUpdate, Committing, WriterInv, Matches,
       ctxVars, histVars
  <1>7. ASSUME NEW k \in Keys, NEW v \in Values, EndRecalc(k, v)
        PROVE  WriterInv'
    <2>1. /\ wpc = "scan" /\ wpc' \in CommitPCs
          /\ wpc' = "commitThis" => ctbl = 1
          /\ wpc' = "commitOther" => ctbl = 0
          /\ todo' \subseteq todo
          /\ UNCHANGED <<ctbl, writeSet, want>>
      BY <1>7 DEF EndRecalc, histVars, Inv1, TypeOK, Tables
    <2> QED BY <2>1 DEF WriterInv, Matches
  <1>8. ASSUME NEW k \in Keys, EnterSpin(k)
        PROVE  WriterInv'
    BY <1>8 DEF EnterSpin, Committing, WriterInv, Matches, tblVars, histVars
  <1>9. CASE StartRecalc
    BY <1>9 DEF StartRecalc, WriterInv, Matches, tblVars, histVars
  <1>10. ASSUME NEW r \in Readers, ScanSlot(r)
         PROVE  WriterInv'
    BY <1>10 DEF ScanSlot, WriterInv, Matches, tblVars, histVars
  <1>11. CASE CommitOther
    BY <1>11 DEF CommitOther, WriterInv, Matches, Other, Tables, Inv1, TypeOK,
       histVars
  <1>12. CASE EndCommitOther
    BY <1>12 DEF EndCommitOther, WriterInv, Tables, Inv1, TypeOK
  <1>13. CASE SetLastCTS
    BY <1>13 DEF SetLastCTS, WriterInv, tblVars
  <1>14. ASSUME NEW r \in Readers, ReaderStep(r)
         PROVE  WriterInv'
    <2>1. UNCHANGED <<wpc, status, ctbl, todo, writeSet, want>>
      BY <1>14 DEF ReaderStep, StartRead, GetByKey, LoadLastCTS, StoreReadCTS,
         RestartRead, FinishRead, ctxVars, tblVars, writerVars, histVars
    <2> QED BY <2>1 DEF WriterInv, Matches
  <1>15. CASE UNCHANGED vars
    BY <1>15 DEF vars, WriterInv, Matches, ctxVars, tblVars, writerVars, histVars
  <1> QED
    BY <1>1, <1>2, <1>3, <1>4, <1>5, <1>6, <1>7, <1>8, <1>9, <1>10, <1>11,
       <1>12, <1>13, <1>14, <1>15
    DEF Next, WriterStep, CommitStep

-----------------------------------------------------------------------------
(***************************************************************************)
(* The objects.  Three lemmas say what the operations of a commit do to an *)
(* object that the transaction has not written yet.                        *)
(***************************************************************************)

LEMMA ObjectArith ==
  ASSUME Inv1, NEW o \in MVCCObjects
  PROVE  /\ lastCTS \in Nat /\ wtx \in Nat /\ wtx < DTS_INF /\ DTS_INF \in Nat
         /\ DOMAIN snaps \subseteq Nat
         /\ \A ts \in DOMAIN snaps : ts <= lastCTS
         /\ o.used \subseteq Slots
         /\ \A i \in Slots : /\ o.cts[i] \in Nat /\ o.dts[i] \in Nat
                             /\ o.dts[i] <= DTS_INF
         /\ DOMAIN o.cts = Slots /\ DOMAIN o.dts = Slots /\ DOMAIN o.val = Slots
  BY MaxTxIDAssumption DEF Inv1, TypeOK, ClockInv, MVCCObjects, TS, DTS_INF

\* The version getCurrent(txnID) finds for the writer is the open one.
LEMMA CurrentIsOpen ==
  ASSUME Inv1, NEW o \in MVCCObjects, NEW k \in Keys, Old(o, k), lastCTS < wtx,
         NEW d \in GetCurrent(o, wtx)
  PROVE  d \in o.used /\ o.dts[d] = DTS_INF
  <1>1. d \in o.used /\ wtx < o.dts[d]
    BY DEF GetCurrent, Visible
  <1>2. o.dts[d] <= lastCTS \/ o.dts[d] = DTS_INF
    BY <1>1 DEF Old
  <1> QED BY <1>1, <1>2, ObjectArith

\* newEntry turns an old object into one that holds the transaction's value
\* and still has everything the committed snapshots had.
LEMMA NewEntrySound ==
  ASSUME Inv1, NEW o \in MVCCObjects, NEW k \in Keys, Sound(o, k), Old(o, k),
         lastCTS < wtx, NEW i \in Slots \ o.used, NEW d \in o.used,
         o.dts[d] = DTS_INF, want[k] \in Values
  PROVE  /\ Sound(NewEntry(o, wtx, i, d, want[k]), k)
         /\ New(NewEntry(o, wtx, i, d, want[k]), k)
  <1> DEFINE n == NewEntry(o, wtx, i, d, want[k])
  <1>1. /\ lastCTS \in Nat /\ wtx \in Nat /\ wtx < DTS_INF /\ DTS_INF \in Nat
        /\ DOMAIN snaps \subseteq Nat
        /\ \A ts \in DOMAIN snaps : ts <= lastCTS
        /\ o.used \subseteq Slots
        /\ \A j \in Slots : /\ o.cts[j] \in Nat /\ o.dts[j] \in Nat
                            /\ o.dts[j] <= DTS_INF
        /\ DOMAIN o.cts = Slots /\ DOMAIN o.dts = Slots /\ DOMAIN o.val = Slots
    BY ObjectArith
  <1>2. i # d /\ i \in Slots /\ d \in Slots
    BY <1>1
  <1>3. /\ n.used = o.used \cup {i}
        /\ n.cts[i] = wtx /\ n.dts[i] = DTS_INF /\ n.val[i] = want[k]
        /\ n.dts[d] = wtx /\ n.cts[d] = o.cts[d] /\ n.val[d] = o.val[d]
        /\ \A j \in o.used \ {d} : /\ n.cts[j] = o.cts[j] /\ n.dts[j] = o.dts[j]
                                   /\ n.val[j] = o.val[j]
    BY <1>1, <1>2 DEF NewEntry, MVCCObjects
  <1> HIDE DEF n
  <1>4. \A j \in o.used : o.cts[j] \in DOMAIN snaps /\ o.cts[j] <= lastCTS
    BY <1>1 DEF Old
  <1>5. \A j \in o.used \ {d} : o.dts[j] <= lastCTS
    <2> SUFFICES ASSUME NEW j \in o.used \ {d} PROVE o.dts[j] <= lastCTS
      OBVIOUS
    <2>1. o.dts[j] <= lastCTS \/ o.dts[j] = DTS_INF
      BY DEF Old
    <2>2. o.dts[j] <= o.cts[d] \/ o.dts[d] <= o.cts[j]
      BY DEF Sound, WellFormed
    <2> QED BY <1>1, <1>4, <2>1, <2>2
  <1>6. WellFormed(n)
    <2>1. \A j \in n.used : n.cts[j] < n.dts[j]
      <3> SUFFICES ASSUME NEW j \in n.used PROVE n.cts[j] < n.dts[j]
        OBVIOUS
      <3>1. CASE j = i
        BY <1>1, <1>3, <3>1
      <3>2. CASE j = d
        BY <1>1, <1>3, <1>4, <3>2
      <3>3. CASE j \in o.used \ {d}
        BY <1>3, <3>3 DEF Sound, WellFormed
      <3> QED BY <1>3, <3>1, <3>2, <3>3
    <2>2. \A j \in o.used : n.dts[j] <= wtx
      BY <1>1, <1>3, <1>5
    <2>3. ASSUME NEW p \in n.used, NEW q \in n.used, p # q
          PROVE  n.dts[p] <= n.cts[q] \/ n.dts[q] <= n.cts[p]
      <3>1. CASE p = i
        BY <1>3, <2>2, <2>3, <3>1
      <3>2. CASE q = i
        BY <1>3, <2>2, <2>3, <3>2
      <3>3. CASE p \in o.used /\ q \in o.used
        <4>1. o.dts[p] <= o.cts[q] \/ o.dts[q] <= o.cts[p]
          BY <2>3, <3>3 DEF Sound, WellFormed
        <4>2. n.cts[p] = o.cts[p] /\ n.cts[q] = o.cts[q]
          BY <1>3, <3>3
        <4>3. n.dts[p] <= o.dts[p] /\ n.dts[q] <= o.dts[q]
          BY <1>1, <1>3, <3>3
        <4>4. n.dts[p] \in Nat /\ n.dts[q] \in Nat
          BY <1>1, <1>3, <3>3
        <4>5. /\ o.dts[p] \in Nat /\ o.dts[q] \in Nat
              /\ o.cts[p] \in Nat /\ o.cts[q] \in Nat
          BY <1>1, <3>3
        <4> QED BY <4>1, <4>2, <4>3, <4>4, <4>5
      <3> QED BY <1>3, <3>1, <3>2, <3>3
    <2> QED BY <1>3, <2>1, <2>3 DEF WellFormed
  <1>7. \A j \in n.used : n.val[j] \in Values
    BY <1>3 DEF Sound
  <1>8. ASSUME NEW ts \in DOMAIN snaps, NEW j \in Visible(n, ts)
        PROVE  n.val[j] = snaps[ts][k]
    <2>1. j \in n.used /\ n.cts[j] <= ts /\ ts < n.dts[j]
      BY <1>8 DEF Visible
    <2>2. ts \in Nat /\ ts <= lastCTS
      BY <1>1, <1>8
    <2>3. j # i
      BY <1>1, <1>3, <2>1, <2>2
    <2>4. j \in o.used /\ o.cts[j] <= ts /\ ts < o.dts[j] /\ n.val[j] = o.val[j]
      BY <1>1, <1>3, <2>1, <2>2, <2>3
    <2> QED BY <2>4 DEF Sound, Visible
  <1>9. New(n, k)
    BY <1>3, <1>4, <1>5 DEF New
  <1> QED BY <1>6, <1>7, <1>8, <1>9 DEF Sound, n

\* The first version of a key that no committed snapshot contains.
LEMMA FirstEntrySound ==
  ASSUME Inv1, NEW k \in Keys, lastCTS < wtx, want[k] \in Values,
         snaps[lastCTS][k] = NoValue
  PROVE  /\ Sound(FirstEntry(wtx, want[k]), k)
         /\ New(FirstEntry(wtx, want[k]), k)
  <1> DEFINE n == FirstEntry(wtx, want[k])
  <1>1. /\ n.used = {0}
        /\ n.cts[0] = wtx /\ n.dts[0] = DTS_INF /\ n.val[0] = want[k]
    BY SlotsFact DEF FirstEntry
  <1>2. wtx \in Nat /\ lastCTS \in Nat /\ wtx < DTS_INF
    BY EmptyType, ObjectArith
  <1> HIDE DEF n
  <1>3. \A ts \in DOMAIN snaps : Visible(n, ts) = {}
    <2> SUFFICES ASSUME NEW ts \in DOMAIN snaps PROVE Visible(n, ts) = {}
      OBVIOUS
    <2>1. ts \in Nat /\ ts <= lastCTS
      BY EmptyType, ObjectArith
    <2> QED BY <1>1, <1>2, <2>1 DEF Visible
  <1> QED BY <1>1, <1>2, <1>3 DEF Sound, New, WellFormed, n

\* The garbage collection keeps the open version and all it needs.
LEMMA CleanUpSound ==
  ASSUME Inv1, NEW o \in MVCCObjects, NEW k \in Keys, Sound(o, k), Old(o, k),
         NEW min \in Nat, min <= lastCTS
  PROVE  LET c == CleanUpVersions(o, min)
         IN  /\ Sound(c, k) /\ Old(c, k)
             /\ \A d \in o.used : o.dts[d] = DTS_INF =>
                   d \in c.used /\ c.dts[d] = DTS_INF
  <1> DEFINE c == CleanUpVersions(o, min)
  <1>1. /\ lastCTS \in Nat /\ wtx \in Nat /\ wtx < DTS_INF /\ DTS_INF \in Nat
        /\ o.used \subseteq Slots
        /\ \A j \in Slots : o.cts[j] \in Nat /\ o.dts[j] \in Nat
    BY ObjectArith
  <1>2. lastCTS < DTS_INF
    BY <1>1 DEF Inv1, ClockInv
  <1>3. /\ c.used = {j \in o.used : ~(o.dts[j] <= min)}
        /\ \A j \in c.used : /\ j \in o.used /\ c.cts[j] = o.cts[j]
                             /\ c.dts[j] = o.dts[j] /\ c.val[j] = o.val[j]
    BY <1>1 DEF CleanUpVersions
  <1>4. \A d \in o.used : o.dts[d] = DTS_INF => d \in c.used /\ c.dts[d] = DTS_INF
    BY <1>1, <1>2, <1>3
  <1> HIDE DEF c
  <1>5. o.used # {} => c.used # {}
    BY <1>4 DEF Sound, WellFormed
  <1>6. WellFormed(c)
    BY <1>3, <1>4 DEF Sound, WellFormed
  <1>7. \A ts : \A j \in Visible(c, ts) : j \in Visible(o, ts) /\ c.val[j] = o.val[j]
    BY <1>3 DEF Visible
  <1>8. Sound(c, k)
    BY <1>3, <1>6, <1>7 DEF Sound
  <1>9. Old(c, k)
    BY <1>3, <1>5 DEF Old
  <1> QED BY <1>4, <1>8, <1>9 DEF c

\* Publishing the transaction: its snapshot is what its commit wrote.
LEMMA PublishSound ==
  ASSUME Inv1, WriterInv, ObjectInv, SetLastCTS, NEW t \in Tables, NEW k \in Keys
  PROVE  Sound(tbl[t][k], k)' /\ Old(tbl[t][k], k)'
  <1> DEFINE o == tbl[t][k]
  <1>1. /\ wpc = "publish" /\ lastCTS' = wtx /\ tbl' = tbl
        /\ DOMAIN snaps' = DOMAIN snaps \cup {wtx}
        /\ \A ts \in DOMAIN snaps : ts # wtx => snaps'[ts] = snaps[ts]
        /\ snaps'[wtx][k] = IF want[k] = Untouched THEN snaps[lastCTS][k]
                                                   ELSE want[k]
    BY DEF SetLastCTS, tblVars
  <1>2. o \in MVCCObjects /\ lastCTS < wtx /\ lastCTS \in DOMAIN snaps
    BY <1>1 DEF Inv1, TypeOK, ClockInv
  <1>3. /\ lastCTS \in Nat /\ wtx \in Nat /\ wtx < DTS_INF /\ DTS_INF \in Nat
        /\ DOMAIN snaps \subseteq Nat
        /\ \A ts \in DOMAIN snaps : ts <= lastCTS
        /\ o.used \subseteq Slots
        /\ \A j \in Slots : /\ o.cts[j] \in Nat /\ o.dts[j] \in Nat
                            /\ o.dts[j] <= DTS_INF
    BY <1>2, ObjectArith
  <1>4. Sound(o, k)
    BY DEF ObjectInv
  <1>5. ASSUME NEW i \in o.used
        PROVE  /\ o.cts[i] \in DOMAIN snaps'
               /\ o.dts[i] <= wtx \/ o.dts[i] = DTS_INF
               /\ i \in Visible(o, wtx) => o.val[i] = snaps'[wtx][k]
    <2>1. CASE want[k] = Untouched
      <3>1. Old(o, k)
        BY <1>1, <2>1 DEF ObjectInv, Applied
      <3>2. o.cts[i] \in DOMAIN snaps /\ (o.dts[i] <= lastCTS \/ o.dts[i] = DTS_INF)
        BY <1>5, <3>1 DEF Old
      <3>3. i \in Visible(o, wtx) => i \in Visible(o, lastCTS)
        BY <1>2, <1>3, <1>5, <3>2 DEF Visible
      <3>4. i \in Visible(o, wtx) => o.val[i] = snaps[lastCTS][k]
        BY <1>2, <1>4, <3>3 DEF Sound
      <3> QED BY <1>1, <1>2, <1>3, <1>5, <2>1, <3>2, <3>4
    <2>2. CASE want[k] # Untouched
      <3>1. New(o, k)
        BY <1>1, <2>2 DEF ObjectInv, Applied
      <3>2. \/ o.cts[i] = wtx /\ o.dts[i] = DTS_INF /\ o.val[i] = want[k]
            \/ /\ o.cts[i] \in DOMAIN snaps
               /\ o.dts[i] <= lastCTS \/ o.dts[i] = wtx
        BY <1>5, <3>1 DEF New
      <3>3. i \in Visible(o, wtx) => wtx < o.dts[i]
        BY DEF Visible
      <3> QED BY <1>1, <1>2, <1>3, <1>5, <2>2, <3>2, <3>3
    <2> QED BY <2>1, <2>2
  <1>6. o.used = {} => snaps'[wtx][k] = NoValue
    <2>1. want[k] # Untouched => o.used # {}
      BY <1>1 DEF ObjectInv, Applied, New
    <2>2. want[k] = Untouched /\ o.used = {} => snaps[lastCTS][k] = NoValue
      BY <1>1 DEF ObjectInv, Applied, Old
    <2> QED BY <1>1, <2>1, <2>2
  <1>7. ASSUME NEW ts \in DOMAIN snaps', NEW i \in Visible(o, ts)
        PROVE  o.val[i] = snaps'[ts][k]
    <2>1. i \in o.used
      BY <1>7 DEF Visible
    <2>2. CASE ts = wtx
      BY <1>5, <1>7, <2>1, <2>2
    <2>3. CASE ts # wtx
      BY <1>1, <1>4, <1>7, <2>3 DEF Sound
    <2> QED BY <2>2, <2>3
  <1>8. WellFormed(o) /\ \A i \in o.used : o.val[i] \in Values
    BY <1>4 DEF Sound
  <1>9. Sound(tbl[t][k], k)'
    BY <1>1, <1>7, <1>8 DEF Sound, Visible, WellFormed
  <1>10. Old(tbl[t][k], k)'
    BY <1>1, <1>5, <1>6 DEF Old
  <1> QED BY <1>9, <1>10

\* Steps that touch neither the tables nor the committed snapshots.
LEMMA ObjectFrame ==
  ASSUME ObjectInv, UNCHANGED <<tbl, snaps, lastCTS>>,
         \A t \in Tables, k \in Keys :
            /\ Applied(t, k)' <=> Applied(t, k)
            /\ Applied(t, k) => wtx' = wtx /\ want'[k] = want[k]
  PROVE  ObjectInv'
  <1> SUFFICES ASSUME NEW t \in Tables, NEW k \in Keys
               PROVE  /\ Sound(tbl[t][k], k)'
                      /\ Applied(t, k)' => New(tbl[t][k], k)'
                      /\ ~Applied(t, k)' => Old(tbl[t][k], k)'
    BY DEF ObjectInv
  <1>1. Sound(tbl[t][k], k)'
    BY DEF ObjectInv, Sound, WellFormed, Visible
  <1>2. Applied(t, k)' => New(tbl[t][k], k)'
    BY DEF ObjectInv, New
  <1>3. ~Applied(t, k)' => Old(tbl[t][k], k)'
    BY DEF ObjectInv, Old
  <1> QED BY <1>1, <1>2, <1>3

\* Steps that change one object of the table being committed.
LEMMA ObjectStep ==
  ASSUME Inv1, ObjectInv, NEW k \in Keys, NEW n,
         tbl' = [tbl EXCEPT ![ctbl][k] = n],
         UNCHANGED <<snaps, lastCTS, wtx, want, ctbl>>,
         Sound(n, k), Applied(ctbl, k)' => New(n, k),
         ~Applied(ctbl, k)' => Old(n, k),
         \A t \in Tables, l \in Keys : t # ctbl \/ l # k =>
            (Applied(t, l)' <=> Applied(t, l))
  PROVE  ObjectInv'
  <1> SUFFICES ASSUME NEW t \in Tables, NEW l \in Keys
               PROVE  /\ Sound(tbl[t][l], l)'
                      /\ Applied(t, l)' => New(tbl[t][l], l)'
                      /\ ~Applied(t, l)' => Old(tbl[t][l], l)'
    BY DEF ObjectInv
  <1>1. CASE t = ctbl /\ l = k
    <2>1. tbl'[t][l] = n
      BY <1>1 DEF Inv1, TypeOK
    <2>2. Sound(tbl[t][l], l)'
      BY <1>1, <2>1 DEF Sound, WellFormed, Visible
    <2>3. Applied(t, l)' <=> Applied(ctbl, k)'
      BY <1>1 DEF Applied
    <2>4. Applied(t, l)' => New(tbl[t][l], l)'
      BY <1>1, <2>1, <2>3 DEF New
    <2>5. ~Applied(t, l)' => Old(tbl[t][l], l)'
      BY <1>1, <2>1, <2>3 DEF Old
    <2> QED BY <2>2, <2>4, <2>5
  <1>2. CASE t # ctbl \/ l # k
    <2>1. tbl'[t][l] = tbl[t][l]
      BY <1>2, SMTT(60) DEF Inv1, TypeOK
    <2>2. Sound(tbl[t][l], l)'
      BY <2>1 DEF ObjectInv, Sound, WellFormed, Visible
    <2>3. Applied(t, l)' => New(tbl[t][l], l)'
      BY <1>2, <2>1 DEF ObjectInv, New
    <2>4. ~Applied(t, l)' => Old(tbl[t][l], l)'
      BY <1>2, <2>1 DEF ObjectInv, Old
    <2> QED BY <2>2, <2>3, <2>4
  <1> QED BY <1>1, <1>2

\* The next key of a commit: not written yet, and its kept value is `want'.
LEMMA NextKeyFacts ==
  ASSUME Inv1, WriterInv, ObjectInv, wpc \in CommitPCs, NEW k \in NextKey,
         NEW v \in KeptValue(writeSet[ctbl], k)
  PROVE  /\ k \in Keys /\ k \in todo
         /\ want[k] # Untouched /\ want[k] \in Values /\ v = want[k]
         /\ ~Applied(ctbl, k)
         /\ Sound(tbl[ctbl][k], k) /\ Old(tbl[ctbl][k], k)
         /\ lastCTS < wtx /\ tbl[ctbl][k] \in MVCCObjects
  <1>1. k \in Keys /\ k \in todo /\ k \in KeysIn(writeSet[ctbl])
    BY DEF NextKey, WriterInv, Inv1, TypeOK
  <1>2. want[k] # Untouched /\ want[k] \in KeptValue(writeSet[ctbl], k)
    BY <1>1 DEF WriterInv, Matches
  <1>3. want[k] \in Values
    BY <1>2 DEF KeptValue
  <1>4. v = want[k]
    BY <1>1, <1>2, KeptValueUnique DEF Inv1, TypeOK
  <1>5. ctbl \in {0, 1}
    BY DEF Inv1, TypeOK, Tables
  <1>6. ~Applied(ctbl, k)
    BY <1>1, <1>5 DEF Applied, CommitPCs
  <1>7. Sound(tbl[ctbl][k], k) /\ Old(tbl[ctbl][k], k)
    BY <1>1, <1>5, <1>6 DEF ObjectInv, Tables
  <1>8. lastCTS < wtx /\ tbl[ctbl][k] \in MVCCObjects
    BY <1>1 DEF Inv1, ClockInv, TypeOK, CommitPCs
  <1> QED BY <1>1, <1>2, <1>3, <1>4, <1>6, <1>7, <1>8

\* After the key is written, `Applied' changes for this key alone.
LEMMA AppliedStep ==
  ASSUME Inv1, wpc \in CommitPCs, wpc' \in CommitPCs, NEW k \in todo,
         want[k] # Untouched, todo' = todo \ {k}, UNCHANGED <<want, ctbl>>
  PROVE  /\ Applied(ctbl, k)'
         /\ \A t \in Tables, l \in Keys : t # ctbl \/ l # k =>
               (Applied(t, l)' <=> Applied(t, l))
  BY DEF Applied, CommitPCs, Tables, Inv1, TypeOK

LEMMA InitObject == Init => ObjectInv
  <1> SUFFICES ASSUME Init, NEW t \in Tables, NEW k \in Keys
               PROVE  /\ Sound(tbl[t][k], k)
                      /\ ~Applied(t, k)
                      /\ Old(tbl[t][k], k)
    BY DEF ObjectInv
  <1>1. ~Applied(t, k)
    BY DEF Init, Applied, CommitPCs
  <1>2. /\ DOMAIN snaps = {1} /\ lastCTS = 1
        /\ snaps[1][k] = IF k \in Loaded THEN InitValue ELSE NoValue
    BY DEF Init
  <1>3. CASE k \in Loaded
    <2> DEFINE o == FirstEntry(1, InitValue)
    <2>1. tbl[t][k] = o
      BY <1>3 DEF Init
    <2>2. /\ o.used = {0}
          /\ o.cts[0] = 1 /\ o.dts[0] = DTS_INF /\ o.val[0] = InitValue
      BY SlotsFact DEF FirstEntry
    <2>3. 1 < DTS_INF /\ InitValue \in Values
      BY MaxTxIDAssumption, InitValueAssumption DEF DTS_INF
    <2> HIDE DEF o
    <2> QED BY <1>1, <1>2, <1>3, <2>1, <2>2, <2>3 DEF Sound, Old, WellFormed, Visible
  <1>4. CASE k \notin Loaded
    <2>1. tbl[t][k].used = {}
      BY <1>4 DEF Init, EmptyObject
    <2> QED BY <1>1, <1>2, <1>4, <2>1 DEF Sound, Old, WellFormed, Visible
  <1> QED BY <1>3, <1>4

LEMMA NextObject == Inv1 /\ WriterInv /\ ObjectInv /\ [Next]_vars => ObjectInv'
  <1> SUFFICES ASSUME Inv1, WriterInv, ObjectInv, [Next]_vars PROVE ObjectInv'
    OBVIOUS
  <1>1. CASE TransactionBegin
    <2>1. \A t \in Tables, k \in Keys : ~Applied(t, k) /\ ~Applied(t, k)'
      BY <1>1 DEF TransactionBegin, Applied, CommitPCs
    <2> QED BY <1>1, <2>1, ObjectFrame DEF TransactionBegin, tblVars, histVars
  <1>2. ASSUME NEW k \in Keys, NEW v \in Values, Insert(k, v)
        PROVE  ObjectInv'
    <2>1. \A t \in Tables, l \in Keys : ~Applied(t, l) /\ ~Applied(t, l)'
      BY <1>2 DEF Insert, Applied, CommitPCs, writerVars
    <2> QED BY <1>2, <2>1, ObjectFrame DEF Insert, ctxVars
  <1>3. ASSUME NEW k \in Keys, DeleteByKey(k)
        PROVE  ObjectInv'
    <2>1. \A t \in Tables, l \in Keys : ~Applied(t, l) /\ ~Applied(t, l)'
      BY <1>3 DEF DeleteByKey, Applied, CommitPCs, writerVars
    <2> QED BY <1>3, <2>1, ObjectFrame DEF DeleteByKey, ctxVars, tblVars
  <1>4. CASE TransactionAbort
    <2>1. \A t \in Tables, l \in Keys : ~Applied(t, l) /\ ~Applied(t, l)'
      BY <1>4 DEF TransactionAbort, Applied, CommitPCs
    <2> QED BY <1>4, <2>1, ObjectFrame DEF TransactionAbort, ctxVars
  <1>5. ASSUME NEW t \in Tables, TransactionPreCommit(t)
        PROVE  ObjectInv'
    <2>1. \A u \in Tables, l \in Keys : ~Applied(u, l) /\ ~Applied(u, l)'
      <3>1. wpc \in {"active", "forwarded"}
        BY <1>5 DEF TransactionPreCommit
      <3>2. /\ Matches(writeSet[0]) /\ writeSet[1] = writeSet[0]
            /\ want' = want
        BY <1>5, <3>1 DEF WriterInv, TransactionPreCommit, histVars
      <3>3. \/ wpc' = "forwarded"
            \/ wpc' = "commitThis" /\ ctbl' = t /\ todo' = KeysIn(writeSet[t])
        BY <1>5 DEF TransactionPreCommit
      <3>4. wpc' = "commitThis" => t = 1
        BY <1>5 DEF TransactionPreCommit, WriterInv, Other, Tables
      <3>5. \A l \in Keys : want[l] # Untouched => l \in KeysIn(writeSet[1])
        BY <3>2 DEF Matches
      <3> QED BY <3>1, <3>2, <3>3, <3>4, <3>5 DEF Applied, CommitPCs
    <2> QED
      BY <1>5, <2>1, ObjectFrame DEF TransactionPreCommit, tblVars, histVars
  <1>6. ASSUME NEW k \in Keys, NEW v \in Values, CommitInsert(k, v)
        PROVE  ObjectInv'
    <2>1. /\ wpc \in CommitPCs /\ wpc' = wpc /\ k \in NextKey
          /\ v \in KeptValue(writeSet[ctbl], k)
          /\ tbl[ctbl][k].used = {}
          /\ tbl' = [tbl EXCEPT ![ctbl][k] = FirstEntry(wtx, v)]
          /\ todo' = todo \ {k}
          /\ UNCHANGED <<snaps, lastCTS, wtx, want, ctbl>>
      BY <1>6 DEF CommitInsert, Committing, CommitPCs, ctxVars, histVars
    <2>2. /\ k \in todo /\ want[k] # Untouched /\ want[k] \in Values
          /\ v = want[k] /\ Old(tbl[ctbl][k], k) /\ lastCTS < wtx
      BY <2>1, NextKeyFacts
    <2>3. snaps[lastCTS][k] = NoValue
      BY <2>1, <2>2 DEF Old
    <2>4. Sound(FirstEntry(wtx, v), k) /\ New(FirstEntry(wtx, v), k)
      BY <2>2, <2>3, FirstEntrySound
    <2>5. /\ Applied(ctbl, k)'
          /\ \A t \in Tables, l \in Keys : t # ctbl \/ l # k =>
                (Applied(t, l)' <=> Applied(t, l))
      BY <2>1, <2>2, AppliedStep
    <2> QED BY <2>1, <2>4, <2>5, ObjectStep
  <1>7. ASSUME NEW k \in Keys, NEW v \in Values, CommitUpdate(k, v)
        PROVE  ObjectInv'
    <2>1. /\ wpc \in CommitPCs /\ wpc' = wpc /\ k \in NextKey
          /\ v \in KeptValue(writeSet[ctbl], k)
          /\ todo' = todo \ {k}
          /\ UNCHANGED <<snaps, lastCTS, wtx, want, ctbl>>
      BY <1>7 DEF CommitUpdate, Committing, CommitPCs, ctxVars, histVars
    <2> DEFINE o == tbl[ctbl][k]
    <2>2. PICK i \in GetFreePos(o), d \in GetCurrent(o, wtx) :
             tbl' = [tbl EXCEPT ![ctbl][k] = NewEntry(o, wtx, i, d, v)]
      BY <1>7 DEF CommitUpdate, Inv1, TypeOK
    <2>3. /\ k \in todo /\ want[k] # Untouched /\ want[k] \in Values
          /\ v = want[k] /\ Sound(o, k) /\ Old(o, k) /\ lastCTS < wtx
          /\ o \in MVCCObjects
      BY <2>1, NextKeyFacts
    <2>4. d \in o.used /\ o.dts[d] = DTS_INF /\ i \in Slots \ o.used
      BY <2>2, <2>3, CurrentIsOpen, CurrentType
    <2>5. Sound(NewEntry(o, wtx, i, d, v), k) /\ New(NewEntry(o, wtx, i, d, v), k)
      BY <2>3, <2>4, NewEntrySound
    <2>6. /\ Applied(ctbl, k)'
          /\ \A t \in Tables, l \in Keys : t # ctbl \/ l # k =>
                (Applied(t, l)' <=> Applied(t, l))
      BY <2>1, <2>3, AppliedStep
    <2> HIDE DEF o
    <2> QED BY <2>1, <2>2, <2>5, <2>6, ObjectStep
  <1>8. ASSUME NEW k \in Keys, NEW v \in Values, EndRecalc(k, v)
        PROVE  ObjectInv'
    <2> DEFINE o == tbl[ctbl][k]
               min == IF newMin = DTS_INF THEN lastCTS ELSE newMin
               c == CleanUpVersions(o, min)
    <2>1. /\ wpc = "scan" /\ k \in NextKey
          /\ v \in KeptValue(writeSet[ctbl], k)
          /\ UNCHANGED <<snaps, lastCTS, wtx, want, ctbl>>
      BY <1>8 DEF EndRecalc, histVars
    <2>2. /\ k \in todo /\ want[k] # Untouched /\ want[k] \in Values
          /\ v = want[k] /\ Sound(o, k) /\ Old(o, k) /\ lastCTS < wtx
          /\ o \in MVCCObjects /\ ~Applied(ctbl, k)
      BY <2>1, NextKeyFacts DEF CommitPCs
    <2>3. min \in Nat /\ min <= lastCTS
      BY <2>1 DEF Inv1, ClockInv, TypeOK, TS, DTS_INF
    <2>4. /\ Sound(c, k) /\ Old(c, k) /\ c \in MVCCObjects
          /\ \A d \in o.used : o.dts[d] = DTS_INF =>
                d \in c.used /\ c.dts[d] = DTS_INF
      <3> HIDE DEF o, min
      <3> QED BY <2>2, <2>3, CleanUpSound, CleanUpType
    <2>5. CASE /\ tbl' = [tbl EXCEPT ![ctbl][k] = c]
               /\ wpc' = "spin" /\ UNCHANGED todo
      <3>1. \A t \in Tables, l \in Keys : Applied(t, l)' <=> Applied(t, l)
        BY <2>1, <2>5 DEF Applied, CommitPCs
      <3>2. ~Applied(ctbl, k)'
        BY <2>1, <2>2, <2>5 DEF Applied, CommitPCs
      <3> HIDE DEF c
      <3> QED BY <2>1, <2>4, <2>5, <3>1, <3>2, ObjectStep
    <2>6. ASSUME NEW i \in GetFreePos(c), NEW d \in GetCurrent(o, wtx),
                 tbl' = [tbl EXCEPT ![ctbl][k] = NewEntry(c, wtx, i, d, v)],
                 wpc' \in CommitPCs, todo' = todo \ {k}
          PROVE  ObjectInv'
      <3>1. d \in o.used /\ o.dts[d] = DTS_INF
        BY <2>2, <2>6, CurrentIsOpen
      <3>2. d \in c.used /\ c.dts[d] = DTS_INF /\ i \in Slots \ c.used
        BY <2>4, <2>6, <3>1, CurrentType
      <3> HIDE DEF c, o
      <3>3. /\ Sound(NewEntry(c, wtx, i, d, v), k)
            /\ New(NewEntry(c, wtx, i, d, v), k)
        BY <2>2, <2>4, <3>2, NewEntrySound
      <3>4. /\ Applied(ctbl, k)'
            /\ \A t \in Tables, l \in Keys : t # ctbl \/ l # k =>
                  (Applied(t, l)' <=> Applied(t, l))
        BY <2>1, <2>2, <2>6, AppliedStep DEF CommitPCs
      <3> QED BY <2>1, <2>6, <3>3, <3>4, ObjectStep
    <2> QED
      BY <1>8, <2>5, <2>6 DEF EndRecalc, CommitPCs
  <1>9. ASSUME NEW k \in Keys, EnterSpin(k)
        PROVE  ObjectInv'
    <2>1. \A t \in Tables, l \in Keys : Applied(t, l)' <=> Applied(t, l)
      BY <1>9 DEF EnterSpin, Committing, Applied, CommitPCs, histVars
    <2> QED
      BY <1>9, <2>1, ObjectFrame DEF EnterSpin, ctxVars, tblVars, histVars
  <1>10. CASE StartRecalc
    <2>1. \A t \in Tables, l \in Keys : Applied(t, l)' <=> Applied(t, l)
      BY <1>10 DEF StartRecalc, Applied, CommitPCs, histVars
    <2> QED
      BY <1>10, <2>1, ObjectFrame DEF StartRecalc, ctxVars, tblVars, histVars
  <1>11. ASSUME NEW r \in Readers, ScanSlot(r)
         PROVE  ObjectInv'
    <2>1. \A t \in Tables, l \in Keys : Applied(t, l)' <=> Applied(t, l)
      BY <1>11 DEF ScanSlot, Applied, histVars
    <2> QED
      BY <1>11, <2>1, ObjectFrame DEF ScanSlot, ctxVars, tblVars, histVars
  <1>12. CASE CommitOther
    <2>1. /\ wpc = "commitThis" /\ ctbl = 1 /\ todo = {} /\ wpc' = "commitOther"
          /\ ctbl' = 0 /\ todo' = KeysIn(writeSet[0])
          /\ UNCHANGED <<tbl, snaps, lastCTS, wtx, want>>
      BY <1>12 DEF CommitOther, WriterInv, Other, ctxVars, histVars
    <2>2. \A l \in Keys : want[l] # Untouched => l \in KeysIn(writeSet[0])
      BY <2>1 DEF WriterInv, CommitPCs, Matches
    <2>3. \A t \in Tables, l \in Keys : Applied(t, l)' <=> Applied(t, l)
      BY <2>1, <2>2 DEF Applied, CommitPCs, Tables
    <2> QED BY <2>1, <2>3, ObjectFrame
  <1>13. CASE EndCommitOther
    <2>1. /\ wpc = "commitOther" /\ ctbl = 0 /\ todo = {} /\ wpc' = "publish"
          /\ UNCHANGED <<tbl, snaps, lastCTS, wtx, want>>
      BY <1>13 DEF EndCommitOther, WriterInv, ctxVars, histVars
    <2>2. \A t \in Tables, l \in Keys : Applied(t, l)' <=> Applied(t, l)
      BY <2>1 DEF Applied, CommitPCs
    <2> QED BY <2>1, <2>2, ObjectFrame
  <1>14. CASE SetLastCTS
    <2>1. \A t \in Tables, l \in Keys : ~Applied(t, l)'
      BY <1>14 DEF SetLastCTS, Applied, CommitPCs
    <2>2. \A t \in Tables, l \in Keys : Sound(tbl[t][l], l)' /\ Old(tbl[t][l], l)'
      BY <1>14, PublishSound
    <2> QED BY <2>1, <2>2 DEF ObjectInv
  <1>15. ASSUME NEW r \in Readers, ReaderStep(r)
         PROVE  ObjectInv'
    <2>1. UNCHANGED <<wpc, ctbl, todo, want, wtx, tbl, snaps, lastCTS>>
      BY <1>15 DEF ReaderStep, StartRead, GetByKey, LoadLastCTS, StoreReadCTS,
         RestartRead, FinishRead, ctxVars, tblVars, writerVars, histVars
    <2>2. \A t \in Tables, l \in Keys : Applied(t, l)' <=> Applied(t, l)
      BY <2>1 DEF Applied
    <2> QED BY <2>1, <2>2, ObjectFrame, SMTT(60)
  <1>16. CASE UNCHANGED vars
    <2>1. UNCHANGED <<wpc, ctbl, todo, want, wtx, tbl, snaps, lastCTS>>
      BY <1>16 DEF vars, ctxVars, tblVars, writerVars, histVars
    <2>2. \A t \in Tables, l \in Keys : Applied(t, l)' <=> Applied(t, l)
      BY <2>1 DEF Applied
    <2> QED BY <2>1, <2>2, ObjectFrame
  <1> QED
    BY <1>1, <1>2, <1>3, <1>4, <1>5, <1>6, <1>7, <1>8, <1>9, <1>10, <1>11,
       <1>12, <1>13, <1>14, <1>15, <1>16
    DEF Next, WriterStep, CommitStep

-----------------------------------------------------------------------------
(***************************************************************************)
(* The readers.                                                            *)
(***************************************************************************)

\* Steps of the writer: the committed snapshots only grow, and a version
\* that a reader has copied stays a version of its transaction.
LEMMA ReaderFrame ==
  ASSUME Inv1, ReaderInv,
         UNCHANGED <<readCTS, rpc, rkeys, rpos, rcopy, rsnap, got>>,
         DOMAIN snaps \subseteq DOMAIN snaps',
         \A ts \in DOMAIN snaps : snaps'[ts] = snaps[ts],
         \A o, k : k \in Keys /\ CopySound(o, k) =>
            \A i \in o.used :
               \/ o.cts[i] \in DOMAIN snaps' /\ o.val[i] = snaps'[o.cts[i]][k]
               \/ /\ o.cts[i] = wtx' /\ o.val[i] = want'[k]
                  /\ wpc' \in CommitPCs \cup {"publish"}
                  /\ want'[k] # Untouched
  PROVE  ReaderInv'
  <1> SUFFICES ASSUME NEW r \in Readers
               PROVE  (/\ rpc[r] = "idle" => readCTS[r] = 0
                       /\ rpc[r] \in {"load", "store"} =>
                             /\ rpos[r] = 0
                             /\ CopySound(rcopy[r], KeyOf(r, 0))
                       /\ rpc[r] = "store" => rsnap[r] \in DOMAIN snaps
                       /\ rpc[r] = "get" /\ rpos[r] = 0 => readCTS[r] = 0
                       /\ readCTS[r] # 0 => readCTS[r] \in DOMAIN snaps
                       /\ rpc[r] \in {"get", "done"} /\ rpos[r] # 0 =>
                             /\ readCTS[r] # 0
                             /\ \E ts \in DOMAIN snaps :
                                   /\ ts <= readCTS[r]
                                   /\ got[r][0] = snaps[ts][KeyOf(r, 0)]
                             /\ \A n \in Reads : n # 0 /\ n < rpos[r] =>
                                   got[r][n] = snaps[readCTS[r]][KeyOf(r, n)]
                       /\ rpc[r] = "done" => rpos[r] = 2 * TxSize)'
    BY DEF ReaderInv
  <1>1. \A n : KeyOf(r, n)' = KeyOf(r, n)
    BY DEF KeyOf
  <1>2. rpc[r] \in {"load", "store"} => CopySound(rcopy[r], KeyOf(r, 0))'
    <2> SUFFICES ASSUME rpc[r] \in {"load", "store"}
                 PROVE  CopySound(rcopy[r], KeyOf(r, 0))'
      OBVIOUS
    <2>1. CopySound(rcopy[r], KeyOf(r, 0))
      BY DEF ReaderInv
    <2>2. KeyOf(r, 0) \in Keys
      <3>1. 0 \in Reads
        BY TxSizeAssumption DEF Reads
      <3>2. rkeys[r] \in [1 .. TxSize -> Keys]
        BY DEF Inv1, PosInv
      <3> QED BY <3>1, <3>2, KeyOfType
    <2>3. \A i \in rcopy[r].used :
             \/ /\ rcopy[r].cts[i] \in DOMAIN snaps'
                /\ rcopy[r].val[i] = snaps'[rcopy[r].cts[i]][KeyOf(r, 0)]
             \/ /\ rcopy[r].cts[i] = wtx' /\ rcopy[r].val[i] = want'[KeyOf(r, 0)]
                /\ wpc' \in CommitPCs \cup {"publish"}
                /\ want'[KeyOf(r, 0)] # Untouched
      BY <2>1, <2>2
    <2> QED BY <1>1, <2>3 DEF CopySound
  <1>3. readCTS[r] # 0 => readCTS[r] \in DOMAIN snaps
    BY DEF ReaderInv
  <1>4. rpc[r] \in {"get", "done"} /\ rpos[r] # 0 =>
           /\ readCTS[r] # 0
           /\ \E ts \in DOMAIN snaps' : /\ ts <= readCTS[r]
                                        /\ got[r][0] = snaps'[ts][KeyOf(r, 0)]
           /\ \A n \in Reads : n # 0 /\ n < rpos[r] =>
                 got[r][n] = snaps'[readCTS[r]][KeyOf(r, n)]
    BY <1>3 DEF ReaderInv
  <1> QED BY <1>1, <1>2, <1>3, <1>4 DEF ReaderInv

\* A copy taken from a table now is a sound copy.
LEMMA CopyFromTable ==
  ASSUME Inv1, ObjectInv, NEW t \in Tables, NEW k \in Keys
  PROVE  CopySound(tbl[t][k], k)
  <1> DEFINE o == tbl[t][k]
  <1> SUFFICES ASSUME NEW i \in o.used
               PROVE  \/ o.cts[i] \in DOMAIN snaps /\ o.val[i] = snaps[o.cts[i]][k]
                      \/ /\ o.cts[i] = wtx /\ o.val[i] = want[k]
                         /\ wpc \in CommitPCs \cup {"publish"}
                         /\ want[k] # Untouched
    BY DEF CopySound
  <1>1. o \in MVCCObjects
    BY DEF Inv1, TypeOK
  <1>2. o.cts[i] \in Nat /\ o.dts[i] \in Nat /\ o.cts[i] < o.dts[i]
    BY <1>1, ObjectArith DEF ObjectInv, Sound, WellFormed
  <1>3. o.cts[i] \in DOMAIN snaps => o.val[i] = snaps[o.cts[i]][k]
    <2>1. i \in Visible(o, o.cts[i])
      BY <1>2 DEF Visible
    <2> QED BY <2>1 DEF ObjectInv, Sound
  <1>4. CASE Applied(t, k)
    <2>1. \/ o.cts[i] = wtx /\ o.dts[i] = DTS_INF /\ o.val[i] = want[k]
          \/ o.cts[i] \in DOMAIN snaps
      BY <1>4 DEF ObjectInv, New
    <2> QED BY <1>3, <1>4, <2>1 DEF Applied
  <1>5. CASE ~Applied(t, k)
    BY <1>3, <1>5 DEF ObjectInv, Old
  <1> QED BY <1>4, <1>5

LEMMA InitReader == Init => ReaderInv
  BY DEF Init, ReaderInv

LEMMA NextReader ==
    Inv1 /\ WriterInv /\ ObjectInv /\ ReaderInv /\ [Next]_vars => ReaderInv'
  <1> SUFFICES ASSUME Inv1, WriterInv, ObjectInv, ReaderInv, [Next]_vars
               PROVE  ReaderInv'
    OBVIOUS
  <1> USE TxSizeAssumption
  <1>1. CASE SetLastCTS
    <2>1. /\ wpc = "publish" /\ lastCTS < wtx
          /\ UNCHANGED <<readCTS, rpc, rkeys, rpos, rcopy, rsnap, got>>
          /\ DOMAIN snaps' = DOMAIN snaps \cup {wtx}
          /\ \A ts \in DOMAIN snaps : ts # wtx => snaps'[ts] = snaps[ts]
          /\ \A k \in Keys : want[k] # Untouched => snaps'[wtx][k] = want[k]
      BY <1>1 DEF SetLastCTS, readerVars, Inv1, ClockInv
    <2>2. \A ts \in DOMAIN snaps : ts # wtx
      BY <2>1 DEF Inv1, TypeOK, ClockInv
    <2> QED BY <2>1, <2>2, ReaderFrame DEF CopySound
  <1>2. CASE /\ WriterStep /\ ~SetLastCTS
    <2>1. UNCHANGED <<readCTS, rpc, rkeys, rpos, rcopy, rsnap, got, snaps>>
      BY <1>2 DEF WriterStep, CommitStep, TransactionBegin, Insert, DeleteByKey,
         TransactionAbort, TransactionPreCommit, CommitInsert, CommitUpdate,
         EndRecalc, EnterSpin, StartRecalc, ScanSlot, CommitOther,
         EndCommitOther, ctxVars, readerVars, histVars
    <2>2. CASE wpc \notin CommitPCs \cup {"publish"}
      BY <2>1, <2>2, ReaderFrame DEF CopySound
    <2>3. CASE wpc \in CommitPCs \cup {"publish"}
      <3>1. UNCHANGED <<wtx, want>> /\ wpc' \in CommitPCs \cup {"publish"}
        BY <1>2, <2>3 DEF WriterStep, CommitStep, TransactionBegin, Insert,
           DeleteByKey, TransactionAbort, TransactionPreCommit, CommitInsert,
           CommitUpdate, EndRecalc, EnterSpin, StartRecalc, ScanSlot,
           CommitOther, EndCommitOther, histVars, CommitPCs
      <3> QED BY <2>1, <3>1, ReaderFrame DEF CopySound
    <2> QED BY <2>2, <2>3
  <1>3. ASSUME NEW r \in Readers, ReaderStep(r)
        PROVE  ReaderInv'
    <2>1. UNCHANGED <<lastCTS, tblVars, writerVars, histVars>>
      <3>1. ASSUME NEW ks, StartRead(r, ks) PROVE UNCHANGED <<lastCTS, tblVars, writerVars, histVars>>
        BY <3>1 DEF StartRead
      <3>2. CASE GetByKey(r)
        BY <3>2 DEF GetByKey, ctxVars
      <3>3. CASE LoadLastCTS(r) \/ StoreReadCTS(r)
        BY <3>3 DEF LoadLastCTS, StoreReadCTS, ctxVars
      <3>4. CASE RestartRead(r) \/ FinishRead(r)
        BY <3>4 DEF RestartRead, FinishRead
      <3> QED BY <1>3, <3>1, <3>2, <3>3, <3>4 DEF ReaderStep
    <2>2. \A q \in Readers : q # r =>
             /\ readCTS'[q] = readCTS[q] /\ rpc'[q] = rpc[q]
             /\ rkeys'[q] = rkeys[q] /\ rpos'[q] = rpos[q]
             /\ rcopy'[q] = rcopy[q] /\ rsnap'[q] = rsnap[q]
             /\ got'[q] = got[q]
      <3> DEFINE Same(q) == /\ readCTS'[q] = readCTS[q] /\ rpc'[q] = rpc[q]
                            /\ rkeys'[q] = rkeys[q] /\ rpos'[q] = rpos[q]
                            /\ rcopy'[q] = rcopy[q] /\ rsnap'[q] = rsnap[q]
                            /\ got'[q] = got[q]
      <3> SUFFICES ASSUME NEW q \in Readers, q # r PROVE Same(q)
        OBVIOUS
      <3>t. /\ DOMAIN readCTS = Readers /\ DOMAIN rpc = Readers /\ DOMAIN rkeys = Readers
            /\ DOMAIN rpos = Readers /\ DOMAIN rcopy = Readers /\ DOMAIN rsnap = Readers
            /\ DOMAIN got = Readers
        BY DEF Inv1, TypeOK
      <3>1. ASSUME NEW ks, StartRead(r, ks) PROVE Same(q)
        BY ONLY <3>t, <3>1, q # r, q \in Readers DEF StartRead
      <3>2. CASE GetByKey(r)
        <4> DEFINE o == tbl[rpos[r] % 2][KeyOf(r, rpos[r])]
        <4>1. /\ UNCHANGED <<readCTS, rkeys, rsnap>>
              /\ \/ rpc' = [rpc EXCEPT ![r] = "restart"] /\ UNCHANGED <<rcopy, rpos, got>>
                 \/ rpc' = [rpc EXCEPT ![r] = "load"] /\ UNCHANGED <<rpos, got>> /\ rcopy' = [rcopy EXCEPT ![r] = o]
                 \/ ReadVersion(r, o, readCTS[r]) /\ UNCHANGED rcopy
          BY ONLY <3>2 DEF GetByKey, ctxVars
        <4> HIDE DEF o
        <4>2. ASSUME ReadVersion(r, o, readCTS[r])
              PROVE  rpc'[q] = rpc[q] /\ rpos'[q] = rpos[q] /\ got'[q] = got[q]
          BY ONLY <3>t, <4>2, q # r, q \in Readers DEF ReadVersion
        <4> QED BY ONLY <3>t, <4>1, <4>2, q # r, q \in Readers
      <3>3. CASE LoadLastCTS(r)
        BY ONLY <3>t, <3>3, q # r, q \in Readers DEF LoadLastCTS, ctxVars
      <3>4. CASE StoreReadCTS(r)
        BY ONLY <3>t, <3>4, q # r, q \in Readers DEF StoreReadCTS, ReadVersion
      <3>5. CASE RestartRead(r)
        BY ONLY <3>t, <3>5, q # r, q \in Readers DEF RestartRead
      <3>6. CASE FinishRead(r)
        BY ONLY <3>t, <3>6, q # r, q \in Readers DEF FinishRead
      <3> QED BY <1>3, <3>1, <3>2, <3>3, <3>4, <3>5, <3>6 DEF ReaderStep
    <2> DEFINE RInv(q) ==
          /\ rpc[q] = "idle" => readCTS[q] = 0
          /\ rpc[q] \in {"load", "store"} =>
                /\ rpos[q] = 0
                /\ CopySound(rcopy[q], KeyOf(q, 0))
          /\ rpc[q] = "store" => rsnap[q] \in DOMAIN snaps
          /\ rpc[q] = "get" /\ rpos[q] = 0 => readCTS[q] = 0
          /\ readCTS[q] # 0 => readCTS[q] \in DOMAIN snaps
          /\ rpc[q] \in {"get", "done"} /\ rpos[q] # 0 =>
                /\ readCTS[q] # 0
                /\ \E ts \in DOMAIN snaps :
                      /\ ts <= readCTS[q]
                      /\ got[q][0] = snaps[ts][KeyOf(q, 0)]
                /\ \A n \in Reads : n # 0 /\ n < rpos[q] =>
                      got[q][n] = snaps[readCTS[q]][KeyOf(q, n)]
          /\ rpc[q] = "done" => rpos[q] = 2 * TxSize
    <2>3. \A q \in Readers : q # r => RInv(q)'
      <3> SUFFICES ASSUME NEW q \in Readers, q # r PROVE RInv(q)'
        OBVIOUS
      <3>1. RInv(q)
        BY DEF ReaderInv
      <3>2. \A n : KeyOf(q, n)' = KeyOf(q, n)
        BY <2>2 DEF KeyOf
      <3>3. CopySound(rcopy[q], KeyOf(q, 0)) => CopySound(rcopy[q], KeyOf(q, 0))'
        BY <2>1, <2>2, <3>2 DEF CopySound, writerVars, histVars
      <3> QED BY <2>1, <2>2, <3>1, <3>2, <3>3 DEF histVars
    <2>4. RInv(r)
      BY DEF ReaderInv
    <2>5. RInv(r)'
      <3>1. ASSUME NEW ks \in [1 .. TxSize -> Keys], StartRead(r, ks)
            PROVE  RInv(r)'
        BY <2>4, <3>1 DEF StartRead, Inv1, TypeOK
      <3>2. CASE LoadLastCTS(r)
        <4>1. /\ rpc[r] = "load" /\ rpc'[r] = "store" /\ rsnap'[r] = lastCTS
              /\ UNCHANGED <<ctxVars, writerVars, rkeys, rpos, rcopy, histVars>>
          BY <3>2 DEF LoadLastCTS, Inv1, TypeOK
        <4>2. CopySound(rcopy[r], KeyOf(r, 0))'
          BY <2>4, <4>1 DEF CopySound, KeyOf, writerVars, histVars
        <4>3. lastCTS \in DOMAIN snaps
          BY DEF Inv1, ClockInv
        <4> QED BY <2>4, <4>1, <4>2, <4>3 DEF ctxVars, histVars
      <3>3. CASE RestartRead(r)
        BY <3>3 DEF RestartRead, Inv1, TypeOK
      <3>4. CASE FinishRead(r)
        BY <3>4 DEF FinishRead, Inv1, TypeOK
      <3>5. CASE StoreReadCTS(r)
        <4>1. /\ rpc[r] = "store" /\ rpos[r] = 0
              /\ readCTS'[r] = rsnap[r] /\ rsnap[r] \in DOMAIN snaps
              /\ ReadVersion(r, rcopy[r], rsnap[r])
              /\ UNCHANGED <<rkeys, histVars>>
              /\ rcopy[r] \in MVCCObjects
              /\ rsnap[r] # 0 /\ rsnap[r] \in Nat
          BY <2>4, <3>5 DEF StoreReadCTS, Inv1, TypeOK
        <4>2. CASE rpc'[r] = "restart"
          BY <4>1, <4>2 DEF histVars
        <4>3. CASE rpc'[r] # "restart"
          <5>1. PICK i \in GetCurrent(rcopy[r], rsnap[r]) :
                   /\ got' = [got EXCEPT ![r][rpos[r]] = rcopy[r].val[i]]
                   /\ rpos' = [rpos EXCEPT ![r] = rpos[r] + 1]
                   /\ rpc' = [rpc EXCEPT ![r] =
                         IF rpos[r] + 1 \in Reads THEN "get" ELSE "done"]
            BY <4>1, <4>3 DEF ReadVersion, Inv1, TypeOK
          <5>2. /\ got'[r][0] = rcopy[r].val[i]
                /\ rpos'[r] = 1 /\ rpc'[r] = "get"
            BY <4>1, <5>1 DEF Reads, Inv1, TypeOK
          <5>3. i \in rcopy[r].used /\ rcopy[r].cts[i] <= rsnap[r]
            BY <5>1 DEF GetCurrent, Visible
          <5>4. \/ /\ rcopy[r].cts[i] \in DOMAIN snaps
                   /\ rcopy[r].val[i] = snaps[rcopy[r].cts[i]][KeyOf(r, 0)]
                \/ /\ rcopy[r].cts[i] = wtx
                   /\ wpc \in CommitPCs \cup {"publish"}
            BY <2>4, <4>1, <5>3 DEF CopySound
          <5>5. rcopy[r].cts[i] \in DOMAIN snaps
            <6>1. wpc \in CommitPCs \cup {"publish"} => lastCTS < wtx
              BY DEF Inv1, ClockInv, CommitPCs
            <6>2. rsnap[r] <= lastCTS /\ lastCTS \in Nat /\ wtx \in Nat
              BY <4>1, ObjectArith
            <6> QED BY <4>1, <5>3, <5>4, <6>1, <6>2
          <5>6. /\ rcopy[r].val[i] = snaps[rcopy[r].cts[i]][KeyOf(r, 0)]
            <6>1. rcopy[r].cts[i] # wtx \/ ~(wpc \in CommitPCs \cup {"publish"})
              BY <5>5, ObjectArith, <4>1 DEF Inv1, ClockInv, CommitPCs
            <6> QED BY <5>4, <6>1
          <5>7. KeyOf(r, 0)' = KeyOf(r, 0)
            BY <4>1 DEF KeyOf
          <5>8. \E ts \in DOMAIN snaps' :
                   /\ ts <= readCTS'[r]
                   /\ got'[r][0] = snaps'[ts][KeyOf(r, 0)']
            BY <4>1, <5>2, <5>3, <5>5, <5>6, <5>7 DEF histVars
          <5>9. \A n \in Reads : ~(n # 0 /\ n < rpos'[r])
            BY <5>2, SMTT(60) DEF Reads
          <5> QED BY <4>1, <5>2, <5>8, <5>9 DEF histVars
        <4> QED BY <4>2, <4>3
      <3>6. CASE GetByKey(r)
        <4> DEFINE t == rpos[r] % 2
                   k == KeyOf(r, rpos[r])
        <4>1. /\ rpc[r] = "get" /\ rpos[r] \in Reads
              /\ t \in Tables /\ k \in Keys /\ tbl[t][k] \in MVCCObjects
              /\ UNCHANGED <<readCTS, rkeys, writerVars, histVars>>
          <5>1. rpc[r] = "get" /\ UNCHANGED <<readCTS, rkeys, writerVars, histVars>>
            BY <3>6 DEF GetByKey, ctxVars
          <5>2. rpos[r] \in Reads /\ rkeys[r] \in [1 .. TxSize -> Keys]
            BY <5>1 DEF Inv1, PosInv
          <5>3. t \in Tables /\ k \in Keys
            BY <5>2, KeyOfType
          <5> QED BY <5>1, <5>2, <5>3, SMTT(60) DEF Inv1, TypeOK
        <4>2. CASE /\ rpc' = [rpc EXCEPT ![r] = "restart"]
                   /\ UNCHANGED <<rcopy, rpos, got>>
          BY <2>4, <4>1, <4>2 DEF Inv1, TypeOK, histVars
        <4>3. CASE /\ readCTS[r] = 0
                   /\ rcopy' = [rcopy EXCEPT ![r] = tbl[t][k]]
                   /\ rpc' = [rpc EXCEPT ![r] = "load"]
                   /\ UNCHANGED <<rpos, got>>
          <5>1. rpos[r] = 0
            BY <2>4, <4>1, <4>3
          <5>2. rpc'[r] = "load" /\ rcopy'[r] = tbl[t][k] /\ rpos'[r] = 0
            BY <4>3, <5>1 DEF Inv1, TypeOK
          <5>3. CopySound(tbl[t][k], k)
            BY <4>1, CopyFromTable
          <5>4. k = KeyOf(r, 0) /\ KeyOf(r, 0)' = KeyOf(r, 0)
            BY <4>1, <5>1 DEF KeyOf
          <5> HIDE DEF t, k
          <5>5. CopySound(rcopy[r], KeyOf(r, 0))'
            BY <4>1, <5>2, <5>3, <5>4 DEF CopySound, writerVars, histVars
          <5> QED BY <4>1, <4>3, <5>2, <5>5
        <4>4. CASE /\ readCTS[r] # 0
                   /\ ReadVersion(r, tbl[t][k], readCTS[r])
                   /\ UNCHANGED rcopy
          <5>1. rpos[r] # 0 /\ readCTS[r] \in DOMAIN snaps
            BY <2>4, <4>1, <4>4
          <5>2. CASE rpc'[r] = "restart"
            BY <4>1, <4>4, <5>1, <5>2 DEF histVars
          <5>3. CASE rpc'[r] # "restart"
            <6>1. PICK i \in GetCurrent(tbl[t][k], readCTS[r]) :
                     /\ got' = [got EXCEPT ![r][rpos[r]] = tbl[t][k].val[i]]
                     /\ rpos' = [rpos EXCEPT ![r] = rpos[r] + 1]
                     /\ rpc' = [rpc EXCEPT ![r] =
                           IF rpos[r] + 1 \in Reads THEN "get" ELSE "done"]
              BY <4>4, <5>3 DEF ReadVersion, Inv1, TypeOK
            <6>2. tbl[t][k].val[i] = snaps[readCTS[r]][k]
              BY <4>1, <5>1, <6>1 DEF GetCurrent, ObjectInv, Sound
            <6>3. /\ got'[r][rpos[r]] = snaps[readCTS[r]][k]
                  /\ \A n \in Reads : n # rpos[r] => got'[r][n] = got[r][n]
                  /\ rpos'[r] = rpos[r] + 1
                  /\ rpc'[r] = IF rpos[r] + 1 \in Reads THEN "get" ELSE "done"
              BY <4>1, <6>1, <6>2 DEF Inv1, TypeOK
            <6>4. \A n : KeyOf(r, n)' = KeyOf(r, n)
              BY <4>1 DEF KeyOf
            <6>5. rpos[r] \in Nat /\ 0 \in Reads /\ Reads \subseteq Nat
              BY <4>1 DEF Reads
            <6>6. got'[r][0] = got[r][0]
              BY <5>1, <6>3, <6>5
            <6>7. \A n \in Reads : n # 0 /\ n < rpos'[r] =>
                     got'[r][n] = snaps[readCTS[r]][KeyOf(r, n)]
              <7> SUFFICES ASSUME NEW n \in Reads, n # 0, n < rpos[r] + 1
                           PROVE  got'[r][n] = snaps[readCTS[r]][KeyOf(r, n)]
                BY <6>3
              <7>1. CASE n = rpos[r]
                BY <6>3, <7>1
              <7>2. CASE n < rpos[r]
                BY <2>4, <4>1, <5>1, <6>3, <6>5, <7>2
              <7> QED BY <6>5, <7>1, <7>2
            <6>8. rpc'[r] = "done" => rpos'[r] = 2 * TxSize
              BY <4>1, <6>3 DEF Reads
            <6>9. \E ts \in DOMAIN snaps :
                     ts <= readCTS[r] /\ got'[r][0] = snaps[ts][KeyOf(r, 0)]
              BY <2>4, <4>1, <5>1, <6>6
            <6>10. rpc'[r] \in {"get", "done"} /\ rpos'[r] # 0
              BY <6>3, <6>5
            <6> HIDE DEF t, k
            <6> QED
              BY <4>1, <4>4, <5>1, <6>4, <6>7, <6>8, <6>9, <6>10, SMTT(60) DEF histVars
          <5> QED BY <5>2, <5>3
        <4> QED BY <3>6, <4>2, <4>3, <4>4 DEF GetByKey
      <3> QED
        BY <1>3, <3>1, <3>2, <3>3, <3>4, <3>5, <3>6 DEF ReaderStep
    <2> HIDE DEF RInv
    <2>6. \A q \in Readers : RInv(q)'
      BY <2>3, <2>5
    <2> QED BY <2>6, SMTT(60) DEF RInv, ReaderInv
  <1>4. CASE UNCHANGED vars
    BY <1>4, ReaderFrame DEF vars, ctxVars, writerVars, readerVars, histVars,
       CopySound
  <1> QED BY <1>1, <1>2, <1>3, <1>4 DEF Next

-----------------------------------------------------------------------------
(***************************************************************************)
(* The theorems.                                                           *)
(***************************************************************************)

\* The strengthened invariant holds in every reachable state: the commit
\* protocol keeps write sets, version arrays, clocks and readers in step.
THEOREM Invariance == Spec => []IInv
  <1>1. Init => IInv
    BY InitInv1, InitWriter, InitObject, InitReader DEF IInv
  <1>2. IInv /\ [Next]_vars => IInv'
    BY NextInv1, NextWriter, NextObject, NextReader DEF IInv
  <1> QED BY <1>1, <1>2, PTL DEF Spec

\* newEntry, cleanUpVersions and the insertion of a new key never leave an
\* object with overlapping versions or without an open one.
THEOREM VersionsStayWellFormed == Spec => []VersionsWellFormed
  <1>1. IInv => VersionsWellFormed
    BY DEF IInv, ObjectInv, Sound, VersionsWellFormed
  <1> QED BY <1>1, Invariance, PTL

\* The version that getCurrent can find for a committed snapshot holds the
\* value of that snapshot, also while a commit or a garbage collection runs.
THEOREM VisibleStayRight == Spec => []VisibleVersionsRight
  <1>1. IInv => VisibleVersionsRight
    BY DEF IInv, ObjectInv, Sound, VisibleVersionsRight
  <1> QED BY <1>1, Invariance, PTL

\* The value of the last committed transaction is there, and it is the only
\* one visible at its timestamp.
LEMMA LastVisible ==
  ASSUME IInv, NEW t \in Tables, NEW k \in Keys
  PROVE  /\ snaps[lastCTS][k] = NoValue => Visible(tbl[t][k], lastCTS) = {}
         /\ snaps[lastCTS][k] # NoValue =>
               \E i : /\ Visible(tbl[t][k], lastCTS) = {i}
                      /\ tbl[t][k].val[i] = snaps[lastCTS][k]
  <1> DEFINE o == tbl[t][k]
  <1>1. o \in MVCCObjects
    BY DEF IInv, Inv1, TypeOK
  <1>2. /\ lastCTS \in Nat /\ wtx \in Nat /\ wtx < DTS_INF /\ DTS_INF \in Nat
        /\ DOMAIN snaps \subseteq Nat
        /\ \A ts \in DOMAIN snaps : ts <= lastCTS
        /\ o.used \subseteq Slots
        /\ \A i \in Slots : o.cts[i] \in Nat /\ o.dts[i] \in Nat
    BY <1>1, ObjectArith DEF IInv
  <1>3. /\ Sound(o, k)
        /\ Applied(t, k) => New(o, k)
        /\ ~Applied(t, k) => Old(o, k)
        /\ lastCTS \in DOMAIN snaps
        /\ lastCTS <= wtx
        /\ wpc # "idle" => lastCTS < wtx
    BY DEF IInv, ObjectInv, Inv1, ClockInv
  <1> HIDE DEF o
  <1>4. \A i \in Visible(o, lastCTS) : /\ o.val[i] = snaps[lastCTS][k]
                                       /\ o.val[i] # NoValue
    BY <1>3, ValuesAssumption DEF Sound, Visible, NoValue
  <1>5. \A i, j \in Visible(o, lastCTS) : i = j
    BY <1>2, <1>3 DEF Sound, WellFormed, Visible
  <1>6. snaps[lastCTS][k] # NoValue => Visible(o, lastCTS) # {}
    <2> SUFFICES ASSUME snaps[lastCTS][k] # NoValue
                 PROVE  \E i \in o.used : o.cts[i] <= lastCTS /\ lastCTS < o.dts[i]
      BY DEF Visible
    <2>1. CASE Applied(t, k)
      <3>1. lastCTS < wtx
        BY <1>3, <2>1 DEF Applied, CommitPCs
      <3> QED BY <1>3, <2>1, <3>1 DEF New
    <2>2. CASE ~Applied(t, k)
      <3>1. PICK i \in o.used : o.dts[i] = DTS_INF
        BY <1>3, <2>2 DEF Old, Sound, WellFormed
      <3>2. o.cts[i] <= lastCTS
        BY <1>2, <1>3, <2>2 DEF Old
      <3>3. lastCTS < o.dts[i]
        BY <1>2, <1>3, <3>1
      <3> QED BY <3>2, <3>3
    <2> QED BY <2>1, <2>2
  <1>7. snaps[lastCTS][k] = NoValue => Visible(o, lastCTS) = {}
    BY <1>4
  <1>8. snaps[lastCTS][k] # NoValue =>
           \E i : Visible(o, lastCTS) = {i} /\ o.val[i] = snaps[lastCTS][k]
    <2> SUFFICES ASSUME snaps[lastCTS][k] # NoValue
                 PROVE  \E i : /\ Visible(o, lastCTS) = {i}
                               /\ o.val[i] = snaps[lastCTS][k]
      OBVIOUS
    <2>1. PICK i : i \in Visible(o, lastCTS)
      BY <1>6
    <2>2. Visible(o, lastCTS) = {i}
      BY <1>5, <2>1
    <2> QED BY <1>4, <2>1, <2>2
  <1> QED BY <1>7, <1>8 DEF o

\* Neither a half-done commit nor the garbage collection takes a value of
\* the last committed state away: a query that starts now can read it all.
THEOREM LastSnapshotStaysComplete == Spec => []LastSnapshotComplete
  <1>1. IInv => LastSnapshotComplete
    <2> SUFFICES ASSUME IInv, NEW t \in Tables, NEW k \in Keys
                 PROVE  {tbl[t][k].val[i] : i \in Visible(tbl[t][k], lastCTS)}
                           = {snaps[lastCTS][k]} \ {NoValue}
      BY DEF LastSnapshotComplete
    <2>1. CASE snaps[lastCTS][k] = NoValue
      BY <2>1, LastVisible
    <2>2. CASE snaps[lastCTS][k] # NoValue
      <3>1. PICK i : /\ Visible(tbl[t][k], lastCTS) = {i}
                     /\ tbl[t][k].val[i] = snaps[lastCTS][k]
        BY <2>2, LastVisible
      <3> QED BY <2>2, <3>1
    <2> QED BY <2>1, <2>2
  <1> QED BY <1>1, Invariance, PTL

\* A finished query holds the values of its snapshot in all reads but its
\* first, which getByKey copies before it chooses the snapshot.
THEOREM FirstReadOnlyStale == Spec => []OnlyFirstReadStale
  <1>1. IInv => OnlyFirstReadStale
    <2> SUFFICES ASSUME IInv, NEW r \in Readers, rpc[r] = "done"
                 PROVE  /\ readCTS[r] \in DOMAIN snaps
                        /\ \A n \in Reads \ {0} :
                              got[r][n] = snaps[readCTS[r]][KeyOf(r, n)]
                        /\ \E ts \in DOMAIN snaps :
                              /\ ts <= readCTS[r]
                              /\ got[r][0] = snaps[ts][KeyOf(r, 0)]
      BY DEF OnlyFirstReadStale
    <2>1. rpos[r] = 2 * TxSize /\ rpos[r] # 0
      BY TxSizeAssumption DEF IInv, ReaderInv
    <2>2. \A n \in Reads : n < rpos[r]
      BY <2>1, TxSizeAssumption DEF Reads
    <2> QED BY <2>1, <2>2 DEF IInv, ReaderInv
  <1> QED BY <1>1, Invariance, PTL

\* setLastCTS and the compare-and-exchange of recalcOldestVisible only move
\* the group's timestamps forward, the collector's never past the commits'.
THEOREM TimestampsOnlyAdvance == Spec => TimestampsAdvance
  <1> DEFINE Advance ==
               lastCTS' >= lastCTS /\ oldest' >= oldest /\ oldest' <= lastCTS'
  <1>1. IInv /\ IInv' /\ [Next]_vars => [Advance]_vars
    <2> SUFFICES ASSUME IInv, IInv', Next
                 PROVE  Advance
      OBVIOUS
    <2>1. lastCTS \in Nat /\ oldest \in Nat /\ wtx \in Nat /\ newMin \in Nat
      BY MaxTxIDAssumption DEF IInv, Inv1, TypeOK, TS, DTS_INF
    <2>c. ClockInv /\ ClockInv'
      BY DEF IInv, Inv1
    <2>n. Next
      OBVIOUS
    <2>2. oldest' <= lastCTS' /\ lastCTS <= wtx
      BY ONLY <2>c, SMTT(60) DEF ClockInv
    <2> DEFINE Moves == /\ lastCTS' = lastCTS \/ lastCTS' = wtx
                        /\ oldest' = oldest \/ \E min \in Nat : oldest' = IF oldest < min THEN min ELSE oldest
    <2>w1. ASSUME TransactionBegin PROVE Moves
      BY ONLY <2>1, <2>w1 DEF TransactionBegin, ctxVars
    <2>w2. ASSUME \E k \in Keys, v \in Values : Insert(k, v) PROVE Moves
      BY ONLY <2>1, <2>w2 DEF Insert, ctxVars
    <2>w3. ASSUME \E k \in Keys : DeleteByKey(k) PROVE Moves
      BY ONLY <2>1, <2>w3 DEF DeleteByKey, ctxVars
    <2>w4. ASSUME TransactionAbort PROVE Moves
      BY ONLY <2>1, <2>w4 DEF TransactionAbort, ctxVars
    <2>w5. ASSUME \E u \in Tables : TransactionPreCommit(u) PROVE Moves
      BY ONLY <2>1, <2>w5 DEF TransactionPreCommit, ctxVars
    <2>w6. ASSUME \E k \in Keys, v \in Values : CommitInsert(k, v) PROVE Moves
      BY ONLY <2>1, <2>w6 DEF CommitInsert, ctxVars
    <2>w7. ASSUME \E k \in Keys, v \in Values : CommitUpdate(k, v) PROVE Moves
      BY ONLY <2>1, <2>w7 DEF CommitUpdate, ctxVars
    <2>w8. ASSUME \E k \in Keys, v \in Values : EndRecalc(k, v) PROVE Moves
      BY ONLY <2>1, <2>w8 DEF EndRecalc, ctxVars
    <2>w9. ASSUME \E k \in Keys : EnterSpin(k) PROVE Moves
      BY ONLY <2>1, <2>w9 DEF EnterSpin, ctxVars
    <2>w10. ASSUME StartRecalc PROVE Moves
      BY ONLY <2>1, <2>w10 DEF StartRecalc, ctxVars
    <2>w11. ASSUME \E q \in Readers : ScanSlot(q) PROVE Moves
      BY ONLY <2>1, <2>w11 DEF ScanSlot, ctxVars
    <2>w12. ASSUME CommitOther PROVE Moves
      BY ONLY <2>1, <2>w12 DEF CommitOther, ctxVars
    <2>w13. ASSUME EndCommitOther PROVE Moves
      BY ONLY <2>1, <2>w13 DEF EndCommitOther, ctxVars
    <2>w14. ASSUME SetLastCTS PROVE Moves
      BY ONLY <2>1, <2>w14 DEF SetLastCTS, ctxVars
    <2>r. ASSUME NEW r \in Readers, ReaderStep(r) PROVE Moves
      BY ONLY <2>r DEF ReaderStep, StartRead, GetByKey, LoadLastCTS, StoreReadCTS, RestartRead, FinishRead, ctxVars
    <2>3. Moves
      <3> HIDE DEF Moves
      <3> QED BY <2>n, <2>r, <2>w1, <2>w2, <2>w3, <2>w4, <2>w5, <2>w6, <2>w7, <2>w8, <2>w9, <2>w10, <2>w11, <2>w12, <2>w13, <2>w14
              DEF Next, WriterStep, CommitStep
    <2> QED BY ONLY <2>1, <2>2, <2>3
  <1> QED BY <1>1, Invariance, PTL DEF Spec, TimestampsAdvance

-----------------------------------------------------------------------------
(***************************************************************************)
(* The refinement.                                                         *)
(***************************************************************************)

StoreIsLastCommit ==
    [t \in Tables |-> [k \in Keys |-> ValueAt(t, k, lastCTS)]]
        = [t \in Tables |-> [k \in Keys |-> snaps[lastCTS][k]]]

\* What a reader sees at lastCTS is the state of the last commit.
LEMMA MappedStore == IInv => StoreIsLastCommit
  <1> SUFFICES ASSUME IInv, NEW t \in Tables, NEW k \in Keys
               PROVE  ValueAt(t, k, lastCTS) = snaps[lastCTS][k]
    BY DEF StoreIsLastCommit
  <1>1. CASE snaps[lastCTS][k] = NoValue
    <2>1. GetCurrent(tbl[t][k], lastCTS) = {}
      BY <1>1, LastVisible DEF GetCurrent
    <2> QED BY <1>1, <2>1 DEF ValueAt
  <1>2. CASE snaps[lastCTS][k] # NoValue
    <2>1. PICK i : /\ Visible(tbl[t][k], lastCTS) = {i}
                   /\ tbl[t][k].val[i] = snaps[lastCTS][k]
      BY <1>2, LastVisible
    <2>2. i \in Nat
      <3>1. i \in tbl[t][k].used
        BY <2>1 DEF Visible
      <3>2. tbl[t][k] \in MVCCObjects
        BY DEF IInv, Inv1, TypeOK
      <3> QED BY <3>1, <3>2, SlotsFact DEF MVCCObjects
    <2>3. GetCurrent(tbl[t][k], lastCTS) = {i}
      BY <2>1, <2>2 DEF GetCurrent
    <2> QED BY <2>1, <2>3 DEF ValueAt
  <1> QED BY <1>1, <1>2

\* The initial tables are those of an initial store.
LEMMA InitRefines == Init => store!Init
  <1> SUFFICES ASSUME Init
               PROVE  store!Init
    OBVIOUS
  <1>1. IInv
    BY InitInv1, InitWriter, InitObject, InitReader DEF IInv
  <1>2. snaps[lastCTS] \in [Keys -> Values \cup {NoValue}]
    BY <1>1 DEF IInv, Inv1, TypeOK, ClockInv
  <1>3. snaps[lastCTS] = [k \in Keys |-> snaps[lastCTS][k]]
    BY <1>2
  <1>4. [t \in Tables |-> [k \in Keys |-> ValueAt(t, k, lastCTS)]]
           = [t \in Tables |-> snaps[lastCTS]]
    BY <1>1, <1>3, MappedStore DEF StoreIsLastCommit
  <1> QED BY <1>2, <1>4 DEF store!Init, Init

\* Every step of the tables is a step of the store, or changes nothing in it.
LEMMA NextRefines ==
  IInv /\ IInv' /\ [Next]_vars =>
     [store!Next]_<<[t \in Tables |-> [k \in Keys |-> ValueAt(t, k, lastCTS)]],
                    (wpc # "idle"), want>>
  <1> DEFINE db == [t \in Tables |-> [k \in Keys |-> ValueAt(t, k, lastCTS)]]
             cur == [t \in Tables |-> [k \in Keys |-> snaps[lastCTS][k]]]
  <1> SUFFICES ASSUME IInv, IInv', [Next]_vars
               PROVE  store!Next \/ UNCHANGED <<db, (wpc # "idle"), want>>
    OBVIOUS
  <1>1. db = cur
    BY MappedStore DEF StoreIsLastCommit
  <1>2. db' = cur'
    <2>1. StoreIsLastCommit'
      BY MappedStore, PTL
    <2> QED BY <2>1 DEF StoreIsLastCommit
  <1>3. snaps' = snaps /\ lastCTS' = lastCTS => db' = db
    BY <1>1, <1>2
  <1>4. CASE TransactionBegin
    BY <1>3, <1>4 DEF TransactionBegin, store!Next, store!Begin, histVars
  <1>5. CASE \E k \in Keys, v \in Values : Insert(k, v)
    BY <1>3, <1>5 DEF Insert, store!Next, store!Insert, ctxVars, writerVars
  <1>6. CASE TransactionAbort
    BY <1>3, <1>6 DEF TransactionAbort, store!Next, store!Abort, ctxVars
  <1>7. CASE SetLastCTS
    <2>1. lastCTS \in DOMAIN snaps
      BY DEF IInv, Inv1, ClockInv
    <2>2. cur' = [t \in Tables |-> [k \in Keys |->
                    IF want[k] = Untouched THEN cur[t][k] ELSE want[k]]]
      BY <1>7 DEF SetLastCTS
    <2>3. db' = [t \in Tables |-> [k \in Keys |->
                   IF want[k] = Untouched THEN db[t][k] ELSE want[k]]]
      BY <1>1, <1>2, <2>2
    <2> HIDE DEF db
    <2> QED BY <1>7, <2>3 DEF SetLastCTS, store!Next, store!Commit, db
  <1>8. CASE \/ \E k \in Keys : DeleteByKey(k)
             \/ \E t \in Tables : TransactionPreCommit(t)
    BY <1>3, <1>8 DEF DeleteByKey, TransactionPreCommit, ctxVars, writerVars,
       histVars
  <1>9. CASE CommitStep /\ ~SetLastCTS
    BY <1>3, <1>9 DEF CommitStep, CommitInsert, CommitUpdate, EnterSpin,
       StartRecalc, ScanSlot, EndRecalc, CommitOther, EndCommitOther,
       Committing, ctxVars, histVars
  <1>10. CASE \E r \in Readers : ReaderStep(r)
    BY <1>3, <1>10 DEF ReaderStep, StartRead, GetByKey, LoadLastCTS,
       StoreReadCTS, RestartRead, FinishRead, ctxVars, writerVars, histVars
  <1>11. CASE UNCHANGED vars
    BY <1>3, <1>11 DEF vars, ctxVars, writerVars, histVars
  <1> QED
    BY <1>4, <1>5, <1>6, <1>7, <1>8, <1>9, <1>10, <1>11 DEF Next, WriterStep,
       CommitStep

\* The multi-version tables implement the transactional store: the commit of
\* a transaction, spread over many keys, two tables and any number of waits
\* for version slots, takes effect for readers at one point, setLastCTS.
THEOREM Refinement == Spec => ImplementsTxStore
  BY InitRefines, NextRefines, Invariance, PTL
  DEF Spec, ImplementsTxStore, store!Spec

-----------------------------------------------------------------------------
(***************************************************************************)
(* What a commit leaves.                                                   *)
(***************************************************************************)

\* A key that is written was meant to be, and is at most what was meant last.
IntentInv ==
    \A k \in Keys :
        /\ intent[k] = Untouched => want[k] = Untouched
        /\ intent[k] \in Values => want[k] \in Values /\ want[k] <= intent[k]

LEMMA SpecialValues == Values \subseteq Nat /\ Untouched \notin Values /\ NoValue \notin Values /\ NoValue # Untouched
  BY ValuesAssumption DEF Untouched, NoValue

LEMMA InitIntent == Init => IntentInv
  BY SpecialValues DEF Init, IntentInv

LEMMA NextIntent == Inv1 /\ IntentInv /\ [Next]_vars => IntentInv'
  <1> SUFFICES ASSUME Inv1, IntentInv, [Next]_vars PROVE IntentInv'
    OBVIOUS
  <1>0. /\ want \in [Keys -> Values \cup {Untouched}]
        /\ intent \in [Keys -> Values \cup {NoValue, Untouched}]
    BY DEF Inv1, TypeOK
  <1>1. UNCHANGED <<want, intent>> => IntentInv'
    BY DEF IntentInv
  <1>2. ASSUME NEW k \in Keys, NEW v \in Values, Insert(k, v) PROVE IntentInv'
    <2>1. /\ want' = [want EXCEPT ![k] = IF want[k] = Untouched \/ v < want[k] THEN v ELSE want[k]]
          /\ intent' = [intent EXCEPT ![k] = v]
      BY <1>2 DEF Insert
    <2>2. \A l \in Keys \ {k} : want'[l] = want[l] /\ intent'[l] = intent[l]
      BY <1>0, <2>1
    <2>3. intent'[k] = v /\ want'[k] = IF want[k] = Untouched \/ v < want[k] THEN v ELSE want[k]
      BY <1>0, <2>1
    <2>4. want'[k] \in Values /\ want'[k] <= v
      <3>1. CASE want[k] = Untouched
        BY <2>3, <3>1, SpecialValues
      <3>2. CASE want[k] \in Values
        <4>1. want[k] \in Nat /\ v \in Nat /\ want[k] # Untouched
          BY <3>2, SpecialValues
        <4> QED BY <2>3, <3>2, <4>1
      <3> QED BY <1>0, <3>1, <3>2
    <2>5. intent'[k] # Untouched /\ intent'[k] \in Values
      BY <2>3, SpecialValues
    <2> QED BY <2>2, <2>3, <2>4, <2>5 DEF IntentInv
  <1>3. ASSUME NEW k \in Keys, DeleteByKey(k) PROVE IntentInv'
    <2>1. want' = want /\ intent' = [intent EXCEPT ![k] = NoValue]
      BY <1>3 DEF DeleteByKey
    <2>2. intent'[k] = NoValue /\ \A l \in Keys \ {k} : intent'[l] = intent[l]
      BY <1>0, <2>1
    <2> QED BY <2>1, <2>2, SpecialValues DEF IntentInv
  <1>4. CASE TransactionAbort \/ SetLastCTS
    <2>1. \A k \in Keys : want'[k] = Untouched /\ intent'[k] = Untouched
      BY <1>4 DEF TransactionAbort, SetLastCTS
    <2> QED BY <2>1, SpecialValues DEF IntentInv
  <1>5. CASE TransactionBegin \/ \E t \in Tables : TransactionPreCommit(t)
    BY <1>1, <1>5 DEF TransactionBegin, TransactionPreCommit, histVars
  <1>6. CASE CommitStep /\ ~SetLastCTS
    BY <1>1, <1>6, SMTT(60) DEF CommitStep, CommitInsert, CommitUpdate, EnterSpin,
       StartRecalc, ScanSlot, EndRecalc, CommitOther, EndCommitOther,
       Committing, histVars
  <1>7. CASE \E r \in Readers : ReaderStep(r)
    BY <1>1, <1>7 DEF ReaderStep, StartRead, GetByKey, LoadLastCTS,
       StoreReadCTS, RestartRead, FinishRead, histVars
  <1>8. CASE UNCHANGED vars
    BY <1>1, <1>8 DEF vars, histVars
  <1> QED
    BY <1>2, <1>3, <1>4, <1>5, <1>6, <1>7, <1>8 DEF Next, WriterStep, CommitStep

\* A commit leaves the same state in both tables (setLastCTS after both have
\* written their keys): the old value of a key that was not inserted, and of
\* the others the smallest that was, which is never above the last one.
THEOREM CommitsOnlyInserted == Spec => CommitsInsertedValue
  <1> DEFINE Leaves ==
        lastCTS' # lastCTS => \A k \in Keys, t \in Tables :
          LET v == ValueAt(t, k, lastCTS)'
          IN  /\ v = ValueAt(Other(t), k, lastCTS)'
              /\ intent[k] = Untouched => v = ValueAt(t, k, lastCTS)
              /\ intent[k] \in Values => v <= intent[k]
  <1>1. IInv /\ IInv' /\ IntentInv /\ [Next]_vars => [Leaves]_vars
    <2> SUFFICES ASSUME IInv, IInv', IntentInv, Next, lastCTS' # lastCTS,
                        NEW k \in Keys, NEW t \in Tables
                 PROVE  /\ ValueAt(t, k, lastCTS)' = ValueAt(Other(t), k, lastCTS)'
                        /\ intent[k] = Untouched => ValueAt(t, k, lastCTS)' = ValueAt(t, k, lastCTS)
                        /\ intent[k] \in Values => ValueAt(t, k, lastCTS)' <= intent[k]
      BY SMTT(60)
    <2>1. SetLastCTS
      BY DEF Next, WriterStep, CommitStep, ReaderStep,
         TransactionBegin, Insert, DeleteByKey, TransactionAbort,
         TransactionPreCommit, CommitInsert, CommitUpdate, EnterSpin,
         StartRecalc, ScanSlot, EndRecalc, CommitOther, EndCommitOther,
         StartRead, GetByKey, LoadLastCTS, StoreReadCTS,
         RestartRead, FinishRead, ctxVars
    <2>2. \A x \in Tables : ValueAt(x, k, lastCTS) = snaps[lastCTS][k]
      BY MappedStore DEF StoreIsLastCommit
    <2>3. \A x \in Tables : ValueAt(x, k, lastCTS)' = snaps'[lastCTS'][k]
      <3>1. StoreIsLastCommit'
        BY MappedStore, PTL
      <3> QED BY <3>1 DEF StoreIsLastCommit
    <2>4. Other(t) \in Tables
      BY DEF Other, Tables
    <2>5. snaps'[lastCTS'][k] = IF want[k] = Untouched THEN snaps[lastCTS][k] ELSE want[k]
      BY <2>1 DEF SetLastCTS
    <2>6. intent[k] \in Values => want[k] # Untouched /\ want[k] <= intent[k]
      BY SpecialValues DEF IntentInv
    <2> QED BY <2>2, <2>3, <2>4, <2>5, <2>6 DEF IntentInv
  <1>2. Spec => [](IInv /\ IntentInv)
    <2>1. IInv => Inv1
      BY DEF IInv
    <2> QED BY <2>1, Invariance, InitIntent, NextIntent, PTL DEF Spec
  <1> QED BY <1>1, <1>2, PTL DEF Spec, CommitsInsertedValue
=============================================================================
