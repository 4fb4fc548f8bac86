-------------------------- MODULE BOCCTable_proofs --------------------------
(***************************************************************************)
(* Theorems about BOCCTable, for any number of queries, keys and           *)
(* transactions: the saved write sets and the slots that keep them alive   *)
(* are in order, and a query that passed its validation has read the state *)
(* of one committed transaction.                                           *)
(***************************************************************************)
EXTENDS BOCCTable, FiniteSetTheorems, TLAPS

-----------------------------------------------------------------------------
(***************************************************************************)
(* The inductive invariant, in the order in which its parts are proved.    *)
(***************************************************************************)

\* The control states of the writer: it saves its write sets, it commits the
\* tables, and at the end of each it looks for the oldest transaction.
Saving == {"valTS", "saveLock", "save"}
Scanning == {"scan", "eraseLock", "erase"}
Committing == {"write", "endTS", "stamp"} \cup Scanning

\* Where a query is, by its control state.
QueryPlace(r) ==
    /\ rpc[r] # "idle" => rkeys[r] \in [1 .. TxSize -> Keys]
    /\ rpc[r] \in {"idle", "begin", "slot", "register"} => rpos[r] = 0
    /\ rpc[r] = "get" => rpos[r] < 2 * TxSize
    /\ rpc[r] \in {"draw", "lock", "validate", "restart", "done"} => rpos[r] = 2 * TxSize
    /\ rpc[r] \notin {"draw", "lock", "validate"} => rat[r] = 0
    /\ rpc[r] \notin {"draw", "lock", "validate", "restart"} => ~failed[r]
    /\ rtx[r] < nextTxID /\ rts[r] < nextTxID
    /\ began[r] \in 1 .. Committed

Validating(t) == {r \in Readers : rpc[r] = "validate" /\ rat[r] = t}

\* Every shared dQLock belongs to a query that validates.
LocksCounted == \A t \in Tables : active_readers[t] = Cardinality(Validating(t))

PlaceInv ==
    /\ TypeOK
    /\ \A r \in Readers : QueryPlace(r)
    /\ LocksCounted
    /\ wtx < nextTxID /\ wts < nextTxID
    /\ Len(snaps) >= 1
    /\ wpc \in Committing \cup {"remove"} => Len(snaps) >= 2

\* The slots: who has one, that nobody shares one, and what is in them.
Taken == {r \in Readers : rpc[r] \notin {"idle", "begin", "slot"}}
Writers == IF wpc = "idle" THEN {} ELSE {wslot}
Owned == Writers \cup {rslot[r] : r \in Taken}
Registered == Taken \ {r \in Readers : rpc[r] = "register"}

SlotsOwned ==
    /\ Owned \subseteq usedSlots
    /\ \A r \in Taken : rslot[r] \notin Writers
    /\ \A r, z \in Taken : rslot[r] = rslot[z] => r = z
    /\ Cardinality(usedSlots \ Owned) = aborted

SlotsShow ==
    /\ wpc # "idle" => activeTxs[wslot] = wtx
    /\ \A r \in Registered : activeTxs[rslot[r]] = rtx[r]

SlotInv == SlotsOwned /\ SlotsShow

\* Table t has the write set of the running transaction, still open or with
\* its end timestamp.
Saved(t) == \/ wpc \in Committing \cup {"remove"}
            \/ t = 1 /\ at = 0 /\ wpc \in Saving
Open(t) == \/ t = 1 /\ at = 0 /\ wpc \in Saving
           \/ at = 1 /\ wpc \in Committing /\ (t = 0 \/ wpc \notin Scanning)
           \/ at = 0 /\ wpc \in Committing \ Scanning /\ t = 0

\* The write sets of table t against the clock and the running transaction.
TableSets(t) ==
    /\ \A n \in 1 .. Len(committedWSs[t]) :
          /\ committedWSs[t][n].valTS < nextTxID
          /\ ~Saved(t) \/ n > 1 =>
                committedWSs[t][n].endTS < IF wpc = "idle" THEN nextTxID ELSE wtx
    /\ Saved(t) => /\ Len(committedWSs[t]) >= 1
                   /\ wtx < committedWSs[t][1].valTS
    /\ Open(t) => committedWSs[t][1].endTS = DTS_INF
    /\ Saved(t) /\ ~Open(t) =>
          /\ committedWSs[t][1].valTS < committedWSs[t][1].endTS
          /\ committedWSs[t][1].endTS < nextTxID

\* The timestamps that the writer has drawn, and its scan of the slots.
WriterClock ==
    /\ wpc \in {"saveLock", "save"} => wtx < wts
    /\ wpc = "stamp" => committedWSs[at][1].valTS < wts
    /\ wpc \in Scanning => wslot \in scan \/ oldest <= wtx
    /\ wpc \in {"eraseLock", "erase"} => scan = {}
    /\ wpc \notin Scanning => oldest = DTS_INF

WriteSetInv ==
    /\ WriteSetsOrdered
    /\ \A t \in Tables : TableSets(t)
    /\ WriterClock

\* A transaction that runs alone keeps only its own write set.
CollectInv ==
    /\ quiet => \A r \in Readers : rpc[r] = "idle"
    /\ quiet /\ aborted = 0 =>
         /\ wpc \in Scanning => scan \subseteq {wslot} /\ oldest \in {DTS_INF, wtx}
         /\ wpc \in Committing /\ at = 0 => Len(committedWSs[1]) <= 1
         /\ wpc = "remove" => \A t \in Tables : Len(committedWSs[t]) <= 1

\* How far the running transaction's elements have got.
LastState == snaps[Len(snaps)]
StateBefore == snaps[Len(snaps) - 1]

TableInv ==
    /\ wpc \notin Committing => \A t \in Tables : tbl[t] = LastState
    /\ wpc \in Committing =>
         /\ LastState = Applied(StateBefore, writeSet)
         /\ committedWSs[0][1].keys = KeysOf(writeSet)
         /\ KeysOf(todo) \subseteq KeysOf(writeSet)
         /\ tbl[1 - at] = IF at = 1 THEN StateBefore ELSE LastState
         /\ \A k \in Keys : k \notin KeysOf(writeSet) => tbl[at][k] = LastState[k]
    /\ wpc = "write" => Applied(tbl[at], todo) = LastState
    /\ wpc \in Committing \ {"write"} => tbl[at] = LastState

\* The newest state that both tables have completely.
Finished == IF wpc \in {"write", "endTS"} \/ (wpc \in Committing /\ at = 1)
            THEN Len(snaps) - 1 ELSE Len(snaps)

\* The newest write sets, those of the transactions after state b.
Later(b) == 1 .. Len(snaps) - b

\* They are kept until the query is over, open or with an end that the
\* validation does not overlook.
SetsKept(r, b) ==
    \A n \in Later(b) : n <= Len(committedWSs[0]) /\ rtx[r] < committedWSs[0][n].endTS

\* A read is of state b, or a write set that the validation sees has its key.
Seen(r, n) == rpc[r] \in {"lock", "validate"} => committedWSs[0][n].valTS < rts[r]
ReadSafe(r, b, m) ==
    \/ got[r][m] = snaps[b][KeyOf(r, m)]
    \/ \E n \in Later(b) : Seen(r, n) /\ KeyOf(r, m) \in committedWSs[0][n].keys

\* The same of what is in the tables.
Overwritten(b, k) == \E n \in Later(b) : k \in committedWSs[0][n].keys
TablesSafe(b) == \A t \in Tables, k \in Keys : tbl[t][k] = snaps[b][k] \/ Overwritten(b, k)

\* The cleanup of table 0 will not take them away.
EndsAfter(r, b) ==
    /\ wpc = "stamp" /\ at = 0 => b = Len(snaps) \/ rtx[r] < wts
    /\ wpc \in Scanning /\ at = 0 => b = Len(snaps) \/ oldest <= rtx[r] \/ rslot[r] \in scan

\* State b is one that query r can have read.
Base(r, b) ==
    /\ b \in began[r] .. Finished
    /\ SetsKept(r, b)
    /\ \A m \in Reads : m < rpos[r] => ReadSafe(r, b, m)
    /\ rpc[r] = "get" => TablesSafe(b)
    /\ EndsAfter(r, b)

ReadsFrom(r, i) == \A n \in Reads : got[r][n] = snaps[i][KeyOf(r, n)]

\* A query that reads or validates table 0 has such a state, one that has
\* passed table 0 has read it.
Based(r) == rpc[r] = "get" \/ (rpc[r] \in {"draw", "lock", "validate"} /\ rat[r] = 0)
Passed(r) == rpc[r] = "done" \/ (rpc[r] \in {"draw", "lock", "validate"} /\ rat[r] = 1)

QueryBase(r) ==
    /\ Based(r) => \E b \in 1 .. Len(snaps) : Base(r, b)
    /\ Passed(r) => failed[r] \/ \E i \in began[r] .. Len(snaps) : ReadsFrom(r, i)

BaseInv == \A r \in Readers : QueryBase(r)

IInv == PlaceInv /\ SlotInv /\ WriteSetInv /\ CollectInv /\ TableInv /\ BaseInv

-----------------------------------------------------------------------------
(***************************************************************************)
(* Sequences of write sets.                                                *)
(***************************************************************************)

\* Enter puts the new write set in front and moves the others back.
LEMMA EnterFacts ==
    ASSUME NEW s \in Seq(WriteSets), NEW ks \in SUBSET Keys, wts \in TS
    PROVE  /\ Enter(s, ks) \in Seq(WriteSets)
           /\ Len(Enter(s, ks)) = Len(s) + 1 /\ Len(s) \in Nat
           /\ Enter(s, ks)[1] = [keys |-> ks, valTS |-> wts, endTS |-> DTS_INF]
           /\ \A n \in 1 .. Len(s) : Enter(s, ks)[n + 1] = s[n]
           /\ \A n \in 2 .. Len(s) + 1 : Enter(s, ks)[n] = s[n - 1]
  <1> DEFINE w == [keys |-> ks, valTS |-> wts, endTS |-> DTS_INF]
  <1>1. w \in WriteSets
    BY BoundAssumption DEF WriteSets, TS, DTS_INF
  <1>2. <<w>> \in Seq(WriteSets) /\ Len(<<w>>) = 1 /\ <<w>>[1] = w
    BY <1>1
  <1>3. Enter(s, ks) = <<w>> \o s
    BY DEF Enter
  <1> HIDE DEF w
  <1>4. /\ Enter(s, ks) \in Seq(WriteSets) /\ Len(Enter(s, ks)) = Len(s) + 1 /\ Len(s) \in Nat
        /\ Enter(s, ks)[1] = w
    BY <1>2, <1>3
  <1>5. \A n \in 2 .. Len(s) + 1 : Enter(s, ks)[n] = s[n - 1]
    BY <1>2, <1>3
  <1>6. \A n \in 1 .. Len(s) : Enter(s, ks)[n + 1] = s[n]
    BY <1>2, <1>3
  <1> QED BY <1>4, <1>5, <1>6 DEF w

\* The end timestamp of the front is stamped; nothing else changes.
LEMMA StampFacts ==
    ASSUME NEW s \in Seq(WriteSets), NEW e \in TS
    PROVE  LET z == [s EXCEPT ![1].endTS = e]
           IN  /\ z \in Seq(WriteSets) /\ Len(z) = Len(s) /\ Len(s) \in Nat
               /\ \A n \in 1 .. Len(s) : /\ z[n].keys = s[n].keys
                                         /\ z[n].valTS = s[n].valTS
                                         /\ z[n].endTS = IF n = 1 THEN e ELSE s[n].endTS
  <1> DEFINE z == [s EXCEPT ![1].endTS = e]
  <1>1. Len(s) \in Nat /\ s \in [1 .. Len(s) -> WriteSets]
    OBVIOUS
  <1>2. z \in [1 .. Len(s) -> WriteSets]
    <2>1. \A n \in 1 .. Len(s) : [s[n] EXCEPT !.endTS = e] \in WriteSets
      BY <1>1 DEF WriteSets
    <2> QED BY <1>1, <2>1
  <1>3. z \in Seq(WriteSets) /\ Len(z) = Len(s)
    BY <1>1, <1>2
  <1>4. ASSUME NEW n \in 1 .. Len(s)
        PROVE  /\ z[n].keys = s[n].keys
               /\ z[n].valTS = s[n].valTS
               /\ z[n].endTS = IF n = 1 THEN e ELSE s[n].endTS
    <2>1. s[n] \in WriteSets
      BY <1>1
    <2>2. z[n] = IF n = 1 THEN [s[1] EXCEPT !.endTS = e] ELSE s[n]
      BY <1>1
    <2> QED BY <2>1, <2>2 DEF WriteSets
  <1> QED BY <1>1, <1>3, <1>4

\* The first write sets stay when the rest is erased.
LEMMA EraseFacts ==
    ASSUME NEW s \in Seq(WriteSets), NEW n \in 1 .. Len(s)
    PROVE  /\ SubSeq(s, 1, n - 1) \in Seq(WriteSets)
           /\ Len(SubSeq(s, 1, n - 1)) = n - 1 /\ n - 1 < Len(s) /\ Len(s) \in Nat
           /\ \A m \in 1 .. n - 1 : SubSeq(s, 1, n - 1)[m] = s[m]
  <1>1. Len(s) \in Nat /\ n - 1 \in 0 .. Len(s)
    OBVIOUS
  <1>2. \A m \in 1 .. n - 1 : m \in 1 .. Len(s) /\ s[m] \in WriteSets
    BY <1>1
  <1>3. SubSeq(s, 1, n - 1) = [i \in 1 .. n - 1 |-> s[i]]
    BY <1>1, <1>2
  <1>4. SubSeq(s, 1, n - 1) \in [1 .. n - 1 -> WriteSets]
    BY <1>2, <1>3
  <1> QED BY <1>1, <1>3, <1>4

LEMMA WriteSetType ==
    ASSUME TypeOK, NEW t \in Tables, NEW n \in 1 .. Len(committedWSs[t])
    PROVE  /\ committedWSs[t][n] \in WriteSets
           /\ committedWSs[t][n].endTS \in Int /\ committedWSs[t][n].valTS \in Int
           /\ committedWSs[t][n].endTS <= DTS_INF
  <1>1. committedWSs[t][n] \in WriteSets
    BY DEF TypeOK
  <1> QED BY <1>1, BoundAssumption DEF WriteSets, TS, DTS_INF

LEMMA ExpiredIs ==
    ASSUME NEW t
    PROVE  Expired(t) \subseteq 1 .. Len(committedWSs[t])
  BY DEF Expired

LEMMA SlotZero == 0 \in Slots /\ NumSlots \in Nat
  <1>1. Cardinality(Readers) \in Nat
    BY ReadersAssumption, FS_CardinalityType
  <1> QED BY <1>1, SlotAssumption DEF Slots

-----------------------------------------------------------------------------
(***************************************************************************)
(* The state that a transaction leaves.                                    *)
(***************************************************************************)

\* A set of positions that is not empty has a last one.
LEMMA LastOne ==
    ASSUME NEW n \in Nat, NEW pos, pos \subseteq 1 .. n, pos # {}
    PROVE  \E p \in pos : \A j \in pos : j <= p
  <1> DEFINE From(i) == {j \in pos : i <= j}
             T == {From(i) : i \in pos}
  <1>1. IsFiniteSet(pos)
    <2>1. IsFiniteSet(1 .. n)
      BY FS_Interval
    <2> QED BY <2>1, FS_Subset
  <1>2. T \subseteq FiniteSubsetsOf(pos) /\ T # {}
    <2>1. \A i \in pos : From(i) \subseteq pos /\ IsFiniteSet(From(i))
      BY <1>1, FS_Subset
    <2> QED BY <2>1 DEF FiniteSubsetsOf
  <1>3. IsWellFoundedOn(StrictSubsetOrdering(pos), FiniteSubsetsOf(pos))
    BY FS_StrictSubsetOrderingWellFounded
  <1>4. PICK U \in T : \A W \in T : <<W, U>> \notin StrictSubsetOrdering(pos)
    BY <1>2, <1>3, WFMin
  <1>5. PICK p \in pos : U = From(p)
    OBVIOUS
  <1>6. ASSUME NEW j \in pos, ~(j <= p)
        PROVE  FALSE
    <2>1. p < j
      BY <1>6
    <2>2. From(j) \subseteq From(p) /\ p \in From(p) /\ p \notin From(j)
      <3>1. \A i \in pos : i \in Int
        OBVIOUS
      <3>2. j \in Int /\ p \in Int
        BY <3>1
      <3>3. \A i \in pos : j <= i => p <= i
        BY <2>1, <3>1, <3>2
      <3>4. p <= p /\ ~(j <= p)
        BY <2>1, <3>2
      <3> QED BY <3>3, <3>4
    <2>3. From(j) \in T
      OBVIOUS
    <2>4. <<From(j), From(p)>> \in StrictSubsetOrdering(pos)
      BY <2>2 DEF StrictSubsetOrdering
    <2> QED BY <1>4, <1>5, <2>3, <2>4
  <1> QED BY <1>6

\* ... and a first one.
LEMMA FirstOne ==
    ASSUME NEW n \in Nat, NEW pos, pos \subseteq 1 .. n, pos # {}
    PROVE  \E p \in pos : \A j \in pos : p <= j
  <1> DEFINE mirror == {i \in 1 .. n : n + 1 - i \in pos}
  <1>1. \A j \in pos : j \in 1 .. n /\ n + 1 - j \in mirror
    <2> SUFFICES ASSUME NEW j \in pos
                 PROVE  j \in 1 .. n /\ n + 1 - j \in mirror
      OBVIOUS
    <2>1. j \in 1 .. n
      OBVIOUS
    <2>2. n + 1 - j \in 1 .. n /\ n + 1 - (n + 1 - j) = j
      BY <2>1
    <2> QED BY <2>1, <2>2
  <1>2. mirror \subseteq 1 .. n /\ mirror # {}
    BY <1>1
  <1>3. \A i \in mirror : i \in 1 .. n /\ n + 1 - i \in pos
    OBVIOUS
  <1> HIDE DEF mirror
  <1>4. PICK m \in mirror : \A i \in mirror : i <= m
    BY <1>2, LastOne
  <1>5. n + 1 - m \in pos /\ m \in Int
    BY <1>3
  <1>6. \A j \in pos : n + 1 - m <= j
    <2> SUFFICES ASSUME NEW j \in pos
                 PROVE  n + 1 - m <= j
      OBVIOUS
    <2>1. n + 1 - j <= m /\ j \in Int
      BY <1>1, <1>4
    <2> QED BY <1>5, <2>1
  <1> QED BY <1>5, <1>6

\* Position p is the one whose element counts.
Counts(pos, p) == p \in pos /\ \A j \in pos : IF Replaces THEN j <= p ELSE p <= j

\* The position that Applied chooses is the one that counts.
LEMMA CountingOne ==
    ASSUME NEW n \in Nat, NEW pos, pos \subseteq 1 .. n, pos # {}
    PROVE  Counts(pos, CHOOSE q \in pos : \A j \in pos : IF Replaces THEN j <= q ELSE q <= j)
  <1>1. CASE Replaces
    BY <1>1, LastOne DEF Counts
  <1>2. CASE ~Replaces
    BY <1>2, FirstOne DEF Counts
  <1> QED BY <1>1, <1>2

LEMMA CountsOnce ==
    ASSUME NEW n \in Nat, NEW pos, pos \subseteq 1 .. n, NEW p, NEW q,
           Counts(pos, p), Counts(pos, q)
    PROVE  p = q
  <1>1. p \in Int /\ q \in Int
    BY DEF Counts
  <1>2. p <= q /\ q <= p
    <2>1. CASE Replaces
      BY <2>1 DEF Counts
    <2>2. CASE ~Replaces
      BY <2>2 DEF Counts
    <2> QED BY <2>1, <2>2
  <1> QED BY <1>1, <1>2

\* What Applied says of one key, with the position that counts.
LEMMA AppliedAt ==
    ASSUME NEW s, NEW ws, Len(ws) \in Nat, NEW k \in Keys, NEW p,
           Counts({n \in 1 .. Len(ws) : ws[n][1] = k}, p)
    PROVE  Applied(s, ws)[k] = Stored(s[k], ws[p][2])
  <1> DEFINE pos == {n \in 1 .. Len(ws) : ws[n][1] = k}
             q == CHOOSE n \in pos : \A j \in pos : IF Replaces THEN j <= n ELSE n <= j
  <1>1. pos \subseteq 1 .. Len(ws) /\ pos # {}
    BY DEF Counts
  <1>2. Applied(s, ws)[k] = Stored(s[k], ws[q][2])
    BY <1>1 DEF Applied
  <1>3. Counts(pos, p)
    OBVIOUS
  <1> HIDE DEF pos
  <1>4. Counts(pos, q)
    BY <1>1, CountingOne
  <1> HIDE DEF q
  <1>5. p = q
    BY <1>1, <1>3, <1>4, CountsOnce
  <1> QED BY <1>2, <1>5

\* The state that elements make of a state is one of records.
LEMMA AppliedType ==
    ASSUME NEW s \in [Keys -> Records], NEW ws \in Seq(Keys \X Values)
    PROVE  Applied(s, ws) \in [Keys -> Records]
  <1> SUFFICES ASSUME NEW k \in Keys
               PROVE  Applied(s, ws)[k] \in Records
    BY DEF Applied
  <1> DEFINE pos == {n \in 1 .. Len(ws) : ws[n][1] = k}
  <1>1. CASE pos = {}
    BY <1>1 DEF Applied
  <1>2. CASE pos # {}
    <2>1. Len(ws) \in Nat /\ pos \subseteq 1 .. Len(ws)
      OBVIOUS
    <2>2. PICK q \in pos : Counts(pos, q)
      <3> HIDE DEF pos
      <3> QED BY <1>2, <2>1, CountingOne DEF Counts
    <2>3. Applied(s, ws)[k] = Stored(s[k], ws[q][2])
      BY <2>1, <2>2, AppliedAt
    <2>4. ws[q] \in Keys \X Values
      OBVIOUS
    <2> QED BY <2>3, <2>4 DEF Records, Stored
  <1> QED BY <1>1, <1>2

\* Keys without an element keep their record.
LEMMA AppliedOther ==
    ASSUME NEW s, NEW ws, NEW k \in Keys, k \notin KeysOf(ws)
    PROVE  Applied(s, ws)[k] = s[k]
  <1>1. {n \in 1 .. Len(ws) : ws[n][1] = k} = {}
    BY DEF KeysOf
  <1> QED BY <1>1 DEF Applied

LEMMA AppliedIs ==
    ASSUME NEW s, NEW ws
    PROVE  Applied(s, ws) = [k \in Keys |-> Applied(s, ws)[k]]
  BY DEF Applied

\* No element, no change.
LEMMA AppliedNothing ==
    ASSUME NEW s \in [Keys -> Records]
    PROVE  Applied(s, <<>>) = s
  <1>1. \A k \in Keys : Applied(s, <<>>)[k] = s[k]
    BY AppliedOther DEF KeysOf
  <1>2. Applied(s, <<>>) = [k \in Keys |-> Applied(s, <<>>)[k]]
    BY DEF Applied
  <1> QED BY <1>1, <1>2

\* The elements may be applied one by one, the first one first.
LEMMA AppliedHead ==
    ASSUME NEW s \in [Keys -> Records], NEW ws \in Seq(Keys \X Values), ws # <<>>
    PROVE  Applied([s EXCEPT ![Head(ws)[1]] = Stored(s[Head(ws)[1]], Head(ws)[2])], Tail(ws))
             = Applied(s, ws)
  <1> DEFINE h == Head(ws)
             s1 == [s EXCEPT ![h[1]] = Stored(s[h[1]], h[2])]
             ws1 == Tail(ws)
  <1>1. /\ h = ws[1] /\ Len(ws) \in Nat /\ Len(ws) >= 1 /\ Len(ws1) = Len(ws) - 1
        /\ \A n \in 1 .. Len(ws) - 1 : ws1[n] = ws[n + 1]
    OBVIOUS
  <1>a. h \in Keys \X Values /\ Len(ws1) \in Nat
    BY <1>1
  <1>2. ASSUME NEW k \in Keys
        PROVE  Applied(s1, ws1)[k] = Applied(s, ws)[k]
    <2> DEFINE pos == {n \in 1 .. Len(ws) : ws[n][1] = k}
               pos1 == {n \in 1 .. Len(ws1) : ws1[n][1] = k}
    <2>1. /\ pos = {} => Applied(s, ws)[k] = s[k]
          /\ pos1 = {} => Applied(s1, ws1)[k] = s1[k]
      BY DEF Applied
    <2>a. /\ \A p : Counts(pos, p) => Applied(s, ws)[k] = Stored(s[k], ws[p][2])
          /\ \A p : Counts(pos1, p) => Applied(s1, ws1)[k] = Stored(s1[k], ws1[p][2])
      <3> HIDE DEF s1, ws1
      <3>1. Len(ws) \in Nat /\ Len(ws1) \in Nat
        BY <1>1, <1>a
      <3>2. ASSUME NEW p, Counts(pos, p)
            PROVE  Applied(s, ws)[k] = Stored(s[k], ws[p][2])
        BY <3>1, <3>2, AppliedAt
      <3>3. ASSUME NEW p, Counts(pos1, p)
            PROVE  Applied(s1, ws1)[k] = Stored(s1[k], ws1[p][2])
        BY <3>1, <3>3, AppliedAt
      <3> QED BY <3>2, <3>3
    <2>b. /\ h[1] = k => s1[k] = Stored(s[k], h[2])
          /\ h[1] # k => s1[k] = s[k]
      <3> DEFINE x == Stored(s[h[1]], h[2])
      <3>1. s1 = [s EXCEPT ![h[1]] = x] /\ h[1] \in Keys
        BY <1>a
      <3>2. h[1] = k => x = Stored(s[k], h[2])
        OBVIOUS
      <3> HIDE DEF h, x, s1
      <3> QED BY <3>1, <3>2
    <2>2. \A n \in 1 .. Len(ws) : n \in pos <=> (n = 1 /\ h[1] = k) \/ (n - 1 \in pos1 /\ n # 1)
      BY <1>1
    <2>3. pos \subseteq 1 .. Len(ws) /\ pos1 \subseteq 1 .. Len(ws1) /\ 1 \in 1 .. Len(ws)
      BY <1>1
    <2>4. \A n \in pos1 : n + 1 \in pos /\ ws1[n] = ws[n + 1] /\ n \in Nat /\ n >= 1
      BY <1>1
    <2> HIDE DEF pos, pos1
    <2> HIDE DEF s1, ws1
    <2>5. CASE pos1 = {}
      <3>1. CASE h[1] = k
        <4>1. 1 \in pos /\ \A n \in pos : n = 1
          BY <2>2, <2>3, <2>5, <3>1
        <4>2. Counts(pos, 1)
          BY <4>1 DEF Counts
        <4> QED BY <1>1, <2>1, <2>5, <2>a, <2>b, <3>1, <4>2
      <3>2. CASE h[1] # k
        <4>1. pos = {}
          BY <2>2, <2>3, <2>5, <3>2
        <4> QED BY <2>1, <2>5, <2>b, <3>2, <4>1
      <3> QED BY <3>1, <3>2
    <2>6. CASE pos1 # {}
      <3>1. PICK p \in pos1 : Counts(pos1, p)
        BY <1>a, <2>3, <2>6, CountingOne DEF Counts
      <3>2. \A j \in pos : j \in Int /\ j >= 1 /\ (j # 1 => j - 1 \in pos1)
        BY <2>2, <2>3
      <3>3. Applied(s1, ws1)[k] = Stored(s1[k], ws[p + 1][2])
        BY <2>4, <2>a, <3>1
      <3>4. CASE Replaces \/ h[1] # k
        <4>1. Counts(pos, p + 1)
          <5> SUFFICES ASSUME NEW j \in pos
                       PROVE  IF Replaces THEN j <= p + 1 ELSE p + 1 <= j
            BY <2>4 DEF Counts
          <5>1. p \in Nat /\ p >= 1 /\ j \in Int
            BY <2>4, <3>2
          <5>2. CASE j = 1
            <6>1. h[1] = k
              BY <2>2, <2>3, <5>2
            <6> QED BY <3>4, <5>1, <5>2, <6>1
          <5>3. CASE j # 1
            <6>1. j - 1 \in pos1
              BY <3>2, <5>3
            <6>2. IF Replaces THEN j - 1 <= p ELSE p <= j - 1
              BY <3>1, <6>1 DEF Counts
            <6> QED BY <5>1, <6>2
          <5> QED BY <5>2, <5>3
        <4>2. Applied(s, ws)[k] = Stored(s[k], ws[p + 1][2])
          BY <2>a, <4>1
        <4> QED BY <2>b, <3>3, <3>4, <4>2 DEF Stored
      <3>5. CASE ~Replaces /\ h[1] = k
        <4>1. Counts(pos, 1)
          BY <2>2, <2>3, <3>2, <3>5 DEF Counts
        <4>2. Applied(s, ws)[k] = Stored(s[k], h[2])
          BY <1>1, <2>a, <4>1
        <4>3. h[2] # NoValue
          BY <1>a, DataAssumption DEF NoValue
        <4>4. s1[k] = Stored(s[k], h[2])
          BY <2>b, <3>5
        <4>5. Stored(s[k], h[2]) # NoValue
          BY <4>3 DEF Stored
        <4> QED BY <3>3, <3>5, <4>2, <4>4, <4>5 DEF Stored
      <3> QED BY <3>4, <3>5
    <2> QED BY <2>5, <2>6
  <1> HIDE DEF s1, ws1
  <1>3. /\ Applied(s1, ws1) = [k \in Keys |-> Applied(s1, ws1)[k]]
        /\ Applied(s, ws) = [k \in Keys |-> Applied(s, ws)[k]]
    BY AppliedIs
  <1>4. [k \in Keys |-> Applied(s1, ws1)[k]] = [k \in Keys |-> Applied(s, ws)[k]]
    BY <1>2
  <1>5. Applied(s1, ws1) = Applied(s, ws)
    BY <1>3, <1>4
  <1> QED BY <1>5 DEF s1, ws1

-----------------------------------------------------------------------------
(***************************************************************************)
(* What the steps leave alone.                                             *)
(***************************************************************************)

LEMMA WriterFrame ==
    ASSUME WriterStep \/ UNCHANGED vars
    PROVE  UNCHANGED <<active_readers, readerVars, began>>
  <1> USE DEF ctxVars, lockVars, histVars
  <1>1. ASSUME NEW k \in Keys, NEW v \in Values, Insert(k, v)
        PROVE  UNCHANGED <<active_readers, readerVars, began>>
    BY <1>1 DEF Insert
  <1>2. CASE TransactionBegin \/ TransactionAbort \/ TransactionPreCommit
    BY <1>2 DEF TransactionBegin, TransactionAbort, TransactionPreCommit
  <1>3. CASE DrawTS \/ LockExclusive \/ SaveWriteSet
    BY <1>3 DEF DrawTS, LockExclusive, SaveWriteSet
  <1>4. CASE Write \/ EndWrite \/ StampEnd \/ ScanSlot
    BY <1>4 DEF Write, EndWrite, StampEnd, ScanSlot
  <1>5. CASE EndScan \/ EraseWriteSets \/ RemoveTx
    BY <1>5 DEF EndScan, EraseWriteSets, RemoveTx
  <1>6. CASE UNCHANGED vars
    BY <1>6 DEF vars
  <1> QED BY <1>1, <1>2, <1>3, <1>4, <1>5, <1>6 DEF WriterStep

\* No query touches the tables, the write sets or the writer's thread.
LEMMA ReaderFrame ==
    ASSUME NEW r \in Readers, ReaderStep(r)
    PROVE  UNCHANGED <<tbl, committedWSs, active_writer, writerVars, snaps, aborted>>
  <1> USE DEF ctxVars, lockVars, histVars
  <1>1. ASSUME NEW ks \in [1 .. TxSize -> Keys], StartRead(r, ks)
        PROVE  UNCHANGED <<tbl, committedWSs, active_writer, writerVars, snaps, aborted>>
    BY <1>1 DEF StartRead
  <1>2. CASE NewTx(r) \/ TakeSlot(r) \/ Register(r)
    BY <1>2 DEF NewTx, TakeSlot, Register
  <1>3. CASE GetByKey(r)
    BY <1>3 DEF GetByKey
  <1>4. CASE DrawValTS(r) \/ LockShared(r)
    BY <1>4 DEF DrawValTS, LockShared
  <1>5. CASE Validate(r)
    BY <1>5 DEF Validate
  <1>6. CASE RestartRead(r) \/ FinishRead(r)
    BY <1>6 DEF RestartRead, FinishRead
  <1> QED BY <1>1, <1>2, <1>3, <1>4, <1>5, <1>6 DEF ReaderStep

\* The other queries stay where they are.
LEMMA ReaderAlone ==
    ASSUME TypeOK, NEW r \in Readers, ReaderStep(r), NEW z \in Readers, z # r
    PROVE  /\ rpc'[z] = rpc[z] /\ rtx'[z] = rtx[z] /\ rslot'[z] = rslot[z]
           /\ rkeys'[z] = rkeys[z] /\ rpos'[z] = rpos[z] /\ got'[z] = got[z]
           /\ rat'[z] = rat[z] /\ rts'[z] = rts[z] /\ failed'[z] = failed[z]
           /\ began'[z] = began[z]
  <1> DEFINE Same == /\ rpc'[z] = rpc[z] /\ rtx'[z] = rtx[z] /\ rslot'[z] = rslot[z]
                     /\ rkeys'[z] = rkeys[z] /\ rpos'[z] = rpos[z] /\ got'[z] = got[z]
                     /\ rat'[z] = rat[z] /\ rts'[z] = rts[z] /\ failed'[z] = failed[z]
                     /\ began'[z] = began[z]
  <1> USE DEF TypeOK, histVars
  <1>1. ASSUME NEW ks \in [1 .. TxSize -> Keys], StartRead(r, ks)
        PROVE  Same
    BY <1>1 DEF StartRead
  <1>2. CASE NewTx(r)
    BY <1>2 DEF NewTx
  <1>3. CASE TakeSlot(r)
    BY <1>3 DEF TakeSlot
  <1>4. CASE Register(r)
    BY <1>4 DEF Register
  <1>5. CASE GetByKey(r)
    BY <1>5 DEF GetByKey
  <1>6. CASE DrawValTS(r)
    BY <1>6 DEF DrawValTS
  <1>7. CASE LockShared(r)
    BY <1>7 DEF LockShared
  <1>8. CASE Validate(r)
    BY <1>8 DEF Validate
  <1>9. CASE RestartRead(r)
    BY <1>9 DEF RestartRead
  <1>10. CASE FinishRead(r)
    BY <1>10 DEF FinishRead
  <1> QED BY <1>1, <1>2, <1>3, <1>4, <1>5, <1>6, <1>7, <1>8, <1>9, <1>10 DEF ReaderStep

-----------------------------------------------------------------------------
(***************************************************************************)
(* Types, places and the clock.                                            *)
(***************************************************************************)

\* What the writer's steps do to the counters that the queries' places
\* refer to.
Progress ==
    /\ nextTxID <= nextTxID' /\ wtx' < nextTxID' /\ wts' < nextTxID'
    /\ Committed <= Committed'
    /\ Len(snaps') >= 1
    /\ wpc' \in Committing \cup {"remove"} => Len(snaps') >= 2

LEMMA WriterBeginsPlace ==
    ASSUME PlaceInv,
           TransactionBegin \/ TransactionAbort \/ TransactionPreCommit \/ DrawTS \/ LockExclusive
    PROVE  TypeOK' /\ Progress
  <1> USE SlotZero, BoundAssumption DEF PlaceInv, ctxVars, lockVars, readerVars, histVars
  <1>1. snaps' = snaps /\ Len(snaps) \in Nat
    <2>1. Len(snaps) \in Nat
      BY DEF TypeOK
    <2>2. snaps' = snaps
      BY DEF TransactionBegin, TransactionAbort, TransactionPreCommit, DrawTS, LockExclusive
    <2> QED BY <2>1, <2>2
  <1>c. nextTxID \in Nat /\ wtx \in Nat /\ wts \in Nat
    BY DEF TypeOK, TS
  <1>2. CASE TransactionBegin
    <2>1. PICK s \in Slots : /\ usedSlots' = usedSlots \cup {s} /\ wslot' = s
                             /\ activeTxs' = [activeTxs EXCEPT ![s] = nextTxID]
      BY <1>2 DEF TransactionBegin, FreeSlot
    <2>2. nextTxID \in TS /\ nextTxID + 1 \in 1 .. MaxTS + 1
      BY <1>2 DEF TransactionBegin, TypeOK, TS
    <2>3. TypeOK'
      BY <1>2, <2>1, <2>2, SMTT(60) DEF TransactionBegin, TypeOK
    <2> QED BY <1>1, <1>c, <1>2, <2>3 DEF TransactionBegin, Progress, Committed, Committing, Scanning
  <1>3. CASE TransactionAbort
    <2>1. TypeOK'
      BY <1>3, SMTT(60) DEF TransactionAbort, TypeOK, TS
    <2> QED BY <1>1, <1>c, <1>3, <2>1 DEF TransactionAbort, Progress, Committed, Committing, Scanning
  <1>4. CASE TransactionPreCommit
    <2>1. TypeOK'
      BY <1>4 DEF TransactionPreCommit, TypeOK, TS, Tables
    <2> QED BY <1>1, <1>c, <1>4, <2>1 DEF TransactionPreCommit, Progress, Committed, Committing, Scanning
  <1>5. CASE DrawTS
    <2>1. TypeOK'
      BY <1>5, SMTT(60) DEF DrawTS, TypeOK, TS
    <2> QED BY <1>1, <1>c, <1>5, <2>1 DEF DrawTS, Progress, Committed, Committing, Scanning
  <1>6. CASE LockExclusive
    <2>1. TypeOK'
      BY <1>6 DEF LockExclusive, TypeOK, TS
    <2> QED BY <1>1, <1>c, <1>6, <2>1 DEF LockExclusive, Progress, Committed, Committing, Scanning
  <1> QED BY <1>2, <1>3, <1>4, <1>5, <1>6

LEMMA InsertPlace ==
    ASSUME PlaceInv, NEW k \in Keys, NEW v \in Values, Insert(k, v)
    PROVE  TypeOK' /\ Progress
  <1> USE DEF PlaceInv, Insert, ctxVars, lockVars, readerVars, histVars
  <1>1. TypeOK'
    <2>1. writeSet \in Seq(Keys \X Values) /\ <<k, v>> \in Keys \X Values
      BY DEF TypeOK
    <2>2. writeSet' \in Seq(Keys \X Values)
      BY <2>1
    <2> QED BY <2>2 DEF TypeOK
  <1>2. Len(snaps) \in Nat
    BY DEF TypeOK
  <1> QED BY <1>1, <1>2, BoundAssumption, SMTT(60) DEF TypeOK, TS, Progress, Committed, Committing, Scanning

LEMMA SaveWriteSetPlace ==
    ASSUME PlaceInv, SaveWriteSet
    PROVE  TypeOK' /\ Progress
  <1> USE DEF PlaceInv, ctxVars, readerVars
  <1>1. at \in Tables /\ 1 - at \in Tables /\ committedWSs[at] \in Seq(WriteSets) /\ wts \in TS
        /\ writeSet \in Seq(Keys \X Values) /\ Len(snaps) \in Nat /\ Len(snaps) >= 1
    BY DEF TypeOK, Tables
  <1>2. KeysOf(writeSet) \in SUBSET Keys
    <2>1. \A n \in 1 .. Len(writeSet) : writeSet[n] \in Keys \X Values
      BY <1>1
    <2> QED BY <2>1 DEF KeysOf
  <1>3. committedWSs' \in [Tables -> Seq(WriteSets)]
    BY <1>1, <1>2, EnterFacts DEF SaveWriteSet, TypeOK
  <1>4. /\ snaps' \in Seq([Keys -> Records])
        /\ \/ snaps' = snaps /\ wpc' = "valTS"
           \/ Len(snaps') = Len(snaps) + 1 /\ wpc' = "write"
    <2>1. CASE snaps' = snaps /\ wpc' = "valTS"
      BY <2>1 DEF TypeOK
    <2>2. CASE /\ snaps' = Append(snaps, Applied(snaps[Len(snaps)], writeSet)) /\ wpc' = "write"
      <3>1. Applied(snaps[Len(snaps)], writeSet) \in [Keys -> Records]
        <4>1. snaps[Len(snaps)] \in [Keys -> Records]
          BY <1>1 DEF TypeOK
        <4> QED BY <1>1, <4>1, AppliedType
      <3> QED BY <2>2, <3>1 DEF TypeOK
    <2> QED BY <2>1, <2>2 DEF SaveWriteSet
  <1>5. /\ wpc' \in {"valTS", "write"} /\ at' \in Tables /\ wts' \in TS
        /\ todo' \in Seq(Keys \X Values) /\ wts' = 0
    BY <1>1, BoundAssumption DEF SaveWriteSet, TypeOK, TS
  <1>6. /\ UNCHANGED <<nextTxID, usedSlots, activeTxs, tbl, active_readers, wtx, wslot, writeSet,
                       scan, oldest, rpc, rtx, rslot, rkeys, rpos, got, rat, rts, failed, began,
                       quiet, aborted>>
        /\ active_writer' = [active_writer EXCEPT ![at] = FALSE] /\ wpc = "save"
    BY DEF SaveWriteSet
  <1>7. TypeOK'
    BY <1>3, <1>4, <1>5, <1>6 DEF TypeOK
  <1>8. nextTxID \in Int /\ nextTxID > 0 /\ wtx < nextTxID
    BY BoundAssumption DEF TypeOK
  <1>9. Committed <= Committed' /\ Len(snaps') >= 1
        /\ (wpc' \in Committing \cup {"remove"} => Len(snaps') >= 2)
    BY <1>1, <1>4, <1>6 DEF Committed, Committing, Scanning
  <1> QED BY <1>5, <1>6, <1>7, <1>8, <1>9 DEF Progress

LEMMA WritePlace ==
    ASSUME PlaceInv, Write \/ EndWrite
    PROVE  TypeOK' /\ Progress
  <1> USE DEF PlaceInv, ctxVars, lockVars, readerVars, histVars
  <1>1. CASE Write
    <2>1. todo \in Seq(Keys \X Values) /\ todo # <<>>
      BY <1>1 DEF Write, TypeOK
    <2>2. Head(todo) \in Keys \X Values /\ Tail(todo) \in Seq(Keys \X Values)
      BY <2>1
    <2>3. Head(todo)[1] \in Keys /\ Head(todo)[2] \in Records
      BY <2>2 DEF Records
    <2>a. at \in Tables /\ tbl[at][Head(todo)[1]] \in Records
      BY <2>3 DEF TypeOK
    <2>b. Stored(tbl[at][Head(todo)[1]], Head(todo)[2]) \in Records
      BY <2>3, <2>a DEF Stored
    <2>4. TypeOK'
      BY <1>1, <2>2, <2>3, <2>b DEF Write, TypeOK
    <2> QED BY <1>1, <2>4, SMTT(60) DEF Write, TypeOK, Progress, Committed, Committing, Scanning
  <1>2. CASE EndWrite
    <2>1. TypeOK'
      BY <1>2 DEF EndWrite, TypeOK
    <2> QED BY <1>2, <2>1 DEF EndWrite, TypeOK, Progress, Committed, Committing, Scanning
  <1> QED BY <1>1, <1>2

LEMMA ScanPlace ==
    ASSUME PlaceInv, StampEnd \/ ScanSlot \/ RemoveTx
    PROVE  TypeOK' /\ Progress
  <1> USE SlotZero, BoundAssumption DEF PlaceInv, ctxVars, lockVars, readerVars, histVars
  <1>c. nextTxID \in Nat /\ wtx \in Nat /\ wts \in Nat /\ Len(snaps) \in Nat
    BY DEF TypeOK, TS
  <1>1. CASE StampEnd
    <2>1. committedWSs[at] \in Seq(WriteSets) /\ wts \in TS /\ at \in Tables
      BY DEF TypeOK
    <2>2. [committedWSs[at] EXCEPT ![1].endTS = wts] \in Seq(WriteSets)
      BY <2>1, StampFacts
    <2>3. committedWSs' \in [Tables -> Seq(WriteSets)]
      BY <1>1, <2>1, <2>2 DEF StampEnd, TypeOK
    <2>4. TypeOK'
      <3>1. wpc' = "scan" /\ wts' \in TS /\ scan' = usedSlots
        BY <1>1 DEF StampEnd, TS
      <3>2. UNCHANGED <<nextTxID, usedSlots, activeTxs, tbl, active_readers, active_writer, wtx,
                        wslot, writeSet, at, todo, oldest, rpc, rtx, rslot, rkeys, rpos, got, rat,
                        rts, failed, snaps, began, quiet, aborted>>
        BY <1>1 DEF StampEnd
      <3> QED BY <2>3, <3>1, <3>2 DEF TypeOK
    <2> QED BY <1>1, <1>c, <2>4 DEF StampEnd, Progress, Committed, Committing, Scanning
  <1>2. CASE ScanSlot
    <2>1. TypeOK'
      BY <1>2 DEF ScanSlot, TypeOK
    <2> QED BY <1>2, <1>c, <2>1 DEF ScanSlot, Progress, Committed, Committing, Scanning
  <1>3. CASE RemoveTx
    <2>1. TypeOK'
      BY <1>3, SMTT(60) DEF RemoveTx, TypeOK, TS
    <2> QED BY <1>3, <1>c, <2>1 DEF RemoveTx, Progress, Committed, Committing, Scanning
  <1> QED BY <1>1, <1>2, <1>3

LEMMA ErasePlace ==
    ASSUME PlaceInv, EndScan \/ EraseWriteSets
    PROVE  TypeOK' /\ Progress
  <1> USE DEF PlaceInv, ctxVars, lockVars, readerVars, histVars
  <1>1. 1 - at \in Tables /\ DTS_INF \in TS
    BY BoundAssumption DEF TypeOK, Tables, DTS_INF, TS
  <1>c. nextTxID \in Nat /\ wtx \in Nat /\ wts \in Nat /\ Len(snaps) \in Nat
    BY BoundAssumption DEF TypeOK, TS
  <1>2. ASSUME NextTable
        PROVE  /\ at' \in Tables /\ oldest' \in TS /\ wpc' \in {"write", "remove"}
               /\ todo' \in Seq(Keys \X Values) /\ writeSet' \in Seq(Keys \X Values)
    <2>1. writeSet \in Seq(Keys \X Values) /\ todo \in Seq(Keys \X Values)
          /\ <<>> \in Seq(Keys \X Values)
      BY DEF TypeOK
    <2> QED BY <1>1, <1>2, <2>1 DEF NextTable
  <1>3. CASE EndScan
    <2>1. TypeOK'
      BY <1>2, <1>3 DEF EndScan, TypeOK
    <2> QED BY <1>2, <1>3, <1>c, <2>1 DEF EndScan, NextTable, Progress, Committed, Committing, Scanning
  <1>4. CASE EraseWriteSets
    <2>1. PICK n \in Expired(at) : committedWSs' = [committedWSs EXCEPT ![at] = SubSeq(@, 1, n - 1)]
      BY <1>4 DEF EraseWriteSets
    <2>2. at \in Tables /\ committedWSs[at] \in Seq(WriteSets) /\ n \in 1 .. Len(committedWSs[at])
      BY ExpiredIs DEF TypeOK
    <2>3. SubSeq(committedWSs[at], 1, n - 1) \in Seq(WriteSets)
      BY <2>2, EraseFacts
    <2>4. committedWSs' \in [Tables -> Seq(WriteSets)]
      BY <2>1, <2>2, <2>3 DEF TypeOK
    <2>5. TypeOK'
      BY <1>2, <1>4, <2>4 DEF EraseWriteSets, TypeOK
    <2> QED BY <1>2, <1>4, <1>c, <2>5 DEF EraseWriteSets, NextTable, Progress, Committed, Committing, Scanning
  <1> QED BY <1>3, <1>4

LEMMA WriterStepPlace ==
    ASSUME PlaceInv, WriterStep \/ UNCHANGED vars
    PROVE  TypeOK' /\ Progress
  <1>1. CASE WriterStep
    BY <1>1, WriterBeginsPlace, InsertPlace, SaveWriteSetPlace, WritePlace, ScanPlace, ErasePlace
       DEF WriterStep
  <1>2. CASE UNCHANGED vars
    <2> USE <1>2 DEF PlaceInv, vars, ctxVars, lockVars, writerVars, readerVars, histVars
    <2>1. TypeOK'
      BY DEF TypeOK
    <2> QED BY <2>1 DEF TypeOK, Progress, Committed
  <1> QED BY <1>1, <1>2

LEMMA WriterStepInv1 ==
    ASSUME PlaceInv, WriterStep \/ UNCHANGED vars
    PROVE  PlaceInv'
  <1>1. TypeOK' /\ Progress
    BY WriterStepPlace
  <1>2. UNCHANGED <<active_readers, rpc, rtx, rslot, rkeys, rpos, got, rat, rts, failed, began>>
    BY WriterFrame DEF readerVars
  <1>3. LocksCounted'
    BY <1>2 DEF PlaceInv, LocksCounted, Validating
  <1>4. ASSUME NEW r \in Readers
        PROVE  QueryPlace(r)'
    <2>1. nextTxID \in Int /\ nextTxID' \in Int /\ Committed \in Int /\ Committed' \in Int
      BY <1>1 DEF PlaceInv, TypeOK, Committed
    <2>2. QueryPlace(r) /\ rtx[r] \in Int /\ rts[r] \in Int
      BY DEF PlaceInv, TypeOK, TS
    <2>3. rtx'[r] < nextTxID' /\ rts'[r] < nextTxID' /\ began'[r] \in 1 .. Committed'
      BY <1>1, <1>2, <2>1, <2>2 DEF QueryPlace, Progress
    <2> QED BY <1>2, <2>2, <2>3 DEF QueryPlace
  <1> QED BY <1>1, <1>3, <1>4 DEF PlaceInv, Progress

LEMMA Numbers ==
    ASSUME TypeOK
    PROVE  /\ nextTxID \in Nat /\ wtx \in Nat /\ wts \in Nat /\ oldest \in Nat /\ Len(snaps) \in Nat
           /\ \A r \in Readers : rtx[r] \in Nat /\ rts[r] \in Nat /\ rpos[r] \in Nat
           /\ \A s \in Slots : activeTxs[s] \in Nat
  <1>1. TS \subseteq Nat /\ 1 .. MaxTS + 1 \subseteq Nat
    BY BoundAssumption DEF TS
  <1>2. \A r \in Readers : rpos[r] \in Nat
    BY SizeAssumption DEF TypeOK
  <1>3. Len(snaps) \in Nat
    BY DEF TypeOK
  <1> QED BY <1>1, <1>2, <1>3 DEF TypeOK

\* What a query's step has to establish for its own place.
LEMMA ReaderPlace ==
    ASSUME PlaceInv, NEW r \in Readers, ReaderStep(r),
           TypeOK', QueryPlace(r)', LocksCounted', nextTxID <= nextTxID'
    PROVE  PlaceInv'
  <1>1. /\ UNCHANGED <<wpc, wtx, wts, snaps>> /\ Committed' = Committed
    BY ReaderFrame DEF writerVars, Committed
  <1>2. ASSUME NEW z \in Readers, z # r
        PROVE  QueryPlace(z)'
    <2>1. /\ rpc'[z] = rpc[z] /\ rtx'[z] = rtx[z] /\ rkeys'[z] = rkeys[z] /\ rpos'[z] = rpos[z]
          /\ rat'[z] = rat[z] /\ rts'[z] = rts[z] /\ failed'[z] = failed[z] /\ began'[z] = began[z]
      BY <1>2, ReaderAlone DEF PlaceInv
    <2>2. QueryPlace(z) /\ rtx[z] \in Int /\ rts[z] \in Int /\ nextTxID \in Int /\ nextTxID' \in Int
      <3>1. nextTxID' \in Int
        BY DEF TypeOK
      <3> QED BY <3>1, Numbers DEF PlaceInv
    <2> QED BY <1>1, <2>1, <2>2 DEF QueryPlace
  <1>3. wtx' < nextTxID' /\ wts' < nextTxID'
    <2>1. nextTxID' \in Int
      BY DEF TypeOK
    <2> QED BY <1>1, <2>1, Numbers DEF PlaceInv
  <1> QED BY <1>1, <1>2, <1>3 DEF PlaceInv

\* A query that neither begins nor ends its validation leaves the locks.
LEMMA ValidatingSame ==
    ASSUME PlaceInv, NEW r \in Readers, ReaderStep(r), active_readers' = active_readers,
           rpc[r] # "validate", rpc'[r] # "validate"
    PROVE  LocksCounted'
  <1>1. \A z \in Readers : z # r => rpc'[z] = rpc[z] /\ rat'[z] = rat[z]
    BY ReaderAlone DEF PlaceInv
  <1>2. \A t : Validating(t)' = Validating(t)
    BY <1>1 DEF Validating
  <1> QED BY <1>2 DEF PlaceInv, LocksCounted

LEMMA StartReadPlace ==
    ASSUME PlaceInv, NEW r \in Readers, NEW ks \in [1 .. TxSize -> Keys], StartRead(r, ks)
    PROVE  PlaceInv'
  <1> USE DEF StartRead
  <1>1. ReaderStep(r)
    BY DEF ReaderStep
  <1>2. Committed \in Nat /\ Committed \in 1 .. Committed /\ Committed' = Committed
    BY DEF PlaceInv, TypeOK, Committed, Committing, Scanning, writerVars
  <1>3. TypeOK'
    BY <1>2 DEF PlaceInv, TypeOK, ctxVars, lockVars, writerVars
  <1>4. /\ rpc'[r] = "begin" /\ rpc[r] = "idle" /\ rkeys'[r] = ks /\ began'[r] = Committed
        /\ rpos' = rpos /\ rat' = rat /\ failed' = failed /\ rtx' = rtx /\ rts' = rts
        /\ nextTxID' = nextTxID /\ active_readers' = active_readers
    BY DEF PlaceInv, TypeOK, ctxVars, lockVars
  <1>5. QueryPlace(r)'
    BY <1>2, <1>4 DEF PlaceInv, QueryPlace
  <1> QED BY <1>1, <1>3, <1>4, <1>5, ValidatingSame, ReaderPlace, Numbers DEF PlaceInv

LEMMA NewTxPlace ==
    ASSUME PlaceInv, NEW r \in Readers, NewTx(r) \/ TakeSlot(r) \/ Register(r)
    PROVE  PlaceInv'
  <1>1. ReaderStep(r)
    BY DEF ReaderStep
  <1> USE DEF PlaceInv
  <1>2. /\ rpc[r] \in {"begin", "slot", "register"} /\ rpc'[r] \in {"slot", "register", "get"}
        /\ rpos' = rpos /\ rat' = rat /\ failed' = failed /\ rts' = rts /\ rkeys' = rkeys /\ began' = began
        /\ wpc' = wpc /\ snaps' = snaps /\ active_readers' = active_readers
    BY DEF NewTx, TakeSlot, Register, TypeOK, lockVars, writerVars, histVars
  <1>3. TypeOK' /\ rtx'[r] < nextTxID' /\ nextTxID <= nextTxID'
    <2> USE BoundAssumption DEF TypeOK, ctxVars, lockVars, writerVars, histVars
    <2>1. CASE NewTx(r)
      <3>1. /\ nextTxID \in TS /\ nextTxID \in Nat /\ nextTxID' = nextTxID + 1 /\ nextTxID <= MaxTS
            /\ rtx' = [rtx EXCEPT ![r] = nextTxID] /\ rpc' = [rpc EXCEPT ![r] = "slot"]
        BY <2>1 DEF NewTx, TS
      <3>2. nextTxID' \in 1 .. MaxTS + 1 /\ rtx'[r] = nextTxID
        BY <3>1
      <3>3. TypeOK'
        BY <2>1, <3>1, <3>2 DEF NewTx
      <3>4. rtx'[r] < nextTxID' /\ nextTxID <= nextTxID'
        BY ONLY <3>1, <3>2
      <3> QED BY ONLY <3>3, <3>4
    <2>2. CASE TakeSlot(r)
      BY <2>2, SMTT(60) DEF TakeSlot, QueryPlace, FreeSlot
    <2>3. CASE Register(r)
      BY <2>3 DEF Register, QueryPlace
    <2> QED BY <2>1, <2>2, <2>3
  <1>4. QueryPlace(r)'
    <2>1. rpos[r] = 0
      BY <1>2 DEF QueryPlace
    <2>2. rts'[r] < nextTxID'
      <3>1. nextTxID' \in Int
        BY <1>3 DEF TypeOK
      <3> QED BY <1>2, <1>3, <3>1, Numbers DEF QueryPlace
    <2>3. began[r] \in 1 .. Committed /\ Committed' = Committed
      BY <1>2 DEF QueryPlace, Committed
    <2> QED BY <1>2, <1>3, <2>1, <2>2, <2>3, SizeAssumption DEF QueryPlace
  <1> QED BY <1>1, <1>2, <1>3, <1>4, ValidatingSame, ReaderPlace

LEMMA GetByKeyPlace ==
    ASSUME PlaceInv, NEW r \in Readers, GetByKey(r)
    PROVE  PlaceInv'
  <1>1. ReaderStep(r)
    BY DEF ReaderStep
  <1>2. PICK n \in Reads : n = rpos[r]
    BY SizeAssumption DEF GetByKey, PlaceInv, QueryPlace, TypeOK, Reads
  <1>3. /\ n \in Nat /\ n < 2 * TxSize /\ rkeys[r] \in [1 .. TxSize -> Keys] /\ rpc[r] = "get"
        /\ QueryPlace(r)
    BY <1>2, SizeAssumption DEF GetByKey, PlaceInv, QueryPlace, Reads
  <1>4. n % 2 \in Tables /\ KeyOf(r, n) \in Keys
    BY <1>2, <1>3, SizeAssumption DEF KeyOf, Tables
  <1>5. /\ UNCHANGED <<nextTxID, usedSlots, activeTxs, tbl, committedWSs, active_readers, active_writer,
                       writerVars, rtx, rslot, rkeys, rat, rts, failed, snaps, began, quiet, aborted>>
    BY DEF GetByKey, ctxVars, lockVars, histVars
  <1>6. CASE /\ rpos' = [rpos EXCEPT ![r] = 0] /\ got' = [got EXCEPT ![r] = NoReads] /\ rpc' = rpc
    <2>1. NoReads \in [Reads -> Records]
      BY DEF NoReads, Records
    <2>2. TypeOK'
      BY <1>5, <1>6, <2>1, SizeAssumption, SMTT(60) DEF PlaceInv, TypeOK, writerVars
    <2>3. rpc'[r] = "get" /\ rpos'[r] = 0
      BY <1>3, <1>6 DEF PlaceInv, TypeOK
    <2>4. QueryPlace(r)'
      BY <1>3, <1>5, <2>3, SizeAssumption DEF QueryPlace, Committed, writerVars
    <2> QED BY <1>1, <1>3, <1>5, <2>2, <2>3, <2>4, ValidatingSame, ReaderPlace, Numbers DEF PlaceInv
  <1>7. CASE /\ got' = [got EXCEPT ![r][n] = tbl[n % 2][KeyOf(r, n)]]
             /\ rpos' = [rpos EXCEPT ![r] = n + 1]
             /\ rpc' = [rpc EXCEPT ![r] = IF n + 1 \in Reads THEN "get" ELSE "draw"]
    <2>1. tbl[n % 2][KeyOf(r, n)] \in Records
      BY <1>4 DEF PlaceInv, TypeOK
    <2>2. /\ got' \in [Readers -> [Reads -> Records]]
          /\ rpos' \in [Readers -> 0 .. 2 * TxSize]
      <3>1. got \in [Readers -> [Reads -> Records]] /\ rpos \in [Readers -> 0 .. 2 * TxSize]
        BY DEF PlaceInv, TypeOK
      <3>2. n + 1 \in 0 .. 2 * TxSize
        BY <1>3, SizeAssumption
      <3> QED BY <1>7, <2>1, <3>1, <3>2
    <2>3. TypeOK'
      BY <1>5, <1>7, <2>2 DEF PlaceInv, TypeOK, writerVars
    <2>4. rpos'[r] = n + 1 /\ rpc'[r] = IF n + 1 \in Reads THEN "get" ELSE "draw"
      BY <1>7 DEF PlaceInv, TypeOK
    <2>5. QueryPlace(r)'
      BY <1>3, <1>5, <2>4, SizeAssumption DEF QueryPlace, Committed, writerVars, Reads
    <2> QED BY <1>1, <1>3, <1>5, <2>3, <2>4, <2>5, ValidatingSame, ReaderPlace, Numbers DEF PlaceInv
  <1> QED BY <1>2, <1>6, <1>7 DEF GetByKey

LEMMA ValidatingFinite ==
    ASSUME NEW t
    PROVE  IsFiniteSet(Validating(t)) /\ Cardinality(Validating(t)) \in Nat
  <1>1. IsFiniteSet(Validating(t))
    BY ReadersAssumption, FS_Subset DEF Validating
  <1> QED BY <1>1, FS_CardinalityType

LEMMA DrawValTSPlace ==
    ASSUME PlaceInv, NEW r \in Readers, DrawValTS(r)
    PROVE  PlaceInv'
  <1>1. ReaderStep(r)
    BY DEF ReaderStep
  <1>2. /\ nextTxID' = nextTxID + 2 /\ nextTxID + 1 <= MaxTS /\ nextTxID \in Nat /\ nextTxID >= 1
        /\ rts' = [rts EXCEPT ![r] = nextTxID + 1] /\ rpc' = [rpc EXCEPT ![r] = "lock"] /\ rpc[r] = "draw"
        /\ UNCHANGED <<usedSlots, activeTxs, tbl, committedWSs, active_readers, active_writer, writerVars,
                       rtx, rslot, rkeys, rpos, got, rat, failed, snaps, began, quiet, aborted>>
    BY DEF DrawValTS, PlaceInv, TypeOK, lockVars, histVars
  <1>3. TypeOK'
    <2>1. nextTxID + 1 \in TS /\ nextTxID + 2 \in 1 .. MaxTS + 1
      BY <1>2, BoundAssumption DEF TS
    <2> QED BY <1>2, <2>1 DEF PlaceInv, TypeOK, writerVars
  <1>4. rts'[r] = nextTxID + 1 /\ rpc'[r] = "lock"
    BY <1>2 DEF PlaceInv, TypeOK
  <1>5. QueryPlace(r)'
    <2>1. QueryPlace(r) /\ rtx[r] \in Nat /\ Committed' = Committed
      BY <1>2, Numbers DEF PlaceInv, Committed, writerVars
    <2> QED BY <1>2, <1>4, <2>1 DEF QueryPlace
  <1> QED BY <1>1, <1>2, <1>3, <1>4, <1>5, ValidatingSame, ReaderPlace

LEMMA LockSharedPlace ==
    ASSUME PlaceInv, NEW r \in Readers, LockShared(r)
    PROVE  PlaceInv'
  <1>1. ReaderStep(r)
    BY DEF ReaderStep
  <1>2. PICK t \in Tables : t = rat[r]
    BY DEF PlaceInv, TypeOK
  <1>3. /\ active_readers' = [active_readers EXCEPT ![t] = @ + 1] /\ rpc[r] = "lock"
        /\ rpc' = [rpc EXCEPT ![r] = "validate"]
        /\ UNCHANGED <<nextTxID, usedSlots, activeTxs, tbl, committedWSs, active_writer, writerVars, rtx,
                       rslot, rkeys, rpos, got, rat, rts, failed, snaps, began, quiet, aborted>>
    BY <1>2 DEF LockShared, ctxVars, histVars
  <1>4. TypeOK' /\ rpc'[r] = "validate"
    BY <1>3, SMTT(60) DEF PlaceInv, TypeOK, writerVars
  <1>5. QueryPlace(r)'
    <2>1. QueryPlace(r) /\ Committed' = Committed
      BY <1>3 DEF PlaceInv, Committed, writerVars
    <2> QED BY <1>3, <1>4, <2>1 DEF QueryPlace
  <1>6. ASSUME NEW u \in Tables
        PROVE  active_readers'[u] = Cardinality(Validating(u)')
    <2>1. \A z \in Readers : z # r => rpc'[z] = rpc[z]
      BY <1>3 DEF PlaceInv, TypeOK
    <2>2. active_readers[u] = Cardinality(Validating(u)) /\ active_readers[u] \in Nat
      BY DEF PlaceInv, LocksCounted, TypeOK
    <2>3. CASE u = t
      <3>1. Validating(u)' = Validating(u) \cup {r} /\ r \notin Validating(u)
        BY <1>2, <1>3, <1>4, <2>1, <2>3 DEF Validating
      <3>2. IsFiniteSet(Validating(u))
        BY ValidatingFinite
      <3>3. Cardinality(Validating(u)') = Cardinality(Validating(u)) + 1
        BY <3>1, <3>2, FS_AddElement
      <3> QED BY <1>3, <2>2, <2>3, <3>3 DEF PlaceInv, TypeOK
    <2>4. CASE u # t
      <3>1. Validating(u)' = Validating(u)
        BY <1>2, <1>3, <2>1, <2>4 DEF Validating
      <3> QED BY <1>3, <2>2, <2>4, <3>1 DEF PlaceInv, TypeOK
    <2> QED BY <2>3, <2>4
  <1>7. nextTxID <= nextTxID' /\ LocksCounted'
    BY <1>3, <1>6, Numbers DEF PlaceInv, LocksCounted
  <1> QED BY <1>1, <1>4, <1>5, <1>7, ReaderPlace

LEMMA ValidatePlace ==
    ASSUME PlaceInv, NEW r \in Readers, Validate(r)
    PROVE  PlaceInv'
  <1>1. ReaderStep(r)
    BY DEF ReaderStep
  <1>2. PICK t \in Tables : t = rat[r]
    BY DEF PlaceInv, TypeOK
  <1>3. /\ active_readers' = [active_readers EXCEPT ![t] = @ - 1] /\ rpc[r] = "validate"
        /\ rts' = [rts EXCEPT ![r] = 0]
        /\ failed' = [failed EXCEPT ![r] = @ \/ InConflict(r)]
        /\ UNCHANGED <<nextTxID, usedSlots, activeTxs, tbl, committedWSs, active_writer, writerVars, rtx,
                       rslot, rkeys, rpos, got, snaps, began, quiet, aborted>>
    BY <1>2 DEF Validate, UnlockShared, ctxVars, histVars
  <1>4. /\ rpc' \in [Readers -> {"idle", "begin", "slot", "register", "get", "draw",
                                 "lock", "validate", "restart", "done"}]
        /\ rat' \in [Readers -> Tables]
        /\ rat[r] = 0 => rpc'[r] = "draw" /\ rat'[r] = 1
        /\ rat[r] = 1 => rpc'[r] = (IF failed'[r] THEN "restart" ELSE "done") /\ rat'[r] = 0
        /\ \A z \in Readers : z # r => rpc'[z] = rpc[z] /\ rat'[z] = rat[z]
    <2>1. CASE /\ rat[r] = 0 /\ rat' = [rat EXCEPT ![r] = 1]
               /\ rpc' = [rpc EXCEPT ![r] = "draw"]
      BY <2>1, SMTT(60) DEF PlaceInv, TypeOK, Tables
    <2>2. CASE /\ rat[r] = 1 /\ rat' = [rat EXCEPT ![r] = 0]
               /\ rpc' = [rpc EXCEPT ![r] = IF failed'[r] THEN "restart" ELSE "done"]
      BY <2>2, SMTT(60) DEF PlaceInv, TypeOK, Tables
    <2> QED BY <2>1, <2>2 DEF Validate
  <1>5. /\ Validating(t)' = Validating(t) \ {r} /\ r \in Validating(t)
        /\ \A u \in Tables : u # t => Validating(u)' = Validating(u)
    <2>1. rpc'[r] # "validate"
      BY <1>2, <1>4 DEF Tables
    <2> QED BY <1>2, <1>3, <1>4, <2>1 DEF Validating
  <1>6. /\ active_readers[t] = Cardinality(Validating(t)) /\ active_readers[t] # 0
        /\ active_readers[t] \in Nat /\ Cardinality(Validating(t) \ {r}) = active_readers[t] - 1
    <2>1. active_readers[t] = Cardinality(Validating(t)) /\ active_readers[t] \in Nat
      BY DEF PlaceInv, LocksCounted, TypeOK
    <2>2. IsFiniteSet(Validating(t))
      BY ValidatingFinite
    <2>3. Cardinality(Validating(t) \ {r}) = Cardinality(Validating(t)) - 1
      BY <1>5, <2>2, FS_RemoveElement
    <2>4. Cardinality(Validating(t)) # 0
      BY <1>5, <2>2, FS_EmptySet
    <2> QED BY <2>1, <2>3, <2>4
  <1>7. LocksCounted' /\ active_readers' \in [Tables -> Nat]
    <2>1. active_readers \in [Tables -> Nat] /\ active_readers[t] - 1 \in Nat
      BY <1>6, SMTT(60) DEF PlaceInv, TypeOK
    <2>2. \A u \in Tables : active_readers[u] = Cardinality(Validating(u))
      BY DEF PlaceInv, LocksCounted
    <2>3. \A u \in Tables : active_readers'[u] = Cardinality(Validating(u)')
      BY <1>3, <1>5, <1>6, <2>1, <2>2
    <2> QED BY <1>3, <2>1, <2>3 DEF LocksCounted
  <1>8. TypeOK'
    <2>2. failed' \in [Readers -> BOOLEAN] /\ rts' \in [Readers -> TS]
      BY <1>3, BoundAssumption, SMTT(60) DEF PlaceInv, TypeOK, TS
    <2> QED BY <1>3, <1>4, <1>7, <2>2 DEF PlaceInv, TypeOK, writerVars
  <1>9. QueryPlace(r)'
    <2>1. QueryPlace(r) /\ Committed' = Committed /\ rts'[r] = 0 /\ 0 < nextTxID
      BY <1>3 DEF PlaceInv, Committed, writerVars, TypeOK
    <2>2. CASE rat[r] = 0
      BY <1>3, <1>4, <2>1, <2>2 DEF QueryPlace
    <2>3. CASE rat[r] = 1
      <3>1. rpc'[r] \in {"restart", "done"} /\ rat'[r] = 0 /\ (rpc'[r] = "done" => ~failed'[r])
        BY <1>4, <2>3
      <3> QED BY <1>3, <2>1, <3>1 DEF QueryPlace
    <2> QED BY <1>2, <2>2, <2>3 DEF Tables
  <1>10. nextTxID <= nextTxID'
    BY <1>3, Numbers DEF PlaceInv
  <1> QED BY <1>1, <1>7, <1>8, <1>9, <1>10, ReaderPlace

LEMMA EndReadPlace ==
    ASSUME PlaceInv, NEW r \in Readers, RestartRead(r) \/ FinishRead(r)
    PROVE  PlaceInv'
  <1>1. ReaderStep(r)
    BY DEF ReaderStep
  <1>2. /\ rpc[r] \in {"restart", "done"} /\ rpc'[r] \in {"begin", "idle"} /\ rpos'[r] = 0 /\ rtx'[r] = 0
        /\ UNCHANGED <<nextTxID, active_readers, rat, rts, wpc, snaps>>
        /\ rpc'[r] = "begin" => rkeys'[r] = rkeys[r]
        /\ ~failed'[r] /\ (began'[r] = began[r] \/ began'[r] = 1)
    BY ZenonT(60) DEF RestartRead, FinishRead, PlaceInv, QueryPlace, TypeOK, lockVars, writerVars, histVars
  <1>3. TypeOK'
    <2>1. NoReads \in [Reads -> Records] /\ 0 \in Slots /\ 0 \in TS /\ 0 \in 0 .. 2 * TxSize
      BY SlotZero, BoundAssumption, SizeAssumption DEF NoReads, Records, TS
    <2>2. CASE RestartRead(r)
      BY <2>1, <2>2 DEF RestartRead, PlaceInv, TypeOK, lockVars, writerVars, histVars
    <2>3. CASE FinishRead(r)
      BY <2>1, <2>3 DEF FinishRead, PlaceInv, TypeOK, lockVars, writerVars
    <2> QED BY <2>2, <2>3
  <1>4. QueryPlace(r)'
    <2>1. QueryPlace(r) /\ Committed' = Committed /\ 0 < nextTxID
      BY <1>2 DEF PlaceInv, Committed, TypeOK
    <2>2. began'[r] \in 1 .. Committed'
      <3>1. Committed \in Int
        BY Numbers DEF PlaceInv, Committed
      <3> QED BY <1>2, <2>1, <3>1 DEF QueryPlace
    <2>3. rat[r] = 0
      BY <1>2, <2>1 DEF QueryPlace
    <2> QED BY <1>2, <2>1, <2>2, <2>3 DEF QueryPlace
  <1>5. nextTxID <= nextTxID'
    BY <1>2, Numbers DEF PlaceInv
  <1> QED BY <1>1, <1>2, <1>3, <1>4, <1>5, ValidatingSame, ReaderPlace

LEMMA PlaceNext ==
    ASSUME PlaceInv, [Next]_vars
    PROVE  PlaceInv'
  <1>1. CASE WriterStep \/ UNCHANGED vars
    BY <1>1, WriterStepInv1
  <1>2. ASSUME NEW r \in Readers, ReaderStep(r)
        PROVE  PlaceInv'
    BY <1>2, StartReadPlace, NewTxPlace, GetByKeyPlace, DrawValTSPlace, LockSharedPlace,
       ValidatePlace, EndReadPlace DEF ReaderStep
  <1> QED BY <1>1, <1>2 DEF Next

-----------------------------------------------------------------------------
(***************************************************************************)
(* The slots.                                                              *)
(***************************************************************************)

LEMMA UsedFinite ==
    ASSUME PlaceInv, NEW S
    PROVE  IsFiniteSet(usedSlots \ S) /\ Cardinality(usedSlots \ S) \in Nat
  <1>1. IsFiniteSet(Slots)
    BY SlotZero, FS_Interval DEF Slots
  <1>2. usedSlots \ S \subseteq Slots
    BY DEF PlaceInv, TypeOK
  <1>3. IsFiniteSet(usedSlots \ S)
    BY <1>1, <1>2, FS_Subset
  <1> QED BY <1>3, FS_CardinalityType

LEMMA SlotsSame ==
    ASSUME SlotsOwned, Taken' = Taken, Writers' = Writers, \A r \in Taken : rslot'[r] = rslot[r],
           usedSlots' = usedSlots, aborted' = aborted
    PROVE  SlotsOwned'
  <1>1. Owned' = Owned
    BY DEF Owned
  <1> QED BY <1>1 DEF SlotsOwned

LEMMA TransactionBeginSlots ==
    ASSUME PlaceInv, SlotInv, TransactionBegin
    PROVE  SlotInv'
  <1>1. PICK s \in Slots \ usedSlots : /\ wslot' = s /\ usedSlots' = usedSlots \cup {s}
                                       /\ activeTxs' = [activeTxs EXCEPT ![s] = nextTxID]
    BY DEF TransactionBegin, FreeSlot
  <1>2. /\ wpc = "idle" /\ wpc' = "active" /\ wtx' = nextTxID
        /\ UNCHANGED <<rpc, rslot, rtx, aborted>>
    BY DEF TransactionBegin, readerVars
  <1>3. Taken' = Taken /\ Registered' = Registered /\ Writers = {} /\ Writers' = {s}
    BY <1>1, <1>2 DEF Taken, Registered, Writers
  <1>4. Owned' = Owned \cup {s}
    BY <1>2, <1>3 DEF Owned
  <1>5. usedSlots' \ Owned' = usedSlots \ Owned
    BY <1>1, <1>4
  <1>6. \A r \in Taken : rslot[r] \in usedSlots
    BY DEF SlotInv, SlotsOwned, Owned
  <1>7. SlotsOwned'
    BY <1>1, <1>2, <1>3, <1>4, <1>5, <1>6 DEF SlotInv, SlotsOwned
  <1>8. \A r \in Registered : activeTxs'[rslot[r]] = activeTxs[rslot[r]]
    BY <1>1, <1>6 DEF PlaceInv, TypeOK, Registered
  <1>9. activeTxs'[s] = nextTxID
    BY <1>1 DEF PlaceInv, TypeOK
  <1> QED BY <1>1, <1>2, <1>3, <1>7, <1>8, <1>9 DEF SlotInv, SlotsShow

LEMMA TransactionAbortSlots ==
    ASSUME PlaceInv, SlotInv, TransactionAbort
    PROVE  SlotInv'
  <1>1. /\ wpc = "active" /\ wpc' = "idle" /\ aborted' = aborted + 1
        /\ UNCHANGED <<rpc, rslot, rtx, usedSlots, activeTxs>>
    BY DEF TransactionAbort, readerVars, ctxVars
  <1>2. Taken' = Taken /\ Registered' = Registered /\ Writers = {wslot} /\ Writers' = {}
    BY <1>1 DEF Taken, Registered, Writers
  <1>3. Owned' = {rslot[r] : r \in Taken} /\ Owned = Owned' \cup {wslot}
    BY <1>1, <1>2 DEF Owned
  <1>4. wslot \notin Owned' /\ wslot \in usedSlots
    BY <1>2, <1>3 DEF SlotInv, SlotsOwned
  <1>5. usedSlots \ Owned' = (usedSlots \ Owned) \cup {wslot} /\ wslot \notin usedSlots \ Owned
    BY <1>3, <1>4
  <1>6. Cardinality(usedSlots \ Owned') = Cardinality(usedSlots \ Owned) + 1
    <2>1. IsFiniteSet(usedSlots \ Owned)
      BY UsedFinite
    <2> QED BY <1>5, <2>1, FS_AddElement
  <1>7. SlotsOwned'
    BY <1>1, <1>2, <1>3, <1>6 DEF SlotInv, SlotsOwned
  <1> QED BY <1>1, <1>2, <1>7 DEF SlotInv, SlotsShow

LEMMA RemoveTxSlots ==
    ASSUME PlaceInv, SlotInv, RemoveTx
    PROVE  SlotInv'
  <1>1. /\ wpc = "remove" /\ wpc' = "idle" /\ usedSlots' = usedSlots \ {wslot}
        /\ UNCHANGED <<rpc, rslot, rtx, aborted, activeTxs>>
    BY DEF RemoveTx, readerVars, histVars
  <1>2. Taken' = Taken /\ Registered' = Registered /\ Writers = {wslot} /\ Writers' = {}
    BY <1>1 DEF Taken, Registered, Writers
  <1>3. Owned' = {rslot[r] : r \in Taken} /\ Owned = Owned' \cup {wslot}
    BY <1>1, <1>2 DEF Owned
  <1>4. wslot \notin Owned' /\ wslot \in usedSlots
    BY <1>2, <1>3 DEF SlotInv, SlotsOwned
  <1>5. usedSlots' \ Owned' = usedSlots \ Owned /\ Owned' \subseteq usedSlots'
    BY <1>1, <1>3, <1>4 DEF SlotInv, SlotsOwned
  <1>6. SlotsOwned'
    BY <1>1, <1>2, <1>5 DEF SlotInv, SlotsOwned
  <1> QED BY <1>1, <1>2, <1>6 DEF SlotInv, SlotsShow

\* The other steps of the writer leave the slots.
LEMMA WriterGoesOn ==
    ASSUME WriterStep \/ UNCHANGED vars, ~TransactionBegin, ~TransactionAbort, ~RemoveTx
    PROVE  /\ UNCHANGED <<wtx, wslot, usedSlots, activeTxs, quiet, aborted>>
           /\ wpc = "idle" <=> wpc' = "idle"
  <1> USE DEF ctxVars, histVars
  <1>1. ASSUME NEW k \in Keys, NEW v \in Values, Insert(k, v)
        PROVE  /\ UNCHANGED <<wtx, wslot, usedSlots, activeTxs, quiet, aborted>>
               /\ wpc = "idle" <=> wpc' = "idle"
    BY <1>1 DEF Insert
  <1>2. CASE TransactionPreCommit \/ DrawTS \/ LockExclusive \/ SaveWriteSet
    BY <1>2 DEF TransactionPreCommit, DrawTS, LockExclusive, SaveWriteSet
  <1>3. CASE Write \/ EndWrite \/ StampEnd \/ ScanSlot
    BY <1>3 DEF Write, EndWrite, StampEnd, ScanSlot
  <1>4. CASE EndScan \/ EraseWriteSets
    BY <1>4 DEF EndScan, EraseWriteSets, NextTable
  <1>5. CASE UNCHANGED vars
    BY <1>5 DEF vars, writerVars
  <1> QED BY <1>1, <1>2, <1>3, <1>4, <1>5 DEF WriterStep

LEMMA WriterSlots ==
    ASSUME PlaceInv, SlotInv, WriterStep \/ UNCHANGED vars
    PROVE  SlotInv'
  <1>1. CASE TransactionBegin \/ TransactionAbort \/ RemoveTx
    BY <1>1, TransactionBeginSlots, TransactionAbortSlots, RemoveTxSlots
  <1>2. CASE ~(TransactionBegin \/ TransactionAbort \/ RemoveTx)
    <2>1. /\ UNCHANGED <<wtx, wslot, usedSlots, activeTxs, aborted>>
          /\ wpc = "idle" <=> wpc' = "idle"
      BY <1>2, WriterGoesOn
    <2>2. UNCHANGED <<rpc, rslot, rtx>>
      BY WriterFrame DEF readerVars
    <2>3. Taken' = Taken /\ Registered' = Registered /\ Writers' = Writers
      BY <2>1, <2>2 DEF Taken, Registered, Writers
    <2>4. SlotsOwned'
      BY <2>1, <2>2, <2>3, SlotsSame DEF SlotInv
    <2> QED BY <2>1, <2>2, <2>3, <2>4 DEF SlotInv, SlotsShow
  <1> QED BY <1>1, <1>2

LEMMA TakeSlotSlots ==
    ASSUME PlaceInv, SlotInv, NEW r \in Readers, TakeSlot(r)
    PROVE  SlotInv'
  <1>1. PICK s \in Slots \ usedSlots : usedSlots' = usedSlots \cup {s} /\ rslot' = [rslot EXCEPT ![r] = s]
    BY DEF TakeSlot, FreeSlot
  <1>2. /\ rpc[r] = "slot" /\ rpc' = [rpc EXCEPT ![r] = "register"]
        /\ UNCHANGED <<activeTxs, rtx, aborted, wpc, wtx, wslot>>
    BY DEF TakeSlot, writerVars, histVars
  <1>3. /\ rslot'[r] = s /\ \A z \in Readers : z # r => rslot'[z] = rslot[z]
        /\ rpc'[r] = "register" /\ \A z \in Readers : z # r => rpc'[z] = rpc[z]
    BY <1>1, <1>2 DEF PlaceInv, TypeOK
  <1>4. /\ Taken' = Taken \cup {r} /\ r \notin Taken /\ Registered' = Registered /\ r \notin Registered
        /\ Writers' = Writers
    BY <1>2, <1>3 DEF Taken, Registered, Writers
  <1>5. Owned' = Owned \cup {s}
    BY <1>3, <1>4 DEF Owned, Taken
  <1>6. usedSlots' \ Owned' = usedSlots \ Owned
    BY <1>1, <1>5
  <1>7. /\ \A z \in Taken : rslot[z] \in usedSlots /\ rslot'[z] = rslot[z]
        /\ Writers \subseteq usedSlots
    BY <1>3, <1>4 DEF SlotInv, SlotsOwned, Owned, Taken
  <1>8. SlotsOwned'
    BY <1>1, <1>2, <1>3, <1>4, <1>5, <1>6, <1>7, SMTT(60) DEF SlotInv, SlotsOwned
  <1>9. \A z \in Registered : rslot'[z] = rslot[z]
    BY <1>7 DEF Registered
  <1> QED BY <1>2, <1>4, <1>8, <1>9 DEF SlotInv, SlotsShow

LEMMA RegisterSlots ==
    ASSUME PlaceInv, SlotInv, NEW r \in Readers, Register(r)
    PROVE  SlotInv'
  <1>1. /\ rpc[r] = "register" /\ rpc' = [rpc EXCEPT ![r] = "get"]
        /\ activeTxs' = [activeTxs EXCEPT ![rslot[r]] = rtx[r]]
        /\ UNCHANGED <<usedSlots, rslot, rtx, aborted, wpc, wtx, wslot>>
    BY DEF Register, writerVars, histVars
  <1>2. rpc'[r] = "get" /\ \A z \in Readers : z # r => rpc'[z] = rpc[z]
    BY <1>1 DEF PlaceInv, TypeOK
  <1>3. Taken' = Taken /\ r \in Taken /\ Registered' = Registered \cup {r} /\ Writers' = Writers
    BY <1>1, <1>2 DEF Taken, Registered, Writers
  <1>4. SlotsOwned'
    BY <1>1, <1>3, SlotsSame DEF SlotInv
  <1>5. activeTxs'[rslot[r]] = rtx[r]
    BY <1>1 DEF PlaceInv, TypeOK
  <1>6. \A z \in Registered : z # r => activeTxs'[rslot[z]] = activeTxs[rslot[z]]
    BY <1>1, <1>3 DEF PlaceInv, TypeOK, SlotInv, SlotsOwned, Registered, Taken
  <1>7. wpc # "idle" => activeTxs'[wslot] = activeTxs[wslot]
    BY <1>1, <1>3 DEF PlaceInv, TypeOK, SlotInv, SlotsOwned, Writers
  <1> QED BY <1>1, <1>3, <1>4, <1>5, <1>6, <1>7 DEF SlotInv, SlotsShow

\* A slot is given back only by its owner.
LEMMA EndReadSlots ==
    ASSUME PlaceInv, SlotInv, NEW r \in Readers, RestartRead(r) \/ FinishRead(r)
    PROVE  SlotInv'
  <1>1. /\ rpc[r] \in {"restart", "done"} /\ rpc'[r] \in {"begin", "idle"}
        /\ usedSlots' = usedSlots \ {rslot[r]}
        /\ UNCHANGED <<activeTxs, aborted, wpc, wtx, wslot>>
    BY DEF RestartRead, FinishRead, PlaceInv, TypeOK, writerVars, histVars
  <1>2. \A z \in Readers : z # r => rpc'[z] = rpc[z] /\ rslot'[z] = rslot[z] /\ rtx'[z] = rtx[z]
    BY ReaderAlone DEF ReaderStep, PlaceInv
  <1>3. /\ Taken' = Taken \ {r} /\ r \in Taken /\ Registered' = Registered \ {r}
        /\ Writers' = Writers /\ Registered' \subseteq Taken' /\ Taken' \subseteq Readers
    BY <1>1, <1>2 DEF Taken, Registered, Writers
  <1>4. \A z \in Taken' : rslot'[z] = rslot[z] /\ rslot[z] # rslot[r]
    BY <1>2, <1>3 DEF SlotInv, SlotsOwned
  <1>5. Owned' = Owned \ {rslot[r]}
    <2>1. rslot[r] \notin Writers
      BY <1>3 DEF SlotInv, SlotsOwned
    <2>2. \A z \in Taken : z = r \/ (z \in Taken' /\ rslot[z] # rslot[r])
      BY <1>3, <1>4
    <2> QED BY <1>3, <1>4, <2>1, <2>2 DEF Owned
  <1>6. usedSlots' \ Owned' = usedSlots \ Owned /\ Owned' \subseteq usedSlots'
    <2>1. rslot[r] \in Owned
      BY <1>3 DEF Owned
    <2> QED BY <1>1, <1>5, <2>1 DEF SlotInv, SlotsOwned
  <1>7. SlotsOwned'
    BY <1>1, <1>3, <1>4, <1>6, SMTT(60) DEF SlotInv, SlotsOwned
  <1> QED BY <1>1, <1>2, <1>3, <1>4, <1>7 DEF SlotInv, SlotsShow

LEMMA ReaderSlots ==
    ASSUME PlaceInv, SlotInv, NEW r \in Readers, ReaderStep(r)
    PROVE  SlotInv'
  <1>1. CASE TakeSlot(r) \/ Register(r) \/ RestartRead(r) \/ FinishRead(r)
    BY <1>1, TakeSlotSlots, RegisterSlots, EndReadSlots
  <1>2. CASE ~(TakeSlot(r) \/ Register(r) \/ RestartRead(r) \/ FinishRead(r))
    <2> DEFINE Stays == /\ UNCHANGED <<usedSlots, activeTxs, rslot>>
                        /\ \/ /\ rpc[r] \in {"idle", "begin"}
                              /\ rpc'[r] \in {"begin", "slot"}
                           \/ /\ rpc[r] \in {"get", "draw", "lock", "validate"}
                              /\ rpc'[r] \in {"get", "draw", "lock", "validate", "restart", "done"}
                              /\ rtx' = rtx
    <2>1. Stays
      <3> USE <1>2 DEF ctxVars, histVars
      <3>1. ASSUME NEW ks \in [1 .. TxSize -> Keys], StartRead(r, ks)
            PROVE  Stays
        BY <3>1 DEF StartRead, PlaceInv, TypeOK
      <3>2. CASE NewTx(r)
        BY <3>2 DEF NewTx, PlaceInv, TypeOK
      <3>3. CASE GetByKey(r)
        BY <3>3 DEF GetByKey, PlaceInv, TypeOK
      <3>4. CASE DrawValTS(r) \/ LockShared(r)
        <4>1. rpc[r] \in {"draw", "lock"} /\ rpc'[r] \in {"lock", "validate"}
          BY <3>4 DEF DrawValTS, LockShared, PlaceInv, TypeOK
        <4> QED BY <3>4, <4>1 DEF DrawValTS, LockShared
      <3>5. CASE Validate(r)
        <4>1. rpc[r] = "validate" /\ rpc'[r] \in {"draw", "restart", "done"}
          <5>1. \/ rpc' = [rpc EXCEPT ![r] = "draw"]
                \/ rpc' = [rpc EXCEPT ![r] = IF failed'[r] THEN "restart" ELSE "done"]
            BY <3>5 DEF Validate
          <5> QED BY <3>5, <5>1 DEF Validate, PlaceInv, TypeOK
        <4> QED BY <3>5, <4>1 DEF Validate
      <3> QED BY <3>1, <3>2, <3>3, <3>4, <3>5 DEF ReaderStep
    <2>2. \A z \in Readers : z # r => rpc'[z] = rpc[z] /\ rtx'[z] = rtx[z]
      BY ReaderAlone DEF PlaceInv
    <2>3. UNCHANGED <<wpc, wtx, wslot, aborted>>
      BY ReaderFrame DEF writerVars
    <2>4. Taken' = Taken /\ Registered' = Registered /\ Writers' = Writers
      BY <2>1, <2>2, <2>3 DEF Taken, Registered, Writers
    <2>5. SlotsOwned'
      BY <2>1, <2>3, <2>4, SlotsSame DEF SlotInv
    <2>6. \A z \in Registered : rtx'[z] = rtx[z]
      BY <2>1, <2>2 DEF Registered, Taken
    <2> QED BY <2>1, <2>3, <2>4, <2>5, <2>6 DEF SlotInv, SlotsShow
  <1> QED BY <1>1, <1>2

LEMMA SlotNext ==
    ASSUME PlaceInv, SlotInv, [Next]_vars
    PROVE  SlotInv'
  BY WriterSlots, ReaderSlots DEF Next

-----------------------------------------------------------------------------
(***************************************************************************)
(* The saved write sets.                                                   *)
(***************************************************************************)

\* The clock runs on; nothing else happens to the write sets of table t.
LEMMA TableSetsSame ==
    ASSUME PlaceInv, PlaceInv', NEW t \in Tables, TableSets(t), committedWSs'[t] = committedWSs[t],
           wtx' = wtx, nextTxID <= nextTxID', wpc = "idle" <=> wpc' = "idle",
           Saved(t)' <=> Saved(t), Open(t)' <=> Open(t)
    PROVE  TableSets(t)'
  <1>1. nextTxID \in Int /\ nextTxID' \in Int /\ wtx \in Int
    <2>1. nextTxID' \in Int
      BY DEF PlaceInv, TypeOK
    <2> QED BY <2>1, Numbers DEF PlaceInv
  <1>2. \A n \in 1 .. Len(committedWSs[t]) :
            committedWSs[t][n].endTS \in Int /\ committedWSs[t][n].valTS \in Int
    BY WriteSetType DEF PlaceInv
  <1>3. Len(committedWSs[t]) \in Nat
    BY DEF PlaceInv, TypeOK
  <1>4. Saved(t) => 1 \in 1 .. Len(committedWSs[t])
    BY <1>3 DEF TableSets
  <1> QED BY <1>1, <1>2, <1>4 DEF TableSets

\* The front of the write sets is the running transaction's: no slot shows
\* a transaction younger than it, so that it does not expire.
LEMMA FrontNotExpired ==
    ASSUME PlaceInv, WriteSetInv, wpc \in Scanning, scan = {}
    PROVE  1 \notin Expired(at)
  <1>1. at \in Tables /\ Saved(at) /\ ~Open(at) /\ oldest <= wtx
    <2>1. at \in Tables /\ oldest <= wtx
      BY DEF PlaceInv, TypeOK, WriteSetInv, WriterClock
    <2>2. Saved(at)
      BY DEF Saved, Committing
    <2>3. at = 0 \/ at = 1
      BY <2>1 DEF Tables
    <2>4. ~Open(at)
      BY <2>3 DEF Open, Committing, Scanning, Saving
    <2> QED BY <2>1, <2>2, <2>4
  <1>2. PICK t \in Tables : t = at
    BY <1>1
  <1>3. /\ wtx < committedWSs[t][1].valTS /\ committedWSs[t][1].valTS < committedWSs[t][1].endTS
        /\ Len(committedWSs[t]) >= 1
    BY <1>1, <1>2 DEF WriteSetInv, TableSets
  <1>4. 1 \in 1 .. Len(committedWSs[t])
    BY <1>3 DEF PlaceInv, TypeOK
  <1>5. committedWSs[t][1].valTS \in Int /\ committedWSs[t][1].endTS \in Int /\ wtx \in Int /\ oldest \in Int
    BY <1>4, WriteSetType, Numbers DEF PlaceInv
  <1> QED BY <1>1, <1>2, <1>3, <1>5 DEF Expired

LEMMA BeginsWriteSets ==
    ASSUME PlaceInv, PlaceInv', WriteSetInv, TransactionBegin \/ TransactionAbort \/ RemoveTx
    PROVE  WriteSetInv'
  <1>1. /\ committedWSs' = committedWSs /\ oldest' = oldest
        /\ \/ wpc = "idle" /\ wpc' = "active" /\ wtx' = nextTxID /\ nextTxID' = nextTxID + 1
           \/ wpc \in {"active", "remove"} /\ wpc' = "idle" /\ nextTxID' = nextTxID
    BY DEF TransactionBegin, TransactionAbort, RemoveTx, ctxVars
  <1>2. WriteSetsOrdered'
    BY <1>1 DEF WriteSetInv, WriteSetsOrdered
  <1>3. WriterClock'
    BY <1>1 DEF WriteSetInv, WriterClock, Scanning
  <1>4. ASSUME NEW t \in Tables
        PROVE  TableSets(t)'
    <2>1. nextTxID \in Int /\ wtx \in Int /\ wtx < nextTxID
      BY Numbers DEF PlaceInv
    <2>2. \A n \in 1 .. Len(committedWSs[t]) :
              committedWSs[t][n].endTS \in Int /\ committedWSs[t][n].valTS \in Int
      BY WriteSetType DEF PlaceInv
    <2>3. ~Saved(t)' /\ ~Open(t)' /\ ~Open(t)
      BY <1>1 DEF Saved, Open, Committing, Scanning, Saving
    <2>4. ASSUME NEW n \in 1 .. Len(committedWSs[t])
          PROVE  /\ committedWSs[t][n].valTS < nextTxID'
                 /\ committedWSs[t][n].endTS < IF wpc' = "idle" THEN nextTxID' ELSE wtx'
      <3>1. committedWSs[t][n].valTS < nextTxID /\ committedWSs[t][n].endTS < nextTxID
        <4>1. CASE ~Saved(t) \/ n > 1
          BY <2>1, <2>2, <4>1 DEF WriteSetInv, TableSets
        <4>2. CASE Saved(t) /\ n = 1
          BY <2>1, <2>2, <2>3, <4>2 DEF WriteSetInv, TableSets
        <4> QED BY <4>1, <4>2
      <3> QED BY <1>1, <2>1, <2>2, <3>1
    <2> QED BY <1>1, <2>3, <2>4 DEF TableSets
  <1> QED BY <1>2, <1>3, <1>4 DEF WriteSetInv

\* The steps that leave the write sets and what is known of them.
LEMMA GoesOnWriteSets ==
    ASSUME PlaceInv, PlaceInv', SlotInv, WriteSetInv,
           \/ \E k \in Keys, v \in Values : Insert(k, v)
           \/ TransactionPreCommit \/ DrawTS \/ LockExclusive \/ Write \/ EndWrite \/ ScanSlot
           \/ UNCHANGED vars
    PROVE  WriteSetInv'
  <1>1. /\ committedWSs' = committedWSs /\ wtx' = wtx /\ nextTxID <= nextTxID' /\ wslot' = wslot
        /\ wpc = "idle" <=> wpc' = "idle"
    <2>1. nextTxID \in Int
      BY Numbers DEF PlaceInv
    <2> QED BY <2>1 DEF Insert, TransactionPreCommit, DrawTS, LockExclusive, Write, EndWrite, ScanSlot,
                        ctxVars, writerVars, vars
  <1>2. WriteSetsOrdered'
    BY <1>1 DEF WriteSetInv, WriteSetsOrdered
  <1>3. ASSUME NEW t \in Tables
        PROVE  Saved(t)' <=> Saved(t)
    BY DEF Insert, TransactionPreCommit, DrawTS, LockExclusive, Write, EndWrite, ScanSlot,
           writerVars, vars, Saved, Committing, Scanning, Saving
  <1>4. ASSUME NEW t \in Tables
        PROVE  Open(t)' <=> Open(t)
    BY DEF Insert, TransactionPreCommit, DrawTS, LockExclusive, Write, EndWrite, ScanSlot,
           writerVars, vars, Open, Committing, Scanning, Saving
  <1>5. \A t \in Tables : TableSets(t)'
    BY <1>1, <1>3, <1>4, TableSetsSame DEF WriteSetInv
  <1>6. WriterClock'
    <2>1. CASE DrawTS
      <3>1. wpc' \in {"saveLock", "stamp"} /\ wts' = nextTxID /\ at' = at /\ oldest' = oldest /\ wpc \notin Scanning
        BY <2>1 DEF DrawTS, Scanning
      <3>2. wtx < nextTxID
        BY DEF PlaceInv
      <3>3. wpc' = "stamp" => committedWSs[at][1].valTS < nextTxID
        <4> SUFFICES ASSUME wpc' = "stamp"
                     PROVE  committedWSs[at][1].valTS < nextTxID
          OBVIOUS
        <4>1. wpc = "endTS" /\ at \in Tables
          BY <2>1 DEF DrawTS, PlaceInv, TypeOK
        <4>2. Saved(at)
          BY <4>1 DEF Saved, Committing
        <4>3. 1 \in 1 .. Len(committedWSs[at])
          BY <4>1, <4>2 DEF WriteSetInv, TableSets, PlaceInv, TypeOK
        <4> QED BY <4>1, <4>3 DEF WriteSetInv, TableSets
      <3> QED BY <1>1, <3>1, <3>2, <3>3 DEF WriteSetInv, WriterClock, Scanning
    <2>2. CASE ScanSlot
      <3>1. PICK s \in scan : /\ scan' = scan \ {s}
                              /\ oldest' = IF activeTxs[s] < oldest THEN activeTxs[s] ELSE oldest
        BY <2>2 DEF ScanSlot
      <3>2. wpc = "scan" /\ wpc' = "scan" /\ wts' = wts
        BY <2>2 DEF ScanSlot
      <3>4. activeTxs[s] \in Int /\ oldest \in Int /\ wtx \in Int
        <4>1. s \in Slots
          BY DEF PlaceInv, TypeOK
        <4> QED BY <4>1, Numbers DEF PlaceInv
      <3>5. s = wslot => activeTxs[s] = wtx
        BY <3>2 DEF SlotInv, SlotsShow
      <3> QED BY <1>1, <3>1, <3>2, <3>4, <3>5 DEF WriteSetInv, WriterClock, Scanning
    <2>3. CASE LockExclusive
      BY <1>1, <2>3 DEF LockExclusive, WriteSetInv, WriterClock, Scanning
    <2>4. CASE TransactionPreCommit \/ Write \/ EndWrite
      BY <1>1, <2>4 DEF TransactionPreCommit, Write, EndWrite, WriteSetInv, WriterClock, Scanning
    <2>5. CASE \E k \in Keys, v \in Values : Insert(k, v)
      BY <1>1, <2>5 DEF Insert, WriteSetInv, WriterClock, Scanning
    <2>6. CASE UNCHANGED vars
      BY <1>1, <2>6 DEF vars, writerVars, WriteSetInv, WriterClock
    <2> QED BY <2>1, <2>2, <2>3, <2>4, <2>5, <2>6
  <1> QED BY <1>2, <1>5, <1>6 DEF WriteSetInv

LEMMA SaveWriteSets ==
    ASSUME PlaceInv, PlaceInv', WriteSetInv, SaveWriteSet
    PROVE  WriteSetInv'
  <1>1. PICK t \in Tables : t = at
    BY DEF PlaceInv, TypeOK
  <1> DEFINE s == committedWSs[t]
             z == committedWSs'[t]
  <1>2. /\ wpc = "save" /\ committedWSs' = [committedWSs EXCEPT ![t] = Enter(@, KeysOf(writeSet))]
        /\ wtx' = wtx /\ nextTxID' = nextTxID /\ at' = 1 - t /\ oldest' = oldest
        /\ \/ t = 1 /\ wpc' = "valTS"
           \/ t = 0 /\ wpc' = "write"
    BY <1>1 DEF SaveWriteSet, ctxVars
  <1>3. s \in Seq(WriteSets) /\ KeysOf(writeSet) \in SUBSET Keys /\ wts \in TS
    <2>1. writeSet \in Seq(Keys \X Values)
      BY DEF PlaceInv, TypeOK
    <2>2. \A n \in 1 .. Len(writeSet) : writeSet[n] \in Keys \X Values
      BY <2>1
    <2>3. KeysOf(writeSet) \in SUBSET Keys
      BY <2>2 DEF KeysOf
    <2>4. s \in Seq(WriteSets) /\ wts \in TS
      BY DEF PlaceInv, TypeOK
    <2> QED BY <2>3, <2>4
  <1>4. z = Enter(s, KeysOf(writeSet)) /\ \A u \in Tables : u # t => committedWSs'[u] = committedWSs[u]
    BY <1>2 DEF PlaceInv, TypeOK
  <1>5. /\ Len(z) = Len(s) + 1 /\ Len(s) \in Nat /\ z[1].valTS = wts /\ z[1].endTS = DTS_INF
        /\ \A n \in 2 .. Len(z) : n - 1 \in 1 .. Len(s) /\ z[n] = s[n - 1]
    <2> HIDE DEF s, z
    <2>1. /\ Len(z) = Len(s) + 1 /\ Len(s) \in Nat
          /\ z[1] = [keys |-> KeysOf(writeSet), valTS |-> wts, endTS |-> DTS_INF]
          /\ \A n \in 2 .. Len(s) + 1 : z[n] = s[n - 1]
      BY <1>3, <1>4, EnterFacts
    <2>2. \A n \in 2 .. Len(z) : n - 1 \in 1 .. Len(s) /\ z[n] = s[n - 1]
      BY <2>1
    <2> QED BY <2>1, <2>2
  <1>6. \A n \in 1 .. Len(s) : s[n].endTS \in Int /\ s[n].valTS \in Int
    BY WriteSetType DEF PlaceInv
  <1>7. ~Saved(t) /\ Saved(t)' /\ Open(t)'
    BY <1>1, <1>2 DEF Tables, Saved, Open, Committing, Scanning, Saving
  <1>8. nextTxID \in Int /\ wtx \in Int /\ wts \in Int /\ wtx < wts /\ wts < nextTxID
    BY <1>2, Numbers DEF PlaceInv, WriteSetInv, WriterClock
  <1>9. \A n \in 1 .. Len(s) : s[n].endTS < wtx /\ s[n].valTS < nextTxID
    BY <1>2, <1>7 DEF WriteSetInv, TableSets
  <1> HIDE DEF s, z
  <1>10. \A n \in 2 .. Len(z) : /\ z[n].endTS < wtx /\ z[n].valTS < nextTxID
                                /\ z[n].endTS \in Int /\ z[n].valTS \in Int
    BY <1>5, <1>6, <1>9
  <1>11. TableSets(t)'
    <2>1. \A n \in 1 .. Len(z) : /\ z[n].valTS < nextTxID
                                 /\ n > 1 => z[n].endTS < wtx
      <3> SUFFICES ASSUME NEW n \in 1 .. Len(z)
                   PROVE  z[n].valTS < nextTxID /\ (n > 1 => z[n].endTS < wtx)
        OBVIOUS
      <3>1. CASE n = 1
        BY <1>5, <1>8, <3>1
      <3>2. CASE n # 1
        <4>1. n \in 2 .. Len(z)
          BY <1>5, <3>2
        <4> QED BY <1>10, <4>1
      <3> QED BY <3>1, <3>2
    <2>2. Len(z) >= 1 /\ wtx < z[1].valTS /\ wpc' # "idle"
      BY <1>2, <1>5, <1>8
    <2> QED BY <1>2, <1>5, <1>7, <2>1, <2>2 DEF TableSets, z
  <1>12. ASSUME NEW u \in Tables, u # t
         PROVE  TableSets(u)'
    <2>1. (Saved(u)' <=> Saved(u)) /\ (Open(u)' <=> Open(u))
      BY <1>1, <1>2, <1>12 DEF Tables, Saved, Open, Committing, Scanning, Saving
    <2>2. nextTxID <= nextTxID' /\ wpc' # "idle" /\ wpc # "idle"
      BY <1>2, <1>8
    <2> QED BY <1>2, <1>4, <1>12, <2>1, <2>2, TableSetsSame DEF WriteSetInv
  <1>13. WriteSetsOrdered'
    <2> SUFFICES ASSUME NEW u \in Tables, NEW m \in 1 .. Len(committedWSs'[u]),
                        NEW n \in 1 .. Len(committedWSs'[u]), m < n
                 PROVE  committedWSs'[u][n].endTS < committedWSs'[u][m].valTS
      BY DEF WriteSetsOrdered
    <2>1. CASE u # t
      BY <1>4, <2>1 DEF WriteSetInv, WriteSetsOrdered
    <2>2. CASE u = t
      <3>1. m \in 1 .. Len(z) /\ n \in 2 .. Len(z)
        BY <1>5, <2>2 DEF z
      <3>2. CASE m = 1
        BY <1>5, <1>8, <1>10, <2>2, <3>1, <3>2, SMTT(60) DEF z
      <3>3. CASE m # 1
        <4>1. m \in 2 .. Len(z) /\ m - 1 \in 1 .. Len(s) /\ n - 1 \in 1 .. Len(s) /\ m - 1 < n - 1
          BY <1>5, <3>1, <3>3
        <4>2. s[n - 1].endTS < s[m - 1].valTS
          BY <4>1 DEF WriteSetInv, WriteSetsOrdered, s
        <4> QED BY <1>5, <2>2, <3>1, <4>1, <4>2 DEF z
      <3> QED BY <3>2, <3>3
    <2> QED BY <2>1, <2>2
  <1>14. WriterClock'
    BY <1>2 DEF WriteSetInv, WriterClock, Scanning
  <1> QED BY <1>11, <1>12, <1>13, <1>14 DEF WriteSetInv

LEMMA StampWriteSets ==
    ASSUME PlaceInv, PlaceInv', SlotInv, WriteSetInv, StampEnd
    PROVE  WriteSetInv'
  <1>1. PICK t \in Tables : t = at
    BY DEF PlaceInv, TypeOK
  <1> DEFINE s == committedWSs[t]
             z == committedWSs'[t]
  <1>2. /\ wpc = "stamp" /\ committedWSs' = [committedWSs EXCEPT ![t][1].endTS = wts]
        /\ wtx' = wtx /\ nextTxID' = nextTxID /\ at' = t /\ oldest' = oldest
        /\ wpc' = "scan" /\ scan' = usedSlots /\ wslot' = wslot
    BY <1>1 DEF StampEnd, ctxVars
  <1>3. s \in Seq(WriteSets) /\ wts \in TS
    BY DEF PlaceInv, TypeOK
  <1>4. z = [s EXCEPT ![1].endTS = wts] /\ \A u \in Tables : u # t => committedWSs'[u] = committedWSs[u]
    BY <1>2 DEF PlaceInv, TypeOK
  <1>5. /\ Len(z) = Len(s) /\ Len(s) \in Nat
        /\ \A n \in 1 .. Len(s) : /\ z[n].valTS = s[n].valTS
                                  /\ z[n].endTS = IF n = 1 THEN wts ELSE s[n].endTS
    BY <1>3, <1>4, StampFacts
  <1>6. \A n \in 1 .. Len(s) : s[n].endTS \in Int /\ s[n].valTS \in Int
    BY WriteSetType DEF PlaceInv
  <1>7. Saved(t) /\ Saved(t)' /\ ~Open(t)'
    BY <1>1, <1>2 DEF Tables, Saved, Open, Committing, Scanning, Saving
  <1>8. /\ nextTxID \in Int /\ wtx \in Int /\ wts \in Int /\ wts < nextTxID
        /\ committedWSs[at][1].valTS < wts
    BY <1>2, Numbers DEF PlaceInv, WriteSetInv, WriterClock
  <1>9. /\ \A n \in 1 .. Len(s) : s[n].valTS < nextTxID /\ (n > 1 => s[n].endTS < wtx)
        /\ Len(s) >= 1 /\ wtx < s[1].valTS /\ s[1].valTS < wts
    BY <1>1, <1>2, <1>7, <1>8 DEF WriteSetInv, TableSets
  <1>10. 1 \in 1 .. Len(s)
    BY <1>5, <1>9
  <1> HIDE DEF s, z
  <1>11. TableSets(t)'
    <2>1. \A n \in 1 .. Len(z) : /\ z[n].valTS < nextTxID
                                 /\ n > 1 => z[n].endTS < wtx
      BY <1>5, <1>9
    <2>2. Len(z) >= 1 /\ wtx < z[1].valTS /\ z[1].valTS < z[1].endTS /\ z[1].endTS < nextTxID
      BY <1>5, <1>8, <1>9, <1>10
    <2> QED BY <1>2, <1>7, <2>1, <2>2 DEF TableSets, z
  <1>12. ASSUME NEW u \in Tables, u # t
         PROVE  TableSets(u)'
    <2>1. (Saved(u)' <=> Saved(u)) /\ (Open(u)' <=> Open(u))
      BY <1>1, <1>2, <1>12 DEF Tables, Saved, Open, Committing, Scanning, Saving
    <2>2. nextTxID <= nextTxID' /\ wpc' # "idle" /\ wpc # "idle"
      BY <1>2, <1>8
    <2> QED BY <1>2, <1>4, <1>12, <2>1, <2>2, TableSetsSame DEF WriteSetInv
  <1>13. WriteSetsOrdered'
    <2> SUFFICES ASSUME NEW u \in Tables, NEW m \in 1 .. Len(committedWSs'[u]),
                        NEW n \in 1 .. Len(committedWSs'[u]), m < n
                 PROVE  committedWSs'[u][n].endTS < committedWSs'[u][m].valTS
      BY DEF WriteSetsOrdered
    <2>1. CASE u # t
      BY <1>4, <2>1 DEF WriteSetInv, WriteSetsOrdered
    <2>2. CASE u = t
      <3>1. m \in 1 .. Len(s) /\ n \in 1 .. Len(s) /\ n # 1
        BY <1>5, <2>2 DEF z
      <3>2. s[n].endTS < s[m].valTS
        BY <3>1 DEF WriteSetInv, WriteSetsOrdered, s
      <3> QED BY <1>5, <2>2, <3>1, <3>2 DEF z
    <2> QED BY <2>1, <2>2
  <1>14. WriterClock'
    <2>1. wslot \in usedSlots
      BY <1>2 DEF SlotInv, SlotsOwned, Owned, Writers
    <2> QED BY <1>2, <2>1 DEF WriteSetInv, WriterClock, Scanning
  <1> QED BY <1>11, <1>12, <1>13, <1>14 DEF WriteSetInv

LEMMA EraseWriteSetsInv ==
    ASSUME PlaceInv, PlaceInv', WriteSetInv, EndScan \/ EraseWriteSets
    PROVE  WriteSetInv'
  <1>1. PICK t \in Tables : t = at
    BY DEF PlaceInv, TypeOK
  <1>2. /\ wpc \in Scanning /\ scan = {} /\ scan' = {} /\ wtx' = wtx /\ nextTxID' = nextTxID
        /\ wslot' = wslot
    BY DEF EndScan, EraseWriteSets, WriteSetInv, WriterClock, Scanning, ctxVars
  <1>3. nextTxID \in Int /\ nextTxID <= nextTxID' /\ wpc # "idle" /\ wpc' # "idle"
    BY <1>2, Numbers DEF PlaceInv, EndScan, EraseWriteSets, NextTable, Scanning
  <1>4. /\ oldest <= wtx
        /\ \/ wpc' = "eraseLock" /\ at' = at /\ oldest' = oldest
           \/ wpc' = "write" /\ t = 1 /\ at' = 0 /\ oldest' = DTS_INF
           \/ wpc' = "remove" /\ t = 0 /\ at' = 1 /\ oldest' = DTS_INF
    BY <1>1, <1>2 DEF EndScan, EraseWriteSets, NextTable, WriteSetInv, WriterClock
  <1>5. ASSUME NEW u \in Tables
        PROVE  (Saved(u)' <=> Saved(u)) /\ (Open(u)' <=> Open(u))
    <2>1. wpc \in Committing /\ wpc \notin Saving /\ u \in {0, 1} /\ t \in {0, 1}
      BY <1>2 DEF Committing, Scanning, Saving, Tables
    <2>2. Saved(u) /\ Saved(u)'
      BY <1>4, <2>1 DEF Saved, Committing, Scanning
    <2>3. Open(u) <=> at = 1 /\ u = 0
      BY <1>2, <2>1 DEF Open
    <2>4. Open(u)' <=> t = 1 /\ u = 0
      BY <1>1, <1>4, <2>1 DEF Open, Committing, Scanning, Saving
    <2> QED BY <1>1, <2>2, <2>3, <2>4
  <1>6. WriterClock'
    BY <1>1, <1>2, <1>4 DEF WriterClock, Scanning
  <1>7. CASE committedWSs' = committedWSs
    <2>1. WriteSetsOrdered'
      BY <1>7 DEF WriteSetInv, WriteSetsOrdered
    <2>2. \A u \in Tables : TableSets(u)'
      BY <1>2, <1>3, <1>5, <1>7, TableSetsSame DEF WriteSetInv
    <2> QED BY <1>6, <2>1, <2>2 DEF WriteSetInv
  <1>8. CASE EraseWriteSets
    <2> DEFINE s == committedWSs[t]
               z == committedWSs'[t]
    <2>1. PICK e \in Expired(t) : committedWSs' = [committedWSs EXCEPT ![t] = SubSeq(@, 1, e - 1)]
      BY <1>1, <1>8 DEF EraseWriteSets
    <2>2. s \in Seq(WriteSets) /\ e \in 1 .. Len(s) /\ e # 1
      BY <1>1, <1>2, ExpiredIs, FrontNotExpired DEF PlaceInv, TypeOK
    <2>3. z = SubSeq(s, 1, e - 1) /\ \A u \in Tables : u # t => committedWSs'[u] = committedWSs[u]
      BY <2>1 DEF PlaceInv, TypeOK
    <2>4. /\ Len(z) = e - 1 /\ e - 1 < Len(s) /\ Len(s) \in Nat
          /\ \A n \in 1 .. e - 1 : z[n] = s[n]
      BY <2>2, <2>3, EraseFacts
    <2>5. /\ Len(z) >= 1 /\ z[1] = s[1]
          /\ \A n \in 1 .. Len(z) : n \in 1 .. Len(s) /\ z[n] = s[n]
      BY <2>2, <2>4
    <2>6. TableSets(t)'
      <3>1. Saved(t)' <=> Saved(t)
        BY <1>5
      <3>2. Open(t)' <=> Open(t)
        BY <1>5
      <3>3. TableSets(t)
        BY DEF WriteSetInv
      <3> QED BY <1>2, <1>3, <2>5, <3>1, <3>2, <3>3 DEF TableSets
    <2>7. \A u \in Tables : u # t => TableSets(u)'
      BY <1>2, <1>3, <1>5, <2>3, TableSetsSame DEF WriteSetInv
    <2>8. WriteSetsOrdered'
      <3> SUFFICES ASSUME NEW u \in Tables, NEW m \in 1 .. Len(committedWSs'[u]),
                          NEW n \in 1 .. Len(committedWSs'[u]), m < n
                   PROVE  committedWSs'[u][n].endTS < committedWSs'[u][m].valTS
        BY DEF WriteSetsOrdered
      <3>1. CASE u # t
        BY <2>3, <3>1 DEF WriteSetInv, WriteSetsOrdered
      <3>2. CASE u = t
        BY <2>5, <3>2 DEF WriteSetInv, WriteSetsOrdered
      <3> QED BY <3>1, <3>2
    <2> QED BY <1>6, <2>6, <2>7, <2>8 DEF WriteSetInv
  <1> QED BY <1>7, <1>8 DEF EndScan

LEMMA ReaderWriteSets ==
    ASSUME PlaceInv, PlaceInv', WriteSetInv, NEW r \in Readers, ReaderStep(r)
    PROVE  WriteSetInv' /\ nextTxID <= nextTxID'
  <1>1. UNCHANGED <<committedWSs, wpc, wtx, wts, wslot, at, scan, oldest>>
    BY ReaderFrame DEF writerVars
  <1>2. nextTxID <= nextTxID'
    <2>1. nextTxID \in Int
      BY Numbers DEF PlaceInv
    <2>2. nextTxID' = nextTxID \/ nextTxID' = nextTxID + 1 \/ nextTxID' = nextTxID + 2
      BY DEF ReaderStep, StartRead, NewTx, TakeSlot, Register, GetByKey, DrawValTS, LockShared,
             Validate, RestartRead, FinishRead, ctxVars
    <2> QED BY <2>1, <2>2
  <1>3. \A t \in Tables : TableSets(t)'
    BY <1>1, <1>2, TableSetsSame DEF WriteSetInv, Saved, Open
  <1>4. WriteSetsOrdered' /\ WriterClock'
    BY <1>1 DEF WriteSetInv, WriteSetsOrdered, WriterClock
  <1> QED BY <1>2, <1>3, <1>4 DEF WriteSetInv

LEMMA WriteSetNext ==
    ASSUME PlaceInv, PlaceInv', SlotInv, WriteSetInv, [Next]_vars
    PROVE  WriteSetInv'
  <1>1. CASE WriterStep \/ UNCHANGED vars
    BY <1>1, BeginsWriteSets, GoesOnWriteSets, SaveWriteSets, StampWriteSets, EraseWriteSetsInv
       DEF WriterStep
  <1> QED BY <1>1, ReaderWriteSets DEF Next

-----------------------------------------------------------------------------
(***************************************************************************)
(* A transaction that runs alone.                                          *)
(***************************************************************************)

\* Only the writer's own slot is in use when nobody reads and nothing was
\* aborted.
LEMMA AloneInSlots ==
    ASSUME PlaceInv, SlotInv, CollectInv, quiet, aborted = 0, wpc # "idle"
    PROVE  usedSlots = {wslot}
  <1>1. Taken = {}
    BY DEF CollectInv, Taken
  <1>2. Owned = {wslot}
    BY <1>1 DEF Owned, Writers
  <1>3. usedSlots \ Owned = {}
    <2>1. IsFiniteSet(usedSlots \ Owned) /\ Cardinality(usedSlots \ Owned) = 0
      BY UsedFinite DEF SlotInv, SlotsOwned
    <2> QED BY <2>1, FS_EmptySet
  <1> QED BY <1>2, <1>3 DEF SlotInv, SlotsOwned

\* Then all write sets but the newest one expire.
LEMMA AloneExpired ==
    ASSUME PlaceInv, WriteSetInv, CollectInv, quiet, aborted = 0, wpc \in Scanning, scan = {}
    PROVE  \A n \in 2 .. Len(committedWSs[at]) : n \in Expired(at)
  <1>1. PICK t \in Tables : t = at
    BY DEF PlaceInv, TypeOK
  <1>2. Saved(t) /\ oldest <= wtx /\ oldest \in {DTS_INF, wtx}
    BY DEF Saved, Committing, WriteSetInv, WriterClock, CollectInv
  <1>3. wtx \in Int /\ wtx < DTS_INF
    BY Numbers, BoundAssumption, SMTT(60) DEF PlaceInv, TypeOK, DTS_INF
  <1>4. oldest = wtx
    BY <1>2, <1>3, BoundAssumption DEF DTS_INF
  <1>5. Len(committedWSs[t]) \in Nat /\ Len(committedWSs[t]) >= 1
    BY <1>2 DEF PlaceInv, TypeOK, WriteSetInv, TableSets
  <1>6. ASSUME NEW n \in 2 .. Len(committedWSs[t])
        PROVE  committedWSs[t][n].endTS <= committedWSs[t][1].valTS
    <2>1. n \in 1 .. Len(committedWSs[t]) /\ 1 \in 1 .. Len(committedWSs[t]) /\ 1 < n
      BY <1>5
    <2>2. committedWSs[t][n].endTS < committedWSs[t][1].valTS
      BY <2>1 DEF WriteSetInv, WriteSetsOrdered
    <2>3. committedWSs[t][n].endTS \in Int /\ committedWSs[t][1].valTS \in Int
      BY <2>1, WriteSetType DEF PlaceInv
    <2> QED BY <2>2, <2>3
  <1> QED BY <1>1, <1>4, <1>5, <1>6 DEF Expired

LEMMA ReaderCollect ==
    ASSUME CollectInv, NEW r \in Readers, ReaderStep(r)
    PROVE  CollectInv'
  <1>1. ~quiet'
    <2>1. ASSUME NEW ks \in [1 .. TxSize -> Keys], StartRead(r, ks)
          PROVE  ~quiet'
      BY <2>1 DEF StartRead
    <2>2. CASE rpc[r] # "idle" /\ quiet' = quiet
      BY <2>2 DEF CollectInv
    <2> QED BY <2>1, <2>2 DEF ReaderStep, NewTx, TakeSlot, Register, GetByKey, DrawValTS, LockShared,
                              Validate, RestartRead, FinishRead, histVars
  <1> QED BY <1>1 DEF CollectInv

LEMMA ScanCollect ==
    ASSUME PlaceInv, SlotInv, WriteSetInv, CollectInv, StampEnd \/ ScanSlot
    PROVE  CollectInv'
  <1>1. UNCHANGED <<rpc, quiet, aborted, wslot, wtx, at>>
    BY DEF StampEnd, ScanSlot, readerVars, histVars
  <1>2. \A r \in Readers : quiet' => rpc'[r] = "idle"
    BY <1>1 DEF CollectInv
  <1>3. CASE StampEnd
    <2>1. wpc = "stamp" /\ wpc' = "scan" /\ scan' = usedSlots /\ oldest' = oldest
      BY <1>3 DEF StampEnd
    <2>2. oldest = DTS_INF
      BY <2>1 DEF WriteSetInv, WriterClock, Scanning
    <2>3. PICK t \in Tables : t = at
      BY DEF PlaceInv, TypeOK
    <2>4. Len(committedWSs'[1]) = Len(committedWSs[1])
      <3>1. committedWSs' = [committedWSs EXCEPT ![t][1].endTS = wts] /\ 1 \in Tables
        BY <1>3, <2>3 DEF StampEnd, Tables
      <3>2. committedWSs[t] \in Seq(WriteSets) /\ wts \in TS
        BY DEF PlaceInv, TypeOK
      <3>3. Len([committedWSs[t] EXCEPT ![1].endTS = wts]) = Len(committedWSs[t])
        BY <3>2, StampFacts
      <3> QED BY <3>1, <3>3 DEF PlaceInv, TypeOK
    <2>5. wpc \in Committing
      BY <2>1 DEF Committing
    <2> QED BY <1>1, <1>2, <2>1, <2>2, <2>4, <2>5, AloneInSlots DEF CollectInv
  <1>4. CASE ScanSlot
    <2>1. PICK s \in scan : /\ scan' = scan \ {s}
                            /\ oldest' = IF activeTxs[s] < oldest THEN activeTxs[s] ELSE oldest
      BY <1>4 DEF ScanSlot
    <2>2. wpc = "scan" /\ wpc' = "scan" /\ committedWSs' = committedWSs
      BY <1>4 DEF ScanSlot
    <2>3. activeTxs[wslot] = wtx
      BY <2>2 DEF SlotInv, SlotsShow
    <2>4. wpc \in Scanning /\ wpc' \in Scanning /\ wpc \in Committing /\ wpc' \in Committing
      BY <2>2 DEF Scanning, Committing
    <2> QED BY <1>1, <1>2, <2>1, <2>2, <2>3, <2>4 DEF CollectInv
  <1> QED BY <1>3, <1>4

LEMMA EraseCollect ==
    ASSUME PlaceInv, WriteSetInv, CollectInv, EndScan \/ EraseWriteSets
    PROVE  CollectInv'
  <1>1. PICK t \in Tables : t = at
    BY DEF PlaceInv, TypeOK
  <1>2. UNCHANGED <<rpc, quiet, aborted, wslot, wtx, scan>> /\ wpc \in Scanning /\ scan = {}
    BY DEF EndScan, EraseWriteSets, WriteSetInv, WriterClock, Scanning, readerVars, histVars
  <1>3. \A r \in Readers : quiet' => rpc'[r] = "idle"
    BY <1>2 DEF CollectInv
  <1> SUFFICES ASSUME quiet', aborted' = 0
               PROVE  /\ wpc' \in Scanning => scan' \subseteq {wslot'} /\ oldest' \in {DTS_INF, wtx'}
                      /\ wpc' \in Committing /\ at' = 0 => Len(committedWSs'[1]) <= 1
                      /\ wpc' = "remove" => \A u \in Tables : Len(committedWSs'[u]) <= 1
    BY <1>3 DEF CollectInv
  <1>4. \A n \in 2 .. Len(committedWSs[t]) : n \in Expired(t)
    BY <1>1, <1>2, AloneExpired
  <1>5. Len(committedWSs[t]) \in Nat /\ committedWSs[t] \in Seq(WriteSets)
    BY DEF PlaceInv, TypeOK
  <1>6. CASE EndScan /\ Expired(at) # {}
    <2>1. wpc' = "eraseLock" /\ at' = at /\ oldest' = oldest /\ committedWSs' = committedWSs
      BY <1>6 DEF EndScan
    <2>2. wpc \in Committing
      BY <1>2 DEF Committing
    <2> QED BY <1>2, <2>1, <2>2 DEF CollectInv, Scanning
  <1>7. CASE NextTable /\ Len(committedWSs'[t]) <= 1 /\ \A u \in Tables : u # t => committedWSs'[u] = committedWSs[u]
    <2>1. CASE t = 1
      <3>1. wpc' = "write" /\ at' = 0
        BY <1>1, <1>7, <2>1 DEF NextTable
      <3> QED BY <1>7, <2>1, <3>1 DEF Scanning
    <2>2. CASE t = 0
      <3>1. wpc' = "remove" /\ at' = 1 /\ wpc \in Committing
        BY <1>1, <1>2, <1>7, <2>2 DEF NextTable, Committing
      <3>2. Len(committedWSs[1]) <= 1
        BY <1>1, <1>2, <2>2, <3>1 DEF CollectInv
      <3> QED BY <1>7, <2>2, <3>1, <3>2 DEF Scanning, Committing, Tables
    <2> QED BY <2>1, <2>2 DEF Tables
  <1>8. CASE EndScan /\ Expired(at) = {}
    <2>1. NextTable /\ committedWSs' = committedWSs
      BY <1>8 DEF EndScan
    <2>2. Len(committedWSs[t]) <= 1
      BY <1>1, <1>4, <1>5, <1>8
    <2> QED BY <1>7, <2>1, <2>2
  <1>9. CASE EraseWriteSets
    <2>1. PICK e \in Expired(t) : /\ \A m \in Expired(t) : e <= m
                                  /\ committedWSs' = [committedWSs EXCEPT ![t] = SubSeq(@, 1, e - 1)]
      BY <1>1, <1>9 DEF EraseWriteSets
    <2>2. e \in 1 .. Len(committedWSs[t]) /\ e # 1
      BY <1>1, <1>2, ExpiredIs, FrontNotExpired
    <2>3. Len(SubSeq(committedWSs[t], 1, e - 1)) = e - 1
      BY <1>5, <2>2, EraseFacts
    <2>4. e = 2
      <3>1. 2 \in 2 .. Len(committedWSs[t])
        BY <1>5, <2>2
      <3> QED BY <1>4, <2>1, <2>2, <3>1
    <2>5. Len(committedWSs'[t]) <= 1 /\ \A u \in Tables : u # t => committedWSs'[u] = committedWSs[u]
      BY <2>1, <2>3, <2>4 DEF PlaceInv, TypeOK
    <2>6. NextTable
      BY <1>9 DEF EraseWriteSets
    <2> QED BY <1>7, <2>5, <2>6
  <1> QED BY <1>6, <1>8, <1>9

LEMMA CollectNext ==
    ASSUME PlaceInv, SlotInv, WriteSetInv, CollectInv, [Next]_vars
    PROVE  CollectInv'
  <1>1. CASE StampEnd \/ ScanSlot \/ EndScan \/ EraseWriteSets
    BY <1>1, ScanCollect, EraseCollect
  <1>2. CASE TransactionBegin
    BY <1>2 DEF TransactionBegin, CollectInv, Scanning, Committing, readerVars
  <1>3. CASE TransactionAbort
    <2>1. aborted \in Nat /\ aborted' = aborted + 1 /\ rpc' = rpc /\ quiet' = quiet
      BY <1>3, BoundAssumption DEF TransactionAbort, PlaceInv, TypeOK, readerVars
    <2> QED BY <2>1 DEF CollectInv
  <1>4. CASE RemoveTx
    BY <1>4 DEF RemoveTx, CollectInv, Scanning, Committing, readerVars, histVars
  <1>5. CASE \/ \E k \in Keys, v \in Values : Insert(k, v)
             \/ TransactionPreCommit \/ SaveWriteSet
    BY <1>5 DEF Insert, TransactionPreCommit, SaveWriteSet, CollectInv, Scanning, Committing,
                readerVars, histVars
  <1>6. CASE DrawTS \/ LockExclusive \/ Write \/ EndWrite
    BY <1>6 DEF DrawTS, LockExclusive, Write, EndWrite, CollectInv, Scanning, Committing,
                readerVars, histVars
  <1>7. CASE UNCHANGED vars
    BY <1>7 DEF vars, writerVars, readerVars, histVars, CollectInv
  <1> QED BY <1>1, <1>2, <1>3, <1>4, <1>5, <1>6, <1>7, ReaderCollect DEF Next, WriterStep

-----------------------------------------------------------------------------
(***************************************************************************)
(* The contents of the tables.                                             *)
(***************************************************************************)

LEMMA TableTypes ==
    ASSUME PlaceInv
    PROVE  /\ at \in Tables /\ 1 - at \in Tables /\ 1 - (1 - at) = at
           /\ \A t \in Tables : tbl[t] \in [Keys -> Records]
           /\ LastState \in [Keys -> Records]
           /\ writeSet \in Seq(Keys \X Values) /\ todo \in Seq(Keys \X Values)
  <1>1. Len(snaps) \in 1 .. Len(snaps) /\ snaps \in Seq([Keys -> Records])
    BY DEF PlaceInv, TypeOK
  <1>2. LastState \in [Keys -> Records]
    BY <1>1 DEF LastState
  <1> QED BY <1>2 DEF PlaceInv, TypeOK, Tables

LEMMA SaveTables ==
    ASSUME PlaceInv, TableInv, SaveWriteSet
    PROVE  TableInv'
  <1>1. \A t \in Tables : tbl'[t] = LastState
    BY DEF SaveWriteSet, TableInv, Committing, Scanning
  <1>2. CASE at = 1
    <2>1. wpc' = "valTS" /\ snaps' = snaps
      BY <1>2 DEF SaveWriteSet
    <2> QED BY <1>1, <2>1 DEF TableInv, LastState, Committing, Scanning
  <1>3. CASE at = 0
    <2>1. /\ wpc' = "write" /\ at' = 1 /\ todo' = writeSet /\ writeSet' = writeSet
          /\ snaps' = Append(snaps, Applied(LastState, writeSet))
          /\ committedWSs' = [committedWSs EXCEPT ![0] = Enter(@, KeysOf(writeSet))]
      BY <1>3 DEF SaveWriteSet, LastState
    <2>2. Len(snaps) >= 1 /\ Len(snaps) \in Nat /\ snaps \in Seq([Keys -> Records])
      BY DEF PlaceInv, TypeOK
    <2>3. Applied(LastState, writeSet) \in [Keys -> Records]
      BY TableTypes, AppliedType
    <2>4. LastState' = Applied(LastState, writeSet) /\ StateBefore' = LastState
      BY <2>1, <2>2, <2>3 DEF LastState, StateBefore
    <2>5. committedWSs'[0][1].keys = KeysOf(writeSet)
      <3>1. committedWSs[0] \in Seq(WriteSets) /\ wts \in TS /\ 0 \in Tables
        BY DEF PlaceInv, TypeOK, Tables
      <3>2. KeysOf(writeSet) \in SUBSET Keys
        <4>1. writeSet \in Seq(Keys \X Values)
          BY TableTypes
        <4>2. \A n \in 1 .. Len(writeSet) : writeSet[n] \in Keys \X Values
          BY <4>1
        <4> QED BY <4>2 DEF KeysOf
      <3>3. committedWSs'[0] = Enter(committedWSs[0], KeysOf(writeSet))
        BY <2>1, <3>1 DEF PlaceInv, TypeOK
      <3>4. committedWSs'[0][1] = [keys |-> KeysOf(writeSet), valTS |-> wts, endTS |-> DTS_INF]
        BY <3>1, <3>2, <3>3, EnterFacts
      <3> QED BY <3>4
    <2>6. \A k \in Keys : k \notin KeysOf(writeSet) => LastState'[k] = LastState[k]
      BY <2>4, AppliedOther
    <2>7. 1 \in Tables /\ 0 \in Tables
      BY DEF Tables
    <2>8. /\ LastState' = Applied(StateBefore', writeSet')
          /\ KeysOf(todo)' \subseteq KeysOf(writeSet)'
          /\ tbl'[1 - at'] = StateBefore'
          /\ Applied(tbl'[at'], todo') = LastState'
      BY <1>1, <2>1, <2>4, <2>7
    <2>9. \A k \in Keys : k \notin KeysOf(writeSet)' => tbl'[at'][k] = LastState'[k]
      BY <1>1, <2>1, <2>6, <2>7 DEF KeysOf
    <2>10. Applied(StateBefore, writeSet)' = Applied(StateBefore', writeSet')
      BY DEF Applied
    <2>11. Applied(tbl[at], todo)' = Applied(tbl'[at'], todo')
      BY DEF Applied
    <2>12. KeysOf(writeSet)' = KeysOf(writeSet)
      BY <2>1 DEF KeysOf
    <2> QED BY <2>1, <2>5, <2>8, <2>9, <2>10, <2>11, <2>12 DEF TableInv, Committing, Scanning
  <1> QED BY <1>2, <1>3 DEF SaveWriteSet

LEMMA WriteTables ==
    ASSUME PlaceInv, TableInv, Write
    PROVE  TableInv'
  <1> DEFINE h == Head(todo)
  <1>1. /\ wpc = "write" /\ wpc' = wpc /\ at' = at /\ writeSet' = writeSet /\ snaps' = snaps
        /\ committedWSs' = committedWSs
        /\ todo # <<>> /\ todo' = Tail(todo)
        /\ tbl' = [tbl EXCEPT ![at][h[1]] = Stored(tbl[at][h[1]], h[2])]
    BY DEF Write, histVars
  <1>2. /\ LastState = Applied(StateBefore, writeSet)
        /\ committedWSs[0][1].keys = KeysOf(writeSet)
        /\ KeysOf(todo) \subseteq KeysOf(writeSet)
        /\ tbl[1 - at] = IF at = 1 THEN StateBefore ELSE LastState
        /\ \A k \in Keys : k \notin KeysOf(writeSet) => tbl[at][k] = LastState[k]
        /\ Applied(tbl[at], todo) = LastState
    BY <1>1 DEF TableInv, Committing
  <1>3. /\ at \in Tables /\ 1 - at \in Tables /\ 1 - at # at
        /\ tbl \in [Tables -> [Keys -> Records]] /\ tbl[at] \in [Keys -> Records]
        /\ todo \in Seq(Keys \X Values)
    BY TableTypes, SMTT(60) DEF PlaceInv, TypeOK, Tables
  <1>4. /\ tbl'[at] = [tbl[at] EXCEPT ![h[1]] = Stored(tbl[at][h[1]], h[2])]
        /\ tbl'[1 - at] = tbl[1 - at]
    BY <1>1, <1>3
  <1>5. Applied(tbl'[at], Tail(todo)) = LastState
    <2>1. Applied([tbl[at] EXCEPT ![h[1]] = Stored(tbl[at][h[1]], h[2])], Tail(todo))
            = Applied(tbl[at], todo)
      BY <1>1, <1>3, AppliedHead
    <2> QED BY <1>2, <1>4, <2>1
  <1>6. h[1] \in KeysOf(todo) /\ KeysOf(Tail(todo)) \subseteq KeysOf(todo)
    <2>1. /\ Len(todo) \in Nat /\ Len(todo) >= 1 /\ h = todo[1]
          /\ Len(Tail(todo)) = Len(todo) - 1
          /\ \A n \in 1 .. Len(todo) - 1 : Tail(todo)[n] = todo[n + 1]
      BY <1>1, <1>3
    <2>2. 1 \in 1 .. Len(todo) /\ \A n \in 1 .. Len(todo) - 1 : n + 1 \in 1 .. Len(todo)
      BY <2>1
    <2>3. h[1] \in KeysOf(todo)
      BY <2>1, <2>2 DEF KeysOf
    <2>4. \A n \in 1 .. Len(Tail(todo)) : Tail(todo)[n][1] \in KeysOf(todo)
      BY <2>1, <2>2 DEF KeysOf
    <2> QED BY <2>3, <2>4 DEF KeysOf
  <1>7. \A k \in Keys : k \notin KeysOf(writeSet) => tbl'[at][k] = LastState[k]
    <2> SUFFICES ASSUME NEW k \in Keys, k \notin KeysOf(writeSet)
                 PROVE  tbl'[at][k] = LastState[k]
      OBVIOUS
    <2>1. k # h[1]
      BY <1>2, <1>6
    <2> QED BY <1>2, <1>3, <1>4, <2>1
  <1>8. /\ LastState' = LastState /\ StateBefore' = StateBefore
        /\ KeysOf(writeSet)' = KeysOf(writeSet)
        /\ KeysOf(todo)' = KeysOf(Tail(todo))
        /\ Applied(StateBefore, writeSet)' = Applied(StateBefore, writeSet)
        /\ Applied(tbl[at], todo)' = Applied(tbl'[at], Tail(todo))
    BY <1>1 DEF LastState, StateBefore, KeysOf, Applied
  <1> QED BY <1>1, <1>2, <1>4, <1>5, <1>6, <1>7, <1>8 DEF TableInv, Committing, Scanning

\* The steps of a commit that touch neither the tables nor the elements.
LEMMA GoesOnTables ==
    ASSUME PlaceInv, WriteSetInv, TableInv,
           DrawTS \/ LockExclusive \/ EndWrite \/ StampEnd \/ ScanSlot
    PROVE  TableInv'
  <1>1. /\ tbl' = tbl /\ at' = at /\ writeSet' = writeSet /\ snaps' = snaps /\ todo' = todo
        /\ wpc \in Committing <=> wpc' \in Committing
        /\ wpc' # "write"
    BY DEF DrawTS, LockExclusive, EndWrite, StampEnd, ScanSlot, histVars, Committing, Scanning
  <1>2. /\ LastState' = LastState /\ StateBefore' = StateBefore
        /\ KeysOf(writeSet)' = KeysOf(writeSet)
        /\ KeysOf(todo)' = KeysOf(todo)
        /\ Applied(StateBefore, writeSet)' = Applied(StateBefore, writeSet)
    BY <1>1 DEF LastState, StateBefore, KeysOf, Applied
  <1>3. CASE wpc \notin Committing
    BY <1>1, <1>2, <1>3 DEF TableInv, Committing
  <1>4. CASE wpc \in Committing
    <2>1. tbl[at] = LastState
      <3>1. CASE wpc = "write"
        <4>1. EndWrite
          BY <3>1 DEF DrawTS, LockExclusive, StampEnd, ScanSlot
        <4>2. todo = <<>> /\ Applied(tbl[at], todo) = LastState
          BY <3>1, <4>1 DEF EndWrite, TableInv
        <4>3. tbl[at] \in [Keys -> Records]
          BY TableTypes
        <4> QED BY <4>2, <4>3, AppliedNothing
      <3> QED BY <1>4, <3>1 DEF TableInv
    <2>2. committedWSs'[0][1].keys = committedWSs[0][1].keys
      <3>1. CASE StampEnd
        <4>1. /\ committedWSs \in [Tables -> Seq(WriteSets)] /\ at \in Tables
              /\ 0 \in Tables /\ wts \in TS
          BY DEF PlaceInv, TypeOK, Tables
        <4>2. Len(committedWSs[0]) >= 1 /\ Len(committedWSs[0]) \in Nat
          BY <3>1, <4>1 DEF StampEnd, WriteSetInv, TableSets, Saved, Committing
        <4>3. committedWSs' = [committedWSs EXCEPT ![at][1].endTS = wts]
          BY <3>1 DEF StampEnd
        <4>4. CASE at = 0
          <5> DEFINE s == committedWSs[0]
          <5>1. committedWSs'[0] = [s EXCEPT ![1].endTS = wts]
            BY <4>1, <4>3, <4>4
          <5>2. s \in Seq(WriteSets) /\ 1 \in 1 .. Len(s)
            BY <4>1, <4>2
          <5> HIDE DEF s
          <5>3. [s EXCEPT ![1].endTS = wts][1].keys = s[1].keys
            BY <4>1, <5>2, StampFacts
          <5> QED BY <5>1, <5>3 DEF s
        <4>5. CASE at # 0
          BY <4>1, <4>3, <4>5
        <4> QED BY <4>4, <4>5
      <3>2. CASE ~StampEnd
        BY <3>2 DEF DrawTS, LockExclusive, EndWrite, ScanSlot
      <3> QED BY <3>1, <3>2
    <2>3. /\ LastState = Applied(StateBefore, writeSet)
          /\ committedWSs[0][1].keys = KeysOf(writeSet)
          /\ KeysOf(todo) \subseteq KeysOf(writeSet)
          /\ tbl[1 - at] = IF at = 1 THEN StateBefore ELSE LastState
          /\ \A k \in Keys : k \notin KeysOf(writeSet) => tbl[at][k] = LastState[k]
      BY <1>4 DEF TableInv
    <2> QED BY <1>1, <1>2, <1>4, <2>1, <2>2, <2>3 DEF TableInv
  <1> QED BY <1>3, <1>4

\* What is left after an erasure: the write sets in front of the first expired one.
LEMMA ErasedIs ==
    ASSUME PlaceInv, WriteSetInv, EraseWriteSets
    PROVE  \E e \in Expired(at) :
              /\ e > 1 /\ e \in 1 .. Len(committedWSs[at]) /\ \A m \in Expired(at) : e <= m
              /\ Len(committedWSs'[at]) = e - 1
              /\ \A n \in 1 .. e - 1 : committedWSs'[at][n] = committedWSs[at][n]
              /\ \A u \in Tables : u # at => committedWSs'[u] = committedWSs[u]
  <1>1. PICK t \in Tables : t = at
    BY DEF PlaceInv, TypeOK
  <1>2. PICK e \in Expired(t) : /\ \A m \in Expired(t) : e <= m
                                /\ committedWSs' = [committedWSs EXCEPT ![t] = SubSeq(@, 1, e - 1)]
    BY <1>1 DEF EraseWriteSets
  <1>3. wpc \in Scanning /\ scan = {}
    BY DEF EraseWriteSets, WriteSetInv, WriterClock, Scanning
  <1>4. committedWSs[t] \in Seq(WriteSets) /\ e \in 1 .. Len(committedWSs[t]) /\ e # 1
    BY <1>1, <1>3, ExpiredIs, FrontNotExpired DEF PlaceInv, TypeOK
  <1>5. /\ committedWSs'[t] = SubSeq(committedWSs[t], 1, e - 1)
        /\ \A u \in Tables : u # t => committedWSs'[u] = committedWSs[u]
    BY <1>2 DEF PlaceInv, TypeOK
  <1>6. /\ Len(committedWSs'[t]) = e - 1
        /\ \A n \in 1 .. e - 1 : committedWSs'[t][n] = committedWSs[t][n]
    BY <1>4, <1>5, EraseFacts
  <1>7. e > 1
    BY <1>4
  <1> QED BY <1>1, <1>2, <1>4, <1>5, <1>6, <1>7

\* The table is complete; the next one is written, or both are.
LEMMA EndTableTables ==
    ASSUME PlaceInv, WriteSetInv, TableInv, EndScan \/ EraseWriteSets
    PROVE  TableInv'
  <1>1. wpc \in Scanning /\ tbl' = tbl /\ snaps' = snaps
    BY DEF EndScan, EraseWriteSets, Scanning, histVars
  <1>2. wpc \in Committing \ {"write"}
    BY <1>1 DEF Committing, Scanning
  <1>3. /\ LastState = Applied(StateBefore, writeSet)
        /\ committedWSs[0][1].keys = KeysOf(writeSet)
        /\ KeysOf(todo) \subseteq KeysOf(writeSet)
        /\ tbl[1 - at] = IF at = 1 THEN StateBefore ELSE LastState
        /\ tbl[at] = LastState
    BY <1>2 DEF TableInv
  <1>4. at \in {0, 1} /\ StateBefore' = StateBefore /\ LastState' = LastState
    BY <1>1 DEF PlaceInv, TypeOK, Tables, LastState, StateBefore
  <1>5. committedWSs'[0][1] = committedWSs[0][1]
    <2>1. CASE EndScan
      BY <2>1 DEF EndScan
    <2>2. CASE EraseWriteSets
      <3>1. PICK e \in Expired(at) :
              /\ e > 1 /\ e \in 1 .. Len(committedWSs[at])
              /\ \A n \in 1 .. e - 1 : committedWSs'[at][n] = committedWSs[at][n]
              /\ \A u \in Tables : u # at => committedWSs'[u] = committedWSs[u]
        BY <2>2, ErasedIs
      <3>2. 1 \in 1 .. e - 1
        BY <3>1
      <3> QED BY <1>4, <3>1, <3>2 DEF Tables
    <2> QED BY <2>1, <2>2
  <1>6. CASE wpc' = "eraseLock"
    <2>1. at' = at /\ todo' = todo /\ writeSet' = writeSet
      BY <1>6 DEF EndScan, EraseWriteSets, NextTable
    <2>2. /\ KeysOf(writeSet)' = KeysOf(writeSet) /\ KeysOf(todo)' = KeysOf(todo)
          /\ Applied(StateBefore, writeSet)' = Applied(StateBefore, writeSet)
      BY <1>4, <2>1 DEF KeysOf, Applied
    <2> QED BY <1>1, <1>3, <1>4, <1>5, <1>6, <2>1, <2>2 DEF TableInv, Committing, Scanning
  <1>7. CASE wpc' = "write" /\ at = 1
    <2>1. at' = 0 /\ todo' = writeSet /\ writeSet' = writeSet
      BY <1>7 DEF EndScan, EraseWriteSets, NextTable
    <2>2. /\ KeysOf(writeSet)' = KeysOf(writeSet) /\ KeysOf(todo)' = KeysOf(writeSet)
          /\ Applied(StateBefore, writeSet)' = Applied(StateBefore, writeSet)
          /\ Applied(tbl[at], todo)' = Applied(tbl[0], writeSet)
      BY <1>1, <1>4, <2>1 DEF KeysOf, Applied
    <2>3. tbl[0] = StateBefore
      BY <1>3, <1>7
    <2>4. \A k \in Keys : k \notin KeysOf(writeSet) => tbl[0][k] = LastState[k]
      BY <1>3, <2>3, AppliedOther
    <2> QED BY <1>1, <1>3, <1>4, <1>5, <1>7, <2>1, <2>2, <2>3, <2>4 DEF TableInv, Committing, Scanning
  <1>8. CASE wpc' = "remove" /\ at = 0
    <2>1. \A t \in Tables : tbl[t] = LastState
      BY <1>3, <1>8 DEF Tables
    <2> QED BY <1>1, <1>4, <1>8, <2>1 DEF TableInv, Committing, Scanning
  <1> QED BY <1>6, <1>7, <1>8 DEF EndScan, EraseWriteSets, NextTable

\* The contents do not depend on the queries.
LEMMA ReaderTables ==
    ASSUME TableInv, UNCHANGED <<tbl, committedWSs, writerVars, snaps>>
    PROVE  TableInv'
  <1>1. /\ KeysOf(writeSet)' = KeysOf(writeSet) /\ KeysOf(todo)' = KeysOf(todo)
        /\ Applied(StateBefore, writeSet)' = Applied(StateBefore, writeSet)
        /\ Applied(tbl[at], todo)' = Applied(tbl[at], todo)
        /\ LastState' = LastState /\ StateBefore' = StateBefore
    BY DEF writerVars, KeysOf, Applied, LastState, StateBefore
  <1> QED BY <1>1 DEF TableInv, writerVars

LEMMA TableNext ==
    ASSUME PlaceInv, WriteSetInv, TableInv, [Next]_vars
    PROVE  TableInv'
  <1>1. CASE SaveWriteSet
    BY <1>1, SaveTables
  <1>2. CASE Write
    BY <1>2, WriteTables
  <1>3. CASE DrawTS \/ LockExclusive \/ EndWrite \/ StampEnd \/ ScanSlot
    BY <1>3, GoesOnTables
  <1>4. CASE EndScan \/ EraseWriteSets
    BY <1>4, EndTableTables
  <1>5. CASE \/ TransactionBegin \/ TransactionAbort \/ TransactionPreCommit \/ RemoveTx
             \/ \E k \in Keys, v \in Values : Insert(k, v)
    <2>1. tbl' = tbl /\ snaps' = snaps /\ wpc \notin Committing /\ wpc' \notin Committing
      BY <1>5 DEF TransactionBegin, TransactionAbort, TransactionPreCommit, RemoveTx, Insert,
                  Committing, Scanning, histVars
    <2>2. wpc' # "write"
      BY <2>1 DEF Committing
    <2> QED BY <2>1, <2>2 DEF TableInv, LastState
  <1>6. ASSUME NEW r \in Readers, ReaderStep(r)
        PROVE  TableInv'
    BY <1>6, ReaderFrame, ReaderTables
  <1>7. CASE UNCHANGED vars
    BY <1>7, ReaderTables DEF vars, histVars
  <1> QED BY <1>1, <1>2, <1>3, <1>4, <1>5, <1>6, <1>7 DEF Next, WriterStep

-----------------------------------------------------------------------------
(***************************************************************************)
(* What the queries have read.                                             *)
(***************************************************************************)

LEMMA BaseTypes ==
    ASSUME PlaceInv
    PROVE  /\ Len(snaps) \in Nat /\ Len(snaps) >= 1 /\ Finished \in Nat /\ Committed \in Nat
           /\ Committed <= Finished /\ Finished <= Len(snaps)
           /\ \A r \in Readers : began[r] \in Nat /\ began[r] >= 1 /\ began[r] <= Committed
  <1>1. Len(snaps) \in Nat /\ Len(snaps) >= 1
    BY DEF PlaceInv, TypeOK
  <1>2. Committed \in Nat /\ Finished \in Nat /\ Committed <= Finished /\ Finished <= Len(snaps)
    <2>1. wpc \in Committing => wpc \notin {"idle", "active", "valTS", "saveLock", "save"}
      BY DEF Committing, Scanning
    <2> QED BY <1>1, <2>1 DEF Committed, Finished, Committing
  <1>3. \A r \in Readers : began[r] \in Nat /\ began[r] >= 1 /\ began[r] <= Committed
    <2>1. \A r \in Readers : began[r] \in 1 .. Committed
      BY DEF PlaceInv, QueryPlace
    <2> QED BY <1>2, <2>1
  <1> QED BY <1>1, <1>2, <1>3

\* While the running transaction is not finished, its write set is in front
\* of table 0 and open.
LEMMA RunningOpen ==
    ASSUME PlaceInv, WriteSetInv, Finished # Len(snaps)
    PROVE  /\ wpc \in Committing /\ Finished = Len(snaps) - 1
           /\ Len(committedWSs[0]) >= 1 /\ committedWSs[0][1].endTS = DTS_INF
  <1>1. /\ wpc \in Committing /\ Finished = Len(snaps) - 1 /\ at \in {0, 1} /\ 0 \in Tables
        /\ at = 1 \/ wpc \in {"write", "endTS"}
    BY DEF Finished, Committing, PlaceInv, TypeOK, Tables
  <1>2. Saved(0) /\ Open(0)
    BY <1>1 DEF Saved, Open, Committing, Scanning
  <1> QED BY <1>1, <1>2 DEF WriteSetInv, TableSets

\* A query that begins to read does so in the newest complete state.
LEMMA FinishedSafe ==
    ASSUME PlaceInv, WriteSetInv, TableInv
    PROVE  TablesSafe(Finished)
  <1> SUFFICES ASSUME NEW t \in Tables, NEW k \in Keys
               PROVE  tbl[t][k] = snaps[Finished][k] \/ Overwritten(Finished, k)
    BY DEF TablesSafe
  <1>1. Len(snaps) \in Nat /\ Finished \in Nat /\ t \in {0, 1} /\ at \in {0, 1}
    BY BaseTypes DEF Tables, PlaceInv, TypeOK
  <1>2. CASE wpc \notin Committing
    BY <1>2 DEF Finished, TableInv, LastState, Committing
  <1>3. CASE wpc \in Committing /\ Finished = Len(snaps)
    <2>1. at = 0 /\ wpc \in Committing \ {"write"}
      BY <1>1, <1>3 DEF Finished
    <2>2. tbl[0] = LastState /\ tbl[1] = LastState
      BY <2>1 DEF TableInv
    <2> QED BY <1>1, <1>3, <2>2 DEF LastState
  <1>4. CASE Finished # Len(snaps)
    <2>1. wpc \in Committing /\ Finished = Len(snaps) - 1
      BY <1>4, RunningOpen
    <2>2. /\ LastState = Applied(StateBefore, writeSet)
          /\ committedWSs[0][1].keys = KeysOf(writeSet)
          /\ tbl[1 - at] = IF at = 1 THEN StateBefore ELSE LastState
          /\ k \notin KeysOf(writeSet) => tbl[at][k] = LastState[k]
      BY <2>1 DEF TableInv
    <2>3. CASE k \in KeysOf(writeSet)
      <3>1. 1 \in Later(Finished)
        BY <1>1, <2>1 DEF Later
      <3> QED BY <2>2, <2>3, <3>1 DEF Overwritten
    <2>4. CASE k \notin KeysOf(writeSet)
      <3>1. LastState[k] = StateBefore[k]
        BY <2>2, <2>4, AppliedOther
      <3>2. t = at \/ t = 1 - at
        BY <1>1
      <3>3. tbl[t][k] = StateBefore[k]
        BY <2>2, <2>4, <3>1, <3>2
      <3> QED BY <2>1, <3>3 DEF StateBefore
    <2> QED BY <2>3, <2>4
  <1> QED BY <1>2, <1>3, <1>4

LEMMA RegisterBase ==
    ASSUME PlaceInv, WriteSetInv, TableInv, NEW r \in Readers, Register(r)
    PROVE  QueryBase(r)'
  <1> PICK b \in Nat : b = Finished
    BY BaseTypes
  <1>1. /\ rpc'[r] = "get" /\ rpos'[r] = 0
        /\ UNCHANGED <<tbl, committedWSs, writerVars, snaps, began, rtx, rslot>>
    BY DEF Register, histVars, PlaceInv, TypeOK, QueryPlace
  <1>2. Finished' = Finished /\ Later(b)' = Later(b)
    BY <1>1 DEF Finished, Later, writerVars
  <1>3. b \in 1 .. Len(snaps) /\ b \in began[r] .. Finished
    BY BaseTypes
  <1>4. SetsKept(r, b)
    <2>1. CASE b = Len(snaps)
      BY <2>1, BaseTypes DEF SetsKept, Later
    <2>2. CASE b # Len(snaps)
      <3>1. b = Len(snaps) - 1 /\ Len(committedWSs[0]) >= 1 /\ committedWSs[0][1].endTS = DTS_INF
        BY <2>2, RunningOpen
      <3>2. Later(b) = {1}
        BY <3>1, BaseTypes DEF Later
      <3>3. rtx[r] < DTS_INF
        <4>1. nextTxID <= MaxTS + 1 /\ nextTxID \in Nat
          BY BoundAssumption DEF PlaceInv, TypeOK
        <4>2. rtx[r] < nextTxID /\ rtx[r] \in Nat
          BY Numbers DEF PlaceInv, QueryPlace
        <4> QED BY <4>1, <4>2, BoundAssumption DEF DTS_INF
      <3> QED BY <3>1, <3>2, <3>3 DEF SetsKept
    <2> QED BY <2>1, <2>2
  <1>5. TablesSafe(b)
    BY FinishedSafe
  <1>6. EndsAfter(r, b)
    BY DEF EndsAfter, Finished, Scanning
  <1>7. SetsKept(r, b)' /\ TablesSafe(b)' /\ EndsAfter(r, b)'
    BY <1>1, <1>2, <1>4, <1>5, <1>6
       DEF SetsKept, TablesSafe, EndsAfter, Overwritten, Later, Finished, writerVars
  <1>8. \A m \in Reads : ~(m < 0)
    BY SizeAssumption DEF Reads
  <1>9. Base(r, b)'
    BY <1>1, <1>2, <1>3, <1>7, <1>8 DEF Base
  <1>10. b \in 1 .. Len(snaps')
    BY <1>1, <1>3
  <1> QED BY <1>1, <1>9, <1>10 DEF QueryBase, Based, Passed

LEMMA ReadPositions ==
    ASSUME NEW m \in Reads
    PROVE  m \in Nat /\ m < 2 * TxSize /\ (m \div 2) + 1 \in 1 .. TxSize
  BY SizeAssumption DEF Reads

LEMMA GetByKeyBase ==
    ASSUME PlaceInv, NEW r \in Readers, QueryBase(r), GetByKey(r)
    PROVE  QueryBase(r)'
  <1> DEFINE k == KeyOf(r, rpos[r])
             u == rpos[r] % 2
  <1>1. rpc[r] = "get" /\ rat[r] = 0 /\ rpos[r] \in Reads /\ rkeys[r] \in [1 .. TxSize -> Keys]
    <2>1. rpc[r] = "get"
      BY DEF GetByKey
    <2>2. rpos[r] < 2 * TxSize /\ rat[r] = 0 /\ rkeys[r] \in [1 .. TxSize -> Keys]
      BY <2>1 DEF PlaceInv, QueryPlace
    <2>3. rpos[r] \in Nat
      BY Numbers DEF PlaceInv
    <2> QED BY <2>1, <2>2, <2>3, SizeAssumption DEF Reads
  <1>2. PICK b \in 1 .. Len(snaps) : Base(r, b)
    BY <1>1 DEF QueryBase, Based
  <1>3. /\ UNCHANGED <<tbl, committedWSs, writerVars, snaps, began, rtx, rslot, rkeys, rat, rts>>
        /\ rpc'[r] \in {"get", "draw"}
        /\ \/ rpos'[r] = 0
           \/ /\ rpos'[r] = rpos[r] + 1
              /\ got'[r] = [got[r] EXCEPT ![rpos[r]] = tbl[u][k]]
    <2>1. UNCHANGED <<tbl, committedWSs, writerVars, snaps, began, rtx, rslot, rkeys, rat, rts>>
      BY DEF GetByKey, histVars
    <2>2. DOMAIN rpc = Readers /\ DOMAIN rpos = Readers /\ DOMAIN got = Readers
      BY DEF PlaceInv, TypeOK
    <2>3. CASE tbl[u][k] = NoValue
      <3>1. rpos' = [rpos EXCEPT ![r] = 0] /\ rpc' = rpc
        BY <2>3 DEF GetByKey
      <3> QED BY <1>1, <2>1, <2>2, <3>1
    <2>4. CASE tbl[u][k] # NoValue
      <3>1. /\ got' = [got EXCEPT ![r][rpos[r]] = tbl[u][k]]
            /\ rpos' = [rpos EXCEPT ![r] = @ + 1]
            /\ rpc' = [rpc EXCEPT ![r] = IF rpos[r] + 1 \in Reads THEN "get" ELSE "draw"]
        BY <2>4 DEF GetByKey
      <3>2. DOMAIN got = Readers
        BY <2>2
      <3>3. got'[r] = [got[r] EXCEPT ![rpos[r]] = tbl[u][k]]
        BY <3>1, <3>2
      <3> QED BY <2>1, <2>2, <3>1, <3>3
    <2> QED BY <2>3, <2>4
  <1>4. k \in Keys /\ u \in Tables
    <2>1. rpos[r] \in Nat /\ (rpos[r] \div 2) + 1 \in 1 .. TxSize
      BY <1>1, ReadPositions
    <2>2. k \in Keys
      BY <1>1, <2>1 DEF KeyOf
    <2>3. u \in 0 .. 1
      BY <2>1
    <2> QED BY <2>2, <2>3 DEF Tables
  <1>5. ASSUME NEW m \in Reads, m < rpos'[r]
        PROVE  ReadSafe(r, b, m)'
    <2>1. rpos[r] \in Nat /\ m \in Nat /\ rpos'[r] = rpos[r] + 1
          /\ got'[r] = [got[r] EXCEPT ![rpos[r]] = tbl[u][k]]
      BY <1>1, <1>3, <1>5, ReadPositions
    <2>2. Later(b)' = Later(b) /\ KeyOf(r, m)' = KeyOf(r, m)
      BY <1>3 DEF Later, KeyOf
    <2>3. \A n : Seen(r, n)'
      BY <1>3 DEF Seen
    <2>4. SUFFICES got'[r][m] = snaps[b][KeyOf(r, m)] \/ Overwritten(b, KeyOf(r, m))
      BY <1>3, <2>2, <2>3 DEF ReadSafe, Overwritten
    <2>5. CASE m = rpos[r]
      <3>1. tbl[u][k] = snaps[b][k] \/ Overwritten(b, k)
        BY <1>1, <1>2, <1>4 DEF Base, TablesSafe
      <3>2. got'[r][m] = tbl[u][k]
        BY <1>1, <2>1, <2>5 DEF PlaceInv, TypeOK
      <3> QED BY <2>5, <3>1, <3>2
    <2>6. CASE m # rpos[r]
      <3>1. m < rpos[r]
        BY <1>5, <2>1, <2>6
      <3>2. ReadSafe(r, b, m)
        BY <1>2, <3>1 DEF Base
      <3>3. got'[r][m] = got[r][m]
        BY <2>1, <2>6 DEF PlaceInv, TypeOK
      <3> QED BY <3>2, <3>3 DEF ReadSafe, Overwritten
    <2> QED BY <2>5, <2>6
  <1>6. b \in began'[r] .. Finished' /\ SetsKept(r, b)' /\ TablesSafe(b)' /\ EndsAfter(r, b)'
    <2>1. b \in began[r] .. Finished /\ SetsKept(r, b) /\ TablesSafe(b) /\ EndsAfter(r, b)
      BY <1>1, <1>2 DEF Base
    <2> QED BY <1>3, <2>1 DEF SetsKept, TablesSafe, EndsAfter, Overwritten, Later, Finished, writerVars
  <1>7. Base(r, b)' /\ b \in 1 .. Len(snaps')
    BY <1>3, <1>5, <1>6 DEF Base
  <1>8. rat'[r] = 0
    BY <1>1, <1>3
  <1> QED BY <1>3, <1>7, <1>8 DEF QueryBase, Based, Passed

LEMMA DrawLockBase ==
    ASSUME PlaceInv, WriteSetInv, NEW r \in Readers, QueryBase(r), DrawValTS(r) \/ LockShared(r)
    PROVE  QueryBase(r)'
  <1>1. /\ UNCHANGED <<tbl, committedWSs, writerVars, snaps, began, rtx, rslot, rkeys, rpos, got,
                       rat, failed>>
        /\ rpc[r] \in {"draw", "lock"} /\ rpc'[r] \in {"lock", "validate"}
        /\ rpc[r] = "draw" => rts'[r] = nextTxID + 1
        /\ rpc[r] = "lock" => rts'[r] = rts[r]
    BY DEF DrawValTS, LockShared, histVars, PlaceInv, TypeOK
  <1>2. CASE rat[r] = 0
    <2>1. PICK b \in 1 .. Len(snaps) : Base(r, b)
      BY <1>1, <1>2 DEF QueryBase, Based
    <2>2. \A n \in Later(b) : Seen(r, n)'  <=> committedWSs[0][n].valTS < rts'[r]
      BY <1>1 DEF Seen
    <2>3. \A n \in Later(b) : Seen(r, n) => Seen(r, n)'
      <3> SUFFICES ASSUME NEW n \in Later(b), Seen(r, n)
                   PROVE  committedWSs[0][n].valTS < rts'[r]
        BY <2>2
      <3>1. CASE rpc[r] = "lock"
        BY <1>1, <3>1 DEF Seen
      <3>2. CASE rpc[r] = "draw"
        <4>1. n \in 1 .. Len(committedWSs[0]) /\ 0 \in Tables
          <5>1. n <= Len(committedWSs[0]) /\ n \in Int /\ n >= 1
            BY <2>1, BaseTypes DEF Base, SetsKept, Later
          <5>2. 0 \in Tables /\ Len(committedWSs[0]) \in Nat
            BY DEF Tables, PlaceInv, TypeOK
          <5> QED BY <5>1, <5>2
        <4>2. committedWSs[0][n].valTS < nextTxID
          BY <4>1 DEF WriteSetInv, TableSets
        <4>3. committedWSs[0][n].valTS \in Int
          BY <4>1, WriteSetType DEF PlaceInv
        <4>4. nextTxID \in Nat /\ rts'[r] = nextTxID + 1
          BY <1>1, <3>2, Numbers DEF PlaceInv
        <4> QED BY <4>2, <4>3, <4>4
      <3> QED BY <1>1, <3>1, <3>2
    <2>4. \A m \in Reads : m < rpos[r] => ReadSafe(r, b, m)'
      <3> SUFFICES ASSUME NEW m \in Reads, m < rpos[r]
                   PROVE  ReadSafe(r, b, m)'
        OBVIOUS
      <3>1. ReadSafe(r, b, m)
        BY <2>1 DEF Base
      <3>2. Later(b)' = Later(b) /\ KeyOf(r, m)' = KeyOf(r, m)
        BY <1>1 DEF Later, KeyOf
      <3> QED BY <1>1, <2>3, <3>1, <3>2 DEF ReadSafe
    <2>5. b \in began'[r] .. Finished' /\ SetsKept(r, b)' /\ EndsAfter(r, b)'
      <3>1. b \in began[r] .. Finished /\ SetsKept(r, b) /\ EndsAfter(r, b)
        BY <2>1 DEF Base
      <3> QED BY <1>1, <3>1 DEF SetsKept, EndsAfter, Later, Finished, writerVars
    <2>6. Base(r, b)' /\ b \in 1 .. Len(snaps')
      BY <1>1, <2>4, <2>5 DEF Base
    <2> QED BY <1>1, <1>2, <2>6 DEF QueryBase, Based, Passed
  <1>3. CASE rat[r] # 0
    <2>1. rat[r] = 1 /\ rat'[r] = 1
      BY <1>1, <1>3 DEF PlaceInv, TypeOK, Tables
    <2>2. failed[r] \/ \E i \in began[r] .. Len(snaps) : ReadsFrom(r, i)
      BY <1>1, <2>1 DEF QueryBase, Passed
    <2>3. \A i : ReadsFrom(r, i)' <=> ReadsFrom(r, i)
      BY <1>1 DEF ReadsFrom, KeyOf
    <2> QED BY <1>1, <2>1, <2>2, <2>3 DEF QueryBase, Based, Passed
  <1> QED BY <1>2, <1>3

\* A query that passes table 0 has read one state: every write set that
\* could have changed what it read would have been a conflict.
LEMMA ValidateBase ==
    ASSUME PlaceInv, NEW r \in Readers, QueryBase(r), Validate(r)
    PROVE  QueryBase(r)'
  <1>1. /\ UNCHANGED <<snaps, began, rkeys, got>> /\ rpc[r] = "validate" /\ rpos[r] = 2 * TxSize
        /\ rkeys[r] \in [1 .. TxSize -> Keys]
    BY DEF Validate, histVars, PlaceInv, QueryPlace
  <1>2. \A i : ReadsFrom(r, i)' <=> ReadsFrom(r, i)
    BY <1>1 DEF ReadsFrom, KeyOf
  <1>3. failed'[r] = (failed[r] \/ InConflict(r))
    BY DEF Validate, PlaceInv, TypeOK
  <1>4. CASE rat[r] = 0
    <2>1. rat'[r] = 1 /\ rpc'[r] = "draw"
      BY <1>4 DEF Validate, PlaceInv, TypeOK
    <2>2. PICK b \in 1 .. Len(snaps) : Base(r, b)
      BY <1>1, <1>4 DEF QueryBase, Based
    <2>3. ASSUME ~failed'[r]
          PROVE  ReadsFrom(r, b)
      <3> SUFFICES ASSUME NEW m \in Reads
                   PROVE  got[r][m] = snaps[b][KeyOf(r, m)]
        BY DEF ReadsFrom
      <3>1. m < rpos[r] /\ (m \div 2) + 1 \in 1 .. TxSize
        BY <1>1, ReadPositions
      <3>2. ReadSafe(r, b, m)
        BY <2>2, <3>1 DEF Base
      <3>3. ASSUME NEW n \in Later(b), Seen(r, n), KeyOf(r, m) \in committedWSs[0][n].keys
            PROVE  FALSE
        <4>1. n \in 1 .. Len(committedWSs[0]) /\ rtx[r] < committedWSs[0][n].endTS
          <5>1. /\ n <= Len(committedWSs[0]) /\ n \in Int /\ n >= 1
                /\ rtx[r] < committedWSs[0][n].endTS
            BY <2>2, BaseTypes DEF Base, SetsKept, Later
          <5>2. Len(committedWSs[0]) \in Nat
            BY DEF Tables, PlaceInv, TypeOK
          <5> QED BY <5>1, <5>2
        <4>2. committedWSs[0][n].valTS < rts[r]
          BY <1>1, <3>3 DEF Seen
        <4>3. rts[r] > committedWSs[0][n].valTS
          <5>1. 0 \in Tables
            BY DEF Tables
          <5>2. rts[r] \in Nat /\ committedWSs[0][n].valTS \in Int
            BY <4>1, <5>1, Numbers, WriteSetType DEF PlaceInv
          <5> QED BY <4>2, <5>2
        <4>4. \E i \in 1 .. TxSize : rkeys[r][i] \in committedWSs[0][n].keys
          BY <3>1, <3>3 DEF KeyOf
        <4>5. InConflict(r)
          BY <1>4, <4>1, <4>3, <4>4 DEF InConflict, Conflicts
        <4> QED BY <1>3, <2>3, <4>5
      <3> QED BY <3>2, <3>3 DEF ReadSafe
    <2>4. b \in began[r] .. Len(snaps)
      <3>1. b \in began[r] .. Finished
        BY <2>2 DEF Base
      <3> QED BY <3>1, BaseTypes
    <2>5. Passed(r)' => failed'[r] \/ \E i \in began'[r] .. Len(snaps') : ReadsFrom(r, i)'
      BY <1>1, <1>2, <2>3, <2>4
    <2> QED BY <2>1, <2>5 DEF QueryBase, Based
  <1>5. CASE rat[r] # 0
    <2>1. rat[r] = 1
      BY <1>5 DEF PlaceInv, TypeOK, Tables
    <2>2. rpc'[r] = (IF failed'[r] THEN "restart" ELSE "done")
      BY <2>1 DEF Validate, PlaceInv, TypeOK
    <2>3. failed[r] \/ \E i \in began[r] .. Len(snaps) : ReadsFrom(r, i)
      BY <1>1, <2>1 DEF QueryBase, Passed
    <2> QED BY <1>1, <1>2, <1>3, <2>2, <2>3 DEF QueryBase, Based, Passed
  <1> QED BY <1>4, <1>5

LEMMA ReaderBase ==
    ASSUME PlaceInv, WriteSetInv, TableInv, BaseInv, NEW r \in Readers, ReaderStep(r)
    PROVE  BaseInv'
  <1>1. ASSUME NEW z \in Readers, z # r
        PROVE  QueryBase(z)'
    <2>1. UNCHANGED <<tbl, committedWSs, writerVars, snaps>>
      BY ReaderFrame
    <2>2. /\ rpc'[z] = rpc[z] /\ rtx'[z] = rtx[z] /\ rslot'[z] = rslot[z]
          /\ rkeys'[z] = rkeys[z] /\ rpos'[z] = rpos[z] /\ got'[z] = got[z]
          /\ rat'[z] = rat[z] /\ rts'[z] = rts[z] /\ failed'[z] = failed[z]
          /\ began'[z] = began[z]
      BY <1>1, ReaderAlone DEF PlaceInv
    <2>3. /\ \A b : Later(b)' = Later(b)
          /\ \A b : TablesSafe(b)' <=> TablesSafe(b)
          /\ \A m : KeyOf(z, m)' = KeyOf(z, m)
          /\ Finished' = Finished
      BY <2>1, <2>2 DEF Later, TablesSafe, Overwritten, KeyOf, Finished, writerVars
    <2>4. \A b : /\ SetsKept(z, b)' <=> SetsKept(z, b)
                 /\ EndsAfter(z, b)' <=> EndsAfter(z, b)
                 /\ ReadsFrom(z, b)' <=> ReadsFrom(z, b)
                 /\ \A m : ReadSafe(z, b, m)' <=> ReadSafe(z, b, m)
      BY <2>1, <2>2, <2>3 DEF SetsKept, EndsAfter, ReadsFrom, ReadSafe, Seen, writerVars
    <2>5. \A b : Base(z, b)' <=> Base(z, b)
      BY <2>2, <2>3, <2>4 DEF Base
    <2>6. QueryBase(z)
      BY DEF BaseInv
    <2> QED BY <2>1, <2>2, <2>4, <2>5, <2>6 DEF QueryBase, Based, Passed
  <1>2. QueryBase(r)'
    <2>1. QueryBase(r)
      BY DEF BaseInv
    <2>2. CASE rpc'[r] \in {"idle", "begin", "slot", "register"}
      BY <2>2 DEF QueryBase, Based, Passed
    <2>3. CASE Register(r) \/ GetByKey(r) \/ DrawValTS(r) \/ LockShared(r) \/ Validate(r)
      BY <2>1, <2>3, RegisterBase, GetByKeyBase, DrawLockBase, ValidateBase
    <2>4. ASSUME NEW ks \in [1 .. TxSize -> Keys], StartRead(r, ks)
          PROVE  QueryBase(r)'
      BY <2>2, <2>4 DEF StartRead, PlaceInv, TypeOK
    <2>5. CASE NewTx(r) \/ TakeSlot(r)
      BY <2>2, <2>5 DEF NewTx, TakeSlot, PlaceInv, TypeOK
    <2>6. CASE RestartRead(r) \/ FinishRead(r)
      BY <2>2, <2>6 DEF RestartRead, FinishRead, PlaceInv, TypeOK
    <2> QED BY <2>3, <2>4, <2>5, <2>6 DEF ReaderStep
  <1> QED BY <1>1, <1>2 DEF BaseInv

LEMMA SnapsGrow ==
    ASSUME PlaceInv, WriterStep \/ UNCHANGED vars
    PROVE  /\ Len(snaps') \in Nat /\ Len(snaps) <= Len(snaps')
           /\ \A i \in 1 .. Len(snaps) : snaps'[i] = snaps[i]
           /\ ~SaveWriteSet \/ at = 1 => snaps' = snaps
  <1>1. Len(snaps) \in Nat /\ snaps \in Seq([Keys -> Records]) /\ Len(snaps) >= 1 /\ at \in {0, 1}
    BY DEF PlaceInv, TypeOK, Tables
  <1>2. CASE SaveWriteSet /\ at = 0
    <2> DEFINE s == Applied(LastState, writeSet)
    <2>1. snaps' = Append(snaps, s)
      BY <1>2 DEF SaveWriteSet, LastState
    <2>2. s \in [Keys -> Records]
      BY TableTypes, AppliedType
    <2> HIDE DEF s
    <2>3. /\ Len(snaps') = Len(snaps) + 1
          /\ \A i \in 1 .. Len(snaps) : snaps'[i] = snaps[i]
      BY <1>1, <2>1, <2>2
    <2> QED BY <1>1, <1>2, <2>3
  <1>3. CASE snaps' = snaps
    BY <1>1, <1>3
  <1>4. CASE SaveWriteSet /\ at = 1
    BY <1>3, <1>4 DEF SaveWriteSet
  <1> USE DEF histVars
  <1>5. CASE \/ TransactionBegin \/ TransactionAbort \/ TransactionPreCommit \/ RemoveTx
             \/ \E k \in Keys, v \in Values : Insert(k, v)
    BY <1>3, <1>5 DEF TransactionBegin, TransactionAbort, TransactionPreCommit, RemoveTx, Insert
  <1>6. CASE DrawTS \/ LockExclusive \/ Write \/ EndWrite \/ StampEnd
    BY <1>3, <1>6 DEF DrawTS, LockExclusive, Write, EndWrite, StampEnd
  <1>7. CASE ScanSlot \/ EndScan \/ EraseWriteSets
    BY <1>3, <1>7 DEF ScanSlot, EndScan, EraseWriteSets
  <1>8. CASE UNCHANGED vars
    BY <1>3, <1>8 DEF vars
  <1> QED BY <1>1, <1>2, <1>4, <1>5, <1>6, <1>7, <1>8 DEF WriterStep

\* What a step of the writer has to leave for a query and its state b.
LEMMA BaseFrame ==
    ASSUME PlaceInv, NEW r \in Readers, NEW b \in 1 .. Len(snaps), Base(r, b),
           UNCHANGED <<readerVars, began, snaps>>,
           Finished <= Finished',
           \A n \in Later(b) :
              /\ n <= Len(committedWSs'[0])
              /\ committedWSs'[0][n].keys = committedWSs[0][n].keys
              /\ committedWSs'[0][n].valTS = committedWSs[0][n].valTS
              /\ rtx[r] < committedWSs'[0][n].endTS,
           rpc[r] = "get" => TablesSafe(b)',
           EndsAfter(r, b)'
    PROVE  Base(r, b)'
  <1>1. /\ \A m : KeyOf(r, m)' = KeyOf(r, m) /\ Later(b)' = Later(b)
        /\ rpc' = rpc /\ rtx' = rtx /\ rpos' = rpos /\ rts' = rts /\ got' = got
    BY DEF KeyOf, Later, readerVars
  <1>2. SetsKept(r, b)'
    BY <1>1 DEF SetsKept
  <1>3. \A n \in Later(b) : Seen(r, n)' <=> Seen(r, n)
    BY <1>1 DEF Seen
  <1>4. \A m \in Reads : m < rpos[r] => ReadSafe(r, b, m)'
    BY <1>1, <1>3 DEF Base, ReadSafe
  <1>5. b \in began'[r] .. Finished'
    <2>1. b \in began[r] .. Finished /\ b \in Nat /\ began[r] \in Nat /\ Finished \in Nat
      BY BaseTypes DEF Base
    <2>2. Finished' \in Int
      BY BaseTypes DEF Finished
    <2> QED BY <2>1, <2>2
  <1> QED BY <1>1, <1>2, <1>4, <1>5 DEF Base

\* Steps that change neither the tables nor the write sets of table 0.
LEMMA QuietBase ==
    ASSUME PlaceInv, NEW r \in Readers, NEW b \in 1 .. Len(snaps), Base(r, b),
           UNCHANGED <<readerVars, began, snaps, tbl>>, committedWSs'[0] = committedWSs[0],
           Finished <= Finished', EndsAfter(r, b)'
    PROVE  Base(r, b)'
  <1>1. \A n \in Later(b) : n <= Len(committedWSs[0]) /\ rtx[r] < committedWSs[0][n].endTS
    BY DEF Base, SetsKept
  <1>2. rpc[r] = "get" => TablesSafe(b)'
    <2>1. Later(b)' = Later(b)
      BY DEF Later
    <2> QED BY <2>1 DEF Base, TablesSafe, Overwritten
  <1> QED BY <1>1, <1>2, BaseFrame

LEMMA BeginsBase ==
    ASSUME PlaceInv, NEW r \in Readers, NEW b \in 1 .. Len(snaps), Base(r, b),
           \/ TransactionBegin \/ TransactionAbort \/ TransactionPreCommit \/ RemoveTx
           \/ EndWrite \/ LockExclusive \/ (SaveWriteSet /\ at = 1)
           \/ \E k \in Keys, v \in Values : Insert(k, v)
    PROVE  Base(r, b)'
  <1>0. Finished \in Nat /\ Len(snaps) \in Nat
    BY BaseTypes
  <1>1. CASE \/ TransactionBegin \/ TransactionAbort \/ TransactionPreCommit \/ RemoveTx
             \/ \E k \in Keys, v \in Values : Insert(k, v)
    <2>1. /\ UNCHANGED <<readerVars, began, snaps, tbl, committedWSs>>
          /\ wpc' \notin Committing /\ wpc \notin Committing
      BY <1>1 DEF TransactionBegin, TransactionAbort, TransactionPreCommit, RemoveTx, Insert, histVars,
                  Committing, Scanning
    <2>2. EndsAfter(r, b)'
      BY <2>1 DEF EndsAfter, Committing, Scanning
    <2>3. Finished = Len(snaps) /\ Finished' = Len(snaps)
      BY <2>1 DEF Finished, Committing
    <2> QED BY <1>0, <2>1, <2>2, <2>3, QuietBase
  <1>2. CASE EndWrite
    <2>1. /\ UNCHANGED <<readerVars, began, snaps, tbl, committedWSs>> /\ wpc = "write" /\ wpc' = "endTS"
      BY <1>2 DEF EndWrite, histVars
    <2>2. EndsAfter(r, b)'
      BY <2>1 DEF EndsAfter, Scanning
    <2>3. Finished' = Finished
      BY <2>1 DEF Finished
    <2> QED BY <1>0, <2>1, <2>2, <2>3, QuietBase
  <1>3. CASE LockExclusive
    <2>1. /\ UNCHANGED <<readerVars, began, snaps, tbl, committedWSs, at, scan, oldest>>
          /\ \/ wpc = "saveLock" /\ wpc' = "save"
             \/ wpc = "eraseLock" /\ wpc' = "erase"
      BY <1>3 DEF LockExclusive, histVars
    <2>2. EndsAfter(r, b)'
      BY <2>1 DEF Base, EndsAfter, Scanning, readerVars
    <2>3. Finished' = Finished
      BY <2>1 DEF Finished, Committing, Scanning
    <2> QED BY <1>0, <2>1, <2>2, <2>3, QuietBase
  <1>4. CASE SaveWriteSet /\ at = 1
    <2>1. /\ UNCHANGED <<readerVars, began, snaps, tbl>> /\ wpc = "save" /\ wpc' = "valTS"
          /\ committedWSs' = [committedWSs EXCEPT ![1] = Enter(@, KeysOf(writeSet))]
      BY <1>4 DEF SaveWriteSet
    <2>2. committedWSs'[0] = committedWSs[0]
      BY <2>1 DEF PlaceInv, TypeOK, Tables
    <2>3. EndsAfter(r, b)'
      BY <2>1 DEF EndsAfter, Scanning
    <2>4. Finished' = Finished
      BY <2>1 DEF Finished, Committing, Scanning
    <2> QED BY <1>0, <2>1, <2>2, <2>3, <2>4, QuietBase
  <1> QED BY <1>1, <1>2, <1>3, <1>4

\* The end timestamp is drawn after every transaction ID that is in use.
LEMMA DrawTSBase ==
    ASSUME PlaceInv, NEW r \in Readers, NEW b \in 1 .. Len(snaps), Base(r, b), DrawTS
    PROVE  Base(r, b)'
  <1>1. /\ UNCHANGED <<readerVars, began, snaps, tbl, committedWSs, at>> /\ wts' = nextTxID
        /\ wpc' \notin Scanning
        /\ \/ wpc = "valTS" /\ wpc' = "saveLock"
           \/ wpc = "endTS" /\ wpc' = "stamp"
    BY DEF DrawTS, histVars, Scanning
  <1>2. rtx'[r] < wts'
    BY <1>1 DEF PlaceInv, QueryPlace, readerVars
  <1>3. EndsAfter(r, b)'
    BY <1>1, <1>2 DEF EndsAfter
  <1>4. Finished <= Finished'
    BY <1>1, BaseTypes DEF Finished, Committing, Scanning
  <1> QED BY <1>1, <1>3, <1>4, QuietBase

LEMMA StampBase ==
    ASSUME PlaceInv, SlotInv, WriteSetInv, NEW r \in Readers, Based(r),
           NEW b \in 1 .. Len(snaps), Base(r, b), StampEnd
    PROVE  Base(r, b)'
  <1>1. /\ UNCHANGED <<readerVars, began, snaps, tbl, at>> /\ scan' = usedSlots
        /\ committedWSs' = [committedWSs EXCEPT ![at][1].endTS = wts]
        /\ wpc = "stamp" /\ wpc' = "scan"
    BY DEF StampEnd, histVars
  <1>2. r \in Taken
    BY DEF Based, Taken
  <1>3. rslot'[r] \in scan'
    BY <1>1, <1>2 DEF SlotInv, SlotsOwned, Owned, readerVars
  <1>4. EndsAfter(r, b)'
    BY <1>1, <1>3 DEF EndsAfter
  <1>5. Finished' = Finished /\ Finished \in Nat
    BY <1>1, BaseTypes DEF Finished, Committing, Scanning
  <1>6. /\ committedWSs \in [Tables -> Seq(WriteSets)] /\ at \in Tables /\ 0 \in Tables /\ wts \in TS
        /\ Len(committedWSs[0]) \in Nat
    BY DEF PlaceInv, TypeOK, Tables
  <1>7. CASE at # 0
    <2>1. committedWSs'[0] = committedWSs[0]
      BY <1>1, <1>6, <1>7
    <2> QED BY <1>1, <1>4, <1>5, <2>1, QuietBase
  <1>8. CASE at = 0
    <2> DEFINE s == committedWSs[0]
               z == [s EXCEPT ![1].endTS = wts]
    <2>1. committedWSs'[0] = z /\ s \in Seq(WriteSets)
      BY <1>1, <1>6, <1>8
    <2> HIDE DEF s
    <2>2. /\ Len(z) = Len(s) /\ Len(s) \in Nat
          /\ \A n \in 1 .. Len(s) : /\ z[n].keys = s[n].keys
                                    /\ z[n].valTS = s[n].valTS
                                    /\ z[n].endTS = IF n = 1 THEN wts ELSE s[n].endTS
      BY <1>6, <2>1, StampFacts
    <2> HIDE DEF z
    <2>3. \A n \in Later(b) : n \in 1 .. Len(s) /\ rtx[r] < s[n].endTS /\ rtx[r] < wts
      <3> SUFFICES ASSUME NEW n \in Later(b)
                   PROVE  n \in 1 .. Len(s) /\ rtx[r] < s[n].endTS /\ rtx[r] < wts
        OBVIOUS
      <3>1. n \in Int /\ n >= 1 /\ b # Len(snaps)
        BY BaseTypes DEF Later
      <3>2. n <= Len(s) /\ rtx[r] < s[n].endTS
        BY DEF Base, SetsKept, s
      <3>3. rtx[r] < wts
        BY <1>1, <1>8, <3>1 DEF Base, EndsAfter
      <3> QED BY <2>2, <3>1, <3>2, <3>3
    <2>4. \A n \in Later(b) :
              /\ n <= Len(z) /\ z[n].keys = s[n].keys /\ z[n].valTS = s[n].valTS
              /\ rtx[r] < z[n].endTS
      BY <2>2, <2>3
    <2>5. rpc[r] = "get" => TablesSafe(b)'
      <3>1. Later(b)' = Later(b)
        BY <1>1 DEF Later
      <3>2. \A k : Overwritten(b, k) => Overwritten(b, k)'
        BY <2>1, <2>4, <3>1 DEF Overwritten, s
      <3> QED BY <1>1, <3>2 DEF Base, TablesSafe
    <2>6. \A n \in Later(b) :
              /\ n <= Len(committedWSs'[0])
              /\ committedWSs'[0][n].keys = committedWSs[0][n].keys
              /\ committedWSs'[0][n].valTS = committedWSs[0][n].valTS
              /\ rtx[r] < committedWSs'[0][n].endTS
      BY <2>1, <2>4 DEF s
    <2> QED BY <1>1, <1>4, <1>5, <2>5, <2>6, BaseFrame
  <1> QED BY <1>7, <1>8

\* The scan meets the slot of the query, which shows its transaction ID.
LEMMA ScanBase ==
    ASSUME PlaceInv, SlotInv, NEW r \in Readers, Based(r),
           NEW b \in 1 .. Len(snaps), Base(r, b), ScanSlot
    PROVE  Base(r, b)'
  <1>1. /\ UNCHANGED <<readerVars, began, snaps, tbl, committedWSs, at, wpc>> /\ wpc = "scan"
    BY DEF ScanSlot, histVars
  <1>2. PICK s \in scan : /\ scan' = scan \ {s}
                          /\ oldest' = IF activeTxs[s] < oldest THEN activeTxs[s] ELSE oldest
    BY DEF ScanSlot
  <1>3. activeTxs[rslot[r]] = rtx[r]
    BY DEF SlotInv, SlotsShow, Registered, Taken, Based
  <1>4. rtx[r] \in Nat /\ oldest \in Nat /\ activeTxs[s] \in Nat
    <2>1. s \in Slots
      BY DEF PlaceInv, TypeOK
    <2> QED BY <2>1, Numbers DEF PlaceInv
  <1>5. EndsAfter(r, b)'
    <2> SUFFICES ASSUME at = 0
                 PROVE  b = Len(snaps) \/ oldest' <= rtx[r] \/ rslot[r] \in scan'
      BY <1>1 DEF EndsAfter, readerVars
    <2>1. b = Len(snaps) \/ oldest <= rtx[r] \/ rslot[r] \in scan
      BY <1>1 DEF Base, EndsAfter, Scanning
    <2>2. CASE oldest <= rtx[r]
      BY <1>2, <1>4, <2>2
    <2>3. CASE rslot[r] = s
      BY <1>2, <1>3, <1>4, <2>3
    <2>4. CASE rslot[r] \in scan /\ rslot[r] # s
      BY <1>2, <2>4
    <2> QED BY <2>1, <2>2, <2>3, <2>4
  <1>6. Finished' = Finished /\ Finished \in Nat
    BY <1>1, BaseTypes DEF Finished
  <1> QED BY <1>1, <1>5, <1>6, QuietBase

LEMMA EndScanBase ==
    ASSUME PlaceInv, NEW r \in Readers, NEW b \in 1 .. Len(snaps), Base(r, b),
           EndScan \/ (EraseWriteSets /\ at # 0)
    PROVE  Base(r, b)'
  <1>1. /\ UNCHANGED <<readerVars, began, snaps, tbl>> /\ wpc \in {"scan", "erase"}
        /\ committedWSs'[0] = committedWSs[0]
    BY DEF EndScan, EraseWriteSets, histVars, PlaceInv, TypeOK, Tables
  <1>2. \/ wpc' = "eraseLock" /\ at' = at /\ scan' = scan /\ oldest' = oldest
        \/ wpc' = "write" /\ at = 1 /\ at' = 0
        \/ wpc' = "remove" /\ at = 0
    BY DEF EndScan, EraseWriteSets, NextTable
  <1>3. EndsAfter(r, b)'
    BY <1>1, <1>2 DEF Base, EndsAfter, Scanning, readerVars
  <1>4. Finished' = Finished /\ Finished \in Nat
    BY <1>1, <1>2, BaseTypes DEF Finished, Committing, Scanning
  <1> QED BY <1>1, <1>3, <1>4, QuietBase

\* Every write set that the query still needs is in front of the first
\* expired one.
LEMMA EraseBase ==
    ASSUME PlaceInv, WriteSetInv, NEW r \in Readers, NEW b \in 1 .. Len(snaps), Base(r, b),
           EraseWriteSets, at = 0
    PROVE  Base(r, b)'
  <1>1. /\ UNCHANGED <<readerVars, began, snaps, tbl>> /\ wpc = "erase" /\ wpc' = "remove"
        /\ scan = {}
    BY DEF EraseWriteSets, NextTable, histVars, WriteSetInv, WriterClock
  <1>2. PICK e \in Expired(0) :
              /\ e > 1 /\ e \in 1 .. Len(committedWSs[0])
              /\ Len(committedWSs'[0]) = e - 1
              /\ \A n \in 1 .. e - 1 : committedWSs'[0][n] = committedWSs[0][n]
    BY ErasedIs
  <1>3. ASSUME NEW n \in Later(b), ~(n < e)
        PROVE  FALSE
    <2>1. e \in Later(b) /\ b # Len(snaps)
      BY <1>2, <1>3, BaseTypes DEF Later
    <2>2. rtx[r] < committedWSs[0][e].endTS
      BY <2>1 DEF Base, SetsKept
    <2>3. oldest <= rtx[r]
      BY <1>1, <2>1 DEF Base, EndsAfter, Scanning
    <2>4. 0 \in Tables
      BY DEF Tables
    <2>5. /\ committedWSs[0][e].endTS \in Int /\ rtx[r] \in Int /\ oldest \in Int
      BY <1>2, <2>4, WriteSetType, Numbers, SMTT(60) DEF PlaceInv
    <2>6. CASE oldest = wtx
      <3>1. committedWSs[0][e].endTS < wtx
        BY <1>1, <1>2, <2>4 DEF WriteSetInv, TableSets
      <3> QED BY <2>2, <2>3, <2>5, <2>6, <3>1
    <2>7. CASE oldest # wtx
      <3>1. committedWSs[0][e].endTS <= oldest
        BY <1>2, <2>7 DEF Expired
      <3> QED BY <2>2, <2>3, <2>5, <3>1
    <2> QED BY <2>6, <2>7
  <1>4. \A n \in Later(b) : n \in 1 .. e - 1
    BY <1>2, <1>3, BaseTypes DEF Later
  <1>5. \A n \in Later(b) :
              /\ n <= Len(committedWSs'[0])
              /\ committedWSs'[0][n].keys = committedWSs[0][n].keys
              /\ committedWSs'[0][n].valTS = committedWSs[0][n].valTS
              /\ rtx[r] < committedWSs'[0][n].endTS
    <2>1. \A n \in Later(b) : rtx[r] < committedWSs[0][n].endTS
      BY DEF Base, SetsKept
    <2>2. \A n \in Later(b) : committedWSs'[0][n] = committedWSs[0][n]
      BY <1>2, <1>4
    <2>3. \A n \in Later(b) : n <= Len(committedWSs'[0])
      BY <1>2, <1>4
    <2> QED BY <2>1, <2>2, <2>3
  <1>6. rpc[r] = "get" => TablesSafe(b)'
    <2>1. Later(b)' = Later(b)
      BY <1>1 DEF Later
    <2>2. \A k : Overwritten(b, k) => Overwritten(b, k)'
      BY <1>5, <2>1 DEF Overwritten
    <2> QED BY <1>1, <2>2 DEF Base, TablesSafe
  <1>7. EndsAfter(r, b)'
    BY <1>1 DEF EndsAfter, Scanning
  <1>8. Finished' = Finished /\ Finished \in Nat
    BY <1>1, BaseTypes DEF Finished, Committing, Scanning
  <1> QED BY <1>1, <1>5, <1>6, <1>7, <1>8, BaseFrame

\* What the running transaction writes is announced in its write set.
LEMMA WriteBase ==
    ASSUME PlaceInv, TableInv, NEW r \in Readers, NEW b \in 1 .. Len(snaps), Base(r, b), Write
    PROVE  Base(r, b)'
  <1> DEFINE h == Head(todo)
  <1>1. /\ UNCHANGED <<readerVars, began, snaps, committedWSs, at, wpc>> /\ wpc = "write"
        /\ tbl' = [tbl EXCEPT ![at][h[1]] = Stored(tbl[at][h[1]], h[2])] /\ todo # <<>>
    BY DEF Write, histVars
  <1>2. h[1] \in committedWSs[0][1].keys
    <2>1. todo \in Seq(Keys \X Values)
      BY TableTypes
    <2>2. h = todo[1] /\ 1 \in 1 .. Len(todo)
      BY <1>1, <2>1
    <2>3. h[1] \in KeysOf(todo)
      BY <2>2 DEF KeysOf
    <2> QED BY <1>1, <2>3 DEF TableInv, Committing
  <1>3. 1 \in Later(b)
    <2>1. b <= Finished /\ Finished = Len(snaps) - 1
      BY <1>1, BaseTypes DEF Base, Finished
    <2> QED BY <2>1, BaseTypes DEF Later
  <1>4. rpc[r] = "get" => TablesSafe(b)'
    <2> SUFFICES ASSUME TablesSafe(b), NEW t \in Tables, NEW k \in Keys
                 PROVE  tbl'[t][k] = snaps[b][k] \/ Overwritten(b, k)
      BY <1>1 DEF Base, TablesSafe, Overwritten, Later
    <2>1. CASE k = h[1]
      BY <1>2, <1>3, <2>1 DEF Overwritten
    <2>2. CASE k # h[1]
      <3>1. tbl'[t][k] = tbl[t][k]
        BY <1>1, <2>2 DEF PlaceInv, TypeOK
      <3> QED BY <3>1 DEF TablesSafe
    <2> QED BY <2>1, <2>2
  <1>5. EndsAfter(r, b)'
    BY <1>1 DEF EndsAfter, Scanning
  <1>6. Finished' = Finished /\ Finished \in Nat
    BY <1>1, BaseTypes DEF Finished
  <1>7. \A n \in Later(b) : n <= Len(committedWSs[0]) /\ rtx[r] < committedWSs[0][n].endTS
    BY DEF Base, SetsKept
  <1> QED BY <1>1, <1>4, <1>5, <1>6, <1>7, BaseFrame

\* The new write set is in front, open; the others have moved back with the
\* distance to the newest state.
LEMMA SaveBase ==
    ASSUME PlaceInv, NEW r \in Readers, NEW b \in 1 .. Len(snaps), Base(r, b),
           SaveWriteSet, at = 0
    PROVE  Base(r, b)'
  <1>1. /\ UNCHANGED <<readerVars, began, tbl>> /\ wpc = "save" /\ wpc' = "write"
        /\ snaps' = Append(snaps, Applied(LastState, writeSet))
        /\ committedWSs' = [committedWSs EXCEPT ![0] = Enter(@, KeysOf(writeSet))]
    BY DEF SaveWriteSet, LastState
  <1>2. /\ Len(snaps) \in Nat /\ Len(snaps') = Len(snaps) + 1 /\ snaps'[b] = snaps[b]
    <2>1. Applied(LastState, writeSet) \in [Keys -> Records]
      BY TableTypes, AppliedType
    <2>2. snaps \in Seq([Keys -> Records])
      BY DEF PlaceInv, TypeOK
    <2> QED BY <1>1, <2>1, <2>2
  <1> DEFINE s == committedWSs[0]
             z == committedWSs'[0]
             ks == KeysOf(writeSet)
  <1>3. /\ Len(z) = Len(s) + 1 /\ Len(s) \in Nat
        /\ z[1] = [keys |-> ks, valTS |-> wts, endTS |-> DTS_INF]
        /\ \A n \in 1 .. Len(s) : z[n + 1] = s[n]
        /\ \A n \in 2 .. Len(s) + 1 : z[n] = s[n - 1]
    <2>1. s \in Seq(WriteSets) /\ wts \in TS /\ z = Enter(s, ks)
      BY <1>1 DEF PlaceInv, TypeOK, Tables
    <2>2. ks \in SUBSET Keys
      <3>1. writeSet \in Seq(Keys \X Values)
        BY TableTypes
      <3>2. \A n \in 1 .. Len(writeSet) : writeSet[n] \in Keys \X Values
        BY <3>1
      <3> QED BY <3>2 DEF KeysOf
    <2> HIDE DEF s, z, ks
    <2> QED BY <2>1, <2>2, EnterFacts
  <1> HIDE DEF ks
  <1>4. z[1].endTS = DTS_INF /\ rtx[r] < DTS_INF
    <2>1. nextTxID <= MaxTS + 1 /\ nextTxID \in Nat
      BY BoundAssumption DEF PlaceInv, TypeOK
    <2>2. rtx[r] < nextTxID /\ rtx[r] \in Nat
      BY Numbers DEF PlaceInv, QueryPlace
    <2>3. rtx[r] < DTS_INF
      BY <2>1, <2>2, BoundAssumption DEF DTS_INF
    <2> QED BY <1>3, <2>3
  <1> HIDE DEF s, z
  <1>5. \A n \in Later(b) : n \in 1 .. Len(s) /\ n + 1 \in Later(b)' /\ z[n + 1] = s[n]
    <2> SUFFICES ASSUME NEW n \in Later(b)
                 PROVE  n \in 1 .. Len(s) /\ n + 1 \in Later(b)' /\ z[n + 1] = s[n]
      OBVIOUS
    <2>1. n \in Int /\ n >= 1 /\ n + 1 \in Later(b)'
      BY <1>2 DEF Later
    <2>2. n <= Len(s)
      BY DEF Base, SetsKept, s
    <2> QED BY <1>3, <2>1, <2>2
  <1>6. SetsKept(r, b)'
    <2> SUFFICES ASSUME NEW n \in Later(b)'
                 PROVE  n <= Len(z) /\ rtx[r] < z[n].endTS
      BY <1>1 DEF SetsKept, readerVars, z
    <2>1. CASE n = 1
      BY <1>3, <1>4, <2>1
    <2>2. CASE n # 1
      <3>1. n - 1 \in Later(b) /\ n \in Int /\ (n - 1) + 1 = n
        BY <1>2, <2>2 DEF Later
      <3>2. n - 1 \in 1 .. Len(s) /\ z[n] = s[n - 1]
        BY <1>5, <3>1
      <3>3. rtx[r] < s[n - 1].endTS
        BY <3>1 DEF Base, SetsKept, s
      <3> QED BY <1>3, <3>1, <3>2, <3>3
    <2> QED BY <2>1, <2>2
  <1>7. \A m \in Reads : m < rpos[r] => ReadSafe(r, b, m)'
    <2> SUFFICES ASSUME NEW m \in Reads, m < rpos[r]
                 PROVE  ReadSafe(r, b, m)'
      OBVIOUS
    <2>1. ReadSafe(r, b, m)
      BY DEF Base
    <2>2. KeyOf(r, m)' = KeyOf(r, m) /\ got' = got
      BY <1>1 DEF KeyOf, readerVars
    <2>3. CASE got[r][m] = snaps[b][KeyOf(r, m)]
      BY <1>2, <2>2, <2>3 DEF ReadSafe
    <2>4. ASSUME NEW n \in Later(b), Seen(r, n), KeyOf(r, m) \in s[n].keys
          PROVE  ReadSafe(r, b, m)'
      <3>1. n + 1 \in Later(b)' /\ z[n + 1] = s[n]
        BY <1>5
      <3>2. Seen(r, n + 1)'
        BY <1>1, <2>4, <3>1 DEF Seen, readerVars, s, z
      <3>3. KeyOf(r, m)' \in z[n + 1].keys
        BY <2>2, <2>4, <3>1
      <3> QED BY <3>1, <3>2, <3>3 DEF ReadSafe, z
    <2> QED BY <2>1, <2>3, <2>4 DEF ReadSafe, s
  <1>8. rpc[r] = "get" => TablesSafe(b)'
    <2>1. \A k : Overwritten(b, k) => Overwritten(b, k)'
      <3> SUFFICES ASSUME NEW k, NEW n \in Later(b), k \in s[n].keys
                   PROVE  Overwritten(b, k)'
        BY DEF Overwritten, s
      <3>1. n + 1 \in Later(b)' /\ k \in z[n + 1].keys
        BY <1>5
      <3> QED BY <3>1 DEF Overwritten, z
    <2> QED BY <1>1, <1>2, <2>1 DEF Base, TablesSafe
  <1>9. EndsAfter(r, b)'
    BY <1>1 DEF EndsAfter, Scanning
  <1>10. b \in began'[r] .. Finished'
    <2>1. Finished = Len(snaps) /\ Finished' = Len(snaps') - 1
      BY <1>1 DEF Finished, Committing, Scanning
    <2> QED BY <1>1, <1>2, <2>1 DEF Base
  <1>11. rpc' = rpc /\ rpos' = rpos
    BY <1>1 DEF readerVars
  <1> QED BY <1>6, <1>7, <1>8, <1>9, <1>10, <1>11 DEF Base

LEMMA WriterBase ==
    ASSUME PlaceInv, SlotInv, WriteSetInv, TableInv, BaseInv, WriterStep \/ UNCHANGED vars
    PROVE  BaseInv'
  <1> SUFFICES ASSUME NEW r \in Readers
               PROVE  QueryBase(r)'
    BY DEF BaseInv
  <1>1. QueryBase(r) /\ UNCHANGED <<readerVars, began>>
    BY WriterFrame DEF BaseInv
  <1>2. /\ Len(snaps) \in Nat /\ Len(snaps') \in Nat /\ Len(snaps) <= Len(snaps')
        /\ \A i \in 1 .. Len(snaps) : snaps'[i] = snaps[i]
        /\ began[r] \in Nat /\ began[r] >= 1
    BY SnapsGrow, BaseTypes
  <1>3. /\ Based(r)' <=> Based(r)
        /\ Passed(r)' <=> Passed(r)
        /\ failed'[r] = failed[r] /\ began'[r] = began[r]
    BY <1>1 DEF Based, Passed, readerVars
  <1>4. ASSUME Based(r)
        PROVE  \E b \in 1 .. Len(snaps') : Base(r, b)'
    <2>1. PICK b \in 1 .. Len(snaps) : Base(r, b)
      BY <1>1, <1>4 DEF QueryBase
    <2> SUFFICES Base(r, b)'
      BY <1>2
    <2>2. at = 0 \/ at = 1
      BY DEF PlaceInv, TypeOK, Tables
    <2>3. CASE \/ TransactionBegin \/ TransactionAbort \/ TransactionPreCommit \/ RemoveTx
               \/ EndWrite \/ LockExclusive
               \/ \E k \in Keys, v \in Values : Insert(k, v)
      BY <2>1, <2>3, BeginsBase
    <2>4. CASE DrawTS \/ StampEnd \/ ScanSlot \/ EndScan
      BY <1>4, <2>1, <2>4, DrawTSBase, StampBase, ScanBase, EndScanBase
    <2>5. CASE SaveWriteSet \/ Write \/ EraseWriteSets
      BY <2>1, <2>2, <2>5, BeginsBase, SaveBase, WriteBase, EndScanBase, EraseBase
    <2>6. CASE UNCHANGED vars
      <3>1. /\ UNCHANGED <<readerVars, began, snaps, tbl, committedWSs, wpc, at, wts, scan, oldest>>
        BY <2>6 DEF vars, writerVars, histVars
      <3>2. EndsAfter(r, b)' /\ Finished' = Finished /\ Finished \in Nat
        BY <2>1, <3>1, BaseTypes DEF Base, EndsAfter, Finished, readerVars
      <3> QED BY <2>1, <3>1, <3>2, QuietBase
    <2> QED BY <2>3, <2>4, <2>5, <2>6 DEF WriterStep
  <1>5. ASSUME NEW i \in began[r] .. Len(snaps), ReadsFrom(r, i)
        PROVE  i \in began'[r] .. Len(snaps') /\ ReadsFrom(r, i)'
    <2>1. i \in began'[r] .. Len(snaps') /\ snaps'[i] = snaps[i]
      BY <1>2, <1>3
    <2>2. \A m : KeyOf(r, m)' = KeyOf(r, m) /\ got' = got
      BY <1>1 DEF KeyOf, readerVars
    <2>3. ReadsFrom(r, i)'
      BY <1>5, <2>1, <2>2 DEF ReadsFrom
    <2> QED BY <2>1, <2>3
  <1> QED BY <1>1, <1>3, <1>4, <1>5 DEF QueryBase

LEMMA BaseNext ==
    ASSUME PlaceInv, SlotInv, WriteSetInv, TableInv, BaseInv, [Next]_vars
    PROVE  BaseInv'
  BY WriterBase, ReaderBase DEF Next

-----------------------------------------------------------------------------
(***************************************************************************)
(* The theorems.                                                           *)
(***************************************************************************)

LEMMA InitInv == Init => IInv
  <1> SUFFICES ASSUME Init
               PROVE  IInv
    OBVIOUS
  <1> USE DEF Init
  <1> DEFINE first == [k \in Keys |-> IF k \in Loaded THEN InitValue ELSE NoValue]
  <1>1. first \in [Keys -> Records] /\ tbl = [t \in Tables |-> first] /\ snaps = <<first>>
    BY DEF Records, Tables
  <1>2. TypeOK
    <2>1. nextTxID \in 1 .. MaxTS + 1 /\ 0 \in TS /\ DTS_INF \in TS /\ aborted \in 0 .. MaxAborts
      BY BoundAssumption DEF TS, DTS_INF
    <2>2. rpos \in [Readers -> 0 .. 2 * TxSize]
      BY SizeAssumption
    <2>3. NoReads \in [Reads -> Records]
      BY DEF NoReads, Records
    <2>4. snaps \in Seq([Keys -> Records]) /\ tbl \in [Tables -> [Keys -> Records]]
      <3> HIDE DEF Init, first
      <3> QED BY <1>1
    <2>5. committedWSs \in [Tables -> Seq(WriteSets)]
      OBVIOUS
    <2>6. usedSlots \subseteq Slots /\ wslot \in Slots /\ rslot \in [Readers -> Slots] /\ scan \subseteq Slots
      BY SlotZero
    <2>7. at \in Tables /\ rat \in [Readers -> Tables]
      BY DEF Tables
    <2> QED BY <2>1, <2>2, <2>3, <2>4, <2>5, <2>6, <2>7 DEF TypeOK
  <1>3. Len(snaps) = 1 /\ snaps[1] = first
    BY <1>1
  <1>4. PlaceInv
    <2>1. LocksCounted
      <3>1. \A t \in Tables : Validating(t) = {}
        BY DEF Validating
      <3>2. \A t \in Tables : active_readers[t] = 0
        OBVIOUS
      <3> QED BY <3>1, <3>2, FS_EmptySet DEF LocksCounted
    <2>2. \A r \in Readers : QueryPlace(r)
      BY <1>3 DEF QueryPlace, Committed
    <2> QED BY <1>2, <1>3, <2>1, <2>2 DEF PlaceInv, Committing, Scanning
  <1>5. SlotInv
    <2>1. Taken = {} /\ Writers = {}
      BY DEF Taken, Writers
    <2>2. Owned = {} /\ Registered = {} /\ usedSlots \ Owned = {}
      BY <2>1 DEF Owned, Registered
    <2> QED BY <2>1, <2>2, FS_EmptySet DEF SlotInv, SlotsOwned, SlotsShow
  <1>6. WriteSetInv
    <2>1. \A t \in Tables : Len(committedWSs[t]) = 0
      OBVIOUS
    <2>2. WriteSetsOrdered
      BY <2>1 DEF WriteSetsOrdered
    <2>3. \A t \in Tables : TableSets(t)
      BY <2>1 DEF TableSets, Saved, Open, Committing, Scanning, Saving
    <2>4. WriterClock
      BY DEF WriterClock, Scanning
    <2> QED BY <2>2, <2>3, <2>4 DEF WriteSetInv
  <1>7. CollectInv
    BY DEF CollectInv, Committing, Scanning
  <1>8. TableInv
    BY <1>1, <1>3 DEF TableInv, LastState, Committing, Scanning
  <1>9. BaseInv
    BY DEF BaseInv, QueryBase, Based, Passed
  <1> QED BY <1>4, <1>5, <1>6, <1>7, <1>8, <1>9 DEF IInv

LEMMA NextInv == IInv /\ [Next]_vars => IInv'
  <1> SUFFICES ASSUME IInv, [Next]_vars
               PROVE  IInv'
    OBVIOUS
  <1> USE DEF IInv
  <1>1. PlaceInv'
    BY PlaceNext
  <1>2. SlotInv'
    BY SlotNext
  <1>3. WriteSetInv'
    BY <1>1, WriteSetNext
  <1>4. CollectInv'
    BY CollectNext
  <1>5. TableInv'
    BY TableNext
  <1>6. BaseInv'
    BY BaseNext
  <1> QED BY <1>1, <1>2, <1>3, <1>4, <1>5, <1>6

LEMMA Inductive == Spec => []IInv
  BY InitInv, NextInv, PTL DEF Spec

\* Nobody shares a slot, so that the slots count the transactions.
LEMMA SlotsCount ==
    ASSUME PlaceInv, SlotInv
    PROVE  SlotsAccounted
  <1> DEFINE S == {rslot[r] : r \in Taken}
             f == [r \in Taken |-> rslot[r]]
  <1>1. IsFiniteSet(Taken) /\ Cardinality(Taken) \in Nat
    <2>1. IsFiniteSet(Taken)
      BY ReadersAssumption, FS_Subset DEF Taken
    <2> QED BY <2>1, FS_CardinalityType
  <1>2. ExistsBijection(Taken, S)
    <2>1. f \in [Taken -> S]
      OBVIOUS
    <2>2. \A r, z \in Taken : f[r] = f[z] => r = z
      BY DEF SlotInv, SlotsOwned
    <2>3. \A s \in S : \E r \in Taken : f[r] = s
      OBVIOUS
    <2>4. f \in Bijection(Taken, S)
      BY <2>1, <2>2, <2>3 DEF Bijection, Injection, Surjection, IsInjective
    <2> QED BY <2>4 DEF ExistsBijection
  <1>3. IsFiniteSet(S) /\ Cardinality(S) = Cardinality(Taken)
    <2> HIDE DEF S
    <2> QED BY <1>1, <1>2, FS_Bijection
  <1>4. IsFiniteSet(Writers) /\ Cardinality(Writers) \in Nat
    <2>1. IsFiniteSet(Writers)
      BY FS_EmptySet, FS_Singleton DEF Writers
    <2> QED BY <2>1, FS_CardinalityType
  <1>5. Writers \cap S = {}
    BY DEF SlotInv, SlotsOwned
  <1>6. Owned = Writers \cup S
    BY DEF Owned
  <1> HIDE DEF S
  <1>7. Cardinality(Owned) = Cardinality(Writers) + Cardinality(S) - Cardinality(Writers \cap S)
    BY <1>3, <1>4, <1>6, FS_Union
  <1>8. Cardinality(Writers \cap S) = 0
    BY <1>5, FS_EmptySet
  <1>9. Cardinality(Owned) = Cardinality(Writers) + Cardinality(Taken)
    BY <1>1, <1>3, <1>4, <1>7, <1>8
  <1>10. Owned \subseteq usedSlots /\ Cardinality(usedSlots \ Owned) = aborted
    BY DEF SlotInv, SlotsOwned
  <1> QED BY <1>9, <1>10 DEF SlotsAccounted, Owned, Writers, Taken

\* What the validation and the cleanup rely on holds for any number of queries,
\* keys and transactions: the saved write sets of both tables are ordered and
\* their write phases apart, a commit that ran alone leaves one of them, and every
\* slot in use belongs to exactly one running or aborted transaction.
THEOREM WriteSetsStayKept == Spec => []WriteSetsKept
  <1>1. IInv => WriteSetsKept
    <2> SUFFICES ASSUME IInv
                 PROVE  WriteSetsKept
      OBVIOUS
    <2>1. TypeOK /\ WriteSetsOrdered
      BY DEF IInv, PlaceInv, WriteSetInv
    <2>2. WriteSetsCollected
      BY DEF IInv, CollectInv, WriteSetsCollected
    <2>3. SlotsAccounted
      BY SlotsCount DEF IInv
    <2> QED BY <2>1, <2>2, <2>3 DEF WriteSetsKept
  <1> QED BY <1>1, Inductive, PTL

\* What a FromTxTables query publishes is the state of one committed transaction,
\* not older than the last commit before the query began: it reads without locks,
\* and readCommit compares its keys with the write sets of one table after the
\* other while the writer saves new ones and cleanUpWriteSets erases old ones.
THEOREM ReadsStaySerializable == Spec => []ReadsSerializable
  <1>1. IInv => ReadsSerializable
    <2> SUFFICES ASSUME IInv, NEW r \in Readers, rpc[r] = "done"
                 PROVE  \E i \in began[r] .. Len(snaps) :
                            \A n \in Reads : got[r][n] = snaps[i][KeyOf(r, n)]
      BY DEF ReadsSerializable
    <2>1. Passed(r) /\ ~failed[r]
      BY DEF Passed, IInv, PlaceInv, QueryPlace
    <2>2. \E i \in began[r] .. Len(snaps) : ReadsFrom(r, i)
      BY <2>1 DEF IInv, BaseInv, QueryBase
    <2> QED BY <2>2 DEF ReadsFrom
  <1> QED BY <1>1, Inductive, PTL
=============================================================================
