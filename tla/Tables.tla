-------------------------------- MODULE Tables --------------------------------
(***************************************************************************)
(* The tables behind a topology: five implementations of one interface     *)
(* (HashMapTable, CuckooTable, RDBTable on RocksDB, PBPTreeTable and       *)
(* BDCCPTable on persistent memory), the observers they notify, the        *)
(* operators ToTable, FromTable and SelectFromTable, and TxTable, which    *)
(* collects the operations of a transaction in a LogBuffer and applies     *)
(* them at commit.                                                         *)
(*                                                                         *)
(* A record is its value; an updater adds one modulo the number of values, *)
(* the predicate of the where-operations selects the value 1.  ref is the  *)
(* table that the documentation of the interface describes.                *)
(***************************************************************************)
EXTENDS Integers, Sequences, FiniteSets, Functions, SequencesExt, StateContext

CONSTANTS Backends,     \* the table implementations
          Programs,     \* "api", "stream", "tx": what is run on them; "context"
          Keys, Records, \* Records = 0 .. n - 1
          Txs,          \* transactions of the TxTable
          NoTxID,       \* no transaction
          Garbage,      \* what a dangling reference yields
          MaxOps,       \* bound: operations
          MaxReopen     \* bound: restarts of the process

ASSUME TablesAssumption ==
  /\ Backends \subseteq {"HashMapTable", "CuckooTable", "RDBTable", "PBPTreeTable", "BDCCPTable"}
  /\ IsFiniteSet(Keys)
  /\ IsFiniteSet(Records) /\ Records # {} /\ Records = 0 .. Cardinality(Records) - 1
  /\ NoTxID \notin Txs

VARIABLES backend, program,
          rows,         \* the records stored, a function on the keys present
          numRecords,   \* RDBTable::numRecords
          ref,          \* the table as documented
          faithful,     \* no operation so far deviated from the documentation
          announced,    \* every change so far was announced to the observers
          observer,     \* the notification mode an observer of the api program registered with
          notes,        \* api: what it was told, [key, rec, mode]
          pending,      \* stream: FromTable::mQueue, [key, rec, outdated]
          published,    \* what FromTable published
          interrupted,  \* FromTable::mInterrupted
          thread,       \* where FromTable's producer thread is
          destructor,   \* where ~FromTable is
          stuck,        \* an operation waits for a lock its own thread holds
          dropped,
          ops, reopens, \* operations and restarts so far
          miscounted    \* replaced, update-deleted and dropped keys since the table was opened

VARIABLES live,         \* stream: elements inserted and not yet outdated
          twice,        \* stream: keys that had two live elements at the same time
          logBuffer,    \* tx: the log of each transaction
          committing,   \* tx: the transaction that holds tblMtx and its next log entry
          committed,    \* tx: the operations committed, in order
          torn          \* tx: something came into the middle of a commit

tableVars == <<backend, program, observer, rows, numRecords, ref, faithful, announced, notes, pending,
               published, interrupted, thread, destructor, stuck, dropped, ops, reopens, miscounted>>
threadVars == <<thread, destructor>>
txVars == <<logBuffer, committing, committed, torn>>
streamVars == <<live, twice>>
vars == <<tableVars, txVars, streamVars, ctxVars>>

None == <<>>
NoTx == [tx |-> NoTxID, next |-> 0]
Persistent == {"RDBTable", "PBPTreeTable", "BDCCPTable"}

Has(t, k) == k \in DOMAIN t
Put(t, k, v) == [x \in DOMAIN t \union {k} |-> IF x = k THEN v ELSE t[x]]
Del(t, k) == Restrict(t, DOMAIN t \ {k})
Selected(v) == v = 1
Matching(t) == {k \in DOMAIN t : Selected(t[k])}
Updated(v) == (v + 1) % Cardinality(Records)
Note(k, v, mode) == [key |-> k, rec |-> v, mode |-> mode]

----------------------------------------------------------------------------
(* Observers.  Each table has a list for either notification mode; every   *)
(* operation notifies with Immediate, so that nobody ever tells those who   *)
(* registered OnCommit (a TODO of notifyObservers).                        *)

Told(out, notify) == [mode \in {"Immediate", "OnCommit"} |-> IF mode = notify THEN out ELSE <<>>]

HashMapTable_registerObserver(mode) == observer = mode
CuckooTable_registerObserver(mode) == observer = mode
RDBTable_registerObserver(mode) == observer = mode
PBPTreeTable_registerObserver(mode) == observer = mode
BDCCPTable_registerObserver(mode) == observer = mode

HashMapTable_notifyObservers(out, notify) == Told(out, notify)
CuckooTable_notifyObservers(out, notify) == Told(out, notify)
RDBTable_notifyObservers(out, notify) == Told(out, notify)
PBPTreeTable_notifyObservers(out, notify) == Told(out, notify)
BDCCPTable_notifyObservers(out, notify) == Told(out, notify)

registerObserver(mode) ==
  CASE backend = "HashMapTable" -> HashMapTable_registerObserver(mode)
    [] backend = "CuckooTable" -> CuckooTable_registerObserver(mode)
    [] backend = "RDBTable" -> RDBTable_registerObserver(mode)
    [] backend = "PBPTreeTable" -> PBPTreeTable_registerObserver(mode)
    [] backend = "BDCCPTable" -> BDCCPTable_registerObserver(mode)

notifyObservers(out, notify) ==
  CASE backend = "HashMapTable" -> HashMapTable_notifyObservers(out, notify)
    [] backend = "CuckooTable" -> CuckooTable_notifyObservers(out, notify)
    [] backend = "RDBTable" -> RDBTable_notifyObservers(out, notify)
    [] backend = "PBPTreeTable" -> PBPTreeTable_notifyObservers(out, notify)
    [] backend = "BDCCPTable" -> BDCCPTable_notifyObservers(out, notify)

Init ==
  /\ program \in Programs
  /\ backend \in Backends
  /\ program = "tx" => backend \in {"HashMapTable", "RDBTable"}
  /\ program = "context" => backend = "HashMapTable"
  /\ ContextInit /\ (program # "context" => usedSlots = {})
  /\ IF program = "api" THEN registerObserver("Immediate") \/ registerObserver("OnCommit") ELSE registerObserver("Immediate")
  /\ rows = None /\ numRecords = 0 /\ ref = None
  /\ faithful = TRUE /\ announced = TRUE
  /\ notes = <<>> /\ pending = <<>> /\ published = <<>>
  /\ interrupted = FALSE /\ thread = "test" /\ destructor = "none" /\ stuck = FALSE /\ dropped = FALSE
  /\ ops = 0 /\ reopens = 0 /\ miscounted = 0
  /\ live = {} /\ twice = {}
  /\ logBuffer = [t \in Txs |-> <<>>]
  /\ committing = NoTx /\ committed = <<>> /\ torn = FALSE

----------------------------------------------------------------------------
(* What the operations do: the new rows, the notifications, the change of  *)
(* numRecords, and whether the call returns.  Each implementation has its  *)
(* own operations where it has its own code.                               *)

Effect(new, out, delta) == [rows |-> new, notes |-> out, delta |-> delta, returns |-> TRUE]
Nothing == Effect(rows, <<>>, 0)                      \* also: not implemented (TODO)
Hangs == [Nothing EXCEPT !.returns = FALSE]
ForAll(hit, v, mode) == LET s == SetToSeq(hit) IN [i \in DOMAIN s |-> Note(s[i], v, mode)]

HashMapTable_insert(k, v) == Effect(Put(Del(rows, k), k, v), <<Note(k, v, "Insert")>>, 1)

HashMapTable_deleteByKey(k) ==
  IF Has(rows, k) THEN Effect(Del(rows, k), <<Note(k, rows[k], "Delete")>>, -1) ELSE Nothing

HashMapTable_deleteWhere ==
  LET hit == Matching(rows)
  IN Effect(Restrict(rows, DOMAIN rows \ hit), ForAll(hit, 1, "Delete"), -Cardinality(hit))

\* keep: what the updel function returns; ins: whether an insert function is
\* given.  The erased record is announced through the iterator to it.
HashMapTable_updateOrDeleteByKey(k, keep, ins, v) ==
  IF Has(rows, k)
  THEN IF keep THEN Effect(Put(rows, k, Updated(rows[k])), <<Note(k, Updated(rows[k]), "Update")>>, 0)
       ELSE Effect(Del(rows, k), <<Note(Garbage, Garbage, "Delete")>>, -1)
  ELSE IF ins THEN HashMapTable_insert(k, v) ELSE Nothing

\* Mutant of HashMapTable_updateByKey: the observers get the record before the update.
HashMapTable_updateByKeyOld(k) ==
  IF Has(rows, k) THEN Effect(Put(rows, k, Updated(rows[k])), <<Note(k, rows[k], "Update")>>, 0) ELSE Nothing

HashMapTable_updateByKey(k) ==
  IF Has(rows, k)
  THEN Effect(Put(rows, k, Updated(rows[k])), <<Note(k, Updated(rows[k]), "Update")>>, 0)
  ELSE Nothing

HashMapTable_updateWhere ==
  LET hit == Matching(rows)
  IN Effect([k \in DOMAIN rows |-> IF k \in hit THEN Updated(1) ELSE rows[k]], ForAll(hit, Updated(1), "Update"), 0)

HashMapTable_select == Effect(rows, <<>>, 0)
HashMapTable_truncate == Effect(None, <<>>, 0)

\* libcuckoo's insert leaves an existing record alone.
CuckooTable_insert(k, v) ==
  Effect(IF Has(rows, k) THEN rows ELSE Put(rows, k, v), <<Note(k, v, "Insert")>>, 1)

CuckooTable_deleteByKey(k) ==
  IF Has(rows, k) THEN Effect(Del(rows, k), <<Note(k, rows[k], "Delete")>>, -1) ELSE Nothing

\* erase_fn waits for the locks that lock_table holds.
CuckooTable_deleteWhere == IF Matching(rows) = {} THEN Nothing ELSE Hangs

\* find returns a copy, and the copy is what is updated.
CuckooTable_updateOrDeleteByKey(k, keep, ins, v) ==
  IF Has(rows, k)
  THEN Effect(IF keep THEN rows ELSE Del(rows, k),
              <<Note(k, Updated(rows[k]), IF keep THEN "Update" ELSE "Delete")>>, 0)
  ELSE IF ins THEN CuckooTable_insert(k, v) ELSE Nothing

CuckooTable_updateByKey(k) ==
  IF Has(rows, k)
  THEN Effect(Put(rows, k, Updated(rows[k])), <<Note(k, Updated(rows[k]), "Update")>>, 0)
  ELSE Nothing

CuckooTable_updateWhere ==
  LET hit == Matching(rows)
  IN Effect([k \in DOMAIN rows |-> IF k \in hit THEN Updated(1) ELSE rows[k]], ForAll(hit, Updated(1), "Update"), 0)

\* The table is locked for begin() and again for end().
CuckooTable_select == Hangs
CuckooTable_truncate == Effect(None, <<>>, 0)

\* Mutant of RDBTable_insert: the record is merged with the one that is there.
RDBTable_insertKeeps(k, v) ==
  Effect(IF Has(rows, k) THEN rows ELSE Put(rows, k, v), <<Note(k, v, "Insert")>>, 1)

\* Put replaces the record of an existing key, and is counted like a new one.
RDBTable_insert(k, v) == Effect(Put(rows, k, v), <<Note(k, v, "Insert")>>, 1)

\* Mutant of RDBTable_deleteByKey: the deletion is not counted.
RDBTable_deleteByKeyUncounted(k) ==
  IF Has(rows, k) THEN Effect(Del(rows, k), <<Note(k, rows[k], "Delete")>>, 0) ELSE Nothing

RDBTable_deleteByKey(k) ==
  IF Has(rows, k) THEN Effect(Del(rows, k), <<Note(k, rows[k], "Delete")>>, -1) ELSE Nothing

RDBTable_deleteWhere ==
  LET hit == Matching(rows)
  IN Effect(Restrict(rows, DOMAIN rows \ hit), ForAll(hit, 1, "Delete"), -Cardinality(hit))

\* The deletion is not counted.
RDBTable_updateOrDeleteByKey(k, keep, ins, v) ==
  IF Has(rows, k)
  THEN Effect(IF keep THEN Put(rows, k, Updated(rows[k])) ELSE Del(rows, k),
              <<Note(k, Updated(rows[k]), IF keep THEN "Update" ELSE "Delete")>>, 0)
  ELSE IF ins THEN RDBTable_insert(k, v) ELSE Nothing

RDBTable_updateByKey(k) ==
  IF Has(rows, k)
  THEN Effect(Put(rows, k, Updated(rows[k])), <<Note(k, Updated(rows[k]), "Update")>>, 0)
  ELSE Nothing

RDBTable_updateWhere ==
  LET hit == Matching(rows)
  IN Effect([k \in DOMAIN rows |-> IF k \in hit THEN Updated(1) ELSE rows[k]], ForAll(hit, Updated(1), "Update"), 0)

RDBTable_select == Effect(rows, <<>>, 0)
RDBTable_truncate == Effect(None, <<>>, -numRecords)  \* openOrCreateTable recounts

\* An existing record is overwritten in place and announced as an update.
PBPTreeTable_insert(k, v) == Effect(Put(rows, k, v), <<Note(k, v, IF Has(rows, k) THEN "Update" ELSE "Insert")>>, 1)
PBPTreeTable_deleteByKey(k) == Effect(Del(rows, k), <<>>, 0)
PBPTreeTable_updateByKey(k) ==
  IF Has(rows, k) THEN Effect(Put(rows, k, Updated(rows[k])), <<>>, 0) ELSE Nothing
PBPTreeTable_deleteWhere == Nothing
PBPTreeTable_updateOrDeleteByKey == Nothing
PBPTreeTable_updateWhere == Nothing
PBPTreeTable_select == Effect(rows, <<>>, 0)
PBPTreeTable_truncate == Effect(None, <<>>, 0)

BDCCPTable_insert(k, v) == Effect(Put(rows, k, v), <<Note(k, v, "Insert")>>, 1)
BDCCPTable_deleteByKey(k) == Effect(Del(rows, k), <<>>, 0)
BDCCPTable_deleteWhere == Nothing
BDCCPTable_updateOrDeleteByKey == Nothing
BDCCPTable_updateByKey == Nothing
BDCCPTable_updateWhere == Nothing
BDCCPTable_select == Effect(rows, <<>>, 0)
BDCCPTable_truncate == Effect(None, <<>>, 0)

insert(k, v) ==
  CASE backend = "HashMapTable" -> HashMapTable_insert(k, v)
    [] backend = "CuckooTable" -> CuckooTable_insert(k, v)
    [] backend = "RDBTable" -> RDBTable_insert(k, v)
    [] backend = "PBPTreeTable" -> PBPTreeTable_insert(k, v)
    [] backend = "BDCCPTable" -> BDCCPTable_insert(k, v)

deleteByKey(k) ==
  CASE backend = "HashMapTable" -> HashMapTable_deleteByKey(k)
    [] backend = "CuckooTable" -> CuckooTable_deleteByKey(k)
    [] backend = "RDBTable" -> RDBTable_deleteByKey(k)
    [] backend = "PBPTreeTable" -> PBPTreeTable_deleteByKey(k)
    [] backend = "BDCCPTable" -> BDCCPTable_deleteByKey(k)

deleteWhere ==
  CASE backend = "HashMapTable" -> HashMapTable_deleteWhere
    [] backend = "CuckooTable" -> CuckooTable_deleteWhere
    [] backend = "RDBTable" -> RDBTable_deleteWhere
    [] backend = "PBPTreeTable" -> PBPTreeTable_deleteWhere
    [] backend = "BDCCPTable" -> BDCCPTable_deleteWhere

updateOrDeleteByKey(k, keep, ins, v) ==
  CASE backend = "HashMapTable" -> HashMapTable_updateOrDeleteByKey(k, keep, ins, v)
    [] backend = "CuckooTable" -> CuckooTable_updateOrDeleteByKey(k, keep, ins, v)
    [] backend = "RDBTable" -> RDBTable_updateOrDeleteByKey(k, keep, ins, v)
    [] backend = "PBPTreeTable" -> PBPTreeTable_updateOrDeleteByKey
    [] backend = "BDCCPTable" -> BDCCPTable_updateOrDeleteByKey

updateByKey(k) ==
  CASE backend = "HashMapTable" -> HashMapTable_updateByKey(k)
    [] backend = "CuckooTable" -> CuckooTable_updateByKey(k)
    [] backend = "RDBTable" -> RDBTable_updateByKey(k)
    [] backend = "PBPTreeTable" -> PBPTreeTable_updateByKey(k)
    [] backend = "BDCCPTable" -> BDCCPTable_updateByKey

updateWhere ==
  CASE backend = "HashMapTable" -> HashMapTable_updateWhere
    [] backend = "CuckooTable" -> CuckooTable_updateWhere
    [] backend = "RDBTable" -> RDBTable_updateWhere
    [] backend = "PBPTreeTable" -> PBPTreeTable_updateWhere
    [] backend = "BDCCPTable" -> BDCCPTable_updateWhere

select ==
  CASE backend = "HashMapTable" -> HashMapTable_select
    [] backend = "CuckooTable" -> CuckooTable_select
    [] backend = "RDBTable" -> RDBTable_select
    [] backend = "PBPTreeTable" -> PBPTreeTable_select
    [] backend = "BDCCPTable" -> BDCCPTable_select

truncate ==
  CASE backend = "HashMapTable" -> HashMapTable_truncate
    [] backend = "CuckooTable" -> CuckooTable_truncate
    [] backend = "RDBTable" -> RDBTable_truncate
    [] backend = "PBPTreeTable" -> PBPTreeTable_truncate
    [] backend = "BDCCPTable" -> BDCCPTable_truncate

----------------------------------------------------------------------------
(* Reading.  An iterator starts at the first record that satisfies its     *)
(* predicate and ++ goes on to the next one, so a scan visits the records  *)
(* that satisfy it, each once; a predicate is the set of these records.    *)
(* getByKey yields the record of the key or no record (a TableException).  *)
(* A scan of CuckooTable hangs in select.                                  *)

HashMapIterator(func) == {k \in DOMAIN rows : rows[k] \in func}
CuckooIterator(func) == {k \in DOMAIN rows : rows[k] \in func}
RDBTableIterator(func) == {k \in DOMAIN rows : rows[k] \in func}
PBPTreeIterator(func) == {k \in DOMAIN rows : rows[k] \in func}
BDCCPIterator(func) == {k \in DOMAIN rows : rows[k] \in func}

HashMapTable_getByKey(k) == {rows[x] : x \in DOMAIN rows \intersect {k}}
CuckooTable_getByKey(k) == {rows[x] : x \in DOMAIN rows \intersect {k}}
RDBTable_getByKey(k) == {rows[x] : x \in DOMAIN rows \intersect {k}}
PBPTreeTable_getByKey(k) == {rows[x] : x \in DOMAIN rows \intersect {k}}
BDCCPTable_getByKey(k) == {rows[x] : x \in DOMAIN rows \intersect {k}}

HashMapTable_size == Cardinality(DOMAIN rows)
CuckooTable_size == Cardinality(DOMAIN rows)
RDBTable_size == numRecords
PBPTreeTable_size == Cardinality(DOMAIN rows)
BDCCPTable_size == Cardinality(DOMAIN rows)

scan(func) ==
  CASE backend = "HashMapTable" -> HashMapIterator(func)
    [] backend = "CuckooTable" -> CuckooIterator(func)
    [] backend = "RDBTable" -> RDBTableIterator(func)
    [] backend = "PBPTreeTable" -> PBPTreeIterator(func)
    [] backend = "BDCCPTable" -> BDCCPIterator(func)

getByKey(k) ==
  CASE backend = "HashMapTable" -> HashMapTable_getByKey(k)
    [] backend = "CuckooTable" -> CuckooTable_getByKey(k)
    [] backend = "RDBTable" -> RDBTable_getByKey(k)
    [] backend = "PBPTreeTable" -> PBPTreeTable_getByKey(k)
    [] backend = "BDCCPTable" -> BDCCPTable_getByKey(k)

size ==
  CASE backend = "HashMapTable" -> HashMapTable_size
    [] backend = "CuckooTable" -> CuckooTable_size
    [] backend = "RDBTable" -> RDBTable_size
    [] backend = "PBPTreeTable" -> PBPTreeTable_size
    [] backend = "BDCCPTable" -> BDCCPTable_size

----------------------------------------------------------------------------
\* The table that the documentation of the operations describes.
DocUpdel(k, keep, ins, v) ==
  IF Has(ref, k) THEN (IF keep THEN Put(ref, k, Updated(ref[k])) ELSE Del(ref, k))
  ELSE IF ins THEN Put(ref, k, v) ELSE ref
DocUpdate(hit) == [k \in DOMAIN ref |-> IF k \in hit THEN Updated(ref[k]) ELSE ref[k]]

\* notifyObservers and FromTable::tableCallback: the flag that publish takes as
\* "outdated" is set for inserts, the opposite of what it says to the operators
\* behind it.
tableCallback(out) ==
  [i \in DOMAIN out |-> [key |-> out[i].key, rec |-> out[i].rec, outdated |-> out[i].mode = "Insert"]]

\* notify_one, of tableCallback and of ~FromTable, wakes the thread if it sleeps.
notify_one == IF thread = "asleep" THEN "woken" ELSE thread

Size(e) == IF backend = "RDBTable" THEN numRecords + e.delta ELSE Cardinality(DOMAIN e.rows)

\* A call of the interface: its effect e, the documented table, whether the
\* observers are not told (or are told of a destroyed record), and by how much
\* RDBTable's counter goes wrong.  After ~FromTable the observer it registered
\* is gone but still called: the programs stop using the table then.
Call(e, doc, silent, miscount) ==
  /\ ~stuck /\ ~dropped /\ ~interrupted /\ ops < MaxOps
  /\ rows' = e.rows
  /\ numRecords' = Size(e)
  /\ miscounted' = miscounted + miscount
  /\ ref' = doc
  /\ faithful' = (faithful /\ e.rows = doc)
  /\ announced' = (announced /\ ~silent)
  /\ IF program = "stream"
     THEN /\ pending' = pending \o tableCallback(e.notes)
          /\ thread' = IF e.notes = <<>> THEN thread ELSE notify_one
          /\ UNCHANGED notes
     ELSE /\ notes' = notes \o notifyObservers(e.notes, "Immediate")[observer]
          /\ UNCHANGED <<pending, thread>>
  /\ stuck' = ~e.returns
  /\ ops' = ops + 1
  /\ UNCHANGED <<backend, program, observer, published, interrupted, destructor, dropped, reopens>>

\* The persistent-memory tables tell no one of these.
NotTold == backend \in {"PBPTreeTable", "BDCCPTable"}
Replacing(k) == IF Has(ref, k) THEN 1 ELSE 0

\* BDCCPTable hands inserts to PTable, whose answer to an existing key is not known.
Insertable(k) == backend = "BDCCPTable" => ~Has(rows, k)

Insert(k, v) == Insertable(k) /\ Call(insert(k, v), Put(ref, k, v), FALSE, Replacing(k))
DeleteByKey(k) == Call(deleteByKey(k), Del(ref, k), NotTold, 0)
UpdateOrDeleteByKey(k, keep, ins, v) ==
  Call(updateOrDeleteByKey(k, keep, ins, v), DocUpdel(k, keep, ins, v),
       backend = "HashMapTable" /\ Has(rows, k) /\ ~keep, IF keep THEN 0 ELSE Replacing(k))

\* SelectFromTable::start scans the table, without the predicate it is given.
SelectFromTable == Call(select, ref, FALSE, 0)

Api ==
  /\ program = "api"
  /\ \/ \E k \in Keys, v \in Records : Insert(k, v)
     \/ \E k \in Keys : DeleteByKey(k)
     \/ Call(deleteWhere, Restrict(ref, DOMAIN ref \ Matching(ref)), FALSE, 0)
     \/ \E k \in Keys, keep, ins \in BOOLEAN : UpdateOrDeleteByKey(k, keep, ins, 0)
     \/ \E k \in Keys : Call(updateByKey(k), DocUpdate({k}), NotTold, 0)
     \/ Call(updateWhere, DocUpdate(Matching(ref)), FALSE, 0)
     \/ SelectFromTable
     \/ Call(truncate, None, TRUE, -miscounted)
  /\ UNCHANGED <<txVars, streamVars>>

----------------------------------------------------------------------------
(* Opening a table in a new process, and dropping it: the records that are  *)
(* there afterwards.  The tables in memory start empty; the others find     *)
(* what is in their file.                                                   *)

HashMapTable_openOrCreateTable == None
CuckooTable_openOrCreateTable == None
RDBTable_openOrCreateTable == rows
PBPTreeTable_openOrCreateTable == rows
BDCCPTable_openOrCreateTable == rows

HashMapTable_drop == None
CuckooTable_drop == None
RDBTable_drop == None
PBPTreeTable_drop == None
BDCCPTable_drop == None

openOrCreateTable ==
  CASE backend = "HashMapTable" -> HashMapTable_openOrCreateTable
    [] backend = "CuckooTable" -> CuckooTable_openOrCreateTable
    [] backend = "RDBTable" -> RDBTable_openOrCreateTable
    [] backend = "PBPTreeTable" -> PBPTreeTable_openOrCreateTable
    [] backend = "BDCCPTable" -> BDCCPTable_openOrCreateTable

afterDrop ==
  CASE backend = "HashMapTable" -> HashMapTable_drop
    [] backend = "CuckooTable" -> CuckooTable_drop
    [] backend = "RDBTable" -> RDBTable_drop
    [] backend = "PBPTreeTable" -> PBPTreeTable_drop
    [] backend = "BDCCPTable" -> BDCCPTable_drop

\* RDBTable goes on counting the records that it dropped.
Drop ==
  /\ program = "api" /\ ~stuck /\ ~dropped
  /\ dropped' = TRUE
  /\ rows' = afterDrop /\ ref' = None /\ announced' = FALSE
  /\ numRecords' = IF backend = "RDBTable" THEN numRecords ELSE 0
  /\ miscounted' = miscounted + Cardinality(DOMAIN rows)
  /\ UNCHANGED <<backend, program, observer, faithful, notes, pending, published, interrupted, threadVars,
                 stuck, ops, reopens, txVars, streamVars>>

\* The process ends (a commit without operations ends it too, by an assertion
\* of LogBuffer) and a new one opens the table: openOrCreateTable.
Reopen ==
  /\ program # "context" /\ ~stuck /\ ~dropped /\ reopens < MaxReopen
  /\ reopens' = reopens + 1
  /\ rows' = openOrCreateTable
  /\ ref' = IF backend \in Persistent THEN ref ELSE None
  /\ numRecords' = Cardinality(DOMAIN rows')
  /\ miscounted' = 0
  /\ announced' = FALSE
  /\ pending' = <<>> /\ interrupted' = FALSE /\ thread' = "test" /\ destructor' = "none"
  /\ live' = {}
  /\ twice' = twice \union {e.key : e \in live}       \* the elements that were live are not outdated any more
  /\ logBuffer' = [t \in Txs |-> <<>>]
  /\ torn' = (torn \/ committing # NoTx)
  /\ committing' = NoTx
  /\ UNCHANGED <<backend, program, observer, faithful, notes, published, stuck, dropped, ops, committed>>

----------------------------------------------------------------------------
(* FromTable's thread.  It tests mInterrupted without mMtx, takes mMtx, waits  *)
(* in mCondVar while there is nothing to do, and publishes the whole queue    *)
(* with mMtx held: tableCallback comes before or after that.                  *)

producerTests ==
  /\ program = "stream" /\ thread = "test"
  /\ thread' = IF interrupted THEN "ended" ELSE "locking"
  /\ UNCHANGED <<backend, program, observer, rows, numRecords, ref, faithful, announced, notes, pending, published,
                 interrupted, destructor, stuck, dropped, ops, reopens, miscounted, txVars, streamVars>>

\* Mutant of producerLocks: it takes the newest change first.
producerLast ==
  /\ thread \in {"locking", "woken"}
  /\ IF interrupted \/ pending # <<>>
     THEN published' = published \o Reverse(pending) /\ pending' = <<>> /\ thread' = "test"
     ELSE thread' = "asleep" /\ UNCHANGED <<published, pending>>
  /\ UNCHANGED <<backend, program, observer, rows, numRecords, ref, faithful, announced, notes, interrupted,
                 destructor, stuck, dropped, ops, reopens, miscounted, txVars, streamVars>>

\* Mutant of producerLocks: it waits before it looks at the queue.
producerWaits ==
  /\ thread \in {"locking", "woken"}
  /\ IF thread = "woken"
     THEN published' = published \o pending /\ pending' = <<>> /\ thread' = "test"
     ELSE thread' = "asleep" /\ UNCHANGED <<published, pending>>
  /\ UNCHANGED <<backend, program, observer, rows, numRecords, ref, faithful, announced, notes, interrupted,
                 destructor, stuck, dropped, ops, reopens, miscounted, txVars, streamVars>>

producerLocks ==
  /\ thread \in {"locking", "woken"}
  /\ IF interrupted \/ pending # <<>>
     THEN published' = published \o pending /\ pending' = <<>> /\ thread' = "test"
     ELSE thread' = "asleep" /\ UNCHANGED <<published, pending>>
  /\ UNCHANGED <<backend, program, observer, rows, numRecords, ref, faithful, announced, notes, interrupted,
                 destructor, stuck, dropped, ops, reopens, miscounted, txVars, streamVars>>

producer == producerTests \/ producerLocks

\* ~FromTable sets the flag without mMtx, notifies with mMtx held and waits for
\* the thread.  A queue that is not empty when the thread leaves its loop is lost.
destroyBegins ==
  /\ program = "stream" /\ destructor = "none" /\ ~stuck
  /\ interrupted' = TRUE /\ destructor' = "notifying"
  /\ UNCHANGED <<backend, program, observer, rows, numRecords, ref, faithful, announced, notes, pending, published,
                 thread, stuck, dropped, ops, reopens, miscounted, txVars, streamVars>>

destroyEnds ==
  /\ \/ destructor = "notifying" /\ destructor' = "joining" /\ thread' = notify_one
     \/ destructor = "joining" /\ thread = "ended" /\ destructor' = "gone" /\ UNCHANGED thread
  /\ UNCHANGED <<backend, program, observer, rows, numRecords, ref, faithful, announced, notes, pending, published,
                 interrupted, stuck, dropped, ops, reopens, miscounted, txVars, streamVars>>

----------------------------------------------------------------------------
(* ToTable behind a stream that outdates its elements. *)

Latest(k) == CHOOSE e \in live : e.key = k

\* Mutant of ToTable: an outdated element is stored like a new one.
ToTableStores(e, outdated) ==
  /\ program = "stream"
  /\ outdated <=> e \in live
  /\ Insert(e.key, e.rec)
  /\ live' = IF outdated THEN live \ {e} ELSE live \union {e}
  /\ twice' = IF ~outdated /\ \E x \in live : x.key = e.key THEN twice \union {e.key} ELSE twice
  /\ UNCHANGED txVars

\* processDataElement of ToTable: a new element is inserted under its key, an
\* outdated one deletes the key.
ToTable(e, outdated) ==
  /\ program = "stream"
  /\ outdated <=> e \in live
  /\ IF outdated THEN DeleteByKey(e.key) ELSE Insert(e.key, e.rec)
  /\ live' = IF outdated THEN live \ {e} ELSE live \union {e}
  /\ twice' = IF ~outdated /\ \E x \in live : x.key = e.key THEN twice \union {e.key} ELSE twice
  /\ UNCHANGED txVars

----------------------------------------------------------------------------
(* TxTable. *)

Log(t, entry) ==
  /\ program = "tx"
  /\ ~stuck /\ ops < MaxOps
  /\ committing.tx # t
  /\ logBuffer' = [logBuffer EXCEPT ![t] = Append(@, entry)]
  /\ ops' = ops + 1
  /\ UNCHANGED <<backend, program, observer, rows, numRecords, ref, faithful, announced, notes, pending, published,
                 interrupted, threadVars, stuck, dropped, reopens, miscounted, committing, committed, torn, streamVars>>

insertTx(t, k, v) == Log(t, [op |-> "Insert", key |-> k, rec |-> v])
deleteByKeyTx(t, k) == Log(t, [op |-> "Delete", key |-> k, rec |-> 0])

transactionAbort(t) ==
  /\ program = "tx"
  /\ committing.tx # t /\ logBuffer[t] # <<>>
  /\ logBuffer' = [logBuffer EXCEPT ![t] = <<>>]
  /\ UNCHANGED <<tableVars, committing, committed, torn, streamVars>>

\* Mutant of transactionCommit: the lock is not taken.
transactionCommitUnlocked(t) ==
  /\ program = "tx"
  /\ logBuffer[t] # <<>>
  /\ committing' = [tx |-> t, next |-> 1]
  /\ UNCHANGED <<tableVars, logBuffer, committed, torn, streamVars>>

\* transactionCommit (transactionPreCommit is the same): takes tblMtx; the
\* log of a transaction without operations does not exist, and asking for its
\* begin fails an assertion.
transactionCommit(t) ==
  /\ program = "tx"
  /\ committing = NoTx
  /\ logBuffer[t] # <<>>
  /\ committing' = [tx |-> t, next |-> 1]
  /\ UNCHANGED <<tableVars, logBuffer, committed, torn, streamVars>>

\* One entry of the log; readers do not take tblMtx and see it at once.
commitStep ==
  /\ committing # NoTx
  /\ committing.next <= Len(logBuffer[committing.tx])
  /\ LET e == logBuffer[committing.tx][committing.next]
         f == IF e.op = "Insert" THEN insert(e.key, e.rec) ELSE deleteByKey(e.key)
     IN /\ rows' = f.rows
        /\ numRecords' = Size(f)
        /\ ref' = IF e.op = "Insert" THEN Put(ref, e.key, e.rec) ELSE Del(ref, e.key)
        /\ miscounted' = miscounted + (IF e.op = "Insert" THEN Replacing(e.key) ELSE 0)
  /\ committing' = [committing EXCEPT !.next = @ + 1]
  /\ UNCHANGED <<backend, program, observer, faithful, announced, notes, pending, published, interrupted, threadVars,
                 stuck, dropped, ops, reopens, logBuffer, committed, torn, streamVars>>

commitEnd ==
  /\ committing # NoTx
  /\ committing.next > Len(logBuffer[committing.tx])
  /\ committed' = committed \o logBuffer[committing.tx]
  /\ logBuffer' = [logBuffer EXCEPT ![committing.tx] = <<>>]
  /\ committing' = NoTx
  /\ UNCHANGED <<tableVars, torn, streamVars>>

\* The operations without a transaction ("TODO: Tx support") go to the table
\* at once and without tblMtx, one of them nowhere.
TxTable_deleteWhere == deleteWhere
TxTable_updateOrDeleteByKey(k) == Nothing
TxTable_updateByKey(k) == updateByKey(k)
TxTable_updateWhere == updateWhere
TxTable_truncate == truncate
TxTable_getByKey(k) == getByKey(k)
TxTable_select(func) == scan(func)
TxTable_size == size

WithoutTx(op, k, e) ==
  /\ program = "tx" /\ ~stuck /\ ops < MaxOps
  /\ rows' = e.rows /\ ref' = e.rows
  /\ numRecords' = Size(e)
  /\ miscounted' = IF op = "Truncate" THEN 0 ELSE miscounted
  /\ ops' = ops + 1
  /\ torn' = (torn \/ committing # NoTx)
  /\ committed' = Append(committed, [op |-> op, key |-> k, rec |-> 0])
  /\ UNCHANGED <<backend, program, observer, faithful, announced, notes, pending, published, interrupted, threadVars,
                 stuck, dropped, reopens, logBuffer, committing, streamVars>>

Untransacted ==
  \/ \E k \in Keys : \/ WithoutTx("Keep", k, TxTable_updateOrDeleteByKey(k))
                     \/ WithoutTx("Update", k, TxTable_updateByKey(k))
  \/ \E k \in {CHOOSE k \in Keys : TRUE} : \/ WithoutTx("DeleteWhere", k, TxTable_deleteWhere)
                                        \/ WithoutTx("UpdateWhere", k, TxTable_updateWhere)
                                        \/ WithoutTx("Truncate", k, TxTable_truncate)

----------------------------------------------------------------------------
TableStep ==
  \/ Api
  \/ Drop
  \/ Reopen
  \/ producer
  \/ destroyBegins
  \/ destroyEnds
  \/ \E e \in [key : Keys, rec : Records], outdated \in BOOLEAN : ToTable(e, outdated)
  \/ \E t \in Txs : \/ \E k \in Keys, v \in Records : insertTx(t, k, v)
                    \/ \E k \in Keys : deleteByKeyTx(t, k)
                    \/ transactionAbort(t)
                    \/ transactionCommit(t)
  \/ commitStep
  \/ commitEnd
  \/ Untransacted

Next ==
  \/ TableStep /\ UNCHANGED ctxVars
  \/ program = "context" /\ ContextNext /\ UNCHANGED <<tableVars, txVars, streamVars>>

Spec == Init /\ [][Next]_vars

\* The thread of FromTable goes on running, and so does its destructor once it
\* is called.
FairSpec ==
  /\ Spec
  /\ WF_vars(producer /\ UNCHANGED ctxVars)
  /\ WF_vars(destroyEnds /\ UNCHANGED ctxVars)

----------------------------------------------------------------------------
(* What a sequence of operations makes of a table. *)

Applied(t, e) ==
  CASE e.op = "Insert" -> Put(t, e.key, e.rec)
    [] e.op = "Delete" -> Del(t, e.key)
    [] e.op = "Keep" -> t
    [] e.op \in {"Update", "UpdateWhere"} ->
         [k \in DOMAIN t |-> IF (e.op = "Update" /\ k = e.key) \/ (e.op = "UpdateWhere" /\ Selected(t[k]))
                             THEN Updated(t[k]) ELSE t[k]]
    [] e.op = "DeleteWhere" -> Restrict(t, DOMAIN t \ Matching(t))
    [] e.op = "Truncate" -> None

After(t, log) ==
  LET f[i \in 0 .. Len(log)] == IF i = 0 THEN t ELSE Applied(f[i - 1], log[i])
  IN f[Len(log)]

\* The operations that the notifications of an observer stand for, and the
\* elements of FromTable's stream to a reader that takes the flag's value ins
\* for an insert: FALSE as ToTable and every other operator does, TRUE for one
\* that knows that FromTable has it the other way round.
NoteLog(s) == [i \in DOMAIN s |-> [op |-> IF s[i].mode = "Delete" THEN "Delete" ELSE "Insert",
                                   key |-> s[i].key, rec |-> s[i].rec]]
StreamLog(s, ins) == [i \in DOMAIN s |-> [op |-> IF s[i].outdated = ins THEN "Insert" ELSE "Delete",
                                          key |-> s[i].key, rec |-> s[i].rec]]

\* HashMapTable and RDBTable do what the interface documents: whatever is
\* called, in whatever order and across restarts, every key reads as
\* documented, and so do a scan of the table and one with a predicate.
TableAsDocumented ==
  backend \in {"HashMapTable", "RDBTable"} /\ program # "tx" =>
    /\ \A k \in Keys : getByKey(k) = {ref[x] : x \in DOMAIN ref \intersect {k}}
    /\ scan(Records) = DOMAIN ref
    /\ scan({v \in Records : Selected(v)}) = Matching(ref)

\* An observer that replays the notifications has the table, for every
\* implementation, if it is told immediately and until a call deviated from the documentation (then the
\* notification tells what was meant, not what was done), or changed the table
\* without a notification.
ObserversAgree == faithful /\ announced /\ program = "api" /\ observer = "Immediate" => After(None, NoteLog(notes)) = rows

\* The size that RDBTable counts exceeds the number of records by exactly one
\* for every key replaced by insert or deleted by updateOrDeleteByKey since the
\* table was opened, and every record that drop removed: no other sequence of
\* operations, and no restart, makes it wrong.  The other tables ask their data
\* structure.
SizeCounts == size = Cardinality(DOMAIN rows) + (IF backend = "RDBTable" THEN miscounted ELSE 0)

\* The stream of FromTable is the sequence of changes of a program that only
\* inserts and deletes, in order and complete as soon as the queue is empty, also
\* while FromTable is destroyed, but with the flag inverted: a reader that takes
\* it the wrong way round has the table, and one that takes it as it is meant ("If
\* the tuple is outdated it will be removed", ToTable.hpp:100-101) has no key of
\* the table at all.
StreamReplaysTable ==
  program = "stream" /\ backend \in {"HashMapTable", "RDBTable"} /\ announced /\ pending = <<>> =>
    /\ After(None, StreamLog(published, TRUE)) = rows
    /\ DOMAIN After(None, StreamLog(published, FALSE)) \intersect DOMAIN rows = {}

\* ToTable holds the live elements of its stream: each key that never had two
\* live elements has exactly its live element in the table (with two, the
\* older one deletes the newer when it is outdated).
ToTableTracks ==
  program = "stream" /\ backend \in {"HashMapTable", "RDBTable", "CuckooTable", "PBPTreeTable"} =>
    \A k \in Keys \ twice :
      IF \E e \in live : e.key = k THEN Has(rows, k) /\ rows[k] = Latest(k).rec ELSE ~Has(rows, k)

\* Transactions of a TxTable are serial: between commits the table reads as the
\* committed logs give, applied one whole transaction after the other, and an
\* operation without a transaction is one of its own.  Unless the process ended
\* inside a commit (its first operations stay in RocksDB) or an operation
\* without a transaction came into it (it does not take tblMtx), or the table
\* is in memory and the process ended at all.
TxSerial ==
  program = "tx" /\ committing = NoTx /\ ~torn /\ (backend = "RDBTable" \/ reopens = 0) =>
    LET t == After(None, committed)
    IN /\ \A k \in Keys : TxTable_getByKey(k) = {t[x] : x \in DOMAIN t \intersect {k}}
       /\ TxTable_select({v \in Records : Selected(v)}) = Matching(t)
       /\ backend = "HashMapTable" => TxTable_size = Cardinality(DOMAIN t)

\* FromTable has a change to publish, or its destructor has not returned.
Busy == IF interrupted THEN destructor # "gone" ELSE pending # <<>>

\* No notification of FromTable is lost: what changed in the table is published
\* without another change, although the thread may be anywhere in its loop when
\* it is notified, unless FromTable is destroyed first; and ~FromTable returns,
\* although it sets the flag before it takes the lock.
StreamDrains == Busy ~> ~Busy

\* The backends and the operators on them: contents, observers, counters and streams
\* agree with the documented interface, except after the calls that the parts name.
BackendsExact ==
  TableAsDocumented /\ ObserversAgree /\ SizeCounts /\ StreamReplaysTable /\ ToTableTracks

\* The table of active transactions: slots have one owner, only leaks use them up, and
\* the scans over them never pass a transaction that is registered (StateContext.cpp).
ContextSound == SlotsOwned /\ OverrunOnlyByLeaks /\ ScansConservative
=============================================================================
