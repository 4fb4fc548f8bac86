# PipeFabric in TLA+

PipeFabric is a C++ library for data stream queries: a *topology* is a graph of
operators that push stream elements and punctuations to each other; transactional
*tables* let one topology write state that other queries read. This directory models
the transactional tables with the operators that use them, the queues by which a
partitioned query is spread over threads, the construction and the life of a topology,
windows and aggregations, the other operators, the table backends, complex event
processing, matrices, the core types and three use cases. Paths below are relative to
`src/src/` of the repository.

## 1. Inventory

| Component | State | Operations | What is hard | Correct when |
|---|---|---|---|---|
| `table/StateContext` | transaction counter, `lastCTS`, slots of active transactions with their read timestamps and write states, `oldestVisibleVersion` | newTx, removeTx, getNewTS, setLastCTS, recalcOldestVisible, getOldestActiveTx | lock-free counters and a slot bitmap, scanned while readers come and go; no free slot; no initial value | a slot has one owner, only aborts leak slots, a computed minimum never passes an active transaction that needs it |
| `table/MVCCTable` | per key an array of versions with [cts, dts) intervals; write set | begin, insert, deleteByKey, pre-commit, commit, abort, getByKey | commit key by key and table by table against readers without locks; a full version array | intervals of a key never overlap, snapshots are complete and right, commit is atomic |
| `table/S2PLTable` | row locks (readers, writer, condition variable), table | lockShared, lockExclusive, unlock…, insert, commit, abort, cleanUpReads | queries that fail in the middle release what they hold; a writer waits for readers | locks exclude, none leaks, a query sees no transaction in the middle |
| `table/BOCCTable` | committed write sets (deque), read-write lock, table | insert, saveWriteSet, commit, clean-up, readCommit | reads without locks, validated against write sets that are added and erased meanwhile | a validated query saw one committed state; write sets do not pile up |
| `table/TxTable`, `LogBuffer` | log per transaction | begin, insert, delete, commit, abort, and operations without a transaction | replay operation by operation, a crash inside it | commits are serial |
| `table/CuckooTable`, `HashMapTable`, `RDBTable`, `PBPTreeTable`, `BDCCPTable` | records, counter, observers | insert, update…, delete…, getByKey, select, reopening | conditional operations that become others, counters over restarts | the contents are as documented, observers can follow |
| `qop/FromTxTables`, `ToTxTable`, `SelectFrom*` | keys and tuples of a query | read loop with restart and clean-up; Tx punctuations | restart in the middle of two tables | see the tables |
| `qop/Queue`, `PartitionBy`, `Merge` | queue, mutex, condition variable, `stopped_`, `mInterrupted`, one thread per queue | push, pop, wait, notify, stop, join | lost wakeups, order across threads, shutdown | per-partition order, delivery, safe destruction |
| `qop/SlidingWindow`, `TumblingWindow`, `Window` | tuple buffer, counter, eviction thread | insert, evict by row or time, window function | eviction thread against the source's thread, order of new and outdated | subscribers know the window's tuples; outdated after new, once |
| `qop/Aggregation`, `GroupedAggregation`, `TriggerNotifier`, `aggr_functions` | aggregate state, groups, counter, notifier thread | update, trigger, produce | incremental values while tuples leave; locks released between trigger and production | the values of the definitions at any moment |
| `qop/SHJoin`, `ScaleJoin` | hash tables, counters per instance | insert, probe, remove | inputs from two threads, outdated tuples, instances that count for themselves | the relational join of what is live |
| `qop/FromTable`, `ToTable`, `SelectFromTable` | queue between callback and publishing thread | callback, produce, insert, delete | condition variable, meaning of the outdated flag | stream and table reproduce each other |
| `qop/Batcher`, `Barrier`, `Tuplifier`, `StatefulMap`, `Map`, `Where`, `Notify` | batch, barrier queue, triple buffer | per element | flush, waiting, notifier threads | nothing lost, doubled or overtaken |
| sources and sinks, `net` | file buffer, messages taken and committed, threads | start, produce, stop, write | ends of streams, restarts, messages taken and not produced | streams complete and ended; every message accounted for |
| `dsl/Pipe`, `Dataflow`, `pubsub` | publishers, partitioning state, signals, slots, subscriptions | every method that adds an operator; connect, disconnect | pipes used twice, exceptions half-way, destruction | the links are those of the program; no slot of a destroyed operator |
| `dsl/Topology`, `PFabricContext` | futures, timers, catalogues | start, startAsync, wait, runEvery, prepare, destruction | order of destruction against running threads | no publish into a destroyed operator, `wait` returns |
| `cep` | automaton, structures, pool, related values; thread pool | match, publish, collect; enqueue, dequeue, end | structures that stay after their end, negation, Kleene states | the matches of a definition without automata |
| `core` | reference counters, null bits | copy, release, serialise, print, parse | releases in two threads, truncated bytes | a tuple dies once; what is sent or printed is read |
| `matrix`, `qop/*Matrix*` | cells, observers, parts | set, remove, insert rows and columns, slice, merge, publish changes | parts out of order, observers told after the unlock | replicas converge, merging undoes slicing |
| `usecases` | Linear Road's maps, DEBS' rows and clusters, the miner's projections, graphs | per report, per observation | state that outlives its window | the functions of the paper, the definitions |
| `qcomp`, `python`, `libcpp` | – | – | – | – |

Components interact by synchronous calls within a thread (publish calls the
subscriber's callback), by the tables and the `StateContext`, which threads share, and
by the queues between threads. The list of hazards, each at its line and with the
properties that would catch it, is in `PROJECT.json`.

## 2. Modules

| Module | Models | Kind |
|---|---|---|
| `MVCCObject` | the version array of one record (`MVCCObject` in `MVCCTable.hpp`) | pure operators |
| `MVCCTable` | two MVCC tables, their context, one writer, several queries | component and composition |
| `TxStore` | what a group of tables promises: transactions take effect in one step | abstract specification |
| `MVCCTable_proofs` | theorems about `MVCCTable` | TLAPS |
| `S2PLTable` | two tables under strict two-phase locking, one writer, several queries | component and composition |
| `S2PLTable_proofs` | theorems about `S2PLTable` | TLAPS |
| `BOCCTable` | two tables under backward-oriented optimistic concurrency control | component and composition |
| `BOCCTable_proofs` | theorems about `BOCCTable` | TLAPS |
| `PartitionMerge` | PartitionBy, a queue per partition, Merge, the queue behind it, and their destruction | composition |
| `PartitionMerge_proofs` | theorems about `PartitionMerge` | TLAPS |
| `Aggregates` | the aggregate functions | pure operators |
| `WindowAggregation` | a window with its eviction thread, an aggregation and a grouped aggregation behind it, with the notifier | composition |
| `WindowAggregation_proofs` | theorems about the windows and the aggregations | TLAPS |
| `Channels` | signals, slots, channels, subscriptions | pure operators on networks |
| `Pipe` | how every method of `Pipe` connects operators | component |
| `Topology` | the life of a topology and its sources, on top of `Pipe` | composition |
| `Topology_proofs` | theorems about `Topology` | TLAPS |
| `Joins`, `Tuplifier`, `Matrices` | the operators of these names | components |
| `Operators` | chains of unary operators, writers, text files, barriers; runs one of these or of the three above | composition |
| `StateContext` | the slots of active transactions and the scans over them | component |
| `Tables` | the table backends, their observers, `FromTable`, `ToTable`, `TxTable`; also runs `StateContext` | composition |
| `Tables_proofs` | theorems about `StateContext`, the backends and `TxTable` | TLAPS |
| `CEP` | patterns, automata, both engines, the thread pool | component |
| `MatrixGraph` | sparse and dense matrices as graphs, and the graph algorithms | operators and actions |
| `TupleHeap` | tuples, counted pointers, the accessors of the traits | component |
| `TupleHeap_proofs` | theorem about the counters | TLAPS |
| `Tuples` | byte and text formats, and tuples sent in them, on top of `TupleHeap` | operators |
| `LinearRoad`, `DEBS2017` | the two use cases | components |
| `Algorithms` | median, pattern miner; runs one of these or of the four above | composition |
| `MC…` | instances for TLC | |

**The transactional topology.** All three table modules have the actors of
`usecases/TxSupport/TxExample.hpp`: one topology streams transactions
(`TxBegin`, elements, `TxCommit` or `TxAbort`) through two `ToTxTable` operators in a
chain, and thereby into two tables; each query topology runs `FromTxTables`, which
reads `TxSize` keys alternately from both tables as one read transaction and starts
again when a read or the validation fails. `prepareTables` has filled the tables before.

### MVCCObject and MVCCTable

An object is a record `[used, cts, dts, val]` over version slots; `getCurrent`,
`newEntry`, `cleanUpVersions`, `getFreePos` are operators of the same names.
`getCurrent` returns a set (empty for -1).

| Code | Model |
|---|---|
| `StateContext`: `nextTxID`, `lastCTS`, `oldestVisibleVersion`, write states, `readCTS` | `nextTxID`, `lastCTS`, `oldest`, `status`, `readCTS`, `active` |
| `tbl`, `writeSet` of both tables | `tbl[t][k]`, `writeSet[t]` |
| the writer inside `transactionPreCommit`/`transactionCommit` | `wpc`, `ctbl`, `todo`, `scan`, `newMin` |
| a query inside `FromTxTables::start`/`getByKey` | `rpc`, `rkeys`, `rpos`, `rcopy`, `rsnap`, `got` |
| – (history) | `snaps`: the state each commit should leave; `want`, `intent`: the running transaction |

The default build is modelled: `tbl` is a `CuckooTable`, whose `find` copies an object
and whose `update_fn` changes it under libcuckoo's bucket lock. Hence an update is one
step per key, except for the loop that waits for a free version slot (`spin`, `scan`):
it runs with the bucket locked (`Locked`), and a query that wants the record waits. A
step ends wherever another thread can look. Four simplifications are sound for these
properties: the slots of the context are represented by the set `active` (a slot's
position is never looked at in the MVCC code); a reader's own transaction ID is not
drawn from `nextTxID`, because only the order of writers' IDs enters any comparison; the
write set is sorted in the step that starts to apply it, being private to the
writer's thread; and the branch of `getByKey` that looks into the caller's own write
set is left out, since `FromTxTables` never has one.

### S2PLTable

`active_readers` and `active_writer` are the row locks, `wKeysLocked` the writer's
locked keys. `lockExclusive` announces the writer and then waits on a condition
variable; the model has its test and its wait (`TryExclusive`, `WakeUp`, `notified`).
`unlockShared` of the last reader notifies. A query fails at once when a writer holds
or has announced the row; `cleanUpReads` then releases, table by table and key by key,
what `(i > s)? j+1 : j` says (`Until`). All row locks exist from the start, because
`prepareTables` writes all keys. What `tbl.insert` makes of an existing record (`Stored`) depends on the
backend the build chooses, and is the constant `Replaces`: RDBTable and PBPTreeTable replace it, while CuckooTable, the default, calls
libcuckoo's `insert`, which leaves it as it is, although its documentation (`CuckooTable.hpp:138`) says that an existing tuple is
updated. The run has `Replaces` FALSE, the default build, in which records change when an outdated element deletes a key and a later one
inserts it again; the proofs hold for both. `snaps` records the states that finished transactions left, the aborted
ones included, since an abort undoes nothing.

### BOCCTable

A write transaction draws its validation timestamp, enters its write set at the front of
`committedWSs` under `dQLock`, table after table, writes the tables, stamps the front with the end
timestamp, computes the oldest active transaction by a scan of the slots and erases the
expired write sets. A query draws its ID, takes a slot, enters its ID (three steps: a
scan may come in between), reads without locks and validates both tables, each with a fresh
timestamp. What `tbl.insert` does to an existing record is `Stored` with the constant `Replaces`, as in
`S2PLTable`; here the run has it TRUE (the builds with RocksDB and with persistent trees), because nothing is deleted and with the default backend
a loaded key would never change; the proofs hold for both. The mutex and the condition variables of `dQLock` are one guard per waiting operation. The validation loop is
one step: under the shared lock only the front's `endTS` can change meanwhile. `deleteByKey` does nothing in this
table, and thus has no action. The last transaction of a stream that is chopped into
transactions is never committed by the source; the model lets a stream stop anywhere.

### PartitionMerge

| Code | Model |
|---|---|
| source's thread in `PartitionBy`, `Queue::processDataElement`, `ConcurrentQueue::push` | `spc`, `elem`, `targets`, `last`; `EmitData`, `EmitPunctuation`, `SourcePush`, `SourceNotify` |
| `queue_`, `stopped_`, `mInterrupted` of each queue | the functions of the same names |
| the thread of a `DequeueNotifier` | `cpc`, `tp`; `Check`, `Pop`, `Sleep`, `MergePush`, `MergeNotify`, `PublishMerged` |
| destruction of the dataflow, queue by queue | `dpc`, `dying`, `dead`; `Interrupt`, `Stop`, `StopNotify`, `Join` |

A push is two steps, because the notification comes after the unlock. A pop keeps the
mutex from the test of its condition until it sleeps (`block`), the only place
where a mutex is held over more than one step, so `cpc` tells whether it is free. The operators of the
subqueries run in the thread of their queue and do not appear. Merge's synchronized slots have no
mutex in the model: `OutputChannel::subscribe` binds a new slot for every
subscription and copies of a slot do not share the mutex, so no two threads ever
compete for one. A queue keeps only the type of a punctuation (`Kept`). `mInterrupted` is a
plain `bool` shared by two threads; the loop that reads it contains calls the compiler
cannot see through, so it is modelled as read anew each time.

### WindowAggregation and Aggregates

| Code | Model |
|---|---|
| `mTupleBuf`, `mCurrSize`, the window's mutex | the list and the counter of the window; an insertion or an eviction under the mutex is one step |
| the tuples a thread has evicted or received and not published yet | one publish is one step, so the threads of the source, of `EvictionNotifier` and of `TriggerNotifier` interleave between publishes |
| `Aggregation`, `GroupedAggregation` behind the window | an element is processed inside the publish, under `aggrMtx`. A trigger that fires unlocks first (`Aggregation.hpp:206`, 216): producing the aggregate, announcing the slide and resetting the counter are three further steps (`trigger`), between which the eviction thread publishes; the source's thread does not come back before the last |
| `GroupedAggregation::updateAggregationGroup`, `TriggerAll` | the group's aggregate is produced before a group without tuples is erased (`GroupedAggregation.hpp:382`): functions without a value are noted in `grpFailed`, those of `Aggregation` in `failed`. A failed assertion would end the program; the model notes it and goes on, so that later states are checked too |
| `AggregateStateBase` and the functions in `aggr_functions` | a state, `…_iterate` and `…_value` per function; `Undefined` is a failed assertion or a division by zero |

Counters wrap at `UIntRange`, and no more tuples arrive than a counter holds (`RangeAssumption`). The state of an aggregation is a tuple of `Aggregator1` to `4`. The reference of the aggregates
is their definition over the values of the valid tuples in the order they were announced: `Live` is the set of positions in `delivered` where a tuple that is not outdated was announced, `LiveOf` those of a group, and
`ValuesOf` reads the values at such positions.

### Channels, Pipe, Topology

A network of operators is a value (`Channels`): slots of each signal in order, slot numbers, both
ends of each subscription. `Pipe` has one action per method of the class `Pipe` (grouped where the
code calls the same helper) and records beside the network which links the program's text asks for
(`want`). The exception is `sendZMQ`, which no program can instantiate: it passes the socket type where `ZMQSink` takes a string
(`Pipe.hpp:626`, `ZMQSink.hpp:53`), and a default constructor that does not exist (637). `orderly` is the set of rules under which the two agree. Types stand for template
arguments. `Topology` adds the catalogue of `PFabricContext`, the sources and the main thread:
`startAsync` creates a future per start function, `wait` takes them one by one, `runEvery` is a thread, and the
destructor destroys the members in reverse order of declaration. A source is its start function, one
element per step. The tables and matrices of the catalogue have no action; streams have.

Messages of the brokers are sent by the environment at any time, before the source exists too. An MQTT client has a clean session: it
gets what is sent while it is connected (`MQTTSource.cpp:29`), it may lose the connection for good (`Disconnect`), and after the first look that finds
nothing it unsubscribes, with what arrives in between (`leaving`). A Kafka consumer begins behind the last committed offset of its
group or, as `auto.offset.reset` is not set, at the end of the topic once it has been assigned (`Subscribed`, `located`); its constructor polls and throws the
result away (`constructorPoll`); a poll may return nothing or an error, which is passed over. A crash at any moment starts the program
again, with the constructor's poll. RabbitMQ ignores the first message of a run if it is the only one. The source records the position
from which on it answers for messages (`from`), the last look at an MQTT client (`seen`) and the messages it read and ignored (`discarded`): every other
message must be published or waiting (`MessagesAccounted`).

### Operators, Joins, Tuplifier, Matrices

Each behaviour of `Operators` runs one program. `Joins` keeps the hash tables as bags and the
result as the net number of times a pair was published; the instances of `ScaleJoin` count for themselves, fed
by a queue per instance (left) and by direct calls (right). `ScaleJoin::updateHashTable` takes the key as an `int` (`key_t`,
`ScaleJoin.hpp:231`), with which the elements are stored, while the handlers look up with the key itself: the model has both widths, and a key that does not fit never matches.
An element is handled in one step per instance; the instances have no mutex, so this says nothing about two threads inside one handler. `Tuplifier` has the source's thread and the
notifier, and `raced` when both scan the buffer; `PUNCTUATED` takes the branch of `WINDOW`, as in the code. A field holds the last object of its
predicate, so a repeated predicate overwrites the earlier triple (`Tuplifier.hpp:255`), and `TriplesAccounted` says that nothing else does. `Matrices` has `MatrixSlice`, parts in any order and
`MatrixMerge`, and the chain `ToMatrix`, shared matrix, observers, `FromMatrix` with its
thread. In `Operators` a chain's stages are functions on sequences of elements with state (a batcher's
buffer, the state of a stateful map); a text file is a sequence of lines that pass through
one buffer; barriers wait on a condition variable they share with the program.

### Tables and StateContext

`Tables` runs one of four programs: calls of the interface of one of five backends, with observers and restarts (`"api"`); a
stream from and into a table (`"stream"`: `ToTable`, `FromTable` and its thread); transactions of a
`TxTable` with their `LogBuffer` (`"tx"`), where a commit is one step per operation, and the process may end
between two of them; and the `StateContext` (`"context"`). `drop` of RDBTable leaves its counter as it is (474), and `miscounted` counts
that with the other cases. FromTable's thread tests its flag, takes the mutex, looks at the list and sleeps in separate steps; the callback appends and notifies under the
mutex, and the destructor sets the flag without it, notifies and joins. The outdated flag of its elements is the inverse of what `ToTable` means by it: it is modelled as it is, and
`StreamReplaysTable` reads it so. `ref` is the table that the
interface's documentation describes; the properties name the calls that deviate from it. `StateContext` has a step per
load and per compare-and-exchange of the bitmap, a step per slot of a scan, and starts from any bitmap.

### CEP

A pattern becomes an automaton (`constructNFA`), an event extends the structures of the pool in the
order of the map, and finished structures are published and collected. The reference (`NextMatchesAll`,
`FirstMatchesApart`) is stated over positions in the input. Windows are not checked by the engines
(`checkWindowTime` is commented out) and hence not modelled. A chain of negation states is followed to its end (`checkNegation`); the branch of `runEngine` for a
partition by an attribute cannot be reached, because the only partition class is the one by sequence. The thread pool runs beside it as a program of its own: its destructor
sets the flag without the mutex, then takes the mutex and wakes the threads (`destroyPool`, `notifyPool`), and a thread holds the mutex from its test until it sleeps.

### TupleHeap, Tuples, MatrixGraph, LinearRoad, DEBS2017, Algorithms

`TupleHeap` has a heap, pointers held by threads, and a release in two steps (decrement, delete); its next-state relation has the byte format as a parameter, for which `Tuples` puts the code's. The counter is a `short` (`ShortMax`) and wraps
around; a tuple is deleted when the decrement gives 0, which is right as long as there are no more pointers than a `short` has values (`TuplesAssumption`). Byte formats
are sequences of bytes of fixed width plus lengths; text is a sequence of symbols. `MatrixGraph` stores the cells that Eigen
stores, zeros included until they are pruned; Boost's Dijkstra and Kruskal are external and written out as far as they call the
adaptor's functions. `insertRow` and `insertCol` return for an empty argument (`DenseMatrix.hpp:285`, 301). `LinearRoad` has the global maps of the program and one step per
report, evictions first; averages are fractions. `assignTimestamps` multiplies an `int` by 1000 * 1000 (`Pipe.hpp:415`), so seconds and microseconds compare alike
only up to `TimestampLimit`, 2147 s, which bounds the times of the model; the program's input goes to 12000. `DEBS2017` has the three stateful operators, the window between
them and one partition per thread; RDF is abstracted to records.

## 3. Runs

| Run | Expect | Shows |
|---|---|---|
| `mvcc_versions` | pass | two readers, a record with two version slots, three transactions: version arrays stay well formed, what is visible is right, only a query's first read may be stale, timestamps only advance |
| `mvcc_atomic` | pass | two keys, one of them inserted by a transaction: the last committed state is readable at any time; `MVCCTable` implements `TxStore`; which value of a key a commit leaves; a commit that waits for a version slot ends unless a query waits for its bucket |
| `mvcc_isolation` | violation | a query's first read may belong to an older state than the rest |
| `s2pl_locks` | pass | lock accounting, exclusion, atomic reads, and that a waiting writer gets its row |
| `bocc_validate` | pass | validated queries are serializable, write sets ordered and collected, slots accounted for |
| `pipe_order` | pass | order, delivery and safe destruction of a partitioned query; what may follow an `EndOfStream`; only a sleeping thread outlives `stop` |
| `window_aggregation` | pass | windows hold and deliver what they should; incremental aggregates are exact whenever a tuple is valid; slides and evictions happen |
| `topology` | pass | links as written, no slot of a destroyed operator; sources run, end, crash; nothing published into a destroyed operator; `wait` returns |
| `operators` | pass | joins, tuplifier, chains, extraction, barriers and matrix operators against their definitions, with the races of each named |
| `tables` | pass | five backends against the documented interface; observers, counters, streams; serial commits; slots and scans of the context |
| `cep` | pass | both engines against a definition of matching; pool, collection, related values; the thread pool runs every job and ends |
| `algorithms` | pass | counters, formats, graphs, median, miner, Linear Road and DEBS 2017 against their definitions |

The properties of a run, with their parts (each part is a definition with its own comment, and has a
mutant of the code's model in `PROJECT.json` that makes the property fail):

| Run | Property | Parts |
|---|---|---|
| `mvcc_versions` | `TypeOK`, `VersionsWellFormed`, `VisibleVersionsRight`, `OnlyFirstReadStale`, `TimestampsAdvance` | |
| `mvcc_atomic` | `LastSnapshotComplete`, `ImplementsTxStore`, `CommitsInsertedValue`, `OnlyBlockedReadersStopCommit` | |
| `s2pl_locks` | `LocksExclude` | `TypeOK`, `LocksAccounted`, `WriterExcludesReaders` |
| | `ReadsAtomic`, `WriterGetsLock` | |
| `bocc_validate` | `ReadsSerializable` | |
| | `WriteSetsKept` | `TypeOK`, `WriteSetsOrdered`, `WriteSetsCollected`, `SlotsAccounted` |
| `pipe_order` | `MergedInOrder` | `PartitionOrder`, `NothingAfterLastEnd` |
| | `TypeOK`, `NoCallIntoDestroyed`, `AllDelivered`, `OnlySleepersOutliveStop` | |
| `window_aggregation` | `WindowExact` | `TypeOK`, `WindowBounded`, `WindowDelivered`, `OutdatedFollowsNew`, `ExpiredIsEmpty` |
| | `AggregationsExact` | `AggregatesExact`, `GroupsExact`, `SlidesCounted` |
| | `EvictionHappens`, `UndefinedOnlyWhenEmpty` | |
| `topology` | `NetworkSound` | `WiredAsWritten`, `SlotsLead` |
| | `LifeInOrder` | `WaitedFinished`, `NothingIntoDestroyed` |
| | `SourcesAccounted` | `StreamsComplete`, `MessagesAccounted`, `ZmqEndsStream` |
| | `WaitReturns` | |
| `operators` | `JoinsExact` | `JoinExact`, `StoredOnce` |
| | `OperatorsExact` | `TriplesAccounted`, `CompletedTuples`, `OrderedTuples`, `ChainInOrder`, `WrittenOnce`, `LinesExtracted`, `BarrierHolds`, `MergeExact`, `ReplicaConverges` |
| | `WaitersReleased` | `BarrierReleases`, `DestructorReturns` |
| `tables` | `BackendsExact` | `TableAsDocumented`, `ObserversAgree`, `SizeCounts`, `StreamReplaysTable`, `ToTableTracks` |
| | `ContextSound` | `SlotsOwned`, `OverrunOnlyByLeaks`, `ScansConservative` |
| | `TxSerial`, `StreamDrains` | |
| `cep` | `MatchesExact` | `NextMatchesAll`, `FirstMatchesApart`, `KleeneCounted`, `NegationRespected`, `RelatedOwn`, `PoolAccounted`, `JobsRun` |
| | `PoolEnds` | |
| `algorithms` | `AlgorithmsExact` | `EdgesListed`, `EdgesAsStored`, `ShortestPathExact`, `SpanningTreeMinimal`, `DenseWalkExact`, `InsertRemoveInverse`, `IncidentsKept`, `WireExact`, `CodecsExact`, `TextsExact`, `MedianExact`, `MinedPatterns`, `MaximalPatterns` |
| | `UseCasesExact` | `AccidentsStopped`, `AlertsBacked`, `SpeedsExact`, `EntriesNoted`, `PassedWithMetadata`, `RowsAreWindow`, `ClustersNearest`, `SequenceProbable` |
| | `GraphsKept` | `EdgesKept`, `OthersKept` |
| | `HandlesCounted` | |

A property that the code keeps only with exceptions states the exceptions, so
that it fails as soon as something else goes wrong too.

**Bounds.** MVCC: two version slots are the fewest with which the array can be full while
a commit needs another version; with `MaxTxID` 4 there are three transactions over the loaded
state, enough to fill the array, reclaim and fill again; two readers overlap. Two keys and `MaxWrites` 2
make a commit of several steps per table, and one key is not `Loaded`, so that a commit inserts it.
S2PL: two queries of two keys over two tables fail at each of the four reads; one
transaction of two elements locks, waits, commits or aborts. BOCC: a committed transaction and a query
that validates once draw five timestamps each, so `MaxTS` 15 allows one query that overlaps two transactions, of which
the second erases the write set of the first, or a query that restarts once beside one transaction, or three
transactions without a query; with one abort (`MaxAborts`) the four slots never fill up. PartitionMerge: two partitions, two elements (data for either of them or for none, a window
punctuation, `EndOfStream`), one spurious wakeup.
WindowAggregation: windows and slides of two tuples and streams of four fill a window twice; two values make duplicates and two groups; every kind of
window and trigger that works occurs in `MCConfigs`. Topology: five calls build pipes that are partitioned, joined and merged again; two messages, two starts and one
crash or error of each kind of source that can have one, and two pairs of sources; a message may be sent before the constructor, before the position is known, and after it. Operators: five elements over two joins with two instances let
an element be live twice; four triples of two subjects and three predicates (one of them not asked for);
every file of three lines of five forms; two barriers with three changes of their counter; two matrices of two parts; two writers.
Tables: four operations on two keys and two values with one restart reach each conditional operation on a present, an absent and
a deleted key; two slots and two clients with four transactions use the slots up. CEP: six events over two or three
symbols give three overlapping matches of every pattern. Algorithms: graphs of three vertices have paths of two edges; trajectories up
to length four repeat items; the Linear Road window is 210 seconds, so that eight reports of a vehicle pass it and four
in a row can be equal; DEBS has five groups over a window of five values.

Deadlock checking is off: a stream may end at any time, so in every model the system
may come to rest; being stuck is checked by the liveness properties instead.

**Fairness.** `FairSpec`, where a module has one, is weak fairness of each thread's steps once an
operation has begun: threads are scheduled, and locks are released after finitely many
steps. The environment is not fair: no further element, query, abort or destruction need come. In
`MVCCTable` the weak fairness of a reader does not make it get a bucket lock that the writer never releases, which is why
`OnlyBlockedReadersStopCommit` excepts this case. In `PartitionMerge` spurious wakeups are bounded instead of
being excluded, so weak fairness suffices for a thread that wants a mutex; the same holds for the barriers. The
eviction thread is a timer that comes again and again. FromTable's thread and its destructor, once called, go on (`StreamDrains`), as do the threads of the
pool, their jobs and its destructor (`PoolEnds`); changes of the table and calls of the destructor are not fair. A wakeup that came before the sleep would be lost in these models, so
the properties depend on the mutexes and not on fairness alone. The counter of the barriers is raised to its end, as the
test program does it; without that an element may of course wait for ever.

## 4. Proofs

`MVCCTable_proofs` proves, for any set of keys and values, any number of readers,
version slots, keys per query and transactions:

| Theorem | Property |
|---|---|
| `TypeCorrect` | `TypeOK` |
| `Invariance` | the inductive invariant `IInv` |
| `VersionsStayWellFormed` | `VersionsWellFormed` |
| `VisibleStayRight` | `VisibleVersionsRight` |
| `LastSnapshotStaysComplete` | `LastSnapshotComplete` |
| `FirstReadOnlyStale` | `OnlyFirstReadStale` |
| `TimestampsOnlyAdvance` | `TimestampsAdvance` |
| `CommitsOnlyInserted` | `CommitsInsertedValue` |
| `Refinement` | `ImplementsTxStore` |

They rest on the assumptions named in `MVCCObject` and `MVCCTable` (keys and values are
natural numbers, the initial value is a value, the bounds are naturals, at least one
version slot and one key per query), nothing else.

None of the properties is inductive. `IInv` adds what they need:
`ClockInv` (the writer's ID is above every commit, all commits in `snaps` are at most `lastCTS`, the
garbage collector's bound is not above it) and `PosInv` (where a reader is) strengthen the types to
`Inv1`; `WriterInv` says what the write sets hold at each stage of the two-phase
commit and that they match the history `want`; `ObjectInv` describes each object either as *Old* (the running
transaction has not written it: all its versions are committed, the open one has the last committed value) or as *New* (the
open version is the transaction's own and the one it replaced is still there, closed
at its ID); `ReaderInv` says that what a reader copied was once in the
table and right up to the commit at which it was copied, and what its finished
reads returned. The parts are proved in this order, one step per action, each from the
ones before. The refinement maps `db` to the values visible at `lastCTS` and `running` to `wpc # "idle"`:
`SetLastCTS` and the abort are the only steps that change the abstract store's transaction, because
versions that a commit has created are not visible at `lastCTS` yet. `CommitsOnlyInserted` adds `IntentInv`, which compares what the
transaction meant to leave (`intent`) with what it will (`want`).

`S2PLTable_proofs` proves, for any finite set of readers and any keys, `LocksStayExclusive` (`LocksExclude`)
and `ReadsStayAtomic` (`ReadsAtomic`). Its `IInv` says which row locks the writer holds at each stage
(`WriterLocks`, `WriterState`), where a query is and what its reads returned (`QueryPlace`, `QueryReads`), and that
`active_readers` of a row is the *number* of queries that hold it (`LocksAccounted`): the count is what the code
compares with zero, so the proof has to go through the cardinality of the set of holders, which is why the
readers are assumed to be finite (`ReadersAssumption`). Atomicity follows because the writer changes a row
only while every row it wrote is still locked.

`BOCCTable_proofs` proves `WriteSetsStayKept` (`WriteSetsKept`) and `ReadsStaySerializable` (`ReadsSerializable`), again
for finitely many readers. The core of its `IInv` is `BaseInv`: a query that is reading has a *base*, a committed state, such that every
write set saved after it is still kept and covers each key that the query read and that was
overwritten since. A validation that finds no overlap therefore proves that the reads are those of the base. `SlotInv`, `WriteSetInv` and `CollectInv`
keep the saved sets ordered, owned and not erased too early; `TableInv` relates the tables to the commits.

`PartitionMerge_proofs` proves, for any finite number of partitions and any number of elements, `TypeCorrect`
(`TypeOK`), `DestructionIsSafe` (`NoCallIntoDestroyed`) and `MergedStaysInOrder` (`MergedInOrder`). The second needs `DtorInv`: the
threads of destroyed queues have ended, the queue behind Merge dies last, and the queue
being destroyed is one that may be. Its core is that an ended thread stays ended,
also when its queue is notified once more. The third needs `OrderInv`: what
was forwarded to a partition is what Merge has passed of it followed by what is on its way, in its thread's
hands and its queue (`FlowOrder`), all of it marked with the partition (`FlowInv`), and `EndOfStream` is the last of its partition wherever
it is (`EndsInv`). Assumed: the bounds are naturals, the partitions finite (`FiniteAssumption`; Merge waits for as many ends as there are partitions, and no data
after the last one is a pigeonhole argument).

In both modules `Stored` keeps or replaces a record, `Replaces` being any Boolean: the arguments use only that both tables get the same record from the same one.

`Tables_proofs` proves `ContextStaysSound` (`ContextSound`) for any number of slots, threads and transactions, whatever program the tables run. `CtxInv` says that transaction
IDs are unique and below `nextTxID`, that a used slot belongs to one thread between the claim and the release or has leaked (`OwnInv`), that slots in
use are as many as their owners and leaks (`CountInv`), and what a scan that is under way has seen (`ScanInv`).
`ContextAssumption`: the numbers of slots and transactions are naturals, the threads finite.

It also proves `BackendsStayExact` (`BackendsExact`) and `TransactionsStaySerial` (`TxSerial`) for any finite sets of keys and records and any number of calls, transactions and
restarts. `TablesInv` adds to the properties the types of the table, its watchers and the logs (`TableType`, `TxType`), that the two exact backends always have the documented
table and the others until they deviate (`RowsInv`), that RDBTable's counter differs from the number of rows by what was counted wrongly (`CountedInv`), that published and pending elements
together reproduce the table (`StreamedInv`: the property speaks of an empty queue only), that each key outside `twice` has at most one live element, and that one in the table
(`TrackedInv`), and that during a commit the table is what the committed operations and the entries already applied make of an empty one (`SerialInv`: the property speaks of the time between commits
only). What an operation of a backend must do is one definition, `Lawful`; each of the five backends' operations has a lemma that shows it, and one lemma shows that a lawful call keeps the invariant.
`After`, which applies a sequence of operations to a table, is a recursive function; that it is defined, and that it may be applied to two parts one after the other, is
shown by the smallest prefix at which it would fail. `deleteWhere` and `updateWhere` notify for the keys they hit in the order of the iterator, of which only is known that it has each key once, so their notifications are shown to
have the same result in every such order. `TablesAssumption`: the backends are the five, the keys finite, the records the numbers below their count (`updateWhere` and `updateOrDeleteByKey` compute a next
record from the old one), and `NoTxID` is no transaction.

`Topology_proofs` proves `LifeStaysInOrder` (`LifeInOrder`) for every program of sources and any number of starts. `LifeInv` says who called which start function (`ByInv`, `CallerInv`), that each function of `startAsync` has its future or was consumed by a
`get` (`FutureInv`), which futures `wait` has passed (`WaitInv`), and that a careful program has nothing running once it begins to destroy (`DestroyInv`).
It also proves `SourcesStayAccounted` (`SourcesAccounted`) for every program, stream length and number of starts and messages, and any number of crashes of a program with a Kafka source. `SourcesInv` adds that
a careful program has at most one function running per source, and who started it (`CarefulInv`: the main thread in `start`, or the thread of `runEvery`); that
the position in the repeated stream, modulo its length with the EndOfStream, is what that function has published (`StreamInv`); that the messages waiting at Kafka are the last ones
sent, none of them committed nor about to be by a function between its publish and its commit, so a crash there delivers again what it had published (`BrokerInv`); that
a source has ignored at most one message per finished constructor of Kafka and per begun run of RabbitMQ (`ReadsInv`, with `DropsOK`); and that only the
destruction interrupts a ZMQ thread (`ZmqInv`). Each start function, crash and caller has a lemma. Assumed: programs are sequences of the kinds of sources, and the
bound on messages is a natural (`ProgramsAssumption`, `MessagesAssumption`). The theorem does not say that no message is lost: what is sent before the position is known, after an MQTT client has looked for the last time,
or read and ignored is lost, and the property names exactly these.

`WindowAggregation_proofs` proves `WindowStaysExact` (`WindowExact`) for every kind of window, with and without a window function or an eviction
thread, every size and any number of tuples. `BufferInv` says that the buffer holds the last tuples that arrived, in their order; `SettledInv` that
an arrival has been followed by its eviction; and `ToldInv` that the subscribers know the tuples up to the last as new and up to some `g` as outdated, while
the `n` after `g` are on their way in a thread's list, after which the window is empty or holds one tuple. From this follow what they know at rest and the order in which
they were told. Assumed are a positive window size and the configurations the constructors allow (`SizeAssumption`,
`ConfigAssumption`). Stating the invariant for all configurations showed that `ExpiredIsEmpty` had been true only of
those that were run (with a window function a tumbling window by time announces the youngest tuple before it expires): it now says what holds of all
of them, and that configuration is run too.

The same module proves `AggregationsStayExact` (`AggregationsExact`), with the steps of a trigger that has released the mutex between those of the eviction thread, and the action property `UndefinedOnlyWhenNothingValid` (`UndefinedOnlyWhenEmpty`), for any values and
any number of tuples below `UIntRange` (`RangeAssumption`). The argument has three layers. On sequences of values: `Describes` says what each function's state is for a list of valid values - for `AggrDCount` and `AggrMinMax` the
map from values to how often they occur - and is kept when a value is appended (`DescribesAppend`) and when the first is taken away (`DescribesTail`); of it the reported values follow (`DescribesFinal`). On positions:
adding a position behind the others appends to the list of their values, and removing the first takes its head (`ValuesGrow`, `ValuesShrink`). On the window: `LogInv` (each element on its way, in the buffer or delivered is one
of the tuples that arrived, by its ID) and `OrderInv` (they are announced in the order of their IDs) give, with `WindowInv`, that a publish announces a tuple behind all valid ones,
or withdraws the *oldest* valid one, or changes nothing (`LiveStep`): this is what the `lrecent` list, which drops its head whatever the outdated value is, depends on. `GrpInv` says the same of the positions of a group,
and that it exists as long as it has any; a group's value is undefined only in the step that takes its last tuple, whatever other groups hold. A tuple that arrives outdated, a window function and a tumbling window of rows break the order and are excepted (`Plain`).

`TupleHeap_proofs` proves `HandlesStayCounted` (`HandlesCounted`) for any number of tuples, every byte format and as many pointers as a `short` has values (65536): `HeapSpec` is the
specification that `Tuples` instantiates, with the format left open, because the one of the code is a set of recursive operators. `HeapInv` needs beside the
property only that a thread about to delete a tuple has given up its pointer (`ReleasedInv`); without it a second release of the same thread could make it forget the
deletion. `Recount` says how the number of holders changes with one pointer.

Only model-checked: the network (`NetworkSound`), the joins and other operators (`JoinsExact`, `OperatorsExact`), `MatchesExact`, `AlgorithmsExact`, `UseCasesExact`,
`GraphsKept`, and liveness (`OnlyBlockedReadersStopCommit`, `WriterGetsLock`, `AllDelivered`,
`OnlySleepersOutliveStop`, `EvictionHappens`, `WaitReturns`, `WaitersReleased`, `StreamDrains`, `PoolEnds`), which the
prover cannot do. `MatrixGraph`, `Tuples`, `DEBS2017` and `Algorithms` define recursive operators, and `CEP`, `Operators` and `Pipe` folds, whose results for
every input are out of its reach too. A recursive *function* can be reasoned about by taking the smallest argument at which a claim
fails (`WFMin`), as the proofs do with `Via` of `PartitionMerge`, with `After` of `Tables`, with `Total` of `Aggregates` and with the largest element of a set.

## 5. Findings

With a run: *snapshot isolation* (`table/MVCCTable.hpp:589`). The object of the first key is copied before the snapshot is chosen.
All other reads are right (`FirstReadOnlyStale`).

Met while modelling. The models do what the code does; the properties name each case as an exception or are
stated for the programs that avoid it.

*Tables.* A writer that waits for a version slot holds the bucket that a reader may wait for (`MVCCTable.hpp:356`). Sort and unique keep the smallest of
several inserts of a key (339). `deleteByKey` of `MVCCTable` and `BOCCTable` ignores outdated elements although `ToTxTable.hpp:111` says that they are
removed. An abort under S2PL undoes nothing (`S2PLTable.hpp:221`); under BOCC the transaction stays registered (`BOCCTable.hpp:290`). `getSetFreePos` has no case for a full bitmap
(`StateContext.cpp:53`) and the bitmap no initial value (`StateContext.hpp:357`); the first `recalcOldestVisible` (280) ignores active readers. `CuckooTable::insert` keeps an existing record (146), although line 138 says that it is updated, so in the default build S2PL and BOCC tables never update a
record that is present; its `updateOrDeleteByKey` changes a copy; its `deleteWhere` and `select` lock themselves out. `HashMapTable::updateOrDeleteByKey` tells observers a record it has erased (`HashMapTable.hpp:236`). `RDBTable` counts replaced keys
twice and goes on counting dropped ones (474). `FromTable` marks inserted tuples as outdated (97) and stays registered after its destruction. `SelectFromTable` ignores its predicate (59). Operations of `TxTable` without a transaction bypass its mutex; a crash inside a commit leaves half of it.

*Queues and topologies.* `stop` sets its flag without the mutex (`Queue.hpp:82`): a thread about to sleep misses it. Behind `Merge` there is one `EndOfStream` per partition. A queue
drops the data of a punctuation (205). Without `wait` the dataflow dies before the start functions end (`Topology.hpp:112`); a second `wait` takes a result twice; `runEvery` sleeps nanoseconds (`Topology.cpp:92`).
Adding an operator changes the partitioning state of the pipe it is called on (`Pipe.hpp:224`), so a partitioned pipe cannot be used twice; merging takes all publishers from a position on. The constructor of the Kafka source drops
a message (`KafkaSource.cpp:37`), RabbitMQ's a single one (`RabbitMQSource.cpp:41`); a Kafka consumer whose group has committed nothing loses what is sent before it is assigned, after a crash too, and an MQTT source
what arrives while it leaves. `sendZMQ` does not compile when it is used (`Pipe.hpp:626`).

*Windows and aggregates.* The tuple that fills a tumbling row window is outdated before it is new (`TumblingWindow.hpp:169`). Outdated tuples make the aggregation evaluate on an empty window (`Aggregation.hpp:227`), where
average, minimum and least recent value are undefined; `GroupedAggregation` does the same for a group that has just lost its last tuple (382). `GroupedAggregation` locks twice when it triggers by count (272) and throws when it triggers by timestamp. The eviction interval is in seconds where the documentation says milliseconds. `AggrMedian` is wrong for repeated values (187).

*Operators.* An outdated tuple removes all equal ones from a join's table (`SHJoin.hpp:232`); the instances of `ScaleJoin` have no mutex, and cut keys to `int` (`ScaleJoin.hpp:231`). The tuplifier's scans are not protected from its notifier (270). A batcher publishes a punctuation before the elements it
still buffers. A repeated predicate of a subject overwrites the earlier triple (`Tuplifier.hpp:255`). A shared condition variable with `notify_one` leaves a second barrier asleep. `TupleExtractor` steps behind the end of a short line (116), and a last line without newline is dropped.

*CEP.* The collector takes half of what is finished (`CEPEngine.hpp:347`), and the rest may match on; `Question` lets any number of events pass; windows are not checked; a maximum starts at the smallest positive value.

*Core, matrices, use cases.* The constructor from bytes leaves the counter uninitialised (`Tuple.hpp:158`), and a counter is a `short` (343); copies lose null flags (104). `add_edge` stores weight 0, which the next removal prunes; `insertRow` and `insertCol` read what they overwrite (`DenseMatrix.hpp:281`); `getIncident` of a row vector takes
other indexes. Matrix observers are told after the unlock (`SparseMatrix.hpp:310`). Linear Road forgets a vehicle's segment when an old report leaves the window (`LinRoad.cpp:530`), deletes minute 1 too early (553), overflows the timestamps after 2147 s (`Pipe.hpp:415`) and computes the toll with `^` (579). DEBS reads behind its values (`DEBS2017.cpp:280`). The pattern
miner compares too little of a suffix (`Pattern.cpp:119`).

## 6. Hazards without a property

Beside the hazards in `PROJECT.json`: with auto-commit `ToTxTable` commits without `setLastCTS` and `removeTx` (`ToTxTable.hpp:128`; no program
uses it with a transactional table). Readers look up row locks in a hash map while the writer inserts the lock of a new key (`S2PLTable.hpp:102`; needs keys that are first
written after the start). `lockExclusive` of BOCC does not announce itself, so overlapping readers starve the writer (`BOCCTable.hpp:168`; not visible with bounded timestamps).
Transactional operators behind a `Queue` lose their transaction ID (`Queue.hpp:205`; no program puts them there).

## 7. Not modelled, and the plan

Not modelled: the query compiler (it writes C++ text and calls a compiler), the Python bindings (one call per method), the template library, JSON and HTTP parsing, the web server of FreqTrajectories, image
filters, SECRET, the interactive demo. The brokers, RocksDB, libcuckoo, Eigen and Boost are external. The NVM build of the tables changes
objects in place, without the bucket lock's protection for readers; it needs a variant of `MVCCTable`.

Worth proving next: `NetworkSound` of `Topology`, once the folds of `Pipe` and `Channels` are recursive functions that the provers can unfold.
