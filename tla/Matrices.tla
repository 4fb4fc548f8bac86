------------------------------- MODULE Matrices -------------------------------
(***************************************************************************)
(* Matrices in streams.  MatrixSlice cuts a matrix into parts that carry   *)
(* one identifier, MatrixMerge puts the parts back together; between them  *)
(* the parts may be processed by different threads and arrive in any       *)
(* order.  ToMatrix writes a shared sparse matrix from several streams,    *)
(* the matrix tells its observers, and FromMatrix hands the changes to a   *)
(* thread of its own that publishes them.                                  *)
(*                                                                         *)
(* A matrix is a function from its cells to values, with the identifier it *)
(* carries as a part.                                                      *)
(***************************************************************************)
EXTENDS Integers, Sequences, FiniteSets, Functions

CONSTANTS MatrixKinds,    \* programs to run, of {"dense", "sparse", "replica"}, or "none"
          Cells,          \* the cells of the matrices
          Sources,        \* the matrices sliced, a set of functions on Cells
          numParts,       \* the number of parts
          CellValues,     \* values written to the shared matrix; 0 erases
          Writers,        \* threads that write the shared matrix
          MaxWrites       \* bound: changes of the shared matrix

VARIABLES matrixKind,
          toSlice,     \* matrices not sliced yet
          nextID,      \* identifiers generated so far
          parts,       \* parts on their way: [id, nr, cells, of]
          partitions,  \* MatrixMerge::partitions: per identifier the count and the matrix so far
          merged       \* the matrices MatrixMerge published

VARIABLES shared,      \* the shared matrix
          change,      \* change[w]: the change writer w has applied and not yet announced
          writes,      \* changes so far
          writersOf,   \* the writers that changed a cell
          queue,       \* FromMatrix::queue
          mutex,       \* "free", "producer" or "destructor"
          producer,    \* where the producer thread is
          destructor,  \* where the destructor of FromMatrix is
          interupted,
          replica      \* what a reader of FromMatrix's stream reconstructs

sliceVars == <<matrixKind, toSlice, nextID, parts, partitions, merged>>
replicaVars == <<shared, change, writes, writersOf, queue, mutex, producer, destructor, interupted, replica>>
matrixVars == <<sliceVars, replicaVars>>

NoChange == [cell |-> CHOOSE c \in Cells : TRUE, value |-> -1]
Zero == [c \in Cells |-> 0]

MatricesInit ==
  /\ matrixKind \in MatrixKinds
  /\ toSlice = IF matrixKind \in {"dense", "sparse"} THEN Sources ELSE {}
  /\ nextID = 0 /\ parts = {} /\ partitions = <<>> /\ merged = <<>>
  /\ shared = Zero /\ replica = Zero
  /\ change = [w \in Writers |-> NoChange]
  /\ writes = 0
  /\ writersOf = [c \in Cells |-> {}]
  /\ queue = <<>> /\ mutex = "free"
  /\ producer = IF matrixKind = "replica" THEN "loop" ELSE "done"
  /\ destructor = "alive" /\ interupted = FALSE

----------------------------------------------------------------------------
\* A sparse matrix stores the cells that are not zero, a dense one all.
Stored(m) == {c \in Cells : matrixKind = "dense" \/ m[c] # 0}

\* The slice function of the programs checked: by row.
sliceFun(c) == c[1] % numParts

\* The identifier that arrives: the move constructor of DenseMatrix copies it,
\* the one of the sparse Matrix leaves it uninitialised, so that it is any
\* value, an identifier in use included.
Arriving(id) == IF matrixKind = "dense" THEN {id} ELSE 1 .. Cardinality(Sources)

\* processDataElement of MatrixSlice: all parts, empty ones too, with a new
\* identifier.
Slice(m) ==
  /\ m \in toSlice
  /\ nextID' = nextID + 1
  /\ \E ids \in [0 .. numParts - 1 -> Arriving(nextID + 1)] :
       parts' = parts \union
         {[id |-> ids[p], nr |-> <<nextID, p>>,
           cells |-> [c \in {c \in Stored(m) : sliceFun(c) = p} |-> m[c]]] : p \in 0 .. numParts - 1}
  /\ toSlice' = toSlice \ {m}
  /\ UNCHANGED <<matrixKind, partitions, merged>>

Override(f, g) == [x \in DOMAIN f \union DOMAIN g |-> IF x \in DOMAIN g THEN g[x] ELSE f[x]]

\* merge_to sets the cells of the part in the matrix collected so far.
merge_to(src, dst) == Override(dst, src)

\* Mutant of Merge: the part is counted before it is merged.
MergeEarly(p) ==
  /\ p \in parts
  /\ parts' = parts \ {p}
  /\ LET old  == IF p.id \in DOMAIN partitions THEN partitions[p.id] ELSE [count |-> 0, matrix |-> <<>>]
         new  == [count |-> old.count + 1, matrix |-> merge_to(p.cells, old.matrix)]
         rest == Restrict(partitions, DOMAIN partitions \ {p.id})
     IN IF new.count = numParts
        THEN merged' = Append(merged, old.matrix) /\ partitions' = rest
        ELSE merged' = merged /\ partitions' = Override(rest, [x \in {p.id} |-> new])
  /\ UNCHANGED <<matrixKind, toSlice, nextID>>

\* processDataElement of MatrixMerge: the last part of numParts publishes the
\* matrix and removes its entry.
Merge(p) ==
  /\ p \in parts
  /\ parts' = parts \ {p}
  /\ LET old  == IF p.id \in DOMAIN partitions THEN partitions[p.id] ELSE [count |-> 0, matrix |-> <<>>]
         new  == [count |-> old.count + 1, matrix |-> merge_to(p.cells, old.matrix)]
         rest == Restrict(partitions, DOMAIN partitions \ {p.id})
     IN IF new.count = numParts
        THEN merged' = Append(merged, new.matrix) /\ partitions' = rest
        ELSE merged' = merged /\ partitions' = Override(rest, [x \in {p.id} |-> new])
  /\ UNCHANGED <<matrixKind, toSlice, nextID>>

----------------------------------------------------------------------------
\* Matrix::set and removal: a zero is not stored.
matrixSet(c, v) == [shared EXCEPT ![c] = v]

\* ToMatrix: insert and erase change the matrix under its mutex ...
Apply(w, c, v) ==
  /\ matrixKind = "replica"
  /\ change[w] = NoChange
  /\ writes < MaxWrites
  /\ destructor = "alive"
  /\ shared' = matrixSet(c, v)
  /\ change' = [change EXCEPT ![w] = [cell |-> c, value |-> v]]
  /\ writersOf' = [writersOf EXCEPT ![c] = @ \union {w}]
  /\ writes' = writes + 1
  /\ UNCHANGED <<queue, mutex, producer, destructor, interupted, replica>>

Wake == IF producer = "asleep" THEN "woken" ELSE producer

\* Mutant of Announce: the change is pushed in front.
AnnounceFront(w) ==
  /\ change[w] # NoChange
  /\ mutex = "free"
  /\ queue' = <<change[w]>> \o queue
  /\ producer' = Wake
  /\ change' = [change EXCEPT ![w] = NoChange]
  /\ UNCHANGED <<shared, writes, writersOf, mutex, destructor, interupted, replica>>

\* ... and announce the change after it was released: matrixCallback appends
\* it to the queue of FromMatrix under FromMatrix's mutex.
Announce(w) ==
  /\ change[w] # NoChange
  /\ mutex = "free"
  /\ queue' = Append(queue, change[w])
  /\ producer' = Wake
  /\ change' = [change EXCEPT ![w] = NoChange]
  /\ UNCHANGED <<shared, writes, writersOf, mutex, destructor, interupted, replica>>

\* produce: the loop of the producer thread.
\* Its test, then the lock; after a wake-up, the lock again.
ProduceLoop ==
  /\ \/ producer = "loop" /\ interupted /\ producer' = "done" /\ UNCHANGED mutex
     \/ /\ (producer = "loop" /\ ~interupted) \/ producer = "woken"
        /\ mutex = "free"
        /\ mutex' = "producer" /\ producer' = "locked"
  /\ UNCHANGED <<shared, change, writes, writersOf, queue, destructor, interupted, replica>>

\* With the lock: the condition of the wait, and the drain of the queue.
ProduceLocked ==
  /\ producer = "locked"
  /\ \/ /\ queue # <<>>
        /\ replica' = [replica EXCEPT ![queue[1].cell] = queue[1].value]
        /\ queue' = Tail(queue)
        /\ producer' = "draining" /\ UNCHANGED mutex
     \/ /\ queue = <<>> /\ interupted
        /\ producer' = "loop" /\ mutex' = "free" /\ UNCHANGED <<queue, replica>>
     \/ /\ queue = <<>> /\ ~interupted
        /\ producer' = "falling" /\ UNCHANGED <<mutex, queue, replica>>
  /\ UNCHANGED <<shared, change, writes, writersOf, destructor, interupted>>

ProduceDrain ==
  /\ producer = "draining"
  /\ IF queue # <<>>
     THEN /\ replica' = [replica EXCEPT ![queue[1].cell] = queue[1].value]
          /\ queue' = Tail(queue)
          /\ UNCHANGED <<producer, mutex>>
     ELSE producer' = "loop" /\ mutex' = "free" /\ UNCHANGED <<queue, replica>>
  /\ UNCHANGED <<shared, change, writes, writersOf, destructor, interupted>>

\* wait releases the mutex and sleeps in one step.
ProduceSleep ==
  /\ producer = "falling"
  /\ producer' = "asleep" /\ mutex' = "free"
  /\ UNCHANGED <<shared, change, writes, writersOf, queue, destructor, interupted, replica>>

\* ~FromMatrix, when nothing writes any more: the flag without the mutex,
\* notify_one with it, then join.
Destroy ==
  /\ matrixKind = "replica" /\ destructor = "alive"
  /\ \A w \in Writers : change[w] = NoChange
  /\ interupted' = TRUE
  /\ destructor' = "notify"
  /\ UNCHANGED <<shared, change, writes, writersOf, queue, mutex, producer, replica>>

\* Mutant of DestroyNotify: notify_one without the mutex.
DestroyNotifyUnlocked ==
  /\ destructor = "notify"
  /\ producer' = Wake
  /\ destructor' = "join"
  /\ UNCHANGED <<shared, change, writes, writersOf, queue, mutex, interupted, replica>>

DestroyNotify ==
  /\ destructor = "notify"
  /\ mutex = "free"
  /\ producer' = Wake
  /\ destructor' = "join"
  /\ UNCHANGED <<shared, change, writes, writersOf, queue, mutex, interupted, replica>>

DestroyJoin ==
  /\ destructor = "join" /\ producer = "done"
  /\ destructor' = "gone"
  /\ UNCHANGED <<shared, change, writes, writersOf, queue, mutex, producer, interupted, replica>>

ProducerStep == ProduceLoop \/ ProduceLocked \/ ProduceDrain \/ ProduceSleep

ReplicaNext ==
  \/ \E w \in Writers : \/ \E c \in Cells, v \in CellValues : Apply(w, c, v)
                        \/ Announce(w)
  \/ ProducerStep
  \/ Destroy \/ DestroyNotify \/ DestroyJoin

SliceNext == (\E m \in toSlice : Slice(m)) \/ (\E p \in parts : Merge(p))

MatricesNext == \/ SliceNext /\ UNCHANGED replicaVars
                \/ matrixKind = "replica" /\ ReplicaNext /\ UNCHANGED sliceVars

----------------------------------------------------------------------------
\* Merging is the inverse of slicing: every published dense matrix is one of
\* the sliced ones with all its cells, no matrix is published twice, and when
\* all parts have arrived every matrix was published, whatever the order in
\* which the parts of several matrices arrived.
MergeExact ==
  matrixKind = "dense" =>
    /\ \A k \in DOMAIN merged : merged[k] \in Sources
    /\ \A j, k \in DOMAIN merged : j # k => merged[j] # merged[k]
    /\ parts = {} => {merged[k] : k \in DOMAIN merged} = Sources \ toSlice

\* The stream of FromMatrix reproduces the shared matrix: when everything was
\* announced and published, each cell that one writer changed has its value;
\* of two writers of one cell the announcements may be in the other order.
ReplicaConverges ==
  queue = <<>> /\ (\A w \in Writers : change[w] = NoChange) =>
    \A c \in Cells : Cardinality(writersOf[c]) <= 1 => replica[c] = shared[c]

\* The destructor of FromMatrix returns: the producer thread sees the flag or
\* is woken, and ends.
DestructorReturns == (destructor = "notify") ~> (destructor = "gone")
=============================================================================
