------------------------------ MODULE Operators ------------------------------
(***************************************************************************)
(* The operators that process one element at a time, each alone in a       *)
(* program of its own: joins (Joins), the tuplifier (Tuplifier), chains of *)
(* unary operators that end in a writer, a text file read by               *)
(* TextFileSource and TupleExtractor, barriers, and the matrix operators   *)
(* (Matrices).  Exactly one of the programs runs in a behaviour.           *)
(***************************************************************************)
EXTENDS Joins, Tuplifier, Matrices

CONSTANTS Chains,        \* chains of operator names to run, <<>> for none
          Sinks,         \* the writers at the end of a chain
          Values,        \* payloads of the elements fed to a chain
          BatchSize,     \* batch size of "batch"
          MaxElements,   \* bound: elements and punctuations fed to a chain
          Files,         \* contents of text files: sequences of lines
          NumAttributes, \* attributes of the extracted tuple
          maxTuples,     \* the limit given to TextFileSource
          Null,          \* a null attribute, and the content of an empty field
          BarrierPlans,  \* records [barriers, notify], or none
          MaxCounter,    \* the counter of the barrier predicate ends here
          MaxSets        \* bound: changes of that counter

VARIABLES chain,      \* the chain that runs
          sink,       \* its writer
          stages,     \* state of each operator of the chain
          fed,        \* everything fed to the chain
          arrived,    \* everything that left the last operator
          written,    \* what the writer put out
          failed      \* an exception left the chain

VARIABLES file,       \* the lines of the file
          pos,        \* lines read
          store,      \* fields of earlier lines that may still follow the end of the current one
          extracted   \* tuples published by TupleExtractor

VARIABLES barrierPlan,
          counter,    \* the variable the predicates read
          sets,       \* changes of counter so far
          waiting,    \* waiting[b]: the element a barrier holds, 0 for none
          asleep,     \* barriers inside cond.wait
          released    \* released[b]: <<element, counter>> of every publication of b

chainVars == <<chain, sink, stages, fed, arrived, written, failed>>
fileVars == <<file, pos, store, extracted>>
barrierVars == <<barrierPlan, counter, sets, waiting, asleep, released>>
vars == <<joinVars, tuplifierVars, matrixVars, chainVars, fileVars, barrierVars>>

----------------------------------------------------------------------------
(* Chains of unary operators.  An element is [kind, val] with kind "new",  *)
(* "outdated" or "punct"; a batch carries its elements in elems.           *)

Elem(kind, val) == [kind |-> kind, val |-> val, elems |-> <<>>]
Batch(elems) == [kind |-> "new", val |-> 0, elems |-> elems]
NewStage == [buf |-> <<>>, sum |-> 0]

\* An operator maps its state and an element to its new state and its output.
Keep(st, out) == [st |-> st, out |-> out, throws |-> FALSE]

\* The functions of the programs checked.
mapped(v) == (v + 1) % 3
kept(v) == v # 1

Map(st, e) == Keep(st, <<IF e.kind = "punct" THEN e ELSE [e EXCEPT !.val = mapped(@)]>>)
Where(st, e) == Keep(st, IF e.kind = "punct" \/ kept(e.val) THEN <<e>> ELSE <<>>)
Notify(st, e) == Keep(st, <<e>>)

\* The function of the stateful map keeps a running sum.
StatefulMap(st, e) ==
  LET sum == IF e.kind = "new" THEN st.sum + e.val ELSE st.sum - e.val
  IN IF e.kind = "punct" THEN Keep(st, <<e>>)
     ELSE Keep([st EXCEPT !.sum = sum], <<[e EXCEPT !.val = sum]>>)

\* Mutant of publishBatch: the position is not reset.
publishBatchKeeps(st) == Keep(st, <<Batch(st.buf)>>)

publishBatch(st) == Keep([st EXCEPT !.buf = <<>>], <<Batch(st.buf)>>)

\* Batcher with a size: a punctuation overtakes the elements in the buffer.
Batcher(st, e) ==
  LET filled == [st EXCEPT !.buf = Append(@, e)]
  IN IF e.kind = "punct" THEN Keep(st, <<e>>)
     ELSE IF Len(filled.buf) = BatchSize THEN publishBatch(filled) ELSE Keep(filled, <<>>)

\* Batcher without a size (SIZE_MAX): a punctuation publishes the batch, then
\* mBuf.resize(SIZE_MAX) throws and the punctuation is never published.
BatcherAll(st, e) ==
  IF e.kind = "punct" THEN [publishBatch(st) EXCEPT !.throws = TRUE]
  ELSE Keep([st EXCEPT !.buf = Append(@, e)], <<>>)

UnBatcher(st, e) == Keep(st, IF e.kind = "punct" THEN <<e>> ELSE e.elems)

processDataElement(op, st, e) ==
  CASE op = "map" -> Map(st, e)
    [] op = "where" -> Where(st, e)
    [] op = "notify" -> Notify(st, e)
    [] op = "statefulMap" -> StatefulMap(st, e)
    [] op = "batch" -> Batcher(st, e)
    [] op = "batchAll" -> BatcherAll(st, e)
    [] op = "unbatch" -> UnBatcher(st, e)

\* publish: stage k processes the elements one by one; an exception ends it.
Stage(acc, k) ==
  LET one(a, e) ==
        IF a.throws THEN a
        ELSE LET r == processDataElement(chain[k], a.st, e)
             IN [st |-> r.st, out |-> a.out \o r.out, throws |-> r.throws]
      run == FoldLeft(one, Keep(acc.stages[k], <<>>), acc.elems)
  IN [stages |-> [acc.stages EXCEPT ![k] = run.st], elems |-> run.out,
      throws |-> acc.throws \/ run.throws]

\* Mutant of Write: outdated elements are written like new ones.
WriteAll(out) == SelectSeq(out, LAMBDA e : e.kind # "punct")

\* ConsoleWriter and FileWriter skip outdated elements and punctuations;
\* ZMQSink (binary) sends everything, the outdated flag is not encoded.
ConsoleWriter(out) == SelectSeq(out, LAMBDA e : e.kind = "new")
FileWriter(out) == SelectSeq(out, LAMBDA e : e.kind = "new")
ZMQSink(out) == [k \in DOMAIN out |-> [out[k] EXCEPT !.kind = IF @ = "punct" THEN @ ELSE "new"]]
Write(out) ==
  CASE sink = "ConsoleWriter" -> ConsoleWriter(out)
    [] sink = "FileWriter" -> FileWriter(out)
    [] sink = "ZMQSink" -> ZMQSink(out)

FeedChain(e) ==
  /\ chain # <<>> /\ ~failed
  /\ Len(fed) < MaxElements
  /\ e.kind = "outdated" =>
       Len(SelectSeq(fed, LAMBDA x : x = Elem("new", e.val))) > Len(SelectSeq(fed, LAMBDA x : x = e))
  /\ LET run == FoldLeft(Stage, [stages |-> stages, elems |-> <<e>>, throws |-> FALSE],
                         [k \in DOMAIN chain |-> k])
     IN /\ stages' = run.stages
        /\ arrived' = arrived \o run.elems
        /\ written' = written \o Write(run.elems)
        /\ failed' = run.throws
  /\ fed' = Append(fed, e)
  /\ UNCHANGED <<chain, sink>>

----------------------------------------------------------------------------
(* A text file, line by line.  A line is the sequence of its fields, Null  *)
(* an empty one.                                                           *)

Pad(fields) == [k \in 1 .. NumAttributes |-> IF k <= Len(fields) THEN fields[k] ELSE Null]

\* Mutant of Fields: the last field of a line is dropped.
FieldsButLast(line, stale) == IF Len(line) > 1 THEN SubSeq(line, 1, Len(line) - 1) ELSE line

\* The loop over the line ends at a NUL where a field should start (the last
\* field is empty) or at NumAttributes fields; after a non-empty last field
\* it goes on behind the NUL, where stale is found.
Fields(line, stale) ==
  IF Len(line) < NumAttributes /\ line # <<>> /\ Last(line) # Null THEN line \o stale ELSE line

\* readMemoryMappedFile: every line is copied to the same store.
ReadLine ==
  /\ pos < Len(file) /\ pos < maxTuples
  /\ \E stale \in {<<>>} \union {<<f>> : f \in store} :
       extracted' = Append(extracted, Pad(Fields(file[pos + 1], stale)))
  /\ pos' = pos + 1
  /\ store' = store \union (ToSet(file[pos + 1]) \ {Null})
  /\ UNCHANGED file

----------------------------------------------------------------------------
(* Barriers: one per partition, all on the condition variable, the mutex   *)
(* and the predicate of the program.  The predicate of the programs        *)
(* checked: the element is below the counter.                              *)

mPred(e) == e < counter
Barriers == 1 .. barrierPlan.barriers

Enter(b, e) ==
  /\ b \in Barriers /\ waiting[b] = 0
  /\ Len(released[b]) = e - 1                        \* elements 1, 2, ... in order
  /\ waiting' = [waiting EXCEPT ![b] = e]
  /\ UNCHANGED <<barrierPlan, counter, sets, asleep, released>>

\* Mutant of Barrier: the predicate is tested before the wait only (if for while).
BarrierOnce(b) ==
  /\ waiting[b] # 0 /\ b \notin asleep
  /\ IF waiting[b] < 0 \/ mPred(waiting[b])
     THEN /\ released' = [released EXCEPT ![b] =
                 Append(@, <<IF waiting[b] < 0 THEN -waiting[b] ELSE waiting[b], counter>>)]
          /\ waiting' = [waiting EXCEPT ![b] = 0]
          /\ UNCHANGED asleep
     ELSE asleep' = asleep \union {b} /\ waiting' = [waiting EXCEPT ![b] = -@] /\ UNCHANGED released
  /\ UNCHANGED <<barrierPlan, counter, sets>>

\* processDataElement under the mutex: publish if the predicate holds, wait
\* otherwise (wait releases the mutex and the loop tests again).
Barrier(b) ==
  /\ waiting[b] # 0 /\ b \notin asleep
  /\ IF mPred(waiting[b])
     THEN /\ released' = [released EXCEPT ![b] = Append(@, <<waiting[b], counter>>)]
          /\ waiting' = [waiting EXCEPT ![b] = 0]
          /\ UNCHANGED asleep
     ELSE asleep' = asleep \union {b} /\ UNCHANGED <<released, waiting>>
  /\ UNCHANGED <<barrierPlan, counter, sets>>

\* Mutant of SetCounter: the change is not announced.
SetCounterSilent(v) ==
  /\ sets < MaxSets
  /\ sets = MaxSets - 1 => v = MaxCounter
  /\ counter' = v
  /\ sets' = sets + 1
  /\ UNCHANGED <<barrierPlan, waiting, asleep, released>>

\* The program sets the counter under the mutex and notifies; the last
\* change opens the barrier for good.
SetCounter(v) ==
  /\ sets < MaxSets
  /\ sets = MaxSets - 1 => v = MaxCounter
  /\ counter' = v
  /\ sets' = sets + 1
  /\ \/ barrierPlan.notify = "all" /\ asleep' = {}
     \/ barrierPlan.notify = "one" /\ asleep = {} /\ asleep' = {}
     \/ barrierPlan.notify = "one" /\ \E b \in asleep : asleep' = asleep \ {b}
  /\ UNCHANGED <<barrierPlan, waiting, released>>

\* A spurious wake-up of a condition variable.
Spurious(b) ==
  /\ b \in asleep
  /\ asleep' = asleep \ {b}
  /\ UNCHANGED <<barrierPlan, counter, sets, waiting, released>>

BarriersNext ==
  \/ \E b \in Barriers : (\E e \in 1 .. MaxCounter - 1 : Enter(b, e)) \/ Barrier(b) \/ Spurious(b)
  \/ \E v \in 0 .. MaxCounter : SetCounter(v)

----------------------------------------------------------------------------
NoBarriers == [barriers |-> 0, notify |-> "all"]

Init ==
  /\ JoinsInit /\ TuplifierInit /\ MatricesInit
  /\ chain \in Chains
  /\ sink \in (IF chain = <<>> THEN {"ConsoleWriter"} ELSE Sinks)
  /\ stages = [k \in DOMAIN chain |-> NewStage]
  /\ fed = <<>> /\ arrived = <<>> /\ written = <<>> /\ failed = FALSE
  /\ file \in Files
  /\ pos = 0 /\ store = {} /\ extracted = <<>>
  /\ barrierPlan \in BarrierPlans
  /\ counter = 0 /\ sets = 0 /\ asleep = {}
  /\ waiting = [b \in Barriers |-> 0] /\ released = [b \in Barriers |-> <<>>]
  /\ LET running == {p \in 1 .. 6 : <<join # "none", mode # "none", matrixKind # "none", chain # <<>>, file # <<>>,
                                      barrierPlan # NoBarriers>>[p]}
     IN Cardinality(running) = 1

Next ==
  \/ JoinsNext /\ UNCHANGED <<tuplifierVars, matrixVars, chainVars, fileVars, barrierVars>>
  \/ TuplifierNext /\ UNCHANGED <<joinVars, matrixVars, chainVars, fileVars, barrierVars>>
  \/ MatricesNext /\ UNCHANGED <<joinVars, tuplifierVars, chainVars, fileVars, barrierVars>>
  \/ /\ \E kind \in {"new", "outdated"}, v \in Values : FeedChain(Elem(kind, v))
     /\ UNCHANGED <<joinVars, tuplifierVars, matrixVars, fileVars, barrierVars>>
  \/ FeedChain(Elem("punct", 0)) /\ UNCHANGED <<joinVars, tuplifierVars, matrixVars, fileVars, barrierVars>>
  \/ ReadLine /\ UNCHANGED <<joinVars, tuplifierVars, matrixVars, chainVars, barrierVars>>
  \/ /\ barrierPlan # NoBarriers /\ BarriersNext
     /\ UNCHANGED <<joinVars, tuplifierVars, matrixVars, chainVars, fileVars>>

Spec == Init /\ [][Next]_vars

\* The threads that hold an element at a barrier, the one that changes the
\* counter, the producer thread and the destructor of FromMatrix go on running.
Fairness ==
  /\ \A b \in 1 .. 2 : WF_vars(/\ barrierPlan # NoBarriers /\ b \in Barriers /\ Barrier(b)
                               /\ UNCHANGED <<joinVars, tuplifierVars, matrixVars, chainVars, fileVars>>)
  /\ WF_vars(/\ barrierPlan # NoBarriers /\ \E v \in 0 .. MaxCounter : SetCounter(v)
             /\ UNCHANGED <<joinVars, tuplifierVars, matrixVars, chainVars, fileVars>>)
  /\ WF_vars(/\ matrixKind = "replica" /\ ProducerStep
             /\ UNCHANGED <<sliceVars, joinVars, tuplifierVars, chainVars, fileVars, barrierVars>>)
  /\ WF_vars(/\ DestroyNotify \/ DestroyJoin
             /\ UNCHANGED <<sliceVars, joinVars, tuplifierVars, chainVars, fileVars, barrierVars>>)

FairSpec == Spec /\ Fairness

----------------------------------------------------------------------------
Data(s) == SelectSeq(s, LAMBDA e : e.kind # "punct")
Pending == FlattenSeq([k \in DOMAIN stages |-> stages[k].buf])
Plain == \A k \in DOMAIN chain : chain[k] # "statefulMap"

\* What a chain makes of a value, batches left out: a sequence of one or none.
Reference(v) ==
  FoldLeft(LAMBDA vs, op : CASE op = "map" -> [k \in DOMAIN vs |-> mapped(vs[k])]
                             [] op = "where" -> SelectSeq(vs, kept)
                             [] OTHER -> vs, <<v>>, chain)
Expected(s) == FlattenSeq([k \in DOMAIN s |->
                 LET vs == Reference(s[k].val) IN [n \in DOMAIN vs |-> Elem(s[k].kind, vs[n])]])

\* A chain neither loses, doubles nor reorders elements and keeps new and
\* outdated ones paired: what arrives is, in order, what its functions make of
\* the elements fed, and only elements that a batcher still buffers are missing.
ChainInOrder ==
  Plain => /\ IsPrefix(Data(arrived), Expected(Data(fed)))
           /\ Len(Expected(Data(fed))) = Len(Data(arrived)) + Len(Pending)

\* A writer of text puts out the results of the new elements only, each once
\* and in the order they were fed; outdated elements never reach the output.
WrittenOnce ==
  Plain /\ sink # "ZMQSink" =>
    IsPrefix(written, Expected(SelectSeq(fed, LAMBDA e : e.kind = "new")))

\* Every line read yields one tuple with the fields of that line and nulls for
\* the missing ones, if the line has all fields or ends with a separator;
\* the tuple of any other line may carry fields of earlier lines.
LinesExtracted ==
  /\ Len(extracted) = pos
  /\ \A k \in 1 .. pos :
       Len(file[k]) >= NumAttributes \/ file[k] = <<>> \/ Last(file[k]) = Null
         => extracted[k] = Pad(file[k])

\* Whatever a barrier publishes satisfied the predicate when it was published,
\* also after spurious wake-ups and when the counter had been lowered again.
BarrierHolds ==
  \A b \in DOMAIN released : \A k \in DOMAIN released[b] : released[b][k][1] < released[b][k][2]

\* A barrier lets every element go once the predicate stays true, if every
\* change notifies all waiting barriers or there is only one; with notify_one,
\* as the test program does it, a second barrier can sleep for ever.
BarrierReleases ==
  \A b \in 1 .. 2, e \in 1 .. MaxCounter - 1 :
    (b \in Barriers /\ waiting[b] = e /\ (barrierPlan.notify = "all" \/ barrierPlan.barriers = 1))
      ~> (b \notin Barriers \/ waiting[b] # e)

\* Both joins: the results are the relational join of what is live, and the
\* instances of ScaleJoin share the elements out (SHJoin.hpp, ScaleJoin.hpp).
JoinsExact == JoinExact /\ StoredOnce

\* The other operators, each in its program: what they publish, write or store is what
\* they received, transformed, in order and once, with the exceptions that the parts name.
OperatorsExact ==
  /\ TriplesAccounted /\ CompletedTuples /\ OrderedTuples
  /\ ChainInOrder /\ WrittenOnce /\ LinesExtracted
  /\ BarrierHolds
  /\ MergeExact /\ ReplicaConverges

\* Threads that wait are released: those in a Barrier, and the producer of FromMatrix
\* for which its destructor waits.
WaitersReleased == BarrierReleases /\ DestructorReturns
=============================================================================
