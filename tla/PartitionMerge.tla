--------------------------- MODULE PartitionMerge ---------------------------
(***************************************************************************)
(* A partitioned query: the source's thread runs PartitionBy, which sends  *)
(* each element to the Queue of its partition; the thread of that Queue    *)
(* runs the partition's subquery and Merge, which sends everything to one  *)
(* more Queue, whose thread runs the rest of the query.  At the end the    *)
(* main thread destroys the operators, which stops and joins the threads.  *)
(*                                                                         *)
(* The operators of a subquery run in the thread of its Queue and are left *)
(* out.  So are the mutexes of Merge's synchronized slots: every           *)
(* subscription has a slot of its own, hence no two threads share one.     *)
(***************************************************************************)
EXTENDS Integers, Sequences, FiniteSets

CONSTANTS
    Partitions,  \* the partition ids that have a subquery
    Ids,         \* the ids mFunc may compute
    Sink,        \* the Queue behind Merge
    PTypes,      \* punctuation types other than EndOfStream
    MaxItems,    \* bound: elements of the source
    MaxSpurious  \* bound: spurious wakeups

ASSUME SinkAssumption == Sink \notin Partitions \cup Ids
ASSUME IdsAssumption == Partitions \subseteq Ids
ASSUME FiniteAssumption == IsFiniteSet(Partitions)
ASSUME TypesAssumption == PTypes \cap {"data", "EndOfStream"} = {}
ASSUME BoundAssumption == MaxItems \in Nat /\ MaxSpurious \in Nat

VARIABLES
    \* the source's thread
    spc, emitted,
    elem,         \* the element PartitionBy is forwarding
    targets,      \* the partitions it has still to be pushed to
    last,         \* the queue pushed to and not yet notified
    \* the Queues
    queue_, stopped_, mInterrupted,
    cpc, tp,      \* the threads of the DequeueNotifiers, the element popped
    spurious,     \* number of spurious wakeups
    \* the destructors
    dpc, dying, dead,
    \* history
    sent,         \* all that was pushed to each partition
    out           \* all that the last Queue published

sourceVars == <<spc, emitted, elem, targets, last>>
flagVars == <<stopped_, mInterrupted>>
dtorVars == <<dpc, dying, dead>>
histVars == <<sent, out>>
vars == <<sourceVars, queue_, flagVars, cpc, tp, spurious, dtorVars, histVars>>

Queues == Partitions \cup {Sink}

Kinds == {"data", "EndOfStream"} \cup PTypes
\* An element: its kind, its number in the source's stream (0 for an element
\* without payload), and the partition it went through.
Elements == [kind: Kinds, n: 0 .. MaxItems, via: Queues]
NoElem == [kind |-> "data", n |-> 0, via |-> Sink]

\* What a Queue keeps of an element: a tuple of punctuation type and data,
\* in which the data of a punctuation is lost.
Kept(e) == IF e.kind = "data" THEN e ELSE [e EXCEPT !.n = 0]

Init ==
    /\ spc = "emit" /\ emitted = 0
    /\ elem = NoElem /\ targets = {} /\ last = Sink
    /\ queue_ = [q \in Queues |-> <<>>]
    /\ stopped_ = [q \in Queues |-> FALSE]
    /\ mInterrupted = [q \in Queues |-> FALSE]
    /\ cpc = [q \in Queues |-> "check"]
    /\ tp = [q \in Queues |-> NoElem]
    /\ spurious = 0
    /\ dpc = "idle" /\ dying = Sink /\ dead = {}
    /\ sent = [p \in Partitions |-> <<>>]
    /\ out = <<>>

-----------------------------------------------------------------------------
(***************************************************************************)
(* ConcurrentQueue.  Only the thread that pops keeps the mutex over more   *)
(* than one step: from the test of the wait's condition until it sleeps.   *)
(***************************************************************************)

MutexFree(q) == cpc[q] # "block"

Push(q, e) ==
    /\ MutexFree(q)
    /\ queue_' = [queue_ EXCEPT ![q] = Append(@, Kept(e))]

\* cond_.notify_one or notify_all: a queue has one thread that can wait.
Notified(q, pcs) == [pcs EXCEPT ![q] = IF @ = "sleep" THEN "pop" ELSE @]

-----------------------------------------------------------------------------
(***************************************************************************)
(* The source's thread.                                                    *)
(***************************************************************************)

\* Mutant of Find: the iterator is dereferenced without the test against end.
FindNoTest(id) == {id}

\* mPartitions.find: an id without a subquery has no partition.
Find(id) == {id} \cap Partitions

EmitData(id) ==
    /\ spc = "emit"
    /\ emitted < MaxItems
    /\ emitted' = emitted + 1
    /\ elem' = [NoElem EXCEPT !.n = emitted + 1]
    /\ targets' = Find(id)
    /\ spc' = IF Find(id) = {} THEN "emit" ELSE "push"
    /\ UNCHANGED <<last, queue_, flagVars, cpc, tp, spurious, dtorVars,
                   histVars>>

\* A punctuation goes to all partitions, EndOfStream being the last one.
EmitPunctuation(k) ==
    /\ spc = "emit"
    /\ emitted < MaxItems
    /\ emitted' = emitted + 1
    /\ elem' = [NoElem EXCEPT !.kind = k, !.n = emitted + 1]
    /\ targets' = Partitions
    /\ spc' = "push"
    /\ UNCHANGED <<last, queue_, flagVars, cpc, tp, spurious, dtorVars,
                   histVars>>

SourcePush(p) ==
    /\ spc = "push"
    /\ p \in targets
    /\ Push(p, [elem EXCEPT !.via = p])
    /\ sent' = [sent EXCEPT ![p] = Append(@, Kept([elem EXCEPT !.via = p]))]
    /\ targets' = targets \ {p}
    /\ last' = p
    /\ spc' = "notify"
    /\ UNCHANGED <<emitted, elem, flagVars, cpc, tp, spurious, dtorVars, out>>

\* Mutant of SourceNotify: the waiting thread is not notified.
SourceNotifyNobody ==
    /\ spc = "notify"
    /\ spc' = IF targets # {} THEN "push" ELSE "emit"
    /\ UNCHANGED <<emitted, elem, targets, last, queue_, flagVars, cpc, tp,
                   spurious, dtorVars, histVars>>

SourceNotify ==
    /\ spc = "notify"
    /\ cpc' = Notified(last, cpc)
    /\ spc' = CASE targets # {} -> "push"
                [] targets = {} /\ elem.kind = "EndOfStream" -> "ended"
                [] OTHER -> "emit"
    /\ UNCHANGED <<emitted, elem, targets, last, queue_, flagVars, tp,
                   spurious, dtorVars, histVars>>

\* A source may also end without a punctuation.
SourceEnd ==
    /\ spc = "emit"
    /\ spc' = "ended"
    /\ UNCHANGED <<emitted, elem, targets, last, queue_, flagVars, cpc, tp,
                   spurious, dtorVars, histVars>>

-----------------------------------------------------------------------------
(***************************************************************************)
(* The threads of the Queues.                                              *)
(***************************************************************************)

\* Mutant of Check: mInterrupted is read once, before the loop.
CheckOnce(q) ==
    /\ cpc[q] = "check"
    /\ cpc' = [cpc EXCEPT ![q] = "pop"]
    /\ UNCHANGED <<sourceVars, queue_, flagVars, tp, spurious, dtorVars,
                   histVars>>

\* DequeueNotifier's loop condition.
Check(q) ==
    /\ cpc[q] = "check"
    /\ cpc' = [cpc EXCEPT ![q] = IF mInterrupted[q] THEN "ended" ELSE "pop"]
    /\ UNCHANGED <<sourceVars, queue_, flagVars, tp, spurious, dtorVars,
                   histVars>>

\* Mutant of Take: the youngest element is taken.
TakeBack(q) ==
    /\ tp' = [tp EXCEPT ![q] = queue_[q][Len(queue_[q])]]
    /\ queue_' = [queue_ EXCEPT ![q] = SubSeq(@, 1, Len(@) - 1)]

Take(q) ==
    /\ tp' = [tp EXCEPT ![q] = Head(queue_[q])]
    /\ queue_' = [queue_ EXCEPT ![q] = Tail(@)]

\* pop: false for a stopped queue, whatever it holds; otherwise the first
\* element; otherwise the thread goes to sleep, with the mutex still held.
Pop(q) ==
    /\ cpc[q] = "pop"
    /\ \/ /\ stopped_[q]
          /\ cpc' = [cpc EXCEPT ![q] = "check"]
          /\ UNCHANGED <<queue_, tp>>
       \/ /\ ~stopped_[q] /\ queue_[q] # <<>>
          /\ Take(q)
          /\ cpc' = [cpc EXCEPT ![q] = "publish"]
       \/ /\ ~stopped_[q] /\ queue_[q] = <<>>
          /\ cpc' = [cpc EXCEPT ![q] = "block"]
          /\ UNCHANGED <<queue_, tp>>
    /\ UNCHANGED <<sourceVars, flagVars, spurious, dtorVars, histVars>>

\* cond_.wait releases the mutex.
Sleep(q) ==
    /\ cpc[q] = "block"
    /\ cpc' = [cpc EXCEPT ![q] = "sleep"]
    /\ UNCHANGED <<sourceVars, queue_, flagVars, tp, spurious, dtorVars,
                   histVars>>

\* A condition variable may wake up without a notification.
WakeSpuriously(q) ==
    /\ cpc[q] = "sleep"
    /\ spurious < MaxSpurious
    /\ spurious' = spurious + 1
    /\ cpc' = [cpc EXCEPT ![q] = "pop"]
    /\ UNCHANGED <<sourceVars, queue_, flagVars, tp, dtorVars, histVars>>

\* A partition publishes through Merge, which pushes to the last Queue.
MergePush(p) ==
    /\ cpc[p] = "publish"
    /\ Push(Sink, tp[p])
    /\ cpc' = [cpc EXCEPT ![p] = "notify"]
    /\ UNCHANGED <<sourceVars, flagVars, tp, spurious, dtorVars, histVars>>

MergeNotify(p) ==
    /\ cpc[p] = "notify"
    /\ cpc' = Notified(Sink, [cpc EXCEPT ![p] = "check"])
    /\ UNCHANGED <<sourceVars, queue_, flagVars, tp, spurious, dtorVars,
                   histVars>>

\* The last Queue publishes to the rest of the query.
PublishMerged ==
    /\ cpc[Sink] = "publish"
    /\ out' = Append(out, tp[Sink])
    /\ cpc' = [cpc EXCEPT ![Sink] = "check"]
    /\ UNCHANGED <<sourceVars, queue_, flagVars, tp, spurious, dtorVars,
                   sent>>

-----------------------------------------------------------------------------
(***************************************************************************)
(* The destructors, after Topology::wait saw the source end.  The list of  *)
(* operators is destroyed from the front: PartitionBy with its Queues, in  *)
(* the order of its hash table, before Merge and the Queue behind it.      *)
(***************************************************************************)

\* Mutant of MayDie: the operators are destroyed in any order.
MayDieAny(q) == q \notin dead

MayDie(q) == q \notin dead /\ (q = Sink => Partitions \subseteq dead)

Interrupt(q) ==
    /\ spc = "ended"
    /\ dpc = "idle"
    /\ MayDie(q)
    /\ mInterrupted' = [mInterrupted EXCEPT ![q] = TRUE]
    /\ dying' = q
    /\ dpc' = "stop"
    /\ UNCHANGED <<sourceVars, queue_, stopped_, cpc, tp, spurious, dead,
                   histVars>>

\* stop sets the flag without the mutex.
Stop ==
    /\ dpc = "stop"
    /\ stopped_' = [stopped_ EXCEPT ![dying] = TRUE]
    /\ dpc' = "notify"
    /\ UNCHANGED <<sourceVars, queue_, mInterrupted, cpc, tp, spurious, dying,
                   dead, histVars>>

StopNotify ==
    /\ dpc = "notify"
    /\ cpc' = Notified(dying, cpc)
    /\ dpc' = "join"
    /\ UNCHANGED <<sourceVars, queue_, flagVars, tp, spurious, dying, dead,
                   histVars>>

Join ==
    /\ dpc = "join"
    /\ cpc[dying] = "ended"
    /\ dead' = dead \cup {dying}
    /\ dpc' = "idle"
    /\ UNCHANGED <<sourceVars, queue_, flagVars, cpc, tp, spurious, dying,
                   histVars>>

-----------------------------------------------------------------------------
SourceStep ==
    \/ \E p \in Partitions : SourcePush(p)
    \/ SourceNotify

Consume(q) == Check(q) \/ Pop(q) \/ Sleep(q)

Publish ==
    \/ \E p \in Partitions : MergePush(p) \/ MergeNotify(p)
    \/ PublishMerged

Destroy == Stop \/ StopNotify \/ Join

Next ==
    \/ \E id \in Ids : EmitData(id)
    \/ \E k \in PTypes \cup {"EndOfStream"} : EmitPunctuation(k)
    \/ SourceEnd
    \/ SourceStep
    \/ \E q \in Queues : Consume(q) \/ WakeSpuriously(q) \/ Interrupt(q)
    \/ Publish
    \/ Destroy

Spec == Init /\ [][Next]_vars

\* Every thread that can take a step takes it: what the operating system's
\* scheduler guarantees.  A source need not emit, a topology need not be
\* destroyed, and nothing wakes up spuriously by necessity.
FairSpec ==
    /\ Spec
    /\ WF_vars(SourceStep)
    /\ \A q \in Queues : WF_vars(Consume(q))
    /\ \A p \in Partitions : WF_vars(MergePush(p) \/ MergeNotify(p))
    /\ WF_vars(PublishMerged)
    /\ WF_vars(Destroy)

-----------------------------------------------------------------------------
(***************************************************************************)
(* Properties.                                                             *)
(***************************************************************************)

\* Every variable has its type; what the source's thread forwards has a
\* target, and only partitions with a subquery are targets.
TypeOK ==
    /\ spc \in {"emit", "push", "notify", "ended"}
    /\ emitted \in 0 .. MaxItems
    /\ elem \in Elements
    /\ targets \subseteq Partitions
    /\ last \in Queues
    /\ queue_ \in [Queues -> Seq(Elements)]
    /\ stopped_ \in [Queues -> BOOLEAN] /\ mInterrupted \in [Queues -> BOOLEAN]
    /\ cpc \in [Queues -> {"check", "pop", "block", "sleep", "publish",
                           "notify", "ended"}]
    /\ tp \in [Queues -> Elements]
    /\ spurious \in 0 .. MaxSpurious
    /\ dpc \in {"idle", "stop", "notify", "join"}
    /\ dying \in Queues /\ dead \subseteq Queues
    /\ sent \in [Partitions -> Seq(Elements)]
    /\ out \in Seq(Elements)

\* The elements of s that went through partition p, in their order.
Via(s, p) ==
    LET f[n \in 0 .. Len(s)] ==
            IF n = 0 THEN <<>>
            ELSE IF s[n].via = p THEN Append(f[n - 1], s[n]) ELSE f[n - 1]
    IN  f[Len(s)]

\* The element that the thread of q has popped and not published yet, and
\* all that has come out of Merge.
Held(q) == IF cpc[q] = "publish" THEN <<tp[q]>> ELSE <<>>
Merged == out \o Held(Sink) \o queue_[Sink]

\* Nothing is lost, doubled or overtaken on the way from PartitionBy through
\* two Queues and Merge, although the partitions run in threads of their own:
\* what was pushed to a partition is, in this order, what was published at
\* the end, what the last Queue holds, and what the partition's Queue holds.
\* In particular a punctuation stays behind the data it follows, and what a
\* stopped queue does not deliver is a tail of the stream (pop, push and
\* dequeueTuple in Queue.hpp).
PartitionOrder ==
    \A p \in Partitions :
        sent[p] = Via(Merged, p) \o Held(p) \o queue_[p]

\* No thread still runs in, or pushes to, a Queue that has been destroyed:
\* the joins in ~DequeueNotifier and the order of the operators in the
\* dataflow see to it, while stopping discards whatever is still queued.
NoCallIntoDestroyed ==
    \A q \in dead :
        /\ cpc[q] = "ended"
        /\ q = Sink => \A p \in Partitions : cpc[p] = "ended"

Delivered == \A p \in Partitions : Len(Via(out, p)) = Len(sent[p])
Destroyed == dpc # "idle" \/ dead # {}

\* Once a finite stream pauses, all that was pushed to the partitions is
\* published behind Merge, unless the topology is destroyed before: no wakeup
\* of a consumer is lost between the test of its queue and its sleep (push
\* and pop in Queue.hpp).
AllDelivered == ~Delivered ~> Delivered \/ Destroyed

\* The destructor of a Queue returns, unless its thread sleeps: a thread
\* that is awake after stop finds the flags, whatever its queue still holds,
\* and ends.  (A thread that has tested the wait's condition when stop sets
\* the flag, and sleeps only after stop's notification, is not woken again:
\* stop does not take the mutex, Queue.hpp:82.)
OnlySleepersOutliveStop ==
    dpc = "stop" ~> \/ dpc = "idle"
                    \/ dpc = "join" /\ cpc[dying] = "sleep"

\* Every partition sends its own EndOfStream through Merge, and data of a
\* slower partition may follow the first one; but behind Merge no data comes
\* after the EndOfStream of the last partition (punctuationCallback and
\* processDataElement of PartitionBy and Merge).
NothingAfterLastEnd ==
    \A i, j \in DOMAIN out :
        /\ i < j
        /\ Cardinality({n \in 1 .. i : out[n].kind = "EndOfStream"}) = Cardinality(Partitions)
        => out[j].kind # "data"

\* A partitioned stream behind Merge: each partition's elements in their order, none
\* lost or doubled, and no data behind the last EndOfStream (PartitionBy, Queue, Merge).
MergedInOrder == PartitionOrder /\ NothingAfterLastEnd
=============================================================================
