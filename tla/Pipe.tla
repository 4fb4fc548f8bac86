-------------------------------- MODULE Pipe --------------------------------
(***************************************************************************)
(* Building a dataflow: Topology creates pipes from sources, every method  *)
(* of Pipe adds an operator, or one per partition, and returns a new pipe. *)
(* A program may keep any of its pipes and call several methods on it.     *)
(* What the operators do with the stream is not modelled here, only how    *)
(* they are connected; of an operator's class there remain its opName(),   *)
(* as far as the code looks at it, and the type of its stream.             *)
(***************************************************************************)
EXTENDS Channels

CONSTANTS
    NumPartitions, \* the numbers of partitions a program asks for
    Extractors,    \* the sets of extractors a program assigns together
    Types,         \* stream types, with "string", "buf" and "batch"
    MaxOps         \* bound: operators

VARIABLES
    ops,         \* every operator ever created: [name, type]
    publishers,  \* Dataflow::publishers, numbers of operators
    sinks,       \* Dataflow::sinks
    net,         \* the channels
    mPartitions, \* of all PartitionBy: set of [part, id, queue]
    pipes,
    outcome,     \* of the last call
    want,        \* the links the program's text asks for
    orderly      \* the program keeps to the rules of Orderly

pipeVars == <<ops, publishers, sinks, net, mPartitions, pipes, outcome, want, orderly>>

Op(name, type) == [name |-> name, type |-> type]

Init_Pipe ==
    /\ ops = <<>> /\ publishers = <<>> /\ sinks = {} /\ net = EmptyNet
    /\ mPartitions = {} /\ pipes = <<>> /\ outcome = "ok"
    /\ want = {} /\ orderly = TRUE

Running == outcome # "assert"
Room(n) == Len(ops) + n <= MaxOps

\* Pipe's constructors and its copy of the extractors.  out is what the pipe
\* stands for, in the words of the program: the stream of its operator, or of
\* each of its partitions.
PipeOf(st, n, tail, type, has, out) ==
    [partitioningState |-> st, numPartitions |-> n, tailIter |-> tail, type |-> type,
     has |-> has, out |-> out, split |-> FALSE]
Stream(o) == <<o, 0>>
Partition(o, i) == <<o, i>>

Partitioned(p) == p.partitioningState # "NoPartitioning"
Width(p) == IF Partitioned(p) THEN p.numPartitions ELSE 1

-----------------------------------------------------------------------------
(* Creating and connecting operators.                                      *)

NewOps(n, op) ==
    [ops |-> ops \o [i \in 1 .. n |-> op],
     net |-> FoldLeft(LAMBDA x, i : CreateChannels(x), net, [i \in 1 .. n |-> i]),
     parts |-> mPartitions]

\* castOperator to DataSource and to PartitionBy.
CastSource(pos, type) == ops[publishers[pos]].type = type
CastPartition(pos, type) == ops[publishers[pos]] = Op("PartitionBy", type)

\* A link that a method makes.  ok: the casts before it succeed.
Link(pos, type, to, port) ==
    [from |-> publishers[pos], id |-> 0, to |-> to, port |-> port, ok |-> CastSource(pos, type)]
PartitionLink(pos, type, id, to, port) ==
    [from |-> publishers[pos], id |-> id, to |-> to, port |-> port, ok |-> CastPartition(pos, type)]

\* connectChannelsForPartition: a queue before the operator.  The table keeps
\* the queue an id has already; the new one is then destroyed.
\* Mutant of connectChannelsForPartition: all partitions share one queue.
connectChannelsForPartition0(b, part, id, to, port) ==
    LET n == CreateChannels(b.net)
        q == Newest(n)
    IN [b EXCEPT !.ops = Append(@, Op("BaseOp", ops[part].type)),
                 !.net = connectChannels(n, q, to, port),
                 !.parts = @ \cup {[part |-> part, id |-> 1, queue |-> q]}]
connectChannelsForPartition(b, part, id, to, port) ==
    LET n == CreateChannels(b.net)
        q == Newest(n)
        c == connectChannels(n, q, to, port)
        known == \E e \in b.parts : e.part = part /\ e.id = id
    IN [ops |-> Append(b.ops, Op("BaseOp", ops[part].type)),
        net |-> IF known THEN DestroyChannels(q, c) ELSE c,
        parts |-> IF known THEN b.parts
                  ELSE b.parts \cup {[part |-> part, id |-> id, queue |-> q]}]

MakeLink(b, l) ==
    IF l.id = 0 THEN [b EXCEPT !.net = connectChannels(@, l.from, l.to, l.port)]
    ELSE connectChannelsForPartition(b, l.from, l.id, l.to, l.port)

\* The links are made one after the other until a cast fails; the exception
\* then destroys the new operators.
Good(links) == \A i \in DOMAIN links : links[i].ok
Made(b, links) ==
    FoldLeft(MakeLink, b, SubSeq(links, 1, Max({n \in 0 .. Len(links) : Good(SubSeq(links, 1, n))})))
Undone(b, new) == [b EXCEPT !.net = FoldSet(DestroyChannels, @, new)]

New(n) == Len(ops) + 1 .. Len(ops) + n

\* A call that creates n operators, links them and publishes them; its pipe
\* has the given state and stands for the given streams.
Build(i, n, op, links, st, parts, type, asked) ==
    LET b == Made(NewOps(n, op), links)
        good == Good(links)
        r == IF good THEN b ELSE Undone(b, New(n))
        p == pipes[i]
    IN /\ Room(IF links # <<>> /\ links[1].id # 0 THEN 2 * n ELSE n)
       /\ ops' = r.ops /\ net' = r.net /\ mPartitions' = r.parts
       /\ outcome' = IF good THEN "ok" ELSE "TopologyException"
       /\ publishers' = IF good THEN publishers \o SetToSortSeq(New(n), <) ELSE publishers
       /\ want' = IF good THEN want \cup asked ELSE want
       /\ pipes' = IF ~good THEN pipes
                   ELSE Append([pipes EXCEPT ![i].split = @ \/ p.partitioningState = "FirstInPartitioning",
                                             ![i].partitioningState =
                                   IF @ = "FirstInPartitioning" THEN "NextInPartitioning" ELSE @],
                               PipeOf(st, parts, Len(publishers) + 1, type, p.has,
                                      [k \in 1 .. n |-> Stream(Len(ops) + k)]))
       /\ UNCHANGED sinks

Throw(what) ==
    /\ outcome' = what
    /\ UNCHANGED <<ops, publishers, sinks, net, mPartitions, pipes, want, orderly>>

\* A source, which Topology creates, and the extractors the program assigns.
AddSource(type, has) ==
    /\ Running /\ Room(1)
    /\ ops' = Append(ops, Op("named", type)) /\ net' = CreateChannels(net)
    /\ publishers' = Append(publishers, Len(ops) + 1)
    /\ pipes' = Append(pipes, PipeOf("NoPartitioning", 0, Len(publishers) + 1, type, has,
                                    <<Stream(Len(ops) + 1)>>))
    /\ outcome' = "ok"
    /\ UNCHANGED <<sinks, mPartitions, want, orderly>>

-----------------------------------------------------------------------------
(* Operators with one input.                                               *)

Method(name, in, out, needs) == [name |-> name, in |-> in, out |-> out, needs |-> needs]

slidingWindow(wt) == Method("BaseOp", "same", "same", IF wt = "Range" THEN {"ts"} ELSE {})
tumblingWindow(wt) == Method("BaseOp", "same", "same", IF wt = "Range" THEN {"ts"} ELSE {})
extract == Method("named", "string", "tuple", {})
extractJson == Method("BaseOp", "string", "tuple", {})
batch == Method("named", "same", "batch", {})
unbatch == Method("named", "batch", "tuple", {})
deserialize == Method("BaseOp", "buf", "tuple", {})
where == Method("named", "same", "same", {})
notify == Method("named", "same", "same", {})
queue == Method("BaseOp", "same", "same", {})
map == Method("named", "same", "tuple", {})
tuplify == Method("BaseOp", "same", "tuple", {})
statefulMap == Method("named", "same", "tuple", {})
aggregate == Method("named", "same", "tuple", {})
aggregateInto(state) == aggregate                   \* with the program's state
groupBy == Method("BaseOp", "same", "tuple", {"key"})
groupByFactory(factory) == groupBy                  \* with the program's factory
barrier == Method("named", "same", "same", {})

UnaryMethods ==
    {slidingWindow("Row"), slidingWindow("Range"), tumblingWindow("Row"), tumblingWindow("Range"),
     extract, extractJson, batch, unbatch, deserialize, where, notify, queue, map, tuplify,
     statefulMap, aggregate, aggregateInto("state"), groupBy, groupByFactory("factory"), barrier}

TypeIn(p, m) == IF m.in = "same" THEN p.type ELSE m.in
TypeOut(p, m) == IF m.out = "same" THEN p.type ELSE m.out

\* addPublisher, and addPartitionedPublisher for the first operator after
\* partitionBy and for the next ones.
addPublisher(p, type) == <<Link(p.tailIter, type, Len(ops) + 1, "in")>>
addPartitionedPublisher(p, type) ==
    LET n == Min({p.numPartitions, Len(publishers) - p.tailIter + 1})
    IN IF p.partitioningState = "FirstInPartitioning"
       THEN [k \in 1 .. p.numPartitions |->
                PartitionLink(p.tailIter, type, k, Len(ops) + k, "in")]
       ELSE [k \in 1 .. n |-> Link(p.tailIter + k - 1, type, Len(ops) + k, "in")]

Asked(p, port) == {[from |-> p.out[k], to |-> Len(ops) + k, port |-> port] : k \in DOMAIN p.out}

\* A pipe that was partitioned and has its first operator must not be used
\* again: it takes the partitioning operator for the first of the partitions,
\* and a copy of it gives the partitions away once more.
Fresh(p) ==
    /\ ~p.split
    /\ p.partitioningState = "FirstInPartitioning" =>
          \A e \in mPartitions : e.part # publishers[p.tailIter]
Unary(i, m) ==
    LET p == pipes[i]
    IN /\ Running
       /\ TypeIn(p, m) = p.type  \* else it does not compile
       /\ IF ~(m.needs \subseteq p.has) THEN Throw("TopologyException")
          ELSE /\ Build(i, Width(p), Op(m.name, TypeOut(p, m)),
                        IF Partitioned(p) THEN addPartitionedPublisher(p, TypeIn(p, m))
                        ELSE addPublisher(p, TypeIn(p, m)),
                        IF Partitioned(p) THEN "NextInPartitioning" ELSE "NoPartitioning",
                        p.numPartitions, TypeOut(p, m), Asked(p, "in"))
               /\ orderly' = (orderly /\ Fresh(p))

\* Methods that look at the partitioning only in an assertion ...
toTable == Method("named", "same", "same", {"key"})
toTxTable == Method("named", "same", "same", {"key", "tx"})
updateTable == Method("named", "same", "same", {"key"})
matcher == Method("BaseOp", "same", "tuple", {})
AssertingMethods == {toTable, toTxTable, updateTable, matcher}
\* ... and methods that do not look at it.
matchByNFA == Method("BaseOp", "same", "tuple", {})
toMatrix == Method("named", "same", "same", {})
matrix_slice == Method("named", "same", "same", {})
matrix_merge == Method("named", "same", "same", {})
BlindMethods == {matchByNFA, toMatrix, matrix_slice, matrix_merge}

Single(i, m, asserts) ==
    LET p == pipes[i]
    IN /\ Running
       /\ CASE asserts /\ Partitioned(p) -> Throw("assert")
            [] ~(m.needs \subseteq p.has) /\ ~(asserts /\ Partitioned(p)) -> Throw("TopologyException")
            [] OTHER -> /\ Build(i, 1, Op(m.name, TypeOut(p, m)), addPublisher(p, p.type),
                                 p.partitioningState, p.numPartitions, TypeOut(p, m), Asked(p, "in"))
                        /\ orderly' = (orderly /\ ~Partitioned(p))

\* keyBy, assignTimestamps and assignTransactionID return a copy of the pipe
\* with the extractor; a program calls some of them in a chain, and keeps the
\* old pipe or only the copy.
keyBy == {"key"}
assignTimestamps == {"ts"}
assignTransactionID == {"tx"}
ASSUME ExtractorsAssumption ==
    Extractors \subseteq SUBSET (keyBy \cup assignTimestamps \cup assignTransactionID)

Assign(i, what, keep) ==
    LET p == [pipes[i] EXCEPT !.has = @ \cup what]
    IN /\ Running /\ ~(what \subseteq pipes[i].has)
       /\ pipes' = IF keep THEN Append(pipes, p) ELSE [pipes EXCEPT ![i] = p]
       /\ outcome' = "ok"
       /\ UNCHANGED <<ops, publishers, sinks, net, mPartitions, want, orderly>>

-----------------------------------------------------------------------------
(* Sinks.                                                                  *)

\* print and saveToFile: a sink is kept apart from the publishers.
addSink(i) ==
    LET p == pipes[i]
        b == Made(NewOps(1, Op("named", p.type)), addPublisher(p, p.type))
    IN /\ Running
       /\ IF Partitioned(p) THEN Throw("assert")
          ELSE /\ Room(1)
               /\ ops' = b.ops /\ net' = b.net /\ sinks' = sinks \cup {Len(ops) + 1}
               /\ want' = want \cup Asked(p, "in")
               /\ outcome' = "ok"
               /\ UNCHANGED <<publishers, mPartitions, pipes, orderly>>
print(i) == addSink(i)
saveToFile(i) == addSink(i)

\* toStream: the queue of a named stream, which Topology::fromStream makes a
\* publisher, gets one more publisher of its own.
toStream(i, s) ==
    LET p == pipes[i]
    IN /\ Running /\ s \in net.alive /\ p.type = ops[s].type
       /\ IF Partitioned(p) THEN Throw("assert")
          ELSE /\ net' = connectChannels(net, publishers[p.tailIter], s, "in")
               /\ want' = want \cup {[from |-> p.out[1], to |-> s, port |-> "in"]}
               /\ Len(net.mSlots[publishers[p.tailIter]]) < MaxOps
               /\ [from |-> p.out[1], to |-> s, port |-> "in"] \notin want
               /\ outcome' = "ok"
               /\ UNCHANGED <<ops, publishers, sinks, mPartitions, pipes, orderly>>

-----------------------------------------------------------------------------
(* Partitioning.                                                           *)

partitionBy(i, n) ==
    LET p == pipes[i]
        b == Made(NewOps(1, Op("PartitionBy", p.type)), addPublisher(p, p.type))
        o == Len(ops) + 1
    IN /\ Running
       /\ IF Partitioned(p) THEN Throw("TopologyException")
          ELSE /\ Room(1)
               /\ ops' = b.ops /\ net' = b.net /\ publishers' = Append(publishers, o)
               /\ want' = want \cup Asked(p, "in")
               /\ outcome' = "ok"
               /\ pipes' = Append(pipes, PipeOf("FirstInPartitioning", n, Len(publishers) + 1, p.type,
                                                p.has, [k \in 1 .. n |-> Partition(o, k)]))
               /\ UNCHANGED <<sinks, mPartitions, orderly>>

\* merge takes every publisher from the pipe's first one to the end of the
\* list, so the partitions have to be the last operators that were added.
\* The Merge operator is followed by a queue.
Merged(p) ==
    [k \in 1 .. Len(publishers) - p.tailIter + 1 |->
        Link(p.tailIter + k - 1, p.type, Len(ops) + 1, "in")]

merge(i) ==
    LET p == pipes[i]
        o == Len(ops) + 1
        b == Made(NewOps(1, Op("named", p.type)), Merged(p))
        n == CreateChannels(b.net)
    IN /\ Running
       /\ CASE p.partitioningState # "NextInPartitioning" -> Throw("TopologyException")
            [] p.partitioningState = "NextInPartitioning" /\ ~Good(Merged(p)) ->
                 /\ Room(1)
                 /\ ops' = b.ops /\ net' = DestroyChannels(o, b.net)
                 /\ outcome' = "TopologyException"
                 /\ UNCHANGED <<publishers, sinks, mPartitions, pipes, want, orderly>>
            [] p.partitioningState = "NextInPartitioning" /\ Good(Merged(p)) ->
                 /\ Room(2)
                 /\ ops' = b.ops \o <<Op("BaseOp", p.type)>>
                 /\ net' = connectChannels(n, o, o + 1, "in")
                 /\ publishers' = publishers \o <<o, o + 1>>
                 /\ pipes' = Append(pipes, PipeOf("NoPartitioning", 0, Len(publishers) + 2, p.type,
                                                  p.has, <<Stream(o + 1)>>))
                 /\ want' = want \cup {[from |-> p.out[k], to |-> o, port |-> "in"] : k \in DOMAIN p.out}
                                 \cup {[from |-> Stream(o), to |-> o + 1, port |-> "in"]}
                 /\ outcome' = "ok"
                 /\ orderly' = (orderly /\ ~p.split
                                /\ p.tailIter + Len(p.out) - 1 = Len(publishers))
                 /\ UNCHANGED <<sinks, mPartitions>>

-----------------------------------------------------------------------------
(* Joins.                                                                  *)

\* addJoin, the links of the k-th join operator to the other pipe: its only
\* stream, its partition of the same number, or the next publisher.
JoinRight(p, q, k) ==
    CASE ~Partitioned(q) -> <<Link(q.tailIter, q.type, Len(ops) + k, "right")>>
      [] Partitioned(q) /\ ops[publishers[q.tailIter]].name = "PartitionBy" ->
            <<PartitionLink(q.tailIter, q.type, k, Len(ops) + k, "right")>>
      [] OTHER -> IF q.tailIter + k - 1 <= Len(publishers)
                  THEN <<Link(q.tailIter + k - 1, q.type, Len(ops) + k, "right")>> ELSE <<>>
JoinLeft(p, k) ==
    IF p.partitioningState = "FirstInPartitioning"
    THEN <<PartitionLink(p.tailIter, p.type, k, Len(ops) + k, "left")>>
    ELSE IF p.tailIter + k - 1 <= Len(publishers)
         THEN <<Link(p.tailIter + k - 1, p.type, Len(ops) + k, "left")>> ELSE <<>>

\* A stream that is not partitioned is joined with all partitions of the
\* other, except those of operators without an opName of their own.
JoinAll(q) ==
    IF ops[publishers[q.tailIter]].name = "PartitionBy"
    THEN [k \in 1 .. q.numPartitions |-> PartitionLink(q.tailIter, q.type, k, Len(ops) + 1, "right")]
    ELSE LET rest == [k \in 1 .. Len(publishers) - q.tailIter + 1 |-> q.tailIter + k - 1]
             good == SelectSeq(rest, LAMBDA pos : ops[publishers[pos]].name # "BaseOp"
                                                   \/ ~CastSource(pos, q.type))
         IN [k \in DOMAIN good |-> Link(good[k], q.type, Len(ops) + 1, "right")]

JoinLinks(p, q) ==
    IF ~Partitioned(p) /\ Partitioned(q) THEN JoinLeft(p, 1) \o JoinAll(q)
    ELSE FlattenSeq([k \in 1 .. Width(p) |-> JoinLeft(p, k) \o JoinRight(p, q, k)])

JoinAsked(p, q) ==
    Asked(p, "left") \cup
    IF ~Partitioned(p) THEN {[from |-> q.out[k], to |-> Len(ops) + 1, port |-> "right"] : k \in DOMAIN q.out}
    ELSE {[from |-> q.out[IF k \in DOMAIN q.out THEN k ELSE 1], to |-> Len(ops) + k, port |-> "right"]
             : k \in 1 .. Width(p)}

\* The rules under which the positions in the list are the pipe's streams.
JoinOrderly(p, q) ==
    /\ Fresh(p) /\ Fresh(q)
    /\ Partitioned(p) /\ Partitioned(q) =>
          p.numPartitions = q.numPartitions /\ p.tailIter # q.tailIter
    /\ (~Partitioned(p) /\ q.partitioningState = "NextInPartitioning") =>
          /\ q.tailIter + Len(q.out) - 1 = Len(publishers)
          /\ \A k \in DOMAIN q.out : ops[q.out[k][1]].name # "BaseOp"
\* The other pipe keeps its state: its partitions have been given away.
join(i, j) ==
    LET p == pipes[i]
        q == pipes[j]
    IN /\ Running /\ i # j
       /\ Partitioned(q) => Room(2 * (Width(p) + Width(q)))
       /\ IF ~("key" \in p.has /\ "key" \in q.has) THEN Throw("TopologyException")
          ELSE /\ Build(i, Width(p), Op("named", "tuple"), JoinLinks(p, q),
                        IF Partitioned(p) THEN "NextInPartitioning" ELSE "NoPartitioning",
                        p.numPartitions, "tuple", JoinAsked(p, q))
               /\ orderly' = (orderly /\ JoinOrderly(p, q))

\* scaleJoin: n queues for the left stream, n joins, and one queue for the
\* results; the right stream is connected to the joins directly.
scaleJoin(i, j, n) ==
    LET p == pipes[i]
        q == pipes[j]
        o == Len(ops)
        qu(k) == o + 1 + k
        sc(k) == o + 1 + n + k
        b == NewOps(2 * n + 1, Op("BaseOp", "tuple"))
        left == publishers[p.tailIter]
        right == publishers[q.tailIter]
        links == FlattenSeq([k \in 1 .. n |-> <<[f |-> left, t |-> qu(k), p |-> "in"], [f |-> qu(k), t |-> sc(k), p |-> "left"],
                                   [f |-> right, t |-> sc(k), p |-> "right"], [f |-> sc(k), t |-> o + 1, p |-> "in"]>>])
    IN /\ Running /\ i # j
       /\ CASE ~("key" \in p.has /\ "key" \in q.has) -> Throw("TopologyException")
            [] ("key" \in p.has /\ "key" \in q.has) /\ (Partitioned(p) \/ Partitioned(q)) -> Throw("assert")
            [] OTHER ->
                 /\ Room(2 * n + 1)
                 /\ ops' = b.ops
                 /\ net' = FoldLeft(LAMBDA x, l : connectChannels(x, l.f, l.t, l.p), b.net, links)
                 /\ publishers' = publishers \o [k \in 1 .. n |-> qu(k)] \o [k \in 1 .. n |-> sc(k)] \o <<o + 1>>
                 /\ want' = want \cup {[from |-> Stream(links[k].f), to |-> links[k].t, port |-> links[k].p]
                                          : k \in DOMAIN links}
                 /\ pipes' = Append(pipes, PipeOf("NoPartitioning", 0, Len(publishers) + 2 * n + 1,
                                                  "tuple", p.has, <<Stream(o + 1)>>))
                 /\ outcome' = "ok"
                 /\ UNCHANGED <<sinks, mPartitions, orderly>>

-----------------------------------------------------------------------------
(* What the program gets.                                                  *)

\* The streams that reach an input, with the queues of PartitionBy left out.
Hidden == {e.queue : e \in mPartitions}
Feeds(o, port) ==
    LET sends(f) == \E k \in DOMAIN net.mSlots[f] :
                        net.mSlots[f][k].to = o /\ net.mSlots[f][k].port = port
    IN {Stream(f) : f \in {x \in net.alive \ Hidden : sends(x)}}
       \cup {Partition(e.part, e.id) : e \in {x \in mPartitions : sends(x.queue)}}

\* A program that uses a partitioned pipe once, ends the partitions before it
\* adds other streams, and joins streams with the same number of partitions,
\* gets the links it asked for: every operator, in every partition, receives
\* exactly the streams of its pipe.
WiredAsWritten ==
    orderly => \A o \in net.alive \ Hidden, port \in {"in", "left", "right"} :
        Feeds(o, port) = {l.from : l \in {x \in want : x.to = o /\ x.port = port}}

\* After every call, one that threw an exception included, no signal calls a
\* destroyed operator, and both ends of a connection know it.
SlotsLead == NetConsistent(net)
=============================================================================
