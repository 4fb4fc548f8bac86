------------------------------ MODULE Topology ------------------------------
(***************************************************************************)
(* A topology: the dataflow under construction (module Pipe), the sources  *)
(* with the functions that start them, and the life of the topology from   *)
(* start over wait to its destruction.  The program's main thread calls    *)
(* the methods; start functions run in threads of their own (std::async),  *)
(* in the thread of runEvery, or in the main thread.                       *)
(***************************************************************************)
EXTENDS Pipe

CONSTANTS
    Programs,     \* the kinds of sources of each program that is started
    Streams,      \* names of streams
    MaxCalls,     \* bound: calls that build the dataflow
    MaxMessages,  \* bound: messages, lines or tuples of a source
    MaxStarts,    \* bound: calls of start and rounds of runEvery
    MaxErrors,    \* bound: polls of a Kafka source that return an error
    MaxCrashes    \* bound: crashes of the program

Finite == {"file", "memory", "generator", "select"}
Brokers == {"rest", "rabbitmq", "kafka", "mqtt", "zmq"}

ASSUME ProgramsAssumption == Programs \subseteq Seq(Finite \cup Brokers)
ASSUME MessagesAssumption == MaxMessages \in Nat

VARIABLES
    plan,            \* the program: one of Programs, or <<>>, one that is only built
    mStreamSet,      \* PFabricContext: the queue of a named stream, 0 if there is none
    sources,         \* the sources in the order of their creation
    asyncStarted, startupFutures,
    runs,            \* start functions that were called: [src, by, pc, n], n steps taken
    main,            \* what the main thread is doing
    timer,           \* the thread of runEvery
    starts, crashes, \* counters of the bounds
    calls,           \* counter of the bound MaxCalls
    careful          \* the program waited between its calls

lifeVars == <<sources, asyncStarted, startupFutures, runs, main, timer, starts, crashes, careful>>
vars == <<plan, calls, pipeVars, mStreamSet, lifeVars>>

Threads == {"created", "running", "receiving"}   \* the thread of a ZMQ source is there
EOS == 0      \* the EndOfStream punctuation among the published elements
Nobody == 0

Publish(s, e) == [s EXCEPT !.produced = Append(@, e)]
Take(s) == [s EXCEPT !.queue = Tail(@)]
\* The code reads a message and does not look at it.
Ignore(s) == [Take(s) EXCEPT !.discarded = @ \cup {Head(s.queue)}]

TypeOfSource(kind) ==
    IF kind \in {"file"} \cup Brokers THEN "string" ELSE "tuple"

-----------------------------------------------------------------------------
(* Creating sources.                                                       *)

\* queue: the lines of the file, the tuples to generate, or the messages that
\* the broker or the client keeps for the source; data: MemorySource's; from:
\* the messages up to it are not the source's, seen: those that had arrived when
\* an MQTT client was found empty or lost its connection; located: Kafka knows
\* the position in the topic; zmq: the thread that reads the socket.
NewSource(kind, op, n, from) ==
    [kind |-> kind, op |-> op, queue |-> [i \in 1 .. n - from |-> from + i], data |-> <<>>, produced |-> <<>>,
     sent |-> n, from |-> from, seen |-> from, committed |-> 0, located |-> FALSE, errors |-> 0,
     discarded |-> {}, alive |-> TRUE, connected |-> TRUE, mInterrupted |-> TRUE,
     zmq |-> IF kind = "zmq" THEN "created" ELSE "none"]

\* A consumer of Kafka begins behind the last offset its group has committed;
\* without one at the end, as auto.offset.reset is not set: once it is located.
Subscribed(s) ==
    IF s.committed = 0 THEN [s EXCEPT !.queue = <<>>, !.from = s.sent, !.located = FALSE]
    ELSE [s EXCEPT !.queue = [i \in 1 .. s.sent - s.committed |-> s.committed + i], !.located = TRUE]

\* The source after its constructor when n messages have been sent: a ZMQ
\* subscriber and an MQTT client with a clean session get none of them, and the
\* group of a Kafka consumer may have committed some of them.
Constructed(kind, op, n) ==
    CASE kind = "mqtt" -> {NewSource(kind, op, n, n)}
      [] kind = "zmq" -> {NewSource(kind, op, n, from) : from \in {0, n}}
      [] kind = "kafka" -> {Subscribed([NewSource(kind, op, n, c) EXCEPT !.committed = c]) : c \in 0 .. n}
      [] OTHER -> {NewSource(kind, op, n, 0)}

newStreamFrom(kind) ==
    /\ IF plan = <<>> THEN kind = "file"
       ELSE Len(sources) < Len(plan) /\ kind = plan[Len(sources) + 1]
    /\ AddSource(TypeOfSource(kind), {})
    /\ \E n \in IF plan = <<>> THEN {0} ELSE 0 .. MaxMessages :
          \E s \in Constructed(kind, Len(ops) + 1, n) : sources' = Append(sources, s)
    /\ main' = IF kind = "kafka" THEN [call |-> "polling", at |-> Len(sources) + 1] ELSE main
    /\ UNCHANGED <<mStreamSet, asyncStarted, startupFutures, runs, timer, starts, crashes, careful>>

newStreamFromFile == newStreamFrom("file")
newStreamFromREST == newStreamFrom("rest")
newStreamFromRabbitMQ == newStreamFrom("rabbitmq")
newStreamFromKafka == newStreamFrom("kafka")
newStreamFromMQTT == newStreamFrom("mqtt")
newAsciiStreamFromZMQ == newStreamFrom("zmq")
selectFromTable == newStreamFrom("select")
streamFromGenerator == newStreamFrom("generator")
newStreamFromMemory == newStreamFrom("memory")
SourceMethods ==
    \/ newStreamFromFile \/ newStreamFromREST \/ newStreamFromRabbitMQ \/ newStreamFromKafka
    \/ newStreamFromMQTT \/ newAsciiStreamFromZMQ \/ selectFromTable \/ streamFromGenerator
    \/ newStreamFromMemory

\* The constructor of KafkaSource polls once: the consumer may be located
\* before the poll ends, and what it returns, if anything, is not looked at.
constructorPoll ==
    /\ main.call = "polling"
    /\ LET i == main.at
           s == sources[i]
           returned == main' = [call |-> "free", at |-> 0]
       IN \/ returned /\ UNCHANGED sources
          \/ ~s.located /\ sources' = [sources EXCEPT ![i] = [s EXCEPT !.located = TRUE]] /\ UNCHANGED main
          \/ /\ s.queue # <<>> /\ returned
             /\ sources' = [sources EXCEPT ![i] = Ignore(s)]
    /\ UNCHANGED <<pipeVars, mStreamSet, asyncStarted, startupFutures, runs, timer, starts, crashes, careful>>

\* A pipe that monitors a table or reads a matrix has no start function.
newStreamFromTable == (\E has \in {{}} \cup Extractors : AddSource("tuple", has)) /\ UNCHANGED <<mStreamSet, lifeVars>>
newStreamFromMatrix == AddSource("tuple", {}) /\ UNCHANGED <<mStreamSet, lifeVars>>

\* PFabricContext::createStream replaces a stream of that name.
createStream(name) ==
    /\ Running /\ Len(ops) < MaxOps
    /\ ops' = Append(ops, Op("BaseOp", "tuple")) /\ net' = CreateChannels(net)
    /\ mStreamSet' = [mStreamSet EXCEPT ![name] = Len(ops) + 1]
    /\ outcome' = "ok"
    /\ UNCHANGED <<publishers, sinks, mPartitions, pipes, want, orderly, lifeVars>>

fromStream(name, type) ==
    /\ Running /\ mStreamSet[name] # Nobody
    /\ IF ops[mStreamSet[name]].type # type THEN Throw("TopologyException")
       ELSE /\ publishers' = Append(publishers, mStreamSet[name])
            /\ pipes' = Append(pipes, PipeOf("NoPartitioning", 0, Len(publishers) + 1, type, {},
                                             <<Stream(mStreamSet[name])>>))
            /\ outcome' = "ok"
            /\ UNCHANGED <<ops, sinks, net, mPartitions, want, orderly>>
    /\ UNCHANGED <<mStreamSet, lifeVars>>

Building ==
    \/ SourceMethods
    \/ newStreamFromTable \/ newStreamFromMatrix
    \/ \E n \in Streams : createStream(n) \/ (\E t \in Types : fromStream(n, t))
    \/ /\ \E i \in DOMAIN pipes :
             \/ \E m \in UnaryMethods : Unary(i, m)
             \/ \E m \in AssertingMethods : Single(i, m, TRUE)
             \/ \E m \in BlindMethods : Single(i, m, FALSE)
             \/ \E a \in Extractors, keep \in BOOLEAN : Assign(i, a, keep)
             \/ print(i) \/ saveToFile(i)
             \/ \E n \in Streams : mStreamSet[n] # Nobody /\ toStream(i, mStreamSet[n])
             \/ \E n \in NumPartitions : partitionBy(i, n)
             \/ merge(i)
             \/ \E j \in DOMAIN pipes : join(i, j)
             \/ \E j \in DOMAIN pipes, n \in NumPartitions : scaleJoin(i, j, n)
       /\ UNCHANGED <<mStreamSet, lifeVars>>

-----------------------------------------------------------------------------
(* Starting and waiting.                                                   *)

Startable == plan # <<>> /\ Len(sources) = Len(plan) /\ Running
Free == main.call = "free" /\ Startable

Active(r) == r.pc # "done"
NewRun(i, by) == [src |-> i, by |-> by, pc |-> "start", n |-> 0]
Busy == \E r \in Range(runs) : Active(r)
\* The calls of start functions by this caller have returned.
Returned(by) == \A r \in Range(runs) : r.by = by => ~Active(r)

\* startAsync: one thread per start function, all futures are kept.
startAsync ==
    /\ Free /\ starts < MaxStarts
    /\ runs' = runs \o [i \in DOMAIN sources |-> NewRun(i, "future")]
    /\ startupFutures' = startupFutures \o
           [i \in DOMAIN sources |-> [run |-> Len(runs) + i, valid |-> TRUE]]
    /\ asyncStarted' = TRUE /\ starts' = starts + 1
    /\ careful' = (careful /\ ~Busy /\ timer = "none")
    /\ UNCHANGED <<pipeVars, mStreamSet, sources, main, timer, crashes>>

\* start(false): one function after the other.
start ==
    /\ Free /\ starts < MaxStarts
    /\ main' = [call |-> "start", at |-> 1] /\ starts' = starts + 1
    /\ runs' = Append(runs, NewRun(1, "main"))
    /\ careful' = (careful /\ ~Busy /\ timer = "none")
    /\ UNCHANGED <<pipeVars, mStreamSet, sources, asyncStarted, startupFutures, timer, crashes>>
startNext ==
    /\ main.call = "start" /\ Returned("main")
    /\ IF main.at = Len(sources) THEN main' = [call |-> "free", at |-> 0] /\ UNCHANGED runs
       ELSE main' = [main EXCEPT !.at = @ + 1] /\ runs' = Append(runs, NewRun(main.at + 1, "main"))
    /\ UNCHANGED <<pipeVars, mStreamSet, sources, asyncStarted, startupFutures, timer, starts, crashes, careful>>

\* prepare: MemorySource reads its file, once more if it has been read already.
prepare ==
    /\ Free /\ ~Busy /\ starts < MaxStarts /\ starts' = starts + 1
    /\ \E i \in DOMAIN sources : sources[i].kind = "memory"
    /\ sources' = [i \in DOMAIN sources |->
           IF sources[i].kind = "memory" THEN [sources[i] EXCEPT !.data = @ \o sources[i].queue]
           ELSE sources[i]]
    /\ UNCHANGED <<pipeVars, mStreamSet, asyncStarted, startupFutures, runs, main, timer, crashes, careful>>

\* wait: get() on every future; the second get() of a future throws.
wait ==
    /\ Free /\ asyncStarted
    /\ main' = [call |-> "wait", at |-> 1]
    /\ UNCHANGED <<pipeVars, mStreamSet, sources, asyncStarted, startupFutures, runs, timer, starts, crashes, careful>>
\* Mutant of waitNext: it does not block until the future is ready.
waitNextPolls ==
    /\ main.call = "wait"
    /\ IF main.at > Len(startupFutures)
       THEN main' = [call |-> "waited", at |-> 0] /\ UNCHANGED startupFutures
       ELSE /\ startupFutures' = [startupFutures EXCEPT ![main.at].valid = FALSE]
            /\ main' = [main EXCEPT !.at = @ + 1]
    /\ UNCHANGED <<pipeVars, mStreamSet, sources, asyncStarted, runs, timer, starts, crashes, careful>>
waitNext ==
    /\ main.call = "wait"
    /\ IF main.at > Len(startupFutures)
       THEN main' = [call |-> "waited", at |-> 0] /\ UNCHANGED startupFutures
       ELSE LET f == startupFutures[main.at]
            IN IF ~f.valid THEN main' = [call |-> "threw", at |-> 0] /\ UNCHANGED startupFutures
               ELSE /\ ~Active(runs[f.run])
                    /\ startupFutures' = [startupFutures EXCEPT ![main.at].valid = FALSE]
                    /\ main' = [main EXCEPT !.at = @ + 1]
    /\ UNCHANGED <<pipeVars, mStreamSet, sources, asyncStarted, runs, timer, starts, crashes, careful>>
waitReturns ==
    /\ main.call = "waited" /\ main' = [call |-> "free", at |-> 0]
    /\ UNCHANGED <<pipeVars, mStreamSet, sources, asyncStarted, startupFutures, runs, timer, starts, crashes, careful>>

\* cleanStartupFunctions: the destructor of a future that std::async returned
\* and that was not consumed waits for its function.
cleanStartupFunctions ==
    /\ Free /\ startupFutures # <<>>
    /\ \A f \in Range(startupFutures) : f.valid => ~Active(runs[f.run])
    /\ startupFutures' = <<>>
    /\ UNCHANGED <<pipeVars, mStreamSet, sources, asyncStarted, runs, main, timer, starts, crashes, careful>>

\* runEvery: a thread that sleeps and starts everything, in a loop.  It can be
\* interrupted only while it sleeps.
runEvery ==
    /\ Free /\ timer = "none" /\ timer' = "sleeping"
    /\ careful' = (careful /\ ~Busy)
    /\ UNCHANGED <<pipeVars, mStreamSet, sources, asyncStarted, startupFutures, runs, main, starts, crashes>>
timerRound ==
    /\ timer \in {"sleeping", "running"} /\ Returned("timer")
    /\ LET last == Max({k \in DOMAIN runs : runs[k].by = "timer"})
           next == IF timer = "sleeping" THEN 1 ELSE runs[last].src + 1
       IN IF next > Len(sources) THEN timer' = "sleeping" /\ UNCHANGED <<runs, starts>>
          ELSE /\ timer = "running" \/ starts < MaxStarts
               /\ starts' = IF timer = "running" THEN starts ELSE starts + 1
               /\ timer' = "running" /\ runs' = Append(runs, NewRun(next, "timer"))
    /\ UNCHANGED <<pipeVars, mStreamSet, sources, asyncStarted, startupFutures, main, crashes, careful>>

\* stopThreads, and the destructor, interrupt the thread and join it.
stopThreads ==
    /\ Free /\ timer = "sleeping" /\ timer' = "joined"
    /\ UNCHANGED <<pipeVars, mStreamSet, sources, asyncStarted, startupFutures, runs, main, starts, crashes, careful>>

\* ~Topology: the timers are joined, then the members go in reverse order, the
\* dataflow with its operators before the futures; the main thread then waits
\* for the futures that were not consumed.  The destructor of a ZMQ source
\* stops its thread, if that has begun to run; else the thread is destroyed
\* while it is joinable, as it is by a second start, and the program terminates.
\* Mutant of destroyBegin: the thread of runEvery is not joined.
destroyBeginNoJoin ==
    /\ Free
    /\ main' = [call |-> "destroying", at |-> 0]
    /\ careful' = (careful /\ \A f \in Range(startupFutures) : ~f.valid)
    /\ UNCHANGED <<pipeVars, mStreamSet, sources, asyncStarted, startupFutures, runs, timer, starts, crashes>>
destroyBegin ==
    /\ Free /\ timer # "running"
    /\ main' = [call |-> "destroying", at |-> 0]
    /\ timer' = IF timer = "sleeping" THEN "joined" ELSE timer
    /\ careful' = (careful /\ \A f \in Range(startupFutures) : ~f.valid)
    /\ UNCHANGED <<pipeVars, mStreamSet, sources, asyncStarted, startupFutures, runs, starts, crashes>>
\* Mutant of zmqStop: stop, not the thread it then joins, announces the end.
zmqStopAnnounces(i) ==
    /\ main.call = "destroying" /\ sources[i].zmq \in Threads
    /\ IF sources[i].mInterrupted
       THEN sources[i].zmq = "created" /\ main' = [call |-> "terminated", at |-> 0] /\ UNCHANGED sources
       ELSE sources' = [sources EXCEPT ![i].mInterrupted = TRUE, ![i].produced = Append(@, EOS)] /\ UNCHANGED main
    /\ UNCHANGED <<pipeVars, mStreamSet, asyncStarted, startupFutures, runs, timer, starts, crashes, careful>>
zmqStop(i) ==
    /\ main.call = "destroying" /\ sources[i].zmq \in Threads
    /\ IF sources[i].mInterrupted
       THEN sources[i].zmq = "created" /\ main' = [call |-> "terminated", at |-> 0] /\ UNCHANGED sources
       ELSE sources' = [sources EXCEPT ![i].mInterrupted = TRUE] /\ UNCHANGED main
    /\ UNCHANGED <<pipeVars, mStreamSet, asyncStarted, startupFutures, runs, timer, starts, crashes, careful>>
destroy ==
    /\ main.call = "destroying" /\ \A i \in DOMAIN sources : sources[i].zmq \in {"none", "ended"}
    /\ net' = FoldSet(DestroyChannels, net, net.alive)
    /\ publishers' = <<>>
    /\ main' = [call |-> "destroyed", at |-> 0]
    /\ UNCHANGED <<ops, sinks, mPartitions, pipes, outcome, want, orderly,
                   mStreamSet, sources, asyncStarted, startupFutures, runs, timer, starts, crashes, careful>>

-----------------------------------------------------------------------------
(* The start functions.  A step of run r changes its source and its pc.    *)

\* A step: the source after it, and the next pc.
Step(s, pc) == [s |-> s, pc |-> pc]

\* TextFileSource, StreamGenerator, SelectFromTable and MemorySource: all
\* elements, then EndOfStream.
\* Mutant of produceAll: EndOfStream comes one element too early.
produceAllEarly(s, content, n) ==
    IF n + 1 < Len(content) THEN {Step(Publish(s, content[n + 1]), "more")}
    ELSE {Step(Publish(s, EOS), "done")}
produceAll(s, content, n) ==
    IF n < Len(content) THEN {Step(Publish(s, content[n + 1]), "more")}
    ELSE {Step(Publish(s, EOS), "done")}

TextFileSource_start(s, n) == produceAll(s, s.queue, n)
StreamGenerator_start(s, n) == produceAll(s, s.queue, n)
SelectFromTable_start(s, n) == produceAll(s, s.queue, n)
MemorySource_start(s, n) == produceAll(s, s.data, n)

\* RESTSource::start runs the server and returns when that is stopped, which a
\* topology does not do.
restStart(s, pc) == IF pc = "start" THEN {Step(s, "serving")} ELSE {}

\* RabbitMQSource::start: the count of a message says how many are left behind
\* it.  The first message is published if it is not the last.
rabbitStart(s, pc) ==
    LET m == Head(s.queue)
        rest == Take(s)
        next == IF Len(s.queue) > 1 THEN "more" ELSE "done"
    IN CASE s.queue = <<>> -> {Step(s, "done")}
         [] s.queue # <<>> /\ pc = "start" ->
               {Step(IF Len(s.queue) > 1 THEN Publish(rest, m)
                     ELSE Ignore(s), next)}
         [] OTHER -> {Step(Publish(rest, m), next)}

\* KafkaSource::start: poll locates the consumer, may time out though there are
\* messages, and may return an error, which is passed over.  A message is
\* committed after it was published.
poll(s) ==
    {Step([s EXCEPT !.alive = FALSE], "done")} \cup
    (IF s.errors < MaxErrors THEN {Step([s EXCEPT !.errors = @ + 1], "poll")} ELSE {}) \cup
    (IF ~s.located THEN {Step([s EXCEPT !.located = TRUE], "poll")} ELSE {})
\* Mutants of kafkaStart: it is committed before; the source stays connected.
kafkaStartCommitFirst(s, pc) ==
    IF pc = "commit" THEN {Step(Take(Publish(s, Head(s.queue))), "poll")}
    ELSE poll(s) \cup
         IF s.queue = <<>> THEN {} ELSE {Step([s EXCEPT !.committed = Head(s.queue)], "commit")}
kafkaStartForever(s, pc) ==
    IF pc = "commit" THEN {Step([s EXCEPT !.committed = Last(s.produced)], "poll")}
    ELSE IF s.queue = <<>> THEN {} ELSE {Step(Take(Publish(s, Head(s.queue))), "commit")}
kafkaStart(s, pc) ==
    IF pc = "commit" THEN {Step([s EXCEPT !.committed = Last(s.produced)], "poll")}
    ELSE poll(s) \cup
         IF s.queue = <<>> THEN {} ELSE {Step(Take(Publish(s, Head(s.queue))), "commit")}

\* MQTTSource::start: the messages that have arrived, until there is none.  The
\* subscription then ends and the client goes, with what arrives before that.
mqttStart(s, pc) ==
    CASE pc = "leaving" -> {Step([s EXCEPT !.queue = <<>>, !.alive = FALSE], "done")}
      [] pc # "leaving" /\ s.queue # <<>> -> {Step(Take(Publish(s, Head(s.queue))), "more")}
      [] OTHER -> {Step([s EXCEPT !.seen = s.sent], "leaving")}

\* ZMQSourceImpl::start: a thread, unless one has set mInterrupted.  A thread
\* that is replaced while it can be joined terminates the program.
zmqStart(s, pc) ==
    {Step(IF ~s.mInterrupted THEN s
          ELSE [s EXCEPT !.zmq = IF @ = "created" THEN "replaced" ELSE "created"], "done")}

Steps(s, pc, n) ==
    CASE s.kind = "file" -> TextFileSource_start(s, n)
      [] s.kind = "generator" -> StreamGenerator_start(s, n)
      [] s.kind = "select" -> SelectFromTable_start(s, n)
      [] s.kind = "memory" -> MemorySource_start(s, n)
      [] s.kind = "rest" -> restStart(s, pc)
      [] s.kind = "rabbitmq" -> rabbitStart(s, pc)
      [] s.kind = "kafka" -> kafkaStart(s, pc)
      [] s.kind = "mqtt" -> mqttStart(s, pc)
      [] s.kind = "zmq" -> zmqStart(s, pc)

Alive == main.call \notin {"threw", "terminated"}
\* The client of a Kafka or MQTT source is gone after the first start.  One that
\* has lost its connection has no message behind the last one, and cannot
\* unsubscribe: what is thrown ends the program, at the latest when wait gets it.
Gone(s, pc) ==
    \/ s.kind \in {"kafka", "mqtt"} /\ ~s.alive
    \/ s.kind = "mqtt" /\ ~s.connected /\ (s.queue = <<>> \/ pc = "leaving")
RunStep(k) ==
    LET r == runs[k]
    IN /\ Alive /\ Active(r)
       /\ IF Gone(sources[r.src], r.pc)
          THEN main' = [call |-> "terminated", at |-> 0] /\ UNCHANGED <<sources, runs>>
          ELSE /\ \E t \in Steps(sources[r.src], r.pc, r.n) :
                     /\ sources' = [sources EXCEPT ![r.src] = t.s]
                     /\ runs' = [runs EXCEPT ![k].pc = t.pc,
                                            ![k].n = IF sources[r.src].kind \in Finite THEN @ + 1 ELSE @]
               /\ main' = IF \E s \in Range(sources') : s.zmq = "replaced"
                          THEN [call |-> "terminated", at |-> 0] ELSE main
       /\ UNCHANGED <<pipeVars, mStreamSet, asyncStarted, startupFutures, timer, starts, crashes, careful>>

\* The thread of a ZMQ source, ZMQSourceImpl::process: the flag is tested before
\* every receive, which may time out.
zmqBegin(s) == [s EXCEPT !.zmq = "running", !.mInterrupted = FALSE]
zmqProcess(s) ==
    CASE s.zmq = "created" -> {zmqBegin(s)}
      [] s.zmq = "running" ->
            {IF s.mInterrupted THEN [Publish(s, EOS) EXCEPT !.zmq = "ended"] ELSE [s EXCEPT !.zmq = "receiving"]}
      [] s.zmq = "receiving" ->
            {[s EXCEPT !.zmq = "running"]} \cup
            IF s.queue = <<>> THEN {} ELSE {[Take(Publish(s, Head(s.queue))) EXCEPT !.zmq = "running"]}
ZmqThread(i) ==
    /\ Alive /\ sources[i].zmq \in Threads
    /\ \E t \in zmqProcess(sources[i]) : sources' = [sources EXCEPT ![i] = t]
    /\ UNCHANGED <<pipeVars, mStreamSet, asyncStarted, startupFutures, runs, main, timer, starts, crashes, careful>>

\* A client sends a message: a request to the REST server is published by the
\* server's thread, the others wait at the broker.  What is sent while Kafka's
\* consumer is not located is before its position; a client that is not
\* connected gets nothing.
Delivered(s, m) ==
    CASE s.kind = "rest" -> Publish(s, m)
      [] s.kind = "kafka" /\ ~s.located -> [s EXCEPT !.from = m]
      [] s.kind = "mqtt" /\ ~(s.alive /\ s.connected) -> s
      [] OTHER -> [s EXCEPT !.queue = Append(@, m)]
Send(i) ==
    LET s == sources[i]
        m == s.sent + 1
    IN /\ Alive /\ s.kind \in Brokers /\ s.sent < MaxMessages /\ Startable
       /\ s.kind = "rest" => main.call # "destroyed" /\ \E r \in Range(runs) : r.pc = "serving"
       /\ sources' = [sources EXCEPT ![i] = Delivered([s EXCEPT !.sent = m], m)]
       /\ UNCHANGED <<pipeVars, mStreamSet, asyncStarted, startupFutures, runs, main, timer, starts, crashes, careful>>

\* An MQTT client loses its connection, for good: it is not told to reconnect.
Disconnect(i) ==
    LET s == sources[i]
    IN /\ Alive /\ s.kind = "mqtt" /\ s.alive /\ s.connected
       /\ sources' = [sources EXCEPT ![i] = [s EXCEPT !.connected = FALSE, !.seen = s.sent]]
       /\ UNCHANGED <<pipeVars, mStreamSet, asyncStarted, startupFutures, runs, main, timer, starts, crashes, careful>>

\* The program crashes and is started again, with one Kafka source, whose
\* constructor subscribes and polls again.
Crash ==
    /\ Startable /\ crashes < MaxCrashes /\ Len(sources) = 1 /\ sources[1].kind = "kafka"
    /\ sources' = <<[Subscribed(sources[1]) EXCEPT !.alive = TRUE]>>
    /\ asyncStarted' = FALSE /\ startupFutures' = <<>> /\ runs' = <<>>
    /\ main' = [call |-> "polling", at |-> 1] /\ timer' = "none" /\ starts' = 0
    /\ crashes' = crashes + 1
    /\ net' = FoldLeft(LAMBDA n, o : CreateChannels(n), EmptyNet, ops)
    /\ want' = {} /\ sinks' = {}
    /\ UNCHANGED <<ops, publishers, mPartitions, pipes, outcome, orderly, mStreamSet, careful>>

-----------------------------------------------------------------------------
Init ==
    /\ Init_Pipe /\ (plan \in Programs \/ plan = <<>>)
    /\ mStreamSet = [n \in Streams |-> Nobody] /\ sources = <<>>
    /\ asyncStarted = FALSE /\ startupFutures = <<>> /\ runs = <<>>
    /\ main = [call |-> "free", at |-> 0] /\ timer = "none"
    /\ starts = 0 /\ crashes = 0 /\ careful = TRUE /\ calls = 0

Wait == waitNext \/ waitReturns
Life ==
    \/ startAsync \/ start \/ startNext \/ prepare \/ wait \/ Wait \/ cleanStartupFunctions
    \/ runEvery \/ timerRound \/ stopThreads \/ destroyBegin \/ destroy \/ Crash \/ constructorPoll
    \/ \E i \in DOMAIN sources : zmqStop(i) \/ ZmqThread(i) \/ Send(i) \/ Disconnect(i)
    \/ \E k \in DOMAIN runs : RunStep(k)

\* A program that is started has its sources, a printed pipe, and no more.
Constructing ==
    /\ runs = <<>> /\ main.call = "free" /\ timer = "none" /\ crashes = 0
    /\ plan = <<>> \/ ~Startable \/ sinks = {}
    /\ calls < MaxCalls /\ calls' = calls + 1
    /\ IF plan = <<>> THEN Building
       ELSE \/ SourceMethods
            \/ Startable /\ print(1) /\ UNCHANGED <<mStreamSet, lifeVars>>

Next == (Constructing \/ (Life /\ UNCHANGED calls)) /\ UNCHANGED plan

Spec == Init /\ [][Next]_vars

\* The threads run, and the main thread goes on when it can.
Fairness ==
    /\ WF_vars(Wait /\ UNCHANGED <<plan, calls>>)
    /\ WF_vars((\E k \in DOMAIN runs : RunStep(k)) /\ UNCHANGED <<plan, calls>>)
FairSpec == Spec /\ Fairness

-----------------------------------------------------------------------------
\* When wait returns, every start function it waited for has finished.
WaitedFinished ==
    main.call = "waited" => Returned("future")

\* A program that waits for what it started, and starts nothing while it runs,
\* destroys no operator that a start function is still publishing to, neither
\* one of startAsync nor one of the thread of runEvery.
NothingIntoDestroyed == main.call = "destroyed" /\ careful => ~Busy

\* For such a program the stream of a file, a generator or a table is complete
\* and ended exactly once per start: the elements in order, then EndOfStream.
StreamsComplete ==
    careful => \A s \in Range(sources) : s.kind \in Finite \ {"memory"} =>
        \A p \in DOMAIN s.produced :
            s.produced[p] = Append(s.queue, EOS)[((p - 1) % (Len(s.queue) + 1)) + 1]

\* The last message a source answers for, and how many reads whose result the
\* code ignores it may have made: one of each constructor of a Kafka consumer,
\* and the first one of each run of a RabbitMQ source.
Answerable(s) == IF s.kind = "mqtt" /\ ~(s.alive /\ s.connected) THEN s.seen ELSE s.sent
Begun(i) == {k \in DOMAIN runs : runs[k].src = i /\ runs[k].pc # "start"}
IgnoredReads(i) ==
    CASE sources[i].kind = "kafka" -> crashes + 1
      [] sources[i].kind = "rabbitmq" -> Cardinality(Begun(i))
      [] OTHER -> 0

\* If no two calls run at a time, a message is lost only before the source has
\* a position at the broker (KafkaSource.cpp:27, MQTTSource.cpp:29), behind the
\* last read of an MQTT client (MQTTSource.cpp:46), or, one per call, by a read
\* whose result the code ignores (KafkaSource.cpp:37, RabbitMQSource.cpp:41).
\* Every other one is published or waits, of Kafka's also after crashes at any
\* moment: what comes behind the last committed message is delivered again.
MessagesAccounted ==
    careful => \A i \in DOMAIN sources : LET s == sources[i] IN s.kind \in Brokers =>
        /\ \A m \in s.from + 1 .. Answerable(s) :
              m \in Range(s.produced) \cup Range(s.queue) \cup s.discarded
        /\ Cardinality(s.discarded) <= IgnoredReads(i)

\* A ZMQ source whose start function is not called any more when it is
\* destroyed publishes nothing after its EndOfStream.
ZmqEndsStream ==
    careful => \A s \in Range(sources) : s.kind = "zmq" =>
        \A p \in DOMAIN s.produced : s.produced[p] = EOS => p = Len(s.produced)

\* wait comes to an end, unless a source serves requests for ever.
WaitReturns ==
    (main.call = "wait" /\ \A s \in Range(sources) : s.kind # "rest") ~> main.call # "wait"

\* The network of operators: connected as the program says, and never with a slot
\* that leads into a destroyed operator (methods of Pipe, subscribe, closeSubscription).
NetworkSound == WiredAsWritten /\ SlotsLead

\* The life of a topology in order: wait returns when everything has finished, and
\* a program that waits destroys no operator that is still published to.
LifeInOrder == WaitedFinished /\ NothingIntoDestroyed

\* The sources: complete streams from files, generators and tables, every message of
\* a broker accounted for, and an end of the stream that is the end of it.
SourcesAccounted == StreamsComplete /\ MessagesAccounted /\ ZmqEndsStream
=============================================================================
