---------------------------------- MODULE CEP ----------------------------------
(***************************************************************************)
(* Complex event processing: a pattern is written with the CEPState        *)
(* operators or built with NFAController, the Matcher hands every stream   *)
(* element to its engine (FirstMatchEngine or NextMatchEngine), the engine *)
(* extends the structures of its pool and publishes those that reach a     *)
(* final state.                                                            *)
(*                                                                         *)
(* An event is [sym, val]; the predicate of an edge compares sym, and may  *)
(* ask for a val greater than the previous one of the structure (a related *)
(* value).  A structure keeps the positions of its events in the input.    *)
(***************************************************************************)
EXTENDS Integers, Sequences, FiniteSets, SequencesExt, FiniteSetsExt

CONSTANTS Syms, Vals,
          Patterns,     \* the names of the patterns that are tried
          Engines,      \* "First", "Next"
          NumOfLoop,    \* the bound of a restricted Kleene state
          NoState,      \* no state
          Jobs,         \* jobs of a ThreadPool
          Workers,      \* its threads
          MaxEvents     \* bound: events of the input

VARIABLES engine, pattern,
          nfa,          \* the automaton NFAController built for the pattern
          input,        \* the events so far
          pool,         \* the structures, in the order of their partition value
          deleted,      \* deletedStructures: partition values
          sequence,     \* SequencePartition::sequence
          published,    \* the matches, as sequences of positions
          counter,
          uncollected   \* runGCstructures left something that was not complete

VARIABLES queue, done,  \* ThreadPool: the queue, and the jobs that were run
          shutdown, notified,  \* ~ThreadPool has set the flag, has woken the threads
          worker        \* "free", "tested" (holds mx), "waiting", "exited" or its job

cepVars == <<engine, pattern, nfa, input, pool, deleted, sequence, published, counter, uncollected>>
poolVars == <<queue, done, shutdown, notified, worker>>
vars == <<cepVars, poolVars>>

Event == [sym : Syms, val : Vals]

----------------------------------------------------------------------------
(* The pattern language: a CEPState has an id and the expressions written  *)
(* so far, 0 is the start state, 1000 the end state.                       *)

StartID == 0
EndID == 1000
Expr(op, from, to) == [op |-> op, from |-> from, to |-> to]

CEPState(id) ==
  [id |-> id, exprs |-> IF id = StartID THEN <<Expr("START", id, NoState)>>
                        ELSE IF id = EndID THEN <<Expr("END", id, NoState)>> ELSE <<>>]

\* operator>>: the other state collects the expressions of this one.
Then(this, other) ==
  [other EXCEPT !.exprs = @ \o this.exprs \o <<Expr("SEQ", this.id, other.id)>>]

\* A state of the automaton: its type, its forward edges in order, and for a
\* Kleene state the specification and the loop edge.
ForwardEdge(sym, rel, dest) == [sym |-> sym, rel |-> rel, dest |-> dest]
NormalState(edges) == [type |-> "Normal", edges |-> edges, spec |-> "", loop |-> ForwardEdge("", "any", NoState)]
StartState(edges) == [NormalState(edges) EXCEPT !.type = "Start"]
NegationState(edges) == [NormalState(edges) EXCEPT !.type = "Negation"]
FinalState == [NormalState(<<>>) EXCEPT !.type = "Final"]
LoopEdge(sym) == ForwardEdge(sym, "any", NoState)
KleeneState(edges, spec) == [NormalState(edges) EXCEPT !.type = "Kleene", !.spec = spec]

\* NFAController: states are created first, transitions are added to them.
createStartState == StartState(<<>>)
createNormalState == NormalState(<<>>)
createKleeneState(spec) == KleeneState(<<>>, spec)
createFinalState == FinalState
createNegationState == NegationState(<<>>)
createForwardTransition(states, src, edge) == [states EXCEPT ![src].edges = Append(@, edge)]
createLoopTransition(states, s, edge) == [states EXCEPT ![s].loop = edge]

StatesOf(exprs) ==
  {exprs[i].from : i \in DOMAIN exprs} \union {exprs[i].to : i \in {j \in DOMAIN exprs : exprs[j].to # NoState}}

\* Mutant of constructNFA: the edge carries the predicate of the state it leaves.
constructNFASource(exprs, label) ==
  [s \in StatesOf(exprs) |->
     LET seq   == SelectSeq(exprs, LAMBDA x : x.op = "SEQ" /\ x.from = s)
         edges == [i \in DOMAIN seq |-> ForwardEdge(label[IF s = StartID THEN seq[i].to ELSE s].sym, "any", seq[i].to)]
     IN IF s = StartID THEN StartState(edges) ELSE IF s = EndID THEN FinalState ELSE NormalState(edges)]

\* constructNFA: one transition for every SEQ expression, its edge has the
\* predicate of the state it leads to.
constructNFA(exprs, label) ==
  [s \in StatesOf(exprs) |->
     LET seq   == SelectSeq(exprs, LAMBDA x : x.op = "SEQ" /\ x.from = s)
         edges == [i \in DOMAIN seq |-> ForwardEdge(label[seq[i].to].sym, label[seq[i].to].rel, seq[i].to)]
     IN IF s = StartID THEN StartState(edges) ELSE IF s = EndID THEN FinalState ELSE NormalState(edges)]

\* The sequence patterns of the tests: the symbols, each with its relation.
SeqPattern ==
  [ab |-> <<<<"a", "any">>, <<"b", "any">>>>,
   abc |-> <<<<"a", "any">>, <<"b", "any">>, <<"c", "any">>>>,
   aa |-> <<<<"a", "any">>, <<"a", "any">>>>,
   rising |-> <<<<"a", "any">>, <<"b", "greater">>, <<"b", "greater">>>>]
IsSeq(p) == p \in DOMAIN SeqPattern

\* start >> 1 >> 2 >> ... >> end
Written(p) ==
  LET n    == Len(SeqPattern[p])
      ids  == [i \in 1 .. n |-> CEPState(IF i = n THEN EndID ELSE i)]
  IN FoldLeft(LAMBDA acc, s : Then(acc, s), CEPState(StartID), ids)

LabelOf(p, s) ==
  LET n == Len(SeqPattern[p])
      w == SeqPattern[p][IF s = EndID THEN n ELSE s]
  IN [sym |-> w[1], rel |-> w[2]]

SeqNFA(p) == constructNFA(Written(p).exprs, [s \in (1 .. Len(SeqPattern[p])) \union {EndID} |-> LabelOf(p, s)])

\* Built with NFAController: a, then b's as the specification says, then c.
KleeneNFA(spec) ==
  LET states == [s \in {0, 1, EndID} |-> CASE s = 0 -> createStartState [] s = 1 -> createKleeneState(spec)
                                             [] OTHER -> createFinalState]
      begins == createForwardTransition(states, 0, ForwardEdge("a", "any", 1))
      loops  == createLoopTransition(begins, 1, LoopEdge("b"))
  IN createForwardTransition(loops, 1, ForwardEdge("c", "any", EndID))

\* a, no b, then c; and a followed by anything but b.
NegatedStates(ids) ==
  [s \in ids |-> CASE s = 0 -> createStartState [] s = 1 -> createNegationState
                    [] s = 2 -> createNormalState [] OTHER -> createFinalState]
NegatedNFA ==
  LET begins  == createForwardTransition(NegatedStates({0, 1, 2, EndID}), 0, ForwardEdge("a", "any", 1))
      negates == createForwardTransition(begins, 1, ForwardEdge("b", "any", 2))
  IN createForwardTransition(negates, 2, ForwardEdge("c", "any", EndID))
NegatedTwiceNFA ==                                    \* a, no a and no b, then c
  LET begins == createForwardTransition([NegatedStates({0, 1, 2, 3, EndID}) EXCEPT ![2] = createNegationState,
                                                                                   ![3] = createNormalState],
                                        0, ForwardEdge("a", "any", 1))
      first  == createForwardTransition(begins, 1, ForwardEdge("a", "any", 2))
      second == createForwardTransition(first, 2, ForwardEdge("b", "any", 3))
  IN createForwardTransition(second, 3, ForwardEdge("c", "any", EndID))
NegatedEndNFA ==
  LET begins == createForwardTransition(NegatedStates({0, 1, EndID}), 0, ForwardEdge("a", "any", 1))
  IN createForwardTransition(begins, 1, ForwardEdge("b", "any", EndID))

NFA(p) ==
  CASE IsSeq(p) -> SeqNFA(p)
    [] p \in {"Star", "Plus", "Question", "Restricted"} -> KleeneNFA(p)
    [] p = "negated" -> NegatedNFA
    [] p = "negatedTwice" -> NegatedTwiceNFA
    [] p = "negatedEnd" -> NegatedEndNFA

State(s) == nfa[s]

----------------------------------------------------------------------------
(* Related values, and the structures.                                     *)

NoRelated == [previous |-> 0, sum |-> 0, max |-> 0, min |-> 100]

\* Mutant of RelatedStateValueSum: a sum that starts over with every event.
RelatedStateValueSumReset(sum, v) == v

\* updateValue of the four kinds; Max starts with
\* numeric_limits<double>::min(), the smallest positive number.
RelatedStateValueSum(sum, v) == sum + v
RelatedStateValuePrevious(v) == v
RelatedStateValueMax(max, v) == IF v > max THEN v ELSE max
RelatedStateValueMin(min, v) == IF v < min THEN v ELSE min
updateValue(r, v) ==
  [previous |-> RelatedStateValuePrevious(v), sum |-> RelatedStateValueSum(r.sum, v),
   max |-> RelatedStateValueMax(r.max, v), min |-> RelatedStateValueMin(r.min, v)]

NewStructure(id) ==
  [id |-> id, state |-> StartID, events |-> <<>>, kleene |-> 0, related |-> NoRelated, complete |-> FALSE]

\* NFAEdge::evaluate
evaluate(edge, ev, str) ==
  ev.sym = edge.sym /\ (edge.rel = "greater" => ev.val > str.related.previous)

\* NFAStructure::addEvent for a forward and for a loop edge; pos is the
\* position of the event in the input.
addEvent(str, pos, ev, dest) ==
  [str EXCEPT !.events = Append(@, pos),
              !.related = updateValue(@, ev.val),
              !.state = dest,
              !.complete = State(dest).type = "Final"]
addLoop(str, pos, ev) ==
  [str EXCEPT !.events = Append(@, pos), !.related = updateValue(@, ev.val), !.kleene = @ + 1]

----------------------------------------------------------------------------
(* CEPEngine::checkPredicate: the structure afterwards, the index of the   *)
(* forward edge to take (0: none), and whether a negation was hit.         *)

Result(str, edge, negated) == [str |-> str, edge |-> edge, negated |-> negated]

FirstEdge(s, ev, str) ==
  LET hit == {i \in DOMAIN State(s).edges : evaluate(State(s).edges[i], ev, str)}
  IN IF hit = {} THEN 0 ELSE Min(hit)

checkNormal(str, ev) == Result(str, FirstEdge(str.state, ev, str), FALSE)

\* Mutant of forwardOK: one iteration is required for every specification.
forwardOKOne(str) == str.kleene >= 1

\* When the structure may leave a Kleene state, and when it may stay.
forwardOK(str) ==
  CASE State(str.state).spec \in {"Star", "Question"} -> TRUE
    [] State(str.state).spec = "Plus" -> str.kleene = 1
    [] State(str.state).spec = "Restricted" -> str.kleene >= NumOfLoop
loopOK(str) ==
  CASE State(str.state).spec \in {"Star", "Question"} -> TRUE
    [] State(str.state).spec = "Plus" -> str.kleene = 0
    [] State(str.state).spec = "Restricted" -> str.kleene < NumOfLoop

\* The forward edges first; otherwise the loop edge keeps the event.
checkKleene(str, pos, ev) ==
  LET e == IF forwardOK(str) THEN FirstEdge(str.state, ev, str) ELSE 0
  IN IF e # 0 THEN Result(str, e, FALSE)
     ELSE IF evaluate(State(str.state).loop, ev, str) /\ loopOK(str)
     THEN Result(addLoop(str, pos, ev), 0, FALSE)
     ELSE Result(str, 0, FALSE)

\* Mutant of checkNegation: the negated event is skipped.
RECURSIVE checkNegationSkips(_, _, _)
checkNegationSkips(s, str, ev) ==
  LET after == State(s).edges[1].dest
      e     == FirstEdge(after, ev, str)
  IN CASE State(after).type = "Negation" -> checkNegationSkips(after, str, ev)
       [] State(after).type = "Final" -> Result(str, 1, FALSE)
       [] OTHER -> Result(IF e = 0 THEN str ELSE [str EXCEPT !.state = after], e, FALSE)

\* A chain of negation states, from s on: an edge of one of them ends the
\* structure; otherwise the state behind the chain is asked, and with the final
\* state behind it any event will do.
RECURSIVE checkNegation(_, _, _)
checkNegation(s, str, ev) ==
  LET after == State(s).edges[1].dest
      e     == FirstEdge(after, ev, str)
  IN CASE FirstEdge(s, ev, str) # 0 -> Result(str, 0, TRUE)
       [] FirstEdge(s, ev, str) = 0 /\ State(after).type = "Negation" -> checkNegation(after, str, ev)
       [] FirstEdge(s, ev, str) = 0 /\ State(after).type = "Final" -> Result(str, 1, FALSE)
       [] OTHER -> Result(IF e = 0 THEN str ELSE [str EXCEPT !.state = after], e, FALSE)

checkPredicate(str, pos, ev) ==
  CASE State(str.state).type = "Normal" -> checkNormal(str, ev)
    [] State(str.state).type = "Kleene" -> checkKleene(str, pos, ev)
    [] State(str.state).type = "Negation" -> checkNegation(str.state, str, ev)
    [] OTHER -> Result(str, 0, FALSE)

\* engineProcess: the structure after the event (checkWindowTime always says
\* yes), and whether it is to be removed from the pool.
engineProcess(str, pos, ev) ==
  LET r == checkPredicate(str, pos, ev)
      s == IF r.edge = 0 THEN r.str ELSE addEvent(r.str, pos, ev, State(r.str.state).edges[r.edge].dest)
  IN [str |-> s, remove |-> r.negated \/ (r.edge # 0 /\ s.complete), match |-> r.edge # 0 /\ s.complete]

\* createStartStructure
createStartStructure(pos, ev, id) ==
  LET new == NewStructure(id)
      e   == FirstEdge(StartID, ev, new)
  IN IF e = 0 THEN <<>> ELSE <<addEvent(new, pos, ev, State(StartID).edges[e].dest)>>

----------------------------------------------------------------------------
Init ==
  /\ engine \in Engines /\ pattern \in Patterns /\ nfa = NFA(pattern)
  /\ input = <<>> /\ pool = <<>> /\ deleted = <<>> /\ sequence = 0
  /\ published = <<>> /\ counter = 0 /\ uncollected = FALSE
  /\ queue = <<>> /\ done = <<>> /\ shutdown = FALSE /\ notified = FALSE /\ worker = [w \in Workers |-> "free"]

\* MatchProducer::produceAsList and Matcher::publishResultMatches: the events of the match.
produceAsList(str) == str.events
publishResult(out, str) == Append(out, produceAsList(str))

\* StructurePool: a structure is added, or removed by its sequence number.
insertStructure(strs, new) == strs \o new
removeValues(strs, ids) == SelectSeq(strs, LAMBDA s : s.id \notin ids)

\* Mutant of FirstMatch: the event that completes a match also starts the next.
FirstMatchReuses(ev) ==
  LET pos == Len(input) + 1
      new == createStartStructure(pos, ev, sequence)
      r   == engineProcess(Head(pool), pos, ev)
  IN IF pool = <<>>
     THEN pool' = new /\ sequence' = sequence + Len(new) /\ UNCHANGED <<published, counter>>
     ELSE /\ pool' = IF r.remove THEN new ELSE <<r.str>>
          /\ published' = IF r.match THEN publishResult(published, r.str) ELSE published
          /\ counter' = IF r.match THEN counter + 1 ELSE counter
          /\ sequence' = sequence + Len(new)

\* FirstMatchEngine::runEngine: one structure at a time.
FirstMatch(ev) ==
  LET pos == Len(input) + 1
  IN IF pool = <<>>
     THEN LET new == createStartStructure(pos, ev, sequence)
          IN /\ pool' = new
             /\ sequence' = sequence + Len(new)
             /\ UNCHANGED <<published, counter>>
     ELSE LET r == engineProcess(Head(pool), pos, ev)
          IN /\ pool' = IF r.remove THEN <<>> ELSE <<r.str>>
             /\ published' = IF r.match THEN publishResult(published, r.str) ELSE published
             /\ counter' = IF r.match THEN counter + 1 ELSE counter
             /\ UNCHANGED sequence

\* Mutant of runGCstructures: the structures leave the list and stay in the pool.
runGCstructuresNone(list) == {}

\* runGCstructures: the loop's bound shrinks with the list, so that it takes
\* the first half of the list only.
runGCstructures(list) == {list[i] : i \in 1 .. (Len(list) + 1) \div 2}
RestOf(list) == SubSeq(list, (Len(list) + 1) \div 2 + 1, Len(list))

\* NextMatchEngine::runEngine: every structure of the pool, then a new one,
\* then the structures to be deleted.  (The pool is a hash multimap on the
\* partition value; the model visits it in the order of the values.  The branch
\* for a partition by an attribute is not reached: SequencePartition is the only
\* one there is, the others are commented out.)
NextMatch(ev) ==
  LET pos   == Len(input) + 1
      r     == [i \in DOMAIN pool |-> engineProcess(pool[i], pos, ev)]
      new   == createStartStructure(pos, ev, sequence)
      all   == insertStructure([i \in DOMAIN r |-> r[i].str], new)
      lost  == SelectSeq(r, LAMBDA x : x.remove)
      won   == SelectSeq(r, LAMBDA x : x.match)
      list  == deleted \o [i \in DOMAIN lost |-> lost[i].str.id]
      taken == runGCstructures(list)
  IN /\ sequence' = sequence + Len(new)
     /\ published' = FoldLeft(LAMBDA out, x : publishResult(out, x.str), published, won)
     /\ counter' = counter + Len(won)
     /\ pool' = removeValues(all, taken)
     /\ deleted' = RestOf(list)

\* Matcher::processDataElement, for a new and for an outdated element alike.
processDataElement(ev) ==
  /\ Len(input) < MaxEvents
  /\ input' = Append(input, ev)
  /\ IF engine = "First" THEN FirstMatch(ev) /\ UNCHANGED deleted ELSE NextMatch(ev)
  /\ uncollected' = (uncollected \/ \E s \in ToSet(pool') : s.id \in ToSet(deleted') /\ ~s.complete)
  /\ UNCHANGED <<engine, pattern, nfa, poolVars>>

----------------------------------------------------------------------------
(* ThreadPool.  A thread holds mx from its test of the queue and the flag until *)
(* it sleeps in cv; ~ThreadPool sets the flag without mx.                       *)

Unlocked == \A w \in Workers : worker[w] # "tested"

enqueue(j) ==
  /\ input = <<>> /\ ~shutdown /\ Unlocked
  /\ j \notin ToSet(queue) \union ToSet(done) \union {worker[w] : w \in Workers}
  /\ queue' = Append(queue, j)
  \* notify_one: one of the waiting threads
  /\ \/ \E w \in Workers : worker[w] = "waiting" /\ worker' = [worker EXCEPT ![w] = "free"]
     \/ (\A w \in Workers : worker[w] # "waiting") /\ UNCHANGED worker
  /\ UNCHANGED <<cepVars, done, shutdown, notified>>

\* Mutant of dequeue: it gives up at a shutdown, whatever is queued.
dequeueGivesUp(w) ==
  /\ worker[w] = "free" /\ Unlocked
  /\ CASE shutdown -> worker' = [worker EXCEPT ![w] = "exited"] /\ UNCHANGED queue
       [] ~shutdown /\ queue # <<>> -> worker' = [worker EXCEPT ![w] = Head(queue)] /\ queue' = Tail(queue)
       [] ~shutdown /\ queue = <<>> -> worker' = [worker EXCEPT ![w] = "tested"] /\ UNCHANGED queue
  /\ UNCHANGED <<cepVars, done, shutdown, notified>>

\* dequeue: a thread takes a job, ends at a shutdown, or is going to wait.
dequeue(w) ==
  /\ worker[w] = "free" /\ Unlocked
  /\ CASE queue # <<>> -> worker' = [worker EXCEPT ![w] = Head(queue)] /\ queue' = Tail(queue)
       [] queue = <<>> /\ shutdown -> worker' = [worker EXCEPT ![w] = "exited"] /\ UNCHANGED queue
       [] queue = <<>> /\ ~shutdown -> worker' = [worker EXCEPT ![w] = "tested"] /\ UNCHANGED queue
  /\ UNCHANGED <<cepVars, done, shutdown, notified>>

\* cv.wait releases mx and sleeps, in one step.
waitForJob(w) ==
  /\ worker[w] = "tested"
  /\ worker' = [worker EXCEPT ![w] = "waiting"]
  /\ UNCHANGED <<cepVars, queue, done, shutdown, notified>>

runJob(w) ==
  /\ worker[w] \in Jobs
  /\ done' = Append(done, worker[w])
  /\ worker' = [worker EXCEPT ![w] = "free"]
  /\ UNCHANGED <<cepVars, queue, shutdown, notified>>

\* ~ThreadPool: the flag is set, then all threads are woken with mx held, and
\* joined.
destroyPool ==
  /\ input = <<>> /\ ~shutdown
  /\ shutdown' = TRUE
  /\ UNCHANGED <<cepVars, queue, done, notified, worker>>

\* Mutant of notifyPool: the threads are woken without mx.
notifyPoolUnlocked ==
  /\ shutdown /\ ~notified
  /\ notified' = TRUE
  /\ worker' = [w \in Workers |-> IF worker[w] = "waiting" THEN "free" ELSE worker[w]]
  /\ UNCHANGED <<cepVars, queue, done, shutdown>>

notifyPool ==
  /\ shutdown /\ ~notified /\ Unlocked
  /\ notified' = TRUE
  /\ worker' = [w \in Workers |-> IF worker[w] = "waiting" THEN "free" ELSE worker[w]]
  /\ UNCHANGED <<cepVars, queue, done, shutdown>>

PoolUsed == queue # <<>> \/ done # <<>> \/ shutdown \/ \E w \in Workers : worker[w] # "free"
PoolThread(w) == input = <<>> /\ (dequeue(w) \/ waitForJob(w) \/ runJob(w))

Next ==
  \/ \E ev \in Event : ~PoolUsed /\ processDataElement(ev)
  \/ \E j \in Jobs : enqueue(j)
  \/ \E w \in Workers : PoolThread(w)
  \/ destroyPool
  \/ notifyPool

Spec == Init /\ [][Next]_vars

\* The threads of the pool go on running, their jobs end, and the destructor
\* goes on once it is called.
FairSpec == Spec /\ WF_vars(notifyPool) /\ \A w \in Workers : WF_vars(PoolThread(w))

----------------------------------------------------------------------------
(* What the patterns mean, without automata. *)

Satisfies(i, before, w) ==
  input[i].sym = w[1] /\ (w[2] = "greater" => input[i].val > input[before].val)

\* m takes, after each of its events, the first one that satisfies the pattern.
IsMatch(m) ==
  LET p == SeqPattern[pattern]
  IN /\ input[m[1]].sym = p[1][1]
     /\ \A j \in 2 .. Len(p) :
          m[j] = Min({k \in m[j - 1] + 1 .. Len(input) : Satisfies(k, m[j - 1], p[j])} \union {Len(input) + 1})
     /\ m[Len(p)] <= Len(input)
Increasing(n) == {m \in [1 .. n -> 1 .. Len(input)] : \A j \in 2 .. n : m[j - 1] < m[j]}
Matches == {m \in Increasing(Len(SeqPattern[pattern])) : IsMatch(m)}

\* NextMatchEngine finds every match of a sequence pattern exactly once, in the
\* order of their last events, although structures that are done stay in its
\* pool and are collected only later.
NextMatchesAll ==
  engine = "Next" /\ IsSeq(pattern) =>
    /\ ToSet(published) = Matches
    /\ Len(published) = Cardinality(Matches)
    /\ \A i, j \in DOMAIN published : i < j => Last(published[i]) <= Last(published[j])

\* FirstMatchEngine finds matches that do not overlap: each starts with the
\* first possible event after the end of the one before, and none is missed
\* unless an earlier start without a match blocks it.
FirstMatchesApart ==
  engine = "First" /\ IsSeq(pattern) =>
    LET end(j) == IF j = 0 THEN 0 ELSE Last(published[j])
        next(j) == {k \in end(j) + 1 .. Len(input) : input[k].sym = SeqPattern[pattern][1][1]}
    IN /\ \A j \in DOMAIN published : published[j] \in Matches /\ published[j][1] = Min(next(j - 1))
       /\ next(Len(published)) # {} => \A m \in Matches : m[1] # Min(next(Len(published)))

\* A published match has as many events at its Kleene state as the
\* specification says: one at least for Plus, NumOfLoop for Restricted, and
\* only b's (Question, documented as at most one, lets any number pass).
KleeneCounted ==
  pattern \in {"Star", "Plus", "Restricted"} =>
    \A i \in DOMAIN published :
      LET m == published[i] n == Len(m) - 2
      IN /\ input[m[1]].sym = "a" /\ input[m[n + 2]].sym = "c"
         /\ \A j \in 2 .. n + 1 : input[m[j]].sym = "b"
         /\ pattern = "Plus" => n >= 1
         /\ pattern = "Restricted" => n = NumOfLoop
         /\ pattern = "Star" => \A k \in m[1] .. m[n + 2] : input[k].sym = "b" => k \in ToSet(m)

\* No match has a negated event between its events: in the FirstMatchEngine,
\* and in the NextMatchEngine until runGCstructures has left a negated
\* structure in the pool (it takes half of them, the rest go on matching).
NegationRespected ==
  pattern \in {"negated", "negatedTwice", "negatedEnd"} /\ ~uncollected =>
    \A i \in DOMAIN published :
      \A k \in published[i][1] + 1 .. Last(published[i]) :
        input[k].sym # "b" /\ (pattern = "negatedTwice" => input[k].sym # "a")

\* The related values of a structure are those of its events, and of no other
\* structure that saw the same input: the sum, the smallest, the last, and the
\* largest if it is positive.
RelatedOwn ==
  \A i \in DOMAIN pool :
    LET s == pool[i]
        vs == {input[s.events[j]].val : j \in DOMAIN s.events}
    IN /\ s.related.previous = input[Last(s.events)].val
       /\ s.related.sum = MapThenSumSet(LAMBDA j : input[s.events[j]].val, DOMAIN s.events)
       /\ s.related.min = Min(vs)
       /\ s.related.max = Max(vs \union {0})

\* What is left in the pool is either still running or waits in the list of
\* the collector; what the list names that is no longer in the pool was
\* collected before.  The pool of the FirstMatchEngine has one structure at most.
PoolAccounted ==
  /\ engine = "First" => Len(pool) <= 1 /\ deleted = <<>>
  /\ \A s \in ToSet(pool) : s.complete => s.id \in ToSet(deleted)
  /\ counter = Len(published)

\* ~ThreadPool returns only when every job was run, each once.
JobsRun ==
  /\ shutdown /\ (\A w \in Workers : worker[w] = "exited") => queue = <<>>
  /\ \A i, j \in DOMAIN done : i # j => done[i] # done[j]

\* ~ThreadPool does return: all its threads end, although it sets the flag
\* without the mutex, after a thread may have tested it and before it sleeps.
PoolEnds == shutdown ~> (\A w \in Workers : worker[w] = "exited")

\* The engines find the matches of the definition, each once, with the Kleene states,
\* negations and related values it asks for, with what is left in the pool accounted
\* for; and the thread pool runs every job once (CEPEngine, the engines, ThreadPool).
MatchesExact ==
  /\ NextMatchesAll /\ FirstMatchesApart
  /\ KleeneCounted /\ NegationRespected /\ RelatedOwn
  /\ PoolAccounted /\ JobsRun
=============================================================================
