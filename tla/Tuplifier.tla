------------------------------ MODULE Tuplifier ------------------------------
(***************************************************************************)
(* Tuplifier: RDF triples with the same subject are collected in a buffer  *)
(* and published as one tuple, in one of four modes.  With a window size   *)
(* the notifier's thread publishes buffered tuples as well.  The notifier  *)
(* and addToBuffer take bufMtx; the scans of the data thread do not.       *)
(***************************************************************************)
EXTENDS Integers, Sequences, SequencesExt

CONSTANTS TuplifierModes,  \* modes to run, of {"ORDERED","WINDOW","PUNCTUATED","COMPLETED"}, or "none"
          Triples,         \* records [subj, pred, obj]
          Predicates,      \* the predicate list of the tuplifier
          MaxTriples,      \* bound: triples and punctuations received
          NoSubject        \* the empty string: no currentSubj, a field that is not set

VARIABLES mode,         \* the mode
          notifies,     \* a notifier exists (window size > 0)
          tupleBuffer,  \* buffered triples of each subject, in order of arrival
          currentSubj,
          scan,         \* scan[t]: the subjects thread t still has to visit
          inHand,       \* inHand[t]: the tuple thread t has published and not yet erased
          received,     \* all triples and punctuations received
          tuples,       \* all tuples published, and after how many received elements
          raced         \* the two threads scanned the buffer at the same time

tuplifierVars == <<mode, notifies, tupleBuffer, currentSubj, scan, inHand, received, tuples, raced>>

Subjects == {t.subj : t \in Triples}
Punctuation == [subj |-> NoSubject, pred |-> NoSubject, obj |-> NoSubject]
Scanners == {"data", "notifier"}

TuplifierInit ==
  /\ mode \in TuplifierModes
  /\ notifies \in (IF mode = "none" THEN {FALSE} ELSE BOOLEAN)
  /\ tupleBuffer = [s \in Subjects |-> <<>>]
  /\ currentSubj = NoSubject
  /\ scan = [t \in Scanners |-> {}]
  /\ inHand = [t \in Scanners |-> NoSubject]
  /\ received = <<>>
  /\ tuples = <<>>
  /\ raced = FALSE

Busy(t) == scan[t] # {} \/ inHand[t] # NoSubject

\* Mutant of Complete: a tuple counts as complete one predicate too early.
CompleteEarly(buffer) == {s \in Subjects : Len(buffer[s]) >= Cardinality(Predicates) - 1 /\ buffer[s] # <<>>}

\* The buffered subjects with as many triples as there are predicates.
Complete(buffer) == {s \in Subjects : Len(buffer[s]) = Cardinality(Predicates)}
Buffered(buffer) == {s \in Subjects : buffer[s] # <<>>}

\* Triples with other predicates are dropped.
addToBuffer(t) ==
  IF t.pred \in Predicates THEN [tupleBuffer EXCEPT ![t.subj] = Append(@, t)] ELSE tupleBuffer

\* The positions of triples with predicate p in a list.
TriplesWith(triples, p) == {i \in DOMAIN triples : triples[i].pred = p}

\* Mutant of Tuple: the first triple of a predicate sets its field.
TupleFirst(triples) ==
  [subj |-> triples[1].subj, at |-> Len(received),
   fields |-> [p \in Predicates |-> IF TriplesWith(triples, p) = {} THEN NoSubject ELSE triples[Min(TriplesWith(triples, p))].obj]]

\* The tuple made of a list of triples.  Each triple sets the field of its
\* predicate: of several with the same predicate the last one remains.
Tuple(triples) ==
  [subj |-> triples[1].subj, at |-> Len(received),
   fields |-> [p \in Predicates |-> IF TriplesWith(triples, p) = {} THEN NoSubject ELSE triples[Max(TriplesWith(triples, p))].obj]]

\* produceTupleForSubject: publish the tuple of s, if any, and erase it.
produceTupleForSubject(s) ==
  IF s = NoSubject \/ tupleBuffer[s] = <<>>
  THEN [buffer |-> tupleBuffer, out |-> <<>>]
  ELSE [buffer |-> [tupleBuffer EXCEPT ![s] = <<>>], out |-> <<Tuple(tupleBuffer[s])>>]

\* Mutant of processOrdered: the test for the current subject is missing.
processOrderedAlways(t) ==
  LET prev == produceTupleForSubject(currentSubj)
  IN /\ tupleBuffer' = IF t.pred \in Predicates
                       THEN [prev.buffer EXCEPT ![t.subj] = Append(@, t)] ELSE prev.buffer
     /\ tuples' = tuples \o prev.out
     /\ currentSubj' = t.subj

\* ORDERED: a triple of another subject publishes the tuple of the current one.
processOrdered(t) ==
  LET prev == IF currentSubj \in {NoSubject, t.subj} THEN [buffer |-> tupleBuffer, out |-> <<>>]
              ELSE produceTupleForSubject(currentSubj)
  IN /\ tupleBuffer' = IF t.pred \in Predicates
                       THEN [prev.buffer EXCEPT ![t.subj] = Append(@, t)] ELSE prev.buffer
     /\ tuples' = tuples \o prev.out
     /\ currentSubj' = t.subj

\* In ORDERED mode the previous tuple is published before bufMtx is taken.
Publishes(t) == mode = "ORDERED" /\ currentSubj \notin {NoSubject, t.subj}

\* processDataElement of the data thread.
processTriple(t) ==
  /\ ~Busy("data")
  /\ Busy("notifier") => Publishes(t)             \* addToBuffer waits for bufMtx
  /\ Len(received) < MaxTriples
  /\ received' = Append(received, t)
  /\ IF mode = "ORDERED"
     THEN processOrdered(t) /\ UNCHANGED scan
     ELSE /\ tupleBuffer' = addToBuffer(t)
          /\ scan' = [scan EXCEPT !["data"] =
                        IF mode = "COMPLETED" THEN Complete(tupleBuffer') ELSE {}]
          /\ UNCHANGED <<tuples, currentSubj>>
  /\ raced' = (raced \/ Busy("notifier"))
  /\ UNCHANGED <<mode, notifies, inHand>>

\* processPunctuation: publishes the current tuple (ORDERED; currentSubj stays)
\* or all of them, without taking bufMtx.
processTuplifierPunctuation ==
  /\ ~Busy("data")
  /\ Len(received) < MaxTriples
  /\ received' = Append(received, Punctuation)
  /\ IF mode = "ORDERED"
     THEN LET p == produceTupleForSubject(currentSubj)
          IN tupleBuffer' = p.buffer /\ tuples' = tuples \o p.out /\ UNCHANGED scan
     ELSE scan' = [scan EXCEPT !["data"] = Buffered(tupleBuffer)] /\ UNCHANGED <<tupleBuffer, tuples>>
  /\ raced' = (raced \/ Busy("notifier"))
  /\ UNCHANGED <<mode, notifies, currentSubj, inHand>>

\* notificationCallback takes bufMtx and starts produceOutdatedTuples; the
\* tuples that count as outdated are those without an arrival time, which is
\* all of them when there is no timestamp extractor.
notify ==
  /\ notifies
  /\ ~Busy("notifier")
  /\ Buffered(tupleBuffer) # {}
  /\ scan' = [scan EXCEPT !["notifier"] = Buffered(tupleBuffer)]
  /\ raced' = (raced \/ Busy("data"))
  /\ UNCHANGED <<mode, notifies, tupleBuffer, currentSubj, inHand, received, tuples>>

\* A scan publishes the tuple of the next subject ...
produceTuple(t) ==
  /\ inHand[t] = NoSubject
  /\ \E s \in scan[t] :
       /\ tuples' = IF tupleBuffer[s] = <<>> THEN tuples ELSE Append(tuples, Tuple(tupleBuffer[s]))
       /\ inHand' = [inHand EXCEPT ![t] = s]
       /\ scan' = [scan EXCEPT ![t] = @ \ {s}]
  /\ UNCHANGED <<mode, notifies, tupleBuffer, currentSubj, received, raced>>

\* Mutant of eraseTuple: the published tuple stays in the buffer.
eraseTupleNot(t) ==
  /\ inHand[t] # NoSubject
  /\ inHand' = [inHand EXCEPT ![t] = NoSubject]
  /\ UNCHANGED <<mode, notifies, tupleBuffer, currentSubj, scan, received, tuples, raced>>

\* ... and erases it before it goes on.
eraseTuple(t) ==
  /\ inHand[t] # NoSubject
  /\ tupleBuffer' = [tupleBuffer EXCEPT ![inHand[t]] = <<>>]
  /\ inHand' = [inHand EXCEPT ![t] = NoSubject]
  /\ UNCHANGED <<mode, notifies, currentSubj, scan, received, tuples, raced>>

TuplifierNext ==
  /\ mode # "none"
  /\ \/ \E t \in Triples : processTriple(t)
     \/ processTuplifierPunctuation
     \/ notify
     \/ \E t \in Scanners : produceTuple(t) \/ eraseTuple(t)

----------------------------------------------------------------------------
Settled == ~Busy("data") /\ ~Busy("notifier")

\* The wanted triples of subject s among the received elements first + 1 .. last.
Between(s, first, last) ==
  SelectSeq(SubSeq(received, first + 1, last), LAMBDA t : t.subj = s /\ t.pred \in Predicates)

\* How many elements had been received when the tuple of s before the k-th
\* tuple was published.
PublishedBefore(s, k) == Max({0} \union {tuples[j].at : j \in {i \in 1 .. k - 1 : tuples[i].subj = s}})

\* What becomes of every triple: the tuple of a subject holds, in the field of
\* each predicate, the object that arrived last since the previous tuple of
\* that subject, so a triple is lost exactly when another one of its subject
\* and predicate arrives before the tuple is published; no tuple is empty, and
\* what arrived after the last tuple is buffered in order.  This holds as long
\* as the data thread and the notifier did not scan the buffer together (only
\* the notifier takes bufMtx for its scan).
TriplesAccounted ==
  Settled /\ ~raced =>
    /\ \A k \in DOMAIN tuples :
         LET since == Between(tuples[k].subj, PublishedBefore(tuples[k].subj, k), tuples[k].at)
         IN /\ since # <<>>
            /\ \A p \in Predicates :
                 LET objs == SelectSeq(since, LAMBDA t : t.pred = p)
                 IN tuples[k].fields[p] = IF objs = <<>> THEN NoSubject ELSE Last(objs).obj
    /\ \A s \in Subjects :
         tupleBuffer[s] = Between(s, PublishedBefore(s, Len(tuples) + 1), Len(received))

\* COMPLETED publishes complete tuples only: without a notifier or a
\* punctuation a tuple has a triple for every predicate, provided no
\* (subject, predicate) pair occurs twice (matches counts repetitions too).
CompletedTuples ==
  mode = "COMPLETED" /\ ~notifies /\ ~Contains(received, Punctuation)
    /\ (\A i, j \in DOMAIN received : i # j => \/ received[i].subj # received[j].subj
                                              \/ received[i].pred # received[j].pred)
  => \A k \in DOMAIN tuples, p \in Predicates : tuples[k].fields[p] # NoSubject

\* ORDERED keeps the triples of a subject together: two tuples that follow
\* each other have different subjects unless a punctuation split them.
OrderedTuples ==
  mode = "ORDERED" /\ ~notifies /\ ~Contains(received, Punctuation) =>
    \A k \in 1 .. Len(tuples) - 1 :
      (\A i, j \in DOMAIN received : (i < j /\ received[i].subj = received[j].subj) =>
          \A m \in i .. j : received[m].subj = received[i].subj)
      => tuples[k].subj # tuples[k + 1].subj
=============================================================================
