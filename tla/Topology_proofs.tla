--------------------------- MODULE Topology_proofs ---------------------------
(***************************************************************************)
(* Proofs that the life of a topology is in order (wait returns only when  *)
(* every start function it waits for has finished, and a program that      *)
(* waits destroys no operator that is still published to) and that its     *)
(* sources are accounted for (no stream is published in part, a message of *)
(* a broker is lost only where the code gives it up, and nothing follows   *)
(* the end of a stream).                                                   *)
(***************************************************************************)
EXTENDS Topology, SequenceTheorems, FiniteSetTheorems, WellFoundedInduction, NaturalsInduction, TLAPS

-----------------------------------------------------------------------------
(* The inductive invariant.                                                *)

\* The lists are sequences; a run keeps its caller and its pc, a future its
\* run and whether it can be waited for.
LifeType ==
    /\ sources \in Seq(Range(sources))
    /\ runs \in Seq(Range(runs))
    /\ startupFutures \in Seq(Range(startupFutures))
    /\ \A k \in DOMAIN runs : {"by", "pc"} \subseteq DOMAIN runs[k]
    /\ \A i \in DOMAIN startupFutures :
          /\ startupFutures[i] = [run |-> startupFutures[i].run, valid |-> startupFutures[i].valid]
          /\ startupFutures[i].run \in DOMAIN runs
    /\ main = [call |-> main.call, at |-> main.at] /\ main.at \in Nat

\* A function that startAsync called and that has not returned has a future
\* that nobody has consumed: a wait, or the destructor of the future, waits
\* for it.
FutureInv ==
    \A k \in DOMAIN runs : runs[k].by = "future" /\ Active(runs[k]) =>
        \E i \in DOMAIN startupFutures : startupFutures[i].run = k /\ startupFutures[i].valid

\* wait has consumed the futures before the one it is at.
WaitInv ==
    main.call = "wait" =>
        \A i \in DOMAIN startupFutures : i < main.at => ~startupFutures[i].valid

\* The main thread and the thread of runEvery are in a start function only
\* while their own code is.
CallerInv ==
    /\ main.call \notin {"start", "terminated"} => Returned("main")
    /\ timer # "running" => Returned("timer")

\* Every run is of one of the three callers.
ByInv == \A k \in DOMAIN runs : runs[k].by \in {"future", "main", "timer"}

\* While the topology is being destroyed no thread calls start functions.
DestroyInv ==
    main.call \in {"destroying", "destroyed"} =>
        /\ timer \notin {"sleeping", "running"}
        /\ careful => Returned("future")

LifeInv == LifeType /\ ByInv /\ FutureInv /\ WaitInv /\ CallerInv /\ DestroyInv /\ WaitedFinished

-----------------------------------------------------------------------------
(* Sequences, without a set their elements are from.                       *)

LEMMA FcnIsSeq ==
  ASSUME NEW n \in Nat, NEW f, f = [i \in 1 .. n |-> f[i]]
  PROVE  f \in Seq(Range(f)) /\ Len(f) = n /\ DOMAIN f = 1 .. n
<1> DEFINE R == Range(f)
<1>1. DOMAIN f = 1 .. n
  OBVIOUS
<1>2. \A i \in 1 .. n : f[i] \in R
  BY <1>1 DEF Range
<1> HIDE DEF R
<1>3. f \in [1 .. n -> R]
  BY <1>2
<1>4. f \in Seq(R) /\ Len(f) = n
  BY <1>3
<1> QED BY <1>1, <1>4 DEF R

LEMMA SeqFacts ==
  ASSUME NEW s, s \in Seq(Range(s))
  PROVE  /\ Len(s) \in Nat /\ DOMAIN s = 1 .. Len(s)
         /\ s = [i \in 1 .. Len(s) |-> s[i]]
<1>1. PICK S : s \in Seq(S)
  OBVIOUS
<1> QED BY <1>1

LEMMA AppendFacts ==
  ASSUME NEW s, s \in Seq(Range(s)), NEW e
  PROVE  /\ Append(s, e) \in Seq(Range(Append(s, e)))
         /\ DOMAIN Append(s, e) = 1 .. Len(s) + 1
         /\ \A i \in DOMAIN s : Append(s, e)[i] = s[i]
         /\ Append(s, e)[Len(s) + 1] = e
         /\ Len(s) \in Nat /\ DOMAIN s = 1 .. Len(s)
<1> DEFINE a == Append(s, e)
<1>0. Len(s) \in Nat /\ DOMAIN s = 1 .. Len(s)
  BY SeqFacts
<1>1. PICK S : s \in Seq(S)
  OBVIOUS
<1>2. s \in Seq(S \cup {e})
  BY <1>0, <1>1, SeqDef
<1>3. a \in Seq(S \cup {e}) /\ Len(a) = Len(s) + 1
  BY <1>2
<1>4. /\ \A i \in 1 .. Len(s) : a[i] = s[i]
      /\ a[Len(s) + 1] = e
  BY <1>2
<1> HIDE DEF a
<1>5. a = [i \in 1 .. Len(s) + 1 |-> a[i]]
  BY <1>3, <1>0
<1>6. a \in Seq(Range(a)) /\ DOMAIN a = 1 .. Len(s) + 1
  BY <1>5, <1>0, FcnIsSeq
<1> QED BY <1>0, <1>4, <1>6 DEF a

LEMMA ConcatFacts ==
  ASSUME NEW s, s \in Seq(Range(s)), NEW t, t \in Seq(Range(t))
  PROVE  /\ s \o t \in Seq(Range(s \o t))
         /\ DOMAIN (s \o t) = 1 .. Len(s) + Len(t)
         /\ \A i \in 1 .. Len(s) : (s \o t)[i] = s[i]
         /\ \A i \in 1 .. Len(t) : (s \o t)[Len(s) + i] = t[i]
         /\ \A i \in 1 .. Len(s) + Len(t) : i <= Len(s) \/ (i - Len(s) \in 1 .. Len(t) /\ (s \o t)[i] = t[i - Len(s)])
         /\ Len(s) \in Nat /\ DOMAIN s = 1 .. Len(s)
         /\ Len(t) \in Nat /\ DOMAIN t = 1 .. Len(t)
<1> DEFINE a == s \o t
<1>0. Len(s) \in Nat /\ DOMAIN s = 1 .. Len(s) /\ Len(t) \in Nat /\ DOMAIN t = 1 .. Len(t)
  BY SeqFacts
<1>1. PICK S : s \in Seq(S)
  OBVIOUS
<1>2. PICK T : t \in Seq(T)
  OBVIOUS
<1>3. s \in Seq(S \cup T)
  BY <1>0, <1>1, SeqDef
<1>4. t \in Seq(S \cup T)
  BY <1>0, <1>2, SeqDef
<1>5. a \in Seq(S \cup T) /\ Len(a) = Len(s) + Len(t)
  BY <1>3, <1>4
<1>6. \A i \in 1 .. Len(s) + Len(t) : a[i] = IF i <= Len(s) THEN s[i] ELSE t[i - Len(s)]
  BY <1>3, <1>4, <1>0
<1> HIDE DEF a
<1>n. PICK n \in Nat : n = Len(s) + Len(t)
  BY <1>0
<1>7. a = [i \in 1 .. n |-> a[i]]
  BY <1>5, <1>0, <1>n
<1>8. a \in Seq(Range(a)) /\ DOMAIN a = 1 .. Len(s) + Len(t)
  BY <1>7, <1>n, FcnIsSeq
<1>9. \A i \in 1 .. Len(s) : a[i] = s[i]
  BY <1>6, <1>0
<1>10. \A i \in 1 .. Len(t) : a[Len(s) + i] = t[i]
  <2> TAKE i \in 1 .. Len(t)
  <2>1. Len(s) + i \in 1 .. Len(s) + Len(t) /\ ~(Len(s) + i <= Len(s)) /\ Len(s) + i - Len(s) = i
    BY <1>0
  <2> QED BY <2>1, <1>6
<1>11. \A i \in 1 .. Len(s) + Len(t) : i <= Len(s) \/ (i - Len(s) \in 1 .. Len(t) /\ a[i] = t[i - Len(s)])
  BY <1>6, <1>0
<1> QED BY <1>0, <1>8, <1>9, <1>10, <1>11 DEF a

LEMMA ExceptFacts ==
  ASSUME NEW s, s \in Seq(Range(s)), NEW k, NEW e
  PROVE  /\ [s EXCEPT ![k] = e] \in Seq(Range([s EXCEPT ![k] = e]))
         /\ DOMAIN [s EXCEPT ![k] = e] = DOMAIN s
         /\ k \in DOMAIN s => [s EXCEPT ![k] = e][k] = e
         /\ \A i \in DOMAIN s \ {k} : [s EXCEPT ![k] = e][i] = s[i]
         /\ Len([s EXCEPT ![k] = e]) = Len(s)
<1> DEFINE a == [s EXCEPT ![k] = e]
<1>0. Len(s) \in Nat /\ DOMAIN s = 1 .. Len(s)
  BY SeqFacts
<1>1. /\ DOMAIN a = 1 .. Len(s)
      /\ k \in DOMAIN s => a[k] = e
      /\ \A i \in DOMAIN s \ {k} : a[i] = s[i]
  BY <1>0
<1>2. a = [i \in 1 .. Len(s) |-> a[i]]
  BY <1>0
<1> HIDE DEF a
<1>3. a \in Seq(Range(a)) /\ Len(a) = Len(s)
  BY <1>0, <1>2, FcnIsSeq
<1> QED BY <1>0, <1>1, <1>3 DEF a

-----------------------------------------------------------------------------
(* The sources stay a sequence.                                            *)

LEMMA SourcesSeq ==
  ASSUME sources \in Seq(Range(sources)), Next
  PROVE  (sources \in Seq(Range(sources)))'
<1>1. CASE UNCHANGED sources
  BY <1>1 DEF Range
<1>2. ASSUME NEW s, sources' = Append(sources, s) PROVE (sources \in Seq(Range(sources)))'
  <2>1. Append(sources, s) \in Seq(Range(Append(sources, s)))
    BY AppendFacts
  <2> QED BY <2>1, <1>2 DEF Range
<1>3. ASSUME NEW i, NEW e, sources' = [sources EXCEPT ![i] = e] PROVE (sources \in Seq(Range(sources)))'
  <2>1. [sources EXCEPT ![i] = e] \in Seq(Range([sources EXCEPT ![i] = e]))
    BY ExceptFacts
  <2> QED BY <2>1, <1>3 DEF Range
<1>4. CASE Constructing
  <2>1. ASSUME NEW kind, newStreamFrom(kind) PROVE \E s : sources' = Append(sources, s)
    BY <2>1 DEF newStreamFrom
  <2>2. CASE SourceMethods
    BY <2>1, <2>2, <1>2 DEF SourceMethods, newStreamFromFile, newStreamFromREST, newStreamFromRabbitMQ,
       newStreamFromKafka, newStreamFromMQTT, newAsciiStreamFromZMQ, selectFromTable,
       streamFromGenerator, newStreamFromMemory
  <2>3. CASE UNCHANGED lifeVars
    BY <2>3, <1>1 DEF lifeVars
  <2> QED BY <1>4, <2>2, <2>3 DEF Constructing, Building, newStreamFromTable, newStreamFromMatrix,
       createStream, fromStream
<1>5. CASE prepare
  <2>1. PICK n \in Nat : DOMAIN sources = 1 .. n
    BY SeqFacts
  <2>2. sources' = [i \in 1 .. n |-> sources'[i]]
    BY <1>5, <2>1 DEF prepare
  <2>3. PICK t : t = sources'
    OBVIOUS
  <2>4. t \in Seq(Range(t))
    BY <2>2, <2>3, FcnIsSeq
  <2> QED BY <2>3, <2>4 DEF Range
<1>6. ASSUME NEW i, zmqStop(i) \/ ZmqThread(i) \/ Send(i) \/ Disconnect(i)
      PROVE  UNCHANGED sources \/ \E j, e : sources' = [sources EXCEPT ![j] = e]
  <2>1. CASE zmqStop(i)
    BY <2>1 DEF zmqStop
  <2>2. CASE ZmqThread(i)
    BY <2>2 DEF ZmqThread
  <2>3. CASE Send(i)
    BY <2>3 DEF Send
  <2>4. CASE Disconnect(i)
    BY <2>4 DEF Disconnect
  <2> QED BY <1>6, <2>1, <2>2, <2>3, <2>4
<1>10. ASSUME constructorPoll
       PROVE  UNCHANGED sources \/ \E j, e : sources' = [sources EXCEPT ![j] = e]
  BY <1>10 DEF constructorPoll
<1>7. ASSUME NEW k, RunStep(k)
      PROVE  UNCHANGED sources \/ \E j, e : sources' = [sources EXCEPT ![j] = e]
  BY <1>7 DEF RunStep
<1>8. CASE Crash
  <2>1. PICK t : sources' = <<t>>
    BY <1>8 DEF Crash
  <2>2. PICK s : s = <<t>>
    OBVIOUS
  <2>3. s = [i \in 1 .. 1 |-> s[i]]
    BY <2>2
  <2>4. s \in Seq(Range(s))
    BY <2>3, FcnIsSeq
  <2> QED BY <2>1, <2>2, <2>4 DEF Range
<1>9. CASE \/ startAsync \/ start \/ startNext \/ wait \/ waitNext \/ waitReturns \/ cleanStartupFunctions
           \/ runEvery \/ timerRound \/ stopThreads \/ destroyBegin \/ destroy
  BY <1>9, <1>1 DEF startAsync, start, startNext, wait, waitNext, waitReturns, cleanStartupFunctions,
     runEvery, timerRound, stopThreads, destroyBegin, destroy
<1> QED BY <1>1, <1>3, <1>4, <1>5, <1>6, <1>7, <1>8, <1>9, <1>10 DEF Next, Life, Wait

-----------------------------------------------------------------------------
(* The calls of the main thread, of the thread of runEvery, and the steps  *)
(* of the start functions.                                                 *)

\* What the invariant says of the runs, one by one.
LEMMA ReturnedOf ==
  ASSUME NEW by
  PROVE  Returned(by) <=> \A k \in DOMAIN runs : runs[k].by = by => runs[k].pc = "done"
BY DEF Returned, Range, Active

LEMMA NextReturnedOf ==
  ASSUME NEW by
  PROVE  Returned(by)' <=> \A k \in DOMAIN runs' : runs'[k].by = by => runs'[k].pc = "done"
BY DEF Returned, Range, Active

\* Steps that change neither a run nor a future nor the calls.
LEMMA FrameKeeps ==
  ASSUME LifeInv, (sources \in Seq(Range(sources)))',
         UNCHANGED <<runs, startupFutures, main, timer, careful>>
  PROVE  LifeInv'
<1>1. LifeType'
  BY DEF LifeInv, LifeType, Range
<1>2. ByInv' /\ FutureInv' /\ WaitInv' /\ CallerInv' /\ DestroyInv' /\ WaitedFinished'
  BY DEF LifeInv, ByInv, FutureInv, WaitInv, CallerInv, DestroyInv, WaitedFinished, Active, Returned, Range
<1> QED BY <1>1, <1>2 DEF LifeInv

\* Steps of the main thread, or of runEvery, that call no start function and
\* consume no future.
LEMMA CallKeeps ==
  ASSUME LifeInv, (sources \in Seq(Range(sources)))', UNCHANGED <<runs, startupFutures>>,
         NEW c, NEW n \in Nat, main' = [call |-> c, at |-> n],
         c = "wait" => n <= 1,
         c \notin {"start", "terminated"} => Returned("main"),
         timer' # "running" => Returned("timer"),
         c \in {"destroying", "destroyed"} =>
            timer' \notin {"sleeping", "running"} /\ (careful' => Returned("future")),
         c = "waited" => Returned("future")
  PROVE  LifeInv'
<1>1. main'.call = c /\ main'.at = n
  OBVIOUS
<1>2. LifeType'
  BY <1>1 DEF LifeInv, LifeType, Range
<1>3. ByInv' /\ FutureInv'
  BY DEF LifeInv, ByInv, FutureInv, Active
<1>4. WaitInv'
  <2>1. \A i \in DOMAIN startupFutures : i \in Nat /\ i >= 1
    <3>1. startupFutures \in Seq(Range(startupFutures))
      BY DEF LifeInv, LifeType
    <3>2. Len(startupFutures) \in Nat /\ DOMAIN startupFutures = 1 .. Len(startupFutures)
      BY <3>1, SeqFacts
    <3> QED BY <3>2
  <2> QED BY <1>1, <2>1 DEF WaitInv
<1>5. \A by : Returned(by)' = Returned(by)
  BY DEF Returned, Active, Range
<1>6. CallerInv' /\ DestroyInv' /\ WaitedFinished'
  BY <1>1, <1>5 DEF CallerInv, DestroyInv, WaitedFinished
<1> QED BY <1>2, <1>3, <1>4, <1>6 DEF LifeInv

\* A start function is called, in the thread of the caller.
LEMMA CalledKeeps ==
  ASSUME LifeInv, (sources \in Seq(Range(sources)))', UNCHANGED startupFutures,
         NEW j, NEW by \in {"main", "timer"}, runs' = Append(runs, NewRun(j, by)),
         main' = [call |-> main'.call, at |-> main'.at], main'.at \in Nat,
         main'.call # "wait" \/ main' = main,
         main'.call # "waited" \/ main' = main,
         main'.call \in {"destroying", "destroyed"} => main' = main /\ careful' = careful /\ by # "timer",
         by = "main" => main'.call = "start",
         by = "main" \/ main'.call \in {"start", "terminated"} \/ main' = main,
         by = "timer" => timer' = "running",
         by = "main" => timer' = timer
  PROVE  LifeInv'
<1> DEFINE r == NewRun(j, by)
<1>0. /\ runs \in Seq(Range(runs)) /\ startupFutures \in Seq(Range(startupFutures))
      /\ \A k \in DOMAIN runs : {"by", "pc"} \subseteq DOMAIN runs[k]
      /\ \A i \in DOMAIN startupFutures :
          /\ startupFutures[i] = [run |-> startupFutures[i].run, valid |-> startupFutures[i].valid]
          /\ startupFutures[i].run \in DOMAIN runs
  BY DEF LifeInv, LifeType
<1>r. r.by = by /\ r.pc = "start" /\ {"by", "pc"} \subseteq DOMAIN r
  BY DEF NewRun
<1> HIDE DEF r
<1>1. PICK s : s = runs
  OBVIOUS
<1>2. PICK t : t = Append(s, r)
  OBVIOUS
<1>3. /\ t \in Seq(Range(t)) /\ DOMAIN t = 1 .. Len(s) + 1
      /\ \A i \in DOMAIN s : t[i] = s[i]
      /\ t[Len(s) + 1] = r
      /\ Len(s) \in Nat /\ DOMAIN s = 1 .. Len(s)
  BY <1>0, <1>1, <1>2, AppendFacts
<1>4. runs' = t
  BY <1>1, <1>2 DEF r
<1>5. DOMAIN t = DOMAIN s \cup {Len(s) + 1}
  BY <1>3
<1>6. (runs \in Seq(Range(runs)))'
  BY <1>3, <1>4 DEF Range
<1>7. LifeType'
  <2>1. \A k \in DOMAIN runs' : {"by", "pc"} \subseteq DOMAIN runs'[k]
    BY <1>0, <1>1, <1>3, <1>4, <1>5, <1>r, ZenonT(60)
  <2>2. (startupFutures \in Seq(Range(startupFutures)))'
    BY <1>0 DEF Range
  <2>3. DOMAIN runs \subseteq DOMAIN runs'
    BY <1>1, <1>4, <1>5
  <2> QED BY <1>0, <1>6, <2>1, <2>2, <2>3 DEF LifeType
<1>8. ByInv'
  BY <1>1, <1>3, <1>4, <1>5, <1>r DEF LifeInv, ByInv
<1>9. FutureInv'
  BY <1>1, <1>3, <1>4, <1>5, <1>r DEF LifeInv, FutureInv, Active
<1>10. WaitInv'
  BY DEF LifeInv, WaitInv
<1>11. ASSUME NEW b, b # by, Returned(b) PROVE Returned(b)'
  BY <1>1, <1>3, <1>4, <1>5, <1>r, <1>11, ReturnedOf, NextReturnedOf
<1>12. CallerInv'
  BY <1>11 DEF LifeInv, CallerInv
<1>13. DestroyInv' /\ WaitedFinished'
  BY <1>11 DEF LifeInv, DestroyInv, WaitedFinished
<1> QED BY <1>7, <1>8, <1>9, <1>10, <1>12, <1>13 DEF LifeInv

LEMMA StartAsyncKeeps ==
  ASSUME LifeInv, (sources \in Seq(Range(sources)))', startAsync
  PROVE  LifeInv'
<1> DEFINE new == [i \in DOMAIN sources |-> NewRun(i, "future")]
           fut == [i \in DOMAIN sources |-> [run |-> Len(runs) + i, valid |-> TRUE]]
<1>0. /\ runs \in Seq(Range(runs)) /\ startupFutures \in Seq(Range(startupFutures))
      /\ sources \in Seq(Range(sources))
      /\ \A k \in DOMAIN runs : {"by", "pc"} \subseteq DOMAIN runs[k]
      /\ \A i \in DOMAIN startupFutures :
          /\ startupFutures[i] = [run |-> startupFutures[i].run, valid |-> startupFutures[i].valid]
          /\ startupFutures[i].run \in DOMAIN runs
      /\ main = [call |-> main.call, at |-> main.at] /\ main.at \in Nat
  BY DEF LifeInv, LifeType
<1>1. PICK s : s = runs
  OBVIOUS
<1>2. PICK f : f = startupFutures
  OBVIOUS
<1>n. PICK n \in Nat : DOMAIN sources = 1 .. n
  BY <1>0, SeqFacts
<1>3. PICK nr : nr = [i \in 1 .. n |-> NewRun(i, "future")]
  OBVIOUS
<1>4. PICK nf : nf = [i \in 1 .. n |-> [run |-> Len(s) + i, valid |-> TRUE]]
  OBVIOUS
<1>5. PICK t : t = s \o nr
  OBVIOUS
<1>6. PICK g : g = f \o nf
  OBVIOUS
<1>7. /\ runs' = t /\ startupFutures' = g
      /\ main' = main /\ timer' = timer /\ main.call = "free"
  BY <1>1, <1>2, <1>n, <1>3, <1>4, <1>5, <1>6 DEF startAsync, Free
<1>8. nr = [i \in 1 .. n |-> nr[i]] /\ nf = [i \in 1 .. n |-> nf[i]]
  BY <1>3, <1>4
<1>9. nr \in Seq(Range(nr)) /\ Len(nr) = n
  BY <1>8, FcnIsSeq
<1>10. nf \in Seq(Range(nf)) /\ Len(nf) = n
  BY <1>8, FcnIsSeq
<1>11. \A i \in 1 .. n : /\ nr[i].by = "future" /\ nr[i].pc = "start" /\ {"by", "pc"} \subseteq DOMAIN nr[i]
                         /\ nf[i] = [run |-> Len(s) + i, valid |-> TRUE]
  BY <1>3, <1>4 DEF NewRun
<1>12. /\ t \in Seq(Range(t)) /\ DOMAIN t = 1 .. Len(s) + n
       /\ \A i \in 1 .. Len(s) : t[i] = s[i]
       /\ \A i \in 1 .. Len(s) + n : i <= Len(s) \/ (i - Len(s) \in 1 .. n /\ t[i] = nr[i - Len(s)])
       /\ Len(s) \in Nat /\ DOMAIN s = 1 .. Len(s)
  BY <1>0, <1>1, <1>5, <1>9, ConcatFacts
<1>13. /\ g \in Seq(Range(g)) /\ DOMAIN g = 1 .. Len(f) + n
       /\ \A i \in 1 .. Len(f) : g[i] = f[i]
       /\ \A i \in 1 .. n : g[Len(f) + i] = nf[i]
       /\ \A i \in 1 .. Len(f) + n : i <= Len(f) \/ (i - Len(f) \in 1 .. n /\ g[i] = nf[i - Len(f)])
       /\ Len(f) \in Nat /\ DOMAIN f = 1 .. Len(f)
  BY <1>0, <1>2, <1>6, <1>10, ConcatFacts, SMTT(60)
<1>14. \A k \in DOMAIN t :
          \/ k \in DOMAIN s /\ t[k] = s[k]
          \/ k - Len(s) \in 1 .. n /\ k \notin DOMAIN s /\ t[k] = nr[k - Len(s)]
  BY <1>12
<1>15. \A k \in DOMAIN g :
          \/ k \in DOMAIN f /\ g[k] = f[k]
          \/ k - Len(f) \in 1 .. n /\ k \notin DOMAIN f /\ g[k] = nf[k - Len(f)]
  BY <1>13
<1>16. DOMAIN s \subseteq DOMAIN t /\ DOMAIN f \subseteq DOMAIN g
  BY <1>12, <1>13
<1>17. (runs \in Seq(Range(runs)) /\ startupFutures \in Seq(Range(startupFutures)))'
  BY <1>7, <1>12, <1>13 DEF Range
<1>18. \A k \in DOMAIN t : {"by", "pc"} \subseteq DOMAIN t[k]
  <2> TAKE k \in DOMAIN t
  <2>1. CASE k \in DOMAIN s /\ t[k] = s[k]
    BY <2>1, <1>0, <1>1
  <2>2. ASSUME NEW j \in 1 .. n PROVE {"by", "pc"} \subseteq DOMAIN nr[j]
    BY <1>11
  <2> QED BY <1>14, <2>1, <2>2
<1>19. \A i \in DOMAIN g : g[i] = [run |-> g[i].run, valid |-> g[i].valid] /\ g[i].run \in DOMAIN t
  <2> TAKE i \in DOMAIN g
  <2>1. CASE i \in DOMAIN f /\ g[i] = f[i]
    BY <2>1, <1>0, <1>1, <1>2, <1>16
  <2>2. CASE i - Len(f) \in 1 .. n /\ g[i] = nf[i - Len(f)]
    <3>1. g[i] = [run |-> Len(s) + (i - Len(f)), valid |-> TRUE]
      BY <2>2, <1>11
    <3>2. g[i].run = Len(s) + (i - Len(f)) /\ g[i].valid = TRUE
      BY <3>1
    <3>3. Len(s) + (i - Len(f)) \in DOMAIN t
      BY <2>2, <1>12
    <3> QED BY <3>1, <3>2, <3>3
  <2> QED BY <1>15, <2>1, <2>2
<1>20. LifeType'
  BY <1>0, <1>7, <1>17, <1>18, <1>19 DEF LifeType
<1>21. ByInv'
  <2>1. ASSUME NEW k \in DOMAIN t PROVE t[k].by \in {"future", "main", "timer"}
    <3>1. \A i \in 1 .. n : nr[i].by = "future"
      BY <1>11
    <3>2. \A i \in DOMAIN s : s[i].by \in {"future", "main", "timer"}
      BY <1>1 DEF LifeInv, ByInv
    <3> QED BY ONLY <2>1, <3>1, <3>2, <1>14
  <2> QED BY <1>7, <2>1 DEF ByInv
<1>22. FutureInv'
  <2> SUFFICES ASSUME NEW k \in DOMAIN t, t[k].by = "future", t[k].pc # "done"
               PROVE  \E i \in DOMAIN g : g[i].run = k /\ g[i].valid
    BY <1>7 DEF FutureInv, Active
  <2>1. CASE k \in DOMAIN s /\ t[k] = s[k]
    <3>1. PICK i \in DOMAIN f : f[i].run = k /\ f[i].valid
      BY <2>1, <1>1, <1>2 DEF LifeInv, FutureInv, Active
    <3> QED BY <3>1, <1>13, <1>16
  <2>2. CASE k - Len(s) \in 1 .. n
    <3>1. PICK j \in 1 .. n : j = k - Len(s)
      BY <2>2
    <3>2. Len(f) + j \in DOMAIN g /\ g[Len(f) + j] = [run |-> Len(s) + j, valid |-> TRUE]
      <4>1. Len(f) + j \in DOMAIN g
        BY <1>13
      <4>2. g[Len(f) + j] = nf[j] /\ nf[j] = [run |-> Len(s) + j, valid |-> TRUE]
        BY <1>11, <1>13
      <4> QED BY <4>1, <4>2
    <3>3. Len(s) + j = k
      BY <3>1, <1>12
    <3> QED BY <3>2, <3>3
  <2> QED BY <1>14, <2>1, <2>2
<1>23. ASSUME NEW b, b # "future", Returned(b) PROVE Returned(b)'
  <2>1. ASSUME NEW k \in DOMAIN t, t[k].by = b PROVE t[k].pc = "done"
    <3>1. \A i \in 1 .. n : nr[i].by # b
      BY <1>11, <1>23
    <3>2. k \in DOMAIN s /\ t[k] = s[k]
      BY ONLY <2>1, <3>1, <1>14
    <3> QED BY <1>1, <1>23, <2>1, <3>2, ReturnedOf
  <2> QED BY <1>7, <2>1, NextReturnedOf
<1>24. WaitInv' /\ CallerInv' /\ DestroyInv' /\ WaitedFinished'
  BY <1>7, <1>23 DEF LifeInv, WaitInv, CallerInv, DestroyInv, WaitedFinished
<1> QED BY <1>20, <1>21, <1>22, <1>24 DEF LifeInv

LEMMA WaitNextKeeps ==
  ASSUME LifeInv, (sources \in Seq(Range(sources)))', waitNext
  PROVE  LifeInv'
<1>0. /\ startupFutures \in Seq(Range(startupFutures))
      /\ \A i \in DOMAIN startupFutures :
          /\ startupFutures[i] = [run |-> startupFutures[i].run, valid |-> startupFutures[i].valid]
          /\ startupFutures[i].run \in DOMAIN runs
      /\ main = [call |-> main.call, at |-> main.at] /\ main.at \in Nat
      /\ main.call = "wait"
      /\ Returned("main") /\ (timer # "running" => Returned("timer"))
  BY DEF LifeInv, LifeType, CallerInv, waitNext
<1>1. UNCHANGED <<runs, timer, careful>>
  BY DEF waitNext
<1>2. Len(startupFutures) \in Nat /\ DOMAIN startupFutures = 1 .. Len(startupFutures)
  BY <1>0, SeqFacts
<1>3. CASE main.at > Len(startupFutures)
  <2>1. \A i \in DOMAIN startupFutures : ~startupFutures[i].valid
    BY <1>0, <1>2, <1>3 DEF LifeInv, WaitInv
  <2>2. Returned("future")
    BY <2>1, ReturnedOf DEF LifeInv, FutureInv, Active
  <2>3. main' = [call |-> "waited", at |-> 0] /\ UNCHANGED startupFutures
    BY <1>3 DEF waitNext
  <2> QED BY <2>2, <2>3, <1>0, <1>1, CallKeeps
<1>4. CASE ~(main.at > Len(startupFutures)) /\ ~startupFutures[main.at].valid
  <2>1. main' = [call |-> "threw", at |-> 0] /\ UNCHANGED startupFutures
    BY <1>4 DEF waitNext
  <2> QED BY <2>1, <1>0, <1>1, CallKeeps
<1>5. CASE ~(main.at > Len(startupFutures)) /\ startupFutures[main.at].valid
  <2>1. /\ ~Active(runs[startupFutures[main.at].run])
        /\ startupFutures' = [startupFutures EXCEPT ![main.at].valid = FALSE]
        /\ main' = [main EXCEPT !.at = @ + 1]
    BY <1>5 DEF waitNext
  <2>2. PICK p, f : p = main.at /\ f = startupFutures
    OBVIOUS
  <2>3. PICK e : e = [f[p] EXCEPT !.valid = FALSE]
    OBVIOUS
  <2>4. PICK g : g = [f EXCEPT ![p] = e]
    OBVIOUS
  <2>5. startupFutures' = g
    BY <2>1, <2>2, <2>3, <2>4
  <2>6. /\ g \in Seq(Range(g)) /\ DOMAIN g = DOMAIN f
        /\ p \in DOMAIN f => g[p] = e
        /\ \A i \in DOMAIN f \ {p} : g[i] = f[i]
    BY <1>0, <2>2, <2>4, ExceptFacts
  <2>7. main'.call = "wait" /\ main'.at = p + 1 /\ main' = [call |-> main'.call, at |-> main'.at]
    BY <2>1, <2>2, <1>0
  <2>8. \A i \in DOMAIN f : /\ i # p => g[i] = f[i]
                            /\ i = p => g[i] = [run |-> f[i].run, valid |-> FALSE]
    <3>1. ASSUME p \in DOMAIN f PROVE e = [run |-> f[p].run, valid |-> FALSE]
      <4>1. PICK a, b : a = f[p].run /\ b = f[p].valid
        OBVIOUS
      <4>2. f[p] = [run |-> a, valid |-> b]
        BY <1>0, <2>2, <3>1, <4>1
      <4>3. e = [[run |-> a, valid |-> b] EXCEPT !.valid = FALSE]
        BY <2>3, <4>2
      <4>4. e = [run |-> a, valid |-> FALSE]
        BY ONLY <4>3
      <4> QED BY <4>1, <4>4
    <3> QED BY <2>6, <3>1
  <2>9. (startupFutures \in Seq(Range(startupFutures)))'
    BY <2>5, <2>6 DEF Range
  <2>10. (runs \in Seq(Range(runs)))'
    BY <1>1 DEF LifeInv, LifeType, Range
  <2>11. \A i \in DOMAIN g : /\ g[i] = [run |-> g[i].run, valid |-> g[i].valid]
                             /\ g[i].run \in DOMAIN runs
                             /\ g[i].run = f[i].run
                             /\ i = p => ~g[i].valid
                             /\ i # p => g[i] = f[i]
    <3> TAKE i \in DOMAIN g
    <3>1. i \in DOMAIN f /\ f[i].run \in DOMAIN runs /\ f[i] = [run |-> f[i].run, valid |-> f[i].valid]
      BY <1>0, <2>2, <2>6
    <3>2. CASE i # p
      BY <3>1, <3>2, <2>8
    <3>3. CASE i = p
      <4>1. g[i] = [run |-> f[i].run, valid |-> FALSE]
        BY <3>1, <3>3, <2>8
      <4>2. g[i].run = f[i].run /\ g[i].valid = FALSE
        BY <4>1
      <4> QED BY <3>1, <3>3, <4>1, <4>2
    <3> QED BY <3>2, <3>3
  <2>12. LifeType'
    <3>1. main'.at \in Nat
      BY <2>7, <2>2, <1>0
    <3>2. \A k \in DOMAIN runs' : {"by", "pc"} \subseteq DOMAIN runs'[k]
      BY <1>1 DEF LifeInv, LifeType
    <3> QED BY <2>5, <2>7, <2>9, <2>10, <2>11, <1>1, <3>1, <3>2 DEF LifeType
  <2>13. ByInv'
    BY <1>1 DEF LifeInv, ByInv
  <2>14. FutureInv'
    <3> SUFFICES ASSUME NEW k \in DOMAIN runs, runs[k].by = "future", runs[k].pc # "done"
                 PROVE  \E i \in DOMAIN g : g[i].run = k /\ g[i].valid
      BY <1>1, <2>5 DEF FutureInv, Active
    <3>1. PICK i \in DOMAIN f : f[i].run = k /\ f[i].valid
      BY <2>2 DEF LifeInv, FutureInv, Active
    <3>2. i # p
      BY <2>1, <2>2, <3>1 DEF Active
    <3> QED BY <3>1, <3>2, <2>6
  <2>15. WaitInv'
    <3> SUFFICES ASSUME NEW i \in DOMAIN g, i < p + 1 PROVE ~g[i].valid
      BY <2>5, <2>7 DEF WaitInv
    <3>1. i \in Nat /\ p \in Nat
      BY <1>0, <1>2, <2>2, <2>6
    <3>2. CASE i = p
      BY <3>2, <2>11
    <3>3. CASE i < p
      <4>1. ~f[i].valid
        BY <3>3, <1>0, <2>2, <2>6 DEF LifeInv, WaitInv
      <4> QED BY <4>1, <2>11
    <3> QED BY <3>1, <3>2, <3>3
  <2>16. \A by : Returned(by)' = Returned(by)
    BY <1>1 DEF Returned, Active, Range
  <2>17. CallerInv' /\ DestroyInv' /\ WaitedFinished'
    BY <1>0, <1>1, <2>7, <2>16 DEF CallerInv, DestroyInv, WaitedFinished
  <2> QED BY <2>12, <2>13, <2>14, <2>15, <2>17 DEF LifeInv
<1> QED BY <1>3, <1>4, <1>5

LEMMA CleanKeeps ==
  ASSUME LifeInv, (sources \in Seq(Range(sources)))', cleanStartupFunctions
  PROVE  LifeInv'
<1>0. /\ startupFutures' = <<>> /\ UNCHANGED <<runs, main, timer, careful>>
      /\ main.call = "free"
      /\ \A i \in DOMAIN startupFutures :
            startupFutures[i].valid => ~Active(runs[startupFutures[i].run])
  BY DEF cleanStartupFunctions, Free, Range
<1>1. PICK e : e = <<>>
  OBVIOUS
<1>2. e \in Seq(Range(e)) /\ DOMAIN e = {}
  BY <1>1
<1>3. LifeType'
  BY <1>0, <1>1, <1>2 DEF LifeInv, LifeType, Range
<1>4. ByInv' /\ CallerInv'
  BY <1>0 DEF LifeInv, ByInv, CallerInv, Returned, Active, Range
<1>5. FutureInv'
  BY <1>0 DEF LifeInv, FutureInv, Active
<1>6. WaitInv' /\ DestroyInv' /\ WaitedFinished'
  BY <1>0 DEF WaitInv, DestroyInv, WaitedFinished
<1> QED BY <1>3, <1>4, <1>5, <1>6 DEF LifeInv

\* A step of a start function: it was active, and its caller stays the same.
LEMMA RunStepKeeps ==
  ASSUME LifeInv, (sources \in Seq(Range(sources)))', NEW k \in DOMAIN runs, RunStep(k)
  PROVE  LifeInv'
<1>0. /\ runs \in Seq(Range(runs)) /\ Active(runs[k])
      /\ \A j \in DOMAIN runs : {"by", "pc"} \subseteq DOMAIN runs[j]
      /\ UNCHANGED <<startupFutures, timer, careful>>
      /\ main = [call |-> main.call, at |-> main.at] /\ main.at \in Nat
  BY DEF LifeInv, LifeType, RunStep
<1>1. CASE main' = [call |-> "terminated", at |-> 0] /\ UNCHANGED runs
  BY <1>0, <1>1, CallKeeps DEF LifeInv, CallerInv
<1>2. ASSUME NEW t, NEW m, runs' = [runs EXCEPT ![k].pc = t.pc, ![k].n = m],
             main' = [call |-> "terminated", at |-> 0] \/ main' = main
      PROVE  LifeInv'
  <2>1. PICK s, e : s = runs /\ e = [[runs[k] EXCEPT !.pc = t.pc] EXCEPT !.n = m]
    OBVIOUS
  <2>2. PICK u : u = [s EXCEPT ![k] = e]
    OBVIOUS
  <2>3. runs' = u
    BY <1>2, <2>1, <2>2
  <2>4. /\ u \in Seq(Range(u)) /\ DOMAIN u = DOMAIN s /\ u[k] = e
        /\ \A i \in DOMAIN s \ {k} : u[i] = s[i]
    <3>1. k \in DOMAIN s /\ s \in Seq(Range(s))
      BY <1>0, <2>1
    <3> QED BY ONLY <3>1, <2>2, ExceptFacts
  <2>5. e.by = s[k].by /\ {"by", "pc"} \subseteq DOMAIN e
    BY <1>0, <2>1
  <2>6. (runs \in Seq(Range(runs)))'
    BY <2>3, <2>4 DEF Range
  <2>7. \A j \in DOMAIN runs' : {"by", "pc"} \subseteq DOMAIN runs'[j]
    BY <1>0, <2>1, <2>3, <2>4, <2>5, ZenonT(60)
  <2>8. main' = [call |-> main'.call, at |-> main'.at] /\ main'.at \in Nat
    BY <1>0, <1>2
  <2>9. LifeType'
    <3>1. (startupFutures \in Seq(Range(startupFutures)))'
      BY <1>0 DEF LifeInv, LifeType, Range
    <3>2. DOMAIN runs' = DOMAIN runs
      BY <2>1, <2>3, <2>4
    <3> QED BY <1>0, <2>6, <2>7, <2>8, <3>1, <3>2 DEF LifeInv, LifeType
  <2>10. \A j \in DOMAIN u : u[j].by = s[j].by /\ (j # k => u[j] = s[j])
    BY <2>4, <2>5
  <2>11. ByInv'
    BY <2>1, <2>3, <2>4, <2>10 DEF LifeInv, ByInv
  <2>12. FutureInv'
    <3> SUFFICES ASSUME NEW j \in DOMAIN u, u[j].by = "future", u[j].pc # "done"
                 PROVE  \E i \in DOMAIN startupFutures : startupFutures[i].run = j /\ startupFutures[i].valid
      BY <1>0, <2>3 DEF FutureInv, Active
    <3>1. j \in DOMAIN runs /\ runs[j].by = "future" /\ Active(runs[j])
      BY <1>0, <2>1, <2>4, <2>10 DEF Active
    <3> QED BY <3>1 DEF LifeInv, FutureInv
  <2>13. ASSUME NEW by, Returned(by) PROVE Returned(by)'
    <3>1. runs[k].by # by
      BY <1>0, <2>13, ReturnedOf DEF Active
    <3>2. \A j \in DOMAIN u : u[j].by = by => j # k /\ u[j] = runs[j]
      BY <2>1, <2>10, <3>1
    <3> QED BY <2>1, <2>3, <2>4, <2>13, <3>2, ReturnedOf, NextReturnedOf
  <2>14. main'.call = "terminated" \/ main' = main
    BY <1>2
  <2>15. WaitInv' /\ CallerInv' /\ DestroyInv' /\ WaitedFinished'
    BY <1>0, <2>13, <2>14 DEF LifeInv, WaitInv, CallerInv, DestroyInv, WaitedFinished
  <2> QED BY <2>9, <2>11, <2>12, <2>15 DEF LifeInv
<1>3. PICK m : m = IF sources[runs[k].src].kind \in Finite THEN runs[k].n + 1 ELSE runs[k].n
  OBVIOUS
<1>4. CASE ~Gone(sources[runs[k].src], runs[k].pc)
  <2>1. PICK t \in Steps(sources[runs[k].src], runs[k].pc, runs[k].n) :
           runs' = [runs EXCEPT ![k].pc = t.pc,
                                ![k].n = IF sources[runs[k].src].kind \in Finite THEN @ + 1 ELSE @]
    BY <1>4 DEF RunStep
  <2>2. runs' = [runs EXCEPT ![k].pc = t.pc, ![k].n = m]
    BY <1>3, <2>1
  <2>3. main' = [call |-> "terminated", at |-> 0] \/ main' = main
    BY <1>4 DEF RunStep
  <2> QED BY <1>2, <2>2, <2>3
<1>5. CASE Gone(sources[runs[k].src], runs[k].pc)
  BY <1>1, <1>5 DEF RunStep
<1> QED BY <1>4, <1>5

LEMMA CrashKeeps ==
  ASSUME LifeInv, (sources \in Seq(Range(sources)))', Crash
  PROVE  LifeInv'
<1>0. startupFutures' = <<>> /\ runs' = <<>> /\ main' = [call |-> "polling", at |-> 1]
  BY DEF Crash
<1>1. PICK e : e = <<>>
  OBVIOUS
<1>2. e \in Seq(Range(e)) /\ DOMAIN e = {}
  BY <1>1
<1>3. main'.call = "polling" /\ main'.at = 1
  BY <1>0
<1>4. LifeType'
  BY <1>0, <1>1, <1>2, <1>3 DEF LifeType, Range
<1>5. ByInv' /\ FutureInv' /\ WaitInv' /\ CallerInv' /\ DestroyInv' /\ WaitedFinished'
  BY <1>0, <1>1, <1>2, <1>3, NextReturnedOf
     DEF ByInv, FutureInv, WaitInv, CallerInv, DestroyInv, WaitedFinished
<1> QED BY <1>4, <1>5 DEF LifeInv

LEMMA LifeInit == Init => LifeInv
<1> SUFFICES ASSUME Init PROVE LifeInv
  OBVIOUS
<1>0. startupFutures = <<>> /\ runs = <<>> /\ sources = <<>> /\ main = [call |-> "free", at |-> 0]
  BY DEF Init
<1>1. PICK e : e = <<>>
  OBVIOUS
<1>2. e \in Seq(Range(e)) /\ DOMAIN e = {}
  BY <1>1
<1>3. main.call = "free" /\ main.at = 0
  BY <1>0
<1>4. LifeType
  BY <1>0, <1>1, <1>2, <1>3 DEF LifeType, Range
<1>5. ByInv /\ FutureInv /\ WaitInv /\ CallerInv /\ DestroyInv /\ WaitedFinished
  BY <1>0, <1>1, <1>2, <1>3, ReturnedOf
     DEF ByInv, FutureInv, WaitInv, CallerInv, DestroyInv, WaitedFinished
<1> QED BY <1>4, <1>5 DEF LifeInv

LEMMA LifeStep == LifeInv /\ [Next]_vars => LifeInv'
<1> SUFFICES ASSUME LifeInv, [Next]_vars PROVE LifeInv'
  OBVIOUS
<1>1. CASE UNCHANGED vars
  <2>1. UNCHANGED <<sources, runs, startupFutures, main, timer, careful>>
    BY <1>1 DEF vars, lifeVars
  <2>2. (sources \in Seq(Range(sources)))'
    BY <2>1 DEF LifeInv, LifeType, Range
  <2> QED BY <2>1, <2>2, FrameKeeps
<1>2. CASE Next
  <2>s. (sources \in Seq(Range(sources)))'
    BY <1>2, SourcesSeq DEF LifeInv, LifeType
  <2>m. main = [call |-> main.call, at |-> main.at] /\ main.at \in Nat
    BY DEF LifeInv, LifeType
  <2>c. /\ main.call \notin {"start", "terminated"} => Returned("main")
        /\ timer # "running" => Returned("timer")
    BY DEF LifeInv, CallerInv
  <2>1. CASE Constructing
    <3>1. ASSUME NEW kind, newStreamFrom(kind) PROVE LifeInv'
      <4>1. /\ UNCHANGED <<runs, startupFutures, timer, careful>>
            /\ main' = main \/ main' = [call |-> "polling", at |-> Len(sources) + 1]
        BY <3>1 DEF newStreamFrom
      <4>2. CASE main' = main
        BY <4>1, <4>2, <2>s, FrameKeeps
      <4>3. CASE main' = [call |-> "polling", at |-> Len(sources) + 1]
        <5>1. Returned("main") /\ Returned("timer")
          BY <2>1, <2>c DEF Constructing
        <5>2. PICK n \in Nat : n = Len(sources) + 1
          BY SeqFacts DEF LifeInv, LifeType
        <5>3. main' = [call |-> "polling", at |-> n]
          BY <4>3, <5>2
        <5> QED BY <4>1, <5>1, <5>3, <2>s, CallKeeps
      <4> QED BY <4>1, <4>2, <4>3
    <3>2. CASE SourceMethods
      BY <3>1, <3>2 DEF SourceMethods, newStreamFromFile, newStreamFromREST, newStreamFromRabbitMQ,
         newStreamFromKafka, newStreamFromMQTT, newAsciiStreamFromZMQ, selectFromTable,
         streamFromGenerator, newStreamFromMemory
    <3>3. CASE UNCHANGED lifeVars
      BY <3>3, <2>s, FrameKeeps DEF lifeVars
    <3> QED BY <2>1, <3>2, <3>3 DEF Constructing, Building, newStreamFromTable, newStreamFromMatrix,
         createStream, fromStream
  <2>2. CASE startAsync
    BY <2>2, <2>s, StartAsyncKeeps
  <2>3. CASE start
    <3>1. /\ runs' = Append(runs, NewRun(1, "main")) /\ main' = [call |-> "start", at |-> 1]
          /\ UNCHANGED <<startupFutures, timer>>
      BY <2>3 DEF start
    <3>2. main'.call = "start" /\ main'.at = 1
      BY <3>1
    <3> QED BY <3>1, <3>2, <2>s, CalledKeeps
  <2>4. CASE startNext
    <3>0. /\ main.call = "start" /\ Returned("main") /\ UNCHANGED <<startupFutures, timer, careful>>
      BY <2>4 DEF startNext
    <3>1. CASE main.at = Len(sources)
      <4>1. main' = [call |-> "free", at |-> 0] /\ UNCHANGED runs
        BY <2>4, <3>1 DEF startNext
      <4> QED BY <3>0, <4>1, <2>s, <2>c, CallKeeps
    <3>2. CASE main.at # Len(sources)
      <4>1. main' = [main EXCEPT !.at = @ + 1] /\ runs' = Append(runs, NewRun(main.at + 1, "main"))
        BY <2>4, <3>2 DEF startNext
      <4>2. main'.call = "start" /\ main'.at = main.at + 1 /\ main' = [call |-> main'.call, at |-> main'.at]
        BY <3>0, <4>1, <2>m
      <4>3. main'.at \in Nat
        BY <4>2, <2>m
      <4> QED BY <3>0, <4>1, <4>2, <4>3, <2>s, CalledKeeps
    <3> QED BY <3>1, <3>2
  <2>5. CASE prepare \/ \E i \in DOMAIN sources : ZmqThread(i) \/ Send(i) \/ Disconnect(i)
    <3>1. UNCHANGED <<runs, startupFutures, main, timer, careful>>
      BY <2>5 DEF prepare, ZmqThread, Send, Disconnect
    <3> QED BY <3>1, <2>s, FrameKeeps, SMTT(60)
  <2>6. CASE wait
    <3>1. main' = [call |-> "wait", at |-> 1] /\ UNCHANGED <<runs, startupFutures, timer, careful>> /\ main.call = "free"
      BY <2>6 DEF wait, Free
    <3> QED BY <3>1, <2>s, <2>c, CallKeeps
  <2>7. CASE waitNext
    BY <2>7, <2>s, WaitNextKeeps
  <2>8. CASE waitReturns
    <3>1. main' = [call |-> "free", at |-> 0] /\ UNCHANGED <<runs, startupFutures, timer, careful>> /\ main.call = "waited"
      BY <2>8 DEF waitReturns
    <3> QED BY <3>1, <2>s, <2>c, CallKeeps
  <2>9. CASE cleanStartupFunctions
    BY <2>9, <2>s, CleanKeeps
  <2>10. CASE runEvery \/ stopThreads
    <3>1. /\ UNCHANGED <<runs, startupFutures, main>> /\ main.call = "free"
          /\ timer # "running"
      BY <2>10 DEF runEvery, stopThreads, Free
    <3>2. PICK n \in Nat : main' = [call |-> "free", at |-> n]
      BY <3>1, <2>m
    <3> QED BY <3>1, <3>2, <2>s, <2>c, CallKeeps
  <2>11. CASE timerRound
    <3>0. /\ timer \in {"sleeping", "running"} /\ Returned("timer")
          /\ UNCHANGED <<startupFutures, main, careful>>
      BY <2>11 DEF timerRound
    <3>1. main.call \notin {"destroying", "destroyed"}
      BY <3>0 DEF LifeInv, DestroyInv
    <3>2. CASE timer' = "sleeping" /\ UNCHANGED runs
      <4>1. LifeType'
        BY <2>s, <3>0, <3>2 DEF LifeInv, LifeType, Range
      <4>2. ByInv' /\ FutureInv' /\ WaitInv' /\ WaitedFinished' /\ CallerInv'
        BY <3>0, <3>2 DEF LifeInv, ByInv, FutureInv, WaitInv, CallerInv, WaitedFinished, Active, Returned, Range
      <4>3. DestroyInv'
        BY <3>0, <3>1 DEF DestroyInv
      <4> QED BY <4>1, <4>2, <4>3 DEF LifeInv
    <3>3. ASSUME NEW j, timer' = "running", runs' = Append(runs, NewRun(j, "timer"))
          PROVE  LifeInv'
      BY <3>0, <3>1, <3>3, <2>s, <2>m, CalledKeeps
    <3> QED BY <2>11, <3>2, <3>3 DEF timerRound
  <2>12. CASE destroyBegin
    <3>1. /\ main' = [call |-> "destroying", at |-> 0] /\ UNCHANGED <<runs, startupFutures>>
          /\ timer # "running" /\ main.call = "free"
          /\ timer' = IF timer = "sleeping" THEN "joined" ELSE timer
      BY <2>12 DEF destroyBegin, Free
    <3>2. ASSUME careful' PROVE Returned("future")
      <4>1. \A i \in DOMAIN startupFutures : ~startupFutures[i].valid
        BY <2>12, <3>2 DEF destroyBegin, Range
      <4> QED BY <4>1, ReturnedOf DEF LifeInv, FutureInv, Active
    <3>3. timer' \notin {"sleeping", "running"}
      BY <3>1 DEF LifeInv
    <3> QED BY <3>1, <3>2, <3>3, <2>s, <2>c, CallKeeps
  <2>13. CASE destroy \/ \E i \in DOMAIN sources : zmqStop(i)
    <3>1. /\ main.call = "destroying" /\ UNCHANGED <<runs, startupFutures, timer, careful>>
          /\ \/ main' = [call |-> "destroyed", at |-> 0]
             \/ main' = [call |-> "terminated", at |-> 0]
             \/ main' = main
      BY <2>13 DEF destroy, zmqStop
    <3>2. timer \notin {"sleeping", "running"} /\ (careful => Returned("future"))
      BY <3>1 DEF LifeInv, DestroyInv
    <3>3. CASE main' = [call |-> "destroyed", at |-> 0]
      BY <3>1, <3>2, <3>3, <2>s, <2>c, CallKeeps
    <3>4. CASE main' = [call |-> "terminated", at |-> 0]
      BY <3>1, <3>2, <3>4, <2>s, <2>c, CallKeeps
    <3>5. CASE main' = main
      BY <3>1, <3>5, <2>s, FrameKeeps
    <3> QED BY <3>1, <3>3, <3>4, <3>5
  <2>14. CASE Crash
    BY <2>14, <2>s, CrashKeeps
  <2>15. CASE \E k \in DOMAIN runs : RunStep(k)
    BY <2>15, <2>s, RunStepKeeps
  <2>16. CASE constructorPoll
    <3>1. /\ main.call = "polling" /\ UNCHANGED <<runs, startupFutures, timer, careful>>
          /\ main' = main \/ main' = [call |-> "free", at |-> 0]
      BY <2>16 DEF constructorPoll
    <3>2. CASE main' = main
      BY <3>1, <3>2, <2>s, FrameKeeps
    <3>3. CASE main' = [call |-> "free", at |-> 0]
      BY <3>1, <3>3, <2>s, <2>c, CallKeeps
    <3> QED BY <3>1, <3>2, <3>3
  <2> QED BY <1>2, <2>1, <2>2, <2>3, <2>4, <2>5, <2>6, <2>7, <2>8, <2>9, <2>10, <2>11, <2>12, <2>13, <2>14, <2>15, <2>16
          DEF Next, Life, Wait
<1> QED BY <1>1, <1>2

\* The life of a topology in order, for every program and every number of
\* sources, starts and messages: wait returns only when every function that
\* startAsync called has finished, and when a program that waits for what it
\* starts has destroyed its operators, no start function is running.
THEOREM LifeStaysInOrder == Spec => []LifeInOrder
<1>1. LifeInv => LifeInOrder
  <2> SUFFICES ASSUME LifeInv PROVE NothingIntoDestroyed
    BY DEF LifeInOrder, LifeInv
  <2> SUFFICES ASSUME main.call = "destroyed", careful PROVE ~Busy
    BY DEF NothingIntoDestroyed
  <2>1. Returned("main") /\ Returned("timer") /\ Returned("future")
    BY DEF LifeInv, CallerInv, DestroyInv
  <2>2. \A k \in DOMAIN runs : ~Active(runs[k])
    BY <2>1, ReturnedOf DEF LifeInv, ByInv, Active
  <2> QED BY <2>2 DEF Busy, Range
<1> QED BY <1>1, LifeInit, LifeStep, PTL DEF Spec

-----------------------------------------------------------------------------
(* The sources: the inductive invariant.  Its parts are operators of the   *)
(* sources and the runs, so that lemmas speak of the state after a step.   *)

ZmqStates == Threads \cup {"none", "ended", "replaced"}
SourceOf(op) ==
    [kind: Finite \cup Brokers, op: {op}, queue: Seq(Nat \ {0}), data: Seq(Nat), produced: Seq(Nat),
     sent: Nat, from: Nat, seen: Nat, committed: Nat, located: BOOLEAN, errors: Nat,
     discarded: SUBSET Nat, alive: BOOLEAN, connected: BOOLEAN, mInterrupted: BOOLEAN, zmq: ZmqStates]
PCs == {"start", "more", "serving", "poll", "commit", "leaving", "done"}
RunOf(D) == [src: D, by: {"future", "main", "timer"}, pc: PCs, n: Nat]
SourcesType(ss) == ss \in Seq(Range(ss)) /\ \A i \in DOMAIN ss : ss[i] \in SourceOf(ss[i].op)
RunsType(ss, rr) == rr \in Seq(Range(rr)) /\ \A k \in DOMAIN rr : rr[k] \in RunOf(DOMAIN ss)
SourceType ==
    /\ plan \in Seq(Finite \cup Brokers)
    /\ SourcesType(sources) /\ RunsType(sources, runs)
    /\ main.call = "start" => main.at \in DOMAIN sources
    /\ timer = "running" => \E k \in DOMAIN runs : runs[k].by = "timer"

\* At most one function of a source is running, if the program is careful: it
\* is the main thread that starts them, or that of runEvery.
RunsOn(rr, i) == {k \in DOMAIN rr : rr[k].src = i /\ Active(rr[k])}
OneRunEach(rr) ==
    \A k, l \in DOMAIN rr : Active(rr[k]) /\ Active(rr[l]) /\ rr[k].src = rr[l].src => k = l
ActiveBy(rr, by) == \A k \in DOMAIN rr : Active(rr[k]) => rr[k].by = by
CarefulInv ==
    careful => /\ OneRunEach(runs)
               /\ main.call = "start" => timer = "none" /\ ActiveBy(runs, "main")
               /\ timer # "none" => ActiveBy(runs, "timer")

\* A stream that is repeated as a whole, and whose running function has
\* published n elements.
Ends(s) == s.kind \in Finite \ {"memory"}
Cycle(s) == Len(s.queue) + 1
Repeats(s) == \A p \in DOMAIN s.produced : s.produced[p] = Append(s.queue, EOS)[((p - 1) % Cycle(s)) + 1]
StreamOf(s, rr, i) ==
    /\ Repeats(s)
    /\ \A k \in RunsOn(rr, i) : rr[k].n < Cycle(s) /\ Len(s.produced) % Cycle(s) = rr[k].n
    /\ RunsOn(rr, i) = {} => Len(s.produced) % Cycle(s) = 0
StreamsOK(ss, rr) == \A i \in DOMAIN ss : Ends(ss[i]) => StreamOf(ss[i], rr, i)
StreamInv == careful => StreamsOK(sources, runs)

\* The messages that a source answers for are published, waiting or dropped;
\* when an MQTT client was found empty, none of those before was waiting.  Those
\* that wait at Kafka are the last ones, none of them is committed, nor will be
\* by a function that is about to commit.
Due(s) == s.from + 1 .. Answerable(s)
Seen(s) == s.connected => \A m \in s.from + 1 .. s.seen : m \in Range(s.produced) \cup s.discarded
Accounted(s) ==
    /\ \A m \in Due(s) : m \in Range(s.produced) \cup Range(s.queue) \cup s.discarded
    /\ s.kind = "mqtt" => Seen(s)
Taken(s) == s.sent - Len(s.queue)
Waiting(s) ==
    /\ s.located \/ s.queue = <<>>
    /\ Len(s.queue) <= s.sent /\ s.committed <= Taken(s)
    /\ \A j \in 1 .. Len(s.queue) : s.queue[j] = Taken(s) + j
Committable(s) == s.produced # <<>> /\ s.produced[Len(s.produced)] <= Taken(s)
BrokerOf(s, rr, i) ==
    /\ s.kind \in Brokers => Accounted(s)
    /\ s.kind = "kafka" =>
          /\ Waiting(s)
          /\ \A k \in DOMAIN rr : rr[k].src = i =>
                rr[k].pc \in {"start", "poll", "commit", "done"} /\ (rr[k].pc = "commit" => Committable(s))
BrokersOK(ss, rr) == \A i \in DOMAIN ss : BrokerOf(ss[i], rr, i)
BrokerInv == BrokersOK(sources, runs)

\* The thread of a ZMQ source is interrupted, and ends the stream, only when
\* the topology is destroyed.
Ending == main.call \in {"destroying", "destroyed", "terminated"}
ZmqIdle(s) == s.zmq # "ended" /\ ~(s.zmq \in {"running", "receiving"} /\ s.mInterrupted)
ZmqOf(s) ==
    s.kind = "zmq" => \A p \in DOMAIN s.produced : s.produced[p] = EOS => p = Len(s.produced) /\ s.zmq = "ended"
ZmqInv ==
    \A i \in DOMAIN sources :
        /\ sources[i].kind # "zmq" => sources[i].zmq = "none"
        /\ ~Ending => ZmqIdle(sources[i])
        /\ careful => ZmqOf(sources[i])

\* The messages that were read and ignored: one by each constructor of a Kafka
\* consumer that is not polling any more, and one by each begun run of RabbitMQ.
BegunOf(rr, i) == {k \in DOMAIN rr : rr[k].src = i /\ rr[k].pc # "start"}
DropsOf(s, rr, i, c, at) ==
    /\ IsFiniteSet(s.discarded)
    /\ s.kind = "kafka" => Cardinality(s.discarded) <= IF at = i THEN c ELSE c + 1
    /\ s.kind = "rabbitmq" => Cardinality(s.discarded) <= Cardinality(BegunOf(rr, i))
    /\ s.kind \notin {"kafka", "rabbitmq"} => s.discarded = {}
DropsOK(ss, rr, c, at) == \A i \in DOMAIN ss : DropsOf(ss[i], rr, i, c, at)
PollingAt == IF main.call = "polling" THEN main.at ELSE 0
ReadsInv ==
    /\ crashes \in Nat
    /\ main.call = "polling" => main.at \in DOMAIN sources /\ sources[main.at].kind = "kafka"
    /\ DropsOK(sources, runs, crashes, PollingAt)

SourcesInv == SourceType /\ CarefulInv /\ StreamInv /\ BrokerInv /\ ZmqInv

-----------------------------------------------------------------------------
(* Sequences and sources, one by one.                                      *)

\* The elements of a sequence one longer.
LEMMA RangeAppend ==
  ASSUME NEW S, NEW q \in Seq(S), NEW e \in S
  PROVE  Range(Append(q, e)) = Range(q) \cup {e}
<1> DEFINE a == Append(q, e)
<1>0. Len(q) \in Nat /\ DOMAIN q = 1 .. Len(q)
  OBVIOUS
<1>1. /\ DOMAIN a = 1 .. Len(q) + 1 /\ a[Len(q) + 1] = e
      /\ \A i \in 1 .. Len(q) : a[i] = q[i]
  BY <1>0
<1> HIDE DEF a
<1>2. DOMAIN a = DOMAIN q \cup {Len(q) + 1}
  BY <1>0, <1>1
<1>3. \A i \in DOMAIN q : a[i] = q[i]
  BY <1>0, <1>1
<1>4. Range(a) = Range(q) \cup {e}
  <2>1. ASSUME NEW x \in Range(a) PROVE x \in Range(q) \cup {e}
    <3>1. PICK i \in DOMAIN a : a[i] = x
      BY <2>1 DEF Range
    <3> QED BY <1>1, <1>2, <1>3, <3>1 DEF Range
  <2>2. ASSUME NEW i \in DOMAIN q PROVE q[i] \in Range(a)
    <3>1. i \in DOMAIN a /\ a[i] = q[i]
      BY <1>2, <1>3
    <3> QED BY <3>1 DEF Range
  <2>3. e \in Range(a)
    <3>1. Len(q) + 1 \in DOMAIN a /\ a[Len(q) + 1] = e
      BY <1>1, <1>2
    <3> QED BY <3>1 DEF Range
  <2> QED BY <2>1, <2>2, <2>3 DEF Range
<1> QED BY <1>4 DEF a

\* A sequence without its first element.
LEMMA TailFacts ==
  ASSUME NEW S, NEW q \in Seq(S), q # <<>>
  PROVE  /\ Head(q) = q[1] /\ Head(q) \in S
         /\ Tail(q) \in Seq(S) /\ Len(Tail(q)) = Len(q) - 1 /\ Len(q) \in Nat \ {0}
         /\ \A j \in 1 .. Len(q) - 1 : Tail(q)[j] = q[j + 1]
         /\ Range(q) = Range(Tail(q)) \cup {Head(q)}
<1>0. /\ Head(q) = q[1] /\ Head(q) \in S
      /\ Tail(q) \in Seq(S) /\ Len(Tail(q)) = Len(q) - 1 /\ Len(q) \in Nat \ {0}
      /\ \A j \in 1 .. Len(q) - 1 : Tail(q)[j] = q[j + 1]
  BY HeadTailProperties
<1>1. PICK t : t = Tail(q)
  OBVIOUS
<1>2. DOMAIN q = 1 .. Len(q) /\ DOMAIN t = 1 .. Len(q) - 1
  BY <1>0, <1>1
<1>3. \A x : x \in Range(q) <=> \E i \in 1 .. Len(q) : x = q[i]
  BY <1>2 DEF Range
<1>4. \A x : x \in Range(t) <=> \E i \in 1 .. Len(q) - 1 : x = q[i + 1]
  BY <1>0, <1>1, <1>2 DEF Range
<1>5. \A i \in 1 .. Len(q) : i = 1 \/ (i - 1 \in 1 .. Len(q) - 1 /\ i = (i - 1) + 1)
  BY <1>0
<1>6. \A i \in 1 .. Len(q) - 1 : i + 1 \in 1 .. Len(q)
  BY <1>0
<1>7. 1 \in 1 .. Len(q)
  BY <1>0
<1>8. \A x : x \in Range(q) <=> x \in Range(t) \/ x = q[1]
  <2> TAKE x
  <2>1. ASSUME x \in Range(q) PROVE x \in Range(t) \/ x = q[1]
    <3>1. PICK i \in 1 .. Len(q) : x = q[i]
      BY <2>1, <1>3
    <3>2. CASE i = 1
      BY <3>1, <3>2
    <3>3. CASE i # 1
      <4>1. PICK j \in 1 .. Len(q) - 1 : i = j + 1
        BY <3>3, <1>5
      <4> QED BY <3>1, <4>1, <1>4
    <3> QED BY <3>2, <3>3
  <2>2. ASSUME x \in Range(t) PROVE x \in Range(q)
    BY <2>2, <1>3, <1>4, <1>6
  <2>3. ASSUME x = q[1] PROVE x \in Range(q)
    BY <2>3, <1>3, <1>7
  <2> QED BY <2>1, <2>2, <2>3
<1> QED BY <1>0, <1>1, <1>8

\* The types of the fields of a source.
LEMMA SourceFields ==
  ASSUME NEW o, NEW s \in SourceOf(o)
  PROVE  /\ s.kind \in Finite \cup Brokers /\ s.op = o
         /\ s.queue \in Seq(Nat \ {0}) /\ s.queue \in Seq(Nat) /\ s.data \in Seq(Nat) /\ s.produced \in Seq(Nat)
         /\ s.sent \in Nat /\ s.from \in Nat /\ s.seen \in Nat /\ s.committed \in Nat /\ s.errors \in Nat
         /\ s.discarded \in SUBSET Nat /\ s.located \in BOOLEAN
         /\ s.alive \in BOOLEAN /\ s.connected \in BOOLEAN /\ s.mInterrupted \in BOOLEAN /\ s.zmq \in ZmqStates
         /\ Len(s.queue) \in Nat /\ Len(s.data) \in Nat /\ Len(s.produced) \in Nat
<1>1. /\ s.kind \in Finite \cup Brokers /\ s.op = o
         /\ s.queue \in Seq(Nat \ {0}) /\ s.data \in Seq(Nat) /\ s.produced \in Seq(Nat)
         /\ s.sent \in Nat /\ s.from \in Nat /\ s.seen \in Nat /\ s.committed \in Nat /\ s.errors \in Nat
         /\ s.discarded \in SUBSET Nat /\ s.located \in BOOLEAN
         /\ s.alive \in BOOLEAN /\ s.connected \in BOOLEAN /\ s.mInterrupted \in BOOLEAN /\ s.zmq \in ZmqStates
  BY DEF SourceOf
<1>2. PICK q : q = s.queue
  OBVIOUS
<1>3. q \in Seq(Nat \ {0})
  BY <1>1, <1>2
<1>4. Len(q) \in Nat /\ q \in [1 .. Len(q) -> Nat \ {0}]
  BY <1>3
<1>5. q \in [1 .. Len(q) -> Nat]
  BY <1>4
<1>6. q \in Seq(Nat)
  BY <1>4, <1>5
<1>7. Len(s.data) \in Nat /\ Len(s.produced) \in Nat
  BY <1>1
<1> QED BY <1>1, <1>2, <1>4, <1>6, <1>7

\* The messages that a source answers for stay the same.
Placed(s, t) ==
    /\ t.kind = s.kind /\ t.sent = s.sent /\ t.from = s.from
    /\ s.kind = "mqtt" => t.seen = s.seen /\ t.alive = s.alive /\ t.connected = s.connected

\* A source that has published one more element.
LEMMA PublishFacts ==
  ASSUME NEW o, NEW s \in SourceOf(o), NEW e \in Nat, NEW t, t = Publish(s, e),
         NEW a, a = Append(s.produced, e)
  PROVE  /\ t \in SourceOf(o)
         /\ t.produced = a
         /\ t.kind = s.kind /\ t.queue = s.queue /\ t.sent = s.sent /\ t.committed = s.committed
         /\ t.discarded = s.discarded /\ t.zmq = s.zmq /\ t.mInterrupted = s.mInterrupted
         /\ Placed(s, t) /\ t.located = s.located
<1>1. a \in Seq(Nat)
  BY SourceFields
<1>2. t = [s EXCEPT !.produced = a]
  BY DEF Publish
<1> QED BY <1>1, <1>2 DEF SourceOf, Placed

\* A source whose first waiting element is taken.
LEMMA TakeFacts ==
  ASSUME NEW o, NEW s \in SourceOf(o), s.queue # <<>>, NEW t, t = Take(s)
  PROVE  /\ t \in SourceOf(o)
         /\ t.queue = Tail(s.queue)
         /\ t.kind = s.kind /\ t.produced = s.produced /\ t.sent = s.sent /\ t.committed = s.committed
         /\ t.discarded = s.discarded /\ t.zmq = s.zmq /\ t.mInterrupted = s.mInterrupted
         /\ Placed(s, t) /\ t.located = s.located
<1>1. Tail(s.queue) \in Seq(Nat \ {0})
  BY SourceFields, TailFacts
<1> QED BY <1>1 DEF SourceOf, Take, Placed

\* A message that is moved stays accounted for.
LEMMA MovedAccounted ==
  ASSUME NEW s, NEW t, Accounted(s), Placed(s, t),
         Range(s.produced) \cup Range(s.queue) \cup s.discarded
            \subseteq Range(t.produced) \cup Range(t.queue) \cup t.discarded,
         Range(s.produced) \cup s.discarded \subseteq Range(t.produced) \cup t.discarded
  PROVE  Accounted(t)
<1>1. Due(t) = Due(s)
  BY DEF Placed, Due, Answerable
<1>2. s.kind = "mqtt" => Seen(t)
  BY DEF Accounted, Placed, Seen
<1> QED BY <1>1, <1>2 DEF Accounted, Placed

\* The message at the head of the queue is published.
LEMMA TakenPublished ==
  ASSUME NEW o, NEW s \in SourceOf(o), s.queue # <<>>,
         NEW t, t = Take(Publish(s, Head(s.queue))) \/ t = Publish(Take(s), Head(s.queue))
  PROVE  /\ t \in SourceOf(o) /\ Head(s.queue) \in Nat \ {0}
         /\ t.produced = Append(s.produced, Head(s.queue)) /\ t.queue = Tail(s.queue)
         /\ t.kind = s.kind /\ t.sent = s.sent /\ t.committed = s.committed /\ t.discarded = s.discarded
         /\ t.zmq = s.zmq /\ t.mInterrupted = s.mInterrupted /\ Placed(s, t) /\ t.located = s.located
         /\ Accounted(s) => Accounted(t)
<1> DEFINE h == Head(s.queue)
<1>0. /\ s.queue \in Seq(Nat \ {0}) /\ s.produced \in Seq(Nat)
  BY SourceFields
<1>1. /\ h \in Nat \ {0} /\ Range(s.queue) = Range(Tail(s.queue)) \cup {h}
  BY <1>0, TailFacts
<1> HIDE DEF h
<1>2. /\ t \in SourceOf(o)
      /\ t.produced = Append(s.produced, h) /\ t.queue = Tail(s.queue)
      /\ t.kind = s.kind /\ t.sent = s.sent /\ t.committed = s.committed /\ t.discarded = s.discarded
      /\ t.zmq = s.zmq /\ t.mInterrupted = s.mInterrupted /\ Placed(s, t) /\ t.located = s.located
  <2>1. CASE t = Take(Publish(s, h))
    <3>1. PICK u, a : u = Publish(s, h) /\ a = Append(s.produced, h)
      OBVIOUS
    <3>2. /\ u \in SourceOf(o) /\ u.produced = a /\ u.queue = s.queue
          /\ u.kind = s.kind /\ u.sent = s.sent /\ u.committed = s.committed /\ u.discarded = s.discarded
          /\ u.zmq = s.zmq /\ u.mInterrupted = s.mInterrupted /\ Placed(s, u) /\ u.located = s.located
      BY <3>1, <1>1, PublishFacts
    <3>3. t = Take(u)
      BY <2>1, <3>1
    <3>4. /\ t \in SourceOf(o) /\ t.produced = u.produced /\ t.queue = Tail(u.queue)
          /\ t.kind = u.kind /\ t.sent = u.sent /\ t.committed = u.committed /\ t.discarded = u.discarded
          /\ t.zmq = u.zmq /\ t.mInterrupted = u.mInterrupted /\ Placed(u, t) /\ t.located = u.located
      BY <3>2, <3>3, TakeFacts
    <3> QED BY <3>1, <3>2, <3>4 DEF Placed
  <2>2. CASE t = Publish(Take(s), h)
    <3>1. PICK u, a : u = Take(s) /\ a = Append(s.produced, h)
      OBVIOUS
    <3>2. /\ u \in SourceOf(o) /\ u.produced = s.produced /\ u.queue = Tail(s.queue)
          /\ u.kind = s.kind /\ u.sent = s.sent /\ u.committed = s.committed /\ u.discarded = s.discarded
          /\ u.zmq = s.zmq /\ u.mInterrupted = s.mInterrupted /\ Placed(s, u) /\ u.located = s.located
      BY <3>1, TakeFacts
    <3>3. t = Publish(u, h)
      BY <2>2, <3>1
    <3>4. /\ t \in SourceOf(o) /\ t.produced = a /\ t.queue = u.queue
          /\ t.kind = u.kind /\ t.sent = u.sent /\ t.committed = u.committed /\ t.discarded = u.discarded
          /\ t.zmq = u.zmq /\ t.mInterrupted = u.mInterrupted /\ Placed(u, t) /\ t.located = u.located
      BY <3>1, <3>2, <3>3, <1>1, PublishFacts
    <3> QED BY <3>1, <3>2, <3>4 DEF Placed
  <2> QED BY <2>1, <2>2 DEF h
<1>3. Range(t.produced) = Range(s.produced) \cup {h}
  <2>1. h \in Nat /\ s.produced \in Seq(Nat) /\ t.produced = Append(s.produced, h)
    BY <1>0, <1>1, <1>2
  <2> QED BY ONLY <2>1, RangeAppend
<1>4. Accounted(s) => Accounted(t)
  <2>1. Range(s.produced) \cup Range(s.queue) \cup s.discarded
            \subseteq Range(t.produced) \cup Range(t.queue) \cup t.discarded
    BY <1>1, <1>2, <1>3
  <2>2. Range(s.produced) \cup s.discarded \subseteq Range(t.produced) \cup t.discarded
    BY <1>2, <1>3
  <2> QED BY <1>2, <2>1, <2>2, MovedAccounted
<1> QED BY <1>1, <1>2, <1>4 DEF h

\* The message at the head of the queue is read, and dropped.
OneIgnored(o, s, u) ==
    /\ u \in SourceOf(o) /\ u.kind = s.kind /\ u.zmq = s.zmq /\ u.mInterrupted = s.mInterrupted
    /\ u.queue = Tail(s.queue) /\ u.produced = s.produced /\ u.sent = s.sent /\ u.committed = s.committed
    /\ u.located = s.located
    /\ Accounted(s) => Accounted(u)
    /\ \E h \in Nat : u.discarded = s.discarded \cup {h}
LEMMA IgnoredFacts ==
  ASSUME NEW o, NEW s \in SourceOf(o), s.queue # <<>>,
         NEW u, u = Ignore(s)
  PROVE  OneIgnored(o, s, u)
<1>1. PICK v, h : v = Take(s) /\ h = Head(s.queue)
  OBVIOUS
<1>2. /\ v \in SourceOf(o) /\ v.produced = s.produced /\ v.queue = Tail(s.queue)
      /\ v.kind = s.kind /\ v.sent = s.sent /\ v.committed = s.committed /\ v.discarded = s.discarded
      /\ v.zmq = s.zmq /\ v.mInterrupted = s.mInterrupted /\ Placed(s, v) /\ v.located = s.located
  BY <1>1, TakeFacts
<1>3. h \in Nat /\ Range(s.queue) = Range(Tail(s.queue)) \cup {h}
  BY <1>1, SourceFields, TailFacts
<1>4. u = [v EXCEPT !.discarded = @ \cup {h}]
  BY <1>1 DEF Ignore
<1>5. /\ u \in SourceOf(o) /\ u.produced = v.produced /\ u.queue = v.queue
      /\ u.kind = v.kind /\ u.sent = v.sent /\ u.committed = v.committed /\ u.discarded = v.discarded \cup {h}
      /\ u.zmq = v.zmq /\ u.mInterrupted = v.mInterrupted /\ Placed(v, u) /\ u.located = v.located
  <2>1. PICK d : d = v.discarded \cup {h}
    OBVIOUS
  <2>2. u = [v EXCEPT !.discarded = d] /\ v \in SourceOf(o) /\ d \in SUBSET Nat
    BY <1>2, <1>3, <1>4, <2>1, SourceFields
  <2>3. /\ u \in SourceOf(o) /\ u.produced = v.produced /\ u.queue = v.queue
        /\ u.kind = v.kind /\ u.sent = v.sent /\ u.committed = v.committed /\ u.discarded = d
        /\ u.zmq = v.zmq /\ u.mInterrupted = v.mInterrupted /\ u.located = v.located
        /\ u.from = v.from /\ u.seen = v.seen /\ u.alive = v.alive /\ u.connected = v.connected
    BY ONLY <2>2 DEF SourceOf
  <2> QED BY <2>1, <2>3 DEF Placed
<1>6. Range(s.produced) \cup Range(s.queue) \cup s.discarded
        \subseteq Range(u.produced) \cup Range(u.queue) \cup u.discarded
  BY <1>2, <1>3, <1>5
<1>7. Range(s.produced) \cup s.discarded \subseteq Range(u.produced) \cup u.discarded
  BY <1>2, <1>5
<1>8. Placed(s, u)
  BY <1>2, <1>5 DEF Placed
<1>9. Accounted(s) => Accounted(u)
  BY <1>6, <1>7, <1>8, MovedAccounted
<1> QED BY <1>2, <1>3, <1>5, <1>9 DEF OneIgnored

\* What a step of a start function keeps of its source.
Kept(o, s, t) ==
    /\ t \in SourceOf(o) /\ t.kind = s.kind
    /\ s.kind \in Brokers => (Accounted(s) => Accounted(t))
    /\ s.kind # "zmq" => t.zmq = s.zmq /\ t.mInterrupted = s.mInterrupted
    /\ s.kind # "rabbitmq" => t.discarded = s.discarded

\* produceAll publishes the next element, or the end of the stream.
LEMMA FiniteSteps ==
  ASSUME NEW o, NEW s \in SourceOf(o), NEW n \in Nat, NEW content \in Seq(Nat),
         s.kind \in Finite, NEW t \in produceAll(s, content, n)
  PROVE  /\ Kept(o, s, t.s) /\ t.pc \in PCs /\ t.s.queue = s.queue
         /\ n < Len(content) => t.s.produced = Append(s.produced, content[n + 1]) /\ t.pc = "more"
         /\ ~(n < Len(content)) => t.s.produced = Append(s.produced, EOS) /\ t.pc = "done"
<1>0. Len(content) \in Nat /\ EOS \in Nat /\ s.kind \notin Brokers /\ s.kind # "zmq"
  BY DEF EOS, Finite, Brokers
<1>1. CASE n < Len(content)
  <2>1. PICK e \in Nat : e = content[n + 1]
    BY <1>0, <1>1
  <2>2. t = Step(Publish(s, e), "more")
    BY <1>1, <2>1 DEF produceAll
  <2>3. t.s = Publish(s, e) /\ t.pc = "more"
    BY <2>2 DEF Step
  <2>4. PICK u, a : u = t.s /\ a = Append(s.produced, e)
    OBVIOUS
  <2>5. /\ u \in SourceOf(o) /\ u.produced = a /\ u.queue = s.queue
        /\ u.kind = s.kind /\ u.zmq = s.zmq /\ u.mInterrupted = s.mInterrupted /\ u.discarded = s.discarded
    BY <2>3, <2>4, PublishFacts, SMTT(60)
  <2> QED BY <1>0, <1>1, <2>1, <2>3, <2>4, <2>5 DEF Kept, PCs
<1>2. CASE ~(n < Len(content))
  <2>1. PICK e \in Nat : e = EOS
    BY <1>0
  <2>2. t = Step(Publish(s, e), "done")
    BY <1>2, <2>1 DEF produceAll
  <2>3. t.s = Publish(s, e) /\ t.pc = "done"
    BY <2>2 DEF Step
  <2>4. PICK u, a : u = t.s /\ a = Append(s.produced, e)
    OBVIOUS
  <2>5. /\ u \in SourceOf(o) /\ u.produced = a /\ u.queue = s.queue
        /\ u.kind = s.kind /\ u.zmq = s.zmq /\ u.mInterrupted = s.mInterrupted /\ u.discarded = s.discarded
    BY <2>3, <2>4, PublishFacts, SMTT(60)
  <2> QED BY <1>0, <1>2, <2>1, <2>3, <2>4, <2>5 DEF Kept, PCs
<1> QED BY <1>1, <1>2

\* At most one message more is dropped, by a read that is the first one.
OneDropped(s, t, pc) ==
    t.discarded = s.discarded \/ (pc = "start" /\ \E h \in Nat : t.discarded = s.discarded \cup {h})

\* The start function of RabbitMQ drops at most the message of its first read.
LEMMA RabbitSteps ==
  ASSUME NEW o, NEW s \in SourceOf(o), NEW pc, s.kind = "rabbitmq", NEW t \in rabbitStart(s, pc)
  PROVE  /\ Kept(o, s, t.s) /\ t.pc \in {"more", "done"}
         /\ OneDropped(s, t.s, pc)
<1>1. CASE s.queue = <<>>
  <2>1. t = Step(s, "done")
    BY <1>1 DEF rabbitStart
  <2> QED BY <2>1 DEF Step, Kept, OneDropped
<1>2. CASE s.queue # <<>>
  <2>1. /\ \/ t.s = Publish(Take(s), Head(s.queue))
           \/ pc = "start" /\ t.s = Ignore(s)
        /\ t.pc \in {"more", "done"}
    <3>1. PICK a, b : a = Publish(Take(s), Head(s.queue)) /\ b = Ignore(s)
      OBVIOUS
    <3>2. CASE pc = "start"
      <4>1. t \in {Step(a, "more"), Step(a, "done"), Step(b, "more"), Step(b, "done")}
        BY <1>2, <3>1, <3>2, Zenon DEF rabbitStart
      <4> QED BY <3>1, <3>2, <4>1 DEF Step
    <3>3. CASE pc # "start"
      <4>1. t \in {Step(a, "more"), Step(a, "done")}
        BY <1>2, <3>1, <3>3, Zenon DEF rabbitStart
      <4> QED BY <3>1, <4>1 DEF Step
    <3> QED BY <3>2, <3>3
  <2>2. PICK u : u = t.s
    OBVIOUS
  <2>3. CASE u = Publish(Take(s), Head(s.queue))
    BY <1>2, <2>1, <2>2, <2>3, TakenPublished DEF Kept, OneDropped
  <2>4. CASE pc = "start" /\ u = Ignore(s)
    <3>1. /\ u \in SourceOf(o) /\ u.kind = s.kind /\ u.zmq = s.zmq /\ u.mInterrupted = s.mInterrupted
          /\ Accounted(s) => Accounted(u)
          /\ \E h \in Nat : u.discarded = s.discarded \cup {h}
      <4>1. u = Ignore(s) /\ s \in SourceOf(o) /\ s.queue # <<>>
        BY <1>2, <2>4
      <4>2. OneIgnored(o, s, u)
        BY ONLY <4>1, IgnoredFacts
      <4> QED BY <4>2 DEF OneIgnored
    <3>2. OneDropped(s, u, pc)
      BY <2>4, <3>1 DEF OneDropped
    <3> QED BY <2>1, <2>2, <3>1, <3>2 DEF Kept
  <2> QED BY <2>1, <2>2, <2>3, <2>4
<1> QED BY <1>1, <1>2

\* What a step that publishes nothing keeps of a source whose place is the same.
LEMMA PlacedKept ==
  ASSUME NEW o, NEW s \in SourceOf(o), NEW t \in SourceOf(o), Placed(s, t),
         t.queue = s.queue, t.produced = s.produced, t.discarded = s.discarded
  PROVE  Accounted(s) => Accounted(t)
BY MovedAccounted

\* The start function of MQTT publishes what had arrived when it found nothing
\* more; what comes later goes with the client.
LEMMA MqttSteps ==
  ASSUME NEW o, NEW s \in SourceOf(o), NEW pc, s.kind = "mqtt", NEW t \in mqttStart(s, pc), ~Gone(s, pc)
  PROVE  Kept(o, s, t.s) /\ t.pc \in {"more", "leaving", "done"}
<1>0. PICK u : u = t.s
  OBVIOUS
<1>a. s.alive = TRUE /\ (s.connected = FALSE => s.queue # <<>> /\ pc # "leaving") /\ s.connected \in BOOLEAN
  BY SourceFields DEF Gone
<1>1. CASE pc # "leaving" /\ s.queue # <<>>
  <2>1. t = Step(Take(Publish(s, Head(s.queue))), "more")
    BY <1>1 DEF mqttStart
  <2>2. t.s = Take(Publish(s, Head(s.queue))) /\ t.pc = "more"
    BY <2>1 DEF Step
  <2> QED BY <1>0, <1>1, <2>2, TakenPublished DEF Kept
<1>2. CASE pc = "leaving"
  <2>1. t = Step([s EXCEPT !.queue = <<>>, !.alive = FALSE], "done")
    BY <1>2 DEF mqttStart
  <2>2. u = [s EXCEPT !.queue = <<>>, !.alive = FALSE] /\ t.pc = "done"
    BY <1>0, <2>1 DEF Step
  <2>3. /\ u \in SourceOf(o) /\ u.kind = s.kind /\ u.produced = s.produced /\ u.discarded = s.discarded
        /\ u.zmq = s.zmq /\ u.mInterrupted = s.mInterrupted /\ u.alive = FALSE
        /\ u.from = s.from /\ u.seen = s.seen /\ u.connected = s.connected
    <3>1. <<>> \in Seq(Nat \ {0})
      OBVIOUS
    <3> QED BY ONLY <2>2, <3>1, s \in SourceOf(o) DEF SourceOf
  <2>4. ASSUME Accounted(s) PROVE Accounted(u)
    <3>1. s.connected /\ Seen(s)
      BY <1>2, <1>a, <2>4 DEF Accounted
    <3>2. Seen(u) /\ Due(u) = s.from + 1 .. s.seen
      BY <2>3, <3>1 DEF Seen, Due, Answerable
    <3> QED BY <2>3, <3>1, <3>2 DEF Accounted, Seen
  <2> QED BY <1>0, <2>2, <2>3, <2>4 DEF Kept
<1>3. CASE pc # "leaving" /\ s.queue = <<>>
  <2>1. t = Step([s EXCEPT !.seen = s.sent], "leaving")
    BY <1>3 DEF mqttStart
  <2>2. u = [s EXCEPT !.seen = s.sent] /\ t.pc = "leaving"
    BY <1>0, <2>1 DEF Step
  <2>3. /\ u \in SourceOf(o) /\ u.kind = s.kind /\ u.produced = s.produced /\ u.discarded = s.discarded
        /\ u.zmq = s.zmq /\ u.mInterrupted = s.mInterrupted /\ u.alive = s.alive /\ u.queue = s.queue
        /\ u.from = s.from /\ u.seen = s.sent /\ u.sent = s.sent /\ u.connected = s.connected
    BY ONLY <2>2, s \in SourceOf(o) DEF SourceOf
  <2>4. ASSUME Accounted(s) PROVE Accounted(u)
    <3>1. s.connected = TRUE
      BY <1>3, <1>a
    <3>2. Due(s) = s.from + 1 .. s.sent /\ Due(u) = s.from + 1 .. s.sent
      BY <1>a, <2>3, <3>1 DEF Due, Answerable
    <3>3. Range(s.queue) = {}
      BY <1>3 DEF Range
    <3>4. \A m \in s.from + 1 .. s.sent : m \in Range(s.produced) \cup s.discarded
      BY <2>4, <3>2, <3>3 DEF Accounted
    <3> QED BY <2>3, <3>2, <3>4 DEF Accounted, Seen
  <2> QED BY <1>0, <2>2, <2>3, <2>4 DEF Kept
<1> QED BY <1>1, <1>2, <1>3

\* Kafka's messages wait in the order in which they were sent; one that is
\* taken is published before it is committed.
LEMMA KafkaSteps ==
  ASSUME NEW o, NEW s \in SourceOf(o), NEW pc \in {"start", "poll", "commit"}, s.kind = "kafka",
         NEW t \in kafkaStart(s, pc), Waiting(s), pc = "commit" => Committable(s)
  PROVE  /\ Kept(o, s, t.s) /\ t.pc \in {"poll", "commit", "done"}
         /\ Waiting(t.s)
         /\ Committable(s) \/ t.pc = "commit" => Committable(t.s)
<1>f. /\ s.queue \in Seq(Nat \ {0}) /\ s.produced \in Seq(Nat) /\ s.sent \in Nat /\ s.committed \in Nat
      /\ Len(s.queue) \in Nat /\ Len(s.produced) \in Nat
  BY SourceFields
<1>0. PICK u : u = t.s
  OBVIOUS
<1>1. ASSUME u \in SourceOf(o), u.kind = s.kind, u.queue = s.queue, u.produced = s.produced, u.sent = s.sent,
             u.committed = s.committed, u.discarded = s.discarded, u.from = s.from,
             u.zmq = s.zmq, u.mInterrupted = s.mInterrupted, s.located => u.located, t.pc \in {"poll", "done"}
      PROVE  /\ Kept(o, s, u) /\ t.pc \in {"poll", "commit", "done"} /\ Waiting(u)
             /\ Committable(s) \/ t.pc = "commit" => Committable(u)
  <2>1. Placed(s, u)
    BY <1>1 DEF Placed
  <2>2. Kept(o, s, u)
    BY <1>1, <2>1, PlacedKept DEF Kept
  <2>3. Taken(u) = Taken(s)
    BY <1>1 DEF Taken
  <2>4. Waiting(u) /\ (Committable(s) => Committable(u))
    BY <1>1, <2>3 DEF Waiting, Committable
  <2> QED BY <1>1, <2>2, <2>4
<1>2. CASE s.queue # <<>> /\ u = Take(Publish(s, Head(s.queue))) /\ t.pc = "commit"
  <2>1. /\ u \in SourceOf(o)
        /\ u.produced = Append(s.produced, Head(s.queue)) /\ u.queue = Tail(s.queue)
        /\ u.kind = s.kind /\ u.sent = s.sent /\ u.committed = s.committed
        /\ Accounted(s) => Accounted(u)
        /\ u.zmq = s.zmq /\ u.mInterrupted = s.mInterrupted /\ u.discarded = s.discarded /\ u.located = s.located
    BY <1>2, TakenPublished
  <2>2. /\ Head(s.queue) = s.queue[1] /\ Head(s.queue) \in Nat \ {0}
        /\ Tail(s.queue) \in Seq(Nat \ {0}) /\ Len(Tail(s.queue)) = Len(s.queue) - 1 /\ Len(s.queue) \in Nat \ {0}
        /\ \A j \in 1 .. Len(s.queue) - 1 : Tail(s.queue)[j] = s.queue[j + 1]
    BY <1>2, <1>f, TailFacts
  <2>3. Taken(u) = Taken(s) + 1 /\ Taken(s) \in Nat
    BY <2>1, <2>2, <1>f, SMTT(60) DEF Taken, Waiting
  <2>4. Waiting(u)
    <3>1. Len(u.queue) <= u.sent /\ u.committed <= Taken(u)
      BY <2>1, <2>2, <2>3, <1>f, SMTT(60) DEF Waiting
    <3>2. \A j \in 1 .. Len(u.queue) : u.queue[j] = Taken(u) + j
      <4> TAKE j \in 1 .. Len(u.queue)
      <4>1. u.queue[j] = s.queue[j + 1] /\ j + 1 \in 1 .. Len(s.queue)
        BY <2>1, <2>2
      <4>2. s.queue[j + 1] = Taken(s) + (j + 1)
        BY <4>1 DEF Waiting
      <4> QED BY <4>1, <4>2, <2>2, <2>3
    <3>3. u.located
      BY <1>2, <2>1 DEF Waiting
    <3> QED BY <3>1, <3>2, <3>3 DEF Waiting
  <2>5. Committable(u)
    <3>1. PICK p : p = u.produced
      OBVIOUS
    <3>2. p # <<>> /\ p[Len(p)] = Head(s.queue)
      BY <2>1, <2>2, <3>1, <1>f, AppendProperties, SMTT(60)
    <3>3. Head(s.queue) = Taken(s) + 1
      BY <2>2 DEF Waiting
    <3> QED BY <3>1, <3>2, <3>3, <2>3 DEF Committable
  <2> QED BY <1>0, <1>2, <2>1, <2>4, <2>5 DEF Kept
<1>3. CASE pc = "commit" /\ u = [s EXCEPT !.committed = Last(s.produced)] /\ t.pc = "poll"
  <2>0. Committable(s)
    BY <1>3
  <2>1. PICK c : c = Last(s.produced)
    OBVIOUS
  <2>2. c = s.produced[Len(s.produced)] /\ s.produced # <<>>
    BY <2>0, <2>1 DEF Committable, Last
  <2>3. c \in Nat /\ c <= Taken(s)
    BY <2>0, <2>2, <1>f DEF Committable
  <2>4. /\ u \in SourceOf(o) /\ u.queue = s.queue /\ u.produced = s.produced /\ u.kind = s.kind
        /\ u.sent = s.sent /\ u.committed = c /\ u.discarded = s.discarded
        /\ u.zmq = s.zmq /\ u.mInterrupted = s.mInterrupted /\ Placed(s, u) /\ u.located = s.located
    BY <1>3, <2>1, <2>3 DEF SourceOf, Placed
  <2>5. Accounted(s) => Accounted(u)
    BY <2>4, PlacedKept
  <2>6. Waiting(u) /\ Committable(u)
    BY <2>0, <2>3, <2>4 DEF Waiting, Taken, Committable
  <2> QED BY <1>0, <1>3, <2>4, <2>5, <2>6 DEF Kept
<1>4. CASE pc \in {"start", "poll"}
  <2>1. \/ t = Step([s EXCEPT !.alive = FALSE], "done")
        \/ t = Step([s EXCEPT !.errors = @ + 1], "poll")
        \/ t = Step([s EXCEPT !.located = TRUE], "poll")
        \/ s.queue # <<>> /\ t = Step(Take(Publish(s, Head(s.queue))), "commit")
    BY <1>4 DEF kafkaStart, poll
  <2>2. CASE t = Step([s EXCEPT !.alive = FALSE], "done")
    <3>1. u = [s EXCEPT !.alive = FALSE] /\ t.pc = "done"
      BY <1>0, <2>2 DEF Step
    <3>2. /\ u \in SourceOf(o) /\ u.kind = s.kind /\ u.queue = s.queue /\ u.produced = s.produced /\ u.sent = s.sent
          /\ u.committed = s.committed /\ u.discarded = s.discarded /\ u.from = s.from
          /\ u.zmq = s.zmq /\ u.mInterrupted = s.mInterrupted /\ u.located = s.located
      BY ONLY <3>1, s \in SourceOf(o) DEF SourceOf
    <3> QED BY <1>0, <3>1, <3>2, <1>1
  <2>3. CASE t = Step([s EXCEPT !.errors = @ + 1], "poll")
    <3>0. PICK e \in Nat : e = s.errors + 1
      BY SourceFields
    <3>1. u = [s EXCEPT !.errors = e] /\ t.pc = "poll"
      BY <1>0, <2>3, <3>0 DEF Step
    <3>2. /\ u \in SourceOf(o) /\ u.kind = s.kind /\ u.queue = s.queue /\ u.produced = s.produced /\ u.sent = s.sent
          /\ u.committed = s.committed /\ u.discarded = s.discarded /\ u.from = s.from
          /\ u.zmq = s.zmq /\ u.mInterrupted = s.mInterrupted /\ u.located = s.located
      BY ONLY <3>1, s \in SourceOf(o) DEF SourceOf
    <3> QED BY <1>0, <3>1, <3>2, <1>1
  <2>4. CASE t = Step([s EXCEPT !.located = TRUE], "poll")
    <3>1. u = [s EXCEPT !.located = TRUE] /\ t.pc = "poll"
      BY <1>0, <2>4 DEF Step
    <3>2. /\ u \in SourceOf(o) /\ u.kind = s.kind /\ u.queue = s.queue /\ u.produced = s.produced /\ u.sent = s.sent
          /\ u.committed = s.committed /\ u.discarded = s.discarded /\ u.from = s.from
          /\ u.zmq = s.zmq /\ u.mInterrupted = s.mInterrupted /\ u.located = TRUE
      BY ONLY <3>1, s \in SourceOf(o) DEF SourceOf
    <3> QED BY <1>0, <3>1, <3>2, <1>1
  <2>5. CASE s.queue # <<>> /\ t = Step(Take(Publish(s, Head(s.queue))), "commit")
    <3>1. t.s = Take(Publish(s, Head(s.queue))) /\ t.pc = "commit"
      BY <2>5 DEF Step
    <3> QED BY <1>0, <2>5, <3>1, <1>2
  <2> QED BY <2>1, <2>2, <2>3, <2>4, <2>5
<1>5. CASE pc = "commit"
  <2>1. t = Step([s EXCEPT !.committed = Last(s.produced)], "poll")
    BY <1>5 DEF kafkaStart
  <2> QED BY <1>0, <2>1, <1>3, <1>5 DEF Step
<1> QED BY <1>4, <1>5

\* The start function of a ZMQ source publishes nothing: it creates the thread.
LEMMA ZmqSteps ==
  ASSUME NEW o, NEW s \in SourceOf(o), NEW pc, s.kind = "zmq", NEW t \in zmqStart(s, pc)
  PROVE  /\ Kept(o, s, t.s) /\ t.pc = "done" /\ t.s.produced = s.produced
         /\ t.s.zmq = s.zmq \/ t.s.zmq \in {"created", "replaced"}
         /\ t.s.mInterrupted = s.mInterrupted
<1>1. CASE ~s.mInterrupted
  <2>1. t = Step(s, "done")
    BY <1>1 DEF zmqStart
  <2> QED BY <2>1 DEF Step, Kept
<1>2. CASE s.mInterrupted
  <2>1. PICK z \in {"created", "replaced"} : z = IF s.zmq = "created" THEN "replaced" ELSE "created"
    OBVIOUS
  <2>2. t = Step([s EXCEPT !.zmq = z], "done")
    BY <1>2, <2>1 DEF zmqStart
  <2>3. PICK u : u = [s EXCEPT !.zmq = z]
    OBVIOUS
  <2>4. t.s = u /\ t.pc = "done"
    BY <2>2, <2>3 DEF Step
  <2>5. /\ u \in SourceOf(o) /\ u.queue = s.queue /\ u.produced = s.produced /\ u.kind = s.kind
        /\ u.sent = s.sent /\ u.discarded = s.discarded
        /\ u.zmq = z /\ u.mInterrupted = s.mInterrupted /\ Placed(s, u)
    BY <2>3 DEF SourceOf, Placed, ZmqStates, Threads
  <2>6. Accounted(s) => Accounted(u)
    BY <2>5, PlacedKept
  <2> QED BY <2>1, <2>4, <2>5, <2>6 DEF Kept
<1> QED BY <1>1, <1>2

\* A step of a start function, whatever its source.
LEMMA StepFacts ==
  ASSUME NEW o, NEW s \in SourceOf(o), NEW pc \in PCs, NEW n \in Nat, NEW t \in Steps(s, pc, n),
         s.kind = "kafka" =>
            Waiting(s) /\ pc \in {"start", "poll", "commit"} /\ (pc = "commit" => Committable(s)),
         ~Gone(s, pc)
  PROVE  /\ Kept(o, s, t.s) /\ t.pc \in PCs
         /\ s.kind = "rabbitmq" => t.pc # "start" /\ OneDropped(s, t.s, pc)
         /\ s.kind = "kafka" =>
               /\ Waiting(t.s) /\ t.pc \in {"start", "poll", "commit", "done"}
               /\ Committable(s) \/ t.pc = "commit" => Committable(t.s)
         /\ Ends(s) =>
               /\ t.s.queue = s.queue
               /\ n < Len(s.queue) => t.s.produced = Append(s.produced, s.queue[n + 1]) /\ t.pc = "more"
               /\ ~(n < Len(s.queue)) => t.s.produced = Append(s.produced, EOS) /\ t.pc = "done"
         /\ s.kind = "zmq" =>
               /\ t.s.produced = s.produced /\ t.s.mInterrupted = s.mInterrupted
               /\ t.s.zmq = s.zmq \/ t.s.zmq \in {"created", "replaced"}
<1>f. s.queue \in Seq(Nat) /\ s.data \in Seq(Nat) /\ s.kind \in Finite \cup Brokers
  BY SourceFields
<1>1. CASE s.kind = "file"
  <2>1. t \in produceAll(s, s.queue, n)
    BY <1>1 DEF Steps, TextFileSource_start
  <2>2. s.kind \in Finite
    BY <1>1 DEF Finite
  <2> QED BY <1>1, <1>f, <2>1, <2>2, FiniteSteps DEF Ends, Finite
<1>2. CASE s.kind = "generator"
  <2>1. t \in produceAll(s, s.queue, n)
    BY <1>2 DEF Steps, StreamGenerator_start
  <2>2. s.kind \in Finite
    BY <1>2 DEF Finite
  <2> QED BY <1>2, <1>f, <2>1, <2>2, FiniteSteps DEF Ends, Finite
<1>3. CASE s.kind = "select"
  <2>1. t \in produceAll(s, s.queue, n)
    BY <1>3 DEF Steps, SelectFromTable_start
  <2>2. s.kind \in Finite
    BY <1>3 DEF Finite
  <2> QED BY <1>3, <1>f, <2>1, <2>2, FiniteSteps DEF Ends, Finite
<1>4. CASE s.kind = "memory"
  <2>1. t \in produceAll(s, s.data, n)
    BY <1>4 DEF Steps, MemorySource_start
  <2>2. s.kind \in Finite
    BY <1>4 DEF Finite
  <2> QED BY <1>4, <1>f, <2>1, <2>2, FiniteSteps DEF Ends, Finite
<1>5. CASE s.kind = "rest"
  <2>1. t \in restStart(s, pc)
    BY <1>5 DEF Steps
  <2>2. t = Step(s, "serving")
    BY <2>1 DEF restStart
  <2>3. t.s = s /\ t.pc = "serving"
    BY <2>2 DEF Step
  <2> QED BY <1>5, <2>3 DEF Ends, Finite, PCs, Kept
<1>6. CASE s.kind = "rabbitmq"
  <2>1. t \in rabbitStart(s, pc)
    BY <1>6 DEF Steps
  <2>2. Kept(o, s, t.s) /\ t.pc \in {"more", "done"} /\ OneDropped(s, t.s, pc)
    BY <1>6, <2>1, RabbitSteps
  <2>3. t.pc \in PCs /\ t.pc # "start" /\ ~Ends(s)
    BY <1>6, <2>2 DEF Ends, Finite, PCs
  <2> QED BY <1>6, <2>2, <2>3
<1>7. CASE s.kind = "kafka"
  <2>1. t \in kafkaStart(s, pc)
    BY <1>7 DEF Steps
  <2>2. /\ Kept(o, s, t.s) /\ t.pc \in {"poll", "commit", "done"}
        /\ Waiting(t.s)
        /\ Committable(s) \/ t.pc = "commit" => Committable(t.s)
    BY <1>7, <2>1, KafkaSteps
  <2> QED BY <1>7, <2>2 DEF Ends, Finite, PCs
<1>8. CASE s.kind = "mqtt"
  <2>1. t \in mqttStart(s, pc)
    BY <1>8 DEF Steps
  <2>2. Kept(o, s, t.s) /\ t.pc \in {"more", "leaving", "done"}
    BY <1>8, <2>1, MqttSteps
  <2> QED BY <1>8, <2>2 DEF Ends, Finite, PCs
<1>9. CASE s.kind = "zmq"
  <2>1. t \in zmqStart(s, pc)
    BY <1>9 DEF Steps
  <2>2. /\ Kept(o, s, t.s) /\ t.pc = "done" /\ t.s.produced = s.produced
        /\ t.s.zmq = s.zmq \/ t.s.zmq \in {"created", "replaced"}
        /\ t.s.mInterrupted = s.mInterrupted
    BY <1>9, <2>1, ZmqSteps
  <2> QED BY <1>9, <2>2 DEF Ends, Finite, PCs
<1> QED BY <1>f, <1>1, <1>2, <1>3, <1>4, <1>5, <1>6, <1>7, <1>8, <1>9 DEF Finite, Brokers

\* Counting round a cycle.
LEMMA NextInCycle ==
  ASSUME NEW w \in Nat \ {0}, NEW a \in Nat, NEW n \in Nat, n < w, a % w = n
  PROVE  /\ n + 1 = w => (a + 1) % w = 0
         /\ n + 1 # w => (a + 1) % w = n + 1
<1>1. ASSUME NEW b \in Nat, NEW m \in Nat, m < w, NEW p \in Nat, b = w * p + m PROVE b % w = m
  BY <1>1
<1>2. a = w * (a \div w) + (a % w) /\ a \div w \in Nat
  OBVIOUS
<1>3. PICK q \in Nat : a = w * q + n
  BY <1>2
<1>4. ASSUME n + 1 = w PROVE (a + 1) % w = 0
  <2>1. a + 1 = w * q + w
    BY <1>3, <1>4
  <2>2. w * q + w = w * (q + 1) + 0
    OBVIOUS
  <2>3. PICK p \in Nat, z \in Nat : p = q + 1 /\ z = 0
    OBVIOUS
  <2>4. a + 1 = w * p + z /\ z < w /\ a + 1 \in Nat
    BY <2>1, <2>2, <2>3
  <2> QED BY <1>1, <2>3, <2>4
<1>5. ASSUME n + 1 # w PROVE (a + 1) % w = n + 1
  <2>1. PICK m \in Nat, b \in Nat : m = n + 1 /\ b = a + 1
    OBVIOUS
  <2>2. m < w /\ b = w * q + m
    BY <1>3, <1>5, <2>1
  <2> QED BY <1>1, <2>1, <2>2
<1> QED BY <1>4, <1>5

\* The stream of a source goes on with the element its function is at.
LEMMA StreamGoesOn ==
  ASSUME NEW o, NEW s \in SourceOf(o), NEW t \in SourceOf(o), NEW n \in Nat,
         Repeats(s), n < Cycle(s), Len(s.produced) % Cycle(s) = n,
         t.queue = s.queue,
         n < Len(s.queue) => t.produced = Append(s.produced, s.queue[n + 1]),
         ~(n < Len(s.queue)) => t.produced = Append(s.produced, EOS)
  PROVE  /\ Repeats(t)
         /\ n < Len(s.queue) => n + 1 < Cycle(t) /\ Len(t.produced) % Cycle(t) = n + 1
         /\ ~(n < Len(s.queue)) => Len(t.produced) % Cycle(t) = 0
<1>f. /\ s.queue \in Seq(Nat) /\ s.produced \in Seq(Nat) /\ Len(s.queue) \in Nat /\ Len(s.produced) \in Nat
  BY SourceFields
<1>1. PICK q, p, w, a : q = s.queue /\ p = s.produced /\ w = Len(q) + 1 /\ a = Len(p)
  OBVIOUS
<1>2. q \in Seq(Nat) /\ p \in Seq(Nat) /\ w \in Nat \ {0} /\ a \in Nat /\ Len(q) = w - 1 /\ Len(q) \in Nat
  BY <1>f, <1>1
<1>3. Cycle(s) = w /\ Cycle(t) = w /\ n < w /\ a % w = n
  BY <1>1 DEF Cycle
<1>4. PICK e : e = Append(q, EOS)[n + 1]
  OBVIOUS
<1>5. /\ n < Len(q) => e = q[n + 1]
      /\ ~(n < Len(q)) => e = EOS
  <2>1. EOS \in Nat
    BY DEF EOS
  <2>2. /\ \A i \in 1 .. Len(q) : Append(q, EOS)[i] = q[i]
        /\ Append(q, EOS)[Len(q) + 1] = EOS
    BY <1>2, <2>1, AppendProperties
  <2>3. n < Len(q) => n + 1 \in 1 .. Len(q)
    BY <1>2
  <2>4. ~(n < Len(q)) => n + 1 = Len(q) + 1
    BY <1>2, <1>3
  <2> QED BY <1>4, <2>2, <2>3, <2>4
<1>6. t.produced = Append(p, e)
  BY <1>1, <1>5
<1>7. e \in Nat
  BY <1>2, <1>5 DEF EOS
<1>8. PICK r : r = Append(p, e)
  OBVIOUS
<1>9. /\ r \in Seq(Nat) /\ Len(r) = a + 1 /\ DOMAIN r = 1 .. a + 1 /\ r[a + 1] = e
      /\ \A i \in 1 .. a : r[i] = p[i]
  <2>1. r \in Seq(Nat) /\ Len(r) = Len(p) + 1 /\ r[Len(p) + 1] = e /\ \A i \in 1 .. Len(p) : r[i] = p[i]
    BY <1>2, <1>7, <1>8, AppendProperties
  <2> QED BY <1>1, <1>2, <2>1
<1>10. Repeats(t)
  <2> SUFFICES ASSUME NEW i \in 1 .. a + 1 PROVE r[i] = Append(q, EOS)[((i - 1) % w) + 1]
    BY <1>1, <1>3, <1>6, <1>8, <1>9 DEF Repeats
  <2>1. CASE i = a + 1
    <3>1. i - 1 = a
      BY <2>1, <1>2
    <3> QED BY <3>1, <2>1, <1>3, <1>4, <1>9
  <2>2. CASE i # a + 1
    <3>1. i \in 1 .. a /\ i \in DOMAIN p
      BY <2>2, <1>1, <1>2, SMTT(60)
    <3>2. p[i] = Append(q, EOS)[((i - 1) % w) + 1]
      BY <3>1, <1>1, <1>3 DEF Repeats
    <3> QED BY <3>1, <3>2, <1>9
  <2> QED BY <2>1, <2>2
<1>11. (n + 1 = w => (a + 1) % w = 0) /\ (n + 1 # w => (a + 1) % w = n + 1)
  BY <1>2, <1>3, NextInCycle
<1>12. Len(t.produced) = a + 1
  BY <1>6, <1>8, <1>9
<1>13. n < Len(q) <=> n + 1 < w
  BY <1>2
<1>14. n + 1 < w => n + 1 # w
  OBVIOUS
<1>15. ~(n + 1 < w) => n + 1 = w
  BY <1>2, <1>3
<1> QED BY <1>1, <1>3, <1>10, <1>11, <1>12, <1>13, <1>14, <1>15

-----------------------------------------------------------------------------
(* The sources and the runs after a step.                                  *)

\* The run after a step of its function.
LEMMA RunAfter ==
  ASSUME NEW D, NEW rr, rr \in Seq(Range(rr)), \A l \in DOMAIN rr : rr[l] \in RunOf(D),
         NEW k \in DOMAIN rr, NEW e \in RunOf(D), NEW r2, r2 = [rr EXCEPT ![k] = e]
  PROVE  /\ r2 \in Seq(Range(r2)) /\ DOMAIN r2 = DOMAIN rr /\ r2[k] = e
         /\ \A l \in DOMAIN rr \ {k} : r2[l] = rr[l]
         /\ \A l \in DOMAIN r2 : r2[l] \in RunOf(D)
<1>1. k \in DOMAIN rr /\ rr \in Seq(Range(rr)) /\ r2 = [rr EXCEPT ![k] = e]
  OBVIOUS
<1>2. /\ r2 \in Seq(Range(r2)) /\ DOMAIN r2 = DOMAIN rr /\ r2[k] = e
      /\ \A l \in DOMAIN rr \ {k} : r2[l] = rr[l]
  BY ONLY <1>1, ExceptFacts
<1> QED BY <1>2

\* What holds of a source that is changed alone, and of the others.
LEMMA SourceAfter ==
  ASSUME NEW ss, SourcesType(ss), NEW i \in DOMAIN ss, NEW u \in SourceOf(ss[i].op),
         NEW s2, s2 = [ss EXCEPT ![i] = u]
  PROVE  /\ SourcesType(s2) /\ DOMAIN s2 = DOMAIN ss /\ s2[i] = u
         /\ \A j \in DOMAIN ss \ {i} : s2[j] = ss[j]
<1>1. /\ s2 \in Seq(Range(s2)) /\ DOMAIN s2 = DOMAIN ss /\ s2[i] = u
      /\ \A j \in DOMAIN ss \ {i} : s2[j] = ss[j]
  BY ExceptFacts DEF SourcesType
<1>2. u.op = ss[i].op
  BY SourceFields
<1>3. \A j \in DOMAIN s2 : s2[j] \in SourceOf(s2[j].op)
  BY <1>1, <1>2 DEF SourcesType
<1> QED BY <1>1, <1>3 DEF SourcesType

\* The runs after a step of function k that takes it to pc and n.
Advanced(rr, k, pc, n) == [rr EXCEPT ![k].pc = pc, ![k].n = n]

\* What a step of one of the functions leaves as it was.
StreamsKept(ss, rr, s2, r2) == OneRunEach(rr) /\ StreamsOK(ss, rr) => StreamsOK(s2, r2)
DropsKept(ss, rr, s2, r2) == \A c, at : DropsOK(ss, rr, c, at) => DropsOK(s2, r2, c, at)
CallersKept(rr, r2) ==
    \A l \in DOMAIN rr : /\ r2[l].src = rr[l].src /\ r2[l].by = rr[l].by
                         /\ Active(r2[l]) => Active(rr[l])

StepKept(ss, rr, s2, r2, i) ==
    /\ SourcesType(s2) /\ RunsType(s2, r2) /\ BrokersOK(s2, r2)
    /\ StreamsKept(ss, rr, s2, r2) /\ CallersKept(rr, r2) /\ DropsKept(ss, rr, s2, r2)
    /\ DOMAIN s2 = DOMAIN ss /\ DOMAIN r2 = DOMAIN rr
    /\ i \in DOMAIN ss /\ \A j \in DOMAIN ss \ {i} : s2[j] = ss[j]
    /\ s2[i].kind = ss[i].kind
    /\ ss[i].kind # "zmq" => s2[i].zmq = ss[i].zmq /\ s2[i].mInterrupted = ss[i].mInterrupted
    /\ ss[i].kind = "zmq" =>
          /\ s2[i].produced = ss[i].produced /\ s2[i].mInterrupted = ss[i].mInterrupted
          /\ s2[i].zmq = ss[i].zmq \/ s2[i].zmq \in {"created", "replaced"}

\* The runs that have begun are finitely many.
LEMMA BegunFinite ==
  ASSUME NEW rr, rr \in Seq(Range(rr)), NEW i
  PROVE  IsFiniteSet(BegunOf(rr, i)) /\ Cardinality(BegunOf(rr, i)) \in Nat
<1>1. PICK n \in Nat : DOMAIN rr = 1 .. n
  BY SeqFacts
<1>2. IsFiniteSet(1 .. n)
  BY FS_Interval
<1>3. BegunOf(rr, i) \subseteq 1 .. n
  BY <1>1 DEF BegunOf
<1> QED BY <1>2, <1>3, FS_Subset, FS_CardinalityType

\* One message more is dropped, at most, when one run more has begun.
LEMMA DropsAfter ==
  ASSUME NEW s, NEW u, NEW rr, rr \in Seq(Range(rr)), NEW r2, r2 \in Seq(Range(r2)), NEW i, NEW c, NEW at,
         DropsOf(s, rr, i, c, at), u.kind = s.kind,
         \/ u.discarded = s.discarded
         \/ s.kind = "rabbitmq" /\ (\E h \in Nat : u.discarded = s.discarded \cup {h})
               /\ \E k \in BegunOf(r2, i) : k \notin BegunOf(rr, i),
         BegunOf(rr, i) \subseteq BegunOf(r2, i)
  PROVE  DropsOf(u, r2, i, c, at)
<1>1. /\ IsFiniteSet(BegunOf(rr, i)) /\ Cardinality(BegunOf(rr, i)) \in Nat
      /\ IsFiniteSet(BegunOf(r2, i)) /\ Cardinality(BegunOf(r2, i)) \in Nat
  BY BegunFinite
<1>2. IsFiniteSet(s.discarded) /\ Cardinality(s.discarded) \in Nat
  BY FS_CardinalityType DEF DropsOf
<1>3. Cardinality(BegunOf(rr, i)) <= Cardinality(BegunOf(r2, i))
  BY <1>1, FS_Subset
<1>4. CASE u.discarded = s.discarded
  BY <1>1, <1>2, <1>3, <1>4 DEF DropsOf
<1>5. CASE s.kind = "rabbitmq" /\ (\E h \in Nat : u.discarded = s.discarded \cup {h})
               /\ \E k \in BegunOf(r2, i) : k \notin BegunOf(rr, i)
  <2>1. PICK h \in Nat, k \in BegunOf(r2, i) : u.discarded = s.discarded \cup {h} /\ k \notin BegunOf(rr, i)
    BY <1>5
  <2>2. PICK d, b, b1, b2 : /\ d = s.discarded /\ b = BegunOf(rr, i) /\ b1 = b \cup {k} /\ b2 = BegunOf(r2, i)
    OBVIOUS
  <2>3. IsFiniteSet(d \cup {h}) /\ Cardinality(d \cup {h}) <= Cardinality(d) + 1 /\ Cardinality(d \cup {h}) \in Nat
    <3>1. IsFiniteSet(d \cup {h}) /\ (Cardinality(d \cup {h}) = Cardinality(d) \/ Cardinality(d \cup {h}) = Cardinality(d) + 1)
      BY <1>2, <2>2, FS_AddElement
    <3> QED BY <1>2, <2>2, <3>1
  <2>4. IsFiniteSet(b1) /\ Cardinality(b1) = Cardinality(b) + 1
    BY <1>1, <2>1, <2>2, FS_AddElement
  <2>5. b1 \subseteq b2
    BY <2>1, <2>2
  <2>6. Cardinality(b1) <= Cardinality(b2)
    BY <1>1, <2>2, <2>5, FS_Subset
  <2>7. Cardinality(d) <= Cardinality(b)
    BY <1>5, <2>2 DEF DropsOf
  <2>8. Cardinality(d \cup {h}) <= Cardinality(b2)
    BY <1>1, <1>2, <2>2, <2>3, <2>4, <2>6, <2>7
  <2> QED BY <1>5, <2>1, <2>2, <2>3, <2>8 DEF DropsOf
<1> QED BY <1>4, <1>5

\* One step of a start function, given what it does to its source and its run.
LEMMA RunStepOK ==
  ASSUME NEW ss, NEW rr, SourcesType(ss), RunsType(ss, rr), BrokersOK(ss, rr),
         NEW k \in DOMAIN rr, Active(rr[k]), NEW i, i = rr[k].src,
         NEW t \in Steps(ss[i], rr[k].pc, rr[k].n), ~Gone(ss[i], rr[k].pc),
         NEW u, u = t.s, NEW s2, s2 = [ss EXCEPT ![i] = u],
         NEW c, c = t.pc, NEW w, w = IF ss[i].kind \in Finite THEN rr[k].n + 1 ELSE rr[k].n,
         NEW r2, r2 = Advanced(rr, k, c, w)
  PROVE  StepKept(ss, rr, s2, r2, i)
<1>1. PICK s, o, pc, n : s = ss[i] /\ o = s.op /\ pc = rr[k].pc /\ n = rr[k].n /\ u = t.s
  OBVIOUS
<1>2. i \in DOMAIN ss /\ pc \in PCs /\ n \in Nat /\ pc # "done"
  BY <1>1 DEF RunsType, RunOf, Active
<1>3. s \in SourceOf(o) /\ t \in Steps(s, pc, n) /\ ~Gone(s, pc)
  BY <1>1, <1>2 DEF SourcesType
<1>w. w \in Nat /\ (Ends(s) => w = n + 1)
  BY <1>1, <1>2 DEF Ends
<1>4. /\ s.kind \in Brokers => Accounted(s)
      /\ s.kind = "kafka" =>
            Waiting(s) /\ pc \in {"start", "poll", "commit"} /\ (pc = "commit" => Committable(s))
  BY <1>1, <1>2 DEF BrokersOK, BrokerOf
<1>5. /\ Kept(o, s, u) /\ t.pc \in PCs
      /\ s.kind = "rabbitmq" => t.pc # "start" /\ OneDropped(s, u, pc)
      /\ s.kind = "kafka" =>
            /\ Waiting(u) /\ t.pc \in {"start", "poll", "commit", "done"}
            /\ Committable(s) \/ t.pc = "commit" => Committable(u)
      /\ Ends(s) =>
            /\ u.queue = s.queue
            /\ n < Len(s.queue) => u.produced = Append(s.produced, s.queue[n + 1]) /\ t.pc = "more"
            /\ ~(n < Len(s.queue)) => u.produced = Append(s.produced, EOS) /\ t.pc = "done"
      /\ s.kind = "zmq" =>
            /\ u.produced = s.produced /\ u.mInterrupted = s.mInterrupted
            /\ u.zmq = s.zmq \/ u.zmq \in {"created", "replaced"}
  BY ONLY <1>1, <1>2, <1>3, <1>4, StepFacts, SMTT(60)
<1>6. u \in SourceOf(o) /\ u.kind = s.kind
  BY <1>5 DEF Kept
<1>7. /\ SourcesType(s2) /\ DOMAIN s2 = DOMAIN ss /\ s2[i] = u
      /\ \A j \in DOMAIN ss \ {i} : s2[j] = ss[j]
  <2>1. s2 = [ss EXCEPT ![i] = u] /\ u \in SourceOf(ss[i].op)
    BY <1>1, <1>6
  <2>2. SourcesType(ss)
    OBVIOUS
  <2> QED BY ONLY <1>2, <2>1, <2>2, SourceAfter
<1>8. /\ r2 \in Seq(Range(r2)) /\ DOMAIN r2 = DOMAIN rr
      /\ r2[k].src = i /\ r2[k].by = rr[k].by /\ r2[k].pc = t.pc /\ r2[k].n = w
      /\ \A l \in DOMAIN rr \ {k} : r2[l] = rr[l]
      /\ \A l \in DOMAIN r2 : r2[l] \in RunOf(DOMAIN ss)
  <2>1. PICK D : D = DOMAIN ss
    OBVIOUS
  <2>e. PICK r, m, e : r = rr[k] /\ m = [r EXCEPT !.pc = c] /\ e = [m EXCEPT !.n = w]
    OBVIOUS
  <2>2. /\ rr \in Seq(Range(rr)) /\ \A l \in DOMAIN rr : rr[l] \in RunOf(D)
        /\ k \in DOMAIN rr /\ c \in PCs /\ c = t.pc
    BY <1>5, <2>1 DEF RunsType
  <2>3. r2 = [rr EXCEPT ![k] = e]
    BY <2>e DEF Advanced
  <2>4. e \in RunOf(D) /\ e.src = r.src /\ e.by = r.by /\ e.pc = c /\ e.n = w
    <3>1. r \in RunOf(D) /\ m = [r EXCEPT !.pc = c]
      BY <2>2, <2>e
    <3>2. m \in RunOf(D) /\ m.src = r.src /\ m.by = r.by /\ m.pc = c /\ m.n = r.n
      BY ONLY <2>2, <3>1 DEF RunOf
    <3>3. e = [m EXCEPT !.n = w]
      BY <2>e
    <3>4. e \in RunOf(D) /\ e.src = m.src /\ e.by = m.by /\ e.pc = m.pc /\ e.n = w
      BY ONLY <3>2, <3>3, <1>w DEF RunOf
    <3> QED BY <3>2, <3>4
  <2>5. /\ r2 \in Seq(Range(r2)) /\ DOMAIN r2 = DOMAIN rr /\ r2[k] = e
        /\ \A l \in DOMAIN rr \ {k} : r2[l] = rr[l]
        /\ \A l \in DOMAIN r2 : r2[l] \in RunOf(D)
    BY ONLY <2>2, <2>3, <2>4, RunAfter
  <2>6. r.src = i /\ r.n = n /\ r.by = rr[k].by
    BY <1>1, <2>e
  <2> QED BY ONLY <2>1, <2>2, <2>4, <2>5, <2>6
<1>9. RunsType(s2, r2)
  BY <1>7, <1>8 DEF RunsType
<1>10. \A l \in DOMAIN rr : /\ r2[l].src = rr[l].src /\ r2[l].by = rr[l].by
                            /\ Active(r2[l]) => Active(rr[l])
  BY <1>8 DEF Active
<1>11. BrokersOK(s2, r2)
  <2> SUFFICES ASSUME NEW j \in DOMAIN ss PROVE BrokerOf(s2[j], r2, j)
    BY <1>7 DEF BrokersOK
  <2>1. BrokerOf(ss[j], rr, j)
    BY DEF BrokersOK
  <2>2. CASE j # i
    <3>1. s2[j] = ss[j]
      BY <1>7, <2>2
    <3>2. \A l \in DOMAIN r2 : r2[l].src = j => l \in DOMAIN rr /\ r2[l] = rr[l]
      BY <1>8, <2>2
    <3> QED BY <2>1, <3>1, <3>2 DEF BrokerOf
  <2>3. CASE j = i
    <3>1. s.kind \in Brokers => Accounted(u)
      BY <1>4, <1>5 DEF Kept
    <3>2. ASSUME s.kind = "kafka", NEW l \in DOMAIN r2, r2[l].src = i
          PROVE  r2[l].pc \in {"start", "poll", "commit", "done"} /\ (r2[l].pc = "commit" => Committable(u))
      <4>1. CASE l = k
        BY <3>2, <4>1, <1>5, <1>8
      <4>2. CASE l # k
        <5>1. l \in DOMAIN rr /\ r2[l] = rr[l]
          BY <1>8, <4>2
        <5>2. rr[l].pc \in {"start", "poll", "commit", "done"} /\ (rr[l].pc = "commit" => Committable(s))
          BY <1>1, <2>1, <2>3, <3>2, <5>1 DEF BrokerOf
        <5> QED BY <1>5, <3>2, <5>1, <5>2
      <4> QED BY <4>1, <4>2
    <3> QED BY <1>5, <1>6, <1>7, <2>3, <3>1, <3>2 DEF BrokerOf
  <2> QED BY <2>2, <2>3
<1>14. ASSUME OneRunEach(rr), StreamsOK(ss, rr) PROVE StreamsOK(s2, r2)
  <2> SUFFICES ASSUME NEW j \in DOMAIN ss, Ends(s2[j]) PROVE StreamOf(s2[j], r2, j)
    BY <1>7 DEF StreamsOK
  <2>2. CASE j # i
    <3>1. s2[j] = ss[j]
      BY <1>7, <2>2
    <3>2. StreamOf(ss[j], rr, j)
      BY <1>14, <3>1 DEF StreamsOK
    <3>3. RunsOn(r2, j) = RunsOn(rr, j) /\ \A l \in RunsOn(rr, j) : r2[l] = rr[l]
      <4>1. \A l \in DOMAIN rr : l # k => r2[l] = rr[l]
        BY <1>8
      <4>2. rr[k].src # j /\ r2[k].src # j
        BY <1>8, <2>2
      <4>3. \A l \in DOMAIN rr : r2[l].src = j \/ rr[l].src = j => r2[l] = rr[l]
        BY ONLY <4>1, <4>2
      <4>4. DOMAIN r2 = DOMAIN rr
        BY <1>8
      <4> QED BY ONLY <4>3, <4>4 DEF RunsOn
    <3> QED BY <3>1, <3>2, <3>3 DEF StreamOf
  <2>3. CASE j = i
    <3>1. Ends(s)
      BY <1>6, <1>7, <2>3 DEF Ends
    <3>2. StreamOf(s, rr, i)
      BY <1>1, <1>2, <1>14, <3>1 DEF StreamsOK
    <3>3. k \in RunsOn(rr, i)
      BY DEF RunsOn
    <3>4. Repeats(s) /\ n < Cycle(s) /\ Len(s.produced) % Cycle(s) = n
      BY <1>1, <3>2, <3>3 DEF StreamOf
    <3>5. /\ Repeats(u)
          /\ n < Len(s.queue) => n + 1 < Cycle(u) /\ Len(u.produced) % Cycle(u) = n + 1
          /\ ~(n < Len(s.queue)) => Len(u.produced) % Cycle(u) = 0
      <4>1. /\ s \in SourceOf(o) /\ u \in SourceOf(o) /\ n \in Nat /\ u.queue = s.queue
            /\ n < Len(s.queue) => u.produced = Append(s.produced, s.queue[n + 1])
            /\ ~(n < Len(s.queue)) => u.produced = Append(s.produced, EOS)
        BY <1>2, <1>3, <1>5, <1>6, <3>1
      <4> QED BY ONLY <3>4, <4>1, StreamGoesOn
    <3>6. RunsOn(r2, i) \subseteq {k}
      <4>1. \A l \in DOMAIN rr : rr[l].src = i /\ Active(rr[l]) => l = k
        BY <1>14 DEF OneRunEach
      <4>2. DOMAIN r2 = DOMAIN rr
        BY <1>8
      <4> QED BY ONLY <4>1, <4>2, <1>10 DEF RunsOn
    <3>7. CASE n < Len(s.queue)
      <4>1. k \in RunsOn(r2, i)
        BY <3>1, <3>7, <1>5, <1>8 DEF RunsOn, Active
      <4>2. r2[k].n = n + 1
        BY <3>1, <1>8, <1>w
      <4>3. RunsOn(r2, i) = {k} /\ s2[j] = u /\ j = i
        BY <4>1, <3>6, <1>7, <2>3
      <4> QED BY ONLY <4>2, <4>3, <3>5, <3>7 DEF StreamOf
    <3>8. CASE ~(n < Len(s.queue))
      <4>1. k \notin RunsOn(r2, i)
        BY <3>1, <3>8, <1>5, <1>8 DEF RunsOn, Active
      <4>2. RunsOn(r2, i) = {}
        BY <4>1, <3>6
      <4> QED BY <4>2, <3>5, <3>8, <1>7, <2>3 DEF StreamOf
    <3> QED BY <3>7, <3>8
  <2> QED BY <2>2, <2>3
<1>15. s.kind # "zmq" => u.zmq = s.zmq /\ u.mInterrupted = s.mInterrupted
  BY <1>5 DEF Kept
<1>16. StreamsKept(ss, rr, s2, r2) /\ CallersKept(rr, r2)
  <2>1. OneRunEach(rr) /\ StreamsOK(ss, rr) => StreamsOK(s2, r2)
    BY ONLY <1>14
  <2> QED BY ONLY <1>10, <2>1 DEF StreamsKept, CallersKept
<1>17. /\ s2[i].kind = ss[i].kind
       /\ ss[i].kind # "zmq" => s2[i].zmq = ss[i].zmq /\ s2[i].mInterrupted = ss[i].mInterrupted
       /\ ss[i].kind = "zmq" =>
               /\ s2[i].produced = ss[i].produced /\ s2[i].mInterrupted = ss[i].mInterrupted
               /\ s2[i].zmq = ss[i].zmq \/ s2[i].zmq \in {"created", "replaced"}
  BY <1>1, <1>5, <1>6, <1>7, <1>15
<1>18. DropsKept(ss, rr, s2, r2)
  <2> SUFFICES ASSUME NEW d, NEW at, DropsOK(ss, rr, d, at), NEW j \in DOMAIN ss
               PROVE  DropsOf(s2[j], r2, j, d, at)
    BY <1>7 DEF DropsKept, DropsOK
  <2>1. DropsOf(ss[j], rr, j, d, at)
    BY DEF DropsOK
  <2>2. rr \in Seq(Range(rr)) /\ r2 \in Seq(Range(r2))
    BY <1>8 DEF RunsType
  <2>3. CASE j # i
    <3>1. s2[j] = ss[j]
      BY <1>7, <2>3
    <3>2. BegunOf(r2, j) = BegunOf(rr, j)
      <4>1. \A l \in DOMAIN rr : l # k => r2[l] = rr[l]
        BY <1>8
      <4>2. rr[k].src # j /\ r2[k].src # j
        BY <1>8, <2>3
      <4>3. \A l \in DOMAIN rr : r2[l].src = j \/ rr[l].src = j => r2[l] = rr[l]
        BY ONLY <4>1, <4>2
      <4>4. DOMAIN r2 = DOMAIN rr
        BY <1>8
      <4> QED BY ONLY <4>3, <4>4 DEF BegunOf
    <3> QED BY <2>1, <3>1, <3>2 DEF DropsOf
  <2>4. CASE j = i /\ s.kind # "rabbitmq"
    <3>1. u.discarded = s.discarded
      BY <1>5, <2>4 DEF Kept
    <3> QED BY <1>1, <1>6, <1>7, <2>1, <2>4, <3>1 DEF DropsOf
  <2>5. CASE j = i /\ s.kind = "rabbitmq"
    <3>1. BegunOf(rr, i) \subseteq BegunOf(r2, i) /\ k \in BegunOf(r2, i)
      <4>1. r2[k].src = i /\ r2[k].pc # "start" /\ k \in DOMAIN r2
        BY <1>5, <1>8, <2>5
      <4>2. \A l \in DOMAIN rr : l # k => r2[l] = rr[l]
        BY <1>8
      <4> QED BY <4>1, <4>2, <1>8 DEF BegunOf
    <3>2. \/ u.discarded = s.discarded
          \/ s.kind = "rabbitmq" /\ (\E h \in Nat : u.discarded = s.discarded \cup {h})
                /\ \E l \in BegunOf(r2, i) : l \notin BegunOf(rr, i)
      <4>1. CASE u.discarded = s.discarded
        BY <4>1
      <4>2. CASE pc = "start" /\ \E h \in Nat : u.discarded = s.discarded \cup {h}
        <5>1. k \notin BegunOf(rr, i)
          BY <1>1, <4>2 DEF BegunOf
        <5> QED BY <2>5, <3>1, <4>2, <5>1
      <4> QED BY <1>5, <2>5, <4>1, <4>2 DEF OneDropped
    <3>3. DropsOf(s, rr, i, d, at)
      BY <1>1, <2>1, <2>5
    <3>4. DropsOf(u, r2, i, d, at)
      BY ONLY <1>6, <2>2, <3>1, <3>2, <3>3, DropsAfter
    <3> QED BY <1>7, <2>5, <3>4
  <2> QED BY <2>3, <2>4, <2>5
<1> QED BY <1>2, <1>7, <1>8, <1>9, <1>11, <1>16, <1>17, <1>18 DEF StepKept

\* More functions are called.
LEMMA RunsGrowOK ==
  ASSUME NEW ss, SourcesType(ss), NEW rr, NEW r2, DOMAIN rr \subseteq DOMAIN r2,
         \A k \in DOMAIN rr : r2[k] = rr[k],
         \A k \in DOMAIN r2 \ DOMAIN rr : r2[k].pc = "start" /\ r2[k].n = 0
  PROVE  /\ BrokersOK(ss, rr) => BrokersOK(ss, r2)
         /\ StreamsOK(ss, rr) /\ (\A k \in DOMAIN r2 \ DOMAIN rr : RunsOn(rr, r2[k].src) = {}) =>
               StreamsOK(ss, r2)
<1>1. ASSUME BrokersOK(ss, rr) PROVE BrokersOK(ss, r2)
  <2> SUFFICES ASSUME NEW i \in DOMAIN ss PROVE BrokerOf(ss[i], r2, i)
    BY DEF BrokersOK
  <2>1. BrokerOf(ss[i], rr, i)
    BY <1>1 DEF BrokersOK
  <2> QED BY <2>1 DEF BrokerOf
<1>2. ASSUME StreamsOK(ss, rr), \A k \in DOMAIN r2 \ DOMAIN rr : RunsOn(rr, r2[k].src) = {}
      PROVE  StreamsOK(ss, r2)
  <2> SUFFICES ASSUME NEW i \in DOMAIN ss, Ends(ss[i]) PROVE StreamOf(ss[i], r2, i)
    BY DEF StreamsOK
  <2>1. StreamOf(ss[i], rr, i)
    BY <1>2 DEF StreamsOK
  <2>2. \A k \in RunsOn(rr, i) : k \in RunsOn(r2, i) /\ r2[k] = rr[k]
    BY DEF RunsOn
  <2>3. CASE RunsOn(rr, i) = {}
    <3>1. Len(ss[i].produced) % Cycle(ss[i]) = 0 /\ Repeats(ss[i])
      BY <2>1, <2>3 DEF StreamOf
    <3>2. 0 < Cycle(ss[i])
      <4>1. PICK s : s = ss[i]
        OBVIOUS
      <4>2. s \in SourceOf(s.op)
        BY <4>1 DEF SourcesType
      <4>3. Len(s.queue) \in Nat
        BY <4>2, SourceFields
      <4> QED BY <4>1, <4>3 DEF Cycle
    <3>3. \A k \in RunsOn(r2, i) : k \in DOMAIN r2 \ DOMAIN rr
      BY <2>3 DEF RunsOn
    <3>4. \A k \in RunsOn(r2, i) : r2[k].n = 0
      BY <3>3
    <3> QED BY <3>1, <3>2, <3>4 DEF StreamOf
  <2>4. CASE RunsOn(rr, i) # {}
    <3>1. RunsOn(r2, i) = RunsOn(rr, i)
      BY <1>2, <2>2, <2>4 DEF RunsOn
    <3> QED BY <2>1, <2>2, <3>1 DEF StreamOf
  <2> QED BY <2>3, <2>4
<1> QED BY <1>1, <1>2

\* One source of messages is changed, and no run.
LEMMA OneSourceOK ==
  ASSUME NEW ss, NEW rr, SourcesType(ss), RunsType(ss, rr), BrokersOK(ss, rr),
         NEW i \in DOMAIN ss, NEW u \in SourceOf(ss[i].op), u.kind = ss[i].kind, u.kind \in Brokers,
         Accounted(u), u.kind = "kafka" => Waiting(u) /\ (Committable(ss[i]) => Committable(u)),
         NEW s2, s2 = [ss EXCEPT ![i] = u]
  PROVE  /\ SourcesType(s2) /\ RunsType(s2, rr) /\ BrokersOK(s2, rr)
         /\ StreamsOK(ss, rr) => StreamsOK(s2, rr)
         /\ DOMAIN s2 = DOMAIN ss /\ s2[i] = u /\ \A j \in DOMAIN ss \ {i} : s2[j] = ss[j]
<1>1. /\ SourcesType(s2) /\ DOMAIN s2 = DOMAIN ss /\ s2[i] = u
      /\ \A j \in DOMAIN ss \ {i} : s2[j] = ss[j]
  <2>1. SourcesType(ss) /\ i \in DOMAIN ss /\ u \in SourceOf(ss[i].op) /\ s2 = [ss EXCEPT ![i] = u]
    OBVIOUS
  <2> QED BY ONLY <2>1, SourceAfter
<1>2. RunsType(s2, rr)
  BY <1>1 DEF RunsType
<1>3. BrokersOK(s2, rr)
  <2> SUFFICES ASSUME NEW j \in DOMAIN ss PROVE BrokerOf(s2[j], rr, j)
    BY <1>1 DEF BrokersOK
  <2>1. BrokerOf(ss[j], rr, j)
    BY DEF BrokersOK
  <2>2. CASE j # i
    BY <1>1, <2>1, <2>2
  <2>3. CASE j = i
    BY <1>1, <2>1, <2>3 DEF BrokerOf
  <2> QED BY <2>2, <2>3
<1>4. StreamsOK(ss, rr) => StreamsOK(s2, rr)
  <2> SUFFICES ASSUME StreamsOK(ss, rr), NEW j \in DOMAIN ss, Ends(s2[j]) PROVE StreamOf(s2[j], rr, j)
    BY <1>1 DEF StreamsOK
  <2>1. j # i
    BY <1>1 DEF Ends, Finite, Brokers
  <2>2. s2[j] = ss[j]
    BY <1>1, <2>1
  <2> QED BY <2>2 DEF StreamsOK
<1> QED BY <1>1, <1>2, <1>3, <1>4

\* The message that a poll of the constructor has read is not waiting any more.
LEMMA IgnoredWaiting ==
  ASSUME NEW o, NEW s \in SourceOf(o), NEW u, OneIgnored(o, s, u), s.queue # <<>>, Waiting(s)
  PROVE  Waiting(u) /\ (Committable(s) => Committable(u))
<1>f. /\ s.queue \in Seq(Nat \ {0}) /\ s.produced \in Seq(Nat) /\ s.sent \in Nat /\ s.committed \in Nat
      /\ Len(s.queue) \in Nat /\ Len(s.produced) \in Nat
  BY SourceFields
<1>1. PICK q : q = Tail(s.queue)
  OBVIOUS
<1>2. /\ q \in Seq(Nat \ {0}) /\ Len(q) = Len(s.queue) - 1 /\ Len(s.queue) \in Nat \ {0}
      /\ \A j \in 1 .. Len(s.queue) - 1 : q[j] = s.queue[j + 1]
  BY <1>1, <1>f, TailFacts
<1>3. u.queue = q /\ u.produced = s.produced /\ u.sent = s.sent /\ u.committed = s.committed /\ u.located = s.located
  BY <1>1 DEF OneIgnored
<1>4. Taken(u) = Taken(s) + 1 /\ Taken(s) \in Nat /\ Len(s.queue) <= s.sent /\ s.committed <= Taken(s)
  BY <1>2, <1>3, <1>f DEF Taken, Waiting
<1>5. Len(u.queue) <= u.sent /\ u.committed <= Taken(u)
  BY <1>2, <1>3, <1>4, <1>f
<1>6. u.located
  BY <1>3 DEF Waiting
<1>7. \A j \in 1 .. Len(u.queue) : u.queue[j] = Taken(u) + j
  <2> TAKE j \in 1 .. Len(u.queue)
  <2>1. u.queue[j] = s.queue[j + 1] /\ j + 1 \in 1 .. Len(s.queue)
    BY <1>2, <1>3
  <2>2. s.queue[j + 1] = Taken(s) + (j + 1)
    BY <2>1 DEF Waiting
  <2> QED BY <2>1, <2>2, <1>2, <1>4
<1>8. Committable(s) => Committable(u)
  <2>1. ASSUME s.produced # <<>> PROVE s.produced[Len(s.produced)] \in Nat
    BY <1>f, <2>1
  <2> QED BY <2>1, <1>3, <1>4 DEF Committable
<1> QED BY <1>5, <1>6, <1>7, <1>8 DEF Waiting

\* The messages from a position on.
LEMMA FromOn ==
  ASSUME NEW n \in Nat, NEW c \in 0 .. n, NEW q, q = [i \in 1 .. n - c |-> c + i]
  PROVE  /\ q \in Seq(Nat \ {0}) /\ Len(q) = n - c /\ \A j \in 1 .. Len(q) : q[j] = c + j
         /\ \A m \in c + 1 .. n : m \in Range(q)
<1>1. PICK d \in Nat : d = n - c
  OBVIOUS
<1>2. q \in [1 .. d -> Nat \ {0}] /\ \A j \in 1 .. d : q[j] = c + j
  BY <1>1
<1>3. q \in Seq(Nat \ {0}) /\ Len(q) = d /\ DOMAIN q = 1 .. d
  BY <1>2
<1>4. ASSUME NEW m \in c + 1 .. n PROVE m \in Range(q)
  <2>1. m - c \in 1 .. d /\ c + (m - c) = m
    BY <1>1
  <2>2. q[m - c] = m /\ m - c \in DOMAIN q
    BY <1>2, <1>3, <2>1
  <2> QED BY <2>2 DEF Range
<1> QED BY <1>1, <1>2, <1>3, <1>4

\* A source that is created when n messages have been sent.
NewOne(o, kind, n, c, s) ==
    /\ s \in SourceOf(o) /\ s.kind = kind /\ s.produced = <<>> /\ s.discarded = {} /\ s.sent = n
    /\ s.from = c /\ Accounted(s) /\ s.zmq = IF kind = "zmq" THEN "created" ELSE "none"
LEMMA NewFacts ==
  ASSUME NEW o, NEW kind \in Finite \cup Brokers, NEW n \in Nat, NEW c \in 0 .. n,
         NEW s, s = NewSource(kind, o, n, c)
  PROVE  NewOne(o, kind, n, c, s)
<1>1. PICK q : q = [i \in 1 .. n - c |-> c + i]
  OBVIOUS
<1>2. q \in Seq(Nat \ {0}) /\ \A m \in c + 1 .. n : m \in Range(q)
  BY <1>1, FromOn
<1>3. s = [kind |-> kind, op |-> o, queue |-> q, data |-> <<>>, produced |-> <<>>,
           sent |-> n, from |-> c, seen |-> c, committed |-> 0, located |-> FALSE, errors |-> 0,
           discarded |-> {}, alive |-> TRUE, connected |-> TRUE, mInterrupted |-> TRUE,
           zmq |-> IF kind = "zmq" THEN "created" ELSE "none"]
  BY <1>1 DEF NewSource
<1>4. <<>> \in Seq(Nat) /\ c \in Nat
  OBVIOUS
<1>5. /\ s \in SourceOf(o) /\ s.kind = kind /\ s.produced = <<>> /\ s.discarded = {} /\ s.sent = n /\ s.from = c
      /\ s.queue = q /\ s.seen = c /\ s.alive = TRUE /\ s.connected = TRUE
      /\ s.zmq = IF kind = "zmq" THEN "created" ELSE "none"
  BY <1>2, <1>3, <1>4 DEF SourceOf, ZmqStates, Threads
<1>6. Due(s) = c + 1 .. n /\ c + 1 .. s.seen = {}
  BY <1>4, <1>5 DEF Due, Answerable
<1>7. Accounted(s)
  BY <1>2, <1>5, <1>6 DEF Accounted, Seen
<1> QED BY <1>5, <1>7 DEF NewOne

\* Kafka delivers what was not committed, if the group has committed anything:
\* all that was is published or dropped.  Else it begins at the end.
LEMMA SubscribedFacts ==
  ASSUME NEW o, NEW s \in SourceOf(o), s.kind = "kafka", s.committed <= s.sent,
         \A m \in s.from + 1 .. s.committed : m \in Range(s.produced) \cup s.discarded,
         NEW u, u = Subscribed(s)
  PROVE  /\ u \in SourceOf(o) /\ u.kind = "kafka" /\ u.produced = s.produced /\ u.discarded = s.discarded
         /\ u.zmq = s.zmq /\ u.mInterrupted = s.mInterrupted /\ Accounted(u) /\ Waiting(u)
<1>f. /\ s.sent \in Nat /\ s.committed \in Nat /\ s.from \in Nat
  BY SourceFields
<1>1. PICK n, c : n = s.sent /\ c = s.committed
  OBVIOUS
<1>2. n \in Nat /\ c \in 0 .. n
  BY <1>1, <1>f
<1>3. CASE c = 0
  <2>1. u = [s EXCEPT !.queue = <<>>, !.from = n, !.located = FALSE]
    BY <1>1, <1>3 DEF Subscribed
  <2>2. PICK q : q = <<>>
    OBVIOUS
  <2>3. q \in Seq(Nat \ {0}) /\ Len(q) = 0
    BY <2>2
  <2>4. /\ u \in SourceOf(o) /\ u.kind = s.kind /\ u.produced = s.produced /\ u.discarded = s.discarded
        /\ u.zmq = s.zmq /\ u.mInterrupted = s.mInterrupted /\ u.queue = q /\ u.from = n /\ u.sent = n /\ u.committed = 0
    <3>1. u = [s EXCEPT !.queue = q, !.from = n, !.located = FALSE] /\ s \in SourceOf(o) /\ n \in Nat
      BY <1>2, <2>1, <2>2
    <3>2. /\ u \in SourceOf(o) /\ u.kind = s.kind /\ u.produced = s.produced /\ u.discarded = s.discarded
          /\ u.zmq = s.zmq /\ u.mInterrupted = s.mInterrupted /\ u.queue = q /\ u.from = n /\ u.sent = s.sent
          /\ u.committed = s.committed
      BY ONLY <2>3, <3>1 DEF SourceOf
    <3> QED BY <1>1, <1>3, <3>2
  <2>5. Taken(u) = n
    BY <1>2, <2>3, <2>4 DEF Taken
  <2>6. Waiting(u)
    <3>1. \A j \in 1 .. 0 : u.queue[j] = Taken(u) + j
      OBVIOUS
    <3> QED BY <1>2, <2>2, <2>3, <2>4, <2>5, <3>1 DEF Waiting
  <2>7. Due(u) = {}
    BY <1>2, <2>4 DEF Due, Answerable
  <2> QED BY <2>4, <2>6, <2>7 DEF Accounted
<1>4. CASE c # 0
  <2>1. PICK q : q = [i \in 1 .. n - c |-> c + i]
    OBVIOUS
  <2>2. /\ q \in Seq(Nat \ {0}) /\ Len(q) = n - c /\ \A j \in 1 .. Len(q) : q[j] = c + j
        /\ \A m \in c + 1 .. n : m \in Range(q)
    BY ONLY <1>2, <2>1, FromOn
  <2>3. u = [s EXCEPT !.queue = q, !.located = TRUE]
    BY <1>1, <1>4, <2>1 DEF Subscribed
  <2>4. /\ u \in SourceOf(o) /\ u.kind = s.kind /\ u.produced = s.produced /\ u.discarded = s.discarded
        /\ u.zmq = s.zmq /\ u.mInterrupted = s.mInterrupted /\ u.queue = q /\ u.from = s.from /\ u.sent = n
        /\ u.committed = c /\ u.located = TRUE
    BY <1>1, <2>2, <2>3 DEF SourceOf
  <2>5. Taken(u) = c /\ Len(u.queue) <= u.sent
    BY <1>2, <2>2, <2>4 DEF Taken
  <2>6. Waiting(u)
    BY <1>2, <2>2, <2>4, <2>5 DEF Waiting
  <2>7. \A m \in Due(u) : m \in Range(u.produced) \cup Range(u.queue) \cup u.discarded
    <3> SUFFICES ASSUME NEW m \in s.from + 1 .. n PROVE m \in Range(s.produced) \cup Range(q) \cup s.discarded
      BY <2>4 DEF Due, Answerable
    <3>1. CASE m > c
      BY <1>2, <1>f, <2>2, <3>1
    <3>2. CASE ~(m > c)
      <4>1. m \in s.from + 1 .. s.committed
        BY <1>1, <1>2, <1>f, <3>2
      <4> QED BY <4>1
    <3> QED BY <3>1, <3>2
  <2> QED BY <2>4, <2>6, <2>7 DEF Accounted
<1> QED BY <1>3, <1>4

\* A new source has published and dropped nothing, and its elements wait.
FreshSource(o, kind, u) ==
    /\ u \in SourceOf(o) /\ u.kind = kind /\ Len(u.produced) = 0 /\ DOMAIN u.produced = {} /\ u.discarded = {}
    /\ Accounted(u) /\ (kind = "kafka" => Waiting(u)) /\ ZmqIdle(u) /\ (kind # "zmq" => u.zmq = "none")
LEMMA ConstructedFacts ==
  ASSUME NEW o, NEW kind \in Finite \cup Brokers, NEW n \in Nat, NEW u \in Constructed(kind, o, n)
  PROVE  FreshSource(o, kind, u)
<1>1. ASSUME kind # "kafka" PROVE \E c \in 0 .. n : u = NewSource(kind, o, n, c)
  <2>1. CASE kind = "mqtt"
    <3>1. u = NewSource(kind, o, n, n)
      BY <2>1 DEF Constructed
    <3> QED BY <3>1
  <2>2. CASE kind = "zmq"
    <3>1. PICK c \in {0, n} : u = NewSource(kind, o, n, c)
      BY <2>2 DEF Constructed
    <3> QED BY <3>1
  <2>3. CASE kind \notin {"mqtt", "zmq"}
    <3>1. u = NewSource(kind, o, n, 0)
      BY <1>1, <2>3 DEF Constructed
    <3> QED BY <3>1
  <2> QED BY <2>1, <2>2, <2>3
<1>2. CASE kind # "kafka"
  <2>1. PICK c \in 0 .. n : u = NewSource(kind, o, n, c)
    BY <1>1, <1>2
  <2>2. /\ u \in SourceOf(o) /\ u.kind = kind /\ u.produced = <<>> /\ u.discarded = {} /\ Accounted(u)
        /\ u.zmq = IF kind = "zmq" THEN "created" ELSE "none"
    <3>1. NewOne(o, kind, n, c, u)
      BY ONLY <2>1, kind \in Finite \cup Brokers, n \in Nat, NewFacts
    <3> QED BY <3>1 DEF NewOne
  <2> QED BY <1>2, <2>2 DEF FreshSource, ZmqIdle
<1>3. CASE kind = "kafka"
  <2>0. PICK c \in 0 .. n : u = Subscribed([NewSource(kind, o, n, c) EXCEPT !.committed = c])
    BY <1>3 DEF Constructed
  <2>1. PICK v, s : v = NewSource(kind, o, n, c) /\ s = [v EXCEPT !.committed = c] /\ u = Subscribed(s)
    BY <2>0
  <2>2. /\ v \in SourceOf(o) /\ v.kind = kind /\ v.produced = <<>> /\ v.discarded = {} /\ v.sent = n
        /\ v.from = c /\ v.zmq = IF kind = "zmq" THEN "created" ELSE "none"
    <3>1. NewOne(o, kind, n, c, v)
      BY ONLY <2>1, kind \in Finite \cup Brokers, n \in Nat, NewFacts
    <3> QED BY <3>1 DEF NewOne
  <2>3. c \in Nat /\ c <= n
    OBVIOUS
  <2>4. /\ s \in SourceOf(o) /\ s.kind = v.kind /\ s.produced = v.produced /\ s.discarded = v.discarded
        /\ s.sent = v.sent /\ s.from = v.from /\ s.zmq = v.zmq /\ s.committed = c
    <3>1. s = [v EXCEPT !.committed = c] /\ v \in SourceOf(o)
      BY <2>1, <2>2
    <3> QED BY ONLY <3>1, <2>3 DEF SourceOf
  <2>5. \A m \in s.from + 1 .. s.committed : m \in Range(s.produced) \cup s.discarded
    BY <2>2, <2>3, <2>4
  <2>6. s.kind = "kafka" /\ s.committed <= s.sent /\ u = Subscribed(s)
    BY <1>3, <2>1, <2>2, <2>3, <2>4
  <2>7. /\ u \in SourceOf(o) /\ u.kind = "kafka" /\ u.produced = s.produced /\ u.discarded = s.discarded
        /\ u.zmq = s.zmq /\ Accounted(u) /\ Waiting(u)
    BY <2>4, <2>5, <2>6, SubscribedFacts
  <2> QED BY <1>3, <2>2, <2>4, <2>7 DEF FreshSource, ZmqIdle
<1> QED BY <1>2, <1>3

\* The source of a program that is started again after a crash.
LEMMA CrashedFacts ==
  ASSUME NEW o, NEW s \in SourceOf(o), s.kind = "kafka", Accounted(s), Waiting(s),
         NEW u, u = [Subscribed(s) EXCEPT !.alive = TRUE]
  PROVE  /\ u \in SourceOf(o) /\ u.kind = "kafka" /\ Accounted(u) /\ Waiting(u)
         /\ u.zmq = s.zmq /\ u.mInterrupted = s.mInterrupted /\ u.discarded = s.discarded
<1>f. /\ s.queue \in Seq(Nat \ {0}) /\ s.sent \in Nat /\ s.committed \in Nat /\ s.from \in Nat /\ Len(s.queue) \in Nat
  BY SourceFields
<1>0. s.committed <= s.sent /\ s.committed <= Taken(s) /\ Taken(s) \in Nat
  BY <1>f DEF Waiting, Taken
<1>1. \A m \in s.from + 1 .. s.committed : m \in Range(s.produced) \cup s.discarded
  <2> TAKE m \in s.from + 1 .. s.committed
  <2>0. m \in Nat /\ m <= s.committed
    BY <1>f
  <2>1. m \notin Range(s.queue)
    <3>1. DOMAIN s.queue = 1 .. Len(s.queue)
      BY <1>f
    <3>2. \A j \in 1 .. Len(s.queue) : s.queue[j] = Taken(s) + j
      BY DEF Waiting
    <3>3. \A j \in 1 .. Len(s.queue) : s.queue[j] # m
      BY <3>2, <1>0, <1>f, <2>0, SMTT(60)
    <3> QED BY <3>1, <3>3 DEF Range
  <2>2. m \in Due(s)
    BY <1>0, <1>f DEF Due, Answerable
  <2>3. m \in Range(s.produced) \cup Range(s.queue) \cup s.discarded
    BY <2>2 DEF Accounted
  <2> QED BY <2>1, <2>3
<1>2. PICK v : v = Subscribed(s)
  OBVIOUS
<1>3. /\ v \in SourceOf(o) /\ v.kind = "kafka" /\ v.discarded = s.discarded
      /\ v.zmq = s.zmq /\ v.mInterrupted = s.mInterrupted /\ Accounted(v) /\ Waiting(v)
  BY <1>0, <1>1, <1>2, SubscribedFacts
<1>4. u = [v EXCEPT !.alive = TRUE]
  BY <1>2
<1>5. /\ u \in SourceOf(o) /\ u.kind = v.kind /\ u.discarded = v.discarded /\ u.zmq = v.zmq
      /\ u.mInterrupted = v.mInterrupted /\ u.queue = v.queue /\ u.produced = v.produced /\ u.sent = v.sent
      /\ u.from = v.from /\ u.committed = v.committed /\ u.located = v.located
  BY ONLY <1>3, <1>4 DEF SourceOf
<1>6. Placed(v, u)
  BY <1>3, <1>5 DEF Placed
<1>7. Accounted(u)
  BY <1>3, <1>5, <1>6, PlacedKept
<1>8. Waiting(u)
  BY <1>3, <1>5 DEF Waiting, Taken
<1> QED BY <1>3, <1>5, <1>7, <1>8

-----------------------------------------------------------------------------
(* The steps of a program.                                                 *)

\* The invariant after a step, part by part.
LEMMA AfterStep ==
  ASSUME NEW ss, NEW rr, sources' = ss, runs' = rr,
         plan' \in Seq(Finite \cup Brokers), SourcesType(ss), RunsType(ss, rr),
         main'.call = "start" => main'.at \in DOMAIN ss,
         timer' = "running" => \E k \in DOMAIN rr : rr[k].by = "timer",
         careful' => /\ OneRunEach(rr) /\ StreamsOK(ss, rr)
                     /\ main'.call = "start" => timer' = "none" /\ ActiveBy(rr, "main")
                     /\ timer' # "none" => ActiveBy(rr, "timer"),
         BrokersOK(ss, rr),
         \A i \in DOMAIN ss :
            /\ ss[i].kind # "zmq" => ss[i].zmq = "none"
            /\ ~Ending' => ZmqIdle(ss[i])
            /\ careful' => ZmqOf(ss[i])
  PROVE  SourcesInv'
<1>1. SourceType'
  BY DEF SourceType, SourcesType, RunsType, Range
<1>2. CarefulInv'
  BY DEF CarefulInv, OneRunEach, ActiveBy, Active
<1>3. StreamInv'
  <2>1. StreamsOK(sources, runs)' = StreamsOK(ss, rr)
    BY DEF StreamsOK, StreamOf, Ends, Repeats, Cycle, RunsOn, Active
  <2> QED BY <2>1 DEF StreamInv
<1>4. BrokerInv'
  <2>1. BrokersOK(sources, runs)' = BrokersOK(ss, rr)
    BY DEF BrokersOK, BrokerOf, Accounted, Due, Answerable, Seen, Waiting, Committable, Taken, Range
  <2> QED BY <2>1 DEF BrokerInv
<1>5. ZmqInv'
  BY DEF ZmqInv, ZmqIdle, ZmqOf
<1> QED BY <1>1, <1>2, <1>3, <1>4, <1>5 DEF SourcesInv

\* The invariant, part by part.
LEMMA SourcesFacts ==
  ASSUME SourcesInv
  PROVE  /\ plan \in Seq(Finite \cup Brokers) /\ SourcesType(sources) /\ RunsType(sources, runs)
         /\ main.call = "start" => main.at \in DOMAIN sources
         /\ timer = "running" => \E k \in DOMAIN runs : runs[k].by = "timer"
         /\ careful => /\ OneRunEach(runs) /\ StreamsOK(sources, runs)
                       /\ main.call = "start" => timer = "none" /\ ActiveBy(runs, "main")
                       /\ timer # "none" => ActiveBy(runs, "timer")
         /\ BrokersOK(sources, runs)
         /\ \A i \in DOMAIN sources :
               /\ sources[i].kind # "zmq" => sources[i].zmq = "none"
               /\ ~Ending => ZmqIdle(sources[i])
               /\ careful => ZmqOf(sources[i])
BY DEF SourcesInv, SourceType, CarefulInv, StreamInv, BrokerInv, ZmqInv

\* Steps that touch neither a source nor a run.
LEMMA CallFrame ==
  ASSUME SourcesInv, UNCHANGED <<plan, sources, runs>>, careful' => careful,
         main'.call = "start" => main' = main /\ timer' = timer,
         timer' = "running" => timer = "running",
         careful' /\ timer' # "none" => ActiveBy(runs, "timer"),
         Ending => Ending'
  PROVE  SourcesInv'
<1>1. PICK ss, rr : ss = sources /\ rr = runs
  OBVIOUS
<1>2. sources' = ss /\ runs' = rr
  BY <1>1
<1> QED BY <1>1, <1>2, SourcesFacts, AfterStep

\* Functions are called.
LEMMA CalledOK ==
  ASSUME SourcesInv, UNCHANGED <<plan, sources>>, NEW r2, runs' = r2, RunsType(sources, r2),
         DOMAIN runs \subseteq DOMAIN r2, \A k \in DOMAIN runs : r2[k] = runs[k],
         NEW by, \A k \in DOMAIN r2 \ DOMAIN runs : r2[k].pc = "start" /\ r2[k].n = 0 /\ r2[k].by = by,
         \A k, l \in DOMAIN r2 \ DOMAIN runs : r2[k].src = r2[l].src => k = l,
         careful' => careful /\ \A k \in DOMAIN runs : ~Active(runs[k]),
         main'.call = "start" => main'.at \in DOMAIN sources /\ (careful' => by = "main" /\ timer' = "none"),
         timer' = "running" => \E k \in DOMAIN r2 : r2[k].by = "timer",
         careful' /\ timer' # "none" => by = "timer",
         Ending => Ending'
  PROVE  SourcesInv'
<1>1. PICK ss, rr : ss = sources /\ rr = runs
  OBVIOUS
<1>2. SourcesType(ss) /\ BrokersOK(ss, rr) /\ (careful => StreamsOK(ss, rr)) /\ plan' \in Seq(Finite \cup Brokers)
  BY <1>1, SourcesFacts
<1>3. /\ DOMAIN rr \subseteq DOMAIN r2 /\ \A k \in DOMAIN rr : r2[k] = rr[k]
      /\ \A k \in DOMAIN r2 \ DOMAIN rr : r2[k].pc = "start" /\ r2[k].n = 0
  BY <1>1
<1>4. /\ BrokersOK(ss, rr) => BrokersOK(ss, r2)
      /\ StreamsOK(ss, rr) /\ (\A k \in DOMAIN r2 \ DOMAIN rr : RunsOn(rr, r2[k].src) = {}) => StreamsOK(ss, r2)
  BY ONLY <1>2, <1>3, RunsGrowOK
<1>5. ASSUME careful' PROVE OneRunEach(r2) /\ StreamsOK(ss, r2) /\ ActiveBy(r2, by)
  <2>1. careful /\ \A k \in DOMAIN rr : ~Active(rr[k])
    BY <1>1, <1>5
  <2>2. \A k \in DOMAIN r2 \ DOMAIN rr : RunsOn(rr, r2[k].src) = {}
    BY <2>1 DEF RunsOn
  <2>3. StreamsOK(ss, r2)
    BY <1>2, <1>4, <2>1, <2>2
  <2>4. \A k \in DOMAIN r2 : Active(r2[k]) => k \notin DOMAIN rr
    BY <1>3, <2>1
  <2>5. OneRunEach(r2)
    BY <1>1, <2>4 DEF OneRunEach
  <2>6. ActiveBy(r2, by)
    BY <1>1, <2>4 DEF ActiveBy
  <2> QED BY <2>3, <2>5, <2>6
<1>6. \A i \in DOMAIN ss :
            /\ ss[i].kind # "zmq" => ss[i].zmq = "none"
            /\ ~Ending' => ZmqIdle(ss[i])
            /\ careful' => ZmqOf(ss[i])
  BY <1>1, SourcesFacts
<1>7. sources' = ss
  BY <1>1
<1> QED BY <1>1, <1>2, <1>4, <1>5, <1>6, <1>7, AfterStep

\* A function is called by the main thread or by that of runEvery.
LEMMA OneCalledOK ==
  ASSUME SourcesInv, UNCHANGED <<plan, sources>>, NEW j \in DOMAIN sources, NEW by \in {"main", "timer"},
         runs' = Append(runs, NewRun(j, by)),
         careful' => careful /\ \A k \in DOMAIN runs : ~Active(runs[k]),
         main'.call = "start" => main'.at \in DOMAIN sources /\ (careful' => by = "main" /\ timer' = "none"),
         timer' = "running" => timer = "running" \/ by = "timer",
         careful' /\ timer' # "none" => by = "timer",
         Ending => Ending'
  PROVE  SourcesInv'
<1>1. PICK rr, e, r2 : rr = runs /\ e = NewRun(j, by) /\ r2 = Append(rr, e)
  OBVIOUS
<1>2. rr \in Seq(Range(rr)) /\ \A k \in DOMAIN rr : rr[k] \in RunOf(DOMAIN sources)
  BY <1>1, SourcesFacts DEF RunsType, Range
<1>3. /\ r2 \in Seq(Range(r2)) /\ DOMAIN r2 = 1 .. Len(rr) + 1
      /\ \A k \in DOMAIN rr : r2[k] = rr[k]
      /\ r2[Len(rr) + 1] = e /\ Len(rr) \in Nat /\ DOMAIN rr = 1 .. Len(rr)
  BY <1>1, <1>2, AppendFacts
<1>4. e \in RunOf(DOMAIN sources) /\ e.pc = "start" /\ e.n = 0 /\ e.by = by
  BY <1>1 DEF NewRun, RunOf, PCs
<1>5. DOMAIN r2 = DOMAIN rr \cup {Len(rr) + 1} /\ Len(rr) + 1 \notin DOMAIN rr
  BY <1>3
<1>6. RunsType(sources, r2)
  BY <1>2, <1>3, <1>4, <1>5 DEF RunsType
<1>7. /\ DOMAIN runs \subseteq DOMAIN r2 /\ \A k \in DOMAIN runs : r2[k] = runs[k]
      /\ \A k \in DOMAIN r2 \ DOMAIN runs : r2[k].pc = "start" /\ r2[k].n = 0 /\ r2[k].by = by
      /\ \A k, l \in DOMAIN r2 \ DOMAIN runs : r2[k].src = r2[l].src => k = l
  BY <1>1, <1>3, <1>4, <1>5
<1>8. timer' = "running" => \E k \in DOMAIN r2 : r2[k].by = "timer"
  <2>1. CASE by = "timer"
    BY <2>1, <1>3, <1>4, <1>5
  <2>2. CASE timer = "running"
    <3>1. PICK k \in DOMAIN runs : runs[k].by = "timer"
      BY <2>2, SourcesFacts
    <3> QED BY <3>1, <1>7
  <2> QED BY <2>1, <2>2
<1>9. runs' = r2
  BY <1>1
<1> QED BY <1>6, <1>7, <1>8, <1>9, CalledOK

\* startAsync calls the functions of all sources.
LEMMA AsyncOK ==
  ASSUME SourcesInv, UNCHANGED plan, startAsync
  PROVE  SourcesInv'
<1>0. /\ runs' = runs \o [i \in DOMAIN sources |-> NewRun(i, "future")]
      /\ UNCHANGED <<sources, main, timer>> /\ main.call = "free"
      /\ careful' = (careful /\ ~Busy /\ timer = "none")
  BY DEF startAsync, Free
<1>1. PICK n \in Nat : DOMAIN sources = 1 .. n
  BY SourcesFacts, SeqFacts DEF SourcesType
<1>2. PICK rr, nr, r2 : rr = runs /\ nr = [i \in 1 .. n |-> NewRun(i, "future")] /\ r2 = rr \o nr
  OBVIOUS
<1>3. rr \in Seq(Range(rr)) /\ \A k \in DOMAIN rr : rr[k] \in RunOf(1 .. n)
  BY <1>1, <1>2, SourcesFacts DEF RunsType, Range
<1>4. nr = [i \in 1 .. n |-> nr[i]]
  BY <1>2
<1>5. nr \in Seq(Range(nr)) /\ Len(nr) = n
  BY <1>4, FcnIsSeq
<1>6. \A i \in 1 .. n : nr[i] \in RunOf(1 .. n) /\ nr[i].pc = "start" /\ nr[i].n = 0 /\ nr[i].by = "future" /\ nr[i].src = i
  BY <1>2 DEF NewRun, RunOf, PCs
<1>7. /\ r2 \in Seq(Range(r2)) /\ DOMAIN r2 = 1 .. Len(rr) + n
      /\ \A i \in 1 .. Len(rr) : r2[i] = rr[i]
      /\ \A i \in 1 .. Len(rr) + n : i <= Len(rr) \/ (i - Len(rr) \in 1 .. n /\ r2[i] = nr[i - Len(rr)])
      /\ Len(rr) \in Nat /\ DOMAIN rr = 1 .. Len(rr)
  <2>1. r2 = rr \o nr /\ rr \in Seq(Range(rr))
    BY <1>2, <1>3
  <2> QED BY ONLY <2>1, <1>5, ConcatFacts, ZenonT(60)
<1>8. /\ DOMAIN rr \subseteq DOMAIN r2 /\ \A k \in DOMAIN rr : r2[k] = rr[k]
      /\ \A k \in DOMAIN r2 \ DOMAIN rr : k \in Nat /\ k - Len(rr) \in 1 .. n /\ r2[k] = nr[k - Len(rr)]
  BY <1>7
<1>9. \A k \in DOMAIN r2 \ DOMAIN rr :
          r2[k] \in RunOf(1 .. n) /\ r2[k].pc = "start" /\ r2[k].n = 0 /\ r2[k].by = "future" /\ r2[k].src = k - Len(rr)
  BY <1>6, <1>8
<1>10. RunsType(sources, r2)
  BY <1>1, <1>3, <1>7, <1>8, <1>9 DEF RunsType
<1>11. \A k, l \in DOMAIN r2 \ DOMAIN rr : r2[k].src = r2[l].src => k = l
  <2> TAKE k, l \in DOMAIN r2 \ DOMAIN rr
  <2>1. r2[k].src = k - Len(rr) /\ r2[l].src = l - Len(rr) /\ k \in Nat /\ l \in Nat /\ Len(rr) \in Nat
    BY <1>7, <1>8, <1>9
  <2> QED BY <2>1
<1>12. careful' => careful /\ timer' = "none" /\ \A k \in DOMAIN runs : ~Active(runs[k])
  BY <1>0 DEF Busy, Range
<1>13. timer' = "running" => \E k \in DOMAIN r2 : r2[k].by = "timer"
  BY <1>0, <1>2, <1>8, SourcesFacts
<1>14. runs' = r2
  BY <1>0, <1>1, <1>2
<1>15. main'.call # "start" /\ (Ending => Ending')
  BY <1>0 DEF Ending
<1>16. PICK by : by = "future"
  OBVIOUS
<1>17. /\ DOMAIN runs \subseteq DOMAIN r2 /\ \A k \in DOMAIN runs : r2[k] = runs[k]
       /\ \A k \in DOMAIN r2 \ DOMAIN runs : r2[k].pc = "start" /\ r2[k].n = 0 /\ r2[k].by = by
       /\ \A k, l \in DOMAIN r2 \ DOMAIN runs : r2[k].src = r2[l].src => k = l
  <2>1. rr = runs
    BY <1>2
  <2> QED BY ONLY <2>1, <1>8, <1>9, <1>11, <1>16
<1>18. UNCHANGED <<plan, sources>>
  BY <1>0
<1> QED BY <1>10, <1>12, <1>13, <1>14, <1>15, <1>17, <1>18, CalledOK

\* The latest function that runEvery called.
LEMMA LargestOne ==
  ASSUME NEW n \in Nat, NEW S, S \subseteq 0 .. n, S # {}
  PROVE  Max(S) \in S
<1> DEFINE T == {n - x : x \in S}
<1>0. \A x \in S : x \in Nat /\ n - x \in Nat
  OBVIOUS
<1>1. T \subseteq Nat /\ T # {}
  BY <1>0
<1>2. PICK y \in T : \A z \in T : <<z, y>> \notin OpToRel(<, Nat)
  <2> HIDE DEF T
  <2> QED BY <1>1, NatLessThanWellFounded, WFMin
<1>3. \A z \in T : ~(z < y)
  BY <1>1, <1>2 DEF OpToRel
<1>4. PICK m \in S : y = n - m
  BY <1>2
<1>5. \A x \in S : m >= x
  <2> TAKE x \in S
  <2>1. n - x \in T
    OBVIOUS
  <2>2. ~(n - x < n - m)
    BY <1>3, <1>4, <2>1
  <2> QED BY <1>0, <2>2
<1> QED BY <1>5 DEF Max

\* The thread of runEvery calls the functions one by one.
LEMMA TimerOK ==
  ASSUME SourcesInv, UNCHANGED plan, timerRound
  PROVE  SourcesInv'
<1> DEFINE S == {k \in DOMAIN runs : runs[k].by = "timer"}
           next == IF timer = "sleeping" THEN 1 ELSE runs[Max(S)].src + 1
<1>0. /\ timer \in {"sleeping", "running"} /\ Returned("timer")
      /\ UNCHANGED <<sources, main, careful>>
      /\ \/ next > Len(sources) /\ timer' = "sleeping" /\ UNCHANGED runs
         \/ ~(next > Len(sources)) /\ timer' = "running" /\ runs' = Append(runs, NewRun(next, "timer"))
  BY DEF timerRound
<1>1. /\ sources \in Seq(Range(sources)) /\ runs \in Seq(Range(runs))
      /\ \A k \in DOMAIN runs : runs[k] \in RunOf(DOMAIN sources)
  <2>1. SourcesType(sources) /\ RunsType(sources, runs)
    BY SourcesFacts
  <2> QED BY ONLY <2>1 DEF SourcesType, RunsType
<1>2. PICK n \in Nat, m \in Nat : n = Len(sources) /\ DOMAIN sources = 1 .. n /\ DOMAIN runs = 1 .. m
  <2>1. Len(sources) \in Nat /\ DOMAIN sources = 1 .. Len(sources)
    BY <1>1, SeqFacts
  <2>2. Len(runs) \in Nat /\ DOMAIN runs = 1 .. Len(runs)
    BY <1>1, SeqFacts
  <2> QED BY <2>1, <2>2
<1>3. next \in Nat \ {0}
  <2>1. CASE timer = "sleeping"
    BY <2>1
  <2>2. CASE timer = "running"
    <3>1. S # {} /\ S \subseteq 0 .. m
      BY <1>2, <2>2, SourcesFacts
    <3>2. Max(S) \in S
      <4> HIDE DEF S
      <4> QED BY <3>1, LargestOne
    <3>3. PICK l \in DOMAIN runs : l = Max(S)
      BY <3>2
    <3>4. runs[l].src \in 1 .. n
      BY <1>1, <1>2 DEF RunOf
    <3>5. next = runs[l].src + 1
      BY <2>2, <3>3
    <3> QED BY <1>2, <3>4, <3>5
  <2> QED BY <1>0, <2>1, <2>2
<1> HIDE DEF next, S
<1>4. careful => main.call # "start" /\ ActiveBy(runs, "timer")
  BY <1>0, SourcesFacts
<1>5. careful => \A k \in DOMAIN runs : ~Active(runs[k])
  BY <1>0, <1>4 DEF ActiveBy, Returned, Range
<1>6. Ending => Ending'
  BY <1>0 DEF Ending
<1>7. CASE timer' = "sleeping" /\ UNCHANGED runs
  <2>1. main'.call = "start" /\ careful' => FALSE
    BY <1>0, <1>4
  <2>2. PICK ss, rr : ss = sources /\ rr = runs
    OBVIOUS
  <2>3. sources' = ss /\ runs' = rr
    BY <1>0, <1>7, <2>2
  <2> QED BY <1>0, <1>4, <1>6, <1>7, <2>1, <2>2, <2>3, SourcesFacts, AfterStep
<1>8. CASE ~(next > Len(sources)) /\ timer' = "running" /\ runs' = Append(runs, NewRun(next, "timer"))
  <2>1. PICK j \in DOMAIN sources : j = next
    BY <1>2, <1>3, <1>8
  <2>2. main'.call = "start" => main'.at \in DOMAIN sources /\ ~careful'
    BY <1>0, <1>4, SourcesFacts
  <2>3. careful' => careful /\ \A k \in DOMAIN runs : ~Active(runs[k])
    BY <1>0, <1>5
  <2>4. runs' = Append(runs, NewRun(j, "timer"))
    BY <1>8, <2>1
  <2> QED BY <1>0, <1>6, <1>8, <2>2, <2>3, <2>4, OneCalledOK
<1> QED BY <1>0, <1>7, <1>8

\* One source of messages is changed, and no run; the poll of a constructor may end.
LEMMA OneChangedOK ==
  ASSUME SourcesInv, UNCHANGED <<plan, runs, timer, careful>>, NEW i \in DOMAIN sources,
         main' = main \/ (main.call = "polling" /\ main'.call = "free"),
         NEW u \in SourceOf(sources[i].op), u.kind = sources[i].kind, u.kind \in Brokers, Accounted(u),
         u.kind = "kafka" => Waiting(u) /\ (Committable(sources[i]) => Committable(u)),
         u.kind # "zmq" => u.zmq = "none", ~Ending => ZmqIdle(u), careful => ZmqOf(u),
         sources' = [sources EXCEPT ![i] = u]
  PROVE  SourcesInv'
<1>1. PICK ss, rr, s2 : ss = sources /\ rr = runs /\ s2 = [ss EXCEPT ![i] = u]
  OBVIOUS
<1>2. SourcesType(ss) /\ RunsType(ss, rr) /\ BrokersOK(ss, rr)
  BY <1>1, SourcesFacts
<1>3. /\ i \in DOMAIN ss /\ u \in SourceOf(ss[i].op) /\ u.kind = ss[i].kind /\ u.kind \in Brokers /\ Accounted(u)
      /\ u.kind = "kafka" => Waiting(u) /\ (Committable(ss[i]) => Committable(u))
  BY <1>1
<1>4. /\ SourcesType(s2) /\ RunsType(s2, rr) /\ BrokersOK(s2, rr)
      /\ StreamsOK(ss, rr) => StreamsOK(s2, rr)
      /\ DOMAIN s2 = DOMAIN ss /\ s2[i] = u /\ \A j \in DOMAIN ss \ {i} : s2[j] = ss[j]
  BY ONLY <1>1, <1>2, <1>3, OneSourceOK
<1>5. sources' = s2 /\ runs' = rr
  BY <1>1
<1>6. Ending' <=> Ending
  BY DEF Ending
<1>7. \A j \in DOMAIN s2 :
            /\ s2[j].kind # "zmq" => s2[j].zmq = "none"
            /\ ~Ending => ZmqIdle(s2[j])
            /\ careful => ZmqOf(s2[j])
  BY <1>1, <1>4, SourcesFacts
<1>8. careful => OneRunEach(rr) /\ StreamsOK(s2, rr)
  BY <1>1, <1>4, SourcesFacts
<1>9. /\ plan' \in Seq(Finite \cup Brokers)
      /\ main'.call = "start" => main'.at \in DOMAIN s2
      /\ timer' = "running" => \E k \in DOMAIN rr : rr[k].by = "timer"
      /\ careful => /\ main'.call = "start" => timer = "none" /\ ActiveBy(rr, "main")
                    /\ timer # "none" => ActiveBy(rr, "timer")
  <2>1. main'.call = "start" => main' = main
    OBVIOUS
  <2> QED BY <2>1, <1>1, <1>4, SourcesFacts
<1> QED BY <1>4, <1>5, <1>6, <1>7, <1>8, <1>9, AfterStep

\* A source that is changed has read and ignored nothing.
ReadsSame(ss, s2) ==
    DOMAIN s2 = DOMAIN ss /\ \A j \in DOMAIN ss : s2[j].kind = ss[j].kind /\ s2[j].discarded = ss[j].discarded
LEMMA OneSame ==
  ASSUME NEW ss, NEW i \in DOMAIN ss, NEW u, u.kind = ss[i].kind, u.discarded = ss[i].discarded,
         NEW s2, s2 = [ss EXCEPT ![i] = u]
  PROVE  ReadsSame(ss, s2)
BY DEF ReadsSame

\* The message that is sent is published by the REST server, waits at the broker
\* or on the way, or is one that the source does not answer for.
OneSent(o, s, u) ==
    /\ u \in SourceOf(o) /\ u.kind = s.kind /\ u.zmq = s.zmq /\ u.mInterrupted = s.mInterrupted
    /\ u.discarded = s.discarded /\ Accounted(u)
    /\ s.kind = "zmq" => u.produced = s.produced
    /\ s.kind = "kafka" => Waiting(u) /\ (Committable(s) => Committable(u))
LEMMA DeliveredFacts ==
  ASSUME NEW o, NEW s \in SourceOf(o), s.kind \in Brokers, Accounted(s), s.kind = "kafka" => Waiting(s),
         NEW m, m = s.sent + 1, NEW u, u = Delivered([s EXCEPT !.sent = m], m)
  PROVE  OneSent(o, s, u)
<1>f. /\ s.queue \in Seq(Nat \ {0}) /\ s.produced \in Seq(Nat) /\ s.sent \in Nat /\ s.from \in Nat
      /\ s.committed \in Nat /\ Len(s.queue) \in Nat /\ Len(s.produced) \in Nat
  BY SourceFields
<1>0. m \in Nat \ {0} /\ m \in Nat
  BY <1>f
<1>1. PICK v : v = [s EXCEPT !.sent = m]
  OBVIOUS
<1>2. /\ v \in SourceOf(o) /\ v.kind = s.kind /\ v.queue = s.queue /\ v.produced = s.produced /\ v.sent = m
      /\ v.from = s.from /\ v.seen = s.seen /\ v.alive = s.alive /\ v.connected = s.connected
      /\ v.located = s.located /\ v.committed = s.committed /\ v.discarded = s.discarded
      /\ v.zmq = s.zmq /\ v.mInterrupted = s.mInterrupted
  BY ONLY <1>0, <1>1, s \in SourceOf(o) DEF SourceOf
<1>3. u = Delivered(v, m)
  BY <1>1
\* The source answers for the message.
<1>4. ASSUME u.kind = s.kind, u.from = s.from, u.seen = s.seen, u.alive = s.alive, u.connected = s.connected,
             u.sent = m, s.kind = "mqtt" => s.alive /\ s.connected, u.discarded = s.discarded,
             Range(s.produced) \subseteq Range(u.produced),
             Range(s.queue) \subseteq Range(u.queue), m \in Range(u.produced) \cup Range(u.queue)
      PROVE  Accounted(u)
  <2>1. Due(s) = s.from + 1 .. s.sent /\ Due(u) = s.from + 1 .. m
    BY <1>4 DEF Due, Answerable
  <2>2. \A x \in Due(u) : x = m \/ x \in Due(s)
    <3>1. PICK a \in Nat, b \in Nat : a = s.from /\ b = s.sent
      BY <1>f
    <3>2. Due(s) = a + 1 .. b /\ Due(u) = a + 1 .. m /\ m = b + 1
      BY <2>1, <3>1
    <3> QED BY ONLY <3>2
  <2>3. \A x \in Due(u) : x \in Range(u.produced) \cup Range(u.queue) \cup u.discarded
    BY <1>4, <2>2 DEF Accounted
  <2>4. s.kind = "mqtt" => Seen(u)
    BY <1>4 DEF Accounted, Seen
  <2> QED BY <1>4, <2>3, <2>4 DEF Accounted
<1>5. CASE s.kind = "rest"
  <2>1. PICK a : a = Append(s.produced, m)
    OBVIOUS
  <2>0. u = Publish(v, m)
    BY <1>2, <1>3, <1>5 DEF Delivered
  <2>a. a \in Seq(Nat)
    BY <1>0, <1>f, <2>1, AppendProperties
  <2>2. u = [v EXCEPT !.produced = a] /\ a \in Seq(Nat)
    BY ONLY <1>2, <2>0, <2>1, <2>a DEF Publish
  <2>3. /\ u \in SourceOf(o) /\ u.kind = v.kind /\ u.queue = v.queue /\ u.produced = a /\ u.sent = v.sent
        /\ u.from = v.from /\ u.seen = v.seen /\ u.alive = v.alive /\ u.connected = v.connected
        /\ u.discarded = v.discarded /\ u.zmq = v.zmq /\ u.mInterrupted = v.mInterrupted
    BY ONLY <1>2, <2>2 DEF SourceOf
  <2>4. Range(a) = Range(s.produced) \cup {m}
    BY <1>0, <1>f, <2>1, RangeAppend
  <2>5. Accounted(u)
    BY <1>2, <1>4, <1>5, <2>3, <2>4
  <2> QED BY <1>2, <1>5, <2>3, <2>5 DEF OneSent
<1>6. CASE s.kind = "kafka" /\ ~s.located
  <2>1. u = [v EXCEPT !.from = m]
    BY <1>2, <1>3, <1>6 DEF Delivered
  <2>2. /\ u \in SourceOf(o) /\ u.kind = v.kind /\ u.queue = v.queue /\ u.produced = v.produced /\ u.sent = v.sent
        /\ u.from = m /\ u.discarded = v.discarded /\ u.zmq = v.zmq /\ u.mInterrupted = v.mInterrupted
        /\ u.located = v.located /\ u.committed = v.committed
    BY ONLY <1>0, <1>2, <2>1 DEF SourceOf
  <2>3. s.queue = <<>> /\ s.committed <= Taken(s)
    BY <1>6 DEF Waiting
  <2>4. Len(s.queue) = 0 /\ Taken(s) = s.sent /\ Taken(u) = m
    BY <1>2, <1>f, <1>0, <2>2, <2>3 DEF Taken
  <2>5. Waiting(u)
    <3>1. \A j \in 1 .. 0 : u.queue[j] = Taken(u) + j
      OBVIOUS
    <3> QED BY <1>2, <1>f, <2>2, <2>3, <2>4, <3>1 DEF Waiting
  <2>6. Due(u) = {}
    BY <1>0, <1>2, <1>6, <2>2 DEF Due, Answerable
  <2>7. Accounted(u)
    BY <1>2, <1>6, <2>2, <2>6 DEF Accounted
  <2>8. Committable(s) => Committable(u)
    <3>1. ASSUME s.produced # <<>> PROVE s.produced[Len(s.produced)] \in Nat
      BY <1>f, <3>1
    <3> QED BY <1>2, <1>f, <2>2, <2>4, <3>1 DEF Committable
  <2> QED BY <1>2, <1>6, <2>2, <2>5, <2>7, <2>8 DEF OneSent
<1>7. CASE s.kind = "mqtt" /\ ~(s.alive /\ s.connected)
  <2>1. u = v
    BY <1>2, <1>3, <1>7 DEF Delivered
  <2>2. Due(u) = Due(s) /\ (Seen(s) => Seen(u))
    BY <1>2, <1>7, <2>1 DEF Due, Answerable, Seen
  <2>3. Accounted(u)
    BY <1>2, <2>1, <2>2 DEF Accounted
  <2> QED BY <1>2, <1>7, <2>1, <2>3 DEF OneSent
<1>8. CASE s.kind # "rest" /\ ~(s.kind = "kafka" /\ ~s.located) /\ ~(s.kind = "mqtt" /\ ~(s.alive /\ s.connected))
  <2>1. PICK q : q = Append(s.queue, m)
    OBVIOUS
  <2>2. /\ q \in Seq(Nat \ {0}) /\ Len(q) = Len(s.queue) + 1 /\ q[Len(s.queue) + 1] = m
        /\ \A j \in 1 .. Len(s.queue) : q[j] = s.queue[j]
    BY <1>0, <1>f, <2>1, AppendProperties
  <2>3. u = [v EXCEPT !.queue = q]
    BY <1>2, <1>3, <1>8, <2>1 DEF Delivered
  <2>4. /\ u \in SourceOf(o) /\ u.kind = v.kind /\ u.queue = q /\ u.produced = v.produced /\ u.sent = v.sent
        /\ u.from = v.from /\ u.seen = v.seen /\ u.alive = v.alive /\ u.connected = v.connected
        /\ u.discarded = v.discarded /\ u.zmq = v.zmq /\ u.mInterrupted = v.mInterrupted
        /\ u.located = v.located /\ u.committed = v.committed
    BY ONLY <1>2, <2>2, <2>3 DEF SourceOf
  <2>5. Range(q) = Range(s.queue) \cup {m}
    BY <1>0, <1>f, <2>1, RangeAppend
  <2>6. Accounted(u)
    BY <1>2, <1>4, <1>8, <2>4, <2>5
  <2>7. ASSUME s.kind = "kafka" PROVE Waiting(u) /\ (Committable(s) => Committable(u))
    <3>1. Len(s.queue) <= s.sent /\ s.committed <= Taken(s) /\ s.located
      BY <1>8, <2>7 DEF Waiting
    <3>a. PICK l \in Nat, b \in Nat : l = Len(s.queue) /\ b = s.sent
      BY <1>f
    <3>b. Len(u.queue) = l + 1 /\ u.sent = b + 1
      BY <1>2, <2>2, <2>4, <3>a
    <3>2. Taken(u) = Taken(s) /\ Taken(s) = s.sent - Len(s.queue)
      BY ONLY <3>a, <3>b DEF Taken
    <3>3. u.located /\ Len(u.queue) <= u.sent /\ u.committed <= Taken(u)
      <4>1. u.located /\ u.committed <= Taken(u)
        BY <1>2, <2>4, <3>1, <3>2
      <4>2. l <= b
        BY <3>1, <3>a
      <4> QED BY ONLY <3>b, <4>1, <4>2
    <3>4. \A j \in 1 .. Len(u.queue) : u.queue[j] = Taken(u) + j
      <4> TAKE j \in 1 .. Len(u.queue)
      <4>1. CASE j \in 1 .. Len(s.queue)
        BY <2>2, <2>4, <2>7, <3>2, <4>1 DEF Waiting
      <4>2. CASE j = Len(s.queue) + 1
        BY <1>f, <2>2, <2>4, <3>2, <4>2
      <4> QED BY <1>f, <2>2, <2>4, <4>1, <4>2
    <3> QED BY <1>2, <2>4, <3>2, <3>3, <3>4 DEF Waiting, Committable
  <2> QED BY <1>2, <2>4, <2>6, <2>7 DEF OneSent
<1> QED BY <1>5, <1>6, <1>7, <1>8

\* A message is sent.
LEMMA SendOK ==
  ASSUME SourcesInv, UNCHANGED plan, NEW i \in DOMAIN sources, Send(i)
  PROVE  SourcesInv' /\ ReadsSame(sources, sources')
<1>1. PICK s, o, m, u : s = sources[i] /\ o = s.op /\ m = s.sent + 1 /\ u = Delivered([s EXCEPT !.sent = m], m)
  OBVIOUS
<1>2. s \in SourceOf(o)
  BY <1>1, SourcesFacts DEF SourcesType
<1>3. /\ UNCHANGED <<runs, main, timer, careful>> /\ s.kind \in Brokers
      /\ sources' = [sources EXCEPT ![i] = u]
  BY <1>1 DEF Send
<1>4. /\ s.kind \in Brokers => Accounted(s)
      /\ s.kind = "kafka" => Waiting(s)
      /\ s.kind # "zmq" => s.zmq = "none"
      /\ ~Ending => ZmqIdle(s)
      /\ careful => ZmqOf(s)
  BY <1>1, SourcesFacts DEF BrokersOK, BrokerOf
<1>5. OneSent(o, s, u)
  <2>1. Accounted(s) /\ (s.kind = "kafka" => Waiting(s)) /\ s.kind \in Brokers
    BY <1>3, <1>4
  <2>2. m = s.sent + 1 /\ u = Delivered([s EXCEPT !.sent = m], m)
    BY <1>1
  <2> QED BY ONLY <1>2, <2>1, <2>2, DeliveredFacts, ZenonT(60)
<1>6. /\ u \in SourceOf(sources[i].op) /\ u.kind = sources[i].kind /\ u.kind \in Brokers /\ Accounted(u)
      /\ u.kind = "kafka" => Waiting(u) /\ (Committable(sources[i]) => Committable(u))
  BY <1>1, <1>3, <1>5 DEF OneSent
<1>7. /\ u.kind # "zmq" => u.zmq = "none"
      /\ ~Ending => ZmqIdle(u)
      /\ careful => ZmqOf(u)
  BY <1>4, <1>5 DEF OneSent, ZmqIdle, ZmqOf
<1>8. SourcesInv'
  BY <1>3, <1>6, <1>7, OneChangedOK
<1>9. u.kind = sources[i].kind /\ u.discarded = sources[i].discarded
  BY <1>1, <1>5 DEF OneSent
<1>10. ReadsSame(sources, sources')
  BY <1>3, <1>9, OneSame
<1> QED BY <1>8, <1>10

\* An MQTT client loses its connection: all it answers for has arrived.
LEMMA DisconnectOK ==
  ASSUME SourcesInv, UNCHANGED plan, NEW i \in DOMAIN sources, Disconnect(i)
  PROVE  SourcesInv' /\ ReadsSame(sources, sources')
<1>1. PICK s, o, u : s = sources[i] /\ o = s.op /\ u = [s EXCEPT !.connected = FALSE, !.seen = s.sent]
  OBVIOUS
<1>2. s \in SourceOf(o)
  BY <1>1, SourcesFacts DEF SourcesType
<1>3. /\ UNCHANGED <<runs, main, timer, careful>> /\ s.kind = "mqtt" /\ s.alive /\ s.connected
      /\ sources' = [sources EXCEPT ![i] = u]
  BY <1>1 DEF Disconnect
<1>4. /\ s.kind \in Brokers => Accounted(s)
      /\ s.kind # "zmq" => s.zmq = "none"
  BY <1>1, SourcesFacts DEF BrokersOK, BrokerOf
<1>5. /\ u \in SourceOf(o) /\ u.kind = s.kind /\ u.queue = s.queue /\ u.produced = s.produced /\ u.sent = s.sent
      /\ u.from = s.from /\ u.seen = s.sent /\ u.connected = FALSE /\ u.discarded = s.discarded /\ u.zmq = s.zmq
  <2>1. s.sent \in Nat
    BY <1>2, SourceFields
  <2> QED BY <1>1, <1>2, <2>1 DEF SourceOf
<1>6. s.kind \in Brokers /\ Accounted(s)
  BY <1>3, <1>4 DEF Brokers
<1>7. Accounted(u)
  <2>1. Due(u) = Due(s)
    BY <1>3, <1>5 DEF Due, Answerable
  <2>2. Seen(u)
    BY <1>5 DEF Seen
  <2> QED BY <1>5, <1>6, <2>1, <2>2 DEF Accounted
<1>8. /\ u \in SourceOf(sources[i].op) /\ u.kind = sources[i].kind /\ u.kind \in Brokers /\ u.kind # "kafka"
      /\ u.kind # "zmq" /\ u.zmq = "none"
  BY <1>1, <1>3, <1>4, <1>5, <1>6
<1>9. ZmqIdle(u) /\ ZmqOf(u)
  BY <1>8 DEF ZmqIdle, ZmqOf
<1>10. SourcesInv'
  BY <1>3, <1>7, <1>8, <1>9, OneChangedOK
<1>11. u.kind = sources[i].kind /\ u.discarded = sources[i].discarded
  BY <1>1, <1>5
<1>12. ReadsSame(sources, sources')
  BY <1>3, <1>11, OneSame
<1> QED BY <1>10, <1>12

\* The poll of the constructor of a Kafka source.
LEMMA ConstructorPollOK ==
  ASSUME SourcesInv, ReadsInv, UNCHANGED plan, constructorPoll
  PROVE  SourcesInv'
<1>1. PICK i, s, o : i = main.at /\ s = sources[i] /\ o = s.op
  OBVIOUS
<1>2. main.call = "polling" /\ UNCHANGED <<runs, timer, careful>>
  BY DEF constructorPoll
<1>3. i \in DOMAIN sources /\ s.kind = "kafka"
  BY <1>1, <1>2 DEF ReadsInv
<1>4. s \in SourceOf(o) /\ s.kind \in Brokers /\ Accounted(s) /\ Waiting(s) /\ s.zmq = "none"
  <2>1. s.kind \in Brokers
    BY <1>3 DEF Brokers
  <2> QED BY <1>1, <1>3, <2>1, SourcesFacts DEF SourcesType, BrokersOK, BrokerOf
<1>5. \/ main' = [call |-> "free", at |-> 0] /\ UNCHANGED sources
      \/ sources' = [sources EXCEPT ![i] = [s EXCEPT !.located = TRUE]] /\ UNCHANGED main
      \/ /\ s.queue # <<>> /\ main' = [call |-> "free", at |-> 0]
         /\ sources' = [sources EXCEPT ![i] = Ignore(s)]
  BY <1>1 DEF constructorPoll
<1>6. ~Ending
  BY <1>2 DEF Ending
<1>7. ASSUME NEW u \in SourceOf(o), u.kind = s.kind, u.zmq = s.zmq, Accounted(u), Waiting(u),
             Committable(s) => Committable(u), sources' = [sources EXCEPT ![i] = u],
             main' = main \/ main'.call = "free"
      PROVE  SourcesInv'
  <2>1. /\ u \in SourceOf(sources[i].op) /\ u.kind = sources[i].kind /\ u.kind \in Brokers
        /\ u.kind = "kafka" => Waiting(u) /\ (Committable(sources[i]) => Committable(u))
        /\ u.kind # "zmq" /\ u.zmq = "none"
    BY <1>1, <1>3, <1>4, <1>7
  <2>2. ZmqIdle(u) /\ ZmqOf(u)
    BY <2>1 DEF ZmqIdle, ZmqOf
  <2> QED BY <1>2, <1>3, <1>7, <2>1, <2>2, OneChangedOK
<1>8. CASE main' = [call |-> "free", at |-> 0] /\ UNCHANGED sources
  <2>1. main'.call = "free"
    BY <1>8
  <2> QED BY <1>2, <1>6, <1>8, <2>1, SourcesFacts, CallFrame
<1>9. CASE sources' = [sources EXCEPT ![i] = [s EXCEPT !.located = TRUE]] /\ UNCHANGED main
  <2>1. PICK u : u = [s EXCEPT !.located = TRUE]
    OBVIOUS
  <2>2. /\ u \in SourceOf(o) /\ u.kind = s.kind /\ u.queue = s.queue /\ u.produced = s.produced /\ u.sent = s.sent
        /\ u.from = s.from /\ u.committed = s.committed /\ u.discarded = s.discarded /\ u.zmq = s.zmq /\ u.located = TRUE
    <3>1. s \in SourceOf(o)
      BY <1>4
    <3> QED BY ONLY <2>1, <3>1 DEF SourceOf
  <2>3. Placed(s, u)
    BY <1>3, <2>2 DEF Placed
  <2>4. Accounted(u)
    BY <1>4, <2>2, <2>3, PlacedKept
  <2>5. Waiting(u) /\ (Committable(s) => Committable(u))
    BY <1>4, <2>2 DEF Waiting, Taken, Committable
  <2> QED BY <1>7, <1>9, <2>1, <2>2, <2>4, <2>5
<1>10. CASE /\ s.queue # <<>> /\ main' = [call |-> "free", at |-> 0]
            /\ sources' = [sources EXCEPT ![i] = Ignore(s)]
  <2>1. PICK u : u = Ignore(s)
    OBVIOUS
  <2>2. OneIgnored(o, s, u)
    BY <1>4, <1>10, <2>1, IgnoredFacts
  <2>3. Waiting(u) /\ (Committable(s) => Committable(u))
    BY <1>4, <1>10, <2>2, IgnoredWaiting
  <2>4. u \in SourceOf(o) /\ u.kind = s.kind /\ u.zmq = s.zmq /\ Accounted(u)
    BY <1>4, <2>2 DEF OneIgnored
  <2>5. main'.call = "free"
    BY <1>10
  <2> QED BY <1>7, <1>10, <2>1, <2>3, <2>4, <2>5
<1> QED BY <1>5, <1>8, <1>9, <1>10

\* The thread of a ZMQ source.
LEMMA ZmqThreadOK ==
  ASSUME SourcesInv, UNCHANGED plan, NEW i \in DOMAIN sources, ZmqThread(i)
  PROVE  SourcesInv' /\ ReadsSame(sources, sources')
<1>1. PICK s, o : s = sources[i] /\ o = s.op
  OBVIOUS
<1>2. s \in SourceOf(o)
  BY <1>1, SourcesFacts DEF SourcesType
<1>3. /\ s.kind \in Brokers => Accounted(s)
      /\ s.kind # "zmq" => s.zmq = "none"
      /\ ~Ending => ZmqIdle(s)
      /\ careful => ZmqOf(s)
  BY <1>1, SourcesFacts DEF BrokersOK, BrokerOf
<1>4. /\ UNCHANGED <<runs, main, timer, careful>> /\ s.zmq \in Threads
      /\ \E t \in zmqProcess(s) : sources' = [sources EXCEPT ![i] = t]
  BY <1>1 DEF ZmqThread
<1>5. s.kind = "zmq" /\ s.kind \in Brokers /\ s.zmq # "ended"
  BY <1>3, <1>4 DEF Brokers, Threads
<1>6. s.produced \in Seq(Nat) /\ Len(s.produced) \in Nat /\ DOMAIN s.produced = 1 .. Len(s.produced)
  <2>1. s.produced \in Seq(Nat)
    BY <1>2, SourceFields
  <2> QED BY <2>1
<1>7. careful => \A p \in 1 .. Len(s.produced) : s.produced[p] # EOS
  BY <1>3, <1>4, <1>5, <1>6 DEF ZmqOf
<1>8. ASSUME NEW u \in SourceOf(o), sources' = [sources EXCEPT ![i] = u], u.kind = s.kind, Accounted(u),
             ~Ending => ZmqIdle(u), careful => ZmqOf(u), u.discarded = s.discarded
      PROVE  SourcesInv' /\ ReadsSame(sources, sources')
  <2>1. /\ u \in SourceOf(sources[i].op) /\ u.kind = sources[i].kind /\ u.kind \in Brokers
        /\ u.kind # "kafka" /\ u.kind = "zmq"
    BY <1>1, <1>5, <1>8
  <2>2. SourcesInv'
    BY <1>4, <1>8, <2>1, OneChangedOK
  <2>3. u.kind = sources[i].kind /\ u.discarded = sources[i].discarded
    BY <1>1, <1>8
  <2>4. ReadsSame(sources, sources')
    BY <1>8, <2>3, OneSame
  <2> QED BY <2>2, <2>4
<1>p. ASSUME NEW u \in SourceOf(o), NEW e \in Nat, u.kind = s.kind, u.produced = Append(s.produced, e),
             careful, e = EOS => u.zmq = "ended"
      PROVE  ZmqOf(u)
  <2>1. PICK p, a : p = s.produced /\ a = u.produced
    OBVIOUS
  <2>2. /\ a \in Seq(Nat) /\ Len(a) = Len(p) + 1 /\ a[Len(p) + 1] = e /\ \A j \in 1 .. Len(p) : a[j] = p[j]
    BY <1>p, <2>1, <1>6, AppendProperties
  <2>3. \A j \in DOMAIN a : j \in 1 .. Len(p) \/ j = Len(a)
    <3>1. Len(p) \in Nat
      BY <2>1, <1>6
    <3> QED BY ONLY <2>2, <3>1
  <2>4. \A j \in DOMAIN a : a[j] = EOS => j = Len(a) /\ e = EOS
    BY <2>1, <2>2, <2>3, <1>7, <1>p
  <2> QED BY <1>p, <2>1, <2>4 DEF ZmqOf
\* The state of the thread changes, and nothing is published.
<1>q. ASSUME NEW u, NEW z \in ZmqStates, NEW f \in BOOLEAN, u = [s EXCEPT !.zmq = z, !.mInterrupted = f],
             sources' = [sources EXCEPT ![i] = u], z \in {"running", "receiving"}, ~Ending => ~f
      PROVE  SourcesInv' /\ ReadsSame(sources, sources')
  <2>1. /\ u \in SourceOf(o) /\ u.kind = s.kind /\ u.queue = s.queue /\ u.produced = s.produced /\ u.sent = s.sent
        /\ u.from = s.from /\ u.discarded = s.discarded /\ u.zmq = z /\ u.mInterrupted = f
    <3>1. u = [s EXCEPT !.zmq = z, !.mInterrupted = f]
      BY <1>q
    <3> QED BY ONLY <3>1, <1>2, z \in ZmqStates, f \in BOOLEAN DEF SourceOf
  <2>2. Placed(s, u)
    BY <1>5, <2>1 DEF Placed
  <2>3. Accounted(u)
    BY <1>2, <1>3, <1>5, <2>1, <2>2, PlacedKept
  <2>4. ~Ending => ZmqIdle(u)
    BY <1>q, <2>1 DEF ZmqIdle
  <2>5. careful => ZmqOf(u)
    BY <1>6, <1>7, <2>1 DEF ZmqOf
  <2> QED BY <1>8, <1>q, <2>1, <2>3, <2>4, <2>5
<1>9. CASE s.zmq = "created"
  <2>1. sources' = [sources EXCEPT ![i] = [s EXCEPT !.zmq = "running", !.mInterrupted = FALSE]]
    BY <1>4, <1>9 DEF zmqProcess, zmqBegin
  <2>2. "running" \in ZmqStates
    BY DEF ZmqStates, Threads
  <2> QED BY <1>q, <2>1, <2>2
<1>10. CASE s.zmq = "running" /\ s.mInterrupted
  <2>1. PICK a, v, u : a = Append(s.produced, EOS) /\ v = Publish(s, EOS) /\ u = [v EXCEPT !.zmq = "ended"]
    OBVIOUS
  <2>0. EOS \in Nat
    BY DEF EOS
  <2>2. /\ v \in SourceOf(o) /\ v.produced = a /\ v.kind = s.kind /\ v.queue = s.queue /\ Placed(s, v)
        /\ v.discarded = s.discarded
    BY <2>0, <2>1, <1>2, PublishFacts
  <2>3. /\ u \in SourceOf(o) /\ u.kind = v.kind /\ u.queue = v.queue /\ u.produced = v.produced /\ u.sent = v.sent
        /\ u.from = v.from /\ u.discarded = v.discarded /\ u.zmq = "ended"
    <3>1. u = [v EXCEPT !.zmq = "ended"] /\ v \in SourceOf(o)
      BY <2>1, <2>2
    <3> QED BY ONLY <3>1 DEF SourceOf, ZmqStates
  <2>4. sources' = [sources EXCEPT ![i] = u]
    BY <1>4, <1>10, <2>1 DEF zmqProcess
  <2>5. Accounted(u)
    <3>1. Range(a) = Range(s.produced) \cup {EOS}
      BY <2>0, <2>1, <1>6, RangeAppend
    <3>2. Range(s.produced) \cup Range(s.queue) \cup s.discarded
            \subseteq Range(u.produced) \cup Range(u.queue) \cup u.discarded
      BY <2>2, <2>3, <3>1
    <3>3. Range(s.produced) \cup s.discarded \subseteq Range(u.produced) \cup u.discarded
      BY <2>2, <2>3, <3>1
    <3>4. Placed(s, u)
      BY <1>5, <2>2, <2>3 DEF Placed
    <3> QED BY <1>3, <1>5, <3>2, <3>3, <3>4, MovedAccounted
  <2>6. Ending
    BY <1>3, <1>10 DEF ZmqIdle
  <2>7. u.produced = Append(s.produced, EOS) /\ u.kind = s.kind /\ u.discarded = s.discarded
    BY <2>1, <2>2, <2>3
  <2>8. careful => ZmqOf(u)
    BY <2>0, <2>3, <2>7, <1>p
  <2> QED BY <2>3, <2>4, <2>5, <2>6, <2>7, <2>8, <1>8
<1>11. CASE s.zmq = "running" /\ ~s.mInterrupted
  <2>1. PICK f : f = s.mInterrupted
    OBVIOUS
  <2>2. f \in BOOLEAN /\ ~f
    BY <1>2, <1>11, <2>1, SourceFields
  <2>3. sources' = [sources EXCEPT ![i] = [s EXCEPT !.zmq = "receiving"]]
    BY <1>4, <1>11 DEF zmqProcess
  <2>4. [s EXCEPT !.zmq = "receiving"] = [s EXCEPT !.zmq = "receiving", !.mInterrupted = f]
    BY <1>2, <2>1 DEF SourceOf
  <2>5. "receiving" \in ZmqStates
    BY DEF ZmqStates, Threads
  <2> QED BY <1>q, <2>2, <2>3, <2>4, <2>5
<1>12. CASE s.zmq = "receiving"
  <2>1. PICK u, h : u = Take(Publish(s, Head(s.queue))) /\ h = Head(s.queue)
    OBVIOUS
  <2>2. PICK f : f = s.mInterrupted
    OBVIOUS
  <2>3. f \in BOOLEAN /\ (~Ending => ~f)
    BY <1>2, <1>3, <1>12, <2>2, SourceFields DEF ZmqIdle
  <2>4. \/ sources' = [sources EXCEPT ![i] = [s EXCEPT !.zmq = "running"]]
        \/ s.queue # <<>> /\ sources' = [sources EXCEPT ![i] = [u EXCEPT !.zmq = "running"]]
    BY <1>4, <1>12, <2>1 DEF zmqProcess
  <2>5. CASE sources' = [sources EXCEPT ![i] = [s EXCEPT !.zmq = "running"]]
    <3>1. [s EXCEPT !.zmq = "running"] = [s EXCEPT !.zmq = "running", !.mInterrupted = f]
      BY <1>2, <2>2 DEF SourceOf
    <3>2. "running" \in ZmqStates
      BY DEF ZmqStates, Threads
    <3> QED BY <1>q, <2>3, <2>5, <3>1, <3>2
  <2>6. CASE s.queue # <<>> /\ sources' = [sources EXCEPT ![i] = [u EXCEPT !.zmq = "running"]]
    <3>1. /\ u \in SourceOf(o) /\ h \in Nat \ {0} /\ u.produced = Append(s.produced, h) /\ u.discarded = s.discarded
          /\ u.kind = s.kind /\ u.mInterrupted = s.mInterrupted /\ Accounted(u)
      BY <1>2, <1>3, <1>5, <2>1, <2>6, TakenPublished
    <3>2. PICK v : v = [u EXCEPT !.zmq = "running"]
      OBVIOUS
    <3>3. /\ v \in SourceOf(o) /\ v.kind = u.kind /\ v.queue = u.queue /\ v.produced = u.produced /\ v.sent = u.sent
          /\ v.from = u.from /\ v.discarded = u.discarded /\ v.zmq = "running" /\ v.mInterrupted = u.mInterrupted
      <4>1. u \in SourceOf(o)
        BY <3>1
      <4> QED BY ONLY <3>2, <4>1 DEF SourceOf, ZmqStates, Threads
    <3>4. Placed(u, v)
      BY <1>5, <3>1, <3>3 DEF Placed
    <3>5. Accounted(v)
      BY <3>1, <3>3, <3>4, PlacedKept
    <3>6. h \in Nat /\ h # EOS
      BY <3>1 DEF EOS
    <3>7. v.produced = Append(s.produced, h) /\ v.kind = s.kind /\ v.discarded = s.discarded
      BY <3>1, <3>3
    <3>8. careful => ZmqOf(v)
      BY <3>3, <3>6, <3>7, <1>p
    <3>9. ~Ending => ZmqIdle(v)
      BY <2>2, <2>3, <3>1, <3>3 DEF ZmqIdle
    <3>10. sources' = [sources EXCEPT ![i] = v]
      BY <2>6, <3>2
    <3> QED BY <3>3, <3>5, <3>7, <3>8, <3>9, <3>10, <1>8
  <2> QED BY <2>4, <2>5, <2>6
<1> QED BY <1>4, <1>9, <1>10, <1>11, <1>12 DEF Threads

\* The destructor of a ZMQ source.
LEMMA ZmqStopOK ==
  ASSUME SourcesInv, UNCHANGED plan, NEW i \in DOMAIN sources, zmqStop(i)
  PROVE  SourcesInv' /\ ReadsSame(sources, sources')
<1>0. /\ main.call = "destroying" /\ sources[i].zmq \in Threads
      /\ UNCHANGED <<runs, timer, careful>>
      /\ \/ main' = [call |-> "terminated", at |-> 0] /\ UNCHANGED sources
         \/ sources' = [sources EXCEPT ![i].mInterrupted = TRUE] /\ UNCHANGED main
  BY DEF zmqStop
<1>1. CASE main' = [call |-> "terminated", at |-> 0] /\ UNCHANGED sources
  <2>1. main'.call = "terminated"
    BY <1>1
  <2>2. Ending'
    BY <2>1 DEF Ending
  <2>3. SourcesInv'
    BY <1>0, <1>1, <2>1, <2>2, SourcesFacts, CallFrame
  <2> QED BY <1>1, <2>3 DEF ReadsSame
<1>2. CASE sources' = [sources EXCEPT ![i].mInterrupted = TRUE] /\ UNCHANGED main
  <2>1. PICK s, o, u : s = sources[i] /\ o = s.op /\ u = [s EXCEPT !.mInterrupted = TRUE]
    OBVIOUS
  <2>2. s \in SourceOf(o)
    BY <2>1, SourcesFacts DEF SourcesType
  <2>3. /\ u \in SourceOf(o) /\ u.kind = s.kind /\ u.queue = s.queue /\ u.produced = s.produced /\ u.sent = s.sent
        /\ u.from = s.from /\ u.discarded = s.discarded /\ u.zmq = s.zmq
    <3>1. u = [s EXCEPT !.mInterrupted = TRUE]
      BY <2>1
    <3> QED BY ONLY <2>2, <3>1 DEF SourceOf
  <2>4. /\ s.kind \in Brokers => Accounted(s)
        /\ s.kind # "zmq" => s.zmq = "none"
        /\ careful => ZmqOf(s)
    BY <2>1, SourcesFacts DEF BrokersOK, BrokerOf
  <2>5. s.kind = "zmq" /\ s.kind \in Brokers
    BY <1>0, <2>1, <2>4 DEF Brokers, Threads
  <2>6. Accounted(u)
    <3>1. Placed(s, u)
      BY <2>3, <2>5 DEF Placed
    <3> QED BY <2>2, <2>3, <2>4, <2>5, <3>1, PlacedKept
  <2>7. careful => ZmqOf(u)
    BY <2>3, <2>4 DEF ZmqOf
  <2>8. Ending
    BY <1>0 DEF Ending
  <2>9. sources' = [sources EXCEPT ![i] = u]
    BY <1>2, <2>1
  <2>10. u \in SourceOf(sources[i].op) /\ u.kind = sources[i].kind /\ u.kind \in Brokers /\ u.kind = "zmq"
    BY <2>1, <2>3, <2>5
  <2>11. SourcesInv'
    BY <1>0, <1>2, <2>6, <2>7, <2>8, <2>9, <2>10, OneChangedOK
  <2>12. u.kind = sources[i].kind /\ u.discarded = sources[i].discarded
    BY <2>1, <2>3
  <2>13. ReadsSame(sources, sources')
    BY <2>9, <2>12, OneSame
  <2> QED BY <2>11, <2>13
<1> QED BY <1>0, <1>1, <1>2

\* prepare changes memory sources only.
LEMMA PrepareOK ==
  ASSUME SourcesInv, UNCHANGED plan, prepare
  PROVE  SourcesInv' /\ ReadsSame(sources, sources')
<1>0. /\ UNCHANGED <<runs, main, timer, careful>>
      /\ sources' = [i \in DOMAIN sources |->
           IF sources[i].kind = "memory" THEN [sources[i] EXCEPT !.data = @ \o sources[i].queue]
           ELSE sources[i]]
  BY DEF prepare
<1>1. PICK ss, rr, s2 : ss = sources /\ rr = runs /\ s2 = sources'
  OBVIOUS
<1>2. DOMAIN s2 = DOMAIN ss
  BY <1>0, <1>1
<1>3. \A i \in DOMAIN ss : ss[i].kind # "memory" => s2[i] = ss[i]
  BY <1>0, <1>1
<1>4. ASSUME NEW i \in DOMAIN ss, ss[i].kind = "memory"
      PROVE  s2[i] \in SourceOf(ss[i].op) /\ s2[i].op = ss[i].op /\ s2[i].kind = "memory" /\ s2[i].zmq = ss[i].zmq
             /\ s2[i].mInterrupted = ss[i].mInterrupted /\ s2[i].discarded = ss[i].discarded
  <2>1. PICK s, o, d, u : s = ss[i] /\ o = s.op /\ d = s.data \o s.queue /\ u = [s EXCEPT !.data = d]
    OBVIOUS
  <2>2. s \in SourceOf(o)
    BY <1>1, <2>1, SourcesFacts DEF SourcesType
  <2>3. d \in Seq(Nat)
    BY <2>1, <2>2, SourceFields, ConcatProperties
  <2>4. /\ u \in SourceOf(o) /\ u.op = s.op /\ u.kind = s.kind /\ u.zmq = s.zmq /\ u.mInterrupted = s.mInterrupted
        /\ u.discarded = s.discarded
    <3>1. u = [s EXCEPT !.data = d]
      BY <2>1
    <3> QED BY ONLY <2>2, <2>3, <3>1 DEF SourceOf
  <2>5. s2[i] = u
    BY <1>0, <1>1, <1>4, <2>1
  <2> QED BY <1>4, <2>1, <2>4, <2>5
<1>5. SourcesType(ss) /\ RunsType(ss, rr) /\ BrokersOK(ss, rr) /\ (careful => OneRunEach(rr) /\ StreamsOK(ss, rr))
  BY <1>1, SourcesFacts
<1>6. SourcesType(s2)
  <2>1. PICK n \in Nat : DOMAIN ss = 1 .. n
    BY <1>5, SeqFacts DEF SourcesType
  <2>2. s2 = [i \in 1 .. n |-> s2[i]]
    BY <1>0, <1>1, <2>1
  <2>3. s2 \in Seq(Range(s2))
    BY <2>2, FcnIsSeq
  <2>4. \A i \in DOMAIN ss : s2[i] \in SourceOf(s2[i].op)
    <3> TAKE i \in DOMAIN ss
    <3>1. CASE ss[i].kind = "memory"
      BY <1>4, <3>1
    <3>2. CASE ss[i].kind # "memory"
      BY <1>3, <1>5, <3>2 DEF SourcesType
    <3> QED BY <3>1, <3>2
  <2> QED BY <1>2, <2>3, <2>4 DEF SourcesType
<1>7. RunsType(s2, rr)
  BY <1>2, <1>5 DEF RunsType
<1>8. BrokersOK(s2, rr)
  <2> SUFFICES ASSUME NEW i \in DOMAIN ss PROVE BrokerOf(s2[i], rr, i)
    BY <1>2 DEF BrokersOK
  <2>1. CASE ss[i].kind = "memory"
    BY <1>4, <2>1 DEF BrokerOf, Brokers
  <2>2. CASE ss[i].kind # "memory"
    BY <1>3, <1>5, <2>2 DEF BrokersOK
  <2> QED BY <2>1, <2>2
<1>9. careful => StreamsOK(s2, rr)
  <2> SUFFICES ASSUME careful, NEW i \in DOMAIN ss, Ends(s2[i]) PROVE StreamOf(s2[i], rr, i)
    BY <1>2 DEF StreamsOK
  <2>1. ss[i].kind # "memory"
    BY <1>4 DEF Ends
  <2>2. s2[i] = ss[i]
    BY <1>3, <2>1
  <2> QED BY <1>5, <2>2 DEF StreamsOK
<1>10. \A i \in DOMAIN s2 :
            /\ s2[i].kind # "zmq" => s2[i].zmq = "none"
            /\ ~Ending => ZmqIdle(s2[i])
            /\ careful => ZmqOf(s2[i])
  <2> TAKE i \in DOMAIN s2
  <2>0. /\ ss[i].kind # "zmq" => ss[i].zmq = "none"
        /\ ~Ending => ZmqIdle(ss[i])
        /\ careful => ZmqOf(ss[i])
    BY <1>1, <1>2, SourcesFacts
  <2>1. CASE ss[i].kind = "memory"
    BY <1>2, <1>4, <2>0, <2>1 DEF ZmqIdle, ZmqOf
  <2>2. CASE ss[i].kind # "memory"
    BY <1>2, <1>3, <2>0, <2>2
  <2> QED BY <2>1, <2>2
<1>11. Ending' <=> Ending
  BY <1>0 DEF Ending
<1>12. /\ plan' \in Seq(Finite \cup Brokers)
       /\ main'.call = "start" => main'.at \in DOMAIN s2
       /\ timer' = "running" => \E k \in DOMAIN rr : rr[k].by = "timer"
       /\ careful => /\ main.call = "start" => timer = "none" /\ ActiveBy(rr, "main")
                     /\ timer # "none" => ActiveBy(rr, "timer")
  BY <1>0, <1>1, <1>2, SourcesFacts
<1>13. sources' = s2 /\ runs' = rr /\ UNCHANGED <<main, timer, careful>>
  BY <1>0, <1>1
<1>14. SourcesInv'
  BY <1>5, <1>6, <1>7, <1>8, <1>9, <1>10, <1>11, <1>12, <1>13, AfterStep
<1>15. \A i \in DOMAIN ss : s2[i].kind = ss[i].kind /\ s2[i].discarded = ss[i].discarded
  BY <1>3, <1>4
<1> QED BY <1>1, <1>2, <1>14, <1>15 DEF ReadsSame

\* What was read and ignored, after a step.
LEMMA ReadsAfter ==
  ASSUME NEW ss, NEW rr, NEW c \in Nat, NEW at, sources' = ss, runs' = rr, crashes' = c, PollingAt' = at,
         DropsOK(ss, rr, c, at), main'.call = "polling" => main'.at \in DOMAIN ss /\ ss[main'.at].kind = "kafka"
  PROVE  ReadsInv'
<1>1. DropsOK(sources, runs, crashes, PollingAt)' = DropsOK(ss, rr, c, at)
  BY DEF DropsOK, DropsOf, BegunOf
<1> QED BY <1>1 DEF ReadsInv

\* A poll that has ended may have ignored a message more.
LEMMA DropsLater ==
  ASSUME NEW ss, ss \in Seq(Range(ss)), NEW rr, NEW c \in Nat, NEW at, DropsOK(ss, rr, c, at)
  PROVE  DropsOK(ss, rr, c, 0)
<1> SUFFICES ASSUME NEW i \in DOMAIN ss PROVE DropsOf(ss[i], rr, i, c, 0)
  BY DEF DropsOK
<1>1. DropsOf(ss[i], rr, i, c, at)
  BY DEF DropsOK
<1>2. i # 0
  <2>1. DOMAIN ss = 1 .. Len(ss)
    BY SeqFacts
  <2> QED BY <2>1
<1>3. IsFiniteSet(ss[i].discarded) /\ Cardinality(ss[i].discarded) \in Nat
  BY <1>1, FS_CardinalityType DEF DropsOf
<1> QED BY <1>1, <1>2, <1>3 DEF DropsOf

\* Steps that read nothing.
LEMMA QuietOK ==
  ASSUME ReadsInv, UNCHANGED crashes, SourcesType(sources), NEW s2, sources' = s2, NEW r2, runs' = r2,
         ReadsSame(sources, s2),
         runs \in Seq(Range(runs)), r2 \in Seq(Range(r2)),
         \A i : BegunOf(runs, i) \subseteq BegunOf(r2, i), main'.call = "polling" => main' = main
  PROVE  ReadsInv'
<1>1. PICK ss, rr, c, at : ss = sources /\ rr = runs /\ c = crashes /\ at = PollingAt'
  OBVIOUS
<1>2. c \in Nat /\ DropsOK(ss, rr, c, at)
  <2>1. CASE main'.call = "polling"
    <3>1. PollingAt' = PollingAt
      BY <2>1 DEF PollingAt
    <3> QED BY <1>1, <3>1 DEF ReadsInv
  <2>2. CASE main'.call # "polling"
    <3>1. PollingAt' = 0
      BY <2>2 DEF PollingAt
    <3>2. c \in Nat /\ DropsOK(ss, rr, c, PollingAt) /\ ss \in Seq(Range(ss))
      BY <1>1 DEF ReadsInv, SourcesType
    <3>3. PICK b : b = PollingAt
      OBVIOUS
    <3> QED BY <1>1, <3>1, <3>2, <3>3, DropsLater
  <2> QED BY <2>1, <2>2
<1>3. DropsOK(s2, r2, c, at)
  <2> SUFFICES ASSUME NEW i \in DOMAIN s2 PROVE DropsOf(s2[i], r2, i, c, at)
    BY DEF DropsOK
  <2>1. PICK s, u : s = ss[i] /\ u = s2[i]
    OBVIOUS
  <2>2. DropsOf(s, rr, i, c, at) /\ u.kind = s.kind /\ u.discarded = s.discarded
    BY <1>1, <1>2, <2>1 DEF DropsOK, ReadsSame
  <2>3. rr \in Seq(Range(rr)) /\ r2 \in Seq(Range(r2)) /\ BegunOf(rr, i) \subseteq BegunOf(r2, i)
    BY <1>1
  <2>4. DropsOf(u, r2, i, c, at)
    BY ONLY <2>2, <2>3, DropsAfter
  <2> QED BY <2>1, <2>4
<1>4. main'.call = "polling" => main'.at \in DOMAIN s2 /\ s2[main'.at].kind = "kafka"
  BY DEF ReadsInv, ReadsSame
<1> QED BY <1>1, <1>2, <1>3, <1>4, ReadsAfter

\* A source is created before anything is started.
LEMMA NewStreamOK ==
  ASSUME SourcesInv, UNCHANGED plan, runs = <<>>, main.call = "free", timer = "none",
         NEW kind \in Finite \cup Brokers, newStreamFrom(kind)
  PROVE  SourcesInv' /\ (ReadsInv => ReadsInv')
<1>0. /\ UNCHANGED <<runs, timer, careful, crashes>>
      /\ main' = IF kind = "kafka" THEN [call |-> "polling", at |-> Len(sources) + 1] ELSE main
  BY DEF newStreamFrom
<1>m. main'.call \in {"free", "polling"}
  BY <1>0
<1>1. PICK n, o, u : n \in Nat /\ u \in Constructed(kind, o, n) /\ sources' = Append(sources, u)
  <2>1. PICK n \in (IF plan = <<>> THEN {0} ELSE 0 .. MaxMessages) :
           \E s \in Constructed(kind, Len(ops) + 1, n) : sources' = Append(sources, s)
    BY DEF newStreamFrom
  <2>2. n \in Nat
    BY MessagesAssumption
  <2> QED BY <2>1, <2>2
<1>2. FreshSource(o, kind, u)
  BY <1>1, ConstructedFacts
<1>3. /\ u \in SourceOf(o) /\ u.kind = kind /\ Len(u.produced) = 0 /\ DOMAIN u.produced = {}
      /\ Accounted(u) /\ (kind = "kafka" => Waiting(u)) /\ ZmqIdle(u) /\ (kind # "zmq" => u.zmq = "none")
  BY <1>2 DEF FreshSource
<1>4. PICK ss, s2, rr : ss = sources /\ s2 = Append(ss, u) /\ rr = runs
  OBVIOUS
<1>5. SourcesType(ss) /\ BrokersOK(ss, rr) /\ (careful => StreamsOK(ss, rr)) /\ DOMAIN rr = {}
      /\ rr \in Seq(Range(rr))
  <2>1. DOMAIN rr = {}
    BY <1>4
  <2> QED BY <2>1, <1>4, SourcesFacts DEF RunsType
<1>6. /\ s2 \in Seq(Range(s2)) /\ DOMAIN s2 = 1 .. Len(ss) + 1
      /\ \A i \in DOMAIN ss : s2[i] = ss[i]
      /\ s2[Len(ss) + 1] = u /\ Len(ss) \in Nat /\ DOMAIN ss = 1 .. Len(ss)
  BY <1>4, <1>5, AppendFacts DEF SourcesType
<1>7. \A i \in DOMAIN s2 : (i \in DOMAIN ss /\ s2[i] = ss[i]) \/ s2[i] = u
  <2>1. DOMAIN s2 = DOMAIN ss \cup {Len(ss) + 1}
    BY <1>6
  <2> QED BY <2>1, <1>6
<1>8. SourcesType(s2)
  <2>1. u.op = o
    BY <1>3, SourceFields
  <2> QED BY <1>3, <1>5, <1>6, <1>7, <2>1 DEF SourcesType
<1>9. BrokersOK(s2, rr)
  <2> SUFFICES ASSUME NEW i \in DOMAIN s2 PROVE BrokerOf(s2[i], rr, i)
    BY DEF BrokersOK
  <2>1. CASE i \in DOMAIN ss /\ s2[i] = ss[i]
    BY <1>5, <2>1 DEF BrokersOK
  <2>2. CASE s2[i] = u
    BY <1>3, <1>5, <2>2 DEF BrokerOf
  <2> QED BY <1>7, <2>1, <2>2
<1>10. careful => StreamsOK(s2, rr) /\ OneRunEach(rr)
  <2>1. OneRunEach(rr)
    BY <1>5 DEF OneRunEach
  <2> SUFFICES ASSUME careful, NEW i \in DOMAIN s2, Ends(s2[i]) PROVE StreamOf(s2[i], rr, i)
    BY <2>1 DEF StreamsOK
  <2>2. CASE i \in DOMAIN ss /\ s2[i] = ss[i]
    BY <1>5, <2>2 DEF StreamsOK
  <2>3. CASE s2[i] = u
    <3>1. DOMAIN u.produced = {} /\ Len(u.produced) = 0
      BY <1>3
    <3>2. Len(u.queue) \in Nat
      BY <1>3, SourceFields
    <3>3. 0 % Cycle(u) = 0
      <4>1. PICK w \in Nat \ {0} : w = Cycle(u)
        BY <3>2 DEF Cycle
      <4>2. 0 % w = 0
        <5>1. ASSUME NEW b \in Nat, NEW p \in Nat, b = w * p PROVE b % w = 0
          BY <5>1
        <5>2. PICK z \in Nat : z = 0
          OBVIOUS
        <5>3. z = w * z
          BY <5>2
        <5> QED BY <5>1, <5>2, <5>3
      <4> QED BY <4>1, <4>2
    <3>4. RunsOn(rr, i) = {}
      BY <1>5 DEF RunsOn
    <3> QED BY <2>3, <3>1, <3>3, <3>4 DEF StreamOf, Repeats
  <2> QED BY <1>7, <2>2, <2>3
<1>11. \A i \in DOMAIN s2 :
            /\ s2[i].kind # "zmq" => s2[i].zmq = "none"
            /\ ~Ending => ZmqIdle(s2[i])
            /\ careful => ZmqOf(s2[i])
  <2> TAKE i \in DOMAIN s2
  <2>1. CASE i \in DOMAIN ss /\ s2[i] = ss[i]
    BY <1>4, <2>1, SourcesFacts
  <2>2. CASE s2[i] = u
    BY <1>3, <2>2 DEF ZmqOf
  <2> QED BY <1>7, <2>1, <2>2
<1>12. ~Ending /\ ~Ending'
  BY <1>m DEF Ending
<1>13. RunsType(s2, rr)
  BY <1>5 DEF RunsType
<1>14. plan' \in Seq(Finite \cup Brokers) /\ main'.call # "start" /\ timer' = "none" /\ sources' = s2 /\ runs' = rr
  BY <1>0, <1>1, <1>4, <1>m, SourcesFacts
<1>15. SourcesInv'
  BY <1>0, <1>8, <1>9, <1>10, <1>11, <1>12, <1>13, <1>14, AfterStep
<1>16. ASSUME ReadsInv PROVE ReadsInv'
  <2>1. PICK c, at : c = crashes /\ at = PollingAt'
    OBVIOUS
  <2>2. c \in Nat /\ DropsOK(ss, rr, c, 0)
    <3>1. PollingAt = 0
      BY DEF PollingAt
    <3> QED BY <1>4, <1>16, <2>1, <3>1 DEF ReadsInv
  <2>3. at = IF kind = "kafka" THEN Len(ss) + 1 ELSE 0
    <3>1. CASE kind = "kafka"
      <4>1. main'.call = "polling" /\ main'.at = Len(ss) + 1
        BY <1>0, <1>4, <3>1
      <4> QED BY <2>1, <3>1, <4>1 DEF PollingAt
    <3>2. CASE kind # "kafka"
      <4>1. main'.call = "free"
        BY <1>0, <3>2
      <4> QED BY <2>1, <3>2, <4>1 DEF PollingAt
    <3> QED BY <3>1, <3>2
  <2>4. DropsOK(s2, rr, c, at)
    <3> SUFFICES ASSUME NEW i \in DOMAIN s2 PROVE DropsOf(s2[i], rr, i, c, at)
      BY DEF DropsOK
    <3>1. CASE i \in DOMAIN ss /\ s2[i] = ss[i]
      <4>1. DropsOf(ss[i], rr, i, c, 0)
        BY <2>2, <3>1 DEF DropsOK
      <4>2. i # 0 /\ i # Len(ss) + 1
        BY <1>6, <3>1
      <4>3. at # i
        BY <2>3, <4>2
      <4> QED BY <3>1, <4>1, <4>2, <4>3 DEF DropsOf
    <3>2. CASE s2[i] = u
      <4>1. u.discarded = {}
        BY <1>2 DEF FreshSource
      <4>2. IsFiniteSet(u.discarded) /\ Cardinality(u.discarded) = 0
        BY <4>1, FS_EmptySet
      <4>3. Cardinality(BegunOf(rr, i)) \in Nat
        BY <1>5, BegunFinite
      <4> QED BY <2>2, <3>2, <4>1, <4>2, <4>3 DEF DropsOf
    <3> QED BY <1>7, <3>1, <3>2
  <2>5. ASSUME main'.call = "polling" PROVE main'.at \in DOMAIN s2 /\ s2[main'.at].kind = "kafka"
    <3>1. kind = "kafka" /\ main'.at = Len(ss) + 1
      BY <1>0, <1>4, <2>5
    <3> QED BY <1>3, <1>6, <3>1
  <2>6. crashes' = c /\ PollingAt' = at
    BY <1>0, <2>1
  <2> QED BY <1>14, <2>2, <2>4, <2>5, <2>6, ReadsAfter
<1> QED BY <1>15, <1>16

\* A crash ends every run; Kafka delivers again what was not committed.
LEMMA CrashOK ==
  ASSUME SourcesInv, UNCHANGED plan, Crash
  PROVE  SourcesInv' /\ (ReadsInv => ReadsInv')
<1>1. PICK s, o, u :
         s = sources[1] /\ o = s.op /\ u = [Subscribed(s) EXCEPT !.alive = TRUE] /\ sources' = <<u>>
  BY DEF Crash
<1>2. /\ Len(sources) = 1 /\ s.kind = "kafka" /\ runs' = <<>> /\ main' = [call |-> "polling", at |-> 1]
      /\ timer' = "none" /\ crashes' = crashes + 1 /\ careful' = careful
  BY <1>1 DEF Crash
<1>3. 1 \in DOMAIN sources
  BY <1>2, SourcesFacts, SeqFacts DEF SourcesType
<1>4. s \in SourceOf(o) /\ Accounted(s) /\ Waiting(s) /\ s.zmq = "none"
  BY <1>1, <1>2, <1>3, SourcesFacts DEF SourcesType, BrokersOK, BrokerOf, Brokers
<1>5. u \in SourceOf(o) /\ u.kind = s.kind /\ Accounted(u) /\ Waiting(u) /\ u.zmq = s.zmq /\ u.discarded = s.discarded
  <2>1. /\ s \in SourceOf(o) /\ s.kind = "kafka" /\ Accounted(s) /\ Waiting(s)
        /\ u = [Subscribed(s) EXCEPT !.alive = TRUE]
    BY <1>1, <1>2, <1>4
  <2> QED BY ONLY <2>1, CrashedFacts, ZenonT(60)
<1>6. PICK s2, rr : s2 = <<u>> /\ rr = <<>>
  OBVIOUS
<1>7. s2 = [i \in 1 .. 1 |-> s2[i]] /\ s2[1] = u
  BY <1>6
<1>8. s2 \in Seq(Range(s2)) /\ DOMAIN s2 = {1}
  <2>1. s2 \in Seq(Range(s2)) /\ DOMAIN s2 = 1 .. 1
    BY <1>7, FcnIsSeq
  <2> QED BY <2>1
<1>9. SourcesType(s2)
  <2>1. u.op = o
    BY <1>5, SourceFields
  <2> QED BY <1>5, <1>7, <1>8, <2>1 DEF SourcesType
<1>10. rr \in Seq(Range(rr)) /\ DOMAIN rr = {}
  BY <1>6
<1>11. RunsType(s2, rr) /\ OneRunEach(rr)
  BY <1>10 DEF RunsType, OneRunEach
<1>12. BrokersOK(s2, rr)
  BY <1>5, <1>7, <1>8, <1>10 DEF BrokersOK, BrokerOf
<1>13. StreamsOK(s2, rr)
  BY <1>2, <1>5, <1>7, <1>8 DEF StreamsOK, Ends, Finite
<1>14. \A i \in DOMAIN s2 : s2[i].kind # "zmq" /\ s2[i].zmq = "none" /\ ZmqIdle(s2[i]) /\ ZmqOf(s2[i])
  BY <1>2, <1>4, <1>5, <1>7, <1>8 DEF ZmqIdle, ZmqOf
<1>15. main'.call = "polling" /\ main'.at = 1
  BY <1>2
<1>16. plan' \in Seq(Finite \cup Brokers) /\ sources' = s2 /\ runs' = rr
  BY <1>1, <1>2, <1>6, SourcesFacts
<1>17. SourcesInv'
  BY <1>2, <1>9, <1>11, <1>12, <1>13, <1>14, <1>15, <1>16, AfterStep
<1>18. ASSUME ReadsInv PROVE ReadsInv'
  <2>1. PICK c, at : c = crashes + 1 /\ at = 1
    OBVIOUS
  <2>2. crashes \in Nat /\ DropsOf(s, runs, 1, crashes, PollingAt)
    BY <1>1, <1>3, <1>18 DEF ReadsInv, DropsOK
  <2>3. IsFiniteSet(u.discarded) /\ Cardinality(u.discarded) \in Nat /\ Cardinality(u.discarded) <= c
    <3>1. IsFiniteSet(s.discarded) /\ Cardinality(s.discarded) \in Nat
      BY <2>2, FS_CardinalityType DEF DropsOf
    <3> QED BY <1>2, <1>5, <2>1, <2>2, <3>1 DEF DropsOf
  <2>4. DropsOK(s2, rr, c, at)
    BY <1>2, <1>5, <1>7, <1>8, <2>1, <2>3 DEF DropsOK, DropsOf
  <2>5. PollingAt' = at /\ crashes' = c /\ c \in Nat
    BY <1>2, <1>15, <2>1, <2>2 DEF PollingAt
  <2>6. main'.at \in DOMAIN s2 /\ s2[main'.at].kind = "kafka"
    BY <1>2, <1>5, <1>7, <1>8, <1>15
  <2> QED BY <1>16, <2>4, <2>5, <2>6, ReadsAfter
<1> QED BY <1>17, <1>18

\* A step of a start function.  A careful program has no function running
\* while it is destroyed: a ZMQ source is not started again after its end.
LEMMA StartFunctionOK ==
  ASSUME SourcesInv, LifeInv, UNCHANGED plan, NEW k \in DOMAIN runs, RunStep(k)
  PROVE  SourcesInv' /\ (ReadsInv => ReadsInv')
<1>0. /\ Alive /\ Active(runs[k]) /\ UNCHANGED <<timer, careful, crashes>>
      /\ \/ main' = [call |-> "terminated", at |-> 0] /\ UNCHANGED <<sources, runs>>
         \/ /\ ~Gone(sources[runs[k].src], runs[k].pc)
            /\ \E t \in Steps(sources[runs[k].src], runs[k].pc, runs[k].n) :
                     /\ sources' = [sources EXCEPT ![runs[k].src] = t.s]
                     /\ runs' = [runs EXCEPT ![k].pc = t.pc,
                                            ![k].n = IF sources[runs[k].src].kind \in Finite THEN @ + 1 ELSE @]
            /\ main' = [call |-> "terminated", at |-> 0] \/ main' = main
  BY DEF RunStep
<1>t. SourcesType(sources) /\ RunsType(sources, runs)
  BY SourcesFacts
<1>1. CASE main' = [call |-> "terminated", at |-> 0] /\ UNCHANGED <<sources, runs>>
  <2>1. main'.call = "terminated"
    BY <1>1
  <2>2. Ending'
    BY <2>1, SMTT(60) DEF Ending
  <2>3. SourcesInv'
    BY <1>0, <1>1, <2>1, <2>2, SourcesFacts, CallFrame
  <2>4. ASSUME ReadsInv PROVE ReadsInv'
    <3>1. PICK s2, r2 : s2 = sources /\ r2 = runs
      OBVIOUS
    <3>2. sources' = s2 /\ runs' = r2 /\ ReadsSame(sources, s2) /\ runs \in Seq(Range(runs)) /\ r2 \in Seq(Range(r2))
      BY <1>1, <1>t, <3>1 DEF ReadsSame, RunsType
    <3>3. \A i : BegunOf(runs, i) \subseteq BegunOf(r2, i)
      BY <3>1
    <3>4. UNCHANGED crashes
      BY <1>0
    <3> QED BY <1>t, <2>1, <2>4, <3>2, <3>3, <3>4, QuietOK
  <2> QED BY <2>3, <2>4
<1>2. CASE /\ ~Gone(sources[runs[k].src], runs[k].pc)
           /\ \E t \in Steps(sources[runs[k].src], runs[k].pc, runs[k].n) :
                     /\ sources' = [sources EXCEPT ![runs[k].src] = t.s]
                     /\ runs' = [runs EXCEPT ![k].pc = t.pc,
                                            ![k].n = IF sources[runs[k].src].kind \in Finite THEN @ + 1 ELSE @]
           /\ main' = [call |-> "terminated", at |-> 0] \/ main' = main
  <2>1. PICK ss, rr, i : ss = sources /\ rr = runs /\ i = rr[k].src
    OBVIOUS
  <2>2. PICK t \in Steps(ss[i], rr[k].pc, rr[k].n) :
           /\ sources' = [ss EXCEPT ![i] = t.s]
           /\ runs' = [rr EXCEPT ![k].pc = t.pc, ![k].n = IF ss[i].kind \in Finite THEN @ + 1 ELSE @]
    BY <1>2, <2>1
  <2>3. PICK u, s2, c, w, r2 : /\ u = t.s /\ s2 = [ss EXCEPT ![i] = u] /\ c = t.pc
                               /\ w = IF ss[i].kind \in Finite THEN rr[k].n + 1 ELSE rr[k].n
                               /\ r2 = Advanced(rr, k, c, w)
    OBVIOUS
  <2>4. SourcesType(ss) /\ RunsType(ss, rr) /\ BrokersOK(ss, rr) /\ k \in DOMAIN rr /\ Active(rr[k])
    BY <1>0, <2>1, SourcesFacts
  <2>5. i = rr[k].src /\ ~Gone(ss[i], rr[k].pc)
    BY <1>2, <2>1
  <2>6. /\ SourcesType(s2) /\ RunsType(s2, r2) /\ BrokersOK(s2, r2)
        /\ StreamsKept(ss, rr, s2, r2) /\ CallersKept(rr, r2) /\ DropsKept(ss, rr, s2, r2)
        /\ DOMAIN s2 = DOMAIN ss /\ DOMAIN r2 = DOMAIN rr
        /\ i \in DOMAIN ss /\ \A j \in DOMAIN ss \ {i} : s2[j] = ss[j]
        /\ s2[i].kind = ss[i].kind
        /\ ss[i].kind # "zmq" => s2[i].zmq = ss[i].zmq /\ s2[i].mInterrupted = ss[i].mInterrupted
        /\ ss[i].kind = "zmq" =>
               /\ s2[i].produced = ss[i].produced /\ s2[i].mInterrupted = ss[i].mInterrupted
               /\ s2[i].zmq = ss[i].zmq \/ s2[i].zmq \in {"created", "replaced"}
    <3>1. t \in Steps(ss[i], rr[k].pc, rr[k].n)
      BY <2>2
    <3>2. StepKept(ss, rr, s2, r2, i)
      BY ONLY <3>1, <2>3, <2>4, <2>5, RunStepOK
    <3> QED BY <3>2 DEF StepKept
  <2>7. sources' = s2 /\ runs' = r2
    <3>1. rr[k] \in RunOf(DOMAIN ss)
      BY <2>4 DEF RunsType
    <3>2. rr[k].n = [rr[k] EXCEPT !.pc = c].n
      BY <3>1 DEF RunOf
    <3>3. runs' = [rr EXCEPT ![k].pc = c, ![k].n = w]
      BY <2>2, <2>3, <2>4, <3>2
    <3> QED BY <2>2, <2>3, <3>3 DEF Advanced
  <2>8. careful => ~Ending
    <3> SUFFICES ASSUME careful, Ending PROVE FALSE
      BY SMTT(60)
    <3>1. main.call \in {"destroying", "destroyed"}
      BY <1>0 DEF Ending, Alive
    <3>2. Returned("main") /\ Returned("timer") /\ Returned("future")
      BY <3>1 DEF LifeInv, CallerInv, DestroyInv
    <3>3. runs[k].by \in {"future", "main", "timer"}
      BY DEF LifeInv, ByInv
    <3> QED BY <1>0, <3>2, <3>3, ReturnedOf DEF Active
  <2>9. Ending => Ending'
    BY <1>2 DEF Ending
  <2>10. \A j \in DOMAIN s2 :
            /\ s2[j].kind # "zmq" => s2[j].zmq = "none"
            /\ ~Ending => ZmqIdle(s2[j])
            /\ careful => ZmqOf(s2[j])
    <3> TAKE j \in DOMAIN s2
    <3>1. /\ ss[j].kind # "zmq" => ss[j].zmq = "none"
          /\ ~Ending => ZmqIdle(ss[j])
          /\ careful => ZmqOf(ss[j])
      BY <2>1, <2>6, SourcesFacts
    <3>2. CASE j # i
      BY <2>6, <3>1, <3>2
    <3>3. CASE j = i /\ ss[i].kind # "zmq"
      BY <2>6, <3>1, <3>3 DEF ZmqIdle, ZmqOf
    <3>4. CASE j = i /\ ss[i].kind = "zmq"
      <4>1. s2[i].kind = "zmq" /\ s2[i].produced = ss[i].produced /\ s2[i].mInterrupted = ss[i].mInterrupted
            /\ (s2[i].zmq = ss[i].zmq \/ s2[i].zmq \in {"created", "replaced"})
        BY <2>6, <3>4
      <4>2. ~Ending => ZmqIdle(s2[i])
        BY <3>1, <3>4, <4>1 DEF ZmqIdle
      <4>3. careful => ZmqOf(s2[i])
        BY <2>8, <3>1, <3>4, <4>1 DEF ZmqIdle, ZmqOf
      <4> QED BY <3>4, <4>1, <4>2, <4>3
    <3> QED BY <3>2, <3>3, <3>4
  <2>11. careful => OneRunEach(r2) /\ StreamsOK(s2, r2)
    <3>1. OneRunEach(rr) => OneRunEach(r2)
      BY <2>6 DEF OneRunEach, CallersKept
    <3> QED BY <2>1, <2>6, <3>1, SourcesFacts DEF StreamsKept
  <2>12. main'.call = "start" => main' = main
    BY <1>2, SMTT(60)
  <2>13. /\ plan' \in Seq(Finite \cup Brokers)
         /\ main'.call = "start" => main'.at \in DOMAIN s2
         /\ timer' = "running" => \E l \in DOMAIN r2 : r2[l].by = "timer"
         /\ careful' => /\ main'.call = "start" => timer' = "none" /\ ActiveBy(r2, "main")
                        /\ timer' # "none" => ActiveBy(r2, "timer")
    <3>1. \A by : ActiveBy(rr, by) => ActiveBy(r2, by)
      BY <2>6 DEF ActiveBy, CallersKept
    <3>2. \A l \in DOMAIN rr : r2[l].by = rr[l].by
      BY <2>6 DEF CallersKept
    <3> QED BY <1>0, <2>1, <2>6, <2>12, <3>1, <3>2, SourcesFacts, ZenonT(60)
  <2>14. SourcesInv'
    BY <1>0, <2>6, <2>7, <2>9, <2>10, <2>11, <2>13, AfterStep
  <2>15. ASSUME ReadsInv PROVE ReadsInv'
    <3>1. PICK d, at, b : d = crashes /\ at = PollingAt' /\ b = PollingAt
      OBVIOUS
    <3>2. d \in Nat /\ DropsOK(ss, rr, d, b)
      BY <2>1, <2>15, <3>1 DEF ReadsInv
    <3>3. DropsOK(s2, r2, d, b)
      BY <2>6, <3>2 DEF DropsKept
    <3>4. DropsOK(s2, r2, d, at)
      <4>1. CASE main' = main
        <5>1. at = b
          BY <3>1, <4>1 DEF PollingAt
        <5> QED BY <3>3, <5>1
      <4>2. CASE main' = [call |-> "terminated", at |-> 0]
        <5>1. main'.call # "polling"
          BY <4>2
        <5>2. at = 0
          BY <3>1, <5>1 DEF PollingAt
        <5>3. s2 \in Seq(Range(s2))
          BY <2>6 DEF SourcesType
        <5> QED BY <3>2, <3>3, <5>2, <5>3, DropsLater
      <4> QED BY <1>2, <4>1, <4>2
    <3>5. main'.call = "polling" => main'.at \in DOMAIN s2 /\ s2[main'.at].kind = "kafka"
      <4> SUFFICES ASSUME main'.call = "polling" PROVE main'.at \in DOMAIN s2 /\ s2[main'.at].kind = "kafka"
        OBVIOUS
      <4>1. main' = main
        BY <1>2
      <4>2. main.at \in DOMAIN ss /\ ss[main.at].kind = "kafka"
        BY <2>1, <2>15, <4>1 DEF ReadsInv
      <4>3. CASE main.at = i
        BY <2>6, <4>1, <4>2, <4>3
      <4>4. CASE main.at # i
        BY <2>6, <4>1, <4>2, <4>4
      <4> QED BY <4>3, <4>4
    <3>6. crashes' = d /\ PollingAt' = at
      BY <1>0, <3>1
    <3> QED BY <2>7, <3>2, <3>4, <3>5, <3>6, ReadsAfter
  <2> QED BY <2>14, <2>15
<1> QED BY <1>0, <1>1, <1>2, ZenonT(60)

\* The invariant holds of a new topology.
LEMMA SourcesInit == Init => SourcesInv
<1> SUFFICES ASSUME Init PROVE SourcesInv
  OBVIOUS
<1>0. /\ sources = <<>> /\ runs = <<>> /\ main = [call |-> "free", at |-> 0] /\ timer = "none"
      /\ plan \in Programs \/ plan = <<>>
  BY DEF Init
<1>1. PICK e : e = <<>>
  OBVIOUS
<1>2. e \in Seq(Range(e)) /\ DOMAIN e = {} /\ e \in Seq(Finite \cup Brokers)
  BY <1>1
<1>3. main.call = "free"
  BY <1>0
<1>4. plan \in Seq(Finite \cup Brokers)
  BY <1>0, <1>1, <1>2, ProgramsAssumption
<1>5. sources = e /\ runs = e
  BY <1>0, <1>1
<1>6. SourceType
  BY <1>0, <1>2, <1>3, <1>4, <1>5 DEF SourceType, SourcesType, RunsType
<1>7. CarefulInv
  BY <1>0, <1>2, <1>3, <1>5 DEF CarefulInv, OneRunEach, ActiveBy
<1>8. StreamInv /\ BrokerInv /\ ZmqInv
  BY <1>2, <1>5 DEF StreamInv, StreamsOK, BrokerInv, BrokersOK, ZmqInv
<1> QED BY <1>6, <1>7, <1>8 DEF SourcesInv

\* Nothing has been read then.
LEMMA ReadsInit == Init => ReadsInv
<1> SUFFICES ASSUME Init PROVE ReadsInv
  OBVIOUS
<1>1. sources = <<>> /\ crashes = 0 /\ main = [call |-> "free", at |-> 0]
  BY DEF Init
<1>2. main.call = "free" /\ DOMAIN sources = {}
  BY <1>1
<1> QED BY <1>1, <1>2 DEF ReadsInv, DropsOK

\* Every step keeps the invariant.
LEMMA SourcesStep == LifeInv /\ SourcesInv /\ ReadsInv /\ [Next]_vars => SourcesInv'
<1> SUFFICES ASSUME LifeInv, SourcesInv, ReadsInv, [Next]_vars PROVE SourcesInv'
  OBVIOUS
<1>f. /\ timer = "running" => \E k \in DOMAIN runs : runs[k].by = "timer"
      /\ main.call = "start" => main.at \in DOMAIN sources
      /\ careful => /\ main.call = "start" => timer = "none" /\ ActiveBy(runs, "main")
                    /\ timer # "none" => ActiveBy(runs, "timer")
  BY SourcesFacts
<1>1. ASSUME UNCHANGED <<plan, sources, runs, main, timer, careful>> PROVE SourcesInv'
  <2>1. Ending => Ending'
    BY <1>1 DEF Ending
  <2> QED BY <1>1, <1>f, <2>1, CallFrame
<1>2. CASE UNCHANGED vars
  BY <1>1, <1>2 DEF vars, lifeVars
<1>3. CASE Next
  <2>p. UNCHANGED plan
    BY <1>3 DEF Next
  <2>1. CASE Constructing
    <3>0. runs = <<>> /\ main.call = "free" /\ timer = "none"
      BY <2>1 DEF Constructing
    <3>1. ASSUME NEW kind \in Finite \cup Brokers, newStreamFrom(kind) PROVE SourcesInv'
      BY <2>p, <3>0, <3>1, NewStreamOK
    <3>2. CASE SourceMethods
      BY <3>1, <3>2 DEF SourceMethods, newStreamFromFile, newStreamFromREST, newStreamFromRabbitMQ,
         newStreamFromKafka, newStreamFromMQTT, newAsciiStreamFromZMQ, selectFromTable,
         streamFromGenerator, newStreamFromMemory, Finite, Brokers
    <3>3. CASE UNCHANGED lifeVars
      BY <2>p, <3>3, <1>1 DEF lifeVars
    <3> QED BY <2>1, <3>2, <3>3 DEF Constructing, Building, newStreamFromTable, newStreamFromMatrix,
         createStream, fromStream
  <2>2. CASE startAsync
    BY <2>2, <2>p, AsyncOK
  <2>3. CASE start
    <3>0. /\ runs' = Append(runs, NewRun(1, "main")) /\ main' = [call |-> "start", at |-> 1]
          /\ UNCHANGED <<sources, timer>> /\ careful' = (careful /\ ~Busy /\ timer = "none")
          /\ main.call = "free" /\ Startable
      BY <2>3 DEF start, Free
    <3>1. main'.call = "start" /\ main'.at = 1
      BY <3>0
    <3>2. 1 \in DOMAIN sources
      <4>1. plan # <<>> /\ Len(sources) = Len(plan)
        BY <3>0 DEF Startable
      <4>2. plan \in Seq(Finite \cup Brokers)
        BY SourcesFacts
      <4>3. Len(plan) \in Nat \ {0}
        BY <4>1, <4>2
      <4>4. DOMAIN sources = 1 .. Len(sources)
        BY SourcesFacts, SeqFacts DEF SourcesType
      <4> QED BY <4>1, <4>3, <4>4
    <3>3. careful' => careful /\ timer = "none" /\ \A k \in DOMAIN runs : ~Active(runs[k])
      BY <3>0 DEF Busy, Range
    <3>4. ~Ending
      BY <3>0 DEF Ending
    <3> QED BY <2>p, <3>0, <3>1, <3>2, <3>3, <3>4, OneCalledOK
  <2>4. CASE startNext
    <3>0. /\ main.call = "start" /\ Returned("main") /\ UNCHANGED <<sources, timer, careful>>
      BY <2>4 DEF startNext
    <3>e. ~Ending
      BY <3>0 DEF Ending
    <3>1. CASE main.at = Len(sources)
      <4>1. main' = [call |-> "free", at |-> 0] /\ UNCHANGED runs
        BY <2>4, <3>1 DEF startNext
      <4>2. main'.call = "free"
        BY <4>1
      <4> QED BY <2>p, <1>f, <3>0, <3>e, <4>1, <4>2, CallFrame
    <3>2. CASE main.at # Len(sources)
      <4>1. main' = [main EXCEPT !.at = @ + 1] /\ runs' = Append(runs, NewRun(main.at + 1, "main"))
        BY <2>4, <3>2 DEF startNext
      <4>m. main = [call |-> main.call, at |-> main.at]
        BY DEF LifeInv, LifeType
      <4>2. main'.call = "start" /\ main'.at = main.at + 1
        BY <3>0, <4>1, <4>m
      <4>3. PICK j \in DOMAIN sources : j = main.at + 1
        <5>1. Len(sources) \in Nat /\ DOMAIN sources = 1 .. Len(sources)
          BY SourcesFacts, SeqFacts DEF SourcesType
        <5> QED BY <1>f, <3>0, <3>2, <5>1
      <4>4. careful => \A k \in DOMAIN runs : ~Active(runs[k])
        BY <1>f, <3>0 DEF ActiveBy, Returned, Range
      <4>5. runs' = Append(runs, NewRun(j, "main")) /\ main'.at \in DOMAIN sources
        BY <4>1, <4>2, <4>3
      <4> QED BY <2>p, <1>f, <3>0, <3>e, <4>2, <4>4, <4>5, OneCalledOK
    <3> QED BY <3>1, <3>2
  <2>5. CASE prepare
    BY <2>5, <2>p, PrepareOK
  <2>6. CASE wait \/ waitNext \/ waitReturns \/ cleanStartupFunctions
    <3>m. main = [call |-> main.call, at |-> main.at]
      BY DEF LifeInv, LifeType
    <3>1. UNCHANGED <<sources, runs, timer, careful>> /\ main.call \in {"free", "wait", "waited"}
      BY <2>6 DEF wait, waitNext, waitReturns, cleanStartupFunctions, Free
    <3>2. main'.call # "start"
      <4>1. CASE wait
        BY <4>1 DEF wait
      <4>2. CASE waitNext
        <5>1. main' = [main EXCEPT !.at = @ + 1] \/ main'.call \in {"waited", "threw"}
          BY <4>2 DEF waitNext
        <5> QED BY <3>m, <3>1, <5>1
      <4>3. CASE waitReturns
        BY <4>3 DEF waitReturns
      <4>4. CASE cleanStartupFunctions
        BY <3>1, <4>4 DEF cleanStartupFunctions
      <4> QED BY <2>6, <4>1, <4>2, <4>3, <4>4
    <3>3. ~Ending
      BY <3>1 DEF Ending
    <3> QED BY <2>p, <1>f, <3>1, <3>2, <3>3, CallFrame
  <2>7. CASE runEvery
    <3>0. /\ UNCHANGED <<sources, runs, main>> /\ main.call = "free" /\ timer' = "sleeping"
          /\ careful' = (careful /\ ~Busy)
      BY <2>7 DEF runEvery, Free
    <3>1. careful' => ActiveBy(runs, "timer")
      BY <3>0 DEF Busy, Range, ActiveBy
    <3>2. ~Ending
      BY <3>0 DEF Ending
    <3> QED BY <2>p, <3>0, <3>1, <3>2, CallFrame
  <2>8. CASE timerRound
    BY <2>8, <2>p, TimerOK
  <2>9. CASE stopThreads
    <3>0. UNCHANGED <<sources, runs, main, careful>> /\ main.call = "free" /\ timer = "sleeping" /\ timer' = "joined"
      BY <2>9 DEF stopThreads, Free
    <3>1. ~Ending /\ main'.call # "start" /\ timer' # "running" /\ timer # "none"
      BY <3>0 DEF Ending
    <3> QED BY <2>p, <1>f, <3>0, <3>1, CallFrame
  <2>14. CASE destroyBegin
    <3>0. /\ UNCHANGED <<sources, runs>> /\ main.call = "free" /\ timer # "running"
          /\ main' = [call |-> "destroying", at |-> 0]
          /\ timer' = IF timer = "sleeping" THEN "joined" ELSE timer
      BY <2>14 DEF destroyBegin, Free
    <3>1. main'.call # "start" /\ timer' # "running" /\ (timer' # "none" => timer # "none")
      BY <3>0
    <3>2. ~Ending
      BY <3>0 DEF Ending
    <3>3. careful' => careful
      BY <2>14 DEF destroyBegin
    <3> QED BY <2>p, <1>f, <3>0, <3>1, <3>2, <3>3, CallFrame
  <2>10. CASE destroy
    <3>0. UNCHANGED <<sources, runs, timer, careful>> /\ main' = [call |-> "destroyed", at |-> 0]
      BY <2>10 DEF destroy
    <3>1. main'.call = "destroyed"
      BY <3>0
    <3>2. Ending'
      BY <3>1 DEF Ending
    <3> QED BY <2>p, <1>f, <3>0, <3>1, <3>2, CallFrame
  <2>11. CASE Crash
    BY <2>11, <2>p, CrashOK
  <2>12. CASE \E i \in DOMAIN sources : zmqStop(i) \/ ZmqThread(i) \/ Send(i) \/ Disconnect(i)
    BY <2>12, <2>p, ZmqStopOK, ZmqThreadOK, SendOK, DisconnectOK
  <2>15. CASE constructorPoll
    BY <2>15, <2>p, ConstructorPollOK
  <2>13. CASE \E k \in DOMAIN runs : RunStep(k)
    BY <2>13, <2>p, StartFunctionOK
  <2> QED BY <1>3, <2>1, <2>2, <2>3, <2>4, <2>5, <2>6, <2>7, <2>8, <2>9, <2>10, <2>11, <2>12, <2>13, <2>14, <2>15
          DEF Next, Life, Wait
<1> QED BY <1>2, <1>3

\* Every read that is ignored is one of those that are counted.
LEMMA ReadsStep == LifeInv /\ SourcesInv /\ ReadsInv /\ [Next]_vars => ReadsInv'
<1> SUFFICES ASSUME LifeInv, SourcesInv, ReadsInv, [Next]_vars PROVE ReadsInv'
  OBVIOUS
<1>t. SourcesType(sources) /\ runs \in Seq(Range(runs))
  BY SourcesFacts DEF RunsType
<1>1. ASSUME UNCHANGED crashes, ReadsSame(sources, sources'), NEW r2, runs' = r2, r2 \in Seq(Range(r2)),
             DOMAIN runs \subseteq DOMAIN r2, \A k \in DOMAIN runs : r2[k] = runs[k],
             main'.call = "polling" => main' = main
      PROVE  ReadsInv'
  <2>1. PICK s2 : s2 = sources'
    OBVIOUS
  <2>2. \A i : BegunOf(runs, i) \subseteq BegunOf(r2, i)
    BY <1>1 DEF BegunOf
  <2>3. ReadsSame(sources, s2) /\ sources' = s2
    BY <1>1, <2>1
  <2> QED BY <1>1, <1>t, <2>2, <2>3, QuietOK
<1>2. ASSUME UNCHANGED <<runs, crashes>>, ReadsSame(sources, sources'), main'.call = "polling" => main' = main
      PROVE  ReadsInv'
  <2>1. PICK r2 : r2 = runs
    OBVIOUS
  <2>2. /\ runs' = r2 /\ r2 \in Seq(Range(r2)) /\ DOMAIN runs \subseteq DOMAIN r2
        /\ \A k \in DOMAIN runs : r2[k] = runs[k]
    BY <1>2, <1>t, <2>1
  <2> QED BY <1>1, <1>2, <2>2
<1>3. ASSUME UNCHANGED <<sources, crashes>>, NEW e, runs' = Append(runs, e), main'.call = "polling" => main' = main
      PROVE  ReadsInv'
  <2>1. PICK rr, r2 : rr = runs /\ r2 = Append(rr, e)
    OBVIOUS
  <2>2. /\ r2 \in Seq(Range(r2)) /\ DOMAIN r2 = 1 .. Len(rr) + 1
        /\ \A k \in DOMAIN rr : r2[k] = rr[k]
        /\ Len(rr) \in Nat /\ DOMAIN rr = 1 .. Len(rr)
    BY <1>t, <2>1, AppendFacts
  <2>3. /\ runs' = r2 /\ DOMAIN runs \subseteq DOMAIN r2 /\ \A k \in DOMAIN runs : r2[k] = runs[k]
    BY <1>3, <2>1, <2>2
  <2>4. ReadsSame(sources, sources')
    BY <1>3 DEF ReadsSame
  <2> QED BY <1>1, <1>3, <2>2, <2>3, <2>4
<1>s. ASSUME UNCHANGED sources PROVE ReadsSame(sources, sources')
  BY <1>s DEF ReadsSame
<1>4. CASE UNCHANGED vars
  <2>1. UNCHANGED <<sources, runs, main, crashes>>
    BY <1>4 DEF vars, lifeVars
  <2> QED BY <1>2, <1>s, <2>1
<1>5. CASE Next
  <2>p. UNCHANGED plan
    BY <1>5 DEF Next
  <2>m. main = [call |-> main.call, at |-> main.at]
    BY DEF LifeInv, LifeType
  <2>1. CASE Constructing
    <3>0. runs = <<>> /\ main.call = "free" /\ timer = "none"
      BY <2>1 DEF Constructing
    <3>1. ASSUME NEW kind \in Finite \cup Brokers, newStreamFrom(kind) PROVE ReadsInv'
      BY <2>p, <3>0, <3>1, NewStreamOK
    <3>2. CASE SourceMethods
      BY <3>1, <3>2 DEF SourceMethods, newStreamFromFile, newStreamFromREST, newStreamFromRabbitMQ,
         newStreamFromKafka, newStreamFromMQTT, newAsciiStreamFromZMQ, selectFromTable,
         streamFromGenerator, newStreamFromMemory, Finite, Brokers
    <3>3. CASE UNCHANGED lifeVars
      <4>1. UNCHANGED <<sources, runs, main, crashes>>
        BY <3>3 DEF lifeVars
      <4> QED BY <1>2, <1>s, <4>1
    <3> QED BY <2>1, <3>2, <3>3 DEF Constructing, Building, newStreamFromTable, newStreamFromMatrix,
         createStream, fromStream
  <2>2. CASE startAsync
    <3>1. UNCHANGED <<sources, main, crashes>> /\ runs' = runs \o [i \in DOMAIN sources |-> NewRun(i, "future")]
      BY <2>2 DEF startAsync
    <3>2. PICK n \in Nat : DOMAIN sources = 1 .. n
      BY <1>t, SeqFacts DEF SourcesType
    <3>3. PICK rr, nr, r2 : rr = runs /\ nr = [i \in 1 .. n |-> NewRun(i, "future")] /\ r2 = rr \o nr
      OBVIOUS
    <3>4. nr = [i \in 1 .. n |-> nr[i]]
      BY <3>3
    <3>5. nr \in Seq(Range(nr)) /\ Len(nr) = n
      BY <3>4, FcnIsSeq
    <3>6. /\ r2 \in Seq(Range(r2)) /\ DOMAIN r2 = 1 .. Len(rr) + n
          /\ \A i \in 1 .. Len(rr) : r2[i] = rr[i]
          /\ Len(rr) \in Nat /\ DOMAIN rr = 1 .. Len(rr)
      <4>1. r2 = rr \o nr /\ rr \in Seq(Range(rr))
        BY <1>t, <3>3
      <4> QED BY ONLY <4>1, <3>5, ConcatFacts, ZenonT(60)
    <3>7. runs' = r2 /\ DOMAIN runs \subseteq DOMAIN r2 /\ \A k \in DOMAIN runs : r2[k] = runs[k]
      <4>1. runs' = r2
        BY <3>1, <3>2, <3>3
      <4> QED BY <4>1, <3>3, <3>6
    <3> QED BY <1>1, <1>s, <3>1, <3>6, <3>7
  <2>3. CASE start
    <3>1. /\ UNCHANGED <<sources, crashes>> /\ runs' = Append(runs, NewRun(1, "main"))
          /\ main' = [call |-> "start", at |-> 1]
      BY <2>3 DEF start
    <3>2. main'.call = "start"
      BY <3>1
    <3> QED BY <1>3, <3>1, <3>2
  <2>4. CASE startNext
    <3>0. UNCHANGED <<sources, crashes>> /\ main.call = "start"
      BY <2>4 DEF startNext
    <3>1. CASE main.at = Len(sources)
      <4>1. main' = [call |-> "free", at |-> 0] /\ UNCHANGED runs
        BY <2>4, <3>1 DEF startNext
      <4>2. main'.call = "free"
        BY <4>1
      <4> QED BY <1>2, <1>s, <3>0, <4>1, <4>2
    <3>2. CASE main.at # Len(sources)
      <4>1. main' = [main EXCEPT !.at = @ + 1] /\ runs' = Append(runs, NewRun(main.at + 1, "main"))
        BY <2>4, <3>2 DEF startNext
      <4>2. main'.call = "start"
        BY <2>m, <3>0, <4>1
      <4> QED BY <1>3, <3>0, <4>1, <4>2
    <3> QED BY <3>1, <3>2
  <2>5. CASE prepare
    <3>1. ReadsSame(sources, sources')
      BY <2>5, <2>p, PrepareOK
    <3>2. UNCHANGED <<runs, main, crashes>>
      BY <2>5 DEF prepare
    <3> QED BY <1>2, <3>1, <3>2
  <2>6. CASE wait \/ waitNext \/ waitReturns \/ cleanStartupFunctions \/ runEvery \/ stopThreads
             \/ destroyBegin \/ destroy
    <3>1. UNCHANGED <<sources, runs, crashes>>
      BY <2>6 DEF wait, waitNext, waitReturns, cleanStartupFunctions, runEvery, stopThreads, destroyBegin, destroy
    <3>2. main'.call = "polling" => main' = main
      <4>1. CASE waitNext
        <5>1. main' = [main EXCEPT !.at = @ + 1] \/ main'.call \in {"waited", "threw"}
          BY <4>1 DEF waitNext
        <5>2. main.call = "wait"
          BY <4>1 DEF waitNext
        <5> QED BY <2>m, <5>1, <5>2
      <4>2. CASE UNCHANGED main
        BY <4>2
      <4>3. CASE wait \/ waitReturns \/ destroyBegin \/ destroy
        <5>1. main'.call # "polling"
          BY <4>3 DEF wait, waitReturns, destroyBegin, destroy
        <5> QED BY <5>1
      <4> QED BY <2>6, <4>1, <4>2, <4>3 DEF cleanStartupFunctions, runEvery, stopThreads
    <3> QED BY <1>2, <1>s, <3>1, <3>2
  <2>7. CASE timerRound
    <3>1. /\ UNCHANGED <<sources, main, crashes>>
          /\ UNCHANGED runs \/ \E e : runs' = Append(runs, e)
      BY <2>7 DEF timerRound
    <3> QED BY <1>2, <1>3, <1>s, <3>1
  <2>8. CASE Crash
    BY <2>8, <2>p, CrashOK
  <2>9. CASE \E i \in DOMAIN sources : zmqStop(i) \/ ZmqThread(i) \/ Send(i) \/ Disconnect(i)
    <3>1. PICK i \in DOMAIN sources : zmqStop(i) \/ ZmqThread(i) \/ Send(i) \/ Disconnect(i)
      BY <2>9
    <3>2. ReadsSame(sources, sources')
      BY <2>p, <3>1, ZmqStopOK, ZmqThreadOK, SendOK, DisconnectOK
    <3>3. UNCHANGED <<runs, crashes>>
      BY <3>1 DEF zmqStop, ZmqThread, Send, Disconnect
    <3>4. main'.call = "polling" => main' = main
      <4>1. CASE zmqStop(i)
        <5>1. main' = [call |-> "terminated", at |-> 0] \/ main' = main
          BY <4>1 DEF zmqStop
        <5> QED BY <5>1
      <4>2. CASE ZmqThread(i) \/ Send(i) \/ Disconnect(i)
        BY <4>2 DEF ZmqThread, Send, Disconnect
      <4> QED BY <3>1, <4>1, <4>2
    <3> QED BY <1>2, <3>2, <3>3, <3>4
  <2>10. CASE \E k \in DOMAIN runs : RunStep(k)
    BY <2>10, <2>p, StartFunctionOK
  <2>11. CASE constructorPoll
    <3>1. PICK i, s : i = main.at /\ s = sources[i]
      OBVIOUS
    <3>2. main.call = "polling" /\ UNCHANGED <<runs, crashes>>
      BY <2>11 DEF constructorPoll
    <3>3. i \in DOMAIN sources /\ s.kind = "kafka" /\ crashes \in Nat /\ DropsOK(sources, runs, crashes, i)
      BY <3>1, <3>2 DEF ReadsInv, PollingAt
    <3>4. s \in SourceOf(s.op)
      BY <1>t, <3>1, <3>3 DEF SourcesType
    <3>5. \/ main' = [call |-> "free", at |-> 0] /\ UNCHANGED sources
          \/ sources' = [sources EXCEPT ![i] = [s EXCEPT !.located = TRUE]] /\ UNCHANGED main
          \/ /\ s.queue # <<>> /\ main' = [call |-> "free", at |-> 0]
             /\ sources' = [sources EXCEPT ![i] = Ignore(s)]
      BY <2>11, <3>1 DEF constructorPoll
    <3>6. CASE main' = [call |-> "free", at |-> 0] /\ UNCHANGED sources
      <4>1. main'.call = "free"
        BY <3>6
      <4> QED BY <1>2, <1>s, <3>2, <3>6, <4>1
    <3>7. CASE sources' = [sources EXCEPT ![i] = [s EXCEPT !.located = TRUE]] /\ UNCHANGED main
      <4>1. PICK u : u = [s EXCEPT !.located = TRUE]
        OBVIOUS
      <4>2. u.kind = s.kind /\ u.discarded = s.discarded
        BY <3>4, <4>1 DEF SourceOf
      <4>3. sources' = [sources EXCEPT ![i] = u] /\ u.kind = sources[i].kind /\ u.discarded = sources[i].discarded
        BY <3>1, <3>7, <4>1, <4>2
      <4>4. ReadsSame(sources, sources')
        BY <3>3, <4>3, OneSame
      <4> QED BY <1>2, <3>2, <3>7, <4>4
    <3>8. CASE /\ s.queue # <<>> /\ main' = [call |-> "free", at |-> 0]
               /\ sources' = [sources EXCEPT ![i] = Ignore(s)]
      <4>1. PICK o, u, ss, s2, rr, c : /\ o = s.op /\ u = Ignore(s) /\ ss = sources /\ s2 = [ss EXCEPT ![i] = u]
                                       /\ rr = runs /\ c = crashes
        OBVIOUS
      <4>2. OneIgnored(o, s, u)
        BY <3>4, <3>8, <4>1, IgnoredFacts
      <4>3. PICK h \in Nat : u.discarded = s.discarded \cup {h}
        BY <4>2 DEF OneIgnored
      <4>4. DOMAIN s2 = DOMAIN ss /\ s2[i] = u /\ \A j \in DOMAIN ss \ {i} : s2[j] = ss[j]
        BY <3>3, <4>1
      <4>5. main'.call = "free" /\ PollingAt' = 0
        <5>1. main'.call = "free"
          BY <3>8
        <5> QED BY <5>1 DEF PollingAt
      <4>6. DropsOK(ss, rr, c, i) /\ c \in Nat /\ ss \in Seq(Range(ss))
        BY <1>t, <3>3, <4>1 DEF SourcesType
      <4>7. i # 0 /\ \A j \in DOMAIN ss : j # 0
        <5>1. DOMAIN ss = 1 .. Len(ss)
          BY <4>6, SeqFacts
        <5> QED BY <3>3, <4>1, <5>1
      <4>8. DropsOK(s2, rr, c, 0)
        <5> SUFFICES ASSUME NEW j \in DOMAIN ss PROVE DropsOf(s2[j], rr, j, c, 0)
          BY <4>4 DEF DropsOK
        <5>1. DropsOf(ss[j], rr, j, c, i)
          BY <4>6 DEF DropsOK
        <5>2. CASE j # i
          BY <4>4, <4>7, <5>1, <5>2 DEF DropsOf
        <5>3. CASE j = i
          <6>1. IsFiniteSet(s.discarded) /\ Cardinality(s.discarded) <= c /\ Cardinality(s.discarded) \in Nat
            BY <3>1, <3>3, <4>1, <5>1, <5>3, FS_CardinalityType DEF DropsOf
          <6>2. PICK d : d = s.discarded
            OBVIOUS
          <6>3. /\ IsFiniteSet(d \cup {h})
                /\ Cardinality(d \cup {h}) = Cardinality(d) \/ Cardinality(d \cup {h}) = Cardinality(d) + 1
            BY <6>1, <6>2, FS_AddElement
          <6>4. IsFiniteSet(u.discarded) /\ Cardinality(u.discarded) <= c + 1
            BY <4>3, <4>6, <6>1, <6>2, <6>3
          <6>5. u.kind = "kafka"
            BY <3>3, <4>2 DEF OneIgnored
          <6> QED BY <4>4, <4>7, <5>3, <6>4, <6>5 DEF DropsOf
        <5> QED BY <5>2, <5>3
      <4>9. sources' = s2 /\ runs' = rr /\ crashes' = c
        BY <3>2, <3>8, <4>1
      <4> QED BY <4>5, <4>6, <4>8, <4>9, ReadsAfter
    <3> QED BY <3>5, <3>6, <3>7, <3>8
  <2> QED BY <1>5, <2>1, <2>2, <2>3, <2>4, <2>5, <2>6, <2>7, <2>8, <2>9, <2>10, <2>11 DEF Next, Life, Wait
<1> QED BY <1>4, <1>5

\* The sources accounted for, for every program and every number of sources,
\* starts, crashes and messages: the streams of files, generators and tables
\* are complete and ended once per start if the program waits between its
\* calls (TextFileSource, StreamGenerator, SelectFromTable).  Every message that
\* a source answers for, that is behind its position at the broker and, of an
\* MQTT client, before the last look it takes, is published, waits, or was read
\* and not looked at, and the reads of this kind are at most one per constructor
\* of a Kafka consumer and one per run of a RabbitMQ source.  Nothing follows the
\* EndOfStream of a ZMQ source.
THEOREM SourcesStayAccounted == Spec => []SourcesAccounted
<1>1. SourcesInv /\ ReadsInv => SourcesAccounted
  <2> SUFFICES ASSUME SourcesInv, ReadsInv PROVE SourcesAccounted
    OBVIOUS
  <2>1. StreamsComplete
    <3>1. ASSUME careful, NEW s \in Range(sources), s.kind \in Finite \ {"memory"} PROVE Repeats(s)
      <4>1. PICK i \in DOMAIN sources : sources[i] = s
        BY <3>1 DEF Range
      <4> QED BY <3>1, <4>1, SourcesFacts DEF StreamsOK, StreamOf, Ends
    <3> QED BY ONLY <3>1 DEF StreamsComplete, Repeats, Cycle
  <2>2. MessagesAccounted
    <3>1. ASSUME NEW i \in DOMAIN sources, sources[i].kind \in Brokers
          PROVE  \A m \in sources[i].from + 1 .. Answerable(sources[i]) :
                    m \in Range(sources[i].produced) \cup Range(sources[i].queue) \cup sources[i].discarded
      <4>1. Accounted(sources[i])
        BY <3>1, SourcesFacts DEF BrokersOK, BrokerOf
      <4> QED BY <4>1 DEF Accounted, Due
    <3>2. ASSUME NEW i \in DOMAIN sources, sources[i].kind \in Brokers
          PROVE  Cardinality(sources[i].discarded) <= IgnoredReads(i)
      <4>1. PICK s : s = sources[i]
        OBVIOUS
      <4>2. crashes \in Nat /\ DropsOf(s, runs, i, crashes, PollingAt)
        BY <4>1 DEF ReadsInv, DropsOK
      <4>3. IsFiniteSet(s.discarded) /\ Cardinality(s.discarded) \in Nat
        BY <4>2, FS_CardinalityType DEF DropsOf
      <4>4. CASE s.kind = "kafka"
        <5>1. Cardinality(s.discarded) <= crashes + 1
          BY <4>2, <4>3, <4>4 DEF DropsOf
        <5> QED BY <4>1, <4>4, <5>1 DEF IgnoredReads
      <4>5. CASE s.kind = "rabbitmq"
        <5>1. Cardinality(s.discarded) <= Cardinality(BegunOf(runs, i))
          BY <4>2, <4>5 DEF DropsOf
        <5> QED BY <4>1, <4>5, <5>1 DEF IgnoredReads, Begun, BegunOf
      <4>6. CASE s.kind \notin {"kafka", "rabbitmq"}
        <5>1. Cardinality(s.discarded) = 0
          BY <4>2, <4>6, FS_EmptySet DEF DropsOf
        <5> QED BY <4>1, <4>6, <5>1 DEF IgnoredReads
      <4> QED BY <4>4, <4>5, <4>6
    <3> QED BY ONLY <3>1, <3>2 DEF MessagesAccounted
  <2>3. ZmqEndsStream
    <3> SUFFICES ASSUME careful, NEW i \in DOMAIN sources, sources[i].kind = "zmq" PROVE ZmqOf(sources[i])
      BY DEF ZmqEndsStream, Range, ZmqOf
    <3> QED BY SourcesFacts
  <2> QED BY <2>1, <2>2, <2>3 DEF SourcesAccounted
<1> QED BY <1>1, LifeInit, LifeStep, SourcesInit, SourcesStep, ReadsInit, ReadsStep, PTL DEF Spec

=============================================================================
