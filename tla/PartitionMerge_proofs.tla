----------------------- MODULE PartitionMerge_proofs ------------------------
(***************************************************************************)
(* Theorems about PartitionMerge, for any number of partitions and         *)
(* elements.                                                               *)
(***************************************************************************)
EXTENDS PartitionMerge, FiniteSetTheorems, SequenceTheorems, TLAPS

-----------------------------------------------------------------------------
(***************************************************************************)
(* Type correctness.                                                       *)
(***************************************************************************)

\* A Queue keeps elements as elements, whatever payload it drops.
LEMMA KeptType == \A e \in Elements : Kept(e) \in Elements
  BY BoundAssumption DEF Kept, Elements, Kinds

\* What the source emits is an element, for any partition it goes through.
LEMMA ViaType ==
    ASSUME NEW e \in Elements, NEW p \in Partitions
    PROVE  [e EXCEPT !.via = p] \in Elements
  BY DEF Elements, Queues

LEMMA NoElemType == NoElem \in Elements
  BY BoundAssumption DEF NoElem, Elements, Kinds, Queues

\* A notification turns control states into control states.
LEMMA NotifiedType ==
    ASSUME NEW q \in Queues, NEW S, "pop" \in S, NEW pcs \in [Queues -> S]
    PROVE  Notified(q, pcs) \in [Queues -> S]
  BY DEF Notified

LEMMA PushType ==
    ASSUME TypeOK, NEW q \in Queues, NEW e \in Elements, Push(q, e)
    PROVE  queue_' \in [Queues -> Seq(Elements)]
  <1>1. Kept(e) \in Elements
    BY KeptType
  <1>2. queue_[q] \in Seq(Elements)
    BY DEF TypeOK
  <1>3. Append(queue_[q], Kept(e)) \in Seq(Elements)
    BY <1>1, <1>2
  <1> QED BY <1>3 DEF Push, TypeOK

\* The initial states are of the right types.
LEMMA InitType == Init => TypeOK
  BY NoElemType, BoundAssumption DEF Init, TypeOK, Queues

\* So is every step's result.
LEMMA NextType == TypeOK /\ [Next]_vars => TypeOK'
  <1> SUFFICES ASSUME TypeOK, [Next]_vars
               PROVE  TypeOK'
    OBVIOUS
  <1> USE DEF TypeOK
  <1>1. ASSUME NEW id \in Ids, EmitData(id)
        PROVE  TypeOK'
    <2>1. elem' \in Elements
      BY <1>1, BoundAssumption, SMTT(60) DEF EmitData, NoElem, Elements, Kinds, Queues
    <2>2. emitted' \in 0 .. MaxItems
      BY <1>1, BoundAssumption DEF EmitData
    <2> QED BY <1>1, <2>1, <2>2 DEF EmitData, Find, dtorVars, flagVars, histVars
  <1>2. ASSUME NEW k \in PTypes \cup {"EndOfStream"}, EmitPunctuation(k)
        PROVE  TypeOK'
    <2>2. emitted' \in 0 .. MaxItems
      BY <1>2, BoundAssumption DEF EmitPunctuation
    <2>3. elem' = [kind |-> k, n |-> emitted', via |-> Sink]
      BY <1>2 DEF EmitPunctuation, NoElem
    <2>1. elem' \in Elements
      BY <2>2, <2>3 DEF Elements, Kinds, Queues
    <2> QED BY <1>2, <2>1, <2>2 DEF EmitPunctuation, dtorVars, flagVars, histVars
  <1>3. CASE SourceEnd
    BY <1>3 DEF SourceEnd, dtorVars, flagVars, histVars
  <1>4. ASSUME NEW p \in Partitions, SourcePush(p)
        PROVE  TypeOK'
    <2> DEFINE e == [elem EXCEPT !.via = p]
    <2>1. e \in Elements /\ p \in Queues
      BY ViaType DEF Queues
    <2>2. queue_' \in [Queues -> Seq(Elements)]
      BY <1>4, <2>1, PushType DEF SourcePush
    <2>3. Kept(e) \in Elements
      BY <2>1, KeptType
    <2>4. sent' \in [Partitions -> Seq(Elements)]
      BY <1>4, <2>3 DEF SourcePush
    <2> QED BY <1>4, <2>1, <2>2, <2>4 DEF SourcePush, dtorVars, flagVars
  <1>5. CASE SourceNotify
    <2>1. cpc' \in [Queues -> {"check", "pop", "block", "sleep", "publish",
                               "notify", "ended"}]
      BY <1>5, NotifiedType DEF SourceNotify
    <2>2. spc' \in {"emit", "push", "notify", "ended"}
      BY <1>5 DEF SourceNotify
    <2> QED BY <1>5, <2>1, <2>2 DEF SourceNotify, dtorVars, flagVars, histVars
  <1>6. ASSUME NEW q \in Queues, Check(q)
        PROVE  TypeOK'
    BY <1>6 DEF Check, sourceVars, dtorVars, flagVars, histVars
  <1>7. ASSUME NEW q \in Queues, Pop(q)
        PROVE  TypeOK'
    <2>1. queue_[q] \in Seq(Elements)
      OBVIOUS
    <2>2. CASE Take(q) /\ queue_[q] # <<>>
      <3>1. Head(queue_[q]) \in Elements /\ Tail(queue_[q]) \in Seq(Elements)
        BY <2>1, <2>2
      <3>2. /\ queue_' \in [Queues -> Seq(Elements)]
            /\ tp' \in [Queues -> Elements]
        BY <2>2, <3>1 DEF Take
      <3>3. cpc' \in [Queues -> {"check", "pop", "block", "sleep", "publish",
                                 "notify", "ended"}]
        BY <1>7 DEF Pop
      <3> QED BY <1>7, <3>2, <3>3
            DEF Pop, sourceVars, dtorVars, flagVars, histVars
    <2>3. CASE UNCHANGED <<queue_, tp>>
      BY <1>7, <2>3 DEF Pop, sourceVars, dtorVars, flagVars, histVars
    <2> QED BY <1>7, <2>2, <2>3 DEF Pop
  <1>8. ASSUME NEW q \in Queues, Sleep(q)
        PROVE  TypeOK'
    BY <1>8 DEF Sleep, sourceVars, dtorVars, flagVars, histVars
  <1>9. ASSUME NEW q \in Queues, WakeSpuriously(q)
        PROVE  TypeOK'
    <2>1. spurious' \in 0 .. MaxSpurious
      BY <1>9, BoundAssumption DEF WakeSpuriously
    <2> QED BY <1>9, <2>1
          DEF WakeSpuriously, sourceVars, dtorVars, flagVars, histVars
  <1>10. ASSUME NEW q \in Queues, Interrupt(q)
         PROVE  TypeOK'
    BY <1>10 DEF Interrupt, sourceVars, histVars
  <1>11. ASSUME NEW p \in Partitions, MergePush(p)
         PROVE  TypeOK'
    <2>1. p \in Queues /\ Sink \in Queues
      BY DEF Queues
    <2>2. queue_' \in [Queues -> Seq(Elements)]
      BY <1>11, <2>1, PushType DEF MergePush
    <2> QED BY <1>11, <2>1, <2>2
          DEF MergePush, sourceVars, dtorVars, flagVars, histVars
  <1>12. ASSUME NEW p \in Partitions, MergeNotify(p)
         PROVE  TypeOK'
    <2> DEFINE pcs == [cpc EXCEPT ![p] = "check"]
    <2>1. Sink \in Queues /\ pcs \in [Queues -> {"check", "pop", "block", "sleep",
                                        "publish", "notify", "ended"}]
      BY DEF Queues
    <2>2. cpc' \in [Queues -> {"check", "pop", "block", "sleep", "publish",
                               "notify", "ended"}]
      BY <1>12, <2>1, NotifiedType DEF MergeNotify
    <2> QED BY <1>12, <2>2
          DEF MergeNotify, sourceVars, dtorVars, flagVars, histVars
  <1>13. CASE PublishMerged
    <2>1. tp[Sink] \in Elements
      BY DEF Queues
    <2>2. out' \in Seq(Elements)
      BY <1>13, <2>1 DEF PublishMerged
    <2> QED BY <1>13, <2>2 DEF PublishMerged, sourceVars, dtorVars, flagVars
  <1>14. CASE Stop
    BY <1>14 DEF Stop, sourceVars, histVars
  <1>15. CASE StopNotify
    <2>1. cpc' \in [Queues -> {"check", "pop", "block", "sleep", "publish",
                               "notify", "ended"}]
      BY <1>15, NotifiedType DEF StopNotify
    <2> QED BY <1>15, <2>1 DEF StopNotify, sourceVars, flagVars, histVars
  <1>16. CASE Join
    BY <1>16 DEF Join, sourceVars, flagVars, histVars
  <1>17. CASE UNCHANGED vars
    BY <1>17 DEF vars, sourceVars, dtorVars, flagVars, histVars
  <1> QED
    BY <1>1, <1>2, <1>3, <1>4, <1>5, <1>6, <1>7, <1>8, <1>9, <1>10, <1>11,
       <1>12, <1>13, <1>14, <1>15, <1>16, <1>17
    DEF Next, SourceStep, Consume, Publish, Destroy

\* The queues, the threads of Queue.hpp and the destructors stay in their
\* types; PartitionBy forwards to partitions with a subquery only.
THEOREM TypeCorrect == Spec => []TypeOK
  BY InitType, NextType, PTL DEF Spec

-----------------------------------------------------------------------------
(***************************************************************************)
(* The order of destruction.                                               *)
(***************************************************************************)

\* The threads of destroyed queues have ended, the queue behind Merge dies
\* last, and the queue that is being destroyed is one that may be.
DtorInv ==
    /\ \A q \in dead : cpc[q] = "ended"
    /\ Sink \in dead => Partitions \subseteq dead
    /\ dpc # "idle" => MayDie(dying)

\* A thread that has ended stays ended, also when its queue is notified.
LEMMA EndedStaysEnded ==
    ASSUME TypeOK, Next, NEW q \in Queues, cpc[q] = "ended"
    PROVE  cpc'[q] = "ended"
  <1> USE DEF TypeOK
  <1>1. ASSUME NEW z \in Queues, cpc' = Notified(z, cpc)
        PROVE  cpc'[q] = "ended"
    BY <1>1 DEF Notified
  <1>2. CASE SourceStep
    <2>1. CASE SourceNotify
      BY <1>1, <2>1 DEF SourceNotify
    <2>2. ASSUME NEW p \in Partitions, SourcePush(p)
          PROVE  cpc'[q] = "ended"
      BY <2>2 DEF SourcePush
    <2> QED BY <1>2, <2>1, <2>2 DEF SourceStep
  <1>3. ASSUME NEW z \in Queues, Consume(z) \/ WakeSpuriously(z) \/ Interrupt(z)
        PROVE  cpc'[q] = "ended"
    BY <1>3 DEF Consume, Check, Pop, Sleep, WakeSpuriously, Interrupt
  <1>4. CASE Publish
    <2>1. ASSUME NEW p \in Partitions, MergePush(p)
          PROVE  cpc'[q] = "ended"
      BY <2>1 DEF MergePush, Queues
    <2>2. ASSUME NEW p \in Partitions, MergeNotify(p)
          PROVE  cpc'[q] = "ended"
      BY <2>2 DEF MergeNotify, Notified, Queues
    <2>3. CASE PublishMerged
      BY <2>3 DEF PublishMerged
    <2> QED BY <1>4, <2>1, <2>2, <2>3 DEF Publish
  <1>5. CASE Destroy
    <2>1. CASE StopNotify
      BY <1>1, <2>1 DEF StopNotify
    <2> QED BY <1>5, <2>1 DEF Destroy, Stop, Join
  <1>6. ASSUME NEW id \in Ids, EmitData(id)
        PROVE  cpc'[q] = "ended"
    BY <1>6 DEF EmitData
  <1>7. ASSUME NEW k \in PTypes \cup {"EndOfStream"}, EmitPunctuation(k)
        PROVE  cpc'[q] = "ended"
    BY <1>7 DEF EmitPunctuation
  <1>8. CASE SourceEnd
    BY <1>8 DEF SourceEnd
  <1> QED BY <1>2, <1>3, <1>4, <1>5, <1>6, <1>7, <1>8 DEF Next

\* Only the destructor's thread changes what is being or has been destroyed.
LEMMA DtorFrame ==
    ASSUME Next
    PROVE  \/ \E q \in Queues : Interrupt(q)
           \/ Destroy
           \/ UNCHANGED dtorVars
  <1>1. ASSUME NEW q \in Queues, Consume(q) \/ WakeSpuriously(q)
        PROVE  UNCHANGED dtorVars
    BY <1>1 DEF Consume, Check, Pop, Sleep, WakeSpuriously
  <1>2. ASSUME NEW p \in Partitions,
               SourcePush(p) \/ MergePush(p) \/ MergeNotify(p)
        PROVE  UNCHANGED dtorVars
    BY <1>2 DEF SourcePush, MergePush, MergeNotify
  <1>3. CASE SourceNotify \/ SourceEnd \/ PublishMerged
    BY <1>3 DEF SourceNotify, SourceEnd, PublishMerged
  <1>4. ASSUME NEW id \in Ids, EmitData(id)
        PROVE  UNCHANGED dtorVars
    BY <1>4 DEF EmitData
  <1>5. ASSUME NEW k \in PTypes \cup {"EndOfStream"}, EmitPunctuation(k)
        PROVE  UNCHANGED dtorVars
    BY <1>5 DEF EmitPunctuation
  <1> QED BY <1>1, <1>2, <1>3, <1>4, <1>5 DEF Next, SourceStep, Publish

\* DtorInv is inductive, given the types.
LEMMA NextDtor == TypeOK /\ DtorInv /\ [Next]_vars => DtorInv'
  <1> SUFFICES ASSUME TypeOK, DtorInv, [Next]_vars
               PROVE  DtorInv'
    OBVIOUS
  <1>1. CASE UNCHANGED vars
    BY <1>1 DEF DtorInv, MayDie, vars, dtorVars
  <1>2. CASE Next
    <2>1. \A q \in dead : cpc'[q] = "ended"
      BY <1>2, EndedStaysEnded DEF DtorInv, TypeOK
    <2>2. CASE UNCHANGED dtorVars
      BY <2>1, <2>2 DEF DtorInv, MayDie, dtorVars
    <2>3. ASSUME NEW q \in Queues, Interrupt(q)
          PROVE  DtorInv'
      BY <2>1, <2>3 DEF DtorInv, MayDie, Interrupt
    <2>4. CASE Stop \/ StopNotify
      BY <2>1, <2>4 DEF DtorInv, MayDie, Stop, StopNotify
    <2>5. CASE Join
      BY <2>1, <2>5 DEF DtorInv, MayDie, Join
    <2> QED BY <1>2, <2>2, <2>3, <2>4, <2>5, DtorFrame DEF Destroy
  <1> QED BY <1>1, <1>2

\* No thread runs in, or pushes to, a destroyed Queue, for any number of
\* partitions: ~DequeueNotifier joins its thread, and the dataflow destroys
\* PartitionBy before the queue behind Merge.
THEOREM DestructionIsSafe == Spec => []NoCallIntoDestroyed
  <1>1. Init => DtorInv
    BY DEF Init, DtorInv
  <1>2. DtorInv => NoCallIntoDestroyed
    BY DEF DtorInv, NoCallIntoDestroyed
  <1> QED BY <1>1, <1>2, TypeCorrect, NextDtor, PTL DEF Spec

-----------------------------------------------------------------------------
(***************************************************************************)
(* The elements of one partition.                                          *)
(***************************************************************************)

\* A set of numbers that is not empty has a smallest one.
LEMMA SmallestOne ==
    ASSUME NEW T, T \subseteq Nat, T # {}
    PROVE  \E m \in T : \A n \in T : m <= n
  <1>1. PICK m \in T : \A n \in T : <<n, m>> \notin OpToRel(<, Nat)
    BY NatLessThanWellFounded, WFMin
  <1>2. \A n \in T : ~(n < m)
    BY <1>1 DEF OpToRel
  <1> QED BY <1>2

\* f computes Via(s, p) up to position n.
Computes(s, p, n, f) ==
    /\ f[0] = <<>>
    /\ \A i \in 1 .. n : f[i] = IF s[i].via = p THEN Append(f[i - 1], s[i]) ELSE f[i - 1]

ViaTo(s, p, n, f) == f \in [0 .. n -> Seq(Elements)] /\ Computes(s, p, n, f)

LEMMA ViaToExists ==
    ASSUME NEW s \in Seq(Elements), NEW p, NEW n \in 0 .. Len(s)
    PROVE  \E f : ViaTo(s, p, n, f)
  <1> DEFINE T == {m \in 0 .. Len(s) : ~\E f : ViaTo(s, p, m, f)}
  <1>1. Len(s) \in Nat /\ T \subseteq Nat
    OBVIOUS
  <1>2. SUFFICES ASSUME T # {}
                 PROVE  FALSE
    OBVIOUS
  <1>3. PICK m \in T : \A i \in T : m <= i
    BY <1>1, <1>2, SmallestOne
  <1>4. CASE m = 0
    <2>1. ViaTo(s, p, 0, [i \in 0 .. 0 |-> <<>>])
      <3>1. <<>> \in Seq(Elements)
        OBVIOUS
      <3> QED BY <3>1 DEF ViaTo, Computes
    <2> QED BY <1>4, <2>1
  <1>5. CASE m # 0
    <2>1. m \in 1 .. Len(s) /\ m - 1 \in 0 .. Len(s) /\ m - 1 \notin T
      BY <1>1, <1>3, <1>5
    <2>2. PICK f : ViaTo(s, p, m - 1, f)
      BY <2>1
    <2> DEFINE v == IF s[m].via = p THEN Append(f[m - 1], s[m]) ELSE f[m - 1]
               g == [i \in 0 .. m |-> IF i = m THEN v ELSE f[i]]
    <2>3. f \in [0 .. m - 1 -> Seq(Elements)] /\ f[0] = <<>>
      BY <2>2 DEF ViaTo, Computes
    <2>4. v \in Seq(Elements)
      <3>1. f[m - 1] \in Seq(Elements) /\ s[m] \in Elements
        BY <2>1, <2>3
      <3> QED BY <3>1
    <2>5. g \in [0 .. m -> Seq(Elements)]
      <3> HIDE DEF v
      <3> QED BY <2>1, <2>3, <2>4
    <2>6. ASSUME NEW i \in 1 .. m
          PROVE  g[i] = IF s[i].via = p THEN Append(g[i - 1], s[i]) ELSE g[i - 1]
      <3>1. i - 1 \in 0 .. m - 1 /\ g[i - 1] = f[i - 1]
        BY <2>1
      <3>2. CASE i = m
        BY <3>1, <3>2
      <3>3. CASE i # m
        <4>1. i \in 1 .. m - 1 /\ g[i] = f[i]
          BY <2>1, <3>3
        <4> QED BY <2>2, <3>1, <4>1 DEF ViaTo, Computes
      <3> QED BY <3>2, <3>3
    <2>7. g[0] = <<>>
      BY <1>5, <2>1, <2>3
    <2>8. ViaTo(s, p, m, g)
      <3> HIDE DEF g
      <3> QED BY <2>5, <2>6, <2>7 DEF ViaTo, Computes
    <2> QED BY <2>8
  <1> QED BY <1>4, <1>5

\* What it computes depends on the elements up to there only.
LEMMA ViaToUnique ==
    ASSUME NEW s, NEW t, NEW p, NEW n \in Nat, NEW m \in Nat, n <= m,
           NEW f, Computes(s, p, n, f), NEW g, Computes(t, p, m, g),
           \A i \in 1 .. n : s[i] = t[i]
    PROVE  f[n] = g[n]
  <1> DEFINE T == {i \in 0 .. n : f[i] # g[i]}
  <1>1. SUFFICES ASSUME T # {}
                 PROVE  FALSE
    OBVIOUS
  <1>2. PICK k \in T : \A i \in T : k <= i
    <2>1. T \subseteq Nat
      OBVIOUS
    <2> QED BY <1>1, <2>1, SmallestOne
  <1>3. k # 0
    BY DEF Computes
  <1>4. k \in 1 .. n /\ k \in 1 .. m /\ k - 1 \in 0 .. n /\ k - 1 \notin T
    BY <1>2, <1>3
  <1>5. f[k - 1] = g[k - 1] /\ s[k] = t[k]
    BY <1>4
  <1>6. f[k] = IF s[k].via = p THEN Append(f[k - 1], s[k]) ELSE f[k - 1]
    BY <1>4 DEF Computes
  <1>7. g[k] = IF t[k].via = p THEN Append(g[k - 1], t[k]) ELSE g[k - 1]
    BY <1>4 DEF Computes
  <1> QED BY <1>5, <1>6, <1>7

LEMMA ViaIs ==
    ASSUME NEW s \in Seq(Elements), NEW p
    PROVE  \E f : ViaTo(s, p, Len(s), f) /\ Via(s, p) = f[Len(s)]
  <1> DEFINE Step(f) == [n \in 0 .. Len(s) |->
                            IF n = 0 THEN <<>>
                            ELSE IF s[n].via = p THEN Append(f[n - 1], s[n]) ELSE f[n - 1]]
             v == CHOOSE f : f = Step(f)
  <1>1. Len(s) \in Nat /\ Len(s) \in 0 .. Len(s)
    OBVIOUS
  <1>2. PICK g : ViaTo(s, p, Len(s), g)
    BY <1>1, ViaToExists
  <1>3. g = Step(g)
    <2>1. g \in [0 .. Len(s) -> Seq(Elements)]
      BY <1>2 DEF ViaTo, Computes
    <2>2. ASSUME NEW n \in 0 .. Len(s)
          PROVE  g[n] = Step(g)[n]
      <3>1. CASE n = 0
        BY <1>2, <3>1 DEF ViaTo, Computes
      <3>2. CASE n # 0
        <4>1. n \in 1 .. Len(s)
          BY <1>1, <3>2
        <4> QED BY <1>2, <3>2, <4>1 DEF ViaTo, Computes
      <3> QED BY <3>1, <3>2
    <2>3. g = [n \in 0 .. Len(s) |-> g[n]]
      BY <2>1
    <2> QED BY <2>2, <2>3
  <1>4. v = Step(v)
    BY <1>3
  <1>5. Via(s, p) = v[Len(s)]
    BY DEF Via
  <1> HIDE DEF v
  <1>6. Computes(s, p, Len(s), v)
    <2>1. v[0] = <<>>
      BY <1>1, <1>4
    <2>2. ASSUME NEW i \in 1 .. Len(s)
          PROVE  v[i] = IF s[i].via = p THEN Append(v[i - 1], s[i]) ELSE v[i - 1]
      <3>1. i \in 0 .. Len(s) /\ i # 0
        BY <1>1
      <3> QED BY <1>4, <3>1
    <2> QED BY <2>1, <2>2 DEF Computes
  <1>7. Computes(s, p, Len(s), g)
    BY <1>2 DEF ViaTo
  <1>8. v[Len(s)] = g[Len(s)]
    BY <1>1, <1>6, <1>7, ViaToUnique
  <1> QED BY <1>2, <1>5, <1>8

LEMMA ViaSeq ==
    ASSUME NEW s \in Seq(Elements), NEW p
    PROVE  Via(s, p) \in Seq(Elements)
  <1>1. PICK f : ViaTo(s, p, Len(s), f) /\ Via(s, p) = f[Len(s)]
    BY ViaIs
  <1>2. Len(s) \in 0 .. Len(s)
    OBVIOUS
  <1> QED BY <1>1, <1>2 DEF ViaTo

LEMMA ViaNothing ==
    ASSUME NEW p
    PROVE  Via(<<>>, p) = <<>>
  <1>1. <<>> \in Seq(Elements) /\ Len(<<>>) = 0
    OBVIOUS
  <1>2. PICK f : ViaTo(<<>>, p, 0, f) /\ Via(<<>>, p) = f[0]
    BY <1>1, ViaIs
  <1> QED BY <1>2 DEF ViaTo, Computes

\* One more element is one more for its partition and none for the others.
LEMMA ViaAppend ==
    ASSUME NEW s \in Seq(Elements), NEW e \in Elements, NEW p
    PROVE  Via(Append(s, e), p) = IF e.via = p THEN Append(Via(s, p), e) ELSE Via(s, p)
  <1> DEFINE t == Append(s, e)
             n == Len(s)
  <1>1. /\ t \in Seq(Elements) /\ n \in Nat /\ Len(t) = n + 1 /\ t[n + 1] = e
        /\ \A i \in 1 .. n : s[i] = t[i]
    OBVIOUS
  <1> HIDE DEF t
  <1>2. PICK f : ViaTo(s, p, n, f) /\ Via(s, p) = f[n]
    BY ViaIs
  <1>3. PICK g : ViaTo(t, p, n + 1, g) /\ Via(t, p) = g[n + 1]
    BY <1>1, ViaIs
  <1> HIDE DEF n
  <1>4. f[n] = g[n]
    <2>1. n <= n + 1 /\ n + 1 \in Nat
      BY <1>1
    <2>2. Computes(s, p, n, f) /\ Computes(t, p, n + 1, g)
      BY <1>2, <1>3 DEF ViaTo
    <2>3. \A i \in 1 .. n : s[i] = t[i]
      BY <1>1
    <2>4. n \in Nat
      BY <1>1
    <2> QED BY ONLY <2>1, <2>2, <2>3, <2>4, ViaToUnique
  <1>5. n + 1 \in 1 .. n + 1 /\ (n + 1) - 1 = n
    BY <1>1
  <1>6. g[n + 1] = IF t[n + 1].via = p THEN Append(g[n], t[n + 1]) ELSE g[n]
    BY <1>3, <1>5 DEF ViaTo, Computes
  <1> QED BY <1>1, <1>2, <1>3, <1>4, <1>6 DEF t

-----------------------------------------------------------------------------
(***************************************************************************)
(* The order of the merged stream.                                         *)
(***************************************************************************)

\* What is still on the way through partition p.
Flow(p) == Held(p) \o queue_[p]

\* It went through p, and a Queue has kept it before.
FlowInv ==
    \A p \in Partitions : \A i \in 1 .. Len(Flow(p)) :
        Flow(p)[i].via = p /\ Kept(Flow(p)[i]) = Flow(p)[i]

\* PartitionBy has forwarded EndOfStream to p, and forwards nothing else.
Pushed(p) ==
    elem.kind = "EndOfStream" /\ p \notin targets /\ spc \in {"push", "notify", "ended"}

\* EndOfStream is the last of its partition, wherever it is: on the way to
\* Merge, against what is still on the way, and behind Merge.
EndQueued ==
    \A p \in Partitions : \A i \in 1 .. Len(Flow(p)) :
        Flow(p)[i].kind = "EndOfStream" => i = Len(Flow(p)) /\ Pushed(p)
EndMerged ==
    \A i \in 1 .. Len(Merged) :
        /\ Merged[i].via \in Partitions
        /\ Merged[i].kind = "EndOfStream" => /\ Flow(Merged[i].via) = <<>>
                                             /\ Pushed(Merged[i].via)
EndLast ==
    \A i, j \in 1 .. Len(Merged) :
        i < j /\ Merged[i].via = Merged[j].via => Merged[i].kind # "EndOfStream"
EndsInv == EndQueued /\ EndMerged /\ EndLast

FlowOrder == \A p \in Partitions : sent[p] = Via(Merged, p) \o Flow(p)

OrderInv == FlowOrder /\ FlowInv /\ EndsInv

LEMMA FlowType ==
    ASSUME TypeOK
    PROVE  /\ Sink \in Queues /\ Partitions \subseteq Queues /\ Sink \notin Partitions
           /\ \A q \in Queues : Held(q) \in Seq(Elements) /\ queue_[q] \in Seq(Elements)
           /\ \A p \in Partitions : Flow(p) \in Seq(Elements)
           /\ Merged \in Seq(Elements) /\ out \o Held(Sink) \in Seq(Elements) /\ out \in Seq(Elements)
  <1>1. Sink \in Queues /\ Partitions \subseteq Queues /\ Sink \notin Partitions
    BY SinkAssumption DEF Queues
  <1>2. \A q \in Queues : tp[q] \in Elements /\ queue_[q] \in Seq(Elements)
    BY DEF TypeOK
  <1>3. \A q \in Queues : Held(q) \in Seq(Elements)
    <2>1. ASSUME NEW q \in Queues
          PROVE  <<tp[q]>> \in Seq(Elements) /\ <<>> \in Seq(Elements)
      BY <1>2
    <2> QED BY <2>1 DEF Held
  <1>4. out \in Seq(Elements)
    BY DEF TypeOK
  <1>5. out \o Held(Sink) \in Seq(Elements)
    BY <1>1, <1>3, <1>4, ConcatProperties
  <1>6. Merged \in Seq(Elements)
    BY <1>1, <1>2, <1>5, ConcatProperties DEF Merged
  <1>7. \A p \in Partitions : Flow(p) \in Seq(Elements)
    BY <1>1, <1>2, <1>3, ConcatProperties DEF Flow
  <1> QED BY <1>1, <1>2, <1>3, <1>4, <1>5, <1>6, <1>7

\* Nothing moves when no thread takes or publishes an element.
LEMMA FlowSame ==
    ASSUME UNCHANGED <<queue_, tp, out>>,
           \A q \in Queues : cpc'[q] = "publish" <=> cpc[q] = "publish"
    PROVE  Merged' = Merged /\ \A p \in Partitions : Flow(p)' = Flow(p)
  <1>1. \A q \in Queues : Held(q)' = Held(q)
    BY DEF Held
  <1>2. Sink \in Queues /\ Partitions \subseteq Queues
    BY DEF Queues
  <1> QED BY <1>1, <1>2 DEF Merged, Flow

LEMMA Associative ==
    ASSUME NEW a \in Seq(Elements), NEW b \in Seq(Elements), NEW c \in Seq(Elements)
    PROVE  (a \o b) \o c = a \o (b \o c)
  BY ONLY a \in Seq(Elements), b \in Seq(Elements), c \in Seq(Elements), ConcatAssociative

LEMMA NotifiedFlow ==
    ASSUME NEW z \in Queues, NEW S, NEW pcs \in [Queues -> S], NEW q \in Queues
    PROVE  Notified(z, pcs)[q] = "publish" <=> pcs[q] = "publish"
  BY DEF Notified

\* The source's thread, except when it pushes, and the destructors.
LEMMA SourceFlow ==
    ASSUME TypeOK,
           \/ \E id \in Ids : EmitData(id)
           \/ \E k \in PTypes \cup {"EndOfStream"} : EmitPunctuation(k)
           \/ SourceEnd \/ SourceNotify \/ Destroy
           \/ \E q \in Queues : Interrupt(q)
           \/ UNCHANGED vars
    PROVE  sent' = sent /\ Merged' = Merged /\ \A p \in Partitions : Flow(p)' = Flow(p)
  <1>1. UNCHANGED <<queue_, tp, out, sent>>
    BY DEF EmitData, EmitPunctuation, SourceEnd, SourceNotify, Destroy, Stop, StopNotify, Join,
           Interrupt, vars, histVars
  <1>2. cpc' = cpc \/ \E z \in Queues : cpc' = Notified(z, cpc)
    BY DEF TypeOK, EmitData, EmitPunctuation, SourceEnd, SourceNotify, Destroy, Stop, StopNotify, Join,
           Interrupt, vars
  <1>3. \A q \in Queues : cpc'[q] = "publish" <=> cpc[q] = "publish"
    <2>1. CASE cpc' = cpc
      BY <2>1
    <2>2. ASSUME NEW z \in Queues, cpc' = Notified(z, cpc), NEW q \in Queues
          PROVE  cpc'[q] = "publish" <=> cpc[q] = "publish"
      <3>1. PICK S : cpc \in [Queues -> S]
        BY DEF TypeOK
      <3>2. Notified(z, cpc)[q] = "publish" <=> cpc[q] = "publish"
        BY ONLY <3>1, z \in Queues, q \in Queues, NotifiedFlow
      <3> QED BY <2>2, <3>2
    <2> QED BY <1>2, <2>1, <2>2
  <1> QED BY <1>1, <1>3, FlowSame

\* A Queue's thread that takes the first element holds it in front of the rest.
LEMMA ConsumeFlow ==
    ASSUME TypeOK, NEW q \in Queues, Consume(q) \/ WakeSpuriously(q)
    PROVE  sent' = sent /\ Merged' = Merged /\ \A p \in Partitions : Flow(p)' = Flow(p)
  <1>1. CASE Check(q) \/ Sleep(q) \/ WakeSpuriously(q) \/ (Pop(q) /\ UNCHANGED <<queue_, tp>>)
    <2>1. UNCHANGED <<queue_, tp, out, sent>>
      BY <1>1 DEF Check, Sleep, WakeSpuriously, Pop, histVars
    <2>2. \A z \in Queues : cpc'[z] = "publish" <=> cpc[z] = "publish"
      <3>1. cpc[q] # "publish"
        BY <1>1 DEF Check, Sleep, WakeSpuriously, Pop
      <3>2. \E w \in {"check", "pop", "block", "sleep", "ended"} : cpc' = [cpc EXCEPT ![q] = w]
        <4>1. CASE Check(q) \/ Sleep(q) \/ WakeSpuriously(q)
          BY <4>1 DEF Check, Sleep, WakeSpuriously
        <4>2. CASE Pop(q) /\ UNCHANGED <<queue_, tp>>
          <5>1. CASE Take(q) /\ queue_[q] # <<>>
            <6>1. queue_[q] \in Seq(Elements) /\ queue_'[q] = Tail(queue_[q])
              BY <5>1 DEF Take, TypeOK
            <6>2. Len(Tail(queue_[q])) # Len(queue_[q])
              BY <5>1, <6>1
            <6> QED BY <4>2, <6>1, <6>2
          <5> QED BY <4>2, <5>1 DEF Pop
        <4> QED BY <1>1, <4>1, <4>2
      <3> QED BY <3>1, <3>2 DEF TypeOK
    <2> QED BY <2>1, <2>2, FlowSame
  <1>2. CASE Pop(q) /\ Take(q) /\ queue_[q] # <<>> /\ cpc' = [cpc EXCEPT ![q] = "publish"]
    <2> DEFINE s == queue_[q]
    <2>1. /\ sent' = sent /\ out' = out /\ cpc[q] = "pop"
          /\ tp' = [tp EXCEPT ![q] = Head(s)] /\ queue_' = [queue_ EXCEPT ![q] = Tail(s)]
      BY <1>2 DEF Pop, Take, histVars
    <2>2. /\ \A z \in Queues : z # q => Held(z)' = Held(z) /\ queue_'[z] = queue_[z]
          /\ Held(q) = <<>> /\ Held(q)' = <<Head(s)>> /\ queue_'[q] = Tail(s)
      BY <1>2, <2>1 DEF Held, TypeOK
    <2>3. s \in Seq(Elements) /\ s # <<>>
      BY <1>2 DEF TypeOK
    <2> HIDE DEF s
    <2>4. <<Head(s)>> \o Tail(s) = s
      <3> DEFINE u == <<Head(s)>> \o Tail(s)
      <3>1. Head(s) \in Elements /\ Tail(s) \in Seq(Elements) /\ Head(s) = s[1]
        BY <2>3
      <3>2. <<Head(s)>> \in Seq(Elements) /\ Len(<<Head(s)>>) = 1 /\ <<Head(s)>>[1] = Head(s)
        BY <3>1
      <3>3. Len(s) \in Nat /\ Len(s) >= 1 /\ Len(Tail(s)) = Len(s) - 1
            /\ \A i \in 1 .. Len(s) - 1 : Tail(s)[i] = s[i + 1]
        BY <2>3
      <3>4. /\ u \in Seq(Elements) /\ Len(u) = Len(s)
            /\ \A i \in 1 .. Len(s) : u[i] = IF i <= 1 THEN <<Head(s)>>[i] ELSE Tail(s)[i - 1]
        BY <3>1, <3>2, <3>3, ConcatProperties
      <3>5. \A i \in 1 .. Len(u) : u[i] = s[i]
        BY <3>1, <3>2, <3>3, <3>4
      <3> QED BY <2>3, <3>4, <3>5, SeqEqual
    <2>5. Held(q)' \o queue_'[q] = Held(q) \o queue_[q]
      <3>1. <<>> \o s = s
        BY <2>3, ConcatEmptySeq
      <3> QED BY <2>2, <2>4, <3>1 DEF s
    <2>6. \A p \in Partitions : Flow(p)' = Flow(p)
      BY <2>2, <2>5, FlowType DEF Flow
    <2>7. Merged' = Merged
      <3>1. CASE q # Sink
        BY <2>1, <2>2, <3>1, FlowType DEF Merged
      <3>2. CASE q = Sink
        <4>1. Merged = out \o (Held(Sink) \o queue_[Sink])
          <5>1. out \in Seq(Elements) /\ Held(Sink) \in Seq(Elements) /\ queue_[Sink] \in Seq(Elements)
            BY FlowType
          <5> QED BY <5>1, Associative DEF Merged
        <4>2. Held(Sink)' \in Seq(Elements) /\ queue_'[Sink] \in Seq(Elements)
          <5>1. Head(s) \in Elements /\ Tail(s) \in Seq(Elements)
            BY <2>3
          <5>2. <<Head(s)>> \in Seq(Elements)
            BY <5>1
          <5> QED BY <2>2, <3>2, <5>1, <5>2
        <4>3. Merged' = out \o (Held(Sink)' \o queue_'[Sink])
          <5>1. Merged' = (out \o Held(Sink)') \o queue_'[Sink]
            BY <2>1 DEF Merged
          <5>2. out \in Seq(Elements)
            BY FlowType
          <5> QED BY <4>2, <5>1, <5>2, Associative
        <4> QED BY <2>5, <3>2, <4>1, <4>3
      <3> QED BY <3>1, <3>2
    <2> QED BY <2>1, <2>6, <2>7
  <1> QED BY <1>1, <1>2 DEF Consume, Pop

\* Merge's notification wakes a thread up, and the last Queue publishes the
\* element that its thread holds.
LEMMA PublishFlow ==
    ASSUME TypeOK, (\E p \in Partitions : MergeNotify(p)) \/ PublishMerged
    PROVE  /\ UNCHANGED <<sourceVars, sent>>
           /\ Merged' = Merged /\ \A p \in Partitions : Flow(p)' = Flow(p)
  <1>1. ASSUME NEW p \in Partitions, MergeNotify(p)
        PROVE  /\ UNCHANGED <<sourceVars, sent>>
               /\ Merged' = Merged /\ \A r \in Partitions : Flow(r)' = Flow(r)
    <2>1. UNCHANGED <<queue_, tp, out, sent, sourceVars>>
      BY <1>1 DEF MergeNotify, histVars
    <2> DEFINE pcs == [cpc EXCEPT ![p] = "check"]
    <2>2. p \in Queues /\ Sink \in Queues
      BY DEF Queues
    <2>3. PICK S : pcs \in [Queues -> S]
      BY <2>2 DEF TypeOK
    <2>4. \A q \in Queues : pcs[q] = "publish" <=> cpc[q] = "publish"
      BY <1>1 DEF MergeNotify, TypeOK
    <2>5. cpc' = Notified(Sink, pcs)
      BY <1>1 DEF MergeNotify
    <2> HIDE DEF pcs
    <2>6. ASSUME NEW q \in Queues
          PROVE  cpc'[q] = "publish" <=> cpc[q] = "publish"
      <3>1. Notified(Sink, pcs)[q] = "publish" <=> pcs[q] = "publish"
        BY ONLY <2>2, <2>3, q \in Queues, NotifiedFlow
      <3> QED BY <2>4, <2>5, <3>1
    <2> QED BY <2>1, <2>6, FlowSame
  <1>2. CASE PublishMerged
    <2>1. /\ UNCHANGED <<sourceVars, sent, queue_, tp>> /\ cpc[Sink] = "publish"
          /\ out' = Append(out, tp[Sink]) /\ cpc' = [cpc EXCEPT ![Sink] = "check"]
      BY <1>2 DEF PublishMerged
    <2>2. Sink \in Queues /\ tp[Sink] \in Elements /\ out \in Seq(Elements) /\ queue_[Sink] \in Seq(Elements)
      BY DEF TypeOK, Queues
    <2>3. /\ Held(Sink) = <<tp[Sink]>> /\ Held(Sink)' = <<>>
          /\ \A q \in Queues : q # Sink => Held(q)' = Held(q)
      BY <2>1, <2>2 DEF Held, TypeOK
    <2>4. Append(out, tp[Sink]) = out \o <<tp[Sink]>> /\ Append(out, tp[Sink]) \in Seq(Elements)
      BY <2>2, AppendIsConcat, AppendProperties
    <2>5. Append(out, tp[Sink]) \o <<>> = Append(out, tp[Sink])
      BY <2>4, ConcatEmptySeq
    <2>6. Merged' = Merged
      BY <2>1, <2>3, <2>4, <2>5 DEF Merged
    <2>7. \A p \in Partitions : Flow(p)' = Flow(p)
      BY <2>1, <2>3, SinkAssumption DEF Flow, Queues
    <2> QED BY <2>1, <2>6, <2>7
  <1> QED BY <1>1, <1>2

LEMMA AppendBehind ==
    ASSUME NEW s \in Seq(Elements), NEW t \in Seq(Elements), NEW e \in Elements
    PROVE  s \o Append(t, e) = Append(s \o t, e)
  <1>1. Append(t, e) = t \o <<e>> /\ <<e>> \in Seq(Elements)
    BY AppendIsConcat
  <1>2. s \o t \in Seq(Elements)
    BY ConcatProperties
  <1>3. Append(s \o t, e) = (s \o t) \o <<e>>
    BY <1>2, AppendIsConcat
  <1> QED BY <1>1, <1>3, Associative

\* A Queue keeps partition and kind, and what it has kept, as they are.
LEMMA KeptAgain ==
    \A x \in Elements :
        /\ Kept(x) \in Elements /\ Kept(Kept(x)) = Kept(x)
        /\ Kept(x).via = x.via /\ Kept(x).kind = x.kind
  <1> TAKE x \in Elements
  <1>1. MaxItems \in Nat /\ 0 \in 0 .. MaxItems
    BY BoundAssumption
  <1>2. CASE x.kind = "data"
    <2>1. Kept(x) = x
      BY <1>2 DEF Kept
    <2> QED BY <2>1
  <1>3. CASE x.kind # "data"
    <2> DEFINE k == [x EXCEPT !.n = 0]
    <2>1. k \in Elements /\ k.via = x.via /\ k.kind = x.kind /\ k.n = 0
      BY <1>1 DEF Elements
    <2>2. [k EXCEPT !.n = 0] = k
      BY <2>1 DEF Elements
    <2>3. Kept(x) = k
      BY <1>3 DEF Kept
    <2> HIDE DEF k
    <2>4. Kept(k) = k
      BY <1>3, <2>1, <2>2 DEF Kept
    <2> QED BY <2>1, <2>3, <2>4
  <1> QED BY <1>2, <1>3

\* PartitionBy appends to the flow of one partition.
LEMMA SourcePushFlow ==
    ASSUME TypeOK, NEW p \in Partitions, SourcePush(p)
    PROVE  \E e \in Elements :
              /\ Kept(e) = e /\ e.via = p /\ e.kind = elem.kind
              /\ Flow(p)' = Append(Flow(p), e)
              /\ sent' = [sent EXCEPT ![p] = Append(sent[p], e)]
              /\ Merged' = Merged
              /\ \A r \in Partitions \ {p} : Flow(r)' = Flow(r)
  <1> DEFINE d == [elem EXCEPT !.via = p]
             e == Kept(d)
  <1>1. p \in Queues /\ Sink \in Queues /\ p # Sink
    BY SinkAssumption DEF Queues
  <1>2. d \in Elements /\ d.via = p /\ d.kind = elem.kind
    <2>1. elem \in Elements
      BY DEF TypeOK
    <2> QED BY <1>1, <2>1 DEF Elements
  <1>3. /\ queue_' = [queue_ EXCEPT ![p] = Append(queue_[p], e)]
        /\ sent' = [sent EXCEPT ![p] = Append(sent[p], e)]
        /\ UNCHANGED <<tp, cpc, out>>
    BY DEF SourcePush, Push
  <1> HIDE DEF d
  <1>4. e \in Elements /\ Kept(e) = e /\ e.via = p /\ e.kind = elem.kind
    BY <1>2, KeptAgain
  <1> HIDE DEF e
  <1>5. \A q \in Queues : Held(q)' = Held(q)
    BY <1>3 DEF Held
  <1>6. queue_'[p] = Append(queue_[p], e) /\ \A q \in Queues \ {p} : queue_'[q] = queue_[q]
    BY <1>1, <1>3 DEF TypeOK
  <1>7. Flow(p)' = Append(Flow(p), e)
    <2>1. Held(p) \in Seq(Elements) /\ queue_[p] \in Seq(Elements)
      BY <1>1, FlowType
    <2>2. Held(p)' = Held(p) /\ queue_'[p] = Append(queue_[p], e) /\ e \in Elements
      BY <1>1, <1>4, <1>5, <1>6
    <2>3. Held(p) \o Append(queue_[p], e) = Append(Held(p) \o queue_[p], e)
      BY ONLY <2>1, <2>2, AppendBehind
    <2> QED BY ONLY <2>2, <2>3 DEF Flow
  <1>8. Merged' = Merged
    BY <1>1, <1>3, <1>5, <1>6 DEF Merged
  <1>9. \A r \in Partitions \ {p} : Flow(r)' = Flow(r)
    BY <1>5, <1>6 DEF Flow, Queues
  <1> QED BY <1>3, <1>4, <1>7, <1>8, <1>9

\* Merge appends the first of a partition's flow to the merged stream.
LEMMA MergePushFlow ==
    ASSUME TypeOK, NEW p \in Partitions, MergePush(p)
    PROVE  \E e \in Elements :
              /\ Flow(p) = <<e>> \o Flow(p)' /\ Flow(p)' \in Seq(Elements)
              /\ Merged' = Append(Merged, Kept(e))
              /\ UNCHANGED <<sourceVars, sent>>
              /\ \A r \in Partitions \ {p} : Flow(r)' = Flow(r)
  <1> DEFINE e == tp[p]
  <1>1. p \in Queues /\ Sink \in Queues /\ p # Sink
    BY SinkAssumption DEF Queues
  <1>2. /\ queue_' = [queue_ EXCEPT ![Sink] = Append(queue_[Sink], Kept(e))]
        /\ cpc[p] = "publish" /\ cpc' = [cpc EXCEPT ![p] = "notify"]
        /\ UNCHANGED <<sourceVars, tp, out, sent>>
    BY DEF MergePush, Push, histVars
  <1>3. e \in Elements /\ Kept(e) \in Elements
    <2>1. e \in Elements
      BY <1>1 DEF TypeOK
    <2> QED BY <2>1, KeptAgain
  <1>4. /\ Held(p) = <<e>> /\ Held(p)' = <<>>
        /\ \A q \in Queues \ {p} : Held(q)' = Held(q)
    BY <1>1, <1>2 DEF Held, TypeOK
  <1>5. /\ queue_'[Sink] = Append(queue_[Sink], Kept(e))
        /\ \A q \in Queues \ {Sink} : queue_'[q] = queue_[q]
    BY <1>1, <1>2 DEF TypeOK
  <1> HIDE DEF e
  <1>6. /\ queue_[p] \in Seq(Elements) /\ queue_[Sink] \in Seq(Elements)
        /\ out \o Held(Sink) \in Seq(Elements)
    BY <1>1, FlowType
  <1>7. Flow(p)' = queue_[p]
    <2>1. <<>> \o queue_[p] = queue_[p]
      BY <1>6, ConcatEmptySeq
    <2> QED BY <1>1, <1>4, <1>5, <2>1 DEF Flow
  <1>8. Flow(p) = <<e>> \o queue_[p]
    BY <1>4 DEF Flow
  <1>9. Merged' = Append(Merged, Kept(e))
    <2>1. Merged' = (out \o Held(Sink)) \o Append(queue_[Sink], Kept(e))
      BY <1>1, <1>2, <1>4, <1>5 DEF Merged
    <2> QED BY <1>3, <1>6, <2>1, AppendBehind DEF Merged
  <1>10. \A r \in Partitions \ {p} : Flow(r)' = Flow(r)
    BY <1>1, <1>4, <1>5, SinkAssumption DEF Flow, Queues
  <1> QED BY <1>2, <1>3, <1>6, <1>7, <1>8, <1>9, <1>10

\* What a step may do to the streams: leave them alone, or push one element.
LEMMA FlowSteps ==
    ASSUME TypeOK, [Next]_vars
    PROVE  \/ sent' = sent /\ Merged' = Merged /\ \A p \in Partitions : Flow(p)' = Flow(p)
           \/ \E p \in Partitions : SourcePush(p) \/ MergePush(p)
  <1>1. ASSUME NEW q \in Queues, Consume(q) \/ WakeSpuriously(q)
        PROVE  sent' = sent /\ Merged' = Merged /\ \A p \in Partitions : Flow(p)' = Flow(p)
    BY <1>1, ConsumeFlow
  <1>2. CASE (\E p \in Partitions : MergeNotify(p)) \/ PublishMerged
    BY <1>2, PublishFlow
  <1>3. CASE \/ \E id \in Ids : EmitData(id)
             \/ \E k \in PTypes \cup {"EndOfStream"} : EmitPunctuation(k)
             \/ SourceEnd \/ SourceNotify \/ Destroy
             \/ \E q \in Queues : Interrupt(q)
             \/ UNCHANGED vars
    BY <1>3, SourceFlow
  <1> QED BY <1>1, <1>2, <1>3 DEF Next, SourceStep, Publish

\* What PartitionBy has ended stays ended.
LEMMA PushedStays ==
    ASSUME TypeOK, [Next]_vars, NEW p \in Partitions, Pushed(p)
    PROVE  Pushed(p)'
  <1>1. CASE UNCHANGED sourceVars
    BY <1>1 DEF Pushed, sourceVars
  <1>2. ASSUME NEW r \in Partitions, SourcePush(r)
        PROVE  Pushed(p)'
    BY <1>2 DEF Pushed, SourcePush
  <1>3. CASE SourceNotify
    BY <1>3 DEF Pushed, SourceNotify
  <1>4. CASE \/ \E id \in Ids : EmitData(id)
             \/ \E k \in PTypes \cup {"EndOfStream"} : EmitPunctuation(k)
             \/ SourceEnd
    BY <1>4 DEF Pushed, EmitData, EmitPunctuation, SourceEnd
  <1>5. ASSUME NEW q \in Queues, Consume(q) \/ WakeSpuriously(q) \/ Interrupt(q)
        PROVE  UNCHANGED sourceVars
    BY <1>5 DEF Consume, Check, Pop, Sleep, WakeSpuriously, Interrupt
  <1>6. CASE Publish \/ Destroy \/ UNCHANGED vars
    BY <1>1, <1>6 DEF Publish, MergePush, MergeNotify, PublishMerged, Destroy, Stop, StopNotify, Join, vars
  <1> QED BY <1>1, <1>2, <1>3, <1>4, <1>5, <1>6 DEF Next, SourceStep

\* Appending an element to a sequence.
LEMMA AppendAt ==
    ASSUME NEW s \in Seq(Elements), NEW e \in Elements, NEW i \in 1 .. Len(Append(s, e))
    PROVE  \/ i \in 1 .. Len(s) /\ Append(s, e)[i] = s[i]
           \/ i = Len(s) + 1 /\ Append(s, e)[i] = e
  <1>1. /\ Len(Append(s, e)) = Len(s) + 1 /\ Append(s, e)[Len(s) + 1] = e
        /\ \A j \in 1 .. Len(s) : Append(s, e)[j] = s[j]
    BY AppendProperties
  <1>2. Len(s) \in Nat
    OBVIOUS
  <1>3. i \in 1 .. Len(s) \/ i = Len(s) + 1
    BY <1>1, <1>2
  <1> QED BY <1>1, <1>3

\* Taking the first element off a sequence.
LEMMA TakeFirst ==
    ASSUME NEW e \in Elements, NEW t \in Seq(Elements), NEW s, s = <<e>> \o t
    PROVE  /\ Len(s) = Len(t) + 1 /\ s[1] = e
           /\ \A i \in 1 .. Len(t) : i + 1 \in 1 .. Len(s) /\ s[i + 1] = t[i]
  <1>1. <<e>> \in Seq(Elements) /\ Len(<<e>>) = 1 /\ <<e>>[1] = e
    OBVIOUS
  <1>2. /\ Len(s) = 1 + Len(t)
        /\ \A i \in 1 .. 1 + Len(t) : s[i] = IF i <= 1 THEN <<e>>[i] ELSE t[i - 1]
    BY <1>1, ConcatProperties
  <1>3. Len(t) \in Nat
    OBVIOUS
  <1>4. s[1] = e
    BY <1>1, <1>2, <1>3
  <1>5. ASSUME NEW i \in 1 .. Len(t)
        PROVE  i + 1 \in 1 .. Len(s) /\ s[i + 1] = t[i]
    <2>1. i + 1 \in 1 .. 1 + Len(t) /\ ~(i + 1 <= 1) /\ (i + 1) - 1 = i
      BY <1>3
    <2> QED BY <1>2, <2>1
  <1> QED BY <1>2, <1>3, <1>4, <1>5

\* The first of a flow moves to the end of the merged stream as it is.
LEMMA MergePushMoves ==
    ASSUME TypeOK, FlowInv, NEW p \in Partitions, MergePush(p)
    PROVE  \E e \in Elements :
              /\ e.via = p
              /\ Flow(p) = <<e>> \o Flow(p)' /\ Flow(p)' \in Seq(Elements)
              /\ Merged' = Append(Merged, e)
              /\ UNCHANGED <<sourceVars, sent>>
              /\ \A r \in Partitions \ {p} : Flow(r)' = Flow(r)
  <1>1. PICK e \in Elements :
              /\ Flow(p) = <<e>> \o Flow(p)' /\ Flow(p)' \in Seq(Elements)
              /\ Merged' = Append(Merged, Kept(e))
              /\ UNCHANGED <<sourceVars, sent>>
              /\ \A r \in Partitions \ {p} : Flow(r)' = Flow(r)
    BY MergePushFlow
  <1>2. PICK t \in Seq(Elements) : t = Flow(p)'
    BY <1>1
  <1>3. PICK s : s = Flow(p)
    OBVIOUS
  <1>4. Len(s) = Len(t) + 1 /\ s[1] = e
    BY <1>1, <1>2, <1>3, TakeFirst
  <1>5. 1 \in 1 .. Len(s)
    BY <1>2, <1>4
  <1>6. e.via = p /\ Kept(e) = e
    BY <1>3, <1>4, <1>5 DEF FlowInv
  <1> QED BY <1>1, <1>6

LEMMA NextFlowInv ==
    ASSUME TypeOK, FlowInv, [Next]_vars
    PROVE  FlowInv'
  <1>1. CASE \A p \in Partitions : Flow(p)' = Flow(p)
    BY <1>1 DEF FlowInv
  <1>2. ASSUME NEW p \in Partitions, SourcePush(p)
        PROVE  FlowInv'
    <2>1. PICK e \in Elements :
              /\ Kept(e) = e /\ e.via = p /\ e.kind = elem.kind
              /\ Flow(p)' = Append(Flow(p), e)
              /\ sent' = [sent EXCEPT ![p] = Append(sent[p], e)]
              /\ Merged' = Merged
              /\ \A r \in Partitions \ {p} : Flow(r)' = Flow(r)
      BY <1>2, SourcePushFlow
    <2>2. PICK s \in Seq(Elements) : s = Flow(p)
      BY FlowType
    <2>3. \A i \in 1 .. Len(s) : s[i].via = p /\ Kept(s[i]) = s[i]
      BY <2>2 DEF FlowInv
    <2>4. ASSUME NEW i \in 1 .. Len(Append(s, e))
          PROVE  Append(s, e)[i].via = p /\ Kept(Append(s, e)[i]) = Append(s, e)[i]
      <3>1. \/ i \in 1 .. Len(s) /\ Append(s, e)[i] = s[i]
            \/ i = Len(s) + 1 /\ Append(s, e)[i] = e
        BY AppendAt
      <3> QED BY <2>1, <2>3, <3>1
    <2>5. Flow(p)' = Append(s, e)
      BY <2>1, <2>2
    <2>6. ASSUME NEW r \in Partitions, NEW i \in 1 .. Len(Flow(r)')
          PROVE  Flow(r)'[i].via = r /\ Kept(Flow(r)'[i]) = Flow(r)'[i]
      <3>1. CASE r = p
        BY <2>4, <2>5, <3>1
      <3>2. CASE r # p
        BY <2>1, <3>2 DEF FlowInv
      <3> QED BY <3>1, <3>2
    <2> QED BY <2>6 DEF FlowInv
  <1>3. ASSUME NEW p \in Partitions, MergePush(p)
        PROVE  FlowInv'
    <2>1. PICK e \in Elements :
              /\ e.via = p
              /\ Flow(p) = <<e>> \o Flow(p)' /\ Flow(p)' \in Seq(Elements)
              /\ Merged' = Append(Merged, e)
              /\ UNCHANGED <<sourceVars, sent>>
              /\ \A r \in Partitions \ {p} : Flow(r)' = Flow(r)
      BY <1>3, MergePushMoves
    <2>2. PICK t \in Seq(Elements) : t = Flow(p)'
      BY <2>1
    <2>3. PICK s : s = Flow(p)
      OBVIOUS
    <2>4. \A i \in 1 .. Len(t) : i + 1 \in 1 .. Len(s) /\ s[i + 1] = t[i]
      BY <2>1, <2>2, <2>3, TakeFirst
    <2>5. \A i \in 1 .. Len(s) : s[i].via = p /\ Kept(s[i]) = s[i]
      BY <2>3 DEF FlowInv
    <2>6. \A i \in 1 .. Len(t) : t[i].via = p /\ Kept(t[i]) = t[i]
      BY <2>4, <2>5
    <2>7. ASSUME NEW r \in Partitions, NEW i \in 1 .. Len(Flow(r)')
          PROVE  Flow(r)'[i].via = r /\ Kept(Flow(r)'[i]) = Flow(r)'[i]
      <3>1. CASE r = p
        BY <2>2, <2>6, <3>1
      <3>2. CASE r # p
        BY <2>1, <3>2 DEF FlowInv
      <3> QED BY <3>1, <3>2
    <2> QED BY <2>7 DEF FlowInv
  <1> QED BY <1>1, <1>2, <1>3, FlowSteps

\* No element is lost, doubled or overtaken by a step.
LEMMA NextFlowOrder ==
    ASSUME TypeOK, FlowInv, FlowOrder, [Next]_vars
    PROVE  FlowOrder'
  <1>1. CASE sent' = sent /\ Merged' = Merged /\ \A p \in Partitions : Flow(p)' = Flow(p)
    BY <1>1 DEF FlowOrder
  <1>2. ASSUME NEW p \in Partitions, SourcePush(p)
        PROVE  FlowOrder'
    <2>1. PICK e \in Elements :
              /\ Kept(e) = e /\ e.via = p /\ e.kind = elem.kind
              /\ Flow(p)' = Append(Flow(p), e)
              /\ sent' = [sent EXCEPT ![p] = Append(sent[p], e)]
              /\ Merged' = Merged
              /\ \A r \in Partitions \ {p} : Flow(r)' = Flow(r)
      BY <1>2, SourcePushFlow
    <2>2. \A r \in Partitions : sent'[r] = IF r = p THEN Append(sent[p], e) ELSE sent[r]
      BY <2>1 DEF TypeOK
    <2>3. Append(sent[p], e) = Via(Merged, p) \o Append(Flow(p), e)
      <3>1. Merged \in Seq(Elements) /\ Flow(p) \in Seq(Elements)
        BY FlowType
      <3>2. Via(Merged, p) \in Seq(Elements)
        BY <3>1, ViaSeq
      <3>3. Via(Merged, p) \o Append(Flow(p), e) = Append(Via(Merged, p) \o Flow(p), e)
        BY <3>1, <3>2, AppendBehind
      <3> QED BY <3>3 DEF FlowOrder
    <2>4. ASSUME NEW r \in Partitions
          PROVE  sent'[r] = Via(Merged, r) \o Flow(r)'
      <3>1. CASE r = p
        BY <2>1, <2>2, <2>3, <3>1
      <3>2. CASE r # p
        BY <2>1, <2>2, <3>2, ZenonT(60) DEF FlowOrder
      <3> QED BY <3>1, <3>2
    <2>5. \A r : Via(Merged, r)' = Via(Merged, r)
      BY <2>1 DEF Via
    <2> QED BY <2>4, <2>5 DEF FlowOrder
  <1>3. ASSUME NEW p \in Partitions, MergePush(p)
        PROVE  FlowOrder'
    <2>1. PICK e \in Elements :
              /\ e.via = p
              /\ Flow(p) = <<e>> \o Flow(p)' /\ Flow(p)' \in Seq(Elements)
              /\ Merged' = Append(Merged, e)
              /\ UNCHANGED <<sourceVars, sent>>
              /\ \A r \in Partitions \ {p} : Flow(r)' = Flow(r)
      BY <1>3, MergePushMoves
    <2>2. PICK m \in Seq(Elements) : m = Merged
      BY FlowType
    <2>3. \A r : Via(Append(m, e), r) = IF r = p THEN Append(Via(m, r), e) ELSE Via(m, r)
      BY <2>1, <2>2, ViaAppend
    <2>4. \A r : Via(Merged, r)' = Via(Append(m, e), r)
      BY <2>1, <2>2 DEF Via
    <2>5. ASSUME NEW r \in Partitions
          PROVE  sent[r] = Via(Append(m, e), r) \o Flow(r)'
      <3>1. CASE r # p
        <4>1. sent[r] = Via(Merged, r) \o Flow(r)
          BY DEF FlowOrder
        <4> QED BY <2>1, <2>2, <2>3, <3>1, <4>1
      <3>2. CASE r = p
        <4>1. sent[p] = Via(m, p) \o (<<e>> \o Flow(p)')
          BY <2>1, <2>2 DEF FlowOrder
        <4>2. PICK t \in Seq(Elements) : t = Flow(p)'
          BY <2>1
        <4>3. PICK v \in Seq(Elements) : v = Via(m, p)
          BY ViaSeq
        <4>4. Append(v, e) = v \o <<e>> /\ <<e>> \in Seq(Elements)
          BY AppendIsConcat
        <4>5. (v \o <<e>>) \o t = v \o (<<e>> \o t)
          BY <4>4, Associative
        <4>6. Via(Append(m, e), p) = Append(v, e)
          BY <2>3, <4>3
        <4> QED BY <3>2, <4>1, <4>2, <4>3, <4>4, <4>5, <4>6
      <3> QED BY <3>1, <3>2
    <2> QED BY <2>1, <2>4, <2>5 DEF FlowOrder
  <1> QED BY <1>1, <1>2, <1>3, FlowSteps

\* EndOfStream stays the last element of its partition.
LEMMA NextEndsInv ==
    ASSUME TypeOK, FlowInv, EndsInv, [Next]_vars
    PROVE  EndsInv'
  <1>0. \A p \in Partitions : Pushed(p) => Pushed(p)'
    BY PushedStays
  <1>1. CASE Merged' = Merged /\ \A p \in Partitions : Flow(p)' = Flow(p)
    <2>1. EndQueued'
      BY <1>0, <1>1 DEF EndQueued, EndsInv
    <2>2. EndMerged'
      BY <1>0, <1>1 DEF EndMerged, EndsInv
    <2>3. EndLast'
      BY <1>1 DEF EndLast, EndsInv
    <2> QED BY <2>1, <2>2, <2>3 DEF EndsInv
  <1>2. ASSUME NEW p \in Partitions, SourcePush(p)
        PROVE  EndsInv'
    <2>1. PICK e \in Elements :
              /\ Kept(e) = e /\ e.via = p /\ e.kind = elem.kind
              /\ Flow(p)' = Append(Flow(p), e)
              /\ sent' = [sent EXCEPT ![p] = Append(sent[p], e)]
              /\ Merged' = Merged
              /\ \A r \in Partitions \ {p} : Flow(r)' = Flow(r)
      BY <1>2, SourcePushFlow
    <2>2. ~Pushed(p)
      BY <1>2 DEF SourcePush, Pushed
    <2>3. e.kind = "EndOfStream" => Pushed(p)'
      BY <1>2, <2>1 DEF SourcePush, Pushed
    <2>4. PICK s \in Seq(Elements) : s = Flow(p)
      BY FlowType
    <2>5. \A i \in 1 .. Len(s) : s[i].kind # "EndOfStream"
      BY <2>2, <2>4 DEF EndsInv, EndQueued
    <2>6. Flow(p)' = Append(s, e) /\ Len(Append(s, e)) = Len(s) + 1
      BY <2>1, <2>4, AppendProperties
    <2>7. EndQueued'
      <3>1. ASSUME NEW r \in Partitions, NEW i \in 1 .. Len(Flow(r)'), Flow(r)'[i].kind = "EndOfStream"
            PROVE  i = Len(Flow(r)') /\ Pushed(r)'
        <4>1. CASE r = p
          <5>1. i \in 1 .. Len(Append(s, e)) /\ Append(s, e)[i].kind = "EndOfStream"
            BY <2>6, <3>1, <4>1
          <5>2. i = Len(s) + 1 /\ Append(s, e)[i] = e
            BY <2>5, <5>1, AppendAt
          <5> QED BY <2>3, <2>6, <4>1, <5>1, <5>2
        <4>2. CASE r # p
          BY <1>0, <2>1, <3>1, <4>2 DEF EndsInv, EndQueued
        <4> QED BY <4>1, <4>2
      <3> QED BY <3>1 DEF EndQueued
    <2>8. EndMerged'
      <3>1. ASSUME NEW i \in 1 .. Len(Merged)
            PROVE  /\ Merged[i].via \in Partitions
                   /\ Merged[i].kind = "EndOfStream" => /\ Merged[i].via # p
                                                        /\ Flow(Merged[i].via) = <<>>
                                                        /\ Pushed(Merged[i].via)
        BY <2>2 DEF EndsInv, EndMerged
      <3>2. ASSUME NEW i \in 1 .. Len(Merged), NEW r \in Partitions, r = Merged[i].via,
                   Merged[i].kind = "EndOfStream"
            PROVE  Flow(r)' = <<>> /\ Pushed(r)'
        BY <1>0, <2>1, <3>1, <3>2
      <3> QED BY <2>1, <3>1, <3>2 DEF EndMerged
    <2>9. EndLast'
      BY <2>1 DEF EndsInv, EndLast
    <2> QED BY <2>7, <2>8, <2>9 DEF EndsInv
  <1>3. ASSUME NEW p \in Partitions, MergePush(p)
        PROVE  EndsInv'
    <2>1. PICK e \in Elements :
              /\ e.via = p
              /\ Flow(p) = <<e>> \o Flow(p)' /\ Flow(p)' \in Seq(Elements)
              /\ Merged' = Append(Merged, e)
              /\ UNCHANGED <<sourceVars, sent>>
              /\ \A r \in Partitions \ {p} : Flow(r)' = Flow(r)
      BY <1>3, MergePushMoves
    <2>2. PICK t \in Seq(Elements) : t = Flow(p)'
      BY <2>1
    <2>3. PICK s \in Seq(Elements) : s = Flow(p)
      BY FlowType
    <2>4. PICK m \in Seq(Elements) : m = Merged
      BY FlowType
    <2>5. /\ Len(s) = Len(t) + 1 /\ s[1] = e /\ Len(t) \in Nat
          /\ \A i \in 1 .. Len(t) : i + 1 \in 1 .. Len(s) /\ s[i + 1] = t[i]
      BY <2>1, <2>2, <2>3, TakeFirst
    <2>6. \A i \in 1 .. Len(s) : s[i].kind = "EndOfStream" => i = Len(s) /\ Pushed(p)
      BY <2>3 DEF EndsInv, EndQueued
    <2>7. EndQueued'
      <3>1. \A i \in 1 .. Len(t) : t[i].kind = "EndOfStream" => i = Len(t) /\ Pushed(p)
        <4>1. SUFFICES ASSUME NEW i \in 1 .. Len(t), t[i].kind = "EndOfStream"
                       PROVE  i = Len(t) /\ Pushed(p)
          OBVIOUS
        <4>2. i + 1 \in 1 .. Len(s) /\ s[i + 1].kind = "EndOfStream"
          BY <2>5, <4>1
        <4>3. i + 1 = Len(s) /\ Pushed(p)
          BY <2>6, <4>2
        <4> QED BY <2>5, <4>3
      <3>2. ASSUME NEW r \in Partitions, NEW i \in 1 .. Len(Flow(r)'), Flow(r)'[i].kind = "EndOfStream"
            PROVE  i = Len(Flow(r)') /\ Pushed(r)'
        <4>1. CASE r = p
          BY <1>0, <2>2, <3>1, <3>2, <4>1
        <4>2. CASE r # p
          BY <1>0, <2>1, <3>2, <4>2 DEF EndsInv, EndQueued
        <4> QED BY <4>1, <4>2
      <3> QED BY <3>2 DEF EndQueued
    <2>8. \A i \in 1 .. Len(m) :
              /\ m[i].via \in Partitions
              /\ m[i].kind = "EndOfStream" => /\ m[i].via # p
                                              /\ Flow(m[i].via) = <<>>
                                              /\ Pushed(m[i].via)
      <3>1. Flow(p) # <<>>
        BY <2>3, <2>5
      <3> QED BY <2>4, <3>1 DEF EndsInv, EndMerged
    <2>9. e.kind = "EndOfStream" => Flow(p)' = <<>> /\ Pushed(p)
      <3>1. SUFFICES ASSUME e.kind = "EndOfStream"
                     PROVE  t = <<>> /\ Pushed(p)
        BY <2>2
      <3>2. 1 \in 1 .. Len(s)
        BY <2>5
      <3>3. 1 = Len(s) /\ Pushed(p)
        BY <2>5, <2>6, <3>1, <3>2
      <3>4. Len(t) = 0
        BY <2>5, <3>3
      <3> QED BY <3>3, <3>4, EmptySeq
    <2>10. Merged' = Append(m, e) /\ Len(Append(m, e)) = Len(m) + 1
      BY <2>1, <2>4, AppendProperties
    <2>11. EndMerged'
      <3>1. ASSUME NEW i \in 1 .. Len(Append(m, e))
            PROVE  Append(m, e)[i].via \in Partitions
        BY <2>1, <2>8, AppendAt
      <3>2. ASSUME NEW i \in 1 .. Len(Append(m, e)), NEW r \in Partitions, r = Append(m, e)[i].via,
                   Append(m, e)[i].kind = "EndOfStream"
            PROVE  Flow(r)' = <<>> /\ Pushed(r)'
        <4>1. CASE i \in 1 .. Len(m) /\ Append(m, e)[i] = m[i]
          <5>1. r # p /\ Flow(r) = <<>> /\ Pushed(r)
            BY <2>8, <3>2, <4>1
          <5> QED BY <1>0, <2>1, <5>1
        <4>2. CASE Append(m, e)[i] = e
          BY <1>0, <2>1, <2>9, <3>2, <4>2
        <4> QED BY <4>1, <4>2, AppendAt
      <3> QED BY <2>10, <3>1, <3>2 DEF EndMerged
    <2>12. EndLast'
      <3>1. ASSUME NEW i \in 1 .. Len(Append(m, e)), NEW j \in 1 .. Len(Append(m, e)), i < j,
                   Append(m, e)[i].via = Append(m, e)[j].via
            PROVE  Append(m, e)[i].kind # "EndOfStream"
        <4>1. Len(m) \in Nat
          OBVIOUS
        <4>2. i \in 1 .. Len(m) /\ Append(m, e)[i] = m[i]
          <5>1. i # Len(m) + 1
            BY <2>10, <3>1, <4>1
          <5> QED BY <5>1, AppendAt
        <4>3. CASE j \in 1 .. Len(m) /\ Append(m, e)[j] = m[j]
          BY <2>4, <3>1, <4>2, <4>3 DEF EndsInv, EndLast
        <4>4. CASE Append(m, e)[j] = e
          BY <2>1, <2>8, <3>1, <4>2, <4>4
        <4> QED BY <4>3, <4>4, AppendAt
      <3> QED BY <2>10, <3>1 DEF EndLast
    <2> QED BY <2>7, <2>11, <2>12 DEF EndsInv
  <1> QED BY <1>1, <1>2, <1>3, FlowSteps

\* What the last Queue has published comes first in the merged stream.
LEMMA PublishedFirst ==
    ASSUME TypeOK
    PROVE  \A i \in 1 .. Len(out) : i \in 1 .. Len(Merged) /\ Merged[i] = out[i]
  <1>1. PICK o \in Seq(Elements), h \in Seq(Elements), s \in Seq(Elements) :
            o = out /\ h = Held(Sink) /\ s = queue_[Sink]
    BY FlowType
  <1>2. Merged = (o \o h) \o s
    BY <1>1 DEF Merged
  <1>3. /\ o \o h \in Seq(Elements) /\ Len(o \o h) = Len(o) + Len(h)
        /\ \A i \in 1 .. Len(o) + Len(h) : (o \o h)[i] = IF i <= Len(o) THEN o[i] ELSE h[i - Len(o)]
    BY ConcatProperties
  <1> DEFINE t == o \o h
  <1> HIDE DEF t
  <1>4. /\ Len(t \o s) = Len(t) + Len(s)
        /\ \A i \in 1 .. Len(t) + Len(s) : (t \o s)[i] = IF i <= Len(t) THEN t[i] ELSE s[i - Len(t)]
    <2>1. t \in Seq(Elements)
      BY <1>3 DEF t
    <2> QED BY <2>1, ConcatProperties
  <1>5. Len(o) \in Nat /\ Len(h) \in Nat /\ Len(s) \in Nat /\ Len(t) = Len(o) + Len(h)
    BY <1>3 DEF t
  <1>6. ASSUME NEW i \in 1 .. Len(o)
        PROVE  i \in 1 .. Len(t \o s) /\ (t \o s)[i] = o[i]
    <2>1. i \in 1 .. Len(o) + Len(h) /\ i \in 1 .. Len(t) + Len(s) /\ i <= Len(o) /\ i <= Len(t)
      BY <1>5
    <2>2. t[i] = o[i]
      BY <1>3, <2>1 DEF t
    <2> QED BY <1>4, <2>1, <2>2
  <1> QED BY <1>1, <1>2, <1>6 DEF t

\* As each partition ends once, the last of as many ends as there are
\* partitions has every partition's data before it.
LEMMA EndsCounted ==
    ASSUME TypeOK, EndsInv
    PROVE  NothingAfterLastEnd
  <1>1. SUFFICES ASSUME NEW i \in DOMAIN out, NEW j \in DOMAIN out, i < j,
                        Cardinality({n \in 1 .. i : out[n].kind = "EndOfStream"}) = Cardinality(Partitions)
                 PROVE  out[j].kind # "data"
    BY DEF NothingAfterLastEnd
  <1> DEFINE E == {n \in 1 .. i : out[n].kind = "EndOfStream"}
             f == [n \in E |-> out[n].via]
  <1>2. i \in 1 .. Len(out) /\ j \in 1 .. Len(out) /\ Len(out) \in Nat /\ 1 .. i \subseteq 1 .. Len(out)
    BY DEF TypeOK
  <1>3. \A n \in 1 .. Len(out) : out[n].via \in Partitions
    BY PublishedFirst DEF EndsInv, EndMerged
  <1>4. \A n, k \in 1 .. Len(out) : n < k /\ out[n].via = out[k].via => out[n].kind # "EndOfStream"
    BY PublishedFirst DEF EndsInv, EndLast
  <1>5. f \in Injection(E, Partitions)
    <2>1. f \in [E -> Partitions]
      BY <1>2, <1>3
    <2>2. ASSUME NEW n \in E, NEW k \in E, f[n] = f[k]
          PROVE  n = k
      <3>1. n \in 1 .. Len(out) /\ k \in 1 .. Len(out) /\ out[n].via = out[k].via
        BY <1>2, <2>2
      <3>2. ~(n < k) /\ ~(k < n)
        BY <1>4, <3>1
      <3> QED BY <3>1, <3>2
    <2> QED BY <2>1, <2>2 DEF Injection, IsInjective
  <1>6. f \in Surjection(E, Partitions)
    BY <1>1, <1>5, FiniteAssumption, FS_Injection
  <1>7. PICK n \in E : out[n].via = out[j].via
    BY <1>2, <1>3, <1>6 DEF Surjection
  <1>8. n \in 1 .. Len(out) /\ n < j /\ out[n].kind = "EndOfStream"
    BY <1>1, <1>2
  <1> QED BY <1>2, <1>4, <1>7, <1>8

\* Each partition's elements come out of Merge in their order, none lost or
\* doubled, and no data follows the last EndOfStream, for any number of
\* partitions and elements and every interleaving of their threads: a Queue's
\* thread holds the element that it popped until it has published it (pop and
\* push in Queue.hpp), and PartitionBy sends nothing behind EndOfStream.
THEOREM MergedStaysInOrder == Spec => []MergedInOrder
  <1>1. Init => OrderInv
    <2> SUFFICES ASSUME Init
                 PROVE  OrderInv
      OBVIOUS
    <2>1. \A q \in Queues : Held(q) = <<>> /\ queue_[q] = <<>>
      BY DEF Init, Held
    <2>2. <<>> \o <<>> = <<>> /\ Sink \in Queues /\ Partitions \subseteq Queues
      <3>1. <<>> \in Seq(Elements)
        OBVIOUS
      <3> QED BY <3>1, ConcatEmptySeq DEF Queues
    <2>3. Merged = <<>> /\ \A p \in Partitions : Flow(p) = <<>> /\ sent[p] = <<>>
      BY <2>1, <2>2 DEF Init, Merged, Flow
    <2>4. 1 .. Len(<<>>) = {}
      OBVIOUS
    <2>5. FlowInv /\ EndsInv
      BY <2>3, <2>4 DEF FlowInv, EndsInv, EndQueued, EndMerged, EndLast
    <2>6. FlowOrder
      BY <2>2, <2>3, ViaNothing DEF FlowOrder
    <2> QED BY <2>5, <2>6 DEF OrderInv
  <1>2. TypeOK /\ OrderInv /\ [Next]_vars => OrderInv'
    BY NextFlowInv, NextFlowOrder, NextEndsInv DEF OrderInv
  <1>3. TypeOK /\ OrderInv => MergedInOrder
    <2> SUFFICES ASSUME TypeOK, OrderInv
                 PROVE  MergedInOrder
      OBVIOUS
    <2>1. ASSUME NEW p \in Partitions
          PROVE  sent[p] = Via(Merged, p) \o Held(p) \o queue_[p]
      <3>1. /\ Merged \in Seq(Elements) /\ Held(p) \in Seq(Elements)
            /\ queue_[p] \in Seq(Elements)
        BY FlowType
      <3>2. Via(Merged, p) \in Seq(Elements)
        BY <3>1, ViaSeq
      <3>3. sent[p] = Via(Merged, p) \o (Held(p) \o queue_[p])
        BY DEF OrderInv, FlowOrder, Flow
      <3> QED BY <3>1, <3>2, <3>3, Associative
    <2>2. NothingAfterLastEnd
      BY EndsCounted DEF OrderInv
    <2> QED BY <2>1, <2>2 DEF MergedInOrder, PartitionOrder
  <1> QED BY <1>1, <1>2, <1>3, TypeCorrect, PTL DEF Spec
=============================================================================
