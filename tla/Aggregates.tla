----------------------------- MODULE Aggregates -----------------------------
(***************************************************************************)
(* The aggregate functions.  Each is a state, an iterate step for a value  *)
(* that becomes valid or outdated, and the value it reports; Undefined     *)
(* stands for a failed assertion (the default build keeps assertions) or a *)
(* division by zero.  AggrMedian is in a module of its own.                *)
(***************************************************************************)
EXTENDS Integers, Sequences, SequencesExt

CONSTANTS
    UIntRange,  \* number of values of unsigned int, scaled down
    Undefined

ASSUME UIntAssumption == UIntRange \in Nat \ {0, 1}

NoEntries == [x \in {} |-> 0]

\* Unsigned addition of 1 or -1, as the counters do it.
Step(c, outdated) == (c + (IF outdated THEN UIntRange - 1 ELSE 1)) % UIntRange

AggrSum_iterate(s, d, outdated) == s + (IF outdated THEN -d ELSE d)

AggrCount_iterate(c, d, outdated) == Step(c, outdated)

AggrAvg_iterate(a, d, outdated) ==
    [mCount |-> Step(a.mCount, outdated),
     mSum |-> AggrSum_iterate(a.mSum, d, outdated)]
AggrAvg_value(a) == IF a.mCount = 0 THEN Undefined ELSE a.mSum \div a.mCount

\* A map of counters: a value's entry is erased when its counter reaches 0.
Erase(m, d) == [x \in DOMAIN m \ {d} |-> m[x]]
\* Mutants of Recount: the entry stays; the entry is erased with its first tuple.
RecountErases(m, d, outdated) ==
    IF outdated THEN Erase(m, d) ELSE [m EXCEPT ![d] = @ + 1]
RecountKeeps(m, d, outdated) == [m EXCEPT ![d] = Step(@, outdated)]
Recount(m, d, outdated) ==
    LET c == Step(m[d], outdated)
    IN IF c = 0 THEN Erase(m, d) ELSE [m EXCEPT ![d] = c]
Enter(m, d) == [x \in DOMAIN m \cup {d} |-> IF x = d THEN 1 ELSE m[x]]

AggrDCount_iterate(m, d, outdated) ==
    CASE m = Undefined -> Undefined
      [] m # Undefined /\ d \in DOMAIN m -> Recount(m, d, outdated)
      [] m # Undefined /\ d \notin DOMAIN m -> IF outdated THEN Undefined ELSE Enter(m, d)
AggrDCount_value(m) == IF m = Undefined THEN Undefined ELSE Cardinality(DOMAIN m)

\* The extremum is the first key of the ordered map; here the minimum.
AggrMinMax_iterate(m, d, outdated) ==
    IF d \in DOMAIN m THEN Recount(m, d, outdated) ELSE Enter(m, d)
AggrMinMax_value(m) == IF m = NoEntries THEN Undefined ELSE Min(DOMAIN m)

AggrGlobalMax_iterate(x, d, outdated) ==
    IF outdated \/ x = Undefined THEN Undefined ELSE Max({x, d})
AggrGlobalMin_iterate(x, d, outdated) ==
    IF outdated \/ x = Undefined THEN Undefined ELSE Min({x, d})

AggrLRecent_iterate(l, d, outdated) ==
    CASE l = Undefined \/ (outdated /\ l = <<>>) -> Undefined
      [] l # Undefined /\ ~outdated -> Append(l, d)
      [] l # Undefined /\ outdated /\ l # <<>> -> Tail(l)
AggrLRecent_value(l) == IF l \in {<<>>, Undefined} THEN Undefined ELSE Head(l)

AggrMRecent_iterate(v, d, outdated) == IF outdated THEN v ELSE d
AggrIdentity_iterate(v, d, outdated) == d

-----------------------------------------------------------------------------
(* The aggregation states: Aggregator1 .. 4 hold one to four functions and *)
(* step each of them.  An aggregate of the models has one of each size.    *)
Aggregator1_init == [sum |-> 0]
Aggregator1_iterate(a, d, outdated) == [sum |-> AggrSum_iterate(a.sum, d, outdated)]
Aggregator1_finalize(a) == [sum |-> a.sum]

Aggregator2_init == [count |-> 0, avg |-> [mCount |-> 0, mSum |-> 0]]
Aggregator2_iterate(a, d, outdated) ==
    [count |-> AggrCount_iterate(a.count, d, outdated),
     avg |-> AggrAvg_iterate(a.avg, d, outdated)]
Aggregator2_finalize(a) == [count |-> a.count, avg |-> AggrAvg_value(a.avg)]

Aggregator3_init == [dcount |-> NoEntries, min |-> NoEntries, lrecent |-> <<>>]
Aggregator3_iterate(a, d, outdated) ==
    [dcount |-> AggrDCount_iterate(a.dcount, d, outdated),
     min |-> AggrMinMax_iterate(a.min, d, outdated),
     lrecent |-> AggrLRecent_iterate(a.lrecent, d, outdated)]
Aggregator3_finalize(a) ==
    [dcount |-> AggrDCount_value(a.dcount), min |-> AggrMinMax_value(a.min),
     lrecent |-> AggrLRecent_value(a.lrecent)]

Aggregator4_init == [mrecent |-> 0, identity |-> 0, gmax |-> 0, gmin |-> UIntRange]
Aggregator4_iterate(a, d, outdated) ==
    [mrecent |-> AggrMRecent_iterate(a.mrecent, d, outdated),
     identity |-> AggrIdentity_iterate(a.identity, d, outdated),
     gmax |-> AggrGlobalMax_iterate(a.gmax, d, outdated),
     gmin |-> AggrGlobalMin_iterate(a.gmin, d, outdated)]
Aggregator4_finalize(a) ==
    [mrecent |-> a.mrecent, identity |-> a.identity, gmax |-> a.gmax, gmin |-> a.gmin]

AggregateState_init == <<Aggregator1_init, Aggregator2_init, Aggregator3_init, Aggregator4_init>>
AggregateState_iterate(a, d, outdated) ==
    <<Aggregator1_iterate(a[1], d, outdated), Aggregator2_iterate(a[2], d, outdated),
      Aggregator3_iterate(a[3], d, outdated), Aggregator4_iterate(a[4], d, outdated)>>
AggregateState_finalize(a) ==
    <<Aggregator1_finalize(a[1]), Aggregator2_finalize(a[2]),
      Aggregator3_finalize(a[3]), Aggregator4_finalize(a[4])>>

-----------------------------------------------------------------------------
(* What the functions promise: their definition over the valid values, in  *)
(* the order of arrival.  Aggregator4's depend on more than these.         *)
Total(vals) ==
    LET sum[i \in 0 .. Len(vals)] == IF i = 0 THEN 0 ELSE sum[i - 1] + vals[i]
    IN sum[Len(vals)]
Reference(vals) ==
    <<[sum |-> Total(vals)],
      [count |-> Len(vals),
       avg |-> IF vals = <<>> THEN Undefined ELSE Total(vals) \div Len(vals)],
      [dcount |-> Cardinality(ToSet(vals)),
       min |-> IF vals = <<>> THEN Undefined ELSE Min(ToSet(vals)),
       lrecent |-> IF vals = <<>> THEN Undefined ELSE Head(vals)]>>
=============================================================================
