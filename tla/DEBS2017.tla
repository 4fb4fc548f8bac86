------------------------------ MODULE DEBS2017 --------------------------------
(***************************************************************************)
(* The query of the DEBS 2017 challenge: the observations of machines are   *)
(* joined with metadata (calculateStates), pass a sliding window, are       *)
(* partitioned, clustered per property (calculateClusters: k-means on one   *)
(* axis) and searched for improbable transitions between clusters           *)
(* (calculateMarkov).  RDF subjects and literals are abstracted to records; *)
(* doubles are fractions <<numerator, denominator>>.                        *)
(***************************************************************************)
EXTENDS Integers, Sequences, FiniteSets, SequencesExt, Functions

CONSTANTS MetadataTriples,        \* the metadata stream
          Properties,             \* the properties of a group, in its order
          Offered,                \* the values a property may have
          EmptyLiteral,           \* a literal without content
          OutOfBounds,            \* what is read behind the end of a vector
          trans_num, trans_prob,
          max_cluster_iterations,
          windowSize, threadAmount,
          MaxGroups               \* bound: groups of observations

ASSUME DEBSAssumption ==
  /\ trans_num \in Nat \ {0} /\ max_cluster_iterations \in Nat /\ threadAmount \in Nat \ {0}
  /\ windowSize \in Nat /\ MaxGroups \in Nat

VARIABLES inputState,    \* InputState of the first stateful map
          buffer,        \* the buffer of the sliding window
          rows,          \* ClusterState::DataVectorNew of every partition
          clustered,     \* the last clustering, <<>> if there was none
          anomalies,     \* anomalies_found
          stream         \* history: the input so far

debsVars == <<inputState, buffer, rows, clustered, anomalies, stream>>

----------------------------------------------------------------------------
(* Metadata: a triple with a literal sets the number of clusters for the    *)
(* properties named by the triples behind it.                               *)

processMetadata(md, meta) ==
  IF meta.kind = "clusters" THEN [md EXCEPT !.MdCluster = meta.n]
  ELSE [md EXCEPT !.map = [i \in DOMAIN @ \union {meta.id} |-> IF i \in DOMAIN @ THEN @[i] ELSE md.MdCluster]]

MetadataMap == FoldLeft(processMetadata, [MdCluster |-> 0, map |-> <<>>], MetadataTriples).map

\* Mutant of calculateStates: an observation without metadata leaves the flag.
calculateStatesSticky(st, tp) ==
  LET s == [st EXCEPT !.passTuple = 0]
  IN CASE tp.kind = "observation" ->
            [s EXCEPT !.metadataID = tp.id, !.hasMetadata = IF tp.id \in DOMAIN MetadataMap THEN @ + 1 ELSE @,
                      !.numberOfClusters = IF tp.id \in DOMAIN MetadataMap THEN MetadataMap[tp.id] ELSE @]
       [] tp.kind = "value" ->
            IF s.hasMetadata = 0 THEN s
            ELSE [s EXCEPT !.property_cnt = @ + 1, !.value = IF tp.v = EmptyLiteral THEN @ ELSE tp.v,
                           !.passTuple = IF tp.v = EmptyLiteral THEN 0 ELSE 1]
       [] tp.kind = "timestamp" -> [s EXCEPT !.timestamp = tp.ts, !.property_cnt = 0]

calculateStates(st, tp) ==
  LET s == [st EXCEPT !.passTuple = 0]
      known == tp.kind = "observation" /\ tp.id \in DOMAIN MetadataMap
  IN CASE tp.kind = "observation" ->
            [s EXCEPT !.metadataID = tp.id,
                      !.hasMetadata = IF known THEN @ + 1 ELSE 0,
                      !.numberOfClusters = IF known THEN MetadataMap[tp.id] ELSE @]
       [] tp.kind = "value" ->
            IF s.hasMetadata = 0 THEN s
            ELSE [s EXCEPT !.property_cnt = @ + 1, !.value = IF tp.v = EmptyLiteral THEN @ ELSE tp.v,
                           !.passTuple = IF tp.v = EmptyLiteral THEN 0 ELSE 1]
       [] tp.kind = "timestamp" -> [s EXCEPT !.timestamp = tp.ts, !.property_cnt = 0]

----------------------------------------------------------------------------
(* k-means.  Centres are fractions; distances are compared by their roots.  *)

Abs(n) == IF n < 0 THEN -n ELSE n
Distance(v, c) == <<Abs(v * c[2] - c[1]), c[2]>>
Less(a, b) == a[1] * b[2] < b[1] * a[2]
Equal(a, b) == a[1] * b[2] = b[1] * a[2]

\* The first distinct values.  The loop runs one position too far.
initialCenters(values, k, beyond) ==
  LET At(i) == IF i < Len(values) THEN values[i + 1] ELSE beyond
  IN FoldLeft(LAMBDA cs, i : IF Len(cs) < k /\ ~ \E j \in DOMAIN cs : cs[j] = <<At(i), 1>>
                             THEN Append(cs, <<At(i), 1>>) ELSE cs,
              << <<values[1], 1>> >>, [i \in 1 .. Len(values) |-> i])

\* Mutant of assignCluster: the last centre is not looked at.
assignClusterButLast(v, cs, a) ==
  FoldLeft(LAMBDA s, j :
             LET new == Distance(v, cs[j])
             IN IF Equal(new, s.old) THEN IF Less(cs[s.a], cs[j]) THEN [s EXCEPT !.a = j] ELSE s
                ELSE IF Less(new, s.old) THEN [a |-> j, old |-> new, changes |-> s.changes + 1]
                ELSE s,
           [a |-> a, old |-> Distance(v, cs[a]), changes |-> 0], [j \in 1 .. Len(cs) - 1 |-> j])

\* Of two centres at the same distance the greater one is taken.
assignCluster(v, cs, a) ==
  FoldLeft(LAMBDA s, j :
             LET new == Distance(v, cs[j])
             IN IF Equal(new, s.old) THEN IF Less(cs[s.a], cs[j]) THEN [s EXCEPT !.a = j] ELSE s
                ELSE IF Less(new, s.old) THEN [a |-> j, old |-> new, changes |-> s.changes + 1]
                ELSE s,
           [a |-> a, old |-> Distance(v, cs[a]), changes |-> 0], [j \in DOMAIN cs |-> j])

\* A centre moves to the mean of its values unless they add up to 0.
newCenter(values, as, i, c) ==
  LET own == SelectSeq([j \in DOMAIN values |-> <<as[j], values[j]>>], LAMBDA p : p[1] = i)
      sum == FoldLeft(LAMBDA x, p : x + p[2], 0, own)
  IN IF sum = 0 THEN c ELSE <<sum, Len(own)>>

\* the same sequence (TLC evaluates it here, and not at every use)
Evaluated(s) == <<>> \o s

RECURSIVE iterateClusters(_, _, _, _)
iterateClusters(values, cs, as, it) ==
  LET res == Evaluated([i \in DOMAIN values |-> assignCluster(values[i], cs, as[i])])
      new == Evaluated([i \in DOMAIN values |-> res[i].a])
      moved == Evaluated([i \in DOMAIN cs |-> newCenter(values, new, i, cs[i])])
      settled == (\A i \in DOMAIN res : res[i].changes = 0) /\ (\A i \in DOMAIN cs : Equal(cs[i], moved[i]))
  IN IF it = max_cluster_iterations THEN [centers |-> cs, assigned |-> as, converged |-> FALSE]
     ELSE IF settled THEN [centers |-> moved, assigned |-> new, converged |-> TRUE]
     ELSE iterateClusters(values, moved, new, it + 1)

\* Mutant of outdateValue: the newest value leaves.
outdateNewest(row) == [row EXCEPT !.values = Front(@)]

outdateValue(row) == [row EXCEPT !.values = Tail(@)]

\* One call of the second stateful map: the rows afterwards and, of a new
\* value with enough others, the clustering.
calculateClusters(rs, tp, outdated, beyond) ==
  LET n == SelectInSeq(rs, LAMBDA r : r.id = tp.id)
      new == IF n = 0 THEN Append(rs, [id |-> tp.id, values |-> <<tp.v>>])
             ELSE [rs EXCEPT ![n].values = Append(@, tp.v)]
      values == new[IF n = 0 THEN Len(new) ELSE n].values
      cs == initialCenters(values, tp.k, beyond)
  IN IF outdated THEN [rows |-> [rs EXCEPT ![n] = outdateValue(@)], out |-> <<>>]
     ELSE [rows |-> new,
           out |-> IF Len(values) <= trans_num THEN <<>>
                   ELSE <<[values |-> values, k |-> tp.k]
                          @@ iterateClusters(values, cs, [i \in DOMAIN values |-> 1], 0)>>]

----------------------------------------------------------------------------
(* The Markov chain over the sequence of clusters. *)

\* Mutant of transitionCounter: the chain is not followed.
transitionCounterFromFirst(seq, k) ==
  [l \in 1 .. k, n \in 1 .. k |-> IF seq[1] = l THEN Cardinality({i \in 2 .. Len(seq) : seq[i] = n}) ELSE 0]

transitionCounter(seq, k) ==
  [l \in 1 .. k, n \in 1 .. k |-> Cardinality({i \in 2 .. Len(seq) : seq[i - 1] = l /\ seq[i] = n})]

\* the probability of the last trans_num transitions
calculateMarkov(seq, k) ==
  LET count == transitionCounter(seq, k)
      RowSum(l) == FoldLeft(LAMBDA x, n : x + count[l, n], 0, [n \in 1 .. k |-> n])
      from == Len(seq) - trans_num
  IN FoldLeft(LAMBDA p, i : <<p[1] * count[seq[from + i - 1], seq[from + i]], p[2] * RowSum(seq[from + i - 1])>>,
              <<1, 1>>, [i \in 1 .. trans_num |-> i])

----------------------------------------------------------------------------
(* The query. *)

DEBSInit ==
  /\ inputState = [property_cnt |-> 0, passTuple |-> 0, hasMetadata |-> 0, numberOfClusters |-> 0,
                   metadataID |-> EmptyLiteral, value |-> 0, timestamp |-> 0]
  /\ buffer = <<>> /\ rows = [p \in 0 .. threadAmount - 1 |-> <<>>]
  /\ clustered = <<>> /\ anomalies = 0 /\ stream = <<>>

\* What the window makes outdated, and then the new tuple, goes to the
\* partitions; a partition handles its tuples in that order.
process(tp) ==
  \E beyond \in OutOfBounds :
    LET st == calculateStates(inputState, tp)
        t == [n |-> st.property_cnt - 1, id |-> st.metadataID, ts |-> st.timestamp, k |-> st.numberOfClusters, v |-> st.value]
        all == Append(buffer, t)
        limit == t.ts - (windowSize - 1)
        old == IF t.ts >= windowSize - 1 THEN SelectSeq(all, LAMBDA o : o.ts <= limit) ELSE <<>>
        part(o) == o.n % threadAmount
        kept == FoldLeft(LAMBDA rs, o : [rs EXCEPT ![part(o)] = calculateClusters(@, o, TRUE, beyond).rows], rows, old)
        res == calculateClusters(kept[part(t)], t, FALSE, beyond)
        prob == IF res.out = <<>> THEN <<1, 1>> ELSE calculateMarkov(res.out[1].assigned, t.k)
    IN /\ inputState' = st
       /\ stream' = Append(stream, tp)
       /\ IF st.passTuple = 0 THEN UNCHANGED <<buffer, rows, clustered, anomalies>>
          ELSE /\ buffer' = SubSeq(all, Len(old) + 1, Len(all))
               /\ rows' = [kept EXCEPT ![part(t)] = res.rows]
               /\ clustered' = res.out
               /\ anomalies' = anomalies + IF Less(prob, trans_prob) THEN 1 ELSE 0

\* A group is a timestamp and then, for every property, an observation and its
\* value.
DEBSNext ==
  LET size == 1 + 2 * Len(Properties)
      group == Len(stream) \div size
      i == Len(stream) % size
      id == Properties[(i + 1) \div 2]
  IN /\ group < MaxGroups
     /\ \/ i = 0 /\ process([kind |-> "timestamp", ts |-> group + 1])
        \/ i % 2 = 1 /\ process([kind |-> "observation", id |-> id])
        \/ i > 0 /\ i % 2 = 0 /\ \E v \in Offered[id] : process([kind |-> "value", v |-> v])

----------------------------------------------------------------------------
\* A value passes only for a property with metadata, and with the number of
\* clusters that the metadata gives to the property observed last.
PassedWithMetadata ==
  inputState.passTuple = 1 =>
    LET obs == Max({i \in DOMAIN stream : stream[i].kind = "observation"})
        triples == MetadataTriples
        named == Min({i \in DOMAIN triples : triples[i].kind = "property" /\ triples[i].id = stream[obs].id} \union {Len(triples) + 1})
    IN /\ inputState.metadataID = stream[obs].id
       /\ named <= Len(triples)
       /\ inputState.numberOfClusters =
            triples[Max({i \in 1 .. named : triples[i].kind = "clusters"})].n

\* The rows of the partitions hold, per property and in order, the values that
\* are in the window, although every thread sees only its part of the stream.
RowsAreWindow ==
  \A p \in DOMAIN rows, id \in ToSet(Properties) :
    LET live == SelectSeq(buffer, LAMBDA t : t.id = id /\ t.n % threadAmount = p)
        own == SelectSeq(rows[p], LAMBDA r : r.id = id)
    IN /\ Len(own) <= 1
       /\ (IF own = <<>> THEN <<>> ELSE own[1].values) = [i \in DOMAIN live |-> live[i].v]

\* The clustering converges, and then every value is in a cluster whose centre
\* is nearest, whatever was read behind the end of the values.
ClustersNearest ==
  \A i \in DOMAIN clustered :
    LET c == clustered[i]
    IN /\ c.converged
       /\ \A j \in DOMAIN c.values, n \in DOMAIN c.centers :
            ~ Less(Distance(c.values[j], c.centers[n]), Distance(c.values[j], c.centers[c.assigned[j]]))

\* The probability of a sequence lies above 0 (its own transitions are
\* counted) and not above 1, and is 1 if it stays in one cluster: no anomaly
\* is reported for a machine whose values do not change.
SequenceProbable ==
  \A i \in DOMAIN clustered :
    LET c == clustered[i]
        prob == calculateMarkov(c.assigned, c.k)
    IN /\ 0 < prob[1] /\ prob[1] <= prob[2]
       /\ Cardinality(ToSet(c.assigned)) = 1 => prob[1] = prob[2]
=============================================================================
