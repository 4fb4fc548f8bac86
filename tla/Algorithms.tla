----------------------------- MODULE Algorithms -------------------------------
(***************************************************************************)
(* The algorithms that stand on their own, each checked against a          *)
(* definition of what it computes: the running median, the miner of        *)
(* frequent trajectories (PrefixSpan), the dense matrix, the codecs of      *)
(* module Tuples, the graph algorithms of module MatrixGraph and the use    *)
(* cases of modules LinearRoad and DEBS2017.  A behaviour runs one of them, *)
(* named by algorithm, on an input.                                         *)
(***************************************************************************)
EXTENDS MatrixGraph, Tuples, LinearRoad, DEBS2017

CONSTANTS Values,       \* values in a median
          Items,        \* items of a trajectory
          MaxLen,       \* bound: length of a trajectory
          End,          \* end() of a map
          CodecInputs,  \* pairs of a type and a value of it
          TextInputs    \* tuples to print and parse

ASSUME AlgorithmsAssumption == Values \subseteq Int /\ MaxLen \in Nat

VARIABLES algorithm, input, median

useCaseVars == <<roadVars, debsVars>>
vars == <<graphVars, tupleVars, useCaseVars, algorithm, input, median>>

----------------------------------------------------------------------------
(* AggrMedian: a map from the values to their number, the entry (mapIt)     *)
(* that holds the lower median and the number of equal elements before the  *)
(* position inside that entry.                                              *)

AggrMedian_init == [total |-> 0, mapElement |-> <<>>, mapIt |-> End, elemBefore |-> 0]

NextEntry(e, it) == LET after == {x \in DOMAIN e : x > it} IN IF after = {} THEN End ELSE Min(after)
PrevEntry(e, it) == LET before == {x \in DOMAIN e : x < it} IN IF before = {} THEN Undefined ELSE Max(before)

\* Inside the equal elements of an entry the iterator should stay; it moves.
incrementMap(a) ==
  [a EXCEPT !.mapIt = NextEntry(a.mapElement, @), !.elemBefore = IF @ + 1 >= a.mapElement[a.mapIt] THEN 0 ELSE @]
decrementMap(a) ==
  LET it == PrevEntry(a.mapElement, a.mapIt)
  IN [a EXCEPT !.mapIt = it,
               !.elemBefore = IF @ > 0 THEN @ ELSE IF it = Undefined THEN Undefined ELSE a.mapElement[it] - 1]

medianInsert(a, d) ==
  LET count == IF d \in DOMAIN a.mapElement THEN a.mapElement[d] + 1 ELSE 1
      b == [a EXCEPT !.total = @ + 1, !.mapElement = [x \in DOMAIN @ \union {d} |-> IF x = d THEN count ELSE @[x]]]
  IN IF b.total = 1 THEN [b EXCEPT !.mapIt = d, !.elemBefore = 0]
     ELSE IF b.total % 2 = 0 /\ d < b.mapIt THEN decrementMap(b)
     ELSE IF b.total % 2 # 0 /\ d >= b.mapIt THEN incrementMap(b)
     ELSE b

\* Mutant of medianOutdate: of an even number, one below the position leaves it
\* where it is.
medianOutdateStays(a, d) ==
  LET b == IF (d = a.mapIt \/ d > a.mapIt) /\ a.total % 2 # 0 THEN decrementMap(a)
           ELSE IF d = a.mapIt THEN incrementMap(a) ELSE a
      c == [b EXCEPT !.total = @ - 1, !.mapElement = Restrict(@, DOMAIN @ \ {d})]
  IN IF c.total = 0 THEN AggrMedian_init ELSE c

medianOutdate(a, d) ==
  LET odd == a.total % 2 # 0
      b == IF d = a.mapIt /\ odd THEN decrementMap(a)
           ELSE IF d = a.mapIt THEN IF a.elemBefore + 1 >= a.mapElement[d] THEN incrementMap(a) ELSE a
           ELSE IF odd /\ d > a.mapIt THEN decrementMap(a)
           ELSE IF ~ odd /\ d < a.mapIt THEN incrementMap(a)
           ELSE a
      gone == a.mapElement[d] = 1
      c == [b EXCEPT !.total = @ - 1,
                     !.mapElement = IF gone THEN Restrict(@, DOMAIN @ \ {d}) ELSE [@ EXCEPT ![d] = @ - 1]]
  IN IF gone /\ c.total = 0 THEN [c EXCEPT !.mapIt = End, !.elemBefore = 0] ELSE c

AggrMedian_iterate(a, d, outdated) ==
  IF ~ outdated THEN medianInsert(a, d) ELSE IF d \in DOMAIN a.mapElement THEN medianOutdate(a, d) ELSE a

\* Twice the value, so that it is an integer.
AggrMedian_value(a) ==
  IF a.total = 0 THEN 0
  ELSE IF a.total % 2 = 0 /\ a.elemBefore + 1 >= a.mapElement[a.mapIt] THEN a.mapIt + NextEntry(a.mapElement, a.mapIt)
  ELSE 2 * a.mapIt

\* A window slides over a stream in which no value occurs twice at a time
\* (with equal values the iterator runs away from its entry).
medianStep ==
  /\ algorithm = "median"
  /\ \E d \in Values :
       \/ d \notin DOMAIN median.mapElement /\ median' = AggrMedian_iterate(median, d, FALSE)
       \/ d \in DOMAIN median.mapElement /\ median' = AggrMedian_iterate(median, d, TRUE)
  /\ UNCHANGED <<graphVars, tupleVars, useCaseVars, algorithm, input>>

----------------------------------------------------------------------------
(* Pattern: a sequence of items; its frequency where that is counted.  The  *)
(* shared data is immutable, so slices are sequences of their own.          *)

Pattern(seq, f) == [seq |-> seq, freq |-> f]
slice(s, from, l) == SubSeq(s, from + 1, IF l = 0 THEN Len(s) ELSE from + l)
concat(s, i) == Append(s, i)
isEqualAt(s, pos, t) == Len(s) - pos >= Len(t) /\ \A i \in 1 .. Len(t) : s[i + pos] = t[i]
patternContains(s, t) == Len(s) > Len(t) /\ \E i \in 0 .. Len(s) - Len(t) : isEqualAt(s, i, t)
isEqualN(s, t, maxLen) == Len(s) >= maxLen /\ Len(t) >= maxLen /\ \A i \in 1 .. maxLen : s[i] = t[i]
patternEquals(s, t) == Len(s) = Len(t) /\ \A i \in 1 .. Len(s) : s[i] = t[i]
findFirst(s, elem) == IF \E i \in DOMAIN s : s[i] = elem THEN SelectInSeq(s, LAMBDA x : x = elem) - 1 ELSE -1

\* Mutant of findSuffix: the suffix starts after the first item.
findSuffixAfter(s, pfx) ==
  LET first == findFirst(s, pfx[1])
  IN IF first < 0 THEN <<>> ELSE SubSeq(s, first + 2, Len(s))

\* The comparison ends at position pmin of this sequence, not pmin items
\* after the first one: behind other items it compares too little.
findSuffix(s, pfx) ==
  LET first == findFirst(s, pfx[1])
      pmin == Min({Len(s), Len(pfx)})
  IN IF first < 0 \/ \E p \in first + 1 .. pmin - 1 : s[p + 1] # pfx[p - first + 1] THEN <<>>
     ELSE slice(s, first, 0)

findSubPatterns(s, pfxLen) == [i \in 1 .. Len(s) - pfxLen + 1 |-> slice(s, i - 1, pfxLen)]

(* PrefixSpan.  Patterns come out of hash maps in some order. *)

projectedPatternDB(ds, pfx) == SelectSeq([i \in DOMAIN ds |-> findSuffix(ds[i], pfx)], LAMBDA s : s # <<>>)

findFreqPrefixes(ds, pfxLen, minSupport) ==
  LET all == FlattenSeq([i \in DOMAIN ds |-> findSubPatterns(ds[i], pfxLen)])
  IN {s \in ToSet(all) : Cardinality({i \in DOMAIN all : all[i] = s}) >= minSupport}

growPattern(ds, pattern, pfxLen) ==
  LET grown == SelectSeq(ds, LAMBDA s : Len(s) >= pfxLen /\ isEqualN(s, pattern, pfxLen - 1))
  IN {Pattern(concat(pattern, i), Cardinality({k \in DOMAIN grown : grown[k][pfxLen] = i})) :
        i \in {grown[k][pfxLen] : k \in DOMAIN grown}}

\* The recursion runs once for every pattern found, on the same database.
RECURSIVE mineFreqPatternsFrom(_, _, _)
mineFreqPatternsFrom(ds, pfxLen, minSupport) ==
  LET Found(prefix) ==
        LET pdb == projectedPatternDB(ds, prefix)
            patterns == {p \in growPattern(pdb, prefix, pfxLen + 2) : p.freq >= minSupport}
            next == IF patterns = {} THEN <<>> ELSE mineFreqPatternsFrom(pdb, pfxLen + 1, minSupport)
        IN FlattenSeq([i \in 1 .. Cardinality(patterns) |-> <<SetToSeq(patterns)[i]>> \o next])
      prefixes == SetToSeq(findFreqPrefixes(ds, pfxLen + 1, minSupport))
  IN FlattenSeq([i \in DOMAIN prefixes |-> Found(prefixes[i])])

mineFreqPatterns(ds, minSupport) == mineFreqPatternsFrom(ds, 0, minSupport)

\* Mutant of suppressSubPatterns: of two equal patterns both are kept.
suppressSubPatternsTwice(ps) ==
  LET keep == {i \in DOMAIN ps : ~ \E k \in DOMAIN ps \ {i} : patternContains(ps[k].seq, ps[i].seq)}
  IN [n \in 1 .. Cardinality(keep) |-> ps[SetToSortSeq(keep, <)[n]]]

suppressSubPatterns(ps) ==
  LET suppressed(i) == \E k \in DOMAIN ps \ {i} :
        (patternEquals(ps[i].seq, ps[k].seq) /\ i < k) \/ patternContains(ps[k].seq, ps[i].seq)
      keep == {i \in DOMAIN ps : ~ suppressed(i)}
  IN [n \in 1 .. Cardinality(keep) |-> ps[SetToSortSeq(keep, <)[n]]]

----------------------------------------------------------------------------
Seqs(S, lo, hi) == UNION {[1 .. n -> S] : n \in lo .. hi}

Fill(r, c) == [DenseMatrix(r, c) EXCEPT !.at = [p \in DenseCells(r, c) |-> 10 * p[1] + p[2]]]

Init ==
  /\ GraphInit /\ TuplesInit /\ RoadInit /\ DEBSInit /\ median = AggrMedian_init
  /\ \/ algorithm \in {"graph", "tuples", "median", "road", "debs"} /\ input = <<>>
     \/ algorithm = "codec" /\ input \in CodecInputs
     \/ algorithm = "text" /\ input \in TextInputs
     \/ algorithm = "mining" /\ \E a, b \in Seqs(Items, 1, MaxLen), n \in 1 .. 2 : input = [ds |-> <<a, b>>, minSupport |-> n]
     \/ algorithm = "dense" /\ \E r, c, at \in 0 .. 3, k \in 0 .. 2 : input = [r |-> r, c |-> c, at |-> at, k |-> k]

Next ==
  \/ algorithm = "graph" /\ GraphNext /\ UNCHANGED <<tupleVars, useCaseVars, algorithm, input, median>>
  \/ algorithm = "tuples" /\ TuplesNext /\ UNCHANGED <<graphVars, useCaseVars, algorithm, input, median>>
  \/ algorithm = "road" /\ RoadNext /\ UNCHANGED <<graphVars, tupleVars, debsVars, algorithm, input, median>>
  \/ algorithm = "debs" /\ DEBSNext /\ UNCHANGED <<graphVars, tupleVars, roadVars, algorithm, input, median>>
  \/ medianStep

Spec == Init /\ [][Next]_vars

----------------------------------------------------------------------------
\* The median that is kept while values enter and leave is the median of the
\* values that are there (of values that are all different).
MedianExact ==
  LET n == median.total
      s == SetToSortSeq(DOMAIN median.mapElement, <)
  IN n = Len(s) /\ (n > 0 =>
       AggrMedian_value(median) = IF n % 2 = 0 THEN s[n \div 2] + s[n \div 2 + 1] ELSE 2 * s[n \div 2 + 1])

\* What the miner reports was really seen: each pattern, without a gap, in at
\* least minSupport trajectories and in as many as its frequency says.  If no
\* trajectory visits a place twice, it reports every such pattern of two or
\* more items.
MinedPatterns ==
  algorithm = "mining" =>
    LET ds == input.ds
        mined == ToSet(mineFreqPatterns(ds, input.minSupport))
        Support(s) == Cardinality({i \in DOMAIN ds : \E k \in 0 .. Len(ds[i]) : isEqualAt(ds[i], k, s)})
    IN /\ \A p \in mined : Support(p.seq) >= p.freq /\ p.freq >= input.minSupport
       /\ (\A i \in DOMAIN ds : IsInjective(ds[i])) =>
            {p.seq : p \in mined} = {s \in Seqs(Items, 2, MaxLen) : Support(s) >= input.minSupport}

\* Of the mined patterns suppressSubPatterns leaves the ones that are part of
\* no longer one, each once, however often the recursion found it.
MaximalPatterns ==
  algorithm = "mining" =>
    LET mined == mineFreqPatterns(input.ds, input.minSupport)
        kept == suppressSubPatterns(mined)
        seqs == {p.seq : p \in ToSet(mined)}
    IN /\ {p.seq : p \in ToSet(kept)} = {s \in seqs : ~ \E t \in seqs : patternContains(t, s)}
       /\ \A i, k \in DOMAIN kept : kept[i].seq = kept[k].seq => i = k

\* The iterator of a dense matrix with a row and a column visits every cell
\* once and then compares equal to end(), and goes the same way back.
DenseWalkExact ==
  algorithm = "dense" /\ input.r > 0 /\ input.c > 0 =>
    LET a == Fill(input.r, input.c)
        w == denseWalk(a, <<0, 0>>, 1 + a.rows * a.cols)
    IN /\ ToSet(w) = DenseCells(a.rows, a.cols) /\ IsInjective(w)
       /\ \A i \in 1 .. Len(w) - 1 : decIters(a, w[i + 1]) = w[i]

\* Rows or columns inserted and removed again leave the matrix as it was, as
\* long as no more rows (columns) move than are inserted; inserting an empty
\* matrix changes nothing.
InsertRemoveInverse ==
  algorithm = "dense" /\ input.r > 0 /\ input.c > 0 =>
    LET a == Fill(input.r, input.c)
        Undo(b, n, del(_, _), at) == FoldLeft(LAMBDA x, i : del(x, at), b, [i \in 1 .. n |-> i])
    IN /\ input.at <= a.rows /\ (a.rows - input.at <= input.k \/ input.k = 0) =>
            Undo(insertRow(a, input.at, Fill(input.k, a.cols)), input.k, denseRemoveRow, input.at) = a
       /\ input.at <= a.cols /\ (a.cols - input.at <= input.k \/ input.k = 0) =>
            Undo(insertCol(a, input.at, Fill(a.rows, input.k)), input.k, denseRemoveCol, input.at) = a

\* The incidents of a column vector come back as they were added.  (For a row
\* vector getIncident takes the indexes of the first one.)
IncidentsKept ==
  algorithm = "dense" =>
    LET Added(i) == <<i, 2 * i, 100 + i>>
        s == FoldLeft(LAMBDA x, i : addIncident(x, FALSE, i, 2 * i, 100 + i),
                      [a |-> DenseMatrix(0, 0), incidentIndexes |-> <<>>], [i \in 1 .. input.r |-> i])
    IN \A i \in 1 .. input.r : getIncident(s, FALSE, i - 1) = Added(i)

\* What serialize writes deserialize reads, for values of every kind, and a
\* punctuation that is sent arrives with its type and timestamp.
CodecsExact ==
  algorithm = "codec" =>
    /\ CodecExact(input[1], input[2])
    /\ input[1].k = "plain" =>
         LET p == [ptype |-> 3, ts |-> input[2]] IN PunctuationFromStream(PunctuationToStream(p, <<>>)) = p

\* What print writes parseTuple reads.
TextsExact == algorithm = "text" => TextExact(input)

\* The algorithms compute what their definitions say: the walks and the algorithms on
\* graphs, dense matrices, the byte and text formats, the median, the pattern miner.
AlgorithmsExact ==
  /\ EdgesListed /\ EdgesAsStored /\ ShortestPathExact /\ SpanningTreeMinimal
  /\ DenseWalkExact /\ InsertRemoveInverse /\ IncidentsKept
  /\ WireExact /\ CodecsExact /\ TextsExact
  /\ MedianExact /\ MinedPatterns /\ MaximalPatterns

\* Linear Road and DEBS 2017: whatever enters and leaves the windows, the state the
\* programs keep is that of the benchmark's definitions over the whole stream.
UseCasesExact ==
  /\ AccidentsStopped /\ AlertsBacked /\ SpeedsExact /\ EntriesNoted
  /\ PassedWithMetadata /\ RowsAreWindow /\ ClustersNearest /\ SequenceProbable

\* No operation on a graph changes what it was not called for (remove_edge, removeRow).
GraphsKept == EdgesKept /\ OthersKept
=============================================================================
