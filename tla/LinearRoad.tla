----------------------------- MODULE LinearRoad -------------------------------
(***************************************************************************)
(* The Linear Road use case: position reports of vehicles pass a sliding    *)
(* window; an outdated report is erased, a new one updates the reports, the *)
(* accidents and the speeds of its segment and may cause a toll            *)
(* notification or an accident alert.  The functions of the benchmark's     *)
(* paper (FunctionsFromPaper.cpp), over the set of all reports, are the     *)
(* reference.  A report is [t, v, spd, x, l, d, s, pos]; averages are       *)
(* fractions <<numerator, denominator>>.                                    *)
(***************************************************************************)
EXTENDS Integers, Sequences, FiniteSets, FiniteSetsExt, SequencesExt, Functions

CONSTANTS Vehicles,          \* vehicle identifiers (VID)
          Places,            \* places: records [x, l, d, s, pos]
          SpeedAt(_, _),     \* the speed a vehicle reports at a time
          slidingWindowSize, \* seconds (600 in the code)
          TollCars,          \* cars in a segment without toll (50 in the code)
          LastTime,          \* bound: time of the last report
          MaxMoves           \* bound: changes of place

\* assignTimestamps multiplies the time of a report, an int, by 1000 * 1000: up
\* to here the product is an int too, and microseconds compare like seconds.
\* Beyond it (the program runs to 12000) the product overflows.
TimestampLimit == 2147

ASSUME LinearRoadAssumption ==
  slidingWindowSize \in Nat /\ TollCars \in Nat /\ LastTime \in 0 .. TimestampLimit /\ MaxMoves \in Nat

VARIABLES road,      \* the global maps and sets of the program
          window,    \* the buffer of the sliding window
          reports,   \* history: all reports so far
          notes,     \* history: the tolls and alerts printed, with their report
          moves      \* changes of place so far

roadVars == <<road, window, reports, notes, moves>>

----------------------------------------------------------------------------
(* Fractions. *)

Plus(a, b) == <<a[1] * b[2] + b[1] * a[2], a[2] * b[2]>>
Over(a, n) == <<a[1], a[2] * n>>
Same(a, b) == a[1] * b[2] = b[1] * a[2]
SumOver(f(_), S) == MapThenFoldSet(Plus, <<0, 1>>, f, LAMBDA T : CHOOSE x \in T : TRUE, S)

----------------------------------------------------------------------------
(* The helpers.  Division truncates towards zero. *)

M(t) == (IF t < 0 THEN -((-t) \div 60) ELSE t \div 60) + 1

PosID(t, v) == <<v, t>>
SegID(m, x, s, d) == [m |-> m, x |-> x, s |-> s, d |-> d]
AccidentID(r) == [x |-> r.x, s |-> r.s, v |-> r.v, m |-> M(r.t), d |-> r.d]

eraseFromPosReports(a, t, v) == [a EXCEPT !.posReports = Restrict(@, DOMAIN @ \ {PosID(t, v)})]
eraseFromSegs(a, v) == [a EXCEPT !.segs = Restrict(@, DOMAIN @ \ {v})]

\* insert keeps what is there
addToPosReports(a, r) ==
  [a EXCEPT !.posReports = IF PosID(r.t, r.v) \in DOMAIN @ THEN @
                           ELSE [k \in DOMAIN @ \union {PosID(r.t, r.v)} |-> IF k \in DOMAIN @ THEN @[k] ELSE r]]

deleteSpeedEntries(a, m) == [a EXCEPT !.spdOfSegments = Restrict(@, {k \in DOMAIN @ : k.m > m})]

\* Mutant of changedSegment: the new segment is not stored.
changedSegmentStale(a, v, s) ==
  IF v \notin DOMAIN a.segs THEN [a |-> [a EXCEPT !.segs = [x \in DOMAIN @ \union {v} |-> IF x = v THEN s ELSE @[x]]], changed |-> FALSE]
  ELSE [a |-> a, changed |-> a.segs[v] # s]

\* the segment of the vehicle, known or not, is s from now on
changedSegment(a, v, s) ==
  [a |-> [a EXCEPT !.segs = [x \in DOMAIN @ \union {v} |-> IF x = v THEN s ELSE @[x]]],
   changed |-> v \in DOMAIN a.segs /\ a.segs[v] # s]

\* Mutant of addToSpeedEntries: a second report of the minute replaces the first.
addToSpeedEntriesLast(a, r) ==
  LET key == SegID(M(r.t), r.x, r.s, r.d)
      segMap == IF key \in DOMAIN a.spdOfSegments THEN a.spdOfSegments[key] ELSE <<>>
      new == [v \in DOMAIN segMap \union {r.v} |-> IF v = r.v THEN [sum |-> r.spd, n |-> 1] ELSE segMap[v]]
  IN [a EXCEPT !.spdOfSegments = [k \in DOMAIN @ \union {key} |-> IF k = key THEN new ELSE @[k]]]

addToSpeedEntries(a, r) ==
  LET key == SegID(M(r.t), r.x, r.s, r.d)
      segMap == IF key \in DOMAIN a.spdOfSegments THEN a.spdOfSegments[key] ELSE <<>>
      entry == IF r.v \in DOMAIN segMap THEN [sum |-> segMap[r.v].sum + r.spd, n |-> segMap[r.v].n + 1]
               ELSE [sum |-> r.spd, n |-> 1]
      new == [v \in DOMAIN segMap \union {r.v} |-> IF v = r.v THEN entry ELSE segMap[v]]
  IN [a EXCEPT !.spdOfSegments = [k \in DOMAIN @ \union {key} |-> IF k = key THEN new ELSE @[k]]]

----------------------------------------------------------------------------
(* The functions of the paper as the program computes them. *)

\* the first report of v from t - 30 i on and before t - 30 (i - 1)
lastReport(a, i, v, t) ==
  LET found == {k \in DOMAIN a.posReports : k[1] = v /\ k[2] \in t - 30 * i .. t - 30 * (i - 1) - 1}
  IN IF found = {} THEN [t |-> 0, v |-> 0, spd |-> 0, x |-> 0, l |-> 0, d |-> 0, s |-> 0, pos |-> 0]
     ELSE a.posReports[PosID(Min({k[2] : k \in found}), v)]

\* Mutant of Stop: three reports are enough.
StopThree(a, v, t, x, l, pos, d) ==
  \A i \in 1 .. 3 : LET last == lastReport(a, i, v, t) IN last.x = x /\ last.l = l /\ last.pos = pos /\ last.d = d

Stop(a, v, t, x, l, pos, d) ==
  \A i \in 1 .. 4 : LET last == lastReport(a, i, v, t) IN last.x = x /\ last.l = l /\ last.pos = pos /\ last.d = d

Updated(a, r) ==
  IF r.l \notin {0, 4} /\ Stop(a, r.v, r.t, r.x, r.l, r.pos, r.d) THEN a.accidents \union {AccidentID(r)}
  ELSE a.accidents \ {AccidentID(r)}

Ahead(r, e) ==
  /\ e.x = r.x /\ e.m = M(r.t - 1) /\ e.d = r.d
  /\ e.s \in (IF r.d = 0 THEN r.s .. r.s + 4 ELSE r.s - 4 .. r.s)

\* Mutant of DetectAccident: one stopped vehicle is an accident.
DetectAccidentOne(a, r) ==
  LET accidents == Updated(a, r)
      entries == {e \in accidents : Ahead(r, e)}
  IN [a |-> [a EXCEPT !.accidents = accidents],
      seg |-> IF entries = {} THEN -1 ELSE (CHOOSE e \in entries : TRUE).s]

\* The segment is that of the second entry ahead: the entries of two segments
\* make an accident too.
DetectAccident(a, r) ==
  LET accidents == Updated(a, r)
      entries == SetToSortSeq({e \in accidents : Ahead(r, e)}, LAMBDA p, q : p.s < q.s \/ (p.s = q.s /\ p.v < q.v))
  IN [a |-> [a EXCEPT !.accidents = accidents],
      seg |-> IF Len(entries) >= 2 THEN entries[2].s ELSE -1]

Avgs(a, m, x, s, d) ==
  LET key == SegID(m, x, s, d)
  IN IF key \notin DOMAIN a.spdOfSegments THEN <<0, 1>>
     ELSE LET segMap == a.spdOfSegments[key]
          IN Over(SumOver(LAMBDA v : <<segMap[v].sum, segMap[v].n>>, DOMAIN segMap), Cardinality(DOMAIN segMap))

Lav(a, m, x, s, d) ==
  LET minutes == {m - i : i \in 1 .. 5} \cap (1 .. m)
      sum == SumOver(LAMBDA k : Avgs(a, k, x, s, d), minutes)
  IN IF minutes = {} THEN 0 ELSE sum[1] \div (sum[2] * Cardinality(minutes))

Cars(a, m, x, s, d) ==
  LET key == SegID(m, x, s, d)
  IN IF key \in DOMAIN a.spdOfSegments THEN Cardinality(DOMAIN a.spdOfSegments[key]) ELSE 0

\* 2 * (cars - 50) ^ 2 in C++: the exclusive or with 2.
toll(cars) == LET n == 2 * (cars - TollCars) IN IF (n \div 2) % 2 = 0 THEN n + 2 ELSE n - 2

----------------------------------------------------------------------------
(* The pipeline. *)

\* The time in minutes is turned into minutes once more: what is deleted on
\* entering a minute is minute 1 (until minute 66).
adjustTime(a, r) ==
  LET b == [a EXCEPT !.seconds = r.t]
  IN IF r.t <= a.seconds THEN a
     ELSE IF M(r.t) <= a.minute THEN b
     ELSE deleteSpeedEntries([b EXCEPT !.minute = M(r.t)], M(M(r.t) - 6))

\* the operator behind the window, for an active report
processReport(a, r) ==
  LET b == DetectAccident(addToSpeedEntries(addToPosReports(adjustTime(a, r), r), r), r)
      c == changedSegment(b.a, r.v, r.s)
      lav == Lav(b.a, M(r.t), r.x, r.s, r.d)
      cars == Cars(b.a, M(r.t) - 1, r.x, r.s, r.d)
      pay == IF lav < 40 /\ b.seg = -1 /\ cars > TollCars THEN toll(cars) ELSE 0
      printed == (IF pay > 0 THEN {[type |-> 0, r |-> r, lav |-> lav, toll |-> pay]} ELSE {})
                 \union (IF b.seg # -1 THEN {[type |-> 1, r |-> r, s |-> b.seg]} ELSE {})
  IN IF r.l = 4 THEN [a |-> b.a, printed |-> {}]
     ELSE [a |-> c.a, printed |-> IF c.changed THEN printed ELSE {}]

Outdate(a, old) == FoldLeft(LAMBDA x, r : eraseFromSegs(eraseFromPosReports(x, r.t, r.v), r.v), a, old)

\* The window publishes what the new report makes outdated, then the report.
positionReport(r) ==
  LET all == Append(window, r)
      old == IF r.t >= slidingWindowSize THEN SelectSeq(all, LAMBDA o : o.t <= r.t - slidingWindowSize) ELSE <<>>
      res == processReport(Outdate(road, old), r)
  IN /\ window' = SubSeq(all, Len(old) + 1, Len(all))
     /\ road' = res.a
     /\ notes' = notes \union res.printed
     /\ reports' = reports \union {r}

RoadInit ==
  /\ road = [posReports |-> <<>>, segs |-> <<>>, accidents |-> {}, spdOfSegments |-> <<>>, seconds |-> 0, minute |-> 1]
  /\ window = <<>> /\ reports = {} /\ notes = {} /\ moves = 0

\* Every vehicle reports every 30 seconds (those of one second in the order of
\* their identifiers), at most MaxMoves times from another place than before.
RoadNext ==
  \E v \in Vehicles, p \in Places :
    LET own == {r \in reports : r.v = v}
        t == 30 * Cardinality(own)
        moved == own # {} /\ \E r \in own : r.t = t - 30 /\ r.pos # p.pos
    IN /\ t <= LastTime
       /\ \A w \in Vehicles : (t = 0 /\ w >= v) \/ \E r \in reports : r.v = w /\ r.t = IF w < v THEN t ELSE t - 30
       /\ moved => moves < MaxMoves
       /\ moves' = moves + (IF moved THEN 1 ELSE 0)
       /\ positionReport([t |-> t, v |-> v, spd |-> SpeedAt(v, t)] @@ p)

----------------------------------------------------------------------------
(* The reference: the paper's functions over the set of reports. *)

Paper_Last(i, v, t) == {r \in reports : r.v = v /\ 30 * (i - 1) <= t - r.t /\ t - r.t < 30 * i}
Paper_cars(m, x, s, d) == {r.v : r \in {q \in reports : M(q.t) = m /\ q.x = x /\ q.s = s /\ q.d = d}}
Paper_Avgsv(v, m, x, s, d) ==
  LET own == {r \in reports : r.v = v /\ M(r.t) = m /\ r.x = x /\ r.s = s /\ r.d = d}
  IN <<MapThenSumSet(LAMBDA r : r.spd, own), Cardinality(own)>>
Paper_Avgs(m, x, s, d) ==
  LET vids == Paper_cars(m, x, s, d)
  IN IF vids = {} THEN <<0, 1>> ELSE Over(SumOver(LAMBDA v : Paper_Avgsv(v, m, x, s, d), vids), Cardinality(vids))
Paper_Stop(v, t, x, l, pos, d) ==
  \A i \in 1 .. 4 : \E r \in Paper_Last(i, v, t) : r.x = x /\ r.l = l /\ r.pos = pos /\ r.d = d

\* A vehicle counts as stopped only if it is stopped in the paper's sense too:
\* its last reports are from one place of a travel lane, none missing.
AccidentsStopped ==
  \A e \in road.accidents : \E r \in reports :
    /\ r.v = e.v /\ r.x = e.x /\ r.s = e.s /\ r.d = e.d /\ M(r.t) = e.m /\ r.l \in 1 .. 3
    /\ Paper_Stop(r.v, r.t, r.x, r.l, r.pos, r.d)
    /\ \E q \in reports : q.v = r.v /\ q.t = r.t - 120 /\ q.pos = r.pos

\* An accident alert is printed only if two different vehicles stopped on the
\* segments ahead in the minute before the report.
AlertsBacked ==
  \A n \in {k \in notes : k.type = 1} :
    Cardinality({q.v : q \in {k \in reports : /\ k.x = n.r.x /\ k.d = n.r.d /\ M(k.t) = M(n.r.t - 1)
                                              /\ k.s - n.r.s \in (IF k.d = 0 THEN 0 .. 4 ELSE -4 .. 0)
                                              /\ Paper_Stop(k.v, k.t, k.x, k.l, k.pos, k.d)}}) >= 2

\* The numbers of cars and the average speeds kept per segment and minute are
\* those of the paper; but of minute 1 nothing is left once the next minute is
\* entered, since deleteSpeedEntries takes a minute for a second.
SpeedsExact ==
  \A r \in reports :
    LET m == M(r.t)
    IN IF m = 1 /\ road.minute > 1 THEN Cars(road, m, r.x, r.s, r.d) = 0
       ELSE /\ Cars(road, m, r.x, r.s, r.d) = Cardinality(Paper_cars(m, r.x, r.s, r.d))
            /\ Same(Avgs(road, m, r.x, r.s, r.d), Paper_Avgs(m, r.x, r.s, r.d))

\* The reports that were processed before r, and r.
UpTo(r) == {k \in reports : k.t < r.t \/ (k.t = r.t /\ k.v <= r.v)}

\* r comes from another segment than the report q of its vehicle before it, and
\* no report of the vehicle left the window since (that erases its segment).
Entered(r) ==
  /\ r.l # 4
  /\ \E q \in reports :
       /\ q.v = r.v /\ q.t < r.t /\ q.l # 4 /\ q.s # r.s
       /\ ~ \E k \in reports : k.v = r.v /\ k.l # 4 /\ q.t < k.t /\ k.t < r.t
       /\ ~ \E o \in reports : o.v = r.v /\ q.t - slidingWindowSize < o.t /\ o.t <= r.t - slidingWindowSize

\* r is the fifth report in a row from one place of a travel lane.
Stopped(r) ==
  /\ r.l \notin {0, 4}
  /\ \A i \in 1 .. 4 : \E q \in reports :
       q.v = r.v /\ q.t = r.t - 30 * i /\ q.x = r.x /\ q.l = r.l /\ q.pos = r.pos /\ q.d = r.d

\* The vehicles whose last report of the minute before r says that they are
\* stopped on the segments ahead of r.
StoppedAhead(r) ==
  {k.v : k \in {x \in UpTo(r) : /\ x.x = r.x /\ x.d = r.d /\ M(x.t) = M(r.t - 1)
                               /\ x.s - r.s \in (IF r.d = 0 THEN 0 .. 4 ELSE -4 .. 0)
                               /\ Stopped(x)
                               /\ ~ \E y \in UpTo(r) : y.v = x.v /\ M(y.t) = M(x.t) /\ y.t > x.t}}

\* No alert is missed: a vehicle that enters a segment is alerted when two
\* vehicles are stopped ahead, unless a report of its own has left the window
\* since its last one.  Then nothing is printed for it.
EntriesNoted ==
  \A r \in reports :
    /\ Entered(r) /\ Cardinality(StoppedAhead(r)) >= 2 => \E n \in notes : n.type = 1 /\ n.r = r
    /\ ~ Entered(r) => ~ \E n \in notes : n.r = r
=============================================================================
