---------------------- MODULE WindowAggregation_proofs ----------------------
(***************************************************************************)
(* Proof that the windows are exact, for every kind and size of window and *)
(* any number of tuples: the buffer is bounded by the window, and what the *)
(* subscribers were told agrees with it.  And that the incremental         *)
(* aggregates behind them, of all tuples and by groups, are those of the   *)
(* valid tuples.                                                           *)
(***************************************************************************)
EXTENDS WindowAggregation, SequenceTheorems, FiniteSetTheorems, FunctionTheorems,
        WellFoundedInduction, NaturalsInduction, TLAPS

-----------------------------------------------------------------------------
(* The inductive invariant.                                                *)

Element == [kind: {"new", "outdated", "WindowExpired"}, t: [id: Nat, val: Nat, ts: Nat]]

WindowType ==
    /\ conf \in Configs
    /\ mTupleBuf \in Seq(Tuples) /\ arrived \in 0 .. MaxTuples
    /\ mMtx \in Threads \cup {"none"}
    /\ pc \in {"idle", "evict", "publish"}
    /\ data \in [id: Nat, val: Nat, ts: Nat]
    /\ todo \in [Threads -> Seq(Element)]
    /\ \A th \in Threads : Len(todo[th]) <= MaxTuples + 1
    /\ delivered \in Seq(Element)
    /\ grpThread \in {"ok", "locks twice", "bad_get"}

\* The buffer holds the last tuples that arrived, in their order, and the
\* counter is its length.  A window is emptied only by its rows.
Evicted == arrived - Len(mTupleBuf)
BufferInv ==
    /\ mCurrSize = Len(mTupleBuf) /\ Len(mTupleBuf) <= arrived
    /\ \A i \in 1 .. Len(mTupleBuf) : mTupleBuf[i].id = Evicted + i
    /\ mTupleBuf = <<>> /\ arrived > 0 => conf.win = "TumblingRow"
    /\ conf.win = "TumblingRow" => Len(mTupleBuf) <= WinSize /\ Evicted % WinSize = 0

\* An arrival has been followed by its eviction.
Settled == pc = "idle" \/ (pc = "publish" /\ ~EvictsLast)
SettledInv == Settled /\ ~conf.thread /\ mTupleBuf # <<>> => Expired(mTupleBuf) = 0

\* Who evicts, and what the source's thread is about to do.
Evictor == IF conf.thread THEN "evict" ELSE "source"
SourceInv ==
    /\ pc # "idle" => arrived > 0 /\ data.id = arrived
    /\ ~Settled => mTupleBuf # <<>>
    /\ pc = "evict" => ~conf.thread
    /\ conf.thread => ~EvictsLast
    /\ ~conf.thread => todo["evict"] = <<>>

\* The tuple that arrived last has not been announced yet.
Unannounced ==
    \/ pc = "publish" \/ (pc = "evict" /\ ~EvictsLast)
    \/ todo["source"] # <<>> /\ todo["source"][1].kind = "new"

\* s: outdated tuples with the IDs behind g, n of them, and for a tumbling
\* window WindowExpired after the last.
Evicting(s, g, n) ==
    /\ n <= Len(s)
    /\ \A j \in 1 .. n : s[j].kind = "outdated" /\ s[j].t.id = g + j
    /\ \/ Len(s) = n
       \/ /\ Len(s) = n + 1 /\ s[n + 1] = WindowExpired
          /\ \/ conf.win = "TumblingRow" /\ Len(mTupleBuf) = 0
             \/ conf.win = "TumblingRange" /\ Len(mTupleBuf) = 1

\* The source's thread is announcing a tuple.
Announcing ==
    /\ Len(todo["source"]) = 1 /\ todo["source"][1].kind = "new"
    /\ todo["source"][1].t.id = arrived /\ arrived > 0
    /\ pc # "publish" /\ (pc = "evict" <=> EvictsLast)

\* Subscribers know the tuples up to the last one as new and those up to g as
\* outdated, and the n tuples after these are on their way.
ToldTo(g, n) ==
    /\ g + n = Evicted
    /\ Ids("new") = 1 .. IF Unannounced THEN arrived - 1 ELSE arrived
    /\ Ids("outdated") = 1 .. g
    /\ conf.thread => /\ Evicting(todo["evict"], g, n)
                      /\ todo["source"] = <<>> \/ Announcing
    /\ ~conf.thread =>
         \/ Announcing /\ n = 0
         \/ /\ Evicting(todo["source"], g, n)
            /\ todo["source"] # <<>> => IF EvictsLast THEN pc = "idle" ELSE pc = "publish"
ToldInv == forwarded = {} => \E g, n \in Nat : ToldTo(g, n)

WindowInv ==
    /\ WindowType /\ BufferInv /\ SettledInv /\ SourceInv /\ ToldInv
    /\ OutdatedFollowsNew /\ ExpiredIsEmpty

-----------------------------------------------------------------------------
(* Facts about the operators.                                              *)

LEMMA ConfigFacts ==
  ASSUME NEW c \in Configs
  PROVE  /\ c.win \in {"SlidingRow", "SlidingRange", "TumblingRow", "TumblingRange"}
         /\ c.thread \in BOOLEAN /\ c.func \in BOOLEAN
         /\ c.thread => c.win = "SlidingRange"
<1>1. PICK w \in SlidingWindow \cup TumblingWindow, a \in Aggregation \cup AggregationByTimestamp,
           g \in GroupedAggregation \cup GroupedAggregationByTimestamp : 
             c = [win |-> w.win, thread |-> w.thread, func |-> w.func, agg |-> a.agg, grp |-> g.grp]
  BY ConfigAssumption DEF Config
<1>2. /\ w.win \in {"SlidingRow", "SlidingRange", "TumblingRow", "TumblingRange"}
      /\ w.thread \in BOOLEAN /\ w.func \in BOOLEAN
      /\ w.thread => w.win = "SlidingRange"
  BY DEF SlidingWindow, TumblingWindow
<1>3. c.win = w.win /\ c.thread = w.thread /\ c.func = w.func
  BY <1>1
<1> QED BY <1>2, <1>3

\* A multiple of the window's size stays one.
LEMMA NextMultiple ==
  ASSUME NEW a \in Nat, NEW w \in Nat \ {0}, a % w = 0
  PROVE  (a + w) % w = 0
<1>1. PICK q \in Int : a = w * q
  OBVIOUS
<1>2. a + w = (q + 1) * w /\ q + 1 \in Int /\ a + w \in Nat
  BY <1>1
<1>3. ASSUME NEW b \in Nat, NEW p \in Int, b = p * w PROVE b % w = 0
  BY <1>3
<1> QED BY <1>2, <1>3

\* A number that no smaller one exceeds.
LEMMA LargestOne ==
  ASSUME NEW n \in Nat, NEW S, S \subseteq 0 .. n, S # {}
  PROVE  /\ Max(S) \in S
         /\ \A x \in S : x <= Max(S)
<1> DEFINE T == {n - x : x \in S}
<1>0. \A x \in S : x \in Nat /\ n - x \in Nat
  OBVIOUS
<1>1. T \subseteq Nat /\ T # {}
  BY <1>0
<1>2. PICK y \in T : \A z \in T : <<z, y>> \notin OpToRel(<, Nat)
  <2> HIDE DEF T
  <2> QED BY <1>1, NatLessThanWellFounded, WFMin
<1>3. \A z \in T : ~(z < y)
  BY <1>1, <1>2 DEF OpToRel
<1>4. PICK m \in S : y = n - m
  BY <1>2
<1>5. \A x \in S : m >= x
  <2> TAKE x \in S
  <2>1. n - x \in T
    OBVIOUS
  <2>2. ~(n - x < n - m)
    BY <1>3, <1>4, <2>1
  <2> QED BY <1>0, <2>2
<1> QED BY <1>5 DEF Max

LEMMA TupleFacts ==
  ASSUME NEW t \in Tuples
  PROVE  t.id \in Nat /\ t.val \in Nat /\ t.ts \in Nat /\ t \in [id: Nat, val: Nat, ts: Nat]
<1>1. t.id \in 1 .. MaxTuples /\ t.val \in Values /\ t.ts \in 0 .. MaxTime
  BY DEF Tuples
<1>2. t.id \in Nat /\ t.val \in Nat /\ t.ts \in Nat
  <2>1. Values \subseteq Nat /\ MaxTuples \in Nat /\ MaxTime \in Nat
    BY SizeAssumption
  <2>2. t.val \in Nat
    BY <1>1, <2>1
  <2>3. t.id \in Nat
    BY <1>1, <2>1
  <2>4. t.ts \in Nat
    BY <1>1, <2>1
  <2> QED BY <2>2, <2>3, <2>4
<1>3. t = [id |-> t.id, val |-> t.val, ts |-> t.ts]
  BY DEF Tuples
<1> QED BY <1>2, <1>3

\* What is left when k elements are taken from the front.
LEMMA RestFacts ==
  ASSUME NEW S, NEW buf \in Seq(S), NEW k \in 0 .. Len(buf),
         NEW rest, rest = SubSeq(buf, k + 1, Len(buf))
  PROVE  /\ rest \in Seq(S) /\ Len(rest) = Len(buf) - k
         /\ \A i \in 1 .. Len(buf) - k : rest[i] = buf[k + i]
<1>0. Len(buf) \in Nat /\ k \in Nat /\ k + 1 \in 1 .. Len(buf) + 1
  OBVIOUS
<1>1. \A i \in k + 1 .. Len(buf) : buf[i] \in S
  BY <1>0
<1>2. rest \in Seq(S)
  BY <1>0, <1>1, SubSeqProperties
<1>3. Len(rest) = Len(buf) - k
  <2>1. Len(rest) = IF k + 1 <= Len(buf) THEN Len(buf) - (k + 1) + 1 ELSE 0
    BY <1>0, SubSeqProperties
  <2> QED BY <1>0, <2>1
<1>4. \A i \in 1 .. Len(buf) - k : rest[i] = buf[k + i]
  <2> TAKE i \in 1 .. Len(buf) - k
  <2>1. rest[i] = buf[k + 1 + i - 1]
    BY <1>0, SubSeqProperties
  <2>2. k + 1 + i - 1 = k + i
    BY <1>0
  <2> QED BY <2>1, <2>2
<1> QED BY <1>2, <1>3, <1>4

\* The youngest tuple is never late.
LEMMA LastNotLate ==
  ASSUME NEW buf \in Seq(Tuples), buf # <<>>
  PROVE  ~Late(buf, Len(buf))
<1>1. Len(buf) \in 1 .. Len(buf)
  OBVIOUS
<1>2. buf[Len(buf)] \in Tuples
  BY <1>1
<1>3. buf[Len(buf)].ts \in Nat
  BY <1>2, TupleFacts
<1> QED BY <1>3, SizeAssumption DEF Late

LEMMA NobodyLate ==
  ASSUME NEW buf \in Seq(Tuples), ~Late(buf, 1), buf # <<>>
  PROVE  SlidingByTime(buf) = 0
<1> DEFINE S == {n \in 0 .. Len(buf) : \A i \in 1 .. n : Late(buf, i)}
<1>0. Len(buf) \in Nat
  OBVIOUS
<1>1. S \subseteq 0 .. Len(buf) /\ 0 \in S
  BY <1>0
<1>2. \A n \in S : n = 0
  BY <1>0
<1>3. Max(S) \in S
  <2> HIDE DEF S
  <2> QED BY <1>0, <1>1, LargestOne
<1> QED BY <1>2, <1>3 DEF SlidingByTime

\* An eviction by time takes all late tuples and leaves the youngest.
LEMMA LateEvicted ==
  ASSUME NEW buf \in Seq(Tuples), buf # <<>>, NEW k, k = SlidingByTime(buf),
         NEW rest, rest = SubSeq(buf, k + 1, Len(buf))
  PROVE  k \in 0 .. Len(buf) - 1 /\ ~Late(rest, 1)
<1> DEFINE S == {n \in 0 .. Len(buf) : \A i \in 1 .. n : Late(buf, i)}
<1>0. Len(buf) \in Nat /\ Len(buf) >= 1
  OBVIOUS
<1>1. S \subseteq 0 .. Len(buf) /\ 0 \in S
  BY <1>0
<1>2. k = Max(S)
  BY DEF SlidingByTime
<1>3. k \in S /\ \A x \in S : x <= k
  <2> HIDE DEF S
  <2> QED BY <1>0, <1>1, <1>2, LargestOne
<1>4. k # Len(buf)
  BY <1>0, <1>3, LastNotLate
<1>5. k \in 0 .. Len(buf) - 1
  BY <1>0, <1>3, <1>4
<1>6. ~Late(buf, k + 1)
  <2> SUFFICES ASSUME Late(buf, k + 1) PROVE k + 1 \in S
    BY <1>3, <1>5
  <2>1. \A i \in 1 .. k + 1 : i \in 1 .. k \/ i = k + 1
    BY <1>5
  <2>2. \A i \in 1 .. k : Late(buf, i)
    BY <1>3
  <2> QED BY <1>0, <1>5, <2>1, <2>2
<1>7. /\ Len(rest) = Len(buf) - k
      /\ rest[1] = buf[k + 1] /\ rest[Len(rest)] = buf[Len(buf)]
  <2>1. k \in 0 .. Len(buf)
    BY <1>5
  <2>2. /\ Len(rest) = Len(buf) - k
        /\ \A i \in 1 .. Len(buf) - k : rest[i] = buf[k + i]
    BY <2>1, RestFacts
  <2>3. 1 \in 1 .. Len(buf) - k /\ Len(buf) - k \in 1 .. Len(buf) - k /\ k + (Len(buf) - k) = Len(buf)
    BY <1>0, <1>5
  <2> QED BY <2>2, <2>3
<1> QED BY <1>5, <1>6, <1>7 DEF Late

-----------------------------------------------------------------------------
(* An eviction.                                                            *)

LEMMA ArrivedNat ==
  ASSUME WindowType
  PROVE  arrived \in Nat /\ arrived <= MaxTuples /\ MaxTuples \in Nat
<1>1. arrived \in 0 .. MaxTuples
  BY DEF WindowType
<1> QED BY <1>1, SizeAssumption

\* evictByCount and evictByTime leave a window that has nothing to evict.
LEMMA EvictFacts ==
  ASSUME WindowType, BufferInv, mTupleBuf # <<>>, NEW th, Evict(th), UNCHANGED <<conf, arrived>>,
         NEW k, k = Expired(mTupleBuf)
  PROVE  /\ k \in 0 .. Len(mTupleBuf)
         /\ mTupleBuf' \in Seq(Tuples) /\ Len(mTupleBuf') = Len(mTupleBuf) - k
         /\ BufferInv'
         /\ mTupleBuf' # <<>> => Expired(mTupleBuf)' = 0
         /\ Tumbling /\ k > 0 => \/ conf.win = "TumblingRow" /\ Len(mTupleBuf') = 0
                                 \/ conf.win = "TumblingRange" /\ Len(mTupleBuf') = 1
<1>0. PICK buf, rest : buf \in Seq(Tuples) /\ buf = mTupleBuf /\ rest = mTupleBuf'
  BY DEF WindowType
<1>n. PICK n \in Nat \ {0} : n = Len(buf)
  BY <1>0
<1>a. n <= arrived /\ arrived \in Nat /\ \A i \in 1 .. n : buf[i].id = arrived - n + i
  <2>1. arrived \in Nat
    BY ArrivedNat
  <2> QED BY <1>0, <1>n, <2>1 DEF BufferInv, Evicted
<1>w. PICK w \in Nat \ {0} : w = WinSize
  BY SizeAssumption
<1>1. rest = SubSeq(buf, k + 1, n) /\ mCurrSize' = SizeAfter(k) /\ mCurrSize = n
  BY <1>0, <1>n DEF Evict, BufferInv
<1>2. conf.win \in {"SlidingRow", "SlidingRange", "TumblingRow", "TumblingRange"}
  BY ConfigFacts DEF WindowType
<1>3. CASE conf.win = "SlidingRow"
  <2>1. k = IF n > w THEN n - w ELSE 0
    BY <1>0, <1>1, <1>3, <1>w DEF Expired, SlidingByCount
  <2>2. k \in 0 .. n - 1
    BY <2>1
  <2>3. Len(rest) = n - k /\ rest \in Seq(Tuples) /\ \A i \in 1 .. n - k : rest[i] = buf[k + i]
    BY <1>0, <1>1, <1>n, <2>2, RestFacts, SMTT(60)
  <2>4. mCurrSize' = n - k
    BY <1>1, <1>3 DEF SizeAfter, Tumbling
  <2>5. mCurrSize' <= w
    BY <2>1, <2>4
  <2>6. Expired(mTupleBuf)' = 0
    BY <2>5, <1>3, <1>w, <2>4, <2>2 DEF Expired, SlidingByCount
  <2>7. BufferInv'
    <3>1. n <= arrived /\ arrived \in Nat /\ \A i \in 1 .. n : buf[i].id = arrived - n + i
      BY <1>a
    <3>2. \A i \in 1 .. n - k : rest[i].id = arrived - (n - k) + i
      <4> TAKE i \in 1 .. n - k
      <4>1. k + i \in 1 .. n /\ arrived - n + (k + i) = arrived - (n - k) + i
        BY <2>2, <3>1, SMTT(60)
      <4> QED BY <2>3, <3>1, <4>1
    <3>3. rest # <<>> /\ n - k <= arrived
      BY <2>2, <2>3, <3>1
    <3> QED BY <1>0, <1>3, <2>3, <2>4, <3>2, <3>3 DEF BufferInv, Evicted
  <2> QED BY <1>0, <1>n, <1>3, <2>2, <2>3, <2>6, <2>7 DEF Tumbling
<1>4. CASE conf.win = "SlidingRange"
  <2>1. k = SlidingByTime(buf)
    BY <1>0, <1>4 DEF Expired
  <2>2. k \in 0 .. n - 1 /\ ~Late(rest, 1)
    BY <1>0, <1>1, <1>n, <2>1, LateEvicted
  <2>3. Len(rest) = n - k /\ rest \in Seq(Tuples) /\ \A i \in 1 .. n - k : rest[i] = buf[k + i]
    BY <1>0, <1>1, <1>n, <2>2, RestFacts, SMTT(60)
  <2>4. mCurrSize' = n - k
    BY <1>1, <1>4 DEF SizeAfter, Tumbling
  <2>5. rest # <<>>
    BY <2>2, <2>3
  <2>6. SlidingByTime(rest) = 0
    BY <2>2, <2>3, <2>5, NobodyLate
  <2>7. Expired(mTupleBuf)' = 0
    BY <1>0, <1>4, <2>6 DEF Expired
  <2>8. BufferInv'
    <3>1. n <= arrived /\ arrived \in Nat /\ \A i \in 1 .. n : buf[i].id = arrived - n + i
      BY <1>a
    <3>2. \A i \in 1 .. n - k : rest[i].id = arrived - (n - k) + i
      <4> TAKE i \in 1 .. n - k
      <4>1. k + i \in 1 .. n /\ arrived - n + (k + i) = arrived - (n - k) + i
        BY <2>2, <3>1
      <4> QED BY <2>3, <3>1, <4>1
    <3>3. n - k <= arrived
      BY <2>2, <3>1
    <3> QED BY <1>0, <1>4, <2>3, <2>4, <2>5, <3>2, <3>3 DEF BufferInv, Evicted
  <2> QED BY <1>0, <1>n, <1>4, <2>2, <2>3, <2>7, <2>8 DEF Tumbling
<1>5. CASE conf.win = "TumblingRow"
  <2>1. k = IF n = w THEN n ELSE 0
    BY <1>0, <1>1, <1>n, <1>5, <1>w DEF Expired, TumblingByCount
  <2>2. k \in 0 .. n
    BY <2>1
  <2>3. Len(rest) = n - k /\ rest \in Seq(Tuples) /\ \A i \in 1 .. n - k : rest[i] = buf[k + i]
    BY <1>0, <1>1, <1>n, <2>2, RestFacts, SMTT(60)
  <2>4. mCurrSize' = n - k
    BY <1>1, <1>5, <2>1 DEF SizeAfter, Tumbling
  <2>5. /\ n <= arrived /\ arrived \in Nat /\ n <= w /\ (arrived - n) % w = 0
        /\ \A i \in 1 .. n : buf[i].id = arrived - n + i
    BY <1>0, <1>a, <1>n, <1>w, <1>5 DEF BufferInv, Evicted
  <2>6. CASE n = w
    <3>1. rest = <<>> /\ Len(rest) = 0 /\ k = n /\ mCurrSize' = 0
      BY <2>1, <2>3, <2>4, <2>6
    <3>2. arrived % w = 0
      <4>1. arrived - n \in Nat /\ arrived - n + w = arrived
        BY <2>5, <2>6
      <4>2. ((arrived - n) + w) % w = 0
        BY <2>5, <4>1, NextMultiple
      <4> QED BY <4>1, <4>2
    <3>3. arrived - 0 = arrived
      BY <2>5
    <3>4. BufferInv'
      BY <1>0, <1>5, <1>w, <2>5, <3>1, <3>2, <3>3 DEF BufferInv, Evicted
    <3> QED BY <1>0, <1>n, <1>5, <2>2, <2>3, <3>1, <3>4
  <2>7. CASE n # w
    <3>1. k = 0 /\ Len(rest) = n /\ mCurrSize' = n /\ \A i \in 1 .. n : rest[i] = buf[i]
      BY <2>1, <2>3, <2>4, <2>7
    <3>2. Expired(mTupleBuf)' = 0
      BY <1>5, <1>w, <2>7, <3>1 DEF Expired, TumblingByCount
    <3>3. rest # <<>>
      BY <3>1
    <3>4. BufferInv'
      BY <1>0, <1>5, <1>w, <2>5, <3>1, <3>3, SMTT(60) DEF BufferInv, Evicted
    <3> QED BY <1>0, <1>n, <1>5, <2>2, <2>3, <3>1, <3>2, <3>4
  <2> QED BY <2>6, <2>7
<1>6. CASE conf.win = "TumblingRange"
  <2>1. k = IF Late(buf, 1) THEN n - 1 ELSE 0
    BY <1>0, <1>n, <1>6 DEF Expired, TumblingByTime
  <2>2. k \in 0 .. n - 1
    BY <2>1
  <2>3. Len(rest) = n - k /\ rest \in Seq(Tuples) /\ \A i \in 1 .. n - k : rest[i] = buf[k + i]
    BY ONLY <1>0, <1>1, <1>n, <2>2, RestFacts
  <2>4. mCurrSize' = n - k
    BY <1>1, <1>6, <2>1 DEF SizeAfter, Tumbling
  <2>5. rest # <<>>
    BY <2>2, <2>3
  <2>6. ~Late(rest, 1)
    <3>1. CASE k > 0
      <4>1. Len(rest) = 1
        BY <2>1, <2>3, <3>1
      <4> QED BY <4>1, <2>3, <2>5, LastNotLate
    <3>2. CASE k = 0
      <4>1. ~Late(buf, 1)
        <5>1. CASE n = 1
          BY <1>0, <1>n, <5>1, LastNotLate
        <5>2. CASE n # 1
          BY <2>1, <3>2, <5>2
        <5> QED BY <5>1, <5>2
      <4>2. Len(rest) = Len(buf) /\ rest[1] = buf[1] /\ rest[Len(rest)] = buf[Len(buf)]
        BY <1>n, <2>3, <3>2
      <4> QED BY <4>1, <4>2 DEF Late
    <3> QED BY <2>2, <3>1, <3>2
  <2>7. Expired(mTupleBuf)' = 0
    BY <1>0, <1>6, <2>6 DEF Expired, TumblingByTime
  <2>8. BufferInv'
    <3>1. n <= arrived /\ arrived \in Nat /\ \A i \in 1 .. n : buf[i].id = arrived - n + i
      BY <1>a
    <3>2. \A i \in 1 .. n - k : rest[i].id = arrived - (n - k) + i
      <4> TAKE i \in 1 .. n - k
      <4>0. n \in Nat /\ arrived \in Nat
        BY <1>n, <3>1
      <4>1. k + i \in 1 .. n /\ arrived - n + (k + i) = arrived - (n - k) + i
        BY ONLY <2>2, <4>0, i \in 1 .. n - k
      <4>2. PICK j \in 1 .. n : j = k + i
        BY ONLY <4>1
      <4>3. rest[i] = buf[j]
        BY <2>3, <4>2
      <4>4. buf[j].id = arrived - n + j
        BY ONLY <3>1, <4>2
      <4> QED BY ONLY <4>1, <4>2, <4>3, <4>4
    <3>3. n - k <= arrived
      BY <2>2, <3>1
    <3> QED BY <1>0, <1>6, <2>3, <2>4, <2>5, <3>2, <3>3 DEF BufferInv, Evicted
  <2>9. k > 0 => Len(rest) = 1
    BY <2>1, <2>3
  <2> QED BY <1>0, <1>n, <1>6, <2>2, <2>3, <2>7, <2>8, <2>9
<1> QED BY <1>2, <1>3, <1>4, <1>5, <1>6

-----------------------------------------------------------------------------
(* One step per action.                                                    *)

LEMMA ElementFacts ==
  ASSUME NEW t \in [id: Nat, val: Nat, ts: Nat]
  PROVE  /\ New(t) \in Element /\ New(t).kind = "new" /\ New(t).t = t
         /\ Old(t) \in Element /\ Old(t).kind = "outdated" /\ Old(t).t = t
<1>1. New(t) \in Element /\ New(t).kind = "new" /\ New(t).t = t
  BY DEF New, Element
<1>2. Old(t) \in Element /\ Old(t).kind = "outdated" /\ Old(t).t = t
  BY DEF Old, Element
<1> QED BY <1>1, <1>2

LEMMA ExpiredFacts == WindowExpired \in Element /\ WindowExpired.kind = "WindowExpired"
<1>1. NoTuple \in [id: Nat, val: Nat, ts: Nat]
  BY DEF NoTuple
<1> QED BY <1>1 DEF WindowExpired, Element

\* What depends only on what was delivered.
LEMMA DeliveredFrame ==
  ASSUME WindowInv, UNCHANGED <<conf, forwarded, delivered>>
  PROVE  OutdatedFollowsNew' /\ ExpiredIsEmpty'
<1>1. OutdatedFollowsNew'
  BY DEF WindowInv, OutdatedFollowsNew
<1>2. \A kind : Ids(kind)' = Ids(kind)
  BY DEF Ids
<1>3. LiveIds' = LiveIds
  BY <1>2 DEF LiveIds
<1>4. ExpiredIsEmpty'
  BY <1>2, <1>3 DEF WindowInv, ExpiredIsEmpty, Last
<1> QED BY <1>1, <1>4

LEMMA ArriveKeeps ==
  ASSUME WindowInv, NEW val \in Values, NEW ts \in 0 .. MaxTime, Arrive(val, ts)
  PROVE  WindowInv'
<1>0. /\ pc = "idle" /\ todo["source"] = <<>> /\ arrived < MaxTuples
      /\ arrived' = arrived + 1
      /\ data' = [id |-> arrived + 1, val |-> val, ts |-> ts]
      /\ mTupleBuf' = Append(mTupleBuf, data') /\ mCurrSize' = mCurrSize + 1
      /\ pc' = IF conf.thread \/ EvictsLast THEN "publish" ELSE "evict"
      /\ UNCHANGED <<conf, mMtx, forwarded, todo, grpThread, delivered>>
  BY DEF Arrive, Returned, grpVars
<1>1. arrived \in Nat /\ MaxTuples \in Nat
  BY ArrivedNat DEF WindowInv
<1>2. data' \in Tuples
  BY <1>0, <1>1 DEF Tuples
<1>3. data' \in [id: Nat, val: Nat, ts: Nat] /\ data'.id = arrived + 1
  BY <1>0, <1>2, TupleFacts
<1>4. PICK buf \in Seq(Tuples) : buf = mTupleBuf
  BY DEF WindowInv, WindowType
<1>5. PICK n \in Nat : n = Len(buf)
  OBVIOUS
<1>6. PICK d \in Tuples : d = data'
  BY <1>2
<1>7. PICK new : new = Append(buf, d)
  OBVIOUS
<1>8. /\ mTupleBuf' = new /\ new \in Seq(Tuples) /\ Len(new) = n + 1 /\ new # <<>>
      /\ \A i \in 1 .. n : new[i] = buf[i]
      /\ new[n + 1] = d
  BY <1>0, <1>4, <1>5, <1>6, <1>7
<1>9. WindowType'
  <2>1. arrived' \in 0 .. MaxTuples
    BY <1>0, <1>1
  <2>2. pc' \in {"idle", "evict", "publish"}
    BY <1>0
  <2> QED BY <1>0, <1>3, <1>8, <2>1, <2>2 DEF WindowInv, WindowType
<1>a. /\ mCurrSize = n /\ n <= arrived
      /\ \A i \in 1 .. n : buf[i].id = arrived - n + i
  BY <1>4, <1>5 DEF WindowInv, BufferInv, Evicted
<1>10. Evicted' = Evicted /\ Evicted = arrived - n /\ arrived + 1 - (n + 1) = arrived - n
  BY <1>0, <1>1, <1>4, <1>5, <1>8 DEF Evicted
<1>11. BufferInv'
  <2>1. \A i \in 1 .. n + 1 : new[i].id = arrived - n + i
    <3> TAKE i \in 1 .. n + 1
    <3>1. CASE i = n + 1
      BY <1>1, <1>3, <1>6, <1>8, <3>1
    <3>2. CASE i \in 1 .. n
      BY <1>a, <1>8, <3>2
    <3> QED BY <3>1, <3>2
  <2>2. ASSUME conf.win = "TumblingRow" PROVE n + 1 <= WinSize
    <3>1. ~conf.thread
      BY <2>2, ConfigFacts DEF WindowInv, WindowType
    <3>2. n <= WinSize
      BY <1>4, <1>5, <2>2 DEF WindowInv, BufferInv
    <3>3. n # WinSize
      <4>1. CASE n = 0
        BY <4>1, SizeAssumption
      <4>2. CASE n # 0
        <5>1. Expired(mTupleBuf) = 0
          BY <1>0, <1>4, <1>5, <3>1, <4>2 DEF WindowInv, SettledInv, Settled
        <5>2. TumblingByCount(mTupleBuf) = 0
          BY <2>2, <5>1 DEF Expired
        <5> QED BY <1>4, <1>5, <1>a, <4>2, <5>2 DEF TumblingByCount
      <4> QED BY <4>1, <4>2
    <3> QED BY <1>5, <3>2, <3>3, SizeAssumption
  <2>3. conf.win = "TumblingRow" => Evicted % WinSize = 0
    BY DEF WindowInv, BufferInv
  <2>4. mCurrSize' = Len(mTupleBuf') /\ Len(mTupleBuf') <= arrived' /\ mTupleBuf' # <<>>
    BY <1>0, <1>1, <1>8, <1>a
  <2>5. \A i \in 1 .. Len(mTupleBuf') : mTupleBuf'[i].id = Evicted' + i
    BY <1>8, <1>10, <2>1
  <2>6. conf'.win = "TumblingRow" => Len(mTupleBuf') <= WinSize /\ Evicted' % WinSize = 0
    BY <1>0, <1>8, <1>10, <2>2, <2>3
  <2> QED BY <2>4, <2>5, <2>6 DEF BufferInv
<1>12. EvictsLast' = EvictsLast /\ (conf.thread => ~EvictsLast)
  BY <1>0 DEF WindowInv, SourceInv, EvictsLast, Tumbling
<1>13. SettledInv'
  BY <1>0, <1>12 DEF SettledInv, Settled
<1>14. SourceInv'
  BY <1>0, <1>1, <1>3, <1>8, <1>12 DEF WindowInv, SourceInv
<1>15. ToldInv'
  <2> SUFFICES ASSUME forwarded = {} PROVE \E g, m \in Nat : ToldTo(g, m)'
    BY <1>0 DEF ToldInv
  <2>1. PICK g, m \in Nat : ToldTo(g, m)
    BY DEF WindowInv, ToldInv
  <2>2. Unannounced' /\ ~Unannounced
    BY <1>0, <1>12 DEF Unannounced
  <2>3. Ids("new")' = Ids("new") /\ Ids("outdated")' = Ids("outdated") /\ arrived + 1 - 1 = arrived
    BY <1>0, <1>1 DEF Ids
  <2>t. g + m = Evicted /\ Ids("new") = 1 .. arrived /\ Ids("outdated") = 1 .. g
    BY <2>1, <2>2 DEF ToldTo
  <2>4. g + m = Evicted' /\ Ids("new")' = 1 .. arrived' - 1 /\ Ids("outdated")' = 1 .. g
    <3>1. arrived' - 1 = arrived
      BY <1>0, <1>1
    <3> QED BY <1>10, <2>t, <2>3, <3>1
  <2>5. CASE conf.thread
    <3>1. conf.win = "SlidingRange"
      BY <2>5, ConfigFacts DEF WindowInv, WindowType
    <3>2. Evicting(todo["evict"], g, m)'
      BY <1>0, <2>1, <2>5, <3>1 DEF ToldTo, Evicting
    <3> QED BY <1>0, <2>2, <2>4, <2>5, <3>2 DEF ToldTo
  <2>6. CASE ~conf.thread
    <3>1. Evicting(todo["source"], g, m)'
      <4>1. Len(todo["source"]) = 0
        BY <1>0
      <4>2. Evicting(todo["source"], g, m)
        BY <2>1, <2>6, <4>1 DEF ToldTo, Announcing
      <4>3. m = 0
        BY <4>1, <4>2 DEF Evicting
      <4> QED BY <1>0, <4>1, <4>3 DEF Evicting
    <3> QED BY <1>0, <2>2, <2>4, <2>6, <3>1 DEF ToldTo
  <2> QED BY <2>5, <2>6
<1> QED BY <1>0, <1>9, <1>11, <1>13, <1>14, <1>15, DeliveredFrame DEF WindowInv

LEMMA OneElement ==
  ASSUME NEW e \in Element
  PROVE  <<e>> \in Seq(Element) /\ Len(<<e>>) = 1 /\ <<e>>[1] = e /\ <<e>> # <<>>
OBVIOUS

LEMMA ListsTyped ==
  ASSUME WindowInv
  PROVE  delivered \in Seq(Element) /\ mTupleBuf \in Seq(Tuples) /\ Len(mTupleBuf) \in Nat
<1>1. delivered \in Seq(Element) /\ mTupleBuf \in Seq(Tuples)
  BY DEF WindowInv, WindowType
<1> QED BY <1>1

\* Steps that leave the window and the source alone.
LEMMA WindowFrame ==
  ASSUME WindowInv, UNCHANGED <<conf, mTupleBuf, mCurrSize, pc, arrived>>
  PROVE  BufferInv' /\ SettledInv' /\ EvictsLast' = EvictsLast /\ Evicted' = Evicted /\ Settled' = Settled
<1>1. EvictsLast' = EvictsLast /\ Evicted' = Evicted
  BY DEF EvictsLast, Tumbling, Evicted
<1>2. Settled' = Settled
  BY <1>1 DEF Settled
<1>3. BufferInv'
  BY <1>1 DEF WindowInv, BufferInv
<1>4. Expired(mTupleBuf)' = Expired(mTupleBuf)
  BY DEF Expired, SlidingByCount, SlidingByTime, TumblingByCount, TumblingByTime, Late
<1>5. SettledInv'
  BY <1>2, <1>4 DEF WindowInv, SettledInv
<1> QED BY <1>1, <1>2, <1>3, <1>5

\* A new list of elements for one thread.
LEMMA TodoFacts ==
  ASSUME WindowType, NEW th \in Threads, NEW s \in Seq(Element), todo' = [todo EXCEPT ![th] = s]
  PROVE  /\ todo' \in [Threads -> Seq(Element)] /\ todo'[th] = s
         /\ \A x \in Threads \ {th} : todo'[x] = todo[x]
         /\ Len(s) <= MaxTuples + 1 => \A x \in Threads : Len(todo'[x]) <= MaxTuples + 1
BY DEF WindowType

LEMMA ArriveOutdatedKeeps ==
  ASSUME WindowInv, NEW i \in DOMAIN delivered, ArriveOutdated(delivered[i].t)
  PROVE  WindowInv'
<1>0. /\ pc = "idle" /\ forwarded' # {}
      /\ todo' = [todo EXCEPT !["source"] = <<Old(delivered[i].t)>>]
      /\ UNCHANGED <<conf, windowVars, pc, data, arrived, grpThread, delivered>>
  BY DEF ArriveOutdated, Returned, grpVars
<1>1. delivered[i] \in Element
  BY ListsTyped
<1>2. Old(delivered[i].t) \in Element
  <2>1. delivered[i].t \in [id: Nat, val: Nat, ts: Nat]
    BY <1>1 DEF Element
  <2> QED BY <2>1, ElementFacts
<1>3. PICK s \in Seq(Element) : s = <<Old(delivered[i].t)>> /\ Len(s) = 1
  BY <1>2, OneElement
<1>4. WindowType /\ MaxTuples \in Nat
  BY SizeAssumption DEF WindowInv
<1>5. /\ todo' \in [Threads -> Seq(Element)] /\ todo'["evict"] = todo["evict"]
      /\ \A x \in Threads : Len(todo'[x]) <= MaxTuples + 1
  <2>1. "source" \in Threads /\ "evict" \in Threads \ {"source"}
    BY DEF Threads
  <2>2. 1 <= MaxTuples + 1
    BY <1>4
  <2> QED BY <1>0, <1>3, <1>4, <2>1, <2>2, TodoFacts
<1>6. WindowType'
  BY <1>0, <1>4, <1>5 DEF WindowType, windowVars
<1>7. SourceInv'
  BY <1>0, <1>5, WindowFrame DEF WindowInv, SourceInv, windowVars
<1>8. ToldInv' /\ OutdatedFollowsNew' /\ ExpiredIsEmpty'
  BY <1>0 DEF ToldInv, OutdatedFollowsNew, ExpiredIsEmpty
<1> QED BY <1>0, <1>6, <1>7, <1>8, WindowFrame DEF WindowInv, windowVars

LEMMA TriggerKeeps ==
  ASSUME WindowInv, UNCHANGED <<conf, windowVars, sourceVars, todo, grpThread, delivered>>
  PROVE  WindowInv'
<1>0. UNCHANGED <<conf, windowVars, pc, data, arrived, forwarded>>
  BY DEF sourceVars
<1>1. WindowType'
  BY <1>0 DEF WindowInv, WindowType, windowVars
<1>2. SourceInv'
  BY <1>0, WindowFrame DEF WindowInv, SourceInv, windowVars
<1>3. ToldInv'
  <2>1. \A kind : Ids(kind)' = Ids(kind)
    BY DEF Ids
  <2>2. Unannounced' = Unannounced /\ Announcing' = Announcing
    BY <1>0, WindowFrame DEF Unannounced, Announcing, windowVars
  <2>3. \A s, g, n : Evicting(s, g, n)' = Evicting(s, g, n)
    BY <1>0 DEF Evicting, windowVars
  <2>4. ASSUME NEW g \in Nat, NEW n \in Nat, ToldTo(g, n) PROVE ToldTo(g, n)'
    BY <1>0, <2>1, <2>2, <2>4, WindowFrame DEF ToldTo, Evicting, windowVars
  <2> QED BY <1>0, <2>4 DEF WindowInv, ToldInv
<1> QED BY <1>0, <1>1, <1>2, <1>3, WindowFrame, DeliveredFrame DEF WindowInv, windowVars

LEMMA PublishNewKeeps ==
  ASSUME WindowInv, PublishNew
  PROVE  WindowInv'
<1> DEFINE t == IF conf.func THEN WindowOpFunc(mTupleBuf, data) ELSE data
<1>0. /\ pc = "publish" /\ todo["source"] = <<>>
      /\ todo' = [todo EXCEPT !["source"] = <<New(t)>>]
      /\ pc' = IF EvictsLast THEN "evict" ELSE "idle"
      /\ UNCHANGED <<conf, windowVars, data, arrived, forwarded, grpThread, delivered>>
  BY DEF PublishNew, Returned, grpVars
<1>1. arrived > 0 /\ data.id = arrived /\ data \in [id: Nat, val: Nat, ts: Nat]
  BY <1>0 DEF WindowInv, SourceInv, WindowType
<1>2. t \in [id: Nat, val: Nat, ts: Nat] /\ t.id = arrived
  <2>1. Len(mTupleBuf) \in Nat
    BY ListsTyped
  <2>2. PICK d \in [id: Nat, val: Nat, ts: Nat] : d = data
    BY <1>1
  <2>3. [d EXCEPT !.val = Len(mTupleBuf)] \in [id: Nat, val: Nat, ts: Nat]
    BY <2>1
  <2>4. [d EXCEPT !.val = Len(mTupleBuf)].id = d.id
    OBVIOUS
  <2> QED BY <1>1, <2>2, <2>3, <2>4 DEF WindowOpFunc
<1> HIDE DEF t
<1>3. New(t) \in Element /\ New(t).kind = "new" /\ New(t).t = t
  BY <1>2, ElementFacts
<1>4. PICK s \in Seq(Element) : s = <<New(t)>> /\ Len(s) = 1 /\ s[1] = New(t) /\ s # <<>>
  BY <1>3, OneElement
<1>5. WindowType /\ MaxTuples \in Nat
  BY SizeAssumption DEF WindowInv
<1>6. /\ todo' \in [Threads -> Seq(Element)] /\ todo'["evict"] = todo["evict"] /\ todo'["source"] = s
      /\ \A x \in Threads : Len(todo'[x]) <= MaxTuples + 1
  <2>1. "source" \in Threads /\ "evict" \in Threads \ {"source"}
    BY DEF Threads
  <2>2. 1 <= MaxTuples + 1
    BY <1>5
  <2> QED BY <1>0, <1>4, <1>5, <2>1, <2>2, TodoFacts
<1>7. WindowType'
  <2>1. pc' \in {"idle", "evict", "publish"}
    BY <1>0
  <2> QED BY <1>0, <1>5, <1>6, <2>1 DEF WindowType, windowVars
<1>8. EvictsLast' = EvictsLast /\ Evicted' = Evicted
  BY <1>0 DEF EvictsLast, Tumbling, Evicted, windowVars
<1>9. BufferInv'
  BY <1>0, <1>8 DEF WindowInv, BufferInv, windowVars
<1>10. SettledInv'
  <2>1. Settled' <=> (Settled /\ ~EvictsLast)
    BY <1>0, <1>8 DEF Settled
  <2>2. Expired(mTupleBuf)' = Expired(mTupleBuf)
    BY <1>0 DEF Expired, SlidingByCount, SlidingByTime, TumblingByCount, TumblingByTime, Late, windowVars
  <2> QED BY <1>0, <2>1, <2>2 DEF WindowInv, SettledInv, windowVars
<1>11. SourceInv'
  <2>1. conf.thread => ~EvictsLast
    BY DEF WindowInv, SourceInv
  <2>2. EvictsLast => ~Settled
    BY <1>0 DEF Settled
  <2> QED BY <1>0, <1>1, <1>6, <1>8, <2>1, <2>2 DEF WindowInv, SourceInv, Settled, windowVars
<1>12. ToldInv'
  <2> SUFFICES ASSUME forwarded = {} PROVE \E g, m \in Nat : ToldTo(g, m)'
    BY <1>0 DEF ToldInv
  <2>1. PICK g, m \in Nat : ToldTo(g, m)
    BY DEF WindowInv, ToldInv
  <2>2. Unannounced' /\ Unannounced
    BY <1>0, <1>3, <1>4, <1>6 DEF Unannounced
  <2>3. Ids("new")' = Ids("new") /\ Ids("outdated")' = Ids("outdated")
    BY <1>0 DEF Ids
  <2>4. Announcing'
    BY <1>0, <1>1, <1>2, <1>3, <1>4, <1>6, <1>8 DEF Announcing
  <2>5. g + m = Evicted /\ Ids("new") = 1 .. arrived - 1 /\ Ids("outdated") = 1 .. g
    BY <2>1, <2>2 DEF ToldTo
  <2>6. CASE conf.thread
    <3>1. Evicting(todo["evict"], g, m)'
      BY <1>0, <1>6, <2>1, <2>6 DEF ToldTo, Evicting, windowVars
    <3> QED BY <1>0, <1>8, <2>2, <2>3, <2>4, <2>5, <2>6, <3>1 DEF ToldTo
  <2>7. CASE ~conf.thread
    <3>1. m = 0
      <4>1. Len(todo["source"]) = 0
        BY <1>0
      <4>2. Evicting(todo["source"], g, m)
        BY <2>1, <2>7, <4>1 DEF ToldTo, Announcing
      <4> QED BY <4>1, <4>2 DEF Evicting
    <3> QED BY <1>0, <1>8, <2>2, <2>3, <2>4, <2>5, <2>7, <3>1 DEF ToldTo
  <2> QED BY <2>6, <2>7
<1> QED BY <1>0, <1>7, <1>9, <1>10, <1>11, <1>12, DeliveredFrame DEF WindowInv

\* The list that an eviction publishes.
LEMMA OutdatedFacts ==
  ASSUME WindowInv, NEW k \in 0 .. Len(mTupleBuf), NEW c \in BOOLEAN,
         NEW s, s = Outdated(k) \o IF c THEN <<WindowExpired>> ELSE <<>>
  PROVE  /\ s \in Seq(Element) /\ Len(s) = IF c THEN k + 1 ELSE k
         /\ \A j \in 1 .. k : s[j].kind = "outdated" /\ s[j].t.id = Evicted + j
         /\ c => s[k + 1] = WindowExpired
<1>0. k \in Nat /\ Len(mTupleBuf) \in Nat /\ mTupleBuf \in Seq(Tuples)
  BY ListsTyped
<1>1. PICK o : o = Outdated(k)
  OBVIOUS
<1>2. \A j \in 1 .. k : /\ Old(mTupleBuf[j]) \in Element /\ Old(mTupleBuf[j]).kind = "outdated"
                        /\ Old(mTupleBuf[j]).t.id = Evicted + j
  <2> TAKE j \in 1 .. k
  <2>1. j \in 1 .. Len(mTupleBuf)
    BY <1>0
  <2>2. mTupleBuf[j] \in Tuples
    BY <1>0, <2>1
  <2>3. mTupleBuf[j] \in [id: Nat, val: Nat, ts: Nat]
    BY <2>2, TupleFacts
  <2>4. mTupleBuf[j].id = Evicted + j
    BY <2>1 DEF WindowInv, BufferInv
  <2> QED BY <2>3, <2>4, ElementFacts
<1>3. o = [j \in 1 .. k |-> Old(mTupleBuf[j])]
  BY <1>1 DEF Outdated
<1>4. o \in [1 .. k -> Element] /\ \A j \in 1 .. k : o[j] = Old(mTupleBuf[j])
  BY <1>2, <1>3
<1>5. o \in Seq(Element) /\ Len(o) = k
  BY <1>0, <1>4
<1>6. CASE c
  <2>1. WindowExpired \in Element
    BY ExpiredFacts
  <2>2. PICK x \in Element : x = WindowExpired
    BY <2>1
  <2>3. s = o \o <<x>>
    BY <1>1, <1>6, <2>2
  <2>4. s \in Seq(Element) /\ Len(s) = k + 1 /\ s[k + 1] = x /\ \A j \in 1 .. k : s[j] = o[j]
    <3>1. PICK y \in Seq(Element) : y = <<x>> /\ Len(y) = 1 /\ y[1] = x
      BY OneElement
    <3>2. s \in Seq(Element) /\ Len(s) = k + 1
      <4>1. s = o \o y
        BY <2>3, <3>1
      <4>2. o \o y \in Seq(Element) /\ Len(o \o y) = Len(o) + Len(y)
        BY ONLY <1>5, <3>1, ConcatProperties
      <4> QED BY <1>5, <3>1, <4>1, <4>2
    <3>3. \A j \in 1 .. k + 1 : s[j] = IF j <= k THEN o[j] ELSE y[j - k]
      <4>1. s = o \o y
        BY <2>3, <3>1
      <4>2. \A j \in 1 .. Len(o) + Len(y) : (o \o y)[j] = IF j <= Len(o) THEN o[j] ELSE y[j - Len(o)]
        BY ONLY <1>5, <3>1, ConcatProperties
      <4> QED BY <1>5, <3>1, <4>1, <4>2
    <3>4. k + 1 \in 1 .. k + 1 /\ ~(k + 1 <= k) /\ k + 1 - k = 1 /\ \A j \in 1 .. k : j \in 1 .. k + 1 /\ j <= k
      BY <1>0
    <3> QED BY <3>1, <3>2, <3>3, <3>4
  <2> QED BY <1>2, <1>4, <1>6, <2>2, <2>4
<1>7. CASE ~c
  <2>1. s = o \o <<>>
    BY <1>1, <1>7
  <2>2. s = o
    BY <1>5, <2>1
  <2> QED BY <1>2, <1>4, <1>5, <1>7, <2>2
<1> QED BY <1>6, <1>7

LEMMA EvictKeeps ==
  ASSUME WindowInv, NEW th \in Threads, th = Evictor, mTupleBuf # <<>>, todo[th] = <<>>, Evict(th),
         UNCHANGED <<conf, data, arrived, forwarded, grpThread, delivered>>,
         IF conf.thread THEN pc' = pc
         ELSE pc = "evict" /\ pc' = IF EvictsLast THEN "idle" ELSE "publish"
  PROVE  WindowInv'
<1>0. WindowType /\ BufferInv
  BY DEF WindowInv
<1>1. PICK k : k = Expired(mTupleBuf)
  OBVIOUS
<1>2. /\ k \in 0 .. Len(mTupleBuf)
      /\ mTupleBuf' \in Seq(Tuples) /\ Len(mTupleBuf') = Len(mTupleBuf) - k
      /\ BufferInv'
      /\ mTupleBuf' # <<>> => Expired(mTupleBuf)' = 0
      /\ Tumbling /\ k > 0 => \/ conf.win = "TumblingRow" /\ Len(mTupleBuf') = 0
                              \/ conf.win = "TumblingRange" /\ Len(mTupleBuf') = 1
  BY <1>0, <1>1, EvictFacts
<1>3. PICK c \in BOOLEAN : c <=> (Tumbling /\ k > 0)
  OBVIOUS
<1>4. PICK s : s = Outdated(k) \o IF c THEN <<WindowExpired>> ELSE <<>>
  OBVIOUS
<1>5. todo' = [todo EXCEPT ![th] = s] /\ mMtx' = IF k > 0 THEN th ELSE "none"
  BY <1>1, <1>3, <1>4 DEF Evict
<1>6. /\ s \in Seq(Element) /\ Len(s) = IF c THEN k + 1 ELSE k
      /\ \A j \in 1 .. k : s[j].kind = "outdated" /\ s[j].t.id = Evicted + j
      /\ c => s[k + 1] = WindowExpired
  BY <1>2, <1>4, OutdatedFacts, ZenonT(60)
<1>7. /\ arrived \in Nat /\ MaxTuples \in Nat /\ arrived <= MaxTuples /\ Len(mTupleBuf) \in Nat
      /\ Len(mTupleBuf) <= arrived /\ k \in Nat /\ k <= MaxTuples
  <2>1. arrived \in Nat /\ MaxTuples \in Nat /\ arrived <= MaxTuples
    BY <1>0, ArrivedNat
  <2>2. Len(mTupleBuf) \in Nat /\ Len(mTupleBuf) <= arrived
    BY ListsTyped DEF WindowInv, BufferInv
  <2> QED BY <1>2, <2>1, <2>2
<1>8. Len(s) <= MaxTuples + 1
  BY <1>6, <1>7
<1>9. /\ todo' \in [Threads -> Seq(Element)] /\ todo'[th] = s
      /\ \A x \in Threads \ {th} : todo'[x] = todo[x]
      /\ \A x \in Threads : Len(todo'[x]) <= MaxTuples + 1
  BY <1>0, <1>5, <1>6, <1>8, TodoFacts
<1>10. WindowType'
  <2>1. pc' \in {"idle", "evict", "publish"} /\ mMtx' \in Threads \cup {"none"}
    BY <1>5 DEF WindowInv, WindowType
  <2> QED BY <1>0, <1>2, <1>9, <2>1 DEF WindowType
<1>11. EvictsLast' = EvictsLast /\ (conf.thread => ~EvictsLast)
  BY DEF WindowInv, SourceInv, EvictsLast, Tumbling
<1>12. Settled'
  <2>1. conf.thread => pc # "evict"
    BY DEF WindowInv, SourceInv
  <2> QED BY <1>0, <1>11, <2>1 DEF Settled, WindowType
<1>13. SettledInv'
  BY <1>2 DEF SettledInv
<1>14. conf.thread \in BOOLEAN
  BY <1>0, ConfigFacts DEF WindowType
<1>15. SourceInv'
  <2>1. ~conf.thread => todo'["evict"] = todo["evict"]
    BY <1>9 DEF Evictor, Threads
  <2> QED BY <1>11, <1>12, <2>1 DEF WindowInv, SourceInv
<1>16. ToldInv'
  <2>g. PICK g \in Nat : g = Evicted /\ arrived - (Len(mTupleBuf) - k) = g + k
    BY ONLY <1>7 DEF Evicted
  <2> SUFFICES ASSUME forwarded = {} PROVE ToldTo(g, k)'
    BY <1>7 DEF ToldInv
  <2>1. PICK h, m \in Nat : ToldTo(h, m)
    BY DEF WindowInv, ToldInv
  <2>2. Len(todo[th]) = 0
    OBVIOUS
  <2>3. m = 0 /\ h = g
    <3>1. Evicting(todo[th], h, m)
      BY <1>14, <2>1, <2>2 DEF ToldTo, Announcing, Evictor
    <3>2. m = 0
      BY <2>2, <3>1 DEF Evicting
    <3> QED BY <2>1, <2>g, <3>2 DEF ToldTo
  <2>4. Evicting(s, g, k)'
    <3>1. k <= Len(s) /\ \A j \in 1 .. k : s[j].kind = "outdated" /\ s[j].t.id = g + j
      BY <1>6, <1>7, <2>g
    <3>2. CASE c
      BY <1>2, <1>3, <1>6, <3>1, <3>2 DEF Evicting
    <3>3. CASE ~c
      BY <1>6, <3>1, <3>3 DEF Evicting
    <3> QED BY <3>2, <3>3
  <2>5. Evicted' = g + k
    BY <1>2, <2>g DEF Evicted
  <2>6. Ids("new")' = Ids("new") /\ Ids("outdated")' = Ids("outdated")
    BY DEF Ids
  <2>7. CASE conf.thread
    <3>1. th = "evict" /\ todo'["source"] = todo["source"]
      BY <1>9, <2>7 DEF Evictor, Threads
    <3>2. Unannounced' = Unannounced /\ Announcing' = Announcing
      BY <1>11, <2>7, <3>1 DEF Unannounced, Announcing
    <3> QED BY <1>9, <2>1, <2>3, <2>4, <2>5, <2>6, <2>7, <3>1, <3>2 DEF ToldTo, Evicting
  <2>8. CASE ~conf.thread
    <3>1. th = "source" /\ pc = "evict"
      BY <2>8 DEF Evictor
    <3>2. s # <<>> => s[1].kind # "new"
      <4>1. CASE k > 0
        BY <1>6, <1>7, <4>1
      <4>2. CASE k = 0
        BY <1>3, <1>6, <4>2
      <4> QED BY <1>7, <4>1, <4>2
    <3>3. Unannounced' = Unannounced
      BY <1>9, <1>11, <2>8, <3>1, <3>2 DEF Unannounced
    <3>4. Evicting(todo["source"], g, k)'
      BY <1>9, <2>4, <3>1 DEF Evicting
    <3>5. IF EvictsLast' THEN pc' = "idle" ELSE pc' = "publish"
      BY <1>11, <2>8
    <3> QED BY <2>1, <2>3, <2>5, <2>6, <2>8, <3>3, <3>4, <3>5 DEF ToldTo
  <2> QED BY <2>7, <2>8
<1> QED BY <1>2, <1>10, <1>13, <1>15, <1>16, DeliveredFrame DEF WindowInv

\* One more element is delivered.
LEMMA IdsAppend ==
  ASSUME delivered \in Seq(Element), NEW e \in Element, delivered' = Append(delivered, e), NEW kind
  PROVE  Ids(kind)' = Ids(kind) \cup IF e.kind = kind THEN {e.t.id} ELSE {}
<1>1. PICK d \in Seq(Element) : d = delivered
  OBVIOUS
<1>2. PICK x : x = Append(d, e)
  OBVIOUS
<1>3. PICK n \in Nat : n = Len(d)
  OBVIOUS
<1>4. /\ x \in Seq(Element) /\ Len(x) = n + 1
      /\ \A i \in 1 .. n : x[i] = d[i]
      /\ x[n + 1] = e
  BY <1>2, <1>3, AppendProperties
<1>5. DOMAIN d = 1 .. n /\ DOMAIN x = 1 .. n + 1
  BY <1>3, <1>4
<1>6. DOMAIN x = DOMAIN d \cup {n + 1} /\ n + 1 \notin DOMAIN d
  BY <1>5
<1>7. Ids(kind) = {d[i].t.id : i \in {j \in DOMAIN d : d[j].kind = kind}}
  BY <1>1 DEF Ids
<1>8. Ids(kind)' = {x[i].t.id : i \in {j \in DOMAIN x : x[j].kind = kind}}
  BY <1>1, <1>2 DEF Ids
<1>9. \A i \in DOMAIN d : x[i] = d[i]
  BY <1>4, <1>5
<1>10. \A y : y \in Ids(kind)' <=> y \in Ids(kind) \/ (e.kind = kind /\ y = e.t.id)
  BY ONLY <1>4, <1>6, <1>7, <1>8, <1>9
<1> QED BY ONLY <1>10

\* The rest of an eviction's list.
LEMMA EvictingRest ==
  ASSUME NEW s \in Seq(Element), NEW g \in Nat, NEW m \in Nat, m > 0, Evicting(s, g, m),
         UNCHANGED <<conf, mTupleBuf>>
  PROVE  /\ s # <<>> /\ Head(s).kind = "outdated" /\ Head(s).t.id = g + 1
         /\ Evicting(Tail(s), g + 1, m - 1)'
         /\ Tail(s) # <<>> => Tail(s)[1].kind # "new"
<1>1. m <= Len(s) /\ Len(s) \in Nat
  BY DEF Evicting
<1>2. PICK n \in Nat : n = Len(s) /\ n >= 1 /\ s # <<>>
  BY <1>1
<1>3. PICK r \in Seq(Element) : r = Tail(s) /\ Len(r) = n - 1 /\ \A i \in 1 .. n - 1 : r[i] = s[i + 1]
  <2>1. Tail(s) \in Seq(Element) /\ Len(Tail(s)) = n - 1
    BY <1>2, HeadTailProperties
  <2>2. \A i \in 1 .. Len(Tail(s)) : Tail(s)[i] = s[i + 1]
    BY <1>2, HeadTailProperties
  <2> QED BY <2>1, <2>2
<1>4. Head(s) = s[1]
  BY <1>2
<1>5. 1 \in 1 .. m
  OBVIOUS
<1>6. \A j \in 1 .. m : s[j].kind = "outdated" /\ s[j].t.id = g + j
  BY DEF Evicting
<1>7. \A j \in 1 .. m - 1 : r[j].kind = "outdated" /\ r[j].t.id = (g + 1) + j
  <2> TAKE j \in 1 .. m - 1
  <2>1. j + 1 \in 1 .. m /\ j \in 1 .. n - 1 /\ g + (j + 1) = (g + 1) + j
    BY <1>1, <1>2
  <2> QED BY <1>3, <1>6, <2>1
<1>8. m - 1 <= n - 1 /\ m - 1 \in Nat
  BY <1>1, <1>2
<1>9. CASE n = m
  <2>1. Evicting(r, g + 1, m - 1)'
    BY <1>3, <1>7, <1>8, <1>9 DEF Evicting
  <2>2. r # <<>> => r[1].kind # "new"
    BY <1>3, <1>7, <1>9
  <2> QED BY <1>2, <1>3, <1>4, <1>5, <1>6, <2>1, <2>2
<1>10. CASE n # m
  <2>1. /\ n = m + 1 /\ s[m + 1] = WindowExpired
        /\ \/ conf.win = "TumblingRow" /\ Len(mTupleBuf) = 0
           \/ conf.win = "TumblingRange" /\ Len(mTupleBuf) = 1
    BY <1>2, <1>10 DEF Evicting
  <2>2. r[m] = WindowExpired /\ n - 1 = (m - 1) + 1 /\ (m - 1) + 1 = m
    <3>1. m \in 1 .. n - 1
      BY <2>1
    <3> QED BY <1>3, <2>1, <3>1
  <2>3. Evicting(r, g + 1, m - 1)'
    BY <1>3, <1>7, <1>8, <2>1, <2>2 DEF Evicting
  <2>4. r[1].kind # "new"
    <3>1. CASE m = 1
      BY <2>2, <3>1, ExpiredFacts
    <3>2. CASE m # 1
      BY <1>7, <3>2
    <3> QED BY <3>1, <3>2
  <2> QED BY <1>2, <1>3, <1>4, <1>5, <1>6, <2>3, <2>4
<1> QED BY <1>9, <1>10

\* What one more delivered element does to the order of the elements.
LEMMA OrderAppend ==
  ASSUME WindowInv, NEW e \in Element, delivered' = Append(delivered, e), UNCHANGED <<conf, forwarded>>,
         forwarded = {} /\ e.kind = "outdated" =>
            /\ e.t.id \notin Ids("outdated")
            /\ \/ e.t.id \in Ids("new")
               \/ conf.win = "TumblingRow" /\ ~conf.func /\ e.t.id % WinSize = 0
  PROVE  OutdatedFollowsNew'
<1> SUFFICES ASSUME forwarded = {} PROVE OutdatedFollowsNew'
  BY DEF OutdatedFollowsNew
<1>1. PICK d \in Seq(Element) : d = delivered
  BY ListsTyped
<1>2. PICK x : x = Append(d, e)
  OBVIOUS
<1>3. PICK n \in Nat : n = Len(d)
  OBVIOUS
<1>4. /\ x \in Seq(Element) /\ Len(x) = n + 1
      /\ \A i \in 1 .. n : x[i] = d[i]
      /\ x[n + 1] = e
  BY <1>2, <1>3, AppendProperties
<1>5. DOMAIN d = 1 .. n /\ DOMAIN x = 1 .. n + 1 /\ delivered' = x
  BY <1>1, <1>2, <1>3, <1>4
<1> SUFFICES ASSUME NEW i \in 1 .. n + 1, x[i].kind = "outdated"
             PROVE  /\ \A j \in 1 .. i - 1 : x[j] # x[i]
                    /\ \/ \E j \in 1 .. i - 1 : x[j].kind = "new" /\ x[j].t.id = x[i].t.id
                       \/ conf.win = "TumblingRow" /\ ~conf.func /\ x[i].t.id % WinSize = 0
  BY <1>5 DEF OutdatedFollowsNew
<1>6. CASE i \in 1 .. n
  <2>1. /\ \A j \in 1 .. i - 1 : d[j] # d[i]
        /\ \/ \E j \in 1 .. i - 1 : d[j].kind = "new" /\ d[j].t.id = d[i].t.id
           \/ conf.win = "TumblingRow" /\ ~conf.func /\ d[i].t.id % WinSize = 0
    BY <1>1, <1>4, <1>5, <1>6 DEF WindowInv, OutdatedFollowsNew
  <2>2. \A j \in 1 .. i - 1 : j \in 1 .. n
    BY <1>6
  <2> QED BY <1>4, <1>6, <2>1, <2>2
<1>7. CASE i = n + 1
  <2>1. x[i] = e /\ i - 1 = n
    BY <1>4, <1>7
  <2>2. \A j \in 1 .. n : d[j].kind = "outdated" => d[j].t.id \in Ids("outdated")
    BY <1>1, <1>5 DEF Ids
  <2>3. \A j \in 1 .. n : d[j] # e
    BY <2>1, <2>2
  <2>4. ASSUME e.t.id \in Ids("new") PROVE \E j \in 1 .. n : d[j].kind = "new" /\ d[j].t.id = e.t.id
    BY <1>1, <1>5, <2>4 DEF Ids
  <2> QED BY <1>4, <2>1, <2>3, <2>4
<1> QED BY <1>6, <1>7

LEMMA PublishKeeps ==
  ASSUME WindowInv, NEW th \in Threads, Publish(th)
  PROVE  WindowInv'
<1>0. /\ todo[th] # <<>> /\ delivered' = Append(delivered, Head(todo[th]))
      /\ todo' = [todo EXCEPT ![th] = Tail(todo[th])]
      /\ UNCHANGED <<conf, mTupleBuf, mCurrSize, pc, data, arrived, forwarded>>
      /\ Release(th)
      /\ grpThread' \in {"ok", "locks twice", "bad_get"}
  <2>1. grpThread' \in {"ok", "locks twice", "bad_get"}
    <3>1. CASE Head(todo[th]).kind = "WindowExpired"
      BY <3>1 DEF Publish, WindowInv, WindowType, grpVars
    <3>2. CASE Head(todo[th]).kind # "WindowExpired"
      <4>1. GroupedElement(Head(todo[th]).t, Head(todo[th]).kind = "outdated")
        BY <3>2 DEF Publish
      <4> QED BY <4>1 DEF GroupedElement
    <3> QED BY <3>1, <3>2
  <2> QED BY <2>1 DEF Publish, sourceVars
<1>1. WindowType /\ todo \in [Threads -> Seq(Element)] /\ delivered \in Seq(Element)
  BY DEF WindowInv, WindowType
<1>2. PICK s \in Seq(Element) : s = todo[th] /\ s # <<>>
  BY <1>0, <1>1
<1>3. PICK n \in Nat : n = Len(s) /\ n >= 1
  BY <1>2
<1>4. PICK r \in Seq(Element) : r = Tail(s) /\ Len(r) = n - 1
  BY <1>2, <1>3, HeadTailProperties
<1>5. PICK e \in Element : e = Head(s) /\ e = s[1]
  BY <1>2, HeadTailProperties
<1>6. n <= MaxTuples + 1 /\ MaxTuples \in Nat
  BY <1>2, <1>3, SizeAssumption DEF WindowInv, WindowType
<1>7. /\ todo' \in [Threads -> Seq(Element)] /\ todo'[th] = r
      /\ \A x \in Threads \ {th} : todo'[x] = todo[x]
      /\ \A x \in Threads : Len(todo'[x]) <= MaxTuples + 1
  <2>1. Len(r) <= MaxTuples + 1
    BY <1>3, <1>4, <1>6
  <2>2. todo' = [todo EXCEPT ![th] = r]
    BY <1>0, <1>2, <1>4
  <2> QED BY <1>1, <2>1, <2>2, TodoFacts
<1>8. delivered' = Append(delivered, e) /\ delivered' \in Seq(Element)
  <2>1. delivered' = Append(delivered, e)
    BY <1>0, <1>2, <1>5
  <2> QED BY <1>1, <2>1, AppendProperties
<1>9. WindowType'
  <2>1. mMtx' \in Threads \cup {"none"}
    BY <1>0, <1>1 DEF Release, WindowType
  <2> QED BY <1>0, <1>1, <1>7, <1>8, <2>1 DEF WindowType
<1>10. BufferInv' /\ SettledInv' /\ EvictsLast' = EvictsLast /\ Evicted' = Evicted /\ Settled' = Settled
  BY <1>0, WindowFrame
<1>11. SourceInv'
  <2>1. ASSUME ~conf.thread PROVE todo'["evict"] = <<>>
    <3>1. todo["evict"] = <<>>
      BY <2>1 DEF WindowInv, SourceInv
    <3>2. th # "evict"
      BY <1>0, <3>1
    <3> QED BY <1>7, <3>1, <3>2 DEF Threads
  <2> QED BY <1>0, <1>10, <2>1 DEF WindowInv, SourceInv
<1>12. CASE forwarded # {}
  BY <1>0, <1>9, <1>10, <1>11, <1>12 DEF WindowInv, ToldInv, OutdatedFollowsNew, ExpiredIsEmpty
<1>13. CASE forwarded = {}
  <2>0. PICK g, m \in Nat : ToldTo(g, m)
    BY <1>13 DEF WindowInv, ToldInv
  <2>1. /\ arrived \in Nat /\ Len(mTupleBuf) \in Nat /\ Len(mTupleBuf) <= arrived /\ Evicted \in Nat
        /\ Evicted <= arrived /\ Evicted = arrived - Len(mTupleBuf)
    <3>1. arrived \in Nat
      BY <1>1, ArrivedNat
    <3>2. Len(mTupleBuf) \in Nat /\ Len(mTupleBuf) <= arrived
      BY ListsTyped DEF WindowInv, BufferInv
    <3> QED BY <3>1, <3>2 DEF Evicted
  <2>2. /\ g + m = Evicted /\ Ids("outdated") = 1 .. g
        /\ Ids("new") = 1 .. IF Unannounced THEN arrived - 1 ELSE arrived
    BY <2>0 DEF ToldTo
  <2>3. \A kind : Ids(kind)' = Ids(kind) \cup IF e.kind = kind THEN {e.t.id} ELSE {}
    BY <1>1, <1>8, IdsAppend
  <2>4. \A y \in Element : Last(Append(delivered, y)) = y
    BY <1>1 DEF Last
  <2>5. conf.thread \in BOOLEAN /\ conf.func \in BOOLEAN /\ (conf.thread => conf.win = "SlidingRange")
    BY <1>1, ConfigFacts DEF WindowType
  \* A tuple is announced.
  <2>6. CASE th = "source" /\ Announcing
    <3>1. /\ n = 1 /\ e.kind = "new" /\ e.t.id = arrived /\ arrived > 0
          /\ pc # "publish" /\ (pc = "evict" <=> EvictsLast)
      BY <1>2, <1>3, <1>5, <2>6 DEF Announcing
    <3>2. Unannounced /\ ~Unannounced'
      <4>1. todo'["source"] = <<>>
        BY <1>3, <1>4, <1>7, <2>6, <3>1
      <4>2. todo["source"][1].kind = "new" /\ todo["source"] # <<>>
        BY <1>2, <1>5, <2>6, <3>1
      <4> QED BY <1>0, <1>10, <3>1, <4>1, <4>2 DEF Unannounced
    <3>3. Ids("new")' = 1 .. arrived /\ Ids("outdated")' = 1 .. g
      <4>1. Ids("new") = 1 .. arrived - 1
        BY <2>2, <3>2
      <4>2. Ids("new")' = (1 .. arrived - 1) \cup {arrived}
        BY <2>3, <3>1, <4>1
      <4>3. (1 .. arrived - 1) \cup {arrived} = 1 .. arrived
        BY <2>1, <3>1
      <4>4. Ids("outdated")' = Ids("outdated")
        BY <2>3, <3>1
      <4> QED BY <2>2, <4>2, <4>3, <4>4
    <3>4. todo'["source"] = <<>> /\ todo'["evict"] = todo["evict"]
      BY <1>3, <1>4, <1>7, <2>6, <3>1 DEF Threads
    <3>5. ToldTo(g, m)'
      <4>1. CASE conf.thread
        <5>1. Evicting(todo["evict"], g, m)'
          BY <1>0, <2>0, <3>4, <4>1 DEF ToldTo, Evicting
        <5> QED BY <1>0, <1>10, <2>2, <3>2, <3>3, <3>4, <4>1, <5>1 DEF ToldTo
      <4>2. CASE ~conf.thread
        <5>1. m = 0
          <6>1. ASSUME Evicting(todo["source"], g, m) PROVE m = 0
            <7>1. m > 0 => s[1].kind = "outdated"
              BY <1>2, <2>6, <6>1 DEF Evicting
            <7> QED BY <1>5, <3>1, <7>1
          <6> QED BY <2>0, <4>2, <6>1 DEF ToldTo
        <5>2. Evicting(todo["source"], g, m)'
          BY <3>4, <5>1 DEF Evicting
        <5> QED BY <1>0, <1>10, <2>2, <3>2, <3>3, <3>4, <4>2, <5>2 DEF ToldTo
      <4> QED BY <4>1, <4>2
    <3>6. ToldInv'
      BY <3>5 DEF ToldInv
    <3>7. OutdatedFollowsNew'
      BY <1>0, <1>8, <3>1, OrderAppend
    <3>8. ExpiredIsEmpty'
      BY <1>8, <2>4, <3>1, ExpiredFacts DEF ExpiredIsEmpty
    <3> QED BY <1>9, <1>10, <1>11, <3>6, <3>7, <3>8 DEF WindowInv
  \* An eviction goes on.
  <2>7. CASE Evicting(s, g, m) /\ th = Evictor /\ m > 0
    <3>1. /\ e.kind = "outdated" /\ e.t.id = g + 1 /\ Evicting(r, g + 1, m - 1)'
          /\ r # <<>> => r[1].kind # "new"
      BY <1>0, <1>4, <1>5, <2>7, EvictingRest
    <3>2. g + 1 \in Nat /\ m - 1 \in Nat /\ (g + 1) + (m - 1) = g + m
      BY <2>7
    <3>3. Ids("new")' = Ids("new") /\ Ids("outdated")' = 1 .. g + 1
      <4>1. Ids("outdated")' = (1 .. g) \cup {g + 1}
        BY <2>2, <2>3, <3>1
      <4>2. (1 .. g) \cup {g + 1} = 1 .. g + 1
        OBVIOUS
      <4> QED BY <2>3, <3>1, <4>1, <4>2
    <3>4. Unannounced' = Unannounced
      <4>1. CASE th = "evict"
        <5>1. todo'["source"] = todo["source"]
          BY <1>7, <4>1 DEF Threads
        <5> QED BY <1>0, <1>10, <5>1 DEF Unannounced
      <4>2. CASE th = "source"
        <5>1. todo["source"] = s /\ todo'["source"] = r /\ s[1].kind # "new"
          BY <1>2, <1>5, <1>7, <3>1, <4>2
        <5> QED BY <1>0, <1>10, <3>1, <5>1 DEF Unannounced
      <4> QED BY <4>1, <4>2 DEF Threads
    <3>5. ToldTo(g + 1, m - 1)'
      <4>1. CASE conf.thread
        <5>1. th = "evict" /\ todo'["source"] = todo["source"] /\ todo'["evict"] = r
          BY <1>7, <2>7, <4>1 DEF Evictor, Threads
        <5>2. Announcing' = Announcing
          BY <1>0, <1>10, <5>1 DEF Announcing
        <5>3. todo["source"] = <<>> \/ Announcing
          BY <2>0, <4>1 DEF ToldTo
        <5>4. Evicting(todo["evict"], g + 1, m - 1)'
          BY <3>1, <5>1 DEF Evicting
        <5> QED BY <1>0, <1>10, <2>2, <3>2, <3>3, <3>4, <4>1, <5>1, <5>2, <5>3, <5>4 DEF ToldTo
      <4>2. CASE ~conf.thread
        <5>1. th = "source" /\ todo'["source"] = r /\ todo["source"] = s
          BY <1>2, <1>7, <2>7, <4>2 DEF Evictor
        <5>2. Evicting(todo["source"], g + 1, m - 1)'
          BY <3>1, <5>1 DEF Evicting
        <5>3. IF EvictsLast THEN pc = "idle" ELSE pc = "publish"
          <6>1. ~Announcing
            BY <1>5, <3>1, <5>1 DEF Announcing
          <6> QED BY <1>2, <2>0, <4>2, <5>1, <6>1 DEF ToldTo
        <5> QED BY <1>0, <1>10, <2>2, <3>2, <3>3, <3>4, <4>2, <5>2, <5>3 DEF ToldTo
      <4> QED BY <4>1, <4>2
    <3>6. ToldInv'
      BY <3>2, <3>5 DEF ToldInv
    <3>7. g + 1 \notin Ids("outdated")
      BY <2>2
    <3>8. \/ g + 1 \in Ids("new")
          \/ conf.win = "TumblingRow" /\ ~conf.func /\ (g + 1) % WinSize = 0
      <4>1. g + 1 <= Evicted
        BY <2>1, <2>2, <2>7
      <4>2. CASE ~Unannounced \/ g + 1 < arrived
        BY <2>1, <2>2, <4>1, <4>2
      <4>3. CASE Unannounced /\ g + 1 = arrived
        <5>1. Evicted = arrived /\ Len(mTupleBuf) = 0 /\ arrived > 0
          BY <2>1, <4>1, <4>3
        <5>2. mTupleBuf = <<>>
          BY <5>1, ListsTyped
        <5>3. conf.win = "TumblingRow" /\ Evicted % WinSize = 0
          BY <5>1, <5>2 DEF WindowInv, BufferInv
        <5>4. ~conf.thread /\ th = "source" /\ todo["source"] = s
          BY <1>2, <2>5, <2>7, <5>3 DEF Evictor
        <5>5. ~Announcing
          BY <1>5, <3>1, <5>4 DEF Announcing
        <5>6. IF EvictsLast THEN pc = "idle" ELSE pc = "publish"
          BY <1>2, <2>0, <5>4, <5>5 DEF ToldTo
        <5>7. ~EvictsLast
          BY <1>5, <3>1, <4>3, <5>4, <5>6 DEF Unannounced
        <5>8. ~conf.func
          BY <5>3, <5>7 DEF EvictsLast, Tumbling
        <5> QED BY <4>3, <5>1, <5>3, <5>8
      <4> QED BY <2>1, <4>1, <4>2, <4>3
    <3>9. OutdatedFollowsNew'
      BY <1>0, <1>8, <3>1, <3>7, <3>8, OrderAppend
    <3>10. ExpiredIsEmpty'
      BY <1>8, <2>4, <3>1, ExpiredFacts DEF ExpiredIsEmpty
    <3> QED BY <1>9, <1>10, <1>11, <3>6, <3>9, <3>10 DEF WindowInv
  \* It ends.
  <2>8. CASE Evicting(s, g, m) /\ th = Evictor /\ m = 0
    <3>1. /\ n = 1 /\ e = WindowExpired
          /\ \/ conf.win = "TumblingRow" /\ Len(mTupleBuf) = 0
             \/ conf.win = "TumblingRange" /\ Len(mTupleBuf) = 1
      BY <1>3, <1>5, <2>8 DEF Evicting
    <3>2. e.kind = "WindowExpired"
      BY <3>1, ExpiredFacts
    <3>3. ~conf.thread /\ th = "source" /\ todo["source"] = s /\ todo'["source"] = <<>>
      <4>1. ~conf.thread
        BY <2>5, <3>1
      <4>2. th = "source"
        BY <2>8, <4>1 DEF Evictor
      <4>3. r = <<>>
        BY <1>3, <1>4, <3>1
      <4> QED BY <1>2, <1>7, <4>1, <4>2, <4>3
    <3>4. \A kind \in {"new", "outdated"} : Ids(kind)' = Ids(kind)
      BY <2>3, <3>2
    <3>5. Unannounced' = Unannounced
      BY <1>0, <1>5, <1>10, <3>2, <3>3 DEF Unannounced
    <3>6. ToldTo(g, m)'
      <4>1. Evicting(todo["source"], g, m)'
        BY <2>8, <3>3 DEF Evicting
      <4> QED BY <1>0, <1>10, <2>2, <3>3, <3>4, <3>5, <4>1 DEF ToldTo
    <3>7. ToldInv'
      BY <3>6 DEF ToldInv
    <3>8. OutdatedFollowsNew'
      BY <1>0, <1>8, <3>2, OrderAppend
    <3>9. ExpiredIsEmpty'
      <4>1. g = arrived - Len(mTupleBuf)
        BY <2>1, <2>2, <2>8
      <4>2. \A y \in Ids("new") : y \in 1 .. arrived
        BY <2>1, <2>2
      <4>3. \A x \in LiveIds : x \in Ids("new") /\ x \notin 1 .. g
        BY <2>2 DEF LiveIds
      <4>4. \A x \in LiveIds : conf.win = "TumblingRange" /\ \A y \in Ids("new") : y <= x
        <5>1. CASE conf.win = "TumblingRow" /\ Len(mTupleBuf) = 0
          BY <2>1, <4>1, <4>2, <4>3, <5>1
        <5>2. CASE conf.win = "TumblingRange" /\ Len(mTupleBuf) = 1
          <6>1. g = arrived - 1
            BY <4>1, <5>2
          <6>2. \A x \in LiveIds : x = arrived
            BY <2>1, <4>2, <4>3, <6>1
          <6> QED BY <2>1, <4>2, <5>2, <6>2
        <5> QED BY <3>1, <5>1, <5>2
      <4>5. LiveIds' = LiveIds /\ Ids("new")' = Ids("new")
        BY <3>4 DEF LiveIds
      <4> QED BY <1>0, <4>4, <4>5 DEF ExpiredIsEmpty
    <3> QED BY <1>9, <1>10, <1>11, <3>7, <3>8, <3>9 DEF WindowInv
  <2>9. (th = "source" /\ Announcing) \/ (Evicting(s, g, m) /\ th = Evictor)
    <3>1. CASE conf.thread
      BY <1>2, <2>0, <3>1 DEF ToldTo, Threads, Evictor
    <3>2. CASE ~conf.thread
      <4>1. th = "source"
        BY <1>2, <3>2 DEF WindowInv, SourceInv, Threads
      <4> QED BY <1>2, <2>0, <3>2, <4>1 DEF ToldTo, Evictor
    <3> QED BY <3>1, <3>2
  <2> QED BY <2>6, <2>7, <2>8, <2>9
<1> QED BY <1>12, <1>13

-----------------------------------------------------------------------------
(* The theorem.                                                            *)

LEMMA InitInv == Init => WindowInv
<1> SUFFICES ASSUME Init PROVE WindowInv
  OBVIOUS
<1>0. /\ conf \in Configs /\ mTupleBuf = <<>> /\ mCurrSize = 0 /\ mMtx = "none" /\ pc = "idle"
      /\ arrived = 0 /\ todo = [th \in Threads |-> <<>>] /\ delivered = <<>>
      /\ grpThread = "ok" /\ data = NoTuple
  BY DEF Init
<1>1. WindowType
  <2>1. MaxTuples \in Nat
    BY SizeAssumption
  <2>2. data \in [id: Nat, val: Nat, ts: Nat]
    BY <1>0 DEF NoTuple
  <2>3. todo \in [Threads -> Seq(Element)] /\ \A th \in Threads : todo[th] = <<>>
    BY <1>0
  <2>4. arrived \in 0 .. MaxTuples
    BY <1>0, <2>1
  <2>5. \A th \in Threads : Len(todo[th]) <= MaxTuples + 1
    BY <2>1, <2>3
  <2> QED BY <1>0, <2>2, <2>3, <2>4, <2>5 DEF WindowType
<1>2. Evicted = 0 /\ 0 % WinSize = 0
  <2>1. ASSUME NEW w \in Nat \ {0}, NEW a \in Nat, NEW p \in Int, a = p * w PROVE a % w = 0
    BY <2>1
  <2>2. ASSUME NEW w \in Nat \ {0} PROVE 0 % w = 0
    <3>1. 0 = 0 * w
      OBVIOUS
    <3> QED BY <2>1, <3>1
  <2>3. 0 % WinSize = 0
    BY <2>2, SizeAssumption
  <2>4. Evicted = 0
    <3>1. Len(mTupleBuf) = 0
      BY <1>0
    <3>2. arrived = 0
      BY <1>0
    <3> QED BY ONLY <3>1, <3>2 DEF Evicted
  <2> QED BY <2>3, <2>4
<1>3. BufferInv
  <2>1. WinSize \in Nat
    BY SizeAssumption
  <2> QED BY <1>0, <1>2, <2>1 DEF BufferInv
<1>4. todo["source"] = <<>> /\ todo["evict"] = <<>>
  BY <1>0 DEF Threads
<1>5. SettledInv /\ Settled
  BY <1>0 DEF SettledInv, Settled
<1>6. SourceInv
  <2>1. conf.thread => ~EvictsLast
    BY <1>0, ConfigFacts DEF EvictsLast, Tumbling
  <2> QED BY <1>0, <1>4, <1>5, <2>1 DEF SourceInv
<1>7. \A kind : Ids(kind) = {}
  BY <1>0 DEF Ids
<1>8. ~Unannounced
  BY <1>0, <1>4 DEF Unannounced
<1>9. 1 .. 0 = {} /\ 0 \in Nat
  OBVIOUS
<1>10. Evicting(<<>>, 0, 0)
  BY DEF Evicting
<1>11. ToldTo(0, 0)
  BY <1>0, <1>2, <1>4, <1>7, <1>8, <1>9, <1>10 DEF ToldTo
<1>12. ToldInv
  BY <1>9, <1>11 DEF ToldInv
<1>13. OutdatedFollowsNew /\ ExpiredIsEmpty
  BY <1>0 DEF OutdatedFollowsNew, ExpiredIsEmpty
<1> QED BY <1>1, <1>3, <1>5, <1>6, <1>12, <1>13 DEF WindowInv

LEMMA NextInv == WindowInv /\ [Next]_vars => WindowInv'
<1> SUFFICES ASSUME WindowInv, [Next]_vars PROVE WindowInv'
  OBVIOUS
<1>1. ASSUME NEW val \in Values, NEW ts \in 0 .. MaxTime, Arrive(val, ts) PROVE WindowInv'
  BY <1>1, ArriveKeeps
<1>2. ASSUME NEW i \in DOMAIN delivered, ArriveOutdated(delivered[i].t) PROVE WindowInv'
  BY <1>2, ArriveOutdatedKeeps
<1>3. CASE EvictByArrival
  <2>1. ~conf.thread /\ mTupleBuf # <<>>
    BY <1>3 DEF EvictByArrival, WindowInv, SourceInv, Settled
  <2> QED BY <1>3, <2>1, EvictKeeps DEF EvictByArrival, Returned, Evictor, Threads, grpVars
<1>4. CASE PublishNew
  BY <1>4, PublishNewKeeps
<1>5. CASE EvictionThread
  BY <1>5, EvictKeeps DEF EvictionThread, Evictor, Threads, sourceVars, grpVars
<1>6. ASSUME NEW th \in Threads, Publish(th) PROVE WindowInv'
  BY <1>6, PublishKeeps
<1>7. CASE TriggerNotifier
  BY <1>7, TriggerKeeps DEF TriggerNotifier, grpVars
<1>8. CASE ProduceAggregates \/ SlideExpired \/ ResetTrigger
  BY <1>8, TriggerKeeps DEF ProduceAggregates, SlideExpired, ResetTrigger, grpVars
<1>9. CASE UNCHANGED vars
  BY <1>9, TriggerKeeps DEF vars, grpVars
<1> QED BY <1>1, <1>2, <1>3, <1>4, <1>5, <1>6, <1>7, <1>8, <1>9 DEF Next

TriggerType == trigger \in {"none", "produce", "slide", "reset"}

LEMMA TriggerTyped == TriggerType /\ [Next]_vars => TriggerType'
<1> SUFFICES ASSUME TriggerType, [Next]_vars PROVE TriggerType'
  OBVIOUS
<1>1. ASSUME NEW th \in Threads, Publish(th) PROVE trigger' \in {trigger, "produce"}
  <2>1. CASE Head(todo[th]).kind = "WindowExpired"
    BY <1>1, <2>1 DEF Publish, aggVars
  <2>2. CASE Head(todo[th]).kind # "WindowExpired"
    <3>1. AggregationElement(Head(todo[th]).t, Head(todo[th]).kind = "outdated")
      BY <1>1, <2>2 DEF Publish
    <3> QED BY <3>1 DEF AggregationElement
  <2> QED BY <2>1, <2>2
<1> QED BY <1>1 DEF TriggerType, Next, vars, aggVars, Arrive, ArriveOutdated, EvictByArrival, PublishNew,
                    EvictionThread, TriggerNotifier, ProduceAggregates, SlideExpired, ResetTrigger

LEMMA InvExact == WindowInv /\ TriggerType => WindowExact
<1> SUFFICES ASSUME WindowInv, TriggerType PROVE WindowExact
  OBVIOUS
<1>0. WindowType /\ BufferInv /\ SettledInv /\ SourceInv /\ ToldInv
  BY DEF WindowInv
<1>1. /\ arrived \in Nat /\ arrived <= MaxTuples /\ MaxTuples \in Nat
      /\ Len(mTupleBuf) \in Nat /\ Len(mTupleBuf) <= arrived
      /\ Evicted = arrived - Len(mTupleBuf) /\ Evicted \in Nat
  <2>1. arrived \in Nat /\ arrived <= MaxTuples /\ MaxTuples \in Nat
    BY <1>0, ArrivedNat
  <2>2. Len(mTupleBuf) \in Nat /\ Len(mTupleBuf) <= arrived
    BY <1>0, ListsTyped DEF BufferInv
  <2> QED BY <2>1, <2>2 DEF Evicted
<1>2. TypeOK
  <2>1. mCurrSize \in 0 .. MaxTuples
    BY <1>0, <1>1 DEF BufferInv
  <2> QED BY <1>0, <2>1 DEF TypeOK, WindowType, TriggerType
<1>3. WindowBounded
  BY <1>0 DEF WindowBounded, BufferInv, SettledInv, Settled, AtRest
<1>4. WindowDelivered
  <2> SUFFICES ASSUME AtRest, forwarded = {}
               PROVE  {mTupleBuf[i].id : i \in DOMAIN mTupleBuf} = LiveIds
    BY DEF WindowDelivered
  <2>1. PICK g, n \in Nat : ToldTo(g, n)
    BY <1>0 DEF ToldInv
  <2>2. pc = "idle" /\ todo["source"] = <<>> /\ todo["evict"] = <<>>
    BY DEF AtRest, Threads
  <2>3. ~Unannounced
    BY <2>2 DEF Unannounced
  <2>4. n = 0
    <3>1. ~Announcing
      BY <2>2 DEF Announcing
    <3>2. Evicting(<<>>, g, n)
      <4>1. conf.thread \in BOOLEAN
        BY <1>0, ConfigFacts DEF WindowType
      <4> QED BY <2>1, <2>2, <3>1, <4>1 DEF ToldTo
    <3>3. n <= Len(<<>>)
      BY <3>2 DEF Evicting
    <3> QED BY <3>3
  <2>5. Ids("new") = 1 .. arrived /\ Ids("outdated") = 1 .. Evicted
    <3>1. g = Evicted
      BY <1>1, <2>1, <2>4 DEF ToldTo
    <3> QED BY <2>1, <2>3, <3>1 DEF ToldTo
  <2>6. LiveIds = Evicted + 1 .. arrived
    BY <1>1, <2>5 DEF LiveIds
  <2>7. DOMAIN mTupleBuf = 1 .. Len(mTupleBuf)
    BY <1>0, ListsTyped
  <2>8. {mTupleBuf[i].id : i \in DOMAIN mTupleBuf} = {Evicted + i : i \in 1 .. Len(mTupleBuf)}
    BY <1>0, <2>7 DEF BufferInv
  <2>9. {Evicted + i : i \in 1 .. Len(mTupleBuf)} = Evicted + 1 .. arrived
    <3>1. ASSUME NEW x \in Evicted + 1 .. arrived
          PROVE  x \in {Evicted + i : i \in 1 .. Len(mTupleBuf)}
      <4>1. x - Evicted \in 1 .. Len(mTupleBuf) /\ x = Evicted + (x - Evicted)
        BY <1>1
      <4> QED BY <4>1
    <3>2. \A i \in 1 .. Len(mTupleBuf) : Evicted + i \in Evicted + 1 .. arrived
      BY <1>1
    <3> QED BY <3>1, <3>2
  <2> QED BY <2>6, <2>8, <2>9
<1> QED BY <1>2, <1>3, <1>4 DEF WindowExact, WindowInv

\* Windows of every kind, size and number of tuples (processDataElement, evictByCount and
\* evictByTime of SlidingWindow and TumblingWindow): the counter is the length of the
\* list and no eviction leaves an expired tuple, at rest the subscribers know exactly
\* the window's tuples, every tuple is outdated once and after it was announced, but
\* for the one that fills a window of rows, and nothing of an expired tumbling window
\* is left - however the eviction thread's publishes fall between the source's.
THEOREM WindowStaysExact == Spec => []WindowExact
<1>1. Init => WindowInv /\ TriggerType
  BY InitInv DEF Init, TriggerType
<1>2. WindowInv /\ TriggerType /\ [Next]_vars => WindowInv' /\ TriggerType'
  BY NextInv, TriggerTyped
<1>3. WindowInv /\ TriggerType => WindowExact
  BY InvExact
<1> QED BY <1>1, <1>2, <1>3, PTL DEF Spec


-----------------------------------------------------------------------------
(* The aggregates of a sequence of values.                                 *)

\* A set of naturals has a smallest element.
LEMMA SmallestOne ==
  ASSUME NEW S, S \subseteq Nat, S # {}
  PROVE  \E m \in S : \A x \in S : m <= x
<1>1. PICK m \in S : \A x \in S : <<x, m>> \notin OpToRel(<, Nat)
  BY NatLessThanWellFounded, WFMin
<1>2. \A x \in S : ~(x < m)
  BY <1>1 DEF OpToRel
<1>3. \A x \in S : m <= x
  <2> TAKE x \in S
  <2>1. x \in Nat /\ m \in Nat /\ ~(x < m)
    BY <1>2
  <2> QED BY <2>1
<1> QED BY <1>3

LEMMA SeqAt ==
  ASSUME NEW S, NEW l \in Seq(S)
  PROVE  Len(l) \in Nat /\ \A i \in 1 .. Len(l) : l[i] \in S
OBVIOUS

\* k is l with x at its end; l is k without x at its front.
Grows(k, l, x) == k = Append(l, x)
Shrinks(l, k, x) == k # <<>> /\ l = Tail(k) /\ x = Head(k)

LEMMA AppendAt ==
  ASSUME NEW l \in Seq(Nat), NEW x \in Nat, NEW k, Grows(k, l, x)
  PROVE  /\ k \in Seq(Nat) /\ Len(l) \in Nat /\ Len(k) = Len(l) + 1 /\ k[Len(l) + 1] = x
         /\ \A i \in 1 .. Len(l) : k[i] = l[i]
         /\ DOMAIN l = 1 .. Len(l) /\ DOMAIN k = 1 .. Len(l) + 1 /\ k # <<>>
<1>1. k \in Seq(Nat) /\ Len(l) \in Nat /\ Len(k) = Len(l) + 1
  BY DEF Grows
<1>2. k[Len(l) + 1] = x /\ \A i \in 1 .. Len(l) : k[i] = l[i]
  BY DEF Grows
<1>3. DOMAIN l = 1 .. Len(l) /\ DOMAIN k = 1 .. Len(l) + 1
  BY <1>1
<1>4. k # <<>>
  BY <1>1
<1> QED BY <1>1, <1>2, <1>3, <1>4

LEMMA TailAt ==
  ASSUME NEW S, NEW k \in Seq(S), NEW l, NEW x, Shrinks(l, k, x)
  PROVE  /\ l \in Seq(S) /\ Len(l) \in Nat /\ Len(k) = Len(l) + 1 /\ x = k[1] /\ x \in S
         /\ \A i \in 1 .. Len(l) : l[i] = k[i + 1]
         /\ DOMAIN l = 1 .. Len(l) /\ DOMAIN k = 1 .. Len(l) + 1
<1>1. l \in Seq(S) /\ Len(l) \in Nat /\ Len(k) = Len(l) + 1 /\ x = k[1] /\ x \in S
  BY DEF Shrinks
<1>2. \A i \in 1 .. Len(l) : l[i] = k[i + 1]
  BY DEF Shrinks
<1>3. DOMAIN l = 1 .. Len(l) /\ DOMAIN k = 1 .. Len(l) + 1
  BY <1>1
<1> QED BY <1>1, <1>2, <1>3

\* f holds the sums of the prefixes of l.
Sums(l, f) == f[0] = 0 /\ \A i \in 1 .. Len(l) : f[i] = f[i - 1] + l[i]

LEMMA SumsExist ==
  ASSUME NEW l, NEW n \in Nat
  PROVE  \E f : f = [i \in 0 .. n |-> f[i]] /\ f[0] = 0 /\ \A i \in 1 .. n : f[i] = f[i - 1] + l[i]
<1> DEFINE Up(m, f) == f = [i \in 0 .. m |-> f[i]] /\ f[0] = 0 /\ \A i \in 1 .. m : f[i] = f[i - 1] + l[i]
           T == {m \in Nat : ~ \E f : Up(m, f)}
<1>1. SUFFICES ASSUME T # {}
               PROVE  FALSE
  OBVIOUS
<1>2. PICK m \in T : \A i \in T : m <= i
  <2>1. T \subseteq Nat
    OBVIOUS
  <2> QED BY ONLY <1>1, <2>1, SmallestOne
<1>3. CASE m = 0
  <2> DEFINE g == [i \in 0 .. 0 |-> 0]
  <2>1. g = [i \in 0 .. 0 |-> g[i]] /\ g[0] = 0 /\ 1 .. 0 = {}
    OBVIOUS
  <2> HIDE DEF g
  <2>2. Up(0, g)
    BY <2>1
  <2> QED BY <1>3, <2>2
<1>4. CASE m # 0
  <2>1. m - 1 \in Nat /\ m - 1 \notin T
    BY <1>2, <1>4
  <2>2. PICK f : Up(m - 1, f)
    BY <2>1
  <2> DEFINE g == [i \in 0 .. m |-> IF i = m THEN f[m - 1] + l[m] ELSE f[i]]
  <2>3. g = [i \in 0 .. m |-> g[i]] /\ g[0] = 0
    BY <1>4, <2>2
  <2>4. ASSUME NEW i \in 1 .. m
        PROVE  g[i] = g[i - 1] + l[i]
    <3>1. i \in 0 .. m /\ i - 1 \in 0 .. m /\ i - 1 # m
      OBVIOUS
    <3>2. g[i - 1] = f[i - 1]
      BY <3>1
    <3>3. CASE i = m
      BY <3>1, <3>2, <3>3
    <3>4. CASE i # m
      <4>1. i \in 1 .. m - 1
        BY <3>4
      <4>2. f[i] = f[i - 1] + l[i]
        BY <2>2, <4>1
      <4>3. g[i] = f[i]
        BY <3>1, <3>4
      <4> QED BY <3>2, <4>2, <4>3
    <3> QED BY <3>3, <3>4
  <2> HIDE DEF g
  <2>5. Up(m, g)
    BY <2>3, <2>4
  <2> QED BY <2>5
<1> QED BY <1>3, <1>4

LEMMA TotalIs ==
  ASSUME NEW l, Len(l) \in Nat
  PROVE  \E f : Sums(l, f) /\ Total(l) = f[Len(l)]
<1> DEFINE Next1(f) == [i \in 0 .. Len(l) |-> IF i = 0 THEN 0 ELSE f[i - 1] + l[i]]
           v == CHOOSE f : f = Next1(f)
<1>1. PICK g : g = [i \in 0 .. Len(l) |-> g[i]] /\ g[0] = 0 /\ \A i \in 1 .. Len(l) : g[i] = g[i - 1] + l[i]
  BY SumsExist
<1>2. g = Next1(g)
  <2>1. ASSUME NEW i \in 0 .. Len(l)
        PROVE  g[i] = Next1(g)[i]
    <3>1. CASE i = 0
      BY <1>1, <3>1
    <3>2. CASE i # 0
      <4>1. i \in 1 .. Len(l)
        BY <3>2
      <4> QED BY <1>1, <3>2, <4>1
    <3> QED BY <3>1, <3>2
  <2> QED BY <1>1, <2>1
<1>3. v = Next1(v)
  BY <1>2
<1>4. Total(l) = v[Len(l)]
  BY DEF Total
<1> HIDE DEF v
<1>5. v[0] = 0
  BY <1>3
<1>6. ASSUME NEW i \in 1 .. Len(l)
      PROVE  v[i] = v[i - 1] + l[i]
  <2>1. i \in 0 .. Len(l) /\ i # 0
    OBVIOUS
  <2> QED BY <1>3, <2>1
<1>7. Sums(l, v)
  BY <1>5, <1>6 DEF Sums
<1> QED BY <1>4, <1>7

\* Sums of naturals are naturals, and two sums of what is equal are equal; d
\* is what the sums of the second have lost.
LEMMA SumsAgree ==
  ASSUME NEW l \in Seq(Nat), NEW k \in Seq(Nat), NEW s \in Nat, NEW d \in Nat, s <= Len(k),
         NEW f, Sums(l, f), NEW g, Sums(k, g), g[s] = d, NEW n \in Nat, n + s <= Len(k), n <= Len(l),
         \A i \in 1 .. n : l[i] = k[i + s]
  PROVE  f[n] \in Nat /\ g[n + s] = f[n] + d
<1> DEFINE Bad == {i \in 0 .. n : ~(f[i] \in Nat /\ g[i + s] = f[i] + d)}
<1>0. n \in 0 .. n /\ (n \notin Bad => f[n] \in Nat /\ g[n + s] = f[n] + d)
  OBVIOUS
<1>1. SUFFICES ASSUME Bad # {}
               PROVE  FALSE
  BY <1>0
<1>2. PICK m \in Bad : \A i \in Bad : m <= i
  <2>1. Bad \subseteq Nat
    OBVIOUS
  <2> QED BY ONLY <1>1, <2>1, SmallestOne
<1>3. m # 0
  BY DEF Sums
<1>4. m \in 1 .. n /\ m - 1 \in 0 .. n /\ m - 1 \notin Bad /\ m \in 1 .. Len(l) /\ m + s \in 1 .. Len(k)
  <2>1. m \in 0 .. n
    OBVIOUS
  <2>2. m \in 1 .. n /\ m - 1 \in 0 .. n
    BY <1>3, <2>1
  <2>3. m - 1 \notin Bad
    BY <1>2, <2>1, <2>2
  <2>4. m \in 1 .. Len(l) /\ m + s \in 1 .. Len(k)
    <3> HIDE DEF Bad
    <3>1. PICK a, b : a \in Nat /\ b \in Nat /\ a = Len(l) /\ b = Len(k)
      BY SeqAt
    <3>2. n <= a /\ n + s <= b
      BY <3>1
    <3>3. m \in 1 .. a /\ m + s \in 1 .. b
      BY ONLY <2>2, <3>1, <3>2, n \in Nat, s \in Nat
    <3> QED BY ONLY <3>1, <3>3
  <2> QED BY <2>2, <2>3, <2>4
<1>5. f[m - 1] \in Nat /\ g[(m - 1) + s] = f[m - 1] + d
  BY <1>4
<1>6. f[m] = f[m - 1] + l[m] /\ l[m] \in Nat
  <2> HIDE DEF Bad
  <2>1. l[m] \in Nat
    BY <1>4, SeqAt
  <2> QED BY <1>4, <2>1 DEF Sums
<1>7. g[m + s] = g[(m + s) - 1] + k[m + s] /\ (m + s) - 1 = (m - 1) + s
  BY <1>4 DEF Sums
<1>8. l[m] = k[m + s]
  BY <1>4
<1>9. m \in 0 .. n
  OBVIOUS
<1>10. f[m] \in Nat
  BY ONLY <1>5, <1>6
<1>11. g[m + s] = f[m] + d
  BY ONLY <1>5, <1>6, <1>7, <1>8, d \in Nat
<1> QED BY <1>2, <1>9, <1>10, <1>11

LEMMA TotalEmpty == Total(<<>>) = 0
<1>1. Len(<<>>) = 0
  OBVIOUS
<1> QED BY <1>1, TotalIs DEF Sums

LEMMA TotalNat ==
  ASSUME NEW l \in Seq(Nat)
  PROVE  Total(l) \in Nat
<1>1. PICK f : Sums(l, f) /\ Total(l) = f[Len(l)]
  BY TotalIs
<1>2. f[0] = 0
  BY <1>1 DEF Sums
<1>3. \A i \in 1 .. Len(l) : l[i] = l[i + 0]
  OBVIOUS
<1>4. Len(l) \in Nat /\ Len(l) + 0 <= Len(l) /\ 0 <= Len(l)
  OBVIOUS
<1>5. f[Len(l)] \in Nat
  BY <1>1, <1>2, <1>3, <1>4, SumsAgree
<1> QED BY <1>1, <1>5

LEMMA TotalAppend ==
  ASSUME NEW l \in Seq(Nat), NEW x \in Nat, NEW k, Grows(k, l, x)
  PROVE  Total(k) = Total(l) + x
<1>n. PICK n : n = Len(l)
  OBVIOUS
<1>1. /\ k \in Seq(Nat) /\ n \in Nat /\ Len(k) = n + 1 /\ k[n + 1] = x
      /\ \A i \in 1 .. n : k[i] = l[i]
  <2>1. l \in Seq(Nat) /\ x \in Nat /\ Grows(k, l, x)
    OBVIOUS
  <2> QED BY ONLY <1>n, <2>1, AppendAt
<1>2. PICK f : Sums(l, f) /\ Total(l) = f[n]
  BY <1>n, <1>1, TotalIs
<1>3. PICK g : Sums(k, g) /\ Total(k) = g[Len(k)]
  <2>1. Len(k) \in Nat
    BY <1>1
  <2> QED BY ONLY <2>1, TotalIs
<1>4. \A i \in 1 .. n : l[i] = k[i + 0]
  BY <1>1
<1>5. g[0] = 0
  BY <1>3 DEF Sums
<1>6. f[n] \in Nat /\ g[n + 0] = f[n] + 0
  <2>1. n + 0 <= Len(k) /\ n <= Len(l) /\ 0 <= Len(k) /\ 0 \in Nat
    BY <1>n, <1>1
  <2> QED BY ONLY <1>1, <1>2, <1>3, <1>4, <1>5, <2>1, l \in Seq(Nat), SumsAgree, SMTT(60)
<1>7. g[n + 1] = g[(n + 1) - 1] + k[n + 1]
  <2>1. n + 1 \in 1 .. Len(k)
    BY <1>1
  <2> QED BY <2>1, <1>3 DEF Sums
<1>8. n + 0 = n /\ (n + 1) - 1 = n
  BY <1>1
<1> QED BY <1>1, <1>2, <1>3, <1>6, <1>7, <1>8

LEMMA TotalTail ==
  ASSUME NEW k \in Seq(Nat), NEW l, NEW x, Shrinks(l, k, x)
  PROVE  Total(l) = Total(k) - x
<1>n. PICK n : n = Len(l)
  OBVIOUS
<1>1. /\ l \in Seq(Nat) /\ n \in Nat /\ Len(k) = n + 1 /\ k[1] \in Nat /\ x = k[1]
      /\ \A i \in 1 .. n : l[i] = k[i + 1]
  BY <1>n, TailAt
<1>2. PICK f : Sums(l, f) /\ Total(l) = f[n]
  BY <1>n, <1>1, TotalIs
<1>3. PICK g : Sums(k, g) /\ Total(k) = g[Len(k)]
  <2>1. Len(k) \in Nat
    BY <1>1
  <2> QED BY ONLY <2>1, TotalIs
<1>4. g[1] = k[1]
  <2>1. 1 \in 1 .. Len(k)
    BY <1>1
  <2>2. g[1] = g[1 - 1] + k[1] /\ g[0] = 0
    BY <1>3, <2>1 DEF Sums
  <2> QED BY <1>1, <2>2
<1>5. f[n] \in Nat /\ g[n + 1] = f[n] + k[1]
  <2>1. n + 1 <= Len(k) /\ n <= Len(l) /\ 1 <= Len(k) /\ 1 \in Nat
    BY <1>n, <1>1
  <2>2. PICK c : c = k[1]
    OBVIOUS
  <2>3. /\ l \in Seq(Nat) /\ n \in Nat /\ c \in Nat /\ g[1] = c /\ Sums(l, f) /\ Sums(k, g)
        /\ \A i \in 1 .. n : l[i] = k[i + 1]
    BY <1>1, <1>2, <1>3, <1>4, <2>2
  <2>4. f[n] \in Nat /\ g[n + 1] = f[n] + c
    BY ONLY <2>1, <2>3, k \in Seq(Nat), SumsAgree
  <2> QED BY <2>2, <2>4
<1>6. PICK a, b, c, t : a = Total(l) /\ b = Total(k) /\ a = f[n] /\ b = g[n + 1] /\ t = k[1]
  BY <1>1, <1>2, <1>3
<1>7. a \in Nat /\ b = a + t /\ t \in Nat
  BY <1>1, <1>5, <1>6
<1>8. a = b - t
  BY ONLY <1>7
<1> QED BY <1>1, <1>6, <1>8

-----------------------------------------------------------------------------
(* How often a value occurs in a sequence.                                 *)
Places(l, d) == {n \in DOMAIN l : l[n] = d}
Occurs(l, d) == Cardinality(Places(l, d))
CountsOf(l) == [d \in ToSet(l) |-> Occurs(l, d)]

LEMMA OccursNat ==
  ASSUME NEW l \in Seq(Nat), NEW d
  PROVE  IsFiniteSet(Places(l, d)) /\ Occurs(l, d) \in Nat /\ Occurs(l, d) <= Len(l)
<1>n. PICK n \in Nat : n = Len(l)
  OBVIOUS
<1>s. PICK S : S = Places(l, d)
  OBVIOUS
<1>1. S \subseteq 1 .. n
  BY <1>n, <1>s DEF Places
<1>2. IsFiniteSet(1 .. n) /\ Cardinality(1 .. n) = n
  <2>1. IsFiniteSet(1 .. n) /\ Cardinality(1 .. n) = IF 1 > n THEN 0 ELSE n - 1 + 1
    BY ONLY n \in Nat, FS_Interval
  <2> QED BY ONLY <2>1, n \in Nat
<1>3. IsFiniteSet(S) /\ Cardinality(S) <= n
  BY ONLY <1>1, <1>2, FS_Subset
<1>4. Cardinality(S) \in Nat
  BY ONLY <1>3, FS_CardinalityType
<1> QED BY ONLY <1>n, <1>s, <1>3, <1>4 DEF Occurs

\* An element occurs as often as it is there.
LEMMA OccursPositive ==
  ASSUME NEW l \in Seq(Nat), NEW d
  PROVE  d \in ToSet(l) <=> Occurs(l, d) >= 1
<1>s. PICK S : S = Places(l, d)
  OBVIOUS
<1>1. IsFiniteSet(S) /\ Cardinality(S) \in Nat /\ Occurs(l, d) = Cardinality(S)
  BY <1>s, OccursNat DEF Occurs
<1>2. Cardinality(S) = 0 <=> S = {}
  BY ONLY <1>1, FS_EmptySet
<1>3. d \in ToSet(l) <=> S # {}
  BY <1>s DEF ToSet, Places
<1> QED BY ONLY <1>1, <1>2, <1>3

LEMMA OccursAppend ==
  ASSUME NEW l \in Seq(Nat), NEW x \in Nat, NEW k, Grows(k, l, x), NEW d
  PROVE  /\ x = d => Occurs(k, d) = Occurs(l, d) + 1
         /\ x # d => Occurs(k, d) = Occurs(l, d)
<1>s. PICK S, R : S = Places(l, d) /\ R = Places(k, d)
  OBVIOUS
<1>m. PICK m : m = Len(l)
  OBVIOUS
<1>1. /\ m \in Nat /\ k[m + 1] = x /\ \A i \in 1 .. m : k[i] = l[i]
      /\ DOMAIN l = 1 .. m /\ DOMAIN k = 1 .. m + 1
  <2>1. l \in Seq(Nat) /\ x \in Nat /\ Grows(k, l, x)
    OBVIOUS
  <2> QED BY ONLY <1>m, <2>1, AppendAt
<1>2. IsFiniteSet(S) /\ m + 1 \notin S /\ Cardinality(S) \in Nat
  <2>1. IsFiniteSet(S) /\ Cardinality(S) \in Nat
    BY <1>s, OccursNat DEF Occurs
  <2>2. S \subseteq 1 .. m
    BY <1>s, <1>1 DEF Places
  <2> QED BY <1>1, <2>1, <2>2
<1>3. CASE x = d
  <2>1. R = S \cup {m + 1}
    BY <1>s, <1>1, <1>3 DEF Places
  <2>2. Cardinality(R) = Cardinality(S) + 1
    BY ONLY <1>2, <2>1, FS_AddElement
  <2> QED BY ONLY <1>s, <1>3, <2>2 DEF Occurs
<1>4. CASE x # d
  <2>1. R = S
    BY <1>s, <1>1, <1>4 DEF Places
  <2> QED BY ONLY <1>s, <1>2, <1>4, <2>1 DEF Occurs
<1> QED BY <1>3, <1>4

LEMMA OccursTail ==
  ASSUME NEW k \in Seq(Nat), NEW l, NEW x, Shrinks(l, k, x), NEW d
  PROVE  /\ x = d => Occurs(k, d) = Occurs(l, d) + 1
         /\ x # d => Occurs(k, d) = Occurs(l, d)
<1>s. PICK S, R, Q : S = Places(l, d) /\ R = Places(k, d) /\ Q = R \ {1}
  OBVIOUS
<1>m. PICK m : m = Len(l)
  OBVIOUS
<1>1. /\ l \in Seq(Nat) /\ m \in Nat /\ x = k[1] /\ \A i \in 1 .. m : l[i] = k[i + 1]
      /\ DOMAIN l = 1 .. m /\ DOMAIN k = 1 .. m + 1
  <2>1. l \in Seq(Nat) /\ DOMAIN l = 1 .. Len(l) /\ DOMAIN k = 1 .. Len(l) + 1
    BY ONLY k \in Seq(Nat), Shrinks(l, k, x), TailAt
  <2>2. Len(l) \in Nat /\ x = k[1] /\ \A i \in 1 .. Len(l) : l[i] = k[i + 1]
    BY ONLY k \in Seq(Nat), Shrinks(l, k, x), TailAt
  <2> QED BY ONLY <1>m, <2>1, <2>2
<1>2. IsFiniteSet(S) /\ IsFiniteSet(R) /\ Cardinality(R) \in Nat /\ Cardinality(S) \in Nat
  BY <1>s, <1>1, OccursNat DEF Occurs
<1>3. Cardinality(S) = Cardinality(Q)
  <2> DEFINE f == [n \in S |-> n + 1]
  <2>1. \A n \in S : n \in Nat /\ n + 1 \in Q
    <3> TAKE n \in S
    <3>1. n \in 1 .. m /\ l[n] = d
      BY <1>s, <1>1 DEF Places
    <3>2. n + 1 \in 1 .. m + 1 /\ n + 1 # 1 /\ k[n + 1] = d
      BY <1>1, <3>1
    <3> QED BY <1>s, <1>1, <3>1, <3>2 DEF Places
  <2>2. \A n \in Q : n - 1 \in S /\ n = (n - 1) + 1
    <3> TAKE n \in Q
    <3>1. n \in 2 .. m + 1 /\ k[n] = d
      BY <1>s, <1>1 DEF Places
    <3>2. n - 1 \in 1 .. m /\ n = (n - 1) + 1
      BY ONLY <1>1, <3>1
    <3>3. l[n - 1] = d
      BY <1>1, <3>1, <3>2
    <3> QED BY <1>s, <1>1, <3>2, <3>3 DEF Places
  <2>3. f \in Bijection(S, Q)
    <3>1. f \in [S -> Q]
      BY ONLY <2>1
    <3>2. \A a, b \in S : f[a] = f[b] => a = b
      BY ONLY <2>1
    <3>3. \A n \in Q : \E a \in S : f[a] = n
      BY ONLY <2>2
    <3> HIDE DEF f
    <3> QED BY ONLY <3>1, <3>2, <3>3, Fun_IsBij
  <2>4. ExistsBijection(S, Q)
    BY ONLY <2>3 DEF ExistsBijection
  <2> QED BY ONLY <1>2, <2>4, FS_Bijection
<1>5. 1 \in R <=> k[1] = d
  BY <1>s, <1>1 DEF Places
<1>6. Cardinality(Q) = IF 1 \in R THEN Cardinality(R) - 1 ELSE Cardinality(R)
  <2>1. Q = R \ {1}
    BY <1>s
  <2> QED BY ONLY <1>2, <2>1, FS_RemoveElement, Zenon
<1>7. Cardinality(R) = IF k[1] = d THEN Cardinality(S) + 1 ELSE Cardinality(S)
  BY ONLY <1>2, <1>3, <1>5, <1>6
<1> QED BY ONLY <1>s, <1>1, <1>7 DEF Occurs

-----------------------------------------------------------------------------
(* The aggregation states.                                                 *)

\* a is the state of an aggregation over the values l.
Describes(a, l) ==
    /\ a[1] = [sum |-> Total(l)]
    /\ a[2] = [count |-> Len(l), avg |-> [mCount |-> Len(l), mSum |-> Total(l)]]
    /\ a[3] = [dcount |-> CountsOf(l), min |-> CountsOf(l), lrecent |-> l]

LEMMA StepUp ==
  ASSUME NEW c \in Nat, c + 1 < UIntRange
  PROVE  (c + 1) % UIntRange = c + 1
<1>2. ASSUME NEW n \in Nat, NEW u \in Nat \ {0}, n < u PROVE n % u = n
  BY ONLY <1>2
<1>3. c + 1 \in Nat /\ UIntRange \in Nat \ {0}
  BY UIntAssumption
<1> QED BY <1>2, <1>3

LEMMA StepDown ==
  ASSUME NEW c \in Nat \ {0}, c < UIntRange
  PROVE  (c + (UIntRange - 1)) % UIntRange = c - 1
<1> PICK u \in Nat \ {0} : u = UIntRange
  BY UIntAssumption
<1>2. ASSUME NEW n \in Nat, n < u PROVE (n + u) % u = n
  BY <1>2
<1>3. c + (u - 1) = (c - 1) + u /\ c - 1 \in Nat /\ c - 1 < u
  OBVIOUS
<1> QED BY <1>2, <1>3

LEMMA ValuesNat ==
  ASSUME NEW l \in Seq(Values)
  PROVE  l \in Seq(Nat)
<1>1. Values \subseteq Nat
  BY SizeAssumption
<1>2. Len(l) \in Nat /\ DOMAIN l = 1 .. Len(l) /\ \A i \in 1 .. Len(l) : l[i] \in Values
  OBVIOUS
<1>3. l \in [1 .. Len(l) -> Values]
  OBVIOUS
<1>4. l \in [1 .. Len(l) -> Nat]
  BY <1>1, <1>3
<1> QED BY <1>2, <1>4

LEMMA CountsEmpty == CountsOf(<<>>) = NoEntries
<1>1. ToSet(<<>>) = {}
  BY DEF ToSet
<1> QED BY <1>1 DEF CountsOf, NoEntries

LEMMA CountsDefined ==
  ASSUME NEW l \in Seq(Values), Len(l) < UIntRange
  PROVE  CountsOf(l) # Undefined
<1>1. ToSet(l) \in SUBSET Values
  BY DEF ToSet
<1>2. \A d \in ToSet(l) : Occurs(l, d) \in 0 .. UIntRange - 1
  <2> TAKE d \in ToSet(l)
  <2>1. l \in Seq(Nat)
    BY ValuesNat
  <2>2. PICK c, n, u : c = Occurs(l, d) /\ n = Len(l) /\ u = UIntRange
    OBVIOUS
  <2>3. c \in Nat /\ c <= n /\ n \in Nat /\ n < u /\ u \in Nat
    BY <2>1, <2>2, OccursNat, UIntAssumption
  <2>4. c \in 0 .. u - 1
    BY ONLY <2>3
  <2> QED BY <2>2, <2>4
<1>3. CountsOf(l) \in [ToSet(l) -> 0 .. UIntRange - 1]
  BY <1>2 DEF CountsOf
<1>4. Undefined \notin [ToSet(l) -> 0 .. UIntRange - 1]
  BY <1>1, RangeAssumption
<1> QED BY <1>3, <1>4

\* m counts the elements of the set S, c tells how often they occur.
LEMMA CountsAt ==
  ASSUME NEW l
  PROVE  /\ DOMAIN CountsOf(l) = ToSet(l)
         /\ \A d \in ToSet(l) : CountsOf(l)[d] = Occurs(l, d)
BY DEF CountsOf

LEMMA CountsAppend ==
  ASSUME NEW l \in Seq(Nat), NEW x \in Nat, Len(l) + 1 < UIntRange, NEW k, Grows(k, l, x)
  PROVE  CountsOf(k) = IF x \in ToSet(l) THEN Recount(CountsOf(l), x, FALSE) ELSE Enter(CountsOf(l), x)
<1> PICK m : m = CountsOf(l)
  OBVIOUS
<1>1. ToSet(k) = ToSet(l) \cup {x}
  <2>1. /\ Len(l) \in Nat /\ k[Len(l) + 1] = x /\ DOMAIN l = 1 .. Len(l) /\ DOMAIN k = 1 .. Len(l) + 1
        /\ \A i \in 1 .. Len(l) : k[i] = l[i]
    BY AppendAt
  <2>2. \A i \in 1 .. Len(l) + 1 : i \in 1 .. Len(l) \/ i = Len(l) + 1
    BY <2>1
  <2>3. \A i \in 1 .. Len(l) : i \in 1 .. Len(l) + 1
    BY <2>1
  <2>4. Len(l) + 1 \in 1 .. Len(l) + 1
    BY <2>1
  <2>5. ToSet(k) = {k[i] : i \in 1 .. Len(l) + 1} /\ ToSet(l) = {l[i] : i \in 1 .. Len(l)}
    BY <2>1 DEF ToSet
  <2> QED BY ONLY <2>1, <2>2, <2>3, <2>4, <2>5
<1>2. Occurs(k, x) = Occurs(l, x) + 1 /\ \A d : d # x => Occurs(k, d) = Occurs(l, d)
  BY OccursAppend
<1>3. \A d : Occurs(l, d) \in Nat /\ Occurs(l, d) <= Len(l)
  BY OccursNat
<1>4. DOMAIN m = ToSet(l) /\ \A d \in ToSet(l) : m[d] = Occurs(l, d)
  BY CountsAt
<1>5. CountsOf(k) = [d \in ToSet(l) \cup {x} |-> Occurs(k, d)]
  BY <1>1 DEF CountsOf
<1>6. CASE x \in ToSet(l)
  <2>0. PICK c, o : c = m[x] /\ o = Occurs(k, x)
    OBVIOUS
  <2>1. c \in Nat /\ c + 1 < UIntRange /\ o = c + 1
    <3>1. c \in Nat /\ c <= Len(l) /\ o = c + 1
      BY ONLY <1>2, <1>3, <1>4, <1>6, <2>0
    <3> QED BY <3>1, UIntAssumption
  <2>2. Recount(m, x, FALSE) = [m EXCEPT ![x] = o]
    <3>1. (c + 1) % UIntRange = o /\ o # 0
      BY ONLY <2>1, StepUp
    <3> QED BY ONLY <2>0, <3>1 DEF Recount, Step
  <2>3. CountsOf(k) = [d \in ToSet(l) |-> Occurs(k, d)]
    <3>1. ToSet(l) \cup {x} = ToSet(l)
      BY <1>6
    <3> QED BY <1>5, <3>1
  <2>4. \A d \in ToSet(l) : d # x => Occurs(k, d) = m[d]
    BY <1>2, <1>3, <1>4
  <2>5. [m EXCEPT ![x] = o] = [d \in ToSet(l) |-> Occurs(k, d)]
    BY ONLY <1>4, <1>6, <2>0, <2>4
  <2> QED BY ONLY <1>6, <2>2, <2>3, <2>5, m = CountsOf(l)
<1>7. CASE x \notin ToSet(l)
  <2>1. Occurs(k, x) = 1
    <3>1. ~(Occurs(l, x) >= 1)
      BY <1>7, OccursPositive
    <3> QED BY ONLY <1>2, <1>3, <3>1
  <2>2. \A d \in ToSet(l) : d # x /\ Occurs(k, d) = m[d]
    BY <1>2, <1>3, <1>4, <1>7
  <2>3. Enter(m, x) = [d \in ToSet(l) \cup {x} |-> IF d = x THEN 1 ELSE m[d]]
    BY <1>4 DEF Enter
  <2>4. \A d \in ToSet(l) \cup {x} : Occurs(k, d) = IF d = x THEN 1 ELSE m[d]
    BY ONLY <2>1, <2>2
  <2>5. CountsOf(k) = Enter(m, x)
    BY ONLY <1>5, <2>3, <2>4
  <2> QED BY ONLY <1>7, <2>5, m = CountsOf(l)
<1> QED BY <1>6, <1>7

LEMMA CountsTail ==
  ASSUME NEW k \in Seq(Nat), Len(k) < UIntRange, NEW l, NEW x, Shrinks(l, k, x)
  PROVE  x \in ToSet(k) /\ CountsOf(l) = Recount(CountsOf(k), x, TRUE)
<1> PICK m : m = CountsOf(k)
  OBVIOUS
<1>0. /\ l \in Seq(Nat) /\ x = k[1] /\ Len(l) \in Nat
      /\ \A i \in 1 .. Len(l) : l[i] = k[i + 1]
      /\ DOMAIN l = 1 .. Len(l) /\ DOMAIN k = 1 .. Len(l) + 1
  BY TailAt
<1>1. ToSet(k) = ToSet(l) \cup {x}
  <2>1. \A i \in 1 .. Len(l) + 1 : i = 1 \/ (i - 1 \in 1 .. Len(l) /\ (i - 1) + 1 = i)
    BY <1>0
  <2>2. \A i \in 1 .. Len(l) : i + 1 \in 1 .. Len(l) + 1
    BY <1>0
  <2>3. 1 \in 1 .. Len(l) + 1
    BY <1>0
  <2>4. ToSet(k) = {k[i] : i \in 1 .. Len(l) + 1} /\ ToSet(l) = {l[i] : i \in 1 .. Len(l)}
    BY <1>0 DEF ToSet
  <2>5. \A i \in 1 .. Len(l) + 1 : k[i] \in ToSet(l) \cup {x}
    <3> TAKE i \in 1 .. Len(l) + 1
    <3>1. CASE i = 1
      BY <1>0, <3>1
    <3>2. CASE i # 1
      <4>1. i - 1 \in 1 .. Len(l) /\ (i - 1) + 1 = i
        BY <2>1, <3>2
      <4>2. l[i - 1] = k[i]
        BY <1>0, <4>1
      <4> QED BY <2>4, <4>1, <4>2
    <3> QED BY <3>1, <3>2
  <2>6. \A i \in 1 .. Len(l) : l[i] \in ToSet(k)
    BY <1>0, <2>2, <2>4
  <2>7. x \in ToSet(k)
    BY <1>0, <2>3, <2>4
  <2> QED BY ONLY <2>4, <2>5, <2>6, <2>7
<1>2. Occurs(k, x) = Occurs(l, x) + 1 /\ \A d : d # x => Occurs(k, d) = Occurs(l, d)
  BY OccursTail
<1>3. \A d : Occurs(l, d) \in Nat /\ Occurs(k, d) \in Nat /\ Occurs(k, d) <= Len(k)
  BY <1>0, OccursNat
<1>4. DOMAIN m = ToSet(k) /\ \A d \in ToSet(k) : m[d] = Occurs(k, d)
  BY CountsAt
<1>5. PICK c, o : c = m[x] /\ o = Occurs(l, x)
  OBVIOUS
<1>6. (c + (UIntRange - 1)) % UIntRange = o /\ o \in Nat
  <2>1. c = o + 1 /\ o \in Nat /\ c <= Len(k) /\ Len(k) \in Nat
    <3>1. x \in ToSet(k)
      BY <1>1
    <3>2. Len(k) \in Nat
      BY SeqAt
    <3> QED BY ONLY <1>2, <1>3, <1>4, <1>5, <3>1, <3>2
  <2>2. c \in Nat \ {0} /\ c < UIntRange /\ c - 1 = o
    BY <2>1, UIntAssumption
  <2> QED BY ONLY <2>1, <2>2, StepDown
<1>7. \A d : d # x => Occurs(l, d) = Occurs(k, d)
  BY <1>2, <1>3
<1>8. x \in ToSet(l) <=> Occurs(l, x) # 0
  <2>1. x \in ToSet(l) <=> Occurs(l, x) >= 1
    BY ONLY <1>0, OccursPositive
  <2> QED BY <1>3, <2>1
<1>9. CASE Occurs(l, x) = 0
  <2>1. ToSet(l) = ToSet(k) \ {x}
    BY <1>1, <1>8, <1>9
  <2>2. Recount(m, x, TRUE) = [d \in ToSet(k) \ {x} |-> m[d]]
    BY ONLY <1>4, <1>5, <1>6, <1>9 DEF Recount, Erase, Step
  <2>3. CountsOf(l) = [d \in ToSet(k) \ {x} |-> Occurs(l, d)]
    BY <2>1 DEF CountsOf
  <2>4. \A d \in ToSet(k) \ {x} : Occurs(l, d) = m[d]
    BY <1>4, <1>7
  <2>5. CountsOf(l) = Recount(m, x, TRUE)
    BY ONLY <2>2, <2>3, <2>4
  <2> QED BY <1>1, <2>5
<1>10. CASE Occurs(l, x) # 0
  <2>1. ToSet(l) = ToSet(k)
    BY <1>1, <1>8, <1>10
  <2>2. Recount(m, x, TRUE) = [m EXCEPT ![x] = o]
    BY ONLY <1>5, <1>6, <1>10 DEF Recount, Step
  <2>3. CountsOf(l) = [d \in ToSet(k) |-> Occurs(l, d)]
    BY <2>1 DEF CountsOf
  <2>4. \A d \in ToSet(k) : d # x => Occurs(l, d) = m[d]
    BY <1>4, <1>7
  <2>5. CountsOf(l) = Recount(m, x, TRUE)
    BY ONLY <1>4, <1>5, <2>2, <2>3, <2>4
  <2> QED BY <1>1, <2>5
<1> QED BY <1>9, <1>10


LEMMA DescribesInit == Describes(AggregateState_init, <<>>)
<1>1. Total(<<>>) = 0 /\ Len(<<>>) = 0 /\ CountsOf(<<>>) = NoEntries
  BY TotalEmpty, CountsEmpty
<1>2. PICK a : a = AggregateState_init
  OBVIOUS
<1>3. a[1] = Aggregator1_init /\ a[2] = Aggregator2_init /\ a[3] = Aggregator3_init
  BY <1>2 DEF AggregateState_init
<1>4. Describes(a, <<>>)
  BY ONLY <1>1, <1>3 DEF Describes, Aggregator1_init, Aggregator2_init, Aggregator3_init
<1> QED BY <1>2, <1>4

\* A list of values is no failed assertion.
LEMMA ListDefined ==
  ASSUME NEW l \in Seq(Values), Len(l) < UIntRange
  PROVE  l # Undefined
<1>1. PICK n \in Nat : n = Len(l)
  OBVIOUS
<1>2. l \in [1 .. n -> Values]
  BY ONLY <1>1, l \in Seq(Values)
<1>3. n \in 0 .. UIntRange - 1
  BY <1>1, UIntAssumption
<1> QED BY ONLY <1>2, <1>3, RangeAssumption

\* A new value.
LEMMA DescribesAppend ==
  ASSUME NEW l \in Seq(Values), NEW x \in Values, Len(l) + 1 < UIntRange, NEW k, Grows(k, l, x),
         NEW a, Describes(a, l), NEW b, b = AggregateState_iterate(a, x, FALSE)
  PROVE  Describes(b, k)
<1>0. l \in Seq(Nat) /\ x \in Nat /\ Len(l) \in Nat
  <2>1. l \in Seq(Nat)
    BY ValuesNat
  <2> QED BY <2>1, SizeAssumption, SeqAt
<1>1. /\ b[1] = Aggregator1_iterate(a[1], x, FALSE) /\ b[2] = Aggregator2_iterate(a[2], x, FALSE)
      /\ b[3] = Aggregator3_iterate(a[3], x, FALSE)
  BY DEF AggregateState_iterate
<1>2. PICK n, s, m : n = Len(l) /\ s = Total(l) /\ m = CountsOf(l)
  OBVIOUS
<1>3. /\ a[1].sum = s /\ a[2].count = n /\ a[2].avg.mCount = n /\ a[2].avg.mSum = s
      /\ a[3].dcount = m /\ a[3].min = m /\ a[3].lrecent = l
  BY <1>2 DEF Describes
<1>4. (n + 1) % UIntRange = n + 1 /\ Len(k) = n + 1 /\ Total(k) = s + x
  <2>1. (n + 1) % UIntRange = n + 1
    BY ONLY <1>0, <1>2, Len(l) + 1 < UIntRange, StepUp
  <2>2. Len(k) = n + 1
    BY ONLY <1>0, <1>2, Grows(k, l, x), AppendAt
  <2>3. Total(k) = s + x
    BY ONLY <1>0, <1>2, Grows(k, l, x), TotalAppend
  <2> QED BY <2>1, <2>2, <2>3
<1>5. b[1] = [sum |-> Total(k)]
  BY ONLY <1>1, <1>3, <1>4 DEF Aggregator1_iterate, AggrSum_iterate
<1>6. b[2] = [count |-> Len(k), avg |-> [mCount |-> Len(k), mSum |-> Total(k)]]
  BY ONLY <1>1, <1>3, <1>4 DEF Aggregator2_iterate, AggrCount_iterate, AggrAvg_iterate, AggrSum_iterate, Step
<1>7. CountsOf(k) = IF x \in DOMAIN m THEN Recount(m, x, FALSE) ELSE Enter(m, x)
  <2>1. DOMAIN m = ToSet(l)
    BY ONLY <1>2, CountsAt
  <2> QED BY ONLY <1>0, <1>2, <2>1, Len(l) + 1 < UIntRange, Grows(k, l, x), CountsAppend
<1>8. m # Undefined /\ l # Undefined
  <2>1. Len(l) < UIntRange
    BY <1>0, UIntAssumption
  <2> QED BY <1>2, <2>1, CountsDefined, ListDefined
<1>9. b[3] = [dcount |-> CountsOf(k), min |-> CountsOf(k), lrecent |-> k]
  <2>1. k = Append(l, x)
    BY DEF Grows
  <2>2. AggrDCount_iterate(m, x, FALSE) = CountsOf(k)
    BY ONLY <1>7, <1>8 DEF AggrDCount_iterate
  <2>3. AggrMinMax_iterate(m, x, FALSE) = CountsOf(k)
    BY ONLY <1>7 DEF AggrMinMax_iterate
  <2>4. AggrLRecent_iterate(l, x, FALSE) = k
    BY ONLY <1>8, <2>1 DEF AggrLRecent_iterate
  <2> QED BY ONLY <1>1, <1>3, <2>2, <2>3, <2>4 DEF Aggregator3_iterate
<1> QED BY ONLY <1>5, <1>6, <1>9 DEF Describes

\* The oldest value is outdated.
LEMMA DescribesTail ==
  ASSUME NEW k \in Seq(Values), Len(k) < UIntRange, NEW l, NEW x, Shrinks(l, k, x),
         NEW a, Describes(a, k), NEW b, b = AggregateState_iterate(a, x, TRUE)
  PROVE  Describes(b, l)
<1>0. k \in Seq(Nat)
  BY ValuesNat
<1>a. /\ l \in Seq(Nat) /\ x \in Nat /\ Len(l) \in Nat /\ Len(k) = Len(l) + 1
      /\ l = Tail(k) /\ k # <<>>
  <2>1. l \in Seq(Nat) /\ x \in Nat /\ Len(l) \in Nat /\ Len(k) = Len(l) + 1
    BY ONLY <1>0, Shrinks(l, k, x), TailAt
  <2> QED BY <2>1 DEF Shrinks
<1>1. /\ b[1] = Aggregator1_iterate(a[1], x, TRUE) /\ b[2] = Aggregator2_iterate(a[2], x, TRUE)
      /\ b[3] = Aggregator3_iterate(a[3], x, TRUE)
  BY DEF AggregateState_iterate
<1>2. PICK n, s, m : n = Len(k) /\ s = Total(k) /\ m = CountsOf(k)
  OBVIOUS
<1>3. /\ a[1].sum = s /\ a[2].count = n /\ a[2].avg.mCount = n /\ a[2].avg.mSum = s
      /\ a[3].dcount = m /\ a[3].min = m /\ a[3].lrecent = k
  BY <1>2 DEF Describes
<1>4. (n + (UIntRange - 1)) % UIntRange = Len(l) /\ Total(l) = s - x /\ s \in Nat
  <2>1. n \in Nat \ {0} /\ n < UIntRange /\ n - 1 = Len(l)
    BY <1>2, <1>a
  <2>2. (n + (UIntRange - 1)) % UIntRange = n - 1
    BY ONLY <2>1, StepDown
  <2>3. Total(l) = s - x
    BY ONLY <1>0, <1>2, Shrinks(l, k, x), TotalTail
  <2>4. s \in Nat
    BY ONLY <1>0, <1>2, TotalNat
  <2> QED BY <2>1, <2>2, <2>3, <2>4
<1>b. s - x = s + -x
  BY ONLY <1>4, <1>a
<1>5. b[1] = [sum |-> Total(l)]
  BY ONLY <1>1, <1>3, <1>4, <1>b DEF Aggregator1_iterate, AggrSum_iterate
<1>6. b[2] = [count |-> Len(l), avg |-> [mCount |-> Len(l), mSum |-> Total(l)]]
  BY ONLY <1>1, <1>3, <1>4, <1>b DEF Aggregator2_iterate, AggrCount_iterate, AggrAvg_iterate, AggrSum_iterate, Step
<1>7. CountsOf(l) = Recount(m, x, TRUE) /\ x \in DOMAIN m
  <2>1. DOMAIN m = ToSet(k)
    BY ONLY <1>2, CountsAt
  <2> QED BY ONLY <1>0, <1>2, <2>1, Len(k) < UIntRange, Shrinks(l, k, x), CountsTail
<1>8. m # Undefined /\ k # Undefined
  BY <1>2, CountsDefined, ListDefined
<1>9. b[3] = [dcount |-> CountsOf(l), min |-> CountsOf(l), lrecent |-> l]
  <2>2. AggrDCount_iterate(m, x, TRUE) = CountsOf(l)
    BY ONLY <1>7, <1>8 DEF AggrDCount_iterate
  <2>3. AggrMinMax_iterate(m, x, TRUE) = CountsOf(l)
    BY ONLY <1>7 DEF AggrMinMax_iterate
  <2>4. AggrLRecent_iterate(k, x, TRUE) = l
    BY ONLY <1>8, <1>a DEF AggrLRecent_iterate
  <2> QED BY ONLY <1>1, <1>3, <2>2, <2>3, <2>4 DEF Aggregator3_iterate
<1> QED BY ONLY <1>5, <1>6, <1>9 DEF Describes

\* What the state reports, and when it has nothing to report.
LEMMA DescribesFinal ==
  ASSUME NEW l \in Seq(Values), Len(l) < UIntRange, NEW a, Describes(a, l),
         NEW v, v = AggregateState_finalize(a), NEW r, r = Reference(l)
  PROVE  /\ \A n \in DOMAIN r : v[n] = r[n]
         /\ "dcount" \notin UndefinedIn(a) /\ (l # <<>> => UndefinedIn(a) = {})
<1>0. l \in Seq(Nat) /\ Len(l) \in Nat
  <2>1. l \in Seq(Nat)
    BY ValuesNat
  <2> QED BY <2>1, SeqAt
<1>1. /\ v[1] = Aggregator1_finalize(a[1]) /\ v[2] = Aggregator2_finalize(a[2])
      /\ v[3] = Aggregator3_finalize(a[3])
  BY DEF AggregateState_finalize
<1>2. PICK n, s, m : n = Len(l) /\ s = Total(l) /\ m = CountsOf(l)
  OBVIOUS
<1>3. /\ a[1].sum = s /\ a[2].count = n /\ a[2].avg.mCount = n /\ a[2].avg.mSum = s
      /\ a[3].dcount = m /\ a[3].min = m /\ a[3].lrecent = l
  BY <1>2 DEF Describes
<1>4. n = 0 <=> l = <<>>
  BY ONLY <1>0, <1>2
<1>5. m # Undefined /\ l # Undefined
  BY <1>2, CountsDefined, ListDefined
<1>6. DOMAIN m = ToSet(l)
  BY ONLY <1>2, CountsAt
<1>7. m = NoEntries <=> l = <<>>
  <2>1. l = <<>> => m = NoEntries
    BY <1>2, CountsEmpty
  <2>2. l # <<>> => ToSet(l) # {}
    <3> SUFFICES ASSUME l # <<>> PROVE ToSet(l) # {}
      OBVIOUS
    <3>1. 1 \in DOMAIN l
      BY <1>0
    <3> QED BY <3>1 DEF ToSet
  <2>3. DOMAIN NoEntries = {}
    BY DEF NoEntries
  <2> QED BY <1>6, <2>1, <2>2, <2>3
<1>8. PICK g, c, q, h : /\ g = AggrAvg_value(a[2].avg) /\ c = AggrDCount_value(m)
                        /\ q = AggrMinMax_value(m) /\ h = AggrLRecent_value(l)
  OBVIOUS
<1>9. v[1] = [sum |-> s] /\ v[2] = [count |-> n, avg |-> g]
      /\ v[3] = [dcount |-> c, min |-> q, lrecent |-> h]
  BY ONLY <1>1, <1>3, <1>8 DEF Aggregator1_finalize, Aggregator2_finalize, Aggregator3_finalize
<1>10. g = IF l = <<>> THEN Undefined ELSE s \div n
  BY ONLY <1>3, <1>4, <1>8 DEF AggrAvg_value
<1>11. c = Cardinality(ToSet(l))
  BY ONLY <1>5, <1>6, <1>8 DEF AggrDCount_value
<1>12. q = IF l = <<>> THEN Undefined ELSE Min(ToSet(l))
  BY ONLY <1>6, <1>7, <1>8 DEF AggrMinMax_value
<1>13. h = IF l = <<>> THEN Undefined ELSE Head(l)
  BY ONLY <1>5, <1>8 DEF AggrLRecent_value
<1>14. /\ DOMAIN r = 1 .. 3 /\ r[1] = [sum |-> s] /\ r[2] = [count |-> n, avg |-> g]
       /\ r[3] = [dcount |-> c, min |-> q, lrecent |-> h]
  BY ONLY <1>2, <1>10, <1>11, <1>12, <1>13, r = Reference(l) DEF Reference
<1>15. \A i \in DOMAIN r : v[i] = r[i]
  BY ONLY <1>9, <1>14
<1>16. c # Undefined
  <2>1. IsFiniteSet(ToSet(l))
    <3> DEFINE f == [i \in 1 .. Len(l) |-> l[i]]
    <3>1. DOMAIN l = 1 .. Len(l)
      BY <1>0
    <3>2. f \in Surjection(1 .. Len(l), ToSet(l))
      <4>1. f \in [1 .. Len(l) -> ToSet(l)]
        BY <3>1 DEF ToSet
      <4>2. \A y \in ToSet(l) : \E i \in 1 .. Len(l) : f[i] = y
        BY <3>1 DEF ToSet
      <4> HIDE DEF f
      <4> QED BY ONLY <4>1, <4>2, Fun_IsSurj
    <3>3. IsFiniteSet(1 .. Len(l))
      BY <1>0, FS_Interval
    <3> HIDE DEF f
    <3> QED BY ONLY <3>2, <3>3, FS_Surjection
  <2>2. Cardinality(ToSet(l)) \in Nat
    BY ONLY <2>1, FS_CardinalityType
  <2> QED BY <1>11, <2>2, RangeAssumption
<1>17. \A x : x \in UndefinedIn(a) <=> (x \in DOMAIN v[2] /\ v[2][x] = Undefined) \/
                                       (x \in DOMAIN v[3] /\ v[3][x] = Undefined)
  <2>1. PICK w, z : w = Aggregator2_finalize(a[2]) /\ z = Aggregator3_finalize(a[3])
    OBVIOUS
  <2>2. UndefinedIn(a) = UNION {{f \in DOMAIN y : y[f] = Undefined} : y \in {w, z}}
    BY <2>1 DEF UndefinedIn
  <2>3. UndefinedIn(a) = {f \in DOMAIN w : w[f] = Undefined} \cup {f \in DOMAIN z : z[f] = Undefined}
    BY ONLY <2>2
  <2>4. v[2] = w /\ v[3] = z
    BY <1>1, <2>1
  <2>5. PICK U : U = UndefinedIn(a)
    OBVIOUS
  <2>6. \A x : x \in U <=> (x \in DOMAIN w /\ w[x] = Undefined) \/ (x \in DOMAIN z /\ z[x] = Undefined)
    <3>1. U = {f \in DOMAIN w : w[f] = Undefined} \cup {f \in DOMAIN z : z[f] = Undefined}
      BY <2>3, <2>5
    <3> QED BY ONLY <3>1
  <2> QED BY ONLY <2>4, <2>5, <2>6, Zenon
<1>18. /\ DOMAIN v[2] = {"count", "avg"} /\ DOMAIN v[3] = {"dcount", "min", "lrecent"}
       /\ v[2]["count"] = n /\ v[2]["avg"] = g
       /\ v[3]["dcount"] = c /\ v[3]["min"] = q /\ v[3]["lrecent"] = h
  BY ONLY <1>9
<1>20. n # Undefined
  BY <1>0, <1>2, RangeAssumption
<1>19. ASSUME l # <<>>
       PROVE  g # Undefined /\ q # Undefined /\ h # Undefined
  <2>1. s \in Nat /\ n \in Nat \ {0}
    <3>1. s \in Nat
      BY ONLY <1>0, <1>2, TotalNat
    <3> QED BY <1>0, <1>2, <1>4, <1>19, <3>1
  <2>2. g \in Int
    <3>1. s \div n \in Int
      BY ONLY <2>1
    <3> QED BY <1>10, <1>19, <3>1
  <2>3. q \in Int
    <3>1. ToSet(l) \subseteq Nat /\ ToSet(l) # {}
      <4>1. DOMAIN l = 1 .. Len(l) /\ \A i \in 1 .. Len(l) : l[i] \in Nat
        BY ONLY <1>0
      <4>2. 1 \in DOMAIN l
        BY <1>0, <1>19
      <4> QED BY <4>1, <4>2 DEF ToSet
    <3>2. \E y \in ToSet(l) : \A z \in ToSet(l) : y <= z
      BY ONLY <3>1, SmallestOne
    <3>3. Min(ToSet(l)) \in ToSet(l)
      BY ONLY <3>2 DEF Min
    <3> QED BY <1>12, <1>19, <3>1, <3>3
  <2>4. h \in Int
    <3>1. Head(l) \in Nat
      BY ONLY <1>0, <1>19
    <3> QED BY <1>13, <1>19, <3>1
  <2> QED BY <2>2, <2>3, <2>4, RangeAssumption
<1> QED BY ONLY <1>15, <1>16, <1>17, <1>18, <1>19, <1>20

-----------------------------------------------------------------------------
(* The positions of a finite set in their order.                           *)

Below(P, i) == {j \in P : j < i}

LEMMA RankFacts ==
  ASSUME NEW P \in SUBSET Nat, IsFiniteSet(P)
  PROVE  /\ \A i : Rank(P, i) \in Nat
         /\ \A i \in P : Rank(P, i) \in 0 .. Cardinality(P) - 1
         /\ \A i, j \in P : i < j => Rank(P, i) < Rank(P, j)
         /\ \A i, j \in P : Rank(P, i) = Rank(P, j) => i = j
         /\ \A n \in 0 .. Cardinality(P) - 1 : \E i \in P : Rank(P, i) = n
<1>0. \A i : Rank(P, i) = Cardinality(Below(P, i)) /\ Below(P, i) \subseteq P
  BY DEF Rank, Below
<1>1. \A i : IsFiniteSet(Below(P, i)) /\ Cardinality(Below(P, i)) <= Cardinality(P)
  <2> TAKE i
  <2>1. Below(P, i) \in SUBSET P
    BY <1>0
  <2> QED BY ONLY <2>1, IsFiniteSet(P), FS_Subset
<1>2. \A i : Cardinality(Below(P, i)) \in Nat
  BY ONLY <1>1, FS_CardinalityType
<1>3. Cardinality(P) \in Nat
  BY FS_CardinalityType
<1>4. ASSUME NEW i \in P
      PROVE  Cardinality(Below(P, i)) < Cardinality(P)
  <2>1. Below(P, i) \in SUBSET P /\ Below(P, i) # P
    BY DEF Below
  <2>2. Cardinality(P) # Cardinality(Below(P, i))
    BY ONLY <2>1, IsFiniteSet(P), FS_Subset
  <2> QED BY <1>1, <1>2, <1>3, <2>2
<1>5. ASSUME NEW i \in P, NEW j \in P, i < j
      PROVE  Cardinality(Below(P, i)) < Cardinality(Below(P, j))
  <2>1. PICK Q, R : Q = Below(P, i) /\ R = Below(P, j)
    OBVIOUS
  <2>2. Q \in SUBSET R /\ i \in R /\ i \notin Q
    <3>1. i \in Nat /\ j \in Nat /\ ~(i < i)
      OBVIOUS
    <3>2. \A x \in P : x < i => x < j
      <4> TAKE x \in P
      <4>1. x \in Nat
        OBVIOUS
      <4> QED BY ONLY <1>5, <3>1, <4>1
    <3> QED BY ONLY <1>5, <2>1, <3>1, <3>2 DEF Below
  <2>3. IsFiniteSet(R) /\ Cardinality(R) \in Nat /\ Cardinality(Q) \in Nat
    BY <1>1, <1>2, <2>1
  <2>4. Cardinality(Q) <= Cardinality(R) /\ Cardinality(R) # Cardinality(Q)
    BY ONLY <2>2, <2>3, FS_Subset
  <2>5. Cardinality(Q) < Cardinality(R)
    BY ONLY <2>3, <2>4
  <2> QED BY <2>1, <2>5
<1>6. \A i \in P : Rank(P, i) \in 0 .. Cardinality(P) - 1
  BY <1>0, <1>2, <1>3, <1>4
<1>7. \A i, j \in P : i < j => Rank(P, i) < Rank(P, j)
  BY <1>0, <1>5
<1>8. \A i, j \in P : Rank(P, i) = Rank(P, j) => i = j
  <2> SUFFICES ASSUME NEW i \in P, NEW j \in P, Rank(P, i) = Rank(P, j), i # j
               PROVE  FALSE
    OBVIOUS
  <2>1. i \in Nat /\ j \in Nat /\ Rank(P, i) \in Nat
    BY <1>0, <1>2
  <2>2. i < j \/ j < i
    BY <2>1
  <2>3. Rank(P, i) < Rank(P, j) \/ Rank(P, j) < Rank(P, i)
    BY <1>7, <2>2
  <2> QED BY <2>1, <2>3
<1>9. ASSUME NEW n \in 0 .. Cardinality(P) - 1
      PROVE  \E i \in P : Rank(P, i) = n
  <2> DEFINE f == [i \in P |-> Rank(P, i)]
             T == 0 .. Cardinality(P) - 1
  <2>1. IsFiniteSet(T) /\ Cardinality(T) = Cardinality(P)
    <3>1. PICK c : c = Cardinality(P)
      OBVIOUS
    <3>2. c \in Nat /\ 0 \in Int /\ c - 1 \in Int
      BY <1>3, <3>1
    <3>3. IsFiniteSet(0 .. c - 1) /\ Cardinality(0 .. c - 1) = IF 0 > c - 1 THEN 0 ELSE (c - 1) - 0 + 1
      BY ONLY <3>2, FS_Interval
    <3>4. Cardinality(0 .. c - 1) = c
      BY ONLY <3>2, <3>3
    <3> QED BY <3>1, <3>3, <3>4
  <2>2. n \in T
    OBVIOUS
  <2>3. f \in [P -> T]
    BY <1>6
  <2>4. \A i, j \in P : f[i] = f[j] => i = j
    BY <1>8
  <2>5. \A i \in P : f[i] = Rank(P, i)
    OBVIOUS
  <2> HIDE DEF f, T
  <2>6. f \in Injection(P, T)
    BY ONLY <2>3, <2>4, Fun_IsInj
  <2>7. f \in Surjection(P, T)
    BY ONLY <2>1, <2>6, FS_Injection
  <2>8. \E i \in P : f[i] = n
    BY ONLY <2>2, <2>7 DEF Surjection
  <2> QED BY <2>5, <2>8
<1>10. \A i : Rank(P, i) \in Nat
  BY <1>0, <1>2
<1> QED BY ONLY <1>6, <1>7, <1>8, <1>9, <1>10

LEMMA NthFacts ==
  ASSUME NEW P \in SUBSET Nat, IsFiniteSet(P)
  PROVE  /\ Cardinality(P) \in Nat
         /\ \A n \in 1 .. Cardinality(P) : Nth(P, n) \in P /\ Rank(P, Nth(P, n)) = n - 1
         /\ \A i \in P : \A n \in 1 .. Cardinality(P) : Rank(P, i) = n - 1 => Nth(P, n) = i
<1>0. Cardinality(P) \in Nat
  BY FS_CardinalityType
<1>1. ASSUME NEW n \in 1 .. Cardinality(P)
      PROVE  Nth(P, n) \in P /\ Rank(P, Nth(P, n)) = n - 1
  <2>1. n - 1 \in 0 .. Cardinality(P) - 1
    BY <1>0
  <2>2. \E i \in P : Rank(P, i) = n - 1
    BY ONLY <2>1, P \in SUBSET Nat, IsFiniteSet(P), RankFacts
  <2> QED BY ONLY <2>2 DEF Nth
<1>2. \A i, j \in P : Rank(P, i) = Rank(P, j) => i = j
  BY ONLY P \in SUBSET Nat, IsFiniteSet(P), RankFacts
<1>3. ASSUME NEW i \in P, NEW n \in 1 .. Cardinality(P), Rank(P, i) = n - 1
      PROVE  Nth(P, n) = i
  BY <1>1, <1>2, <1>3
<1> QED BY <1>0, <1>1, <1>3

\* The values at positions that do not change.
LEMMA ValuesSame ==
  ASSUME NEW P \in SUBSET Nat, IsFiniteSet(P), NEW s, NEW r, \A i \in P : r[i] = s[i]
  PROVE  ValuesOf(r, P) = ValuesOf(s, P)
<1>1. \A n \in 1 .. Cardinality(P) : Nth(P, n) \in P
  BY ONLY P \in SUBSET Nat, IsFiniteSet(P), NthFacts
<1>2. \A n \in 1 .. Cardinality(P) : r[Nth(P, n)].t.val = s[Nth(P, n)].t.val
  BY <1>1
<1> QED BY ONLY <1>2 DEF ValuesOf

LEMMA ValuesTyped ==
  ASSUME NEW P \in SUBSET Nat, IsFiniteSet(P), NEW s, NEW V, \A i \in P : s[i].t.val \in V,
         NEW l, l = ValuesOf(s, P)
  PROVE  l \in Seq(V) /\ Len(l) = Cardinality(P)
<1>1. Cardinality(P) \in Nat /\ \A n \in 1 .. Cardinality(P) : Nth(P, n) \in P
  BY ONLY P \in SUBSET Nat, IsFiniteSet(P), NthFacts
<1>2. PICK c \in Nat : c = Cardinality(P)
  BY <1>1
<1>3. l = [n \in 1 .. c |-> s[Nth(P, n)].t.val]
  BY <1>2 DEF ValuesOf
<1>4. \A n \in 1 .. c : s[Nth(P, n)].t.val \in V
  BY <1>1, <1>2
<1>5. l \in [1 .. c -> V]
  BY ONLY <1>3, <1>4
<1> QED BY ONLY <1>2, <1>5

LEMMA ValuesEmpty ==
  ASSUME NEW s
  PROVE  ValuesOf(s, {}) = <<>>
<1>1. Cardinality({}) = 0
  BY FS_EmptySet
<1>2. 1 .. 0 = {}
  OBVIOUS
<1> QED BY <1>1, <1>2 DEF ValuesOf

\* A position behind all others.
LEMMA ValuesGrow ==
  ASSUME NEW P \in SUBSET Nat, IsFiniteSet(P), NEW m \in Nat, \A i \in P : i < m,
         NEW Q, Q = P \cup {m}, NEW s, NEW r, \A i \in P : r[i] = s[i],
         NEW V, \A i \in Q : r[i].t.val \in V,
         NEW l, l = ValuesOf(s, P), NEW k, k = ValuesOf(r, Q), NEW x, x = r[m].t.val
  PROVE  Grows(k, l, x)
<1>0. Q \in SUBSET Nat /\ IsFiniteSet(Q) /\ m \notin P
  <2>1. IsFiniteSet(Q)
    BY ONLY Q = P \cup {m}, IsFiniteSet(P), FS_AddElement
  <2>2. m \notin P
    <3>1. ~(m < m)
      OBVIOUS
    <3> QED BY <3>1
  <2> QED BY <2>1, <2>2
<1>1. PICK c : c = Cardinality(P)
  OBVIOUS
<1>2. c \in Nat /\ Cardinality(Q) = c + 1
  <2>1. c \in Nat
    BY ONLY <1>1, IsFiniteSet(P), FS_CardinalityType
  <2>2. Cardinality(P \cup {m}) = IF m \in P THEN Cardinality(P) ELSE Cardinality(P) + 1
    BY ONLY IsFiniteSet(P), FS_AddElement
  <2> QED BY ONLY <1>0, <1>1, <2>1, <2>2, Q = P \cup {m}
<1>3. /\ \A n \in 1 .. c : Nth(P, n) \in P /\ Rank(P, Nth(P, n)) = n - 1
  BY ONLY <1>1, P \in SUBSET Nat, IsFiniteSet(P), NthFacts
<1>4. \A i \in Q : \A n \in 1 .. c + 1 : Rank(Q, i) = n - 1 => Nth(Q, n) = i
  BY ONLY <1>0, <1>2, NthFacts
<1>5. \A i \in P : Rank(Q, i) = Rank(P, i)
  <2> TAKE i \in P
  <2>1. ~(m < i)
    <3>1. i \in Nat /\ i < m
      OBVIOUS
    <3> QED BY ONLY <3>1, m \in Nat
  <2>2. {j \in Q : j < i} = {j \in P : j < i}
    BY ONLY <2>1, Q = P \cup {m}
  <2> QED BY ONLY <2>2 DEF Rank
<1>6. Rank(Q, m) = c
  <2>1. ~(m < m)
    OBVIOUS
  <2>2. PICK R : R = Below(Q, m)
    OBVIOUS
  <2>3. R \subseteq P
    BY <2>1, <2>2 DEF Below
  <2>4. P \subseteq R
    BY <2>2 DEF Below
  <2>5. R = P
    BY ONLY <2>3, <2>4
  <2>6. Rank(Q, m) = Cardinality(Below(Q, m))
    BY DEF Rank, Below
  <2> QED BY ONLY <1>1, <2>2, <2>5, <2>6
<1>7. \A n \in 1 .. c : Nth(Q, n) = Nth(P, n)
  <2> TAKE n \in 1 .. c
  <2>1. Nth(P, n) \in P /\ Rank(P, Nth(P, n)) = n - 1
    BY <1>3
  <2>2. PICK i : i = Nth(P, n)
    OBVIOUS
  <2>3. i \in Q /\ Rank(Q, i) = n - 1 /\ n \in 1 .. c + 1
    <3>1. n \in 1 .. c + 1
      BY ONLY <1>2, n \in 1 .. c
    <3>2. i \in Q
      BY ONLY <2>1, <2>2, Q = P \cup {m}
    <3> QED BY ONLY <1>5, <2>1, <2>2, <3>1, <3>2
  <2>4. Nth(Q, n) = i
    BY ONLY <1>4, <2>3
  <2> QED BY <2>2, <2>4
<1>8. Nth(Q, c + 1) = m
  <2>1. m \in Q /\ c + 1 \in 1 .. c + 1 /\ Rank(Q, m) = (c + 1) - 1
    BY <1>2, <1>6
  <2> QED BY ONLY <1>4, <2>1
<1>9. l = [n \in 1 .. c |-> s[Nth(P, n)].t.val]
  BY <1>1 DEF ValuesOf
<1>10. k = [n \in 1 .. c + 1 |-> r[Nth(Q, n)].t.val]
  BY <1>2 DEF ValuesOf
<1>11. l \in Seq(V) /\ Len(l) = c
  <2>1. \A i \in P : s[i].t.val \in V
    BY ONLY Q = P \cup {m}, \A i \in P : r[i] = s[i], \A i \in Q : r[i].t.val \in V
  <2> QED BY ONLY <1>1, <2>1, P \in SUBSET Nat, IsFiniteSet(P), l = ValuesOf(s, P), ValuesTyped
<1>12. k \in Seq(V) /\ Len(k) = c + 1
  BY ONLY <1>0, <1>2, k = ValuesOf(r, Q), \A i \in Q : r[i].t.val \in V, ValuesTyped
<1>13. \A n \in 1 .. c : k[n] = l[n]
  <2> TAKE n \in 1 .. c
  <2>1. n \in 1 .. c + 1
    BY <1>2
  <2>2. k[n] = r[Nth(Q, n)].t.val /\ l[n] = s[Nth(P, n)].t.val
    BY ONLY <1>9, <1>10, <2>1, n \in 1 .. c
  <2>3. Nth(Q, n) = Nth(P, n) /\ Nth(P, n) \in P
    BY <1>3, <1>7
  <2> QED BY <2>2, <2>3
<1>14. k[c + 1] = x
  <2>1. c + 1 \in 1 .. c + 1
    BY <1>2
  <2> QED BY ONLY <1>8, <1>10, <2>1, x = r[m].t.val
<1>15. k = Append(l, x)
  <2>1. PICK e : e = Append(l, x)
    OBVIOUS
  <2>2. x \in V
    BY ONLY Q = P \cup {m}, \A i \in Q : r[i].t.val \in V, x = r[m].t.val
  <2>3. e \in Seq(V) /\ Len(e) = c + 1 /\ e[c + 1] = x /\ \A n \in 1 .. c : e[n] = l[n]
    BY ONLY <1>2, <1>11, <2>1, <2>2
  <2>4. \A n \in 1 .. c + 1 : n \in 1 .. c \/ n = c + 1
    BY ONLY <1>2
  <2>5. \A n \in 1 .. c + 1 : k[n] = e[n]
    BY ONLY <1>13, <1>14, <2>3, <2>4
  <2>6. k = e
    BY ONLY <1>2, <1>12, <2>3, <2>5, SeqEqual
  <2> QED BY <2>1, <2>6
<1> QED BY <1>15 DEF Grows

\* The first position is taken away.
LEMMA ValuesShrink ==
  ASSUME NEW P \in SUBSET Nat, IsFiniteSet(P), NEW p \in P, \A i \in P : p <= i,
         NEW Q, Q = P \ {p}, NEW s, NEW r, \A i \in P : r[i] = s[i],
         NEW V, \A i \in P : s[i].t.val \in V,
         NEW k, k = ValuesOf(s, P), NEW l, l = ValuesOf(r, Q), NEW x, x = s[p].t.val
  PROVE  Shrinks(l, k, x)
<1>0. Q \in SUBSET Nat /\ IsFiniteSet(Q) /\ p \in Nat
  <2>1. IsFiniteSet(Q)
    BY ONLY Q = P \ {p}, IsFiniteSet(P), FS_RemoveElement
  <2> QED BY <2>1
<1>1. PICK c : c = Cardinality(Q)
  OBVIOUS
<1>2. c \in Nat /\ Cardinality(P) = c + 1
  <2>1. c \in Nat
    BY ONLY <1>0, <1>1, FS_CardinalityType
  <2>2. P = Q \cup {p} /\ p \notin Q
    BY ONLY Q = P \ {p}, p \in P
  <2>3. Cardinality(Q \cup {p}) = IF p \in Q THEN Cardinality(Q) ELSE Cardinality(Q) + 1
    BY ONLY <1>0, FS_AddElement
  <2> QED BY ONLY <1>1, <2>1, <2>2, <2>3
<1>3. \A n \in 1 .. c : Nth(Q, n) \in Q /\ Rank(Q, Nth(Q, n)) = n - 1
  BY ONLY <1>0, <1>1, NthFacts
<1>4. \A i \in P : \A n \in 1 .. c + 1 : Rank(P, i) = n - 1 => Nth(P, n) = i
  BY ONLY <1>2, P \in SUBSET Nat, IsFiniteSet(P), NthFacts
<1>5. \A i \in Q : Rank(P, i) = Rank(Q, i) + 1
  <2> TAKE i \in Q
  <2>1. p < i
    <3>1. p <= i /\ p # i /\ i \in Nat
      OBVIOUS
    <3> QED BY ONLY <1>0, <3>1
  <2>2. PICK A, B : A = Below(P, i) /\ B = Below(Q, i)
    OBVIOUS
  <2>3. A = B \cup {p} /\ p \notin B /\ B \in SUBSET Q
    BY <2>1, <2>2 DEF Below
  <2>4. IsFiniteSet(B)
    BY ONLY <1>0, <2>3, FS_Subset
  <2>5. Cardinality(B \cup {p}) = IF p \in B THEN Cardinality(B) ELSE Cardinality(B) + 1
    BY ONLY <2>4, FS_AddElement
  <2>6. Cardinality(A) = Cardinality(B) + 1
    BY ONLY <2>3, <2>5
  <2> QED BY ONLY <2>2, <2>6 DEF Rank, Below
<1>6. Rank(P, p) = 0
  <2>1. {j \in P : j < p} = {}
    <3> SUFFICES ASSUME NEW j \in P, j < p PROVE FALSE
      OBVIOUS
    <3>1. p <= j /\ j \in Nat
      OBVIOUS
    <3> QED BY ONLY <1>0, <3>1, j < p
  <2> QED BY ONLY <2>1, FS_EmptySet DEF Rank
<1>7. \A n \in 1 .. c : Nth(P, n + 1) = Nth(Q, n)
  <2> TAKE n \in 1 .. c
  <2>1. Nth(Q, n) \in Q /\ Rank(Q, Nth(Q, n)) = n - 1
    BY <1>3
  <2>2. PICK i : i = Nth(Q, n)
    OBVIOUS
  <2>3. i \in P /\ Rank(P, i) = (n - 1) + 1
    BY <1>5, <2>1, <2>2
  <2>4. n + 1 \in 1 .. c + 1 /\ (n - 1) + 1 = (n + 1) - 1
    BY ONLY <1>2, n \in 1 .. c
  <2>5. Nth(P, n + 1) = i
    BY ONLY <1>4, <2>3, <2>4
  <2> QED BY <2>2, <2>5
<1>8. Nth(P, 1) = p
  <2>1. 1 \in 1 .. c + 1 /\ Rank(P, p) = 1 - 1
    BY <1>2, <1>6
  <2> QED BY ONLY <1>4, <2>1, p \in P
<1>9. k = [n \in 1 .. c + 1 |-> s[Nth(P, n)].t.val]
  BY <1>2 DEF ValuesOf
<1>10. l = [n \in 1 .. c |-> r[Nth(Q, n)].t.val]
  BY <1>1 DEF ValuesOf
<1>11. k \in Seq(V) /\ Len(k) = c + 1
  BY ONLY <1>2, P \in SUBSET Nat, IsFiniteSet(P), \A i \in P : s[i].t.val \in V, k = ValuesOf(s, P), ValuesTyped
<1>12. l \in Seq(V) /\ Len(l) = c
  <2>1. \A i \in Q : r[i].t.val \in V
    BY ONLY Q = P \ {p}, \A i \in P : r[i] = s[i], \A i \in P : s[i].t.val \in V
  <2> QED BY ONLY <1>0, <1>1, <2>1, l = ValuesOf(r, Q), ValuesTyped
<1>13. \A n \in 1 .. c : l[n] = k[n + 1]
  <2> TAKE n \in 1 .. c
  <2>1. n + 1 \in 1 .. c + 1
    BY ONLY <1>2, n \in 1 .. c
  <2>2. l[n] = r[Nth(Q, n)].t.val /\ k[n + 1] = s[Nth(P, n + 1)].t.val
    BY ONLY <1>9, <1>10, <2>1, n \in 1 .. c
  <2>3. Nth(P, n + 1) = Nth(Q, n) /\ Nth(Q, n) \in P
    BY <1>3, <1>7
  <2> QED BY <2>2, <2>3
<1>14. k[1] = x
  <2>1. 1 \in 1 .. c + 1
    BY <1>2
  <2> QED BY ONLY <1>8, <1>9, <2>1, x = s[p].t.val
<1>15. k # <<>> /\ Head(k) = x
  BY ONLY <1>2, <1>11, <1>14
<1>16. l = Tail(k)
  <2>1. PICK e : e = Tail(k)
    OBVIOUS
  <2>2. e \in Seq(V) /\ Len(e) = c /\ \A n \in 1 .. c : e[n] = k[n + 1]
    BY ONLY <1>2, <1>11, <1>15, <2>1
  <2>3. \A n \in 1 .. c : l[n] = e[n]
    BY ONLY <1>13, <2>2
  <2>4. l = e
    BY ONLY <1>2, <1>12, <2>2, <2>3, SeqEqual
  <2> QED BY <2>1, <2>4
<1> QED BY <1>15, <1>16 DEF Shrinks

-----------------------------------------------------------------------------
(* What the subscribers were told.                                         *)

\* h: the tuples that arrived, by their ID.
Recorded(h, t) == t.id \in DOMAIN h /\ t = h[t.id]
RecordedAll(h, s) == \A j \in DOMAIN s : s[j].kind # "WindowExpired" => Recorded(h, s[j].t)
Logged(h) ==
    /\ h \in [1 .. arrived -> Tuples]
    /\ \A i \in DOMAIN mTupleBuf : Recorded(h, mTupleBuf[i])
    /\ pc # "idle" => Recorded(h, data)
    /\ \A th \in Threads : RecordedAll(h, todo[th])
    /\ RecordedAll(h, delivered)
LogInv == Plain => \E h : Logged(h)

\* Tuples are announced in the order of their IDs.
Ordered(s) ==
    \A i, j \in DOMAIN s :
        i < j /\ s[i].kind = "new" /\ s[j].kind = "new" => s[i].t.id < s[j].t.id
OrderInv == Plain => Ordered(delivered)

LEMMA LogArrive ==
  ASSUME WindowInv, LogInv, NEW val \in Values, NEW ts \in 0 .. MaxTime, Arrive(val, ts)
  PROVE  LogInv'
<1>0. /\ arrived < MaxTuples /\ arrived' = arrived + 1
      /\ data' = [id |-> arrived + 1, val |-> val, ts |-> ts]
      /\ mTupleBuf' = Append(mTupleBuf, data')
      /\ UNCHANGED <<conf, forwarded, todo, delivered>>
  BY DEF Arrive
<1> SUFFICES ASSUME Plain PROVE \E h : Logged(h)'
  BY <1>0 DEF LogInv, Plain
<1>1. PICK h : Logged(h)
  BY DEF LogInv
<1>2. arrived \in Nat /\ MaxTuples \in Nat
  BY ArrivedNat DEF WindowInv
<1>3. PICK t, a : t = data' /\ a = arrived
  OBVIOUS
<1>4. t \in Tuples /\ t.id = a + 1 /\ a \in Nat
  BY <1>0, <1>2, <1>3 DEF Tuples
<1>5. h \in [1 .. a -> Tuples]
  BY <1>1, <1>3 DEF Logged
<1> DEFINE k == [i \in 1 .. a + 1 |-> IF i = a + 1 THEN t ELSE h[i]]
<1>6. k \in [1 .. a + 1 -> Tuples] /\ k[a + 1] = t /\ \A i \in 1 .. a : i \in 1 .. a + 1 /\ k[i] = h[i]
  <2>1. \A i \in 1 .. a + 1 : i # a + 1 => i \in 1 .. a
    BY <1>4
  <2>2. k \in [1 .. a + 1 -> Tuples]
    BY <1>4, <1>5, <2>1
  <2>3. k[a + 1] = t
    BY <1>4
  <2>4. \A i \in 1 .. a : i \in 1 .. a + 1 /\ i # a + 1
    BY <1>4
  <2> QED BY <2>2, <2>3, <2>4
<1> HIDE DEF k
<1>7. DOMAIN h = 1 .. a /\ DOMAIN k = 1 .. a + 1
  BY <1>5, <1>6
<1>8. \A x : Recorded(h, x) => Recorded(k, x)
  BY <1>6, <1>7 DEF Recorded
<1>9. Recorded(k, t)
  <2>1. a + 1 \in 1 .. a + 1
    BY <1>4
  <2> QED BY <1>4, <1>6, <1>7, <2>1 DEF Recorded
<1>10. \A s : RecordedAll(h, s) => RecordedAll(k, s)
  BY <1>8 DEF RecordedAll
<1>11. \A i \in DOMAIN mTupleBuf' : Recorded(k, mTupleBuf'[i])
  <2>1. PICK buf \in Seq(Tuples) : buf = mTupleBuf
    BY DEF WindowInv, WindowType
  <2>2. PICK c : c = Append(buf, t)
    OBVIOUS
  <2>3. PICK n \in Nat : n = Len(buf)
    OBVIOUS
  <2>4. c \in Seq(Tuples) /\ Len(c) = n + 1 /\ c[n + 1] = t /\ \A i \in 1 .. n : c[i] = buf[i]
    BY ONLY <1>4, <2>2, <2>3, AppendProperties
  <2>5. \A i \in 1 .. n : Recorded(k, buf[i])
    <3>1. DOMAIN buf = 1 .. n
      BY <2>3
    <3>2. \A i \in DOMAIN buf : Recorded(h, buf[i])
      BY <1>1, <2>1 DEF Logged
    <3> QED BY <1>8, <3>1, <3>2
  <2>6. \A i \in 1 .. n + 1 : i \in 1 .. n \/ i = n + 1
    OBVIOUS
  <2>7. DOMAIN c = 1 .. n + 1
    BY ONLY <2>4
  <2>8. \A i \in DOMAIN c : Recorded(k, c[i])
    BY ONLY <1>9, <2>4, <2>5, <2>6, <2>7
  <2> QED BY <1>0, <1>3, <2>1, <2>2, <2>8
<1>12. Logged(k)'
  <2>1. k \in [1 .. arrived' -> Tuples]
    BY <1>0, <1>3, <1>6
  <2>2. Recorded(k, data')
    BY <1>3, <1>9
  <2>3. (\A th \in Threads : RecordedAll(h, todo[th])) /\ RecordedAll(h, delivered)
    BY <1>1 DEF Logged
  <2>4. (\A th \in Threads : RecordedAll(k, todo'[th])) /\ RecordedAll(k, delivered')
    BY <1>0, <1>10, <2>3
  <2> QED BY ONLY <1>11, <2>1, <2>2, <2>4 DEF Logged, Recorded, RecordedAll
<1> QED BY <1>12

\* The tuples that an eviction publishes are those of the buffer.
LEMMA OutdatedTuples ==
  ASSUME WindowInv, NEW k \in 0 .. Len(mTupleBuf), NEW c \in BOOLEAN,
         NEW s, s = Outdated(k) \o IF c THEN <<WindowExpired>> ELSE <<>>
  PROVE  \A j \in 1 .. k : s[j] = Old(mTupleBuf[j])
<1>0. k \in Nat /\ Len(mTupleBuf) \in Nat /\ mTupleBuf \in Seq(Tuples)
  BY ListsTyped
<1>1. PICK o, y : o = Outdated(k) /\ y = IF c THEN <<WindowExpired>> ELSE <<>>
  OBVIOUS
<1>2. \A j \in 1 .. k : Old(mTupleBuf[j]) \in Element
  <2> TAKE j \in 1 .. k
  <2>1. j \in 1 .. Len(mTupleBuf)
    BY <1>0
  <2>2. mTupleBuf[j] \in Tuples
    BY <1>0, <2>1
  <2>3. mTupleBuf[j] \in [id: Nat, val: Nat, ts: Nat]
    BY <2>2, TupleFacts
  <2> QED BY <2>3, ElementFacts
<1>3. o = [j \in 1 .. k |-> Old(mTupleBuf[j])]
  BY <1>1 DEF Outdated
<1>4. o \in [1 .. k -> Element] /\ \A j \in 1 .. k : o[j] = Old(mTupleBuf[j])
  BY <1>2, <1>3
<1>5. o \in Seq(Element) /\ Len(o) = k
  BY <1>0, <1>4
<1>6. y \in Seq(Element)
  <2>1. CASE c
    <3>1. <<WindowExpired>> \in Seq(Element)
      BY ExpiredFacts, OneElement
    <3> QED BY <1>1, <2>1, <3>1
  <2>2. CASE ~c
    BY <1>1, <2>2
  <2> QED BY <2>1, <2>2
<1>7. \A j \in 1 .. k : (o \o y)[j] = o[j]
  <2>1. Len(y) \in Nat
    BY <1>6
  <2>2. \A j \in 1 .. Len(o) + Len(y) : (o \o y)[j] = IF j <= Len(o) THEN o[j] ELSE y[j - Len(o)]
    BY ONLY <1>5, <1>6, ConcatProperties
  <2>3. \A j \in 1 .. k : j \in 1 .. Len(o) + Len(y) /\ j <= Len(o)
    BY ONLY <1>0, <1>5, <2>1
  <2> QED BY ONLY <2>2, <2>3
<1>8. s = o \o y
  BY <1>1
<1> QED BY <1>4, <1>7, <1>8

\* An eviction.
LEMMA LogEvict ==
  ASSUME WindowInv, LogInv, NEW th \in Threads, mTupleBuf # <<>>, todo[th] = <<>>, Evict(th),
         UNCHANGED <<conf, data, arrived, forwarded, delivered>>, pc' # "idle" => pc # "idle"
  PROVE  LogInv'
<1> SUFFICES ASSUME Plain PROVE \E h : Logged(h)'
  BY DEF LogInv, Plain
<1>1. PICK h : Logged(h)
  BY DEF LogInv
<1>2. PICK k, rest : k = Expired(mTupleBuf) /\ rest = mTupleBuf'
  OBVIOUS
<1>3. k \in 0 .. Len(mTupleBuf)
  BY <1>2, EvictFacts DEF WindowInv
<1>4. PICK buf \in Seq(Tuples) : buf = mTupleBuf
  BY DEF WindowInv, WindowType
<1>5. rest = SubSeq(buf, k + 1, Len(buf))
  BY <1>2, <1>4 DEF Evict
<1>6. \A i \in DOMAIN buf : Recorded(h, buf[i])
  BY <1>1, <1>4 DEF Logged
<1>7. PICK n \in Nat : n = Len(buf) /\ DOMAIN buf = 1 .. n
  OBVIOUS
<1>8. k \in 0 .. n
  BY <1>3, <1>4, <1>7
<1>9. \A i \in DOMAIN rest : Recorded(h, rest[i])
  <2>1. rest \in Seq(Tuples) /\ Len(rest) = n - k /\ \A i \in 1 .. n - k : rest[i] = buf[k + i]
    BY ONLY <1>5, <1>7, <1>8, buf \in Seq(Tuples), RestFacts
  <2>2. DOMAIN rest = 1 .. n - k
    BY ONLY <2>1
  <2>3. \A i \in 1 .. n - k : k + i \in 1 .. n
    BY ONLY <1>8, n \in Nat
  <2> QED BY ONLY <1>6, <1>7, <2>1, <2>2, <2>3
<1>10. PICK c \in BOOLEAN : c <=> (Tumbling /\ k > 0)
  OBVIOUS
<1>11. PICK s : s = Outdated(k) \o IF c THEN <<WindowExpired>> ELSE <<>>
  OBVIOUS
<1>12. todo' = [todo EXCEPT ![th] = s]
  BY <1>2, <1>10, <1>11 DEF Evict
<1>13. /\ s \in Seq(Element) /\ Len(s) = IF c THEN k + 1 ELSE k
       /\ \A j \in 1 .. k : s[j].kind = "outdated" /\ s[j].t = buf[j]
       /\ c => s[k + 1] = WindowExpired
  <2>1. s \in Seq(Element) /\ Len(s) = IF c THEN k + 1 ELSE k
    BY ONLY WindowInv, <1>3, <1>11, c \in BOOLEAN, OutdatedFacts, Zenon
  <2>2. c => s[k + 1] = WindowExpired
    BY ONLY WindowInv, <1>3, <1>11, c \in BOOLEAN, OutdatedFacts, Zenon
  <2>3. \A j \in 1 .. k : s[j] = Old(mTupleBuf[j])
    BY ONLY WindowInv, <1>3, <1>11, c \in BOOLEAN, OutdatedTuples, Zenon
  <2>4. \A j \in 1 .. k : s[j].kind = "outdated" /\ s[j].t = mTupleBuf[j]
    <3> TAKE j \in 1 .. k
    <3>1. PICK u, x : u = mTupleBuf[j] /\ x = s[j]
      OBVIOUS
    <3>2. x = Old(u)
      BY <2>3, <3>1
    <3>3. x.kind = "outdated" /\ x.t = u
      BY ONLY <3>2 DEF Old
    <3> QED BY ONLY <3>1, <3>3
  <2> QED BY ONLY <1>4, <2>1, <2>2, <2>3, <2>4
<1>14. RecordedAll(h, s)
  <2> SUFFICES ASSUME NEW j \in DOMAIN s, s[j].kind # "WindowExpired" PROVE Recorded(h, s[j].t)
    BY DEF RecordedAll
  <2>1. DOMAIN s = 1 .. Len(s)
    BY <1>13
  <2>2. j \in 1 .. k \/ (c /\ j = k + 1)
    BY ONLY <1>8, <1>13, <2>1, j \in DOMAIN s, n \in Nat
  <2>3. j \in 1 .. k
    BY <1>13, <2>2, ExpiredFacts
  <2>4. j \in DOMAIN buf
    BY ONLY <1>7, <1>8, <2>3, n \in Nat
  <2> QED BY <1>6, <1>13, <2>3, <2>4
<1>15. \A x \in Threads : RecordedAll(h, todo'[x])
  <2>1. todo'[th] = s /\ \A x \in Threads \ {th} : todo'[x] = todo[x]
    <3>1. WindowType
      BY DEF WindowInv
    <3>2. s \in Seq(Element)
      BY <1>13
    <3> QED BY ONLY <1>12, <3>1, <3>2, th \in Threads, TodoFacts
  <2>2. \A x \in Threads : RecordedAll(h, todo[x])
    BY <1>1 DEF Logged
  <2> QED BY ONLY <1>14, <2>1, <2>2
<1>16. Logged(h)'
  <2>1. h \in [1 .. arrived' -> Tuples] /\ (pc' # "idle" => Recorded(h, data')) /\ RecordedAll(h, delivered')
    BY <1>1 DEF Logged
  <2>2. \A i \in DOMAIN mTupleBuf' : Recorded(h, mTupleBuf'[i])
    BY <1>2, <1>9
  <2> QED BY ONLY <1>15, <2>1, <2>2 DEF Logged, Recorded, RecordedAll
<1> QED BY <1>16

LEMMA LogPublishNew ==
  ASSUME WindowInv, LogInv, PublishNew
  PROVE  LogInv'
<1>0. /\ pc = "publish" /\ todo["source"] = <<>>
      /\ UNCHANGED <<conf, mTupleBuf, data, arrived, forwarded, delivered>>
  BY DEF PublishNew, Returned, windowVars
<1> SUFFICES ASSUME Plain PROVE \E h : Logged(h)'
  BY <1>0 DEF LogInv, Plain
<1>1. PICK h : Logged(h)
  BY DEF LogInv
<1>2. PICK t : t = data
  OBVIOUS
<1>3. t \in [id: Nat, val: Nat, ts: Nat] /\ Recorded(h, t)
  BY <1>0, <1>1, <1>2 DEF WindowInv, WindowType, Logged
<1>4. New(t) \in Element /\ New(t).kind = "new" /\ New(t).t = t
  BY <1>3, ElementFacts
<1>5. PICK s \in Seq(Element) : s = <<New(t)>> /\ Len(s) = 1 /\ s[1] = New(t)
  BY <1>4, OneElement
<1>6. todo' = [todo EXCEPT !["source"] = s]
  BY <1>2, <1>5 DEF PublishNew, Plain
<1>7. RecordedAll(h, s)
  <2>1. DOMAIN s = {1}
    BY ONLY <1>5
  <2> QED BY ONLY <1>3, <1>4, <1>5, <2>1 DEF RecordedAll
<1>8. \A x \in Threads : RecordedAll(h, todo'[x])
  <2>1. todo'["source"] = s /\ \A x \in Threads \ {"source"} : todo'[x] = todo[x]
    <3>1. WindowType /\ "source" \in Threads
      BY DEF WindowInv, Threads
    <3> QED BY ONLY <1>6, <3>1, s \in Seq(Element), TodoFacts
  <2>2. \A x \in Threads : RecordedAll(h, todo[x])
    BY <1>1 DEF Logged
  <2> QED BY ONLY <1>7, <2>1, <2>2
<1>9. Logged(h)'
  <2>1. h \in [1 .. arrived' -> Tuples] /\ Recorded(h, data') /\ RecordedAll(h, delivered')
    BY <1>0, <1>1, <1>2, <1>3 DEF Logged
  <2>2. \A i \in DOMAIN mTupleBuf' : Recorded(h, mTupleBuf'[i])
    BY <1>0, <1>1 DEF Logged
  <2> QED BY ONLY <1>8, <2>1, <2>2 DEF Logged, Recorded, RecordedAll
<1> QED BY <1>9

\* The parts of a publish.
LEMMA PublishParts ==
  ASSUME WindowInv, NEW th \in Threads, Publish(th)
  PROVE  \E e \in Element, r \in Seq(Element) :
           /\ 1 \in DOMAIN todo[th] /\ e = todo[th][1] /\ e = Head(todo[th])
           /\ \A j \in DOMAIN r : j + 1 \in DOMAIN todo[th] /\ r[j] = todo[th][j + 1]
           /\ todo'[th] = r /\ \A x \in Threads \ {th} : todo'[x] = todo[x]
           /\ delivered' = Append(delivered, e)
           /\ UNCHANGED <<conf, mTupleBuf, pc, data, arrived, forwarded>>
<1>0. /\ todo[th] # <<>> /\ delivered' = Append(delivered, Head(todo[th]))
      /\ todo' = [todo EXCEPT ![th] = Tail(todo[th])]
      /\ UNCHANGED <<conf, mTupleBuf, pc, data, arrived, forwarded>>
  BY DEF Publish, sourceVars
<1>1. WindowType /\ todo \in [Threads -> Seq(Element)]
  BY DEF WindowInv, WindowType
<1>2. PICK s \in Seq(Element) : s = todo[th] /\ s # <<>>
  BY <1>0, <1>1
<1>3. PICK n \in Nat : n = Len(s) /\ n >= 1 /\ DOMAIN s = 1 .. n
  BY <1>2
<1>4. PICK r \in Seq(Element) : r = Tail(s) /\ Len(r) = n - 1 /\ \A i \in 1 .. n - 1 : r[i] = s[i + 1]
  <2>1. Tail(s) \in Seq(Element) /\ Len(Tail(s)) = n - 1
    BY <1>2, <1>3, HeadTailProperties
  <2>2. \A i \in 1 .. Len(Tail(s)) : Tail(s)[i] = s[i + 1]
    BY <1>2, HeadTailProperties
  <2> QED BY <2>1, <2>2
<1>5. PICK e \in Element : e = Head(s) /\ e = s[1]
  BY <1>2, HeadTailProperties
<1>6. todo'[th] = r /\ \A x \in Threads \ {th} : todo'[x] = todo[x]
  <2>1. todo' = [todo EXCEPT ![th] = r]
    BY <1>0, <1>2, <1>4
  <2> QED BY ONLY <1>1, <2>1, th \in Threads, r \in Seq(Element), TodoFacts
<1>7. 1 \in DOMAIN s /\ \A j \in DOMAIN r : j + 1 \in DOMAIN s /\ r[j] = s[j + 1]
  <2>1. DOMAIN r = 1 .. n - 1
    BY ONLY <1>4
  <2>2. \A j \in 1 .. n - 1 : j + 1 \in 1 .. n
    BY ONLY <1>3
  <2>3. 1 \in 1 .. n
    BY ONLY <1>3
  <2> QED BY ONLY <1>3, <1>4, <2>1, <2>2, <2>3
<1>8. delivered' = Append(delivered, e)
  BY <1>0, <1>2, <1>5
<1> QED BY ONLY <1>0, <1>2, <1>5, <1>6, <1>7, <1>8, r \in Seq(Element)

\* One more element in the list of all that was delivered.
LEMMA DeliveredAppend ==
  ASSUME delivered \in Seq(Element), NEW e \in Element, delivered' = Append(delivered, e)
  PROVE  \E m \in Nat : /\ m = Len(delivered) + 1 /\ delivered' \in Seq(Element)
                        /\ DOMAIN delivered = 1 .. m - 1 /\ DOMAIN delivered' = 1 .. m
                        /\ delivered'[m] = e /\ \A i \in 1 .. m - 1 : delivered'[i] = delivered[i]
<1>1. PICK d \in Seq(Element) : d = delivered
  OBVIOUS
<1>2. PICK x : x = Append(d, e)
  OBVIOUS
<1>3. PICK n \in Nat : n = Len(d)
  OBVIOUS
<1>4. /\ x \in Seq(Element) /\ Len(x) = n + 1
      /\ \A i \in 1 .. n : x[i] = d[i]
      /\ x[n + 1] = e
  BY ONLY <1>2, <1>3, e \in Element, AppendProperties
<1>5. DOMAIN d = 1 .. n /\ DOMAIN x = 1 .. n + 1
  BY ONLY <1>3, <1>4, d \in Seq(Element)
<1>6. PICK m \in Nat : m = n + 1 /\ m - 1 = n
  OBVIOUS
<1>7. delivered' = x
  BY <1>1, <1>2
<1> QED BY ONLY <1>1, <1>3, <1>4, <1>5, <1>6, <1>7

LEMMA LogPublish ==
  ASSUME WindowInv, LogInv, NEW th \in Threads, Publish(th)
  PROVE  LogInv'
<1>1. PICK e \in Element, r \in Seq(Element) :
           /\ 1 \in DOMAIN todo[th] /\ e = todo[th][1] /\ e = Head(todo[th])
           /\ \A j \in DOMAIN r : j + 1 \in DOMAIN todo[th] /\ r[j] = todo[th][j + 1]
           /\ todo'[th] = r /\ \A x \in Threads \ {th} : todo'[x] = todo[x]
           /\ delivered' = Append(delivered, e)
           /\ UNCHANGED <<conf, mTupleBuf, pc, data, arrived, forwarded>>
  BY PublishParts
<1> SUFFICES ASSUME Plain PROVE \E h : Logged(h)'
  BY <1>1 DEF LogInv, Plain
<1>2. PICK h : Logged(h)
  BY DEF LogInv
<1>3. (\A x \in Threads : RecordedAll(h, todo[x])) /\ RecordedAll(h, delivered)
  BY <1>2 DEF Logged
<1>4. RecordedAll(h, r) /\ (e.kind # "WindowExpired" => Recorded(h, e.t))
  <2>1. PICK s : s = todo[th]
    OBVIOUS
  <2>2. \A j \in DOMAIN s : s[j].kind # "WindowExpired" => Recorded(h, s[j].t)
    BY <1>3, <2>1 DEF RecordedAll
  <2>3. 1 \in DOMAIN s /\ e = s[1] /\ \A j \in DOMAIN r : j + 1 \in DOMAIN s /\ r[j] = s[j + 1]
    BY <1>1, <2>1
  <2> QED BY ONLY <2>2, <2>3 DEF RecordedAll
<1>5. \A x \in Threads : RecordedAll(h, todo'[x])
  BY ONLY <1>1, <1>3, <1>4
<1>6. RecordedAll(h, delivered')
  <2>0. delivered \in Seq(Element)
    BY DEF WindowInv, WindowType
  <2>1. PICK m \in Nat : /\ DOMAIN delivered = 1 .. m - 1 /\ DOMAIN delivered' = 1 .. m
                         /\ delivered'[m] = e /\ \A i \in 1 .. m - 1 : delivered'[i] = delivered[i]
    BY <1>1, <2>0, DeliveredAppend
  <2>2. \A i \in 1 .. m : i \in 1 .. m - 1 \/ i = m
    OBVIOUS
  <2>3. PICK d, x : d = delivered /\ x = delivered'
    OBVIOUS
  <2>4. RecordedAll(h, x)
    <3>1. \A j \in DOMAIN d : d[j].kind # "WindowExpired" => Recorded(h, d[j].t)
      BY <1>3, <2>3 DEF RecordedAll
    <3>2. /\ DOMAIN d = 1 .. m - 1 /\ DOMAIN x = 1 .. m
          /\ x[m] = e /\ \A i \in 1 .. m - 1 : x[i] = d[i]
      BY <2>1, <2>3
    <3> QED BY ONLY <1>4, <2>2, <3>1, <3>2 DEF RecordedAll
  <2> QED BY <2>3, <2>4
<1>7. Logged(h)'
  <2>1. h \in [1 .. arrived' -> Tuples] /\ (pc' # "idle" => Recorded(h, data'))
    BY <1>1, <1>2 DEF Logged
  <2>2. \A i \in DOMAIN mTupleBuf' : Recorded(h, mTupleBuf'[i])
    BY <1>1, <1>2 DEF Logged
  <2> QED BY ONLY <1>5, <1>6, <2>1, <2>2 DEF Logged, Recorded, RecordedAll
<1> QED BY <1>7

LEMMA LogFrame ==
  ASSUME LogInv, UNCHANGED <<conf, mTupleBuf, pc, data, arrived, forwarded, todo, delivered>>
  PROVE  LogInv'
<1> SUFFICES ASSUME Plain PROVE \E h : Logged(h)'
  BY DEF LogInv, Plain
<1>1. PICK h : Logged(h)
  BY DEF LogInv
<1>2. Logged(h)'
  BY <1>1 DEF Logged, Recorded, RecordedAll
<1> QED BY <1>2

-----------------------------------------------------------------------------
(* One publish, and the valid tuples.                                      *)

\* Up to g the tuples are outdated; what e is.
Publishing(e, g) ==
    /\ g \in Nat /\ g <= Evicted /\ Ids("outdated") = 1 .. g
    /\ \/ e.kind = "new" /\ e.t.id = arrived /\ arrived > 0 /\ Ids("new") = 1 .. arrived - 1
       \/ e.kind = "outdated" /\ e.t.id = g + 1 /\ g + 1 <= Evicted /\ 1 .. arrived - 1 \subseteq Ids("new")
       \/ e.kind = "WindowExpired"

LEMMA PublishKinds ==
  ASSUME WindowInv, NEW th \in Threads, forwarded = {}, NEW e, 1 \in DOMAIN todo[th], e = todo[th][1]
  PROVE  \E g : Publishing(e, g)
<1>0. PICK g, m \in Nat : ToldTo(g, m)
  BY DEF WindowInv, ToldInv
<1>1. /\ g + m = Evicted /\ Ids("outdated") = 1 .. g
      /\ Ids("new") = 1 .. IF Unannounced THEN arrived - 1 ELSE arrived
  BY <1>0 DEF ToldTo
<1>2. arrived \in Nat /\ Evicted \in Nat /\ g <= Evicted /\ Evicted <= arrived
  <2>1. arrived \in Nat
    BY ArrivedNat DEF WindowInv
  <2>2. Len(mTupleBuf) \in Nat /\ Len(mTupleBuf) <= arrived
    BY ListsTyped DEF WindowInv, BufferInv
  <2>3. Evicted \in Nat /\ Evicted <= arrived
    BY <2>1, <2>2 DEF Evicted
  <2> QED BY <1>1, <2>1, <2>3
<1>3. PICK s \in Seq(Element) : s = todo[th]
  BY DEF WindowInv, WindowType
<1>4. e = s[1] /\ Len(s) \in Nat /\ Len(s) >= 1 /\ s # <<>>
  <2>1. 1 \in DOMAIN s
    BY <1>3
  <2> QED BY <1>3, <2>1
<1>5. CASE th = "source" /\ Announcing
  <2>1. e.kind = "new" /\ e.t.id = arrived /\ arrived > 0
    BY <1>3, <1>4, <1>5 DEF Announcing
  <2>2. Unannounced
    BY <1>3, <1>4, <1>5, <2>1 DEF Unannounced
  <2>3. Publishing(e, g)
    BY <1>1, <1>2, <2>1, <2>2 DEF Publishing
  <2> QED BY <2>3
<1>6. CASE Evicting(s, g, m) /\ m > 0
  <2>1. e.kind = "outdated" /\ e.t.id = g + 1
    <3>1. 1 \in 1 .. m
      BY <1>6
    <3> QED BY <1>4, <1>6, <3>1 DEF Evicting
  <2>2. g + 1 <= Evicted /\ g \in Nat
    BY <1>1, <1>6
  <2>3. 1 .. arrived - 1 \subseteq Ids("new")
    BY <1>1, <1>2
  <2>4. Publishing(e, g)
    BY <1>1, <1>2, <2>1, <2>2, <2>3 DEF Publishing
  <2> QED BY <2>4
<1>7. CASE Evicting(s, g, m) /\ m = 0
  <2>1. Len(s) # 0
    BY <1>4
  <2>2. e = WindowExpired
    BY <1>4, <1>7, <2>1 DEF Evicting
  <2>3. e.kind = "WindowExpired"
    BY <2>2, ExpiredFacts
  <2>4. Publishing(e, g)
    BY <1>1, <1>2, <2>3 DEF Publishing
  <2> QED BY <2>4
<1>8. (th = "source" /\ Announcing) \/ Evicting(s, g, m)
  <2>1. conf.thread \in BOOLEAN
    BY ConfigFacts DEF WindowInv, WindowType
  <2>2. CASE conf.thread
    BY <1>0, <1>3, <1>4, <2>2 DEF ToldTo, Threads
  <2>3. CASE ~conf.thread
    <3>1. th = "source"
      BY <1>3, <1>4, <2>3 DEF WindowInv, SourceInv, Threads
    <3> QED BY <1>0, <1>3, <1>4, <2>3, <3>1 DEF ToldTo
  <2> QED BY <2>1, <2>2, <2>3
<1> QED BY <1>5, <1>6, <1>7, <1>8

\* In the plain case the youngest tuple is in the window.
LEMMA YoungestStays ==
  ASSUME WindowInv, Plain, arrived > 0
  PROVE  Evicted < arrived
<1>1. arrived \in Nat
  BY ArrivedNat DEF WindowInv
<1>2. mTupleBuf # <<>>
  BY DEF WindowInv, BufferInv, Plain
<1>3. mTupleBuf \in Seq(Tuples)
  BY ListsTyped
<1>4. PICK n : n = Len(mTupleBuf) /\ n \in Nat /\ n >= 1
  BY <1>2, <1>3
<1> QED BY <1>1, <1>4 DEF Evicted

\* What is valid, when the tuples up to g are outdated.
LiveAfter(s, g) == {i \in DOMAIN s : s[i].kind = "new" /\ s[i].t.id \notin 1 .. g}

LEMMA LiveIs ==
  ASSUME NEW g, Ids("outdated") = 1 .. g
  PROVE  Live = LiveAfter(delivered, g)
BY DEF Live, LiveAfter

LEMMA LiveFinite ==
  ASSUME WindowInv
  PROVE  Live \in SUBSET Nat /\ Live \subseteq DOMAIN delivered /\ IsFiniteSet(Live)
<1>0. delivered \in Seq(Element)
  BY DEF WindowInv, WindowType
<1>1. PICK n \in Nat : DOMAIN delivered = 1 .. n
  BY <1>0
<1>2. Live \in SUBSET (1 .. n)
  BY <1>1 DEF Live
<1>3. IsFiniteSet(1 .. n)
  BY FS_Interval
<1>4. IsFiniteSet(Live)
  BY ONLY <1>2, <1>3, FS_Subset
<1>5. \A i \in 1 .. n : i \in Nat
  OBVIOUS
<1> QED BY ONLY <1>1, <1>2, <1>4, <1>5

\* Values of what was announced.
LEMMA LiveTyped ==
  ASSUME WindowInv, LogInv, Plain
  PROVE  \A i \in Live : delivered[i].t \in Tuples /\ delivered[i].t.val \in Values
                         /\ delivered[i].t.id \in 1 .. MaxTuples
<1> TAKE i \in Live
<1>1. PICK h : Logged(h)
  BY DEF LogInv
<1>2. i \in DOMAIN delivered /\ delivered[i].kind = "new"
  BY DEF Live
<1>3. PICK t : t = delivered[i].t
  OBVIOUS
<1>4. Recorded(h, t) /\ h \in [1 .. arrived -> Tuples]
  BY <1>1, <1>2, <1>3 DEF Logged, RecordedAll
<1>5. t \in Tuples
  BY ONLY <1>4 DEF Recorded
<1>6. t.val \in Values /\ t.id \in 1 .. MaxTuples
  BY ONLY <1>5 DEF Tuples
<1> QED BY <1>3, <1>5, <1>6

\* No more tuples are valid than arrive.
LEMMA LiveBounded ==
  ASSUME WindowInv, LogInv, OrderInv, Plain, NEW P \in SUBSET Live
  PROVE  IsFiniteSet(P) /\ Cardinality(P) \in Nat /\ Cardinality(P) <= MaxTuples /\ Cardinality(P) < UIntRange
<1>0. MaxTuples \in Nat /\ MaxTuples < UIntRange /\ UIntRange \in Nat
  BY SizeAssumption, RangeAssumption, UIntAssumption
<1>1. Live \in SUBSET Nat /\ Live \subseteq DOMAIN delivered /\ IsFiniteSet(Live)
  BY LiveFinite
<1>2. IsFiniteSet(P)
  BY ONLY <1>1, P \in SUBSET Live, FS_Subset
<1>3. Cardinality(P) \in Nat
  BY ONLY <1>2, FS_CardinalityType
<1> DEFINE f == [i \in P |-> delivered[i].t.id]
<1>4. f \in [P -> 1 .. MaxTuples]
  BY LiveTyped
<1>5. \A i, j \in P : f[i] = f[j] => i = j
  <2> SUFFICES ASSUME NEW i \in P, NEW j \in P, f[i] = f[j], i # j PROVE FALSE
    OBVIOUS
  <2>1. /\ i \in Nat /\ j \in Nat /\ i \in DOMAIN delivered /\ j \in DOMAIN delivered
        /\ delivered[i].kind = "new" /\ delivered[j].kind = "new"
    BY <1>1 DEF Live
  <2>2. PICK a, b : a = delivered[i].t.id /\ b = delivered[j].t.id
    OBVIOUS
  <2>3. a = b /\ a \in Nat
    <3>1. a \in 1 .. MaxTuples
      BY <2>2, LiveTyped
    <3> QED BY <1>0, <2>2, <3>1
  <2>4. (i < j => a < b) /\ (j < i => b < a)
    BY <2>1, <2>2 DEF OrderInv, Ordered
  <2> QED BY ONLY <2>1, <2>3, <2>4, i # j
<1> HIDE DEF f
<1>6. f \in Injection(P, 1 .. MaxTuples)
  BY ONLY <1>4, <1>5, Fun_IsInj
<1>7. IsFiniteSet(1 .. MaxTuples) /\ Cardinality(1 .. MaxTuples) = MaxTuples
  <2>1. IsFiniteSet(1 .. MaxTuples) /\ Cardinality(1 .. MaxTuples) = IF 1 > MaxTuples THEN 0 ELSE MaxTuples - 1 + 1
    BY ONLY <1>0, FS_Interval
  <2> QED BY ONLY <1>0, <2>1
<1>8. Cardinality(P) <= Cardinality(1 .. MaxTuples)
  BY ONLY <1>6, <1>7, FS_Injection
<1> QED BY ONLY <1>0, <1>2, <1>3, <1>7, <1>8

\* The valid tuples before and after: one more, one less or the same.
Announced(e) ==
    /\ e.kind = "new" /\ e.t.val \in Values
    /\ Live' = Live \cup {Len(delivered) + 1}
Withdrawn(e, p) ==
    /\ e.kind = "outdated" /\ p \in Live /\ (\A i \in Live : p <= i)
    /\ delivered[p].t = e.t /\ Live' = Live \ {p}
Passed(e) == e.kind = "WindowExpired" /\ Live' = Live

LEMMA LiveStep ==
  ASSUME WindowInv, LogInv, OrderInv, Plain, NEW th \in Threads, Publish(th),
         NEW e, e = Head(todo[th])
  PROVE  /\ Announced(e) \/ (\E p : Withdrawn(e, p)) \/ Passed(e)
         /\ e \in Element /\ delivered' = Append(delivered, e)
         /\ OrderInv'
<1>1. PICK r \in Seq(Element) :
           /\ e \in Element
           /\ 1 \in DOMAIN todo[th] /\ e = todo[th][1]
           /\ delivered' = Append(delivered, e)
           /\ UNCHANGED <<conf, mTupleBuf, pc, data, arrived, forwarded>>
  BY PublishParts
<1>2. PICK g : Publishing(e, g)
  BY <1>1, PublishKinds DEF Plain
<1>d. delivered \in Seq(Element)
  BY DEF WindowInv, WindowType
<1>3. PICK m \in Nat : /\ m = Len(delivered) + 1
                       /\ DOMAIN delivered = 1 .. m - 1 /\ DOMAIN delivered' = 1 .. m
                       /\ delivered'[m] = e /\ \A i \in 1 .. m - 1 : delivered'[i] = delivered[i]
  BY <1>1, <1>d, DeliveredAppend
<1>4. PICK d, x : d = delivered /\ x = delivered'
  OBVIOUS
<1>5. /\ DOMAIN d = 1 .. m - 1 /\ DOMAIN x = 1 .. m /\ x[m] = e /\ \A i \in 1 .. m - 1 : x[i] = d[i]
  BY <1>3, <1>4
<1>6. DOMAIN x = DOMAIN d \cup {m} /\ m \notin DOMAIN d /\ \A i \in DOMAIN d : i \in Nat /\ i < m
  <2>1. m >= 1
    BY <1>3, <1>d
  <2> QED BY ONLY <1>5, <2>1, m \in Nat
<1>7. g \in Nat /\ g <= Evicted /\ Ids("outdated") = 1 .. g
  BY <1>2 DEF Publishing
<1>8. arrived \in Nat /\ Evicted \in Nat
  <2>1. arrived \in Nat
    BY ArrivedNat DEF WindowInv
  <2>2. Len(mTupleBuf) \in Nat /\ Len(mTupleBuf) <= arrived
    BY ListsTyped DEF WindowInv, BufferInv
  <2> QED BY <2>1, <2>2 DEF Evicted
<1>9. Live = LiveAfter(d, g)
  BY <1>4, <1>7, LiveIs
<1>10. \A kind : Ids(kind)' = Ids(kind) \cup IF e.kind = kind THEN {e.t.id} ELSE {}
  BY <1>1, <1>d, IdsAppend
<1>11. Live' = {i \in DOMAIN x : x[i].kind = "new" /\ x[i].t.id \notin Ids("outdated")'}
  BY <1>4 DEF Live
<1>12. \A i \in DOMAIN d : d[i].kind = "new" => d[i].t.id \in Ids("new")
  BY <1>4 DEF Ids
<1>13. \A i, j \in DOMAIN d : i < j /\ d[i].kind = "new" /\ d[j].kind = "new" => d[i].t.id < d[j].t.id
  BY <1>4 DEF OrderInv, Ordered
<1>14. PICK h : Logged(h)
  BY DEF LogInv
<1>15. e.kind # "WindowExpired" => Recorded(h, e.t)
  BY <1>1, <1>14 DEF Logged, RecordedAll
<1>16. \A i \in DOMAIN d : d[i].kind = "new" => Recorded(h, d[i].t)
  BY <1>4, <1>14 DEF Logged, RecordedAll
<1>17. CASE e.kind = "new"
  <2>1. e.t.id = arrived /\ arrived > 0 /\ Ids("new") = 1 .. arrived - 1
    BY <1>2, <1>17 DEF Publishing
  <2>2. e.t.id \notin 1 .. g
    <3>1. Evicted < arrived
      BY <2>1, YoungestStays
    <3> QED BY ONLY <1>7, <1>8, <2>1, <3>1
  <2>3. Ids("outdated")' = 1 .. g
    BY <1>7, <1>10, <1>17
  <2>4. Live' = LiveAfter(x, g)
    BY ONLY <1>11, <2>3 DEF LiveAfter
  <2>5. LiveAfter(x, g) = LiveAfter(d, g) \cup {m}
    BY ONLY <1>5, <1>6, <1>17, <2>2 DEF LiveAfter
  <2>6. e.t.val \in Values
    <3>1. e.t \in Tuples
      BY <1>14, <1>15, <1>17 DEF Recorded, Logged
    <3> QED BY <3>1 DEF Tuples
  <2>7. Announced(e)
    BY ONLY <1>3, <1>9, <1>17, <2>4, <2>5, <2>6 DEF Announced
  <2>8. Ordered(x)
    <3> SUFFICES ASSUME NEW i \in DOMAIN x, NEW j \in DOMAIN x, i < j, x[i].kind = "new", x[j].kind = "new"
                 PROVE  x[i].t.id < x[j].t.id
      BY DEF Ordered
    <3>1. i \in DOMAIN d /\ x[i] = d[i]
      BY ONLY <1>5, i \in DOMAIN x, j \in DOMAIN x, i < j, m \in Nat
    <3>2. CASE j \in DOMAIN d
      BY <1>5, <1>13, <3>1, <3>2
    <3>3. CASE j = m
      <4>1. d[i].t.id \in 1 .. arrived - 1
        BY <1>12, <2>1, <3>1
      <4>2. x[i].t.id < arrived
        BY ONLY <1>8, <3>1, <4>1
      <4> QED BY <1>5, <2>1, <3>3, <4>2
    <3> QED BY <1>6, <3>2, <3>3
  <2>9. OrderInv'
    BY <1>4, <2>8 DEF OrderInv
  <2> QED BY <1>1, <2>7, <2>9
<1>18. ASSUME e.kind # "new"
       PROVE  OrderInv'
  <2>1. \A i \in DOMAIN x : x[i].kind = "new" => i \in DOMAIN d /\ x[i] = d[i]
    BY ONLY <1>5, <1>6, <1>18
  <2>2. Ordered(x)
    BY ONLY <1>13, <2>1 DEF Ordered
  <2> QED BY <1>4, <2>2 DEF OrderInv
<1>19. CASE e.kind = "outdated"
  <2>1. e.t.id = g + 1 /\ g + 1 <= Evicted /\ 1 .. arrived - 1 \subseteq Ids("new")
    BY <1>2, <1>19 DEF Publishing
  <2>2. g + 1 \in 1 .. arrived - 1
    <3>1. arrived > 0
      <4>1. arrived # 0
        <5>1. Len(mTupleBuf) \in Nat
          BY ListsTyped
        <5> QED BY <1>7, <1>8, <2>1, <5>1 DEF Evicted
      <4> QED BY <1>8, <4>1
    <3>2. Evicted < arrived
      BY <3>1, YoungestStays
    <3> QED BY ONLY <1>7, <1>8, <2>1, <3>2
  <2>3. PICK p \in DOMAIN d : d[p].kind = "new" /\ d[p].t.id = g + 1
    <3>1. g + 1 \in Ids("new")
      BY <2>1, <2>2
    <3> QED BY <1>4, <3>1 DEF Ids
  <2>4. d[p].t = e.t
    BY ONLY <1>15, <1>16, <1>19, <2>1, <2>3 DEF Recorded
  <2>5. p \in Live
    <3>1. g + 1 \notin 1 .. g
      BY ONLY <1>7
    <3> QED BY ONLY <1>9, <2>3, <3>1 DEF LiveAfter
  <2>6. \A i \in Live : i \in DOMAIN d /\ d[i].kind = "new" /\ d[i].t.id \in Nat /\ d[i].t.id >= g + 1
    <3> TAKE i \in Live
    <3>1. i \in DOMAIN d /\ d[i].kind = "new" /\ d[i].t.id \notin 1 .. g
      BY ONLY <1>9, i \in Live DEF LiveAfter
    <3>2. d[i].t.id \in 1 .. MaxTuples
      BY <1>4, LiveTyped
    <3>3. PICK a : a = d[i].t.id
      OBVIOUS
    <3>4. a \in Nat /\ a >= 1
      BY <3>2, <3>3, SizeAssumption
    <3>5. a >= g + 1
      BY ONLY <1>7, <3>1, <3>3, <3>4
    <3> QED BY ONLY <3>1, <3>3, <3>4, <3>5
  <2>7. \A i \in Live : p <= i /\ (i # p => d[i].t.id # g + 1)
    <3> TAKE i \in Live
    <3>1. i \in Nat /\ p \in Nat /\ i \in DOMAIN d
      BY <1>6, <2>6
    <3>2. PICK a : a = d[i].t.id
      OBVIOUS
    <3>3. a \in Nat /\ a >= g + 1
      BY <2>6, <3>2
    <3>4. i < p => a < g + 1
      BY <1>13, <2>3, <2>6, <3>2
    <3>5. p < i => g + 1 < a
      BY <1>13, <2>3, <2>6, <3>1, <3>2
    <3>6. p <= i
      BY ONLY <1>7, <3>1, <3>3, <3>4
    <3>7. i # p => a # g + 1
      BY ONLY <1>7, <3>1, <3>3, <3>5, <3>6
    <3> QED BY <3>2, <3>6, <3>7
  <2>8. Ids("outdated")' = 1 .. g + 1
    <3>1. Ids("outdated")' = (1 .. g) \cup {g + 1}
      BY <1>7, <1>10, <1>19, <2>1
    <3>2. (1 .. g) \cup {g + 1} = 1 .. g + 1
      BY ONLY <1>7
    <3> QED BY <3>1, <3>2
  <2>9. Live' = LiveAfter(x, g + 1)
    BY ONLY <1>11, <2>8 DEF LiveAfter
  <2>10. LiveAfter(x, g + 1) = LiveAfter(d, g + 1)
    BY ONLY <1>5, <1>6, <1>19 DEF LiveAfter
  <2>11. LiveAfter(d, g + 1) = Live \ {p}
    <3>1. ASSUME NEW i \in LiveAfter(d, g + 1) PROVE i \in Live \ {p}
      <4>1. i \in DOMAIN d /\ d[i].kind = "new" /\ d[i].t.id \notin 1 .. g + 1
        BY ONLY <3>1 DEF LiveAfter
      <4>2. g + 1 \in 1 .. g + 1 /\ \A a \in 1 .. g : a \in 1 .. g + 1
        BY ONLY <1>7
      <4>3. i # p
        BY ONLY <2>3, <4>1, <4>2
      <4>4. d[i].t.id \notin 1 .. g
        BY ONLY <4>1, <4>2
      <4> QED BY ONLY <1>9, <4>1, <4>3, <4>4 DEF LiveAfter
    <3>2. ASSUME NEW i \in Live, i # p PROVE i \in LiveAfter(d, g + 1)
      <4>1. i \in DOMAIN d /\ d[i].kind = "new" /\ d[i].t.id \notin 1 .. g /\ d[i].t.id # g + 1
        BY ONLY <1>9, <2>7, <3>2 DEF LiveAfter
      <4>2. \A a \in 1 .. g + 1 : a \in 1 .. g \/ a = g + 1
        BY ONLY <1>7
      <4>3. d[i].t.id \notin 1 .. g + 1
        BY ONLY <4>1, <4>2
      <4> QED BY ONLY <4>1, <4>3 DEF LiveAfter
    <3> QED BY ONLY <3>1, <3>2
  <2>12. Withdrawn(e, p)
    <3>1. delivered[p].t = e.t
      BY <1>4, <2>4
    <3>2. Live' = Live \ {p}
      BY ONLY <2>9, <2>10, <2>11
    <3>3. \A i \in Live : p <= i
      BY ONLY <2>7
    <3> QED BY ONLY <1>19, <2>5, <3>1, <3>2, <3>3 DEF Withdrawn
  <2>13. OrderInv'
    BY <1>18, <1>19
  <2> QED BY <1>1, <2>12, <2>13
<1>20. CASE e.kind = "WindowExpired"
  <2>1. Ids("outdated")' = 1 .. g
    BY <1>7, <1>10, <1>20
  <2>2. Live' = LiveAfter(x, g)
    BY ONLY <1>11, <2>1 DEF LiveAfter
  <2>3. LiveAfter(x, g) = LiveAfter(d, g)
    BY ONLY <1>5, <1>6, <1>20 DEF LiveAfter
  <2>4. Passed(e)
    BY ONLY <1>9, <1>20, <2>2, <2>3 DEF Passed
  <2>5. OrderInv'
    BY <1>18, <1>20
  <2> QED BY <1>1, <2>4, <2>5
<1>21. e.kind \in {"new", "outdated", "WindowExpired"}
  BY <1>1 DEF Element
<1> QED BY <1>17, <1>19, <1>20, <1>21

-----------------------------------------------------------------------------
(* The aggregates and the groups, one publish further.                     *)

\* An aggregate before and after a value became valid, or outdated.
Took(a, b, x) == b = AggregateState_iterate(a, x, FALSE)
Dropped(a, b, x) == b = AggregateState_iterate(a, x, TRUE)

\* One more position, behind the others; the same elements at the positions P.
Beyond(P, m, Q) == (\A i \in P : i < m) /\ Q = P \cup {m}
Alike(s, r, P) == \A i \in P : r[i] = s[i]
TypedAt(s, P) == \A i \in P : s[i].t.val \in Values

LEMMA GrowStep ==
  ASSUME NEW P \in SUBSET Nat, IsFiniteSet(P), NEW m \in Nat, NEW Q, Beyond(P, m, Q),
         NEW s, NEW r, Alike(s, r, P), TypedAt(r, Q), Cardinality(Q) < UIntRange,
         NEW a, Describes(a, ValuesOf(s, P)), NEW x, x = r[m].t.val,
         NEW b, Took(a, b, x)
  PROVE  Describes(b, ValuesOf(r, Q)) /\ Cardinality(Q) = Cardinality(P) + 1
<1>0. /\ (\A i \in P : i < m) /\ Q = P \cup {m}
      /\ (\A i \in P : r[i] = s[i]) /\ \A i \in Q : r[i].t.val \in Values
  BY DEF Beyond, Alike, TypedAt
<1>1. m \notin P
  BY <1>0
<1>2. Cardinality(Q) = Cardinality(P) + 1
  BY ONLY <1>0, <1>1, IsFiniteSet(P), FS_AddElement
<1>3. PICK l, k : l = ValuesOf(s, P) /\ k = ValuesOf(r, Q)
  OBVIOUS
<1>4. Grows(k, l, x)
  BY <1>0, <1>3, ValuesGrow
<1>5. l \in Seq(Values) /\ Len(l) = Cardinality(P)
  <2>1. \A i \in P : s[i].t.val \in Values
    BY <1>0
  <2> QED BY ONLY <1>3, <2>1, P \in SUBSET Nat, IsFiniteSet(P), ValuesTyped
<1>6. x \in Values
  BY <1>0
<1>7. Len(l) + 1 < UIntRange
  BY <1>2, <1>5
<1>8. Describes(a, l)
  BY <1>3
<1>9. Describes(b, k)
  BY ONLY <1>4, <1>5, <1>6, <1>7, <1>8, Took(a, b, x), DescribesAppend DEF Took
<1> QED BY <1>2, <1>3, <1>9

LEMMA ShrinkStep ==
  ASSUME NEW P \in SUBSET Nat, IsFiniteSet(P), NEW p \in P, \A i \in P : p <= i,
         NEW Q, Q = P \ {p}, NEW s, NEW r, Alike(s, r, P), TypedAt(s, P), Cardinality(P) < UIntRange,
         NEW a, Describes(a, ValuesOf(s, P)), NEW x, x = s[p].t.val,
         NEW b, Dropped(a, b, x)
  PROVE  Describes(b, ValuesOf(r, Q)) /\ Cardinality(Q) = Cardinality(P) - 1
<1>2. Cardinality(Q) = Cardinality(P) - 1
  BY ONLY IsFiniteSet(P), p \in P, Q = P \ {p}, FS_RemoveElement
<1>3. PICK l, k : k = ValuesOf(s, P) /\ l = ValuesOf(r, Q)
  OBVIOUS
<1>4. Shrinks(l, k, x)
  BY <1>3, ValuesShrink DEF Alike, TypedAt
<1>5. k \in Seq(Values) /\ Len(k) = Cardinality(P)
  BY <1>3, ValuesTyped DEF TypedAt
<1>6. Len(k) < UIntRange
  BY <1>5
<1>7. Describes(a, k)
  BY <1>3
<1>8. Describes(b, l)
  BY ONLY <1>4, <1>5, <1>6, <1>7, Dropped(a, b, x), DescribesTail DEF Dropped
<1> QED BY <1>2, <1>3, <1>8

\* What the bounds say of the valid tuples.
LiveSmall ==
    Plain => /\ Live \in SUBSET Nat /\ Live \subseteq DOMAIN delivered /\ IsFiniteSet(Live)
             /\ \A i \in Live : delivered[i].t.val \in Values
             /\ \A P \in SUBSET Live :
                   IsFiniteSet(P) /\ Cardinality(P) \in Nat /\ Cardinality(P) < UIntRange

LEMMA LiveStaysSmall == WindowInv /\ LogInv /\ OrderInv => LiveSmall
<1> SUFFICES ASSUME WindowInv, LogInv, OrderInv, Plain PROVE LiveSmall
  BY DEF LiveSmall
<1>1. Live \in SUBSET Nat /\ Live \subseteq DOMAIN delivered /\ IsFiniteSet(Live)
  BY LiveFinite
<1>2. \A i \in Live : delivered[i].t.val \in Values
  BY LiveTyped
<1>3. \A P \in SUBSET Live : IsFiniteSet(P) /\ Cardinality(P) \in Nat /\ Cardinality(P) < UIntRange
  BY LiveBounded
<1> QED BY <1>1, <1>2, <1>3 DEF LiveSmall

\* The aggregates are those of the valid values; a group's of the group's.
Fits(a, s, P) == Describes(a, ValuesOf(s, P))
AggInv == Plain => Fits(agg, delivered, Live)
OneGroup(g, k, s, P) ==
    /\ k \in DOMAIN g <=> P # {}
    /\ k \in DOMAIN g => g[k].mCounter = Cardinality(P) /\ Fits(g[k].st, s, P)
GrpInv == Plain => \A k : OneGroup(grp, k, delivered, LiveOf(k))

\* Who gets an element.
LEMMA PublishedTo ==
  ASSUME NEW th \in Threads, Publish(th), NEW e, e = Head(todo[th])
  PROVE  /\ e.kind = "WindowExpired" => UNCHANGED <<agg, mCounter, slides, trigger, grp, grpFailed, failed>>
         /\ e.kind = "new" => AggregationElement(e.t, FALSE) /\ GroupedElement(e.t, FALSE)
         /\ e.kind = "outdated" => AggregationElement(e.t, TRUE) /\ GroupedElement(e.t, TRUE)
<1>1. IF e.kind = "WindowExpired" THEN UNCHANGED <<aggVars, grpVars, failed>>
      ELSE /\ AggregationElement(e.t, e.kind = "outdated")
           /\ GroupedElement(e.t, e.kind = "outdated")
  BY DEF Publish
<1>2. e.kind = "WindowExpired" => UNCHANGED <<agg, mCounter, slides, trigger, grp, grpFailed, failed>>
  BY <1>1 DEF aggVars, grpVars
<1>3. ASSUME e.kind = "new"
      PROVE  AggregationElement(e.t, FALSE) /\ GroupedElement(e.t, FALSE)
  <2>1. e.kind # "WindowExpired" /\ (e.kind = "outdated") = FALSE
    BY <1>3
  <2> QED BY ONLY <1>1, <2>1, Zenon
<1>4. ASSUME e.kind = "outdated"
      PROVE  AggregationElement(e.t, TRUE) /\ GroupedElement(e.t, TRUE)
  <2>1. e.kind # "WindowExpired" /\ (e.kind = "outdated") = TRUE
    BY <1>4
  <2> QED BY ONLY <1>1, <2>1, Zenon
<1> QED BY <1>2, <1>3, <1>4

LEMMA AggregationNew ==
  ASSUME NEW t, AggregationElement(t, FALSE)
  PROVE  /\ Took(agg, agg', t.val)
         /\ slides' = slides
         /\ conf.agg = "TriggerByCount" =>
              /\ mCounter' = mCounter + 1
              /\ trigger' = IF mCounter + 1 = Interval THEN "produce" ELSE trigger
<1>1. Took(agg, agg', t.val)
  BY DEF AggregationElement, Took
<1>2. slides' = slides
  BY DEF AggregationElement
<1>3. ASSUME conf.agg = "TriggerByCount"
      PROVE  /\ mCounter' = mCounter + 1
             /\ trigger' = IF mCounter + 1 = Interval THEN "produce" ELSE trigger
  <2>1. Fires(t) <=> mCounter + 1 = Interval
    BY <1>3 DEF Fires
  <2>2. /\ mCounter' = mCounter + 1
        /\ trigger' = IF Fires(t) THEN "produce" ELSE trigger
    BY <1>3 DEF AggregationElement
  <2> QED BY ONLY <2>1, <2>2
<1> QED BY <1>1, <1>2, <1>3

LEMMA AggregationOld ==
  ASSUME NEW t, AggregationElement(t, TRUE)
  PROVE  /\ Dropped(agg, agg', t.val)
         /\ mCounter' = mCounter /\ slides' = slides /\ trigger' = trigger
BY DEF AggregationElement, Dropped


LEMMA PlainStep ==
  ASSUME [Next]_vars, Plain'
  PROVE  Plain /\ conf' = conf
<1>1. conf' = conf
  BY DEF Next, vars, Arrive, ArriveOutdated, EvictByArrival, PublishNew, EvictionThread, Publish,
         ProduceAggregates, SlideExpired, ResetTrigger, TriggerNotifier
<1>2. forwarded' = {} => forwarded = {}
  BY DEF Next, vars, sourceVars, Arrive, ArriveOutdated, EvictByArrival, PublishNew, EvictionThread, Publish,
         ProduceAggregates, SlideExpired, ResetTrigger, TriggerNotifier
<1> QED BY <1>1, <1>2 DEF Plain

\* The positions of what was delivered do not change.
LEMMA PublishPlace ==
  ASSUME WindowInv, NEW e \in Element, delivered' = Append(delivered, e)
  PROVE  \E m \in Nat : /\ m = Len(delivered) + 1 /\ delivered'[m] = e
                        /\ \A i \in DOMAIN delivered : i \in Nat /\ i < m /\ delivered'[i] = delivered[i]
<1>1. delivered \in Seq(Element)
  BY DEF WindowInv, WindowType
<1>2. PICK m \in Nat : /\ m = Len(delivered) + 1
                       /\ DOMAIN delivered = 1 .. m - 1
                       /\ delivered'[m] = e /\ \A i \in 1 .. m - 1 : delivered'[i] = delivered[i]
  BY <1>1, DeliveredAppend
<1>3. \A i \in 1 .. m - 1 : i \in Nat /\ i < m
  OBVIOUS
<1> QED BY ONLY <1>2, <1>3, m \in Nat

LEMMA AggPublish ==
  ASSUME WindowInv, LogInv, OrderInv, LiveSmall, LiveSmall', AggInv, Plain, Plain',
         NEW th \in Threads, Publish(th)
  PROVE  AggInv'
<1>0. PICK e : e = Head(todo[th])
  OBVIOUS
<1>1. /\ Announced(e) \/ (\E p : Withdrawn(e, p)) \/ Passed(e)
      /\ e \in Element /\ delivered' = Append(delivered, e)
  BY <1>0, LiveStep
<1>2. PICK m \in Nat : /\ m = Len(delivered) + 1 /\ delivered'[m] = e
                       /\ \A i \in DOMAIN delivered : i \in Nat /\ i < m /\ delivered'[i] = delivered[i]
  BY <1>1, PublishPlace
<1>3. PICK P, Q, s, r, a, b : /\ P = Live /\ Q = Live' /\ s = delivered /\ r = delivered'
                              /\ a = agg /\ b = agg'
  OBVIOUS
<1>4. /\ P \in SUBSET Nat /\ IsFiniteSet(P) /\ P \subseteq DOMAIN s /\ TypedAt(s, P)
      /\ Cardinality(P) < UIntRange
  BY <1>3 DEF LiveSmall, TypedAt
<1>5. TypedAt(r, Q) /\ Cardinality(Q) < UIntRange
  BY <1>3 DEF LiveSmall, TypedAt
<1>6. Describes(a, ValuesOf(s, P))
  BY <1>3 DEF AggInv, Fits
<1>7. (\A i \in P : i < m /\ r[i] = s[i]) /\ r[m] = e
  BY <1>2, <1>3, <1>4
<1> SUFFICES Describes(b, ValuesOf(r, Q))
  BY <1>3 DEF AggInv, Fits
<1>8. /\ e.kind = "WindowExpired" => b = a
      /\ e.kind = "new" => Took(a, b, e.t.val)
      /\ e.kind = "outdated" => Dropped(a, b, e.t.val)
  BY <1>0, <1>3, PublishedTo, AggregationNew, AggregationOld
<1>9. CASE Announced(e)
  <2>1. e.kind = "new" /\ Q = P \cup {m}
    BY <1>2, <1>3, <1>9 DEF Announced
  <2>2. PICK x : Took(a, b, x) /\ x = r[m].t.val
    BY <1>7, <1>8, <2>1
  <2>3. Beyond(P, m, Q) /\ Alike(s, r, P)
    BY <1>7, <2>1 DEF Beyond, Alike
  <2>4. Describes(b, ValuesOf(r, Q)) /\ Cardinality(Q) = Cardinality(P) + 1
    BY ONLY <1>4, <1>5, <1>6, <2>2, <2>3, m \in Nat, GrowStep
  <2> QED BY <2>4
<1>10. CASE \E p : Withdrawn(e, p)
  <2>0. PICK p : Withdrawn(e, p)
    BY <1>10
  <2>1. e.kind = "outdated" /\ p \in P /\ (\A i \in P : p <= i) /\ Q = P \ {p} /\ s[p].t = e.t
    BY <1>3, <2>0 DEF Withdrawn
  <2>2. PICK x : Dropped(a, b, x) /\ x = s[p].t.val
    BY <1>8, <2>1
  <2>3. Alike(s, r, P)
    BY <1>7 DEF Alike
  <2>4. Describes(b, ValuesOf(r, Q)) /\ Cardinality(Q) = Cardinality(P) - 1
    BY ONLY <1>4, <1>6, <2>1, <2>2, <2>3, ShrinkStep
  <2> QED BY <2>4
<1>11. CASE Passed(e)
  <2>1. b = a /\ Q = P
    BY <1>3, <1>8, <1>11 DEF Passed
  <2>2. \A i \in P : r[i] = s[i]
    BY <1>7
  <2>3. ValuesOf(r, P) = ValuesOf(s, P)
    BY ONLY <1>4, <2>2, ValuesSame
  <2> QED BY <1>6, <2>1, <2>3
<1> QED BY <1>1, <1>9, <1>10, <1>11

-----------------------------------------------------------------------------
(* The groups.                                                             *)

\* The valid tuples of a group, one publish further.
LEMMA LiveOfStep ==
  ASSUME Live \subseteq DOMAIN delivered, \A i \in DOMAIN delivered : delivered'[i] = delivered[i],
         NEW k
  PROVE  /\ \A m, t : /\ Live' = Live \cup {m} /\ delivered'[m].t = t
                      => LiveOf(k)' = IF k = GroupByFunc(t) THEN LiveOf(k) \cup {m} ELSE LiveOf(k)
         /\ \A p, t : /\ Live' = Live \ {p} /\ p \in Live /\ delivered[p].t = t
                      => LiveOf(k)' = IF k = GroupByFunc(t) THEN LiveOf(k) \ {p} ELSE LiveOf(k)
         /\ Live' = Live => LiveOf(k)' = LiveOf(k)
<1>1. PICK P, Q, s, r : P = Live /\ Q = Live' /\ s = delivered /\ r = delivered'
  OBVIOUS
<1>2. \A i \in P : r[i] = s[i]
  BY <1>1
<1>3. /\ LiveOf(k) = {i \in P : GroupByFunc(s[i].t) = k}
      /\ LiveOf(k)' = {i \in Q : GroupByFunc(r[i].t) = k}
  BY <1>1 DEF LiveOf
<1>4. \A i \in P : GroupByFunc(r[i].t) = GroupByFunc(s[i].t)
  BY <1>2
<1>5. ASSUME NEW m, NEW t, Q = P \cup {m}, r[m].t = t
      PROVE  LiveOf(k)' = IF k = GroupByFunc(t) THEN LiveOf(k) \cup {m} ELSE LiveOf(k)
  BY ONLY <1>3, <1>4, <1>5
<1>6. ASSUME NEW p, NEW t, Q = P \ {p}, p \in P, s[p].t = t
      PROVE  LiveOf(k)' = IF k = GroupByFunc(t) THEN LiveOf(k) \ {p} ELSE LiveOf(k)
  BY ONLY <1>3, <1>4, <1>6
<1>7. Q = P => LiveOf(k)' = LiveOf(k)
  BY ONLY <1>3, <1>4
<1> QED BY <1>1, <1>5, <1>6, <1>7

\* What GroupedAggregation makes of a new tuple, of an outdated one: the state of
\* its group is entered, or one step further, and erased when its counter is 0.
Stepped(g, h, k, u) ==
    /\ \A x : x # k => (x \in DOMAIN h <=> x \in DOMAIN g) /\ (x \in DOMAIN h => h[x] = g[x])
    /\ k \in DOMAIN g => IF u.mCounter = 0 THEN k \notin DOMAIN h ELSE k \in DOMAIN h /\ h[k] = u
Entered(g, h, k, w) == k \notin DOMAIN g => k \in DOMAIN h /\ h[k] = w

LEMMA GroupedNew ==
  ASSUME NEW t, GroupedElement(t, FALSE)
  PROVE  LET k == GroupByFunc(t)
         IN Stepped(grp, grp', k, UpdatedGroup(grp[k], t, FALSE)) /\ Entered(grp, grp', k, NewGroup(t))
<1>0. PICK k, g, h : k = GroupByFunc(t) /\ g = grp /\ h = grp'
  OBVIOUS
<1>1. ASSUME k \notin DOMAIN g
      PROVE  h = [x \in DOMAIN g \cup {k} |-> IF x = k THEN NewGroup(t) ELSE g[x]]
  BY <1>0, <1>1 DEF GroupedElement
<1>2. PICK u, w : u = UpdatedGroup(g[k], t, FALSE) /\ w = NewGroup(t)
  OBVIOUS
<1>3. ASSUME k \in DOMAIN g, u.mCounter = 0
      PROVE  h = Erase(g, k)
  BY <1>0, <1>2, <1>3 DEF GroupedElement
<1>4. ASSUME k \in DOMAIN g, u.mCounter # 0
      PROVE  h = [x \in DOMAIN g \cup {k} |-> IF x = k THEN u ELSE g[x]]
  BY <1>0, <1>2, <1>4 DEF GroupedElement
<1>5. CASE k \notin DOMAIN g
  <2>1. Stepped(g, h, k, u) /\ Entered(g, h, k, w)
    BY ONLY <1>1, <1>2, <1>5 DEF Stepped, Entered
  <2> QED BY <1>0, <1>2, <2>1
<1>6. CASE k \in DOMAIN g /\ u.mCounter = 0
  <2>1. Stepped(g, h, k, u) /\ Entered(g, h, k, w)
    BY ONLY <1>3, <1>6 DEF Erase, Stepped, Entered
  <2> QED BY <1>0, <1>2, <2>1
<1>7. CASE k \in DOMAIN g /\ u.mCounter # 0
  <2>1. Stepped(g, h, k, u) /\ Entered(g, h, k, w)
    BY ONLY <1>4, <1>7 DEF Stepped, Entered
  <2> QED BY <1>0, <1>2, <2>1
<1> QED BY <1>5, <1>6, <1>7

LEMMA GroupedOld ==
  ASSUME NEW t, GroupedElement(t, TRUE), GroupByFunc(t) \in DOMAIN grp
  PROVE  LET k == GroupByFunc(t)
         IN Stepped(grp, grp', k, UpdatedGroup(grp[k], t, TRUE))
<1>0. PICK k, g, h : k = GroupByFunc(t) /\ g = grp /\ h = grp'
  OBVIOUS
<1>1. k \in DOMAIN g
  BY <1>0
<1>2. PICK u : u = UpdatedGroup(g[k], t, TRUE)
  OBVIOUS
<1>3. ASSUME u.mCounter = 0
      PROVE  h = Erase(g, k)
  BY <1>0, <1>1, <1>2, <1>3 DEF GroupedElement
<1>4. ASSUME u.mCounter # 0
      PROVE  h = [x \in DOMAIN g \cup {k} |-> IF x = k THEN u ELSE g[x]]
  BY <1>0, <1>1, <1>2, <1>4 DEF GroupedElement
<1>5. CASE u.mCounter = 0
  <2>1. Stepped(g, h, k, u)
    BY ONLY <1>1, <1>3, <1>5 DEF Erase, Stepped
  <2> QED BY <1>0, <1>2, <2>1
<1>6. CASE u.mCounter # 0
  <2>1. Stepped(g, h, k, u)
    BY ONLY <1>1, <1>4, <1>6 DEF Stepped
  <2> QED BY <1>0, <1>2, <2>1
<1> QED BY <1>5, <1>6


\* A group whose tuples stay the same.
LEMMA GroupStays ==
  ASSUME NEW P \in SUBSET Nat, IsFiniteSet(P), NEW s, NEW r, Alike(s, r, P),
         NEW g, NEW h, NEW k, OneGroup(g, k, s, P),
         k \in DOMAIN h <=> k \in DOMAIN g, k \in DOMAIN h => h[k] = g[k]
  PROVE  OneGroup(h, k, r, P)
<1>1. ValuesOf(r, P) = ValuesOf(s, P)
  <2>1. \A i \in P : r[i] = s[i]
    BY DEF Alike
  <2> QED BY ONLY <2>1, P \in SUBSET Nat, IsFiniteSet(P), ValuesSame
<1>2. \A a : Fits(a, r, P) <=> Fits(a, s, P)
  BY <1>1 DEF Fits
<1> QED BY <1>2 DEF OneGroup

\* A group that gets a tuple: its state is new or one step further.
LEMMA GroupGrows ==
  ASSUME NEW P \in SUBSET Nat, IsFiniteSet(P), NEW m \in Nat, NEW Q, Beyond(P, m, Q),
         NEW s, NEW r, Alike(s, r, P), TypedAt(r, Q), Cardinality(Q) < UIntRange,
         NEW g, NEW h, NEW k, OneGroup(g, k, s, P), NEW t, t = r[m].t,
         Entered(g, h, k, NewGroup(t)), NEW u, u = UpdatedGroup(g[k], t, FALSE), Stepped(g, h, k, u)
  PROVE  OneGroup(h, k, r, Q)
<1>0. Q # {}
  BY DEF Beyond
<1>1. PICK x : x = t.val /\ x = r[m].t.val
  OBVIOUS
<1>2. Cardinality(P) \in Nat
  BY FS_CardinalityType
<1>3. CASE k \notin DOMAIN g
  <2>1. P = {}
    BY <1>3 DEF OneGroup
  <2>2. PICK w : w = NewGroup(t) /\ k \in DOMAIN h /\ h[k] = w
    BY <1>3 DEF Entered
  <2>3. PICK a, b : a = AggregateState_init /\ b = w.st
    OBVIOUS
  <2>4. w.mCounter = 1 /\ Took(a, b, x)
    BY <1>1, <2>2, <2>3 DEF NewGroup, Took
  <2>5. Describes(a, ValuesOf(s, P))
    BY <2>1, <2>3, DescribesInit, ValuesEmpty
  <2>6. Describes(b, ValuesOf(r, Q)) /\ Cardinality(Q) = Cardinality(P) + 1
    BY <1>1, <2>4, <2>5, GrowStep
  <2>7. Cardinality(P) = 0
    BY <2>1, FS_EmptySet
  <2> QED BY <1>0, <2>2, <2>3, <2>4, <2>6, <2>7 DEF OneGroup, Fits
<1>4. CASE k \in DOMAIN g
  <2>1. PICK a, b, c : a = g[k].st /\ b = u.st /\ c = g[k].mCounter
    OBVIOUS
  <2>2. c = Cardinality(P) /\ Describes(a, ValuesOf(s, P))
    BY <1>4, <2>1 DEF OneGroup, Fits
  <2>3. u.mCounter = (c + 1) % UIntRange /\ Took(a, b, x)
    BY <1>1, <2>1 DEF UpdatedGroup, Took, Step
  <2>4. Describes(b, ValuesOf(r, Q)) /\ Cardinality(Q) = Cardinality(P) + 1
    BY <1>1, <2>2, <2>3, GrowStep
  <2>5. u.mCounter = Cardinality(Q) /\ u.mCounter # 0
    <3>1. c \in Nat /\ c + 1 < UIntRange
      BY <1>2, <2>2, <2>4
    <3>2. (c + 1) % UIntRange = c + 1
      BY ONLY <3>1, StepUp
    <3> QED BY ONLY <2>2, <2>3, <2>4, <3>1, <3>2
  <2> QED BY <1>0, <1>4, <2>1, <2>4, <2>5 DEF OneGroup, Fits, Stepped
<1> QED BY <1>3, <1>4

\* The state of a group that loses its oldest tuple, before the group may be erased.
LEMMA GroupLoses ==
  ASSUME NEW P \in SUBSET Nat, IsFiniteSet(P), NEW p \in P, \A i \in P : p <= i,
         NEW Q, Q = P \ {p}, NEW s, NEW r, Alike(s, r, P), TypedAt(s, P), Cardinality(P) < UIntRange,
         NEW g, NEW k, OneGroup(g, k, s, P), NEW t, t = s[p].t,
         NEW u, u = UpdatedGroup(g[k], t, TRUE)
  PROVE  Describes(u.st, ValuesOf(r, Q))
<1>1. PICK x : x = t.val /\ x = s[p].t.val
  OBVIOUS
<1>2. PICK a, b : a = g[k].st /\ b = u.st
  OBVIOUS
<1>3. Describes(a, ValuesOf(s, P))
  BY <1>2 DEF OneGroup, Fits
<1>4. Dropped(a, b, x)
  BY <1>1, <1>2 DEF UpdatedGroup, Dropped
<1>5. Describes(b, ValuesOf(r, Q)) /\ Cardinality(Q) = Cardinality(P) - 1
  BY <1>1, <1>3, <1>4, ShrinkStep
<1> QED BY <1>2, <1>5

\* A group that loses its oldest tuple: one step further, or gone.
LEMMA GroupShrinks ==
  ASSUME NEW P \in SUBSET Nat, IsFiniteSet(P), NEW p \in P, \A i \in P : p <= i,
         NEW Q, Q = P \ {p}, NEW s, NEW r, Alike(s, r, P), TypedAt(s, P), Cardinality(P) < UIntRange,
         NEW g, NEW h, NEW k, OneGroup(g, k, s, P), NEW t, t = s[p].t,
         NEW u, u = UpdatedGroup(g[k], t, TRUE), Stepped(g, h, k, u)
  PROVE  OneGroup(h, k, r, Q)
<1>1. PICK x : x = t.val /\ x = s[p].t.val
  OBVIOUS
<1>2. PICK a, b, c : a = g[k].st /\ b = u.st /\ c = g[k].mCounter
  OBVIOUS
<1>3. c = Cardinality(P) /\ Describes(a, ValuesOf(s, P))
  BY <1>2 DEF OneGroup, Fits
<1>4. u.mCounter = (c + (UIntRange - 1)) % UIntRange /\ Dropped(a, b, x)
  BY <1>1, <1>2 DEF UpdatedGroup, Dropped, Step
<1>5. Describes(b, ValuesOf(r, Q)) /\ Cardinality(Q) = Cardinality(P) - 1
  BY <1>1, <1>3, <1>4, ShrinkStep
<1>6. c \in Nat /\ c # 0
  <2>1. Cardinality(P) \in Nat
    BY FS_CardinalityType
  <2>2. Cardinality(P) # 0
    BY FS_EmptySet
  <2> QED BY <1>3, <2>1, <2>2
<1>7. u.mCounter = Cardinality(Q)
  <2>1. c < UIntRange
    BY <1>3
  <2>2. (c + (UIntRange - 1)) % UIntRange = c - 1
    BY ONLY <1>6, <2>1, StepDown
  <2> QED BY <1>3, <1>4, <1>5, <2>2
<1>8. IsFiniteSet(Q)
  BY FS_Subset
<1>9. Q = {} <=> Cardinality(Q) = 0
  BY <1>8, FS_EmptySet
<1>10. k \in DOMAIN g
  BY DEF OneGroup
<1> QED BY <1>2, <1>5, <1>7, <1>9, <1>10 DEF OneGroup, Fits, Stepped

LEMMA GrpPublish ==
  ASSUME WindowInv, LogInv, OrderInv, LiveSmall, LiveSmall', GrpInv, Plain, Plain',
         NEW th \in Threads, Publish(th)
  PROVE  GrpInv'
<1>0. PICK e : e = Head(todo[th])
  OBVIOUS
<1>1. /\ Announced(e) \/ (\E p : Withdrawn(e, p)) \/ Passed(e)
      /\ e \in Element /\ delivered' = Append(delivered, e)
  BY <1>0, LiveStep
<1>2. PICK m \in Nat : /\ m = Len(delivered) + 1 /\ delivered'[m] = e
                       /\ \A i \in DOMAIN delivered : i \in Nat /\ i < m /\ delivered'[i] = delivered[i]
  BY <1>1, PublishPlace
<1> SUFFICES ASSUME NEW k PROVE OneGroup(grp, k, delivered, LiveOf(k))'
  BY DEF GrpInv
<1>3. PICK P, Q, s, r, g, h : /\ P = LiveOf(k) /\ Q = LiveOf(k)' /\ s = delivered /\ r = delivered'
                              /\ g = grp /\ h = grp'
  OBVIOUS
<1>4. PICK t, j : t = e.t /\ j = GroupByFunc(t)
  OBVIOUS
<1>5. /\ P \in SUBSET Nat /\ IsFiniteSet(P) /\ P \subseteq DOMAIN s /\ P \subseteq Live
      /\ Cardinality(P) < UIntRange
  <2>1. P \in SUBSET Live
    BY <1>3 DEF LiveOf
  <2> QED BY <1>3, <2>1 DEF LiveSmall
<1>6. TypedAt(s, P)
  BY <1>3, <1>5 DEF LiveSmall, TypedAt
<1>7. TypedAt(r, Q) /\ Cardinality(Q) < UIntRange
  <2>1. Q \in SUBSET Live'
    BY <1>3 DEF LiveOf
  <2> QED BY <1>3, <2>1 DEF LiveSmall, TypedAt
<1>8. OneGroup(g, k, s, P)
  BY <1>3 DEF GrpInv
<1>9. Alike(s, r, P)
  BY <1>2, <1>3, <1>5 DEF Alike
<1> SUFFICES OneGroup(h, k, r, Q)
  BY <1>3
<1>10. ASSUME Q = P, k \in DOMAIN h <=> k \in DOMAIN g, k \in DOMAIN h => h[k] = g[k]
       PROVE  OneGroup(h, k, r, Q)
  <2>1. OneGroup(h, k, r, P)
    BY ONLY <1>5, <1>8, <1>9, <1>10, GroupStays
  <2> QED BY <1>10, <2>1
<1>11. Live \subseteq DOMAIN delivered /\ \A i \in DOMAIN delivered : delivered'[i] = delivered[i]
  BY <1>2 DEF LiveSmall
<1>12. CASE Announced(e)
  <2>1. e.kind = "new" /\ Live' = Live \cup {m}
    BY <1>2, <1>12 DEF Announced
  <2>2. GroupedElement(t, FALSE)
    BY <1>0, <1>4, <2>1, PublishedTo
  <2>3. delivered'[m].t = t
    BY <1>2, <1>4
  <2>4. Q = IF k = j THEN P \cup {m} ELSE P
    BY <1>3, <1>4, <1>11, <2>1, <2>3, LiveOfStep
  <2>5. Stepped(g, h, j, UpdatedGroup(g[j], t, FALSE)) /\ Entered(g, h, j, NewGroup(t))
    BY <1>3, <1>4, <2>2, GroupedNew
  <2>6. CASE k # j
    <3>1. Q = P /\ (k \in DOMAIN h <=> k \in DOMAIN g) /\ (k \in DOMAIN h => h[k] = g[k])
      BY ONLY <2>4, <2>5, <2>6 DEF Stepped
    <3> QED BY ONLY <1>10, <3>1
  <2>7. CASE k = j
    <3>1. Beyond(P, m, Q)
      <4>1. \A i \in P : i < m
        BY <1>2, <1>3, <1>5
      <4> QED BY ONLY <2>4, <2>7, <4>1 DEF Beyond
    <3>2. t = r[m].t
      BY <1>3, <2>3
    <3>3. PICK u : u = UpdatedGroup(g[k], t, FALSE)
      OBVIOUS
    <3>4. Stepped(g, h, k, u) /\ Entered(g, h, k, NewGroup(t))
      BY <2>5, <2>7, <3>3
    <3> QED BY ONLY <1>5, <1>7, <1>8, <1>9, <3>1, <3>2, <3>3, <3>4, m \in Nat, GroupGrows, ZenonT(60)
  <2> QED BY <2>6, <2>7
<1>13. CASE \E p : Withdrawn(e, p)
  <2>0. PICK p : Withdrawn(e, p)
    BY <1>13
  <2>1. e.kind = "outdated" /\ p \in Live /\ (\A i \in Live : p <= i) /\ delivered[p].t = t /\ Live' = Live \ {p}
    BY <1>4, <2>0 DEF Withdrawn
  <2>2. GroupedElement(t, TRUE)
    BY <1>0, <1>4, <2>1, PublishedTo
  <2>4. Q = IF k = j THEN P \ {p} ELSE P
    BY <1>3, <1>4, <1>11, <2>1, LiveOfStep
  <2>5. j \in DOMAIN g
    <3>1. p \in LiveOf(j)
      BY <1>4, <2>1 DEF LiveOf
    <3> QED BY <1>3, <3>1 DEF GrpInv, OneGroup
  <2>6. Stepped(g, h, j, UpdatedGroup(g[j], t, TRUE))
    BY <1>3, <1>4, <2>2, <2>5, GroupedOld
  <2>7. CASE k # j
    <3>1. Q = P /\ (k \in DOMAIN h <=> k \in DOMAIN g) /\ (k \in DOMAIN h => h[k] = g[k])
      BY ONLY <2>4, <2>6, <2>7 DEF Stepped
    <3> QED BY ONLY <1>10, <3>1
  <2>8. CASE k = j
    <3>1. p \in P /\ (\A i \in P : p <= i) /\ Q = P \ {p} /\ t = s[p].t
      <4>1. p \in LiveOf(j)
        BY <1>4, <2>1 DEF LiveOf
      <4> QED BY <1>3, <1>5, <2>1, <2>4, <2>8, <4>1
    <3>2. PICK u : u = UpdatedGroup(g[k], t, TRUE)
      OBVIOUS
    <3>3. Stepped(g, h, k, u)
      BY <2>6, <2>8, <3>2
    <3> QED BY ONLY <1>5, <1>6, <1>8, <1>9, <3>1, <3>2, <3>3, GroupShrinks, ZenonT(60)
  <2> QED BY <2>7, <2>8
<1>14. CASE Passed(e)
  <2>1. e.kind = "WindowExpired" /\ Live' = Live
    BY <1>14 DEF Passed
  <2>2. h = g
    BY <1>0, <1>3, <2>1, PublishedTo
  <2>3. Q = P
    BY <1>3, <1>11, <2>1, LiveOfStep
  <2> QED BY ONLY <1>10, <2>2, <2>3
<1> QED BY <1>1, <1>12, <1>13, <1>14

-----------------------------------------------------------------------------
(* The invariants.                                                         *)

\* Whatever is no publish leaves the subscribers alone.
LEMMA QuietStep ==
  ASSUME [Next]_vars
  PROVE  \/ \E th \in Threads : Publish(th)
         \/ UNCHANGED <<conf, delivered, agg, grp, grpFailed>>
BY DEF Next, vars, Arrive, ArriveOutdated, EvictByArrival, PublishNew, EvictionThread, TriggerNotifier,
       ProduceAggregates, SlideExpired, ResetTrigger, aggVars, grpVars

LEMMA LiveFrame ==
  ASSUME UNCHANGED delivered
  PROVE  Live' = Live /\ (\A k : LiveOf(k)' = LiveOf(k)) /\ LiveVals' = LiveVals
<1>1. \A kind : Ids(kind)' = Ids(kind)
  BY DEF Ids
<1>2. Live' = Live
  BY <1>1 DEF Live
<1>3. \A k : LiveOf(k)' = LiveOf(k)
  BY <1>2 DEF LiveOf
<1> QED BY <1>2, <1>3 DEF LiveVals

LEMMA LogNext == WindowInv /\ LogInv /\ [Next]_vars => LogInv'
<1> SUFFICES ASSUME WindowInv, LogInv, [Next]_vars PROVE LogInv'
  OBVIOUS
<1>1. ASSUME NEW val \in Values, NEW ts \in 0 .. MaxTime, Arrive(val, ts) PROVE LogInv'
  BY <1>1, LogArrive
<1>2. ASSUME NEW t, ArriveOutdated(t) PROVE LogInv'
  BY <1>2 DEF ArriveOutdated, LogInv, Plain
<1>3. CASE EvictByArrival
  <2>1. mTupleBuf # <<>> /\ "source" \in Threads
    BY <1>3 DEF EvictByArrival, WindowInv, SourceInv, Settled, Threads
  <2>2. pc = "evict" /\ todo["source"] = <<>> /\ Evict("source") /\ UNCHANGED <<conf, data, arrived, forwarded, delivered>>
    BY <1>3 DEF EvictByArrival, Returned
  <2> QED BY <2>1, <2>2, LogEvict
<1>4. CASE PublishNew
  BY <1>4, LogPublishNew
<1>5. CASE EvictionThread
  <2>1. /\ "evict" \in Threads /\ mTupleBuf # <<>> /\ todo["evict"] = <<>> /\ Evict("evict")
        /\ UNCHANGED <<conf, pc, data, arrived, forwarded, delivered>>
    BY <1>5 DEF EvictionThread, sourceVars, Threads
  <2> QED BY <2>1, LogEvict
<1>6. ASSUME NEW th \in Threads, Publish(th) PROVE LogInv'
  BY <1>6, LogPublish
<1>7. CASE TriggerNotifier
  BY <1>7, LogFrame DEF TriggerNotifier, windowVars, sourceVars
<1>8. CASE ProduceAggregates \/ SlideExpired \/ ResetTrigger
  BY <1>8, LogFrame DEF ProduceAggregates, SlideExpired, ResetTrigger, windowVars, sourceVars
<1>9. CASE UNCHANGED vars
  BY <1>9, LogFrame DEF vars, windowVars, sourceVars
<1> QED BY <1>1, <1>2, <1>3, <1>4, <1>5, <1>6, <1>7, <1>8, <1>9 DEF Next

LEMMA OrderNext == WindowInv /\ LogInv /\ OrderInv /\ [Next]_vars => OrderInv'
<1> SUFFICES ASSUME WindowInv, LogInv, OrderInv, [Next]_vars, Plain' PROVE OrderInv'
  BY DEF OrderInv
<1>1. Plain
  BY PlainStep
<1>2. ASSUME NEW th \in Threads, Publish(th) PROVE OrderInv'
  BY <1>1, <1>2, LiveStep
<1>3. CASE UNCHANGED delivered
  BY <1>1, <1>3 DEF OrderInv, Ordered
<1> QED BY <1>2, <1>3, QuietStep

LEMMA AggNext ==
  ASSUME WindowInv, LogInv, OrderInv, LiveSmall, LiveSmall', AggInv, GrpInv, [Next]_vars
  PROVE  AggInv' /\ GrpInv'
<1> SUFFICES ASSUME Plain' PROVE AggInv' /\ GrpInv'
  BY DEF AggInv, GrpInv
<1>1. Plain
  BY PlainStep
<1>2. ASSUME NEW th \in Threads, Publish(th) PROVE AggInv' /\ GrpInv'
  BY <1>1, <1>2, AggPublish, GrpPublish
<1>3. CASE UNCHANGED <<delivered, agg, grp>>
  <2>1. Live' = Live /\ \A k : LiveOf(k)' = LiveOf(k)
    BY <1>3, LiveFrame
  <2>2. AggInv'
    BY <1>1, <1>3, <2>1 DEF AggInv
  <2>3. GrpInv'
    BY <1>1, <1>3, <2>1 DEF GrpInv
  <2> QED BY <2>2, <2>3
<1> QED BY <1>2, <1>3, QuietStep

\* The eviction thread has no new tuple to publish.
Withdraws(l) == \A j \in DOMAIN l : l[j].kind # "new"
EvictorInv == Withdraws(todo["evict"])

LEMMA EvictorNext == WindowInv /\ EvictorInv /\ [Next]_vars => EvictorInv'
<1> SUFFICES ASSUME WindowInv, EvictorInv, [Next]_vars PROVE EvictorInv'
  OBVIOUS
<1>0. /\ WindowType /\ todo \in [Threads -> Seq(Element)]
      /\ "source" \in Threads /\ "evict" \in Threads /\ "evict" # "source"
  BY DEF WindowInv, WindowType, Threads
<1>1. CASE todo'["evict"] = todo["evict"]
  BY <1>1 DEF EvictorInv
<1>2. ASSUME NEW l, todo' = [todo EXCEPT !["source"] = l] PROVE EvictorInv'
  <2>1. todo'["evict"] = todo["evict"]
    BY <1>0, <1>2
  <2> QED BY <1>1, <2>1
<1>3. CASE EvictionThread
  <2>1. /\ mTupleBuf # <<>> /\ Evict("evict") /\ UNCHANGED <<conf, arrived>>
    BY <1>3 DEF EvictionThread, sourceVars
  <2>2. PICK k : k = Expired(mTupleBuf)
    OBVIOUS
  <2>3. k \in 0 .. Len(mTupleBuf)
    BY <2>1, <2>2, EvictFacts DEF WindowInv
  <2>4. PICK c \in BOOLEAN : c <=> (Tumbling /\ k > 0)
    OBVIOUS
  <2>5. PICK l : l = Outdated(k) \o IF c THEN <<WindowExpired>> ELSE <<>>
    OBVIOUS
  <2>6. /\ l \in Seq(Element) /\ Len(l) = IF c THEN k + 1 ELSE k
        /\ \A j \in 1 .. k : l[j].kind = "outdated" /\ l[j].t.id = Evicted + j
        /\ c => l[k + 1] = WindowExpired
    <3>1. l \in Seq(Element) /\ Len(l) = IF c THEN k + 1 ELSE k
      BY ONLY WindowInv, <2>3, <2>5, c \in BOOLEAN, OutdatedFacts, Zenon
    <3>2. \A j \in 1 .. k : l[j].kind = "outdated" /\ l[j].t.id = Evicted + j
      BY ONLY WindowInv, <2>3, <2>5, c \in BOOLEAN, OutdatedFacts, ZenonT(60)
    <3>3. c => l[k + 1] = WindowExpired
      BY ONLY WindowInv, <2>3, <2>5, c \in BOOLEAN, OutdatedFacts, Zenon
    <3> QED BY <3>1, <3>2, <3>3
  <2>7. todo' = [todo EXCEPT !["evict"] = l]
    BY <2>1, <2>2, <2>4, <2>5 DEF Evict
  <2>8. todo'["evict"] = l
    BY ONLY <1>0, <2>7
  <2>9. k \in Nat
    BY <2>3
  <2>10. \A j \in DOMAIN l : j \in 1 .. k \/ (c /\ j = k + 1)
    BY ONLY <2>6, <2>9, c \in BOOLEAN
  <2>11. Withdraws(l)
    BY ONLY <2>6, <2>10, ExpiredFacts DEF Withdraws
  <2> QED BY <2>8, <2>11 DEF EvictorInv
<1>4. ASSUME NEW th \in Threads, Publish(th) PROVE EvictorInv'
  <2>1. PICK e \in Element, r \in Seq(Element) :
           /\ \A j \in DOMAIN r : j + 1 \in DOMAIN todo[th] /\ r[j] = todo[th][j + 1]
           /\ todo'[th] = r /\ \A x \in Threads \ {th} : todo'[x] = todo[x]
    BY <1>4, PublishParts
  <2>2. CASE th = "evict"
    BY <2>1, <2>2 DEF EvictorInv, Withdraws
  <2>3. CASE th # "evict"
    BY <1>0, <1>1, <2>1, <2>3
  <2> QED BY <2>2, <2>3
<1>5. CASE UNCHANGED todo
  BY <1>1, <1>5
<1>6. \/ EvictionThread \/ (\E th \in Threads : Publish(th)) \/ UNCHANGED todo
      \/ \E l : todo' = [todo EXCEPT !["source"] = l]
  BY DEF Next, vars, Arrive, ArriveOutdated, EvictByArrival, Evict, PublishNew, TriggerNotifier,
         ProduceAggregates, SlideExpired, ResetTrigger
<1> QED BY <1>2, <1>3, <1>4, <1>5, <1>6

\* The slides, and the new tuples since the last one.
NewAt == {i \in DOMAIN delivered : delivered[i].kind = "new"}
Since(tr, c) == IF tr = "reset" THEN 0 ELSE c
SlidesInv ==
    conf.agg = "TriggerByCount" =>
        /\ slides \in Nat /\ mCounter \in Nat
        /\ slides * Interval + Since(trigger, mCounter) = Cardinality(NewAt)
        /\ trigger # "none" => mCounter = Interval

\* A publish of a new tuple is one of the source's thread, with no trigger under way.
LEMMA NewPublished ==
  ASSUME WindowInv, EvictorInv, NEW th \in Threads, Publish(th), Head(todo[th]).kind = "new"
  PROVE  trigger = "none"
<1>1. PICK e : 1 \in DOMAIN todo[th] /\ e = todo[th][1] /\ e = Head(todo[th])
  BY PublishParts
<1>2. th # "evict"
  BY <1>1 DEF EvictorInv, Withdraws
<1> QED BY <1>2 DEF Publish, Threads

\* What is no publish and leaves the counter alone, or goes on with a trigger.
LEMMA TriggerStep ==
  ASSUME [Next]_vars
  PROVE  \/ \E th \in Threads : Publish(th)
         \/ UNCHANGED <<conf, delivered, mCounter, slides, trigger>>
         \/ /\ trigger # "none" /\ UNCHANGED <<conf, delivered>>
            /\ \/ trigger # "reset" /\ trigger' \notin {"none", "reset"} /\ UNCHANGED <<mCounter, slides>>
               \/ trigger # "reset" /\ trigger' = "reset" /\ slides' = slides + 1 /\ mCounter' = mCounter
               \/ /\ trigger = "reset" /\ trigger' = "none" /\ slides' = slides
                  /\ conf.agg = "TriggerByCount" => mCounter' = 0
BY DEF Next, vars, Arrive, ArriveOutdated, EvictByArrival, PublishNew, EvictionThread, TriggerNotifier,
       ProduceAggregates, SlideExpired, ResetTrigger, aggVars, grpVars

LEMMA SlidesNext == WindowInv /\ EvictorInv /\ SlidesInv /\ [Next]_vars => SlidesInv'
<1> SUFFICES ASSUME WindowInv, EvictorInv, SlidesInv, [Next]_vars, conf'.agg = "TriggerByCount"
             PROVE  SlidesInv'
  BY DEF SlidesInv
<1>0. Interval \in Nat \ {0}
  BY SizeAssumption
<1>1. CASE UNCHANGED <<conf, delivered, mCounter, slides, trigger>>
  BY <1>1 DEF SlidesInv, NewAt
<1>a. CASE /\ trigger # "none" /\ UNCHANGED <<conf, delivered>>
           /\ \/ trigger # "reset" /\ trigger' \notin {"none", "reset"} /\ UNCHANGED <<mCounter, slides>>
              \/ trigger # "reset" /\ trigger' = "reset" /\ slides' = slides + 1 /\ mCounter' = mCounter
              \/ /\ trigger = "reset" /\ trigger' = "none" /\ slides' = slides
                 /\ conf.agg = "TriggerByCount" => mCounter' = 0
  <2>1. NewAt' = NewAt /\ conf.agg = "TriggerByCount"
    BY <1>a DEF NewAt
  <2>2. PICK s, c, n : /\ s \in Nat /\ c \in Nat /\ s = slides /\ c = mCounter
                       /\ n = Cardinality(NewAt)
                       /\ s * Interval + Since(trigger, c) = n /\ c = Interval
    BY <1>a, <2>1 DEF SlidesInv
  <2>3. (s + 1) * Interval + 0 = s * Interval + Interval /\ s * Interval + 0 = s * Interval
    <3>1. s \in Nat
      BY ONLY <2>2
    <3> QED BY ONLY <1>0, <3>1
  <2>4. CASE trigger # "reset" /\ trigger' \notin {"none", "reset"} /\ UNCHANGED <<mCounter, slides>>
    BY <2>1, <2>2, <2>4 DEF SlidesInv, Since
  <2>5. CASE trigger # "reset" /\ trigger' = "reset" /\ slides' = slides + 1 /\ mCounter' = mCounter
    <3>1. slides' = s + 1 /\ mCounter' = c /\ Since(trigger, c) = Interval /\ Since(trigger', c) = 0
      BY <2>2, <2>5 DEF Since
    <3>2. slides' * Interval + Since(trigger', mCounter') = n
      BY ONLY <2>2, <2>3, <3>1
    <3> QED BY <2>1, <2>2, <3>1, <3>2 DEF SlidesInv
  <2>6. CASE trigger = "reset" /\ trigger' = "none" /\ slides' = slides /\ mCounter' = 0
    <3>1. slides' = s /\ mCounter' = 0 /\ Since(trigger, c) = 0 /\ Since(trigger', mCounter') = 0
      BY <2>2, <2>6 DEF Since
    <3>2. slides' * Interval + Since(trigger', mCounter') = n
      BY ONLY <2>2, <3>1
    <3> QED BY <2>1, <2>2, <2>6, <3>1, <3>2 DEF SlidesInv
  <2> QED BY <1>a, <2>1, <2>4, <2>5, <2>6
<1>2. ASSUME NEW th \in Threads, Publish(th) PROVE SlidesInv'
  <2>0. PICK e \in Element : delivered' = Append(delivered, e) /\ conf' = conf /\ e = Head(todo[th])
    BY <1>2, PublishParts
  <2>1. delivered \in Seq(Element) /\ conf.agg = "TriggerByCount"
    BY <2>0 DEF WindowInv, WindowType
  <2>2. PICK m \in Nat : /\ m = Len(delivered) + 1
                         /\ DOMAIN delivered = 1 .. m - 1 /\ DOMAIN delivered' = 1 .. m
                         /\ delivered'[m] = e /\ \A i \in 1 .. m - 1 : delivered'[i] = delivered[i]
    BY <2>0, <2>1, DeliveredAppend
  <2>3. PICK P, Q, d, x : P = NewAt /\ Q = NewAt' /\ d = delivered /\ x = delivered'
    OBVIOUS
  <2>4. P = {i \in 1 .. m - 1 : d[i].kind = "new"} /\ Q = {i \in 1 .. m : x[i].kind = "new"}
    BY <2>2, <2>3 DEF NewAt
  <2>5. m >= 1 /\ x[m] = e /\ \A i \in 1 .. m - 1 : x[i] = d[i]
    BY <2>1, <2>2, <2>3
  <2>6. \A i : i \in 1 .. m <=> i \in 1 .. m - 1 \/ i = m
    BY <2>5
  <2>7. m \notin 1 .. m - 1
    OBVIOUS
  <2>8. IsFiniteSet(P)
    <3>1. P \in SUBSET (1 .. m - 1) /\ m - 1 \in Int
      BY <2>4
    <3>2. IsFiniteSet(1 .. m - 1)
      BY <3>1, FS_Interval
    <3> QED BY ONLY <3>1, <3>2, FS_Subset
  <2>9. Cardinality(P) \in Nat
    BY <2>8, FS_CardinalityType
  <2>10. PICK s, c, n \in Nat : /\ s = slides /\ c = mCounter /\ n = Cardinality(P)
                               /\ s * Interval + Since(trigger, c) = n
    BY <2>1, <2>3, <2>9 DEF SlidesInv
  <2>11. CASE e.kind = "new"
    <3>1. Q = P \cup {m} /\ m \notin P
      BY ONLY <2>4, <2>5, <2>6, <2>7, <2>11
    <3>2. Cardinality(Q) = n + 1
      BY ONLY <2>8, <2>10, <3>1, FS_AddElement
    <3>3. AggregationElement(e.t, FALSE) /\ trigger = "none"
      BY <1>2, <2>0, <2>11, PublishedTo, NewPublished
    <3>4. /\ slides' = s /\ mCounter' = c + 1
          /\ trigger' = IF c + 1 = Interval THEN "produce" ELSE "none"
      BY <2>1, <2>10, <3>3, AggregationNew
    <3>5. Since(trigger, c) = c /\ Since(trigger', mCounter') = c + 1
      BY ONLY <3>3, <3>4 DEF Since
    <3>6. s * Interval \in Nat
      BY ONLY <1>0, s \in Nat
    <3>7. /\ slides' \in Nat /\ mCounter' \in Nat
          /\ slides' * Interval + Since(trigger', mCounter') = n + 1
      BY ONLY <2>10, <3>4, <3>5, <3>6, s \in Nat, c \in Nat, n \in Nat
    <3>8. trigger' # "none" => mCounter' = Interval
      BY ONLY <3>4
    <3> QED BY <2>3, <3>2, <3>7, <3>8 DEF SlidesInv
  <2>12. CASE e.kind # "new"
    <3>1. Q = P
      BY ONLY <2>4, <2>5, <2>6, <2>12
    <3>2. e.kind = "outdated" \/ e.kind = "WindowExpired"
      BY <2>12 DEF Element
    <3>3. mCounter' = mCounter /\ slides' = slides /\ trigger' = trigger
      BY <1>2, <2>0, <3>2, PublishedTo, AggregationOld
    <3> QED BY <2>1, <2>3, <3>1, <3>3 DEF SlidesInv
  <2> QED BY <2>11, <2>12
<1> QED BY <1>1, <1>2, <1>a, TriggerStep

\* A value of agg that does not exist is asked for by a publish, a trigger or the notifier.
LEMMA FailedStep ==
  ASSUME [Next]_vars
  PROVE  failed' = failed \/ failed' = failed \cup UndefinedIn(agg')
<1>1. ASSUME NEW th \in Threads, Publish(th)
      PROVE  failed' = failed \/ failed' = failed \cup UndefinedIn(agg')
  <2>0. PICK e : e = Head(todo[th])
    OBVIOUS
  <2>1. CASE e.kind = "WindowExpired"
    BY <1>1, <2>0, <2>1, PublishedTo
  <2>2. CASE e.kind # "WindowExpired"
    <3>1. AggregationElement(e.t, e.kind = "outdated")
      BY <1>1, <2>0, <2>2 DEF Publish
    <3> QED BY <3>1 DEF AggregationElement
  <2> QED BY <2>1, <2>2
<1>2. CASE TriggerNotifier
  BY <1>2 DEF TriggerNotifier, aggVars
<1>3. CASE ProduceAggregates
  BY <1>3 DEF ProduceAggregates
<1> QED BY <1>1, <1>2, <1>3 DEF Next, vars, Arrive, ArriveOutdated, EvictByArrival, PublishNew, EvictionThread,
                               SlideExpired, ResetTrigger

\* What is asked for of a group: the state of the group of a new tuple; of an outdated one
\* whose group is known; of others nothing.
LEMMA GroupedAsked ==
  ASSUME NEW t, NEW k, k = GroupByFunc(t)
  PROVE  /\ GroupedElement(t, FALSE) =>
              grpFailed' = grpFailed \/ grpFailed' = grpFailed \cup UndefinedIn(
                  (IF k \in DOMAIN grp THEN UpdatedGroup(grp[k], t, FALSE) ELSE NewGroup(t)).st)
         /\ GroupedElement(t, TRUE) /\ k \in DOMAIN grp =>
              grpFailed' = grpFailed \/ grpFailed' = grpFailed \cup UndefinedIn(
                  UpdatedGroup(grp[k], t, TRUE).st)
<1>1. ASSUME GroupedElement(t, FALSE)
      PROVE  grpFailed' = grpFailed \/ grpFailed' = grpFailed \cup UndefinedIn(
                (IF k \in DOMAIN grp THEN UpdatedGroup(grp[k], t, FALSE) ELSE NewGroup(t)).st)
  BY <1>1 DEF GroupedElement
<1>2. ASSUME GroupedElement(t, TRUE), k \in DOMAIN grp
      PROVE  grpFailed' = grpFailed \/ grpFailed' = grpFailed \cup UndefinedIn(
                UpdatedGroup(grp[k], t, TRUE).st)
  BY <1>2 DEF GroupedElement
<1> QED BY <1>1, <1>2

\* What a description says of the values a state cannot report.
LEMMA FitsFinal ==
  ASSUME NEW P \in SUBSET Nat, IsFiniteSet(P), NEW s, TypedAt(s, P), Cardinality(P) < UIntRange,
         NEW a, Describes(a, ValuesOf(s, P))
  PROVE  "dcount" \notin UndefinedIn(a) /\ (P # {} => UndefinedIn(a) = {})
<1>1. PICK l, v, r : l = ValuesOf(s, P) /\ v = AggregateState_finalize(a) /\ r = Reference(l)
  OBVIOUS
<1>2. l \in Seq(Values) /\ Len(l) = Cardinality(P)
  BY <1>1, ValuesTyped DEF TypedAt
<1>3. "dcount" \notin UndefinedIn(a) /\ (l # <<>> => UndefinedIn(a) = {})
  BY <1>1, <1>2, DescribesFinal
<1>4. P # {} => Cardinality(P) # 0
  BY FS_EmptySet
<1>5. l = <<>> => Len(l) = 0
  OBVIOUS
<1> QED BY <1>2, <1>3, <1>4, <1>5

\* A publish asks for a value that does not exist only of a group without tuples.
LEMMA GroupFailed ==
  ASSUME WindowInv, LogInv, OrderInv, LiveSmall, LiveSmall', GrpInv, GrpInv', Plain, Plain',
         NEW th \in Threads, Publish(th), NEW e, e = Head(todo[th]), grpFailed' # grpFailed
  PROVE  LiveOf(GroupByFunc(e.t))' = {} /\ ("dcount" \in grpFailed' => "dcount" \in grpFailed)
<1>1. /\ Announced(e) \/ (\E p : Withdrawn(e, p)) \/ Passed(e)
      /\ e \in Element /\ delivered' = Append(delivered, e)
  BY LiveStep
<1>2. PICK m \in Nat : /\ m = Len(delivered) + 1 /\ delivered'[m] = e
                       /\ \A i \in DOMAIN delivered : i \in Nat /\ i < m /\ delivered'[i] = delivered[i]
  BY <1>1, PublishPlace
<1>4. PICK t, k : t = e.t /\ k = GroupByFunc(t)
  OBVIOUS
<1>3. PICK P, Q, s, r, g, h : /\ P = LiveOf(k) /\ Q = LiveOf(k)' /\ s = delivered /\ r = delivered'
                              /\ g = grp /\ h = grp'
  OBVIOUS
<1>5. /\ P \in SUBSET Nat /\ IsFiniteSet(P) /\ P \subseteq DOMAIN s /\ P \subseteq Live
      /\ Cardinality(P) < UIntRange
  <2>1. P \in SUBSET Live
    BY <1>3 DEF LiveOf
  <2> QED BY <1>3, <2>1 DEF LiveSmall
<1>6. TypedAt(s, P)
  BY <1>3, <1>5 DEF LiveSmall, TypedAt
<1>7. Q \in SUBSET Nat /\ IsFiniteSet(Q) /\ TypedAt(r, Q) /\ Cardinality(Q) < UIntRange
  <2>1. Q \in SUBSET Live'
    BY <1>3 DEF LiveOf
  <2> QED BY <1>3, <2>1 DEF LiveSmall, TypedAt
<1>8. OneGroup(g, k, s, P) /\ OneGroup(h, k, r, Q)
  BY <1>3 DEF GrpInv
<1>9. Alike(s, r, P)
  BY <1>2, <1>3, <1>5 DEF Alike
<1>10. ASSUME NEW a, grpFailed' = grpFailed \/ grpFailed' = grpFailed \cup UndefinedIn(a),
              Describes(a, ValuesOf(r, Q))
       PROVE  Q = {} /\ ("dcount" \in grpFailed' => "dcount" \in grpFailed)
  <2>1. "dcount" \notin UndefinedIn(a) /\ (Q # {} => UndefinedIn(a) = {})
    BY ONLY <1>7, <1>10, FitsFinal
  <2> QED BY <1>10, <2>1
<1>11. Live \subseteq DOMAIN delivered /\ \A i \in DOMAIN delivered : delivered'[i] = delivered[i]
  BY <1>2 DEF LiveSmall
<1>12. CASE Announced(e)
  <2>1. e.kind = "new" /\ Live' = Live \cup {m}
    BY <1>2, <1>12 DEF Announced
  <2>2. GroupedElement(t, FALSE)
    BY <1>4, <2>1, PublishedTo
  <2>3. Q = P \cup {m}
    BY <1>2, <1>3, <1>4, <1>11, <2>1, LiveOfStep
  <2>4. k \in DOMAIN h /\ Describes(h[k].st, ValuesOf(r, Q))
    BY <1>8, <2>3 DEF OneGroup, Fits
  <2>5. Stepped(g, h, k, UpdatedGroup(g[k], t, FALSE)) /\ Entered(g, h, k, NewGroup(t))
    BY <1>3, <1>4, <2>2, GroupedNew
  <2>6. PICK w : w = IF k \in DOMAIN g THEN UpdatedGroup(g[k], t, FALSE) ELSE NewGroup(t)
    OBVIOUS
  <2>7. h[k] = w
    BY ONLY <2>4, <2>5, <2>6 DEF Stepped, Entered
  <2>8. grpFailed' = grpFailed \/ grpFailed' = grpFailed \cup UndefinedIn(w.st)
    BY <1>3, <1>4, <2>2, <2>6, GroupedAsked
  <2> QED BY <1>3, <1>4, <1>10, <2>4, <2>7, <2>8
<1>13. CASE \E p : Withdrawn(e, p)
  <2>0. PICK p : Withdrawn(e, p)
    BY <1>13
  <2>1. e.kind = "outdated" /\ p \in Live /\ (\A i \in Live : p <= i) /\ delivered[p].t = t /\ Live' = Live \ {p}
    BY <1>4, <2>0 DEF Withdrawn
  <2>2. GroupedElement(t, TRUE)
    BY <1>4, <2>1, PublishedTo
  <2>3. p \in P /\ (\A i \in P : p <= i) /\ Q = P \ {p} /\ t = s[p].t
    <3>1. p \in LiveOf(k)
      BY <1>4, <2>1 DEF LiveOf
    <3>2. Q = P \ {p}
      BY <1>3, <1>4, <1>11, <2>1, LiveOfStep
    <3> QED BY <1>3, <1>5, <2>1, <3>1, <3>2
  <2>4. k \in DOMAIN g /\ Describes(g[k].st, ValuesOf(s, P))
    BY <1>8, <2>3 DEF OneGroup, Fits
  <2>6. PICK u : u = UpdatedGroup(g[k], t, TRUE)
    OBVIOUS
  <2>7. Describes(u.st, ValuesOf(r, Q))
    BY ONLY <1>5, <1>6, <1>8, <1>9, <2>3, <2>6, GroupLoses, ZenonT(60)
  <2>8. grpFailed' = grpFailed \/ grpFailed' = grpFailed \cup UndefinedIn(u.st)
    BY <1>3, <1>4, <2>2, <2>4, <2>6, GroupedAsked
  <2> QED BY <1>3, <1>4, <1>10, <2>7, <2>8
<1>14. CASE Passed(e)
  <2>1. e.kind = "WindowExpired"
    BY <1>14 DEF Passed
  <2> QED BY <2>1, PublishedTo
<1> QED BY <1>1, <1>12, <1>13, <1>14

\* What UndefinedOnlyWhenEmpty says of a step.
FailInv == Plain => "dcount" \notin failed /\ "dcount" \notin grpFailed
EmptyWhenUndefined ==
    Plain' => /\ "dcount" \notin failed' \cup grpFailed'
              /\ failed' # failed => LiveVals' = <<>>
              /\ grpFailed' # grpFailed => LiveOf(GroupByFunc(Last(delivered).t))' = {}

LEMMA FailNext ==
  ASSUME WindowInv, LogInv, OrderInv, LiveSmall, LiveSmall', AggInv', GrpInv, GrpInv', FailInv, [Next]_vars
  PROVE  FailInv' /\ EmptyWhenUndefined
<1> SUFFICES ASSUME Plain'
             PROVE  /\ "dcount" \notin failed' /\ (failed' # failed => LiveVals' = <<>>)
                    /\ "dcount" \notin grpFailed'
                    /\ grpFailed' # grpFailed => LiveOf(GroupByFunc(Last(delivered).t))' = {}
  BY DEF FailInv, EmptyWhenUndefined
<1>1. Plain /\ "dcount" \notin failed /\ "dcount" \notin grpFailed
  BY PlainStep DEF FailInv
<1>2. PICK l, a, P, r : l = LiveVals' /\ a = agg' /\ P = Live' /\ r = delivered'
  OBVIOUS
<1>3. Describes(a, l) /\ l = ValuesOf(r, P)
  BY <1>2 DEF AggInv, Fits, LiveVals
<1>4. /\ P \in SUBSET Nat /\ IsFiniteSet(P) /\ TypedAt(r, P) /\ Cardinality(P) < UIntRange
  BY <1>2 DEF LiveSmall, TypedAt
<1>5. P = {} => l = <<>>
  BY <1>3, ValuesEmpty
<1>6. "dcount" \notin UndefinedIn(a) /\ (P # {} => UndefinedIn(a) = {})
  BY <1>3, <1>4, FitsFinal
<1>7. failed' = failed \/ failed' = failed \cup UndefinedIn(a)
  BY <1>2, FailedStep
<1>8. "dcount" \notin failed' /\ (failed' # failed => LiveVals' = <<>>)
  BY <1>1, <1>2, <1>5, <1>6, <1>7
<1>9. ASSUME grpFailed' # grpFailed
      PROVE  LiveOf(GroupByFunc(Last(delivered).t))' = {} /\ "dcount" \notin grpFailed'
  <2>1. PICK th \in Threads : Publish(th)
    BY <1>9, QuietStep
  <2>2. PICK e \in Element : e = Head(todo[th]) /\ delivered' = Append(delivered, e)
    BY <2>1, PublishParts
  <2>3. LiveOf(GroupByFunc(e.t))' = {} /\ ("dcount" \in grpFailed' => "dcount" \in grpFailed)
    BY <1>1, <1>9, <2>1, <2>2, GroupFailed
  <2>4. Last(delivered)' = e
    <3>1. delivered \in Seq(Element)
      BY DEF WindowInv, WindowType
    <3>2. PICK d, x : d \in Seq(Element) /\ d = delivered /\ x = delivered' /\ x = Append(d, e)
      BY <2>2, <3>1
    <3>3. x[Len(x)] = e
      BY ONLY <3>2, e \in Element, AppendProperties
    <3> QED BY <3>2, <3>3 DEF Last
  <2>5. LiveOf(GroupByFunc(Last(delivered).t))' = LiveOf(GroupByFunc(e.t))'
    BY <2>4
  <2> QED BY <1>1, <2>3, <2>5
<1> QED BY <1>1, <1>8, <1>9


\* The inductive invariant of the aggregations.
AggregationInv == LogInv /\ OrderInv /\ AggInv /\ GrpInv /\ EvictorInv /\ SlidesInv /\ FailInv

LEMMA AggregationInit == Init => AggregationInv
<1> SUFFICES ASSUME Init PROVE AggregationInv
  OBVIOUS
<1>0. /\ mTupleBuf = <<>> /\ arrived = 0 /\ pc = "idle" /\ delivered = <<>>
      /\ failed = {} /\ grpFailed = {} /\ trigger = "none"
      /\ agg = AggregateState_init /\ grp = [k \in {} |-> 0] /\ mCounter = 0 /\ slides = 0
      /\ \A th \in Threads : todo[th] = <<>>
  BY DEF Init
<1>1. DOMAIN delivered = {} /\ DOMAIN mTupleBuf = {} /\ DOMAIN grp = {}
      /\ \A th \in Threads : DOMAIN todo[th] = {}
  BY <1>0
<1>2. Live = {} /\ \A k : LiveOf(k) = {}
  BY <1>1 DEF Live, LiveOf
<1>3. LogInv
  <2>1. PICK h : h = [i \in 1 .. 0 |-> NoTuple]
    OBVIOUS
  <2>2. h \in [1 .. arrived -> Tuples]
    BY <1>0, <2>1
  <2>3. Logged(h)
    BY <1>0, <1>1, <2>2 DEF Logged, RecordedAll
  <2> QED BY <2>3 DEF LogInv
<1>4. OrderInv
  BY <1>1 DEF OrderInv, Ordered
<1>5. AggInv
  <2>1. ValuesOf(delivered, Live) = <<>>
    BY <1>2, ValuesEmpty
  <2> QED BY <1>0, <2>1, DescribesInit DEF AggInv, Fits
<1>6. GrpInv
  BY <1>1, <1>2 DEF GrpInv, OneGroup
<1>7. SlidesInv
  <2>1. NewAt = {}
    BY <1>1 DEF NewAt
  <2>2. Cardinality(NewAt) = 0
    BY <2>1, FS_EmptySet
  <2>3. 0 * Interval + 0 = 0
    BY SizeAssumption
  <2> QED BY <1>0, <2>2, <2>3 DEF SlidesInv, Since
<1>8. FailInv
  BY <1>0 DEF FailInv
<1>9. EvictorInv
  <2>1. "evict" \in Threads
    BY DEF Threads
  <2> QED BY <1>1, <2>1 DEF EvictorInv, Withdraws
<1> QED BY <1>3, <1>4, <1>5, <1>6, <1>7, <1>8, <1>9 DEF AggregationInv

LEMMA AggregationNext ==
  ASSUME WindowInv, LiveSmall, LiveSmall', AggregationInv, [Next]_vars
  PROVE  AggregationInv' /\ EmptyWhenUndefined
<1>1. LogInv' /\ OrderInv' /\ EvictorInv' /\ SlidesInv'
  BY LogNext, OrderNext, EvictorNext, SlidesNext DEF AggregationInv
<1>2. AggInv' /\ GrpInv'
  BY AggNext DEF AggregationInv
<1>3. FailInv' /\ EmptyWhenUndefined
  BY <1>2, FailNext DEF AggregationInv
<1> QED BY <1>1, <1>2, <1>3 DEF AggregationInv

LEMMA AggregationInvExact ==
  ASSUME LiveSmall, AggInv, GrpInv, SlidesInv
  PROVE  AggregationsExact
<1>1. ASSUME Plain, NEW P \in SUBSET Live
      PROVE  /\ P \in SUBSET Nat /\ IsFiniteSet(P) /\ (\A i \in P : delivered[i].t.val \in Values)
             /\ Cardinality(P) < UIntRange
  BY <1>1 DEF LiveSmall
<1>2. ASSUME Plain, NEW P \in SUBSET Live, NEW a, Fits(a, delivered, P), NEW l, l = ValuesOf(delivered, P)
      PROVE  /\ Len(l) = Cardinality(P)
             /\ LET v == AggregateState_finalize(a)
                    r == Reference(l)
                IN \A n \in DOMAIN r : v[n] = r[n]
  <2>1. PICK s : s = delivered
    OBVIOUS
  <2>2. /\ P \in SUBSET Nat /\ IsFiniteSet(P) /\ (\A i \in P : s[i].t.val \in Values)
        /\ Cardinality(P) < UIntRange
    BY <1>1, <1>2, <2>1
  <2>3. l \in Seq(Values) /\ Len(l) = Cardinality(P)
    BY <1>2, <2>1, <2>2, ValuesTyped
  <2>4. Describes(a, l)
    BY <1>2 DEF Fits
  <2>5. PICK v, r : v = AggregateState_finalize(a) /\ r = Reference(l)
    OBVIOUS
  <2>6. \A n \in DOMAIN r : v[n] = r[n]
    BY <2>2, <2>3, <2>4, <2>5, DescribesFinal
  <2> QED BY <2>3, <2>5, <2>6
<1>3. AggregatesExact
  BY <1>2 DEF AggregatesExact, AggInv, LiveVals
<1>4. GroupsExact
  <2> SUFFICES ASSUME Plain
               PROVE  /\ DOMAIN grp = {GroupByFunc(delivered[i].t) : i \in Live}
                      /\ \A k \in DOMAIN grp :
                            LET part == ValuesOf(delivered, LiveOf(k))
                                v == AggregateState_finalize(grp[k].st)
                                r == Reference(part)
                            IN /\ grp[k].mCounter = Len(part)
                               /\ \A n \in DOMAIN r : v[n] = r[n]
    BY DEF GroupsExact
  <2>1. \A k : OneGroup(grp, k, delivered, LiveOf(k))
    BY DEF GrpInv
  <2>2. \A k : k \in DOMAIN grp <=> \E i \in Live : GroupByFunc(delivered[i].t) = k
    BY <2>1 DEF OneGroup, LiveOf
  <2>3. DOMAIN grp = {GroupByFunc(delivered[i].t) : i \in Live}
    BY <2>2
  <2>4. ASSUME NEW k \in DOMAIN grp
        PROVE  LET part == ValuesOf(delivered, LiveOf(k))
                   v == AggregateState_finalize(grp[k].st)
                   r == Reference(part)
               IN /\ grp[k].mCounter = Len(part)
                  /\ \A n \in DOMAIN r : v[n] = r[n]
    <3>1. PICK P, a, l : P = LiveOf(k) /\ a = grp[k].st /\ l = ValuesOf(delivered, P)
      OBVIOUS
    <3>2. P \in SUBSET Live
      BY <3>1 DEF LiveOf
    <3>3. grp[k].mCounter = Cardinality(P) /\ Fits(a, delivered, P)
      BY <2>1, <2>4, <3>1 DEF OneGroup
    <3>4. /\ Len(l) = Cardinality(P)
          /\ LET v == AggregateState_finalize(a)
                 r == Reference(l)
             IN \A n \in DOMAIN r : v[n] = r[n]
      BY <1>2, <3>1, <3>2, <3>3
    <3> QED BY <3>1, <3>3, <3>4
  <2> QED BY <2>3, <2>4
<1>5. SlidesCounted
  BY DEF SlidesCounted, SlidesInv, NewAt, Since
<1> QED BY <1>3, <1>4, <1>5 DEF AggregationsExact

\* The invariant holds in every behaviour; the bound on the valid tuples that a
\* step needs before and after it follows from the other parts.
LEMMA AggregationAlways == Spec => [](WindowInv /\ AggregationInv /\ LiveSmall)
<1>1. Init => WindowInv /\ AggregationInv
  BY InitInv, AggregationInit
<1>2. WindowInv /\ [Next]_vars => WindowInv'
  BY NextInv
<1>3. WindowInv /\ AggregationInv => LiveSmall
  BY LiveStaysSmall DEF AggregationInv
<1>4. AggregationInv /\ WindowInv /\ [Next]_vars => LogInv' /\ OrderInv'
  BY LogNext, OrderNext DEF AggregationInv
<1>5. WindowInv /\ LogInv /\ OrderInv => LiveSmall
  BY LiveStaysSmall
<1>6. WindowInv /\ LiveSmall /\ LiveSmall' /\ AggregationInv /\ [Next]_vars => AggregationInv'
  BY AggregationNext
<1> QED BY <1>1, <1>2, <1>3, <1>4, <1>5, <1>6, PTL DEF Spec

\* Aggregation and GroupedAggregation behind a window, for any values, sizes and number
\* of tuples below the range of a counter (processDataElement, processNewAggregationGroup,
\* updateAggregationGroup, the iterate methods): sum, count, average, number of distinct
\* values, minimum and least recent value are at every moment those of the tuples that were
\* announced and not outdated, in their order; there is a group for exactly the keys
\* of these, with its number of tuples and their aggregates; and TriggerByCount has
\* announced one slide for every Interval new tuples, whatever the eviction thread publishes
\* between the release of the mutex, the callback and the reset of the counter.
THEOREM AggregationsStayExact == Spec => []AggregationsExact
<1>1. WindowInv /\ AggregationInv /\ LiveSmall => AggregationsExact
  BY AggregationInvExact DEF AggregationInv
<1> QED BY <1>1, AggregationAlways, PTL

\* The assertions of AggrDCount, AggrMinMax and AggrLRecent and the division of AggrAvg:
\* Aggregation meets none in a step after which a tuple is valid, GroupedAggregation none in
\* a step after which the group it publishes has a valid tuple, and AggrDCount's is never
\* met - the map of counters has an entry for every value that is outdated.
THEOREM UndefinedOnlyWhenNothingValid == Spec => UndefinedOnlyWhenEmpty
<1>1. WindowInv /\ LiveSmall /\ LiveSmall' /\ AggregationInv /\ [Next]_vars => EmptyWhenUndefined
  BY AggregationNext
<1> QED BY <1>1, AggregationAlways, PTL DEF Spec, UndefinedOnlyWhenEmpty, EmptyWhenUndefined
=============================================================================
