------------------------- MODULE WindowAggregation --------------------------
(***************************************************************************)
(* A window (SlidingWindow or TumblingWindow) and the two operators that   *)
(* subscribe to it, Aggregation and GroupedAggregation.  The source's      *)
(* thread runs processDataElement of the window; the EvictionNotifier of a *)
(* sliding window and the TriggerNotifier of an aggregation are threads of *)
(* their own.                                                              *)
(*                                                                         *)
(* publish calls the subscribers in the publishing thread.  A thread that  *)
(* evicts several tuples publishes them one by one, which the other        *)
(* threads can interleave.  What a subscriber does with an element under   *)
(* its own mutex is one step; what Aggregation does after it released the  *)
(* mutex for a trigger that fires - the callback, the punctuation and the  *)
(* reset of its counter - are steps of the publishing thread.  Two         *)
(* subscribers of one window take an element in the same step, since no    *)
(* property speaks of the state of both.                                   *)
(***************************************************************************)
EXTENDS Aggregates

CONSTANTS
    Configs,       \* the kinds of window and of trigger, see Config
    Values, MaxTime,
    WinSize,       \* mWinSize of the window, tuples or time
    Interval,      \* mTriggerInterval of the aggregations
    MaxTuples,     \* bound: tuples of the source
    MaxForwarded   \* bound: elements that arrive outdated

\* The constructors: the windows and triggers there are.  Only a sliding window
\* takes an eviction interval, and its thread then evicts by time.
SlidingWindow ==
    [win: {"SlidingRow"}, thread: {FALSE}, func: BOOLEAN] \cup
    [win: {"SlidingRange"}, thread: BOOLEAN, func: BOOLEAN]
TumblingWindow == [win: {"TumblingRow", "TumblingRange"}, thread: {FALSE}, func: BOOLEAN]
Aggregation == [agg: {"TriggerAll", "TriggerByCount", "TriggerByTime"}]
AggregationByTimestamp == [agg: {"TriggerByTimestamp"}]
GroupedAggregation == [grp: {"TriggerAll", "TriggerByCount", "TriggerByTime"}]
GroupedAggregationByTimestamp == [grp: {"TriggerByTimestamp"}]
Config == {[win |-> w.win, thread |-> w.thread, func |-> w.func, agg |-> a.agg, grp |-> g.grp] :
              w \in SlidingWindow \cup TumblingWindow,
              a \in Aggregation \cup AggregationByTimestamp,
              g \in GroupedAggregation \cup GroupedAggregationByTimestamp}

ASSUME ConfigAssumption == Configs \subseteq Config
ASSUME SizeAssumption ==
    /\ WinSize \in Nat \ {0} /\ Interval \in Nat \ {0}
    /\ MaxTuples \in Nat /\ MaxForwarded \in Nat /\ MaxTime \in Nat
    /\ Values \subseteq Nat
\* The counters of the aggregates do not overflow, and no map of counters, no
\* list of values and no number is taken for a failed assertion.
ASSUME RangeAssumption ==
    /\ MaxTuples < UIntRange
    /\ Undefined \notin Int /\ \A S \in SUBSET Values : Undefined \notin [S -> 0 .. UIntRange - 1]
    /\ \A n \in 0 .. UIntRange - 1 : Undefined \notin [1 .. n -> Values]

VARIABLES
    conf,
    mTupleBuf, mCurrSize,
    mMtx,            \* the thread that holds the window's mutex, or "none"
    pc, data,        \* the source's thread and the tuple it brings
    todo,            \* what a thread has still to publish before it goes on
    arrived, forwarded,
    agg, mCounter, mLastTriggerTime, slides,
    trigger,         \* what a trigger that fired has still to do, without aggrMtx
    grp, grpCounter,
    grpThread,       \* "ok", or why a call into GroupedAggregation never returns
    grpFailed,       \* functions of a group whose value was asked for and undefined
    failed,          \* functions of agg whose value was asked for and undefined
    delivered        \* all that the window published

windowVars == <<mTupleBuf, mCurrSize, mMtx>>
sourceVars == <<pc, data, arrived, forwarded>>
aggVars == <<agg, mCounter, mLastTriggerTime, slides, trigger>>
grpVars == <<grp, grpCounter, grpThread, grpFailed>>
vars == <<conf, windowVars, sourceVars, todo, aggVars, grpVars, failed, delivered>>

Threads == {"source", "evict"}
Tuples == [id: 1 .. MaxTuples, val: Values, ts: 0 .. MaxTime]
NoTuple == [id |-> 0, val |-> 0, ts |-> 0]
New(t) == [kind |-> "new", t |-> t]
Old(t) == [kind |-> "outdated", t |-> t]
WindowExpired == [kind |-> "WindowExpired", t |-> NoTuple]

\* mGroupByFunc, and a mWindowOpFunc that counts the window.
GroupByFunc(t) == t.val % 2
WindowOpFunc(buf, t) == [t EXCEPT !.val = Len(buf)]

Init ==
    /\ conf \in Configs
    /\ mTupleBuf = <<>> /\ mCurrSize = 0 /\ mMtx = "none"
    /\ pc = "idle" /\ data = NoTuple /\ arrived = 0 /\ forwarded = {}
    /\ todo = [th \in Threads |-> <<>>]
    /\ agg = AggregateState_init
    /\ mCounter = 0 /\ mLastTriggerTime = 0 /\ slides = 0 /\ trigger = "none"
    /\ grp = [k \in {} |-> 0] /\ grpCounter = 0 /\ grpThread = "ok" /\ grpFailed = {}
    /\ failed = {}
    /\ delivered = <<>>

-----------------------------------------------------------------------------
(* The window.                                                             *)

\* How many tuples eviction takes from the front.  By time they are compared
\* with the youngest one, if its time is large enough to subtract from.
Late(buf, i) ==
    LET last == buf[Len(buf)].ts IN last >= WinSize /\ buf[i].ts <= last - WinSize

SlidingByCount(buf) == IF mCurrSize > WinSize THEN mCurrSize - WinSize ELSE 0
SlidingByTime(buf) ==
    Max({n \in 0 .. Len(buf) : \A i \in 1 .. n : Late(buf, i)})
TumblingByCount(buf) == IF mCurrSize = WinSize THEN Len(buf) ELSE 0

\* Mutants of TumblingByTime: the youngest tuple is evicted too; only the late
\* tuples are evicted.
TumblingAll(buf) == IF Late(buf, 1) THEN Len(buf) ELSE 0
TumblingLate(buf) == SlidingByTime(buf)
TumblingByTime(buf) == IF Late(buf, 1) THEN Len(buf) - 1 ELSE 0

\* setupEviction: mEvictFun.
Expired(buf) ==
    CASE conf.win = "SlidingRow" -> SlidingByCount(buf)
      [] conf.win = "SlidingRange" -> SlidingByTime(buf)
      [] conf.win = "TumblingRow" -> TumblingByCount(buf)
      [] conf.win = "TumblingRange" -> TumblingByTime(buf)

\* What an eviction of k tuples publishes.
\* Mutant of Outdated: the last one is forgotten.
OutdatedButLast(k) == [i \in 1 .. k - 1 |-> Old(mTupleBuf[i])]
Outdated(k) == [i \in 1 .. k |-> Old(mTupleBuf[i])]

Tumbling == conf.win \in {"TumblingRow", "TumblingRange"}

\* The counter of the window after an eviction of k tuples.
\* Mutants of SizeAfter: every tuple is counted down twice; a tumbling window
\* goes on counting.
SizeAfterTwice(k) == mCurrSize - 2 * k
SizeAfterNoReset(k) == IF Tumbling THEN mCurrSize ELSE mCurrSize - k
SizeAfter(k) == CASE ~Tumbling -> mCurrSize - k
                  [] Tumbling /\ k = 0 -> mCurrSize
                  [] Tumbling /\ k > 0 -> IF conf.win = "TumblingRow" THEN 0 ELSE 1

\* evictByCount and evictByTime: one pass over the buffer under the mutex,
\* which is held until the last of the outdated tuples is published.
Evict(th) ==
    LET k == Expired(mTupleBuf)
    IN /\ mMtx = "none"
       /\ mTupleBuf' = SubSeq(mTupleBuf, k + 1, Len(mTupleBuf))
       /\ mCurrSize' = SizeAfter(k)
       /\ todo' = [todo EXCEPT ![th] = Outdated(k) \o
                       IF Tumbling /\ k > 0 THEN <<WindowExpired>> ELSE <<>>]
       /\ mMtx' = IF k > 0 THEN th ELSE "none"

\* A tumbling window with a function publishes before it evicts.
EvictsLast == conf.func /\ Tumbling

\* The source's thread has returned from its last publish.
Returned == todo["source"] = <<>> /\ trigger = "none"

\* processDataElement, a new tuple: insert it into the buffer.
Arrive(val, ts) ==
    /\ pc = "idle" /\ Returned /\ mMtx = "none" /\ arrived < MaxTuples
    /\ arrived' = arrived + 1
    /\ data' = [id |-> arrived + 1, val |-> val, ts |-> ts]
    /\ mTupleBuf' = Append(mTupleBuf, data')
    /\ mCurrSize' = mCurrSize + 1
    /\ pc' = IF conf.thread \/ EvictsLast THEN "publish" ELSE "evict"
    /\ UNCHANGED <<conf, mMtx, forwarded, todo, aggVars, grpVars, failed, delivered>>

\* processDataElement, an outdated tuple: it is passed on as it is.
ArriveOutdated(t) ==
    /\ pc = "idle" /\ Returned /\ Cardinality(forwarded) < MaxForwarded
    /\ t.id \notin forwarded
    /\ forwarded' = forwarded \cup {t.id}
    /\ todo' = [todo EXCEPT !["source"] = <<Old(t)>>]
    /\ UNCHANGED <<conf, windowVars, pc, data, arrived, aggVars, grpVars, failed, delivered>>

\* processDataElement without eviction thread: mEvictFun().
EvictByArrival ==
    /\ pc = "evict" /\ Returned
    /\ Evict("source")
    /\ pc' = IF EvictsLast THEN "idle" ELSE "publish"
    /\ UNCHANGED <<conf, data, arrived, forwarded, aggVars, grpVars, failed, delivered>>

\* processDataElement: forward the incoming tuple, or what the window
\* function makes of it.
PublishNew ==
    /\ pc = "publish" /\ Returned
    /\ todo' = [todo EXCEPT !["source"] =
                   <<New(IF conf.func THEN WindowOpFunc(mTupleBuf, data) ELSE data)>>]
    /\ pc' = IF EvictsLast THEN "evict" ELSE "idle"
    /\ UNCHANGED <<conf, windowVars, data, arrived, forwarded, aggVars, grpVars,
                   failed, delivered>>

\* The EvictionNotifier's thread.  It reads back() of the buffer, which is
\* undefined for an empty one: what comes of it is taken to be no eviction.
\* Mutant of EvictionThread: it waits for more tuples than the window's size.
EvictionThreadByCount ==
    /\ conf.thread /\ todo["evict"] = <<>>
    /\ Len(mTupleBuf) > WinSize
    /\ Evict("evict")
    /\ UNCHANGED <<conf, sourceVars, aggVars, grpVars, failed, delivered>>
EvictionThread ==
    /\ conf.thread /\ todo["evict"] = <<>>
    /\ mTupleBuf # <<>>
    /\ Evict("evict")
    /\ UNCHANGED <<conf, sourceVars, aggVars, grpVars, failed, delivered>>

-----------------------------------------------------------------------------
(* The subscribers.                                                        *)

\* The functions of an aggregate that have no value.
UndefinedIn(a) ==
    UNION {{f \in DOMAIN v : v[f] = Undefined} :
              v \in {Aggregator2_finalize(a[2]), Aggregator3_finalize(a[3])}}

\* The triggers look at new tuples only.
\* Mutant of Fires: the counter is compared before it is incremented.
FiresLate(t) ==
    CASE conf.agg = "TriggerByCount" -> mCounter = Interval
      [] conf.agg = "TriggerByTimestamp" -> t.ts - mLastTriggerTime >= Interval
      [] OTHER -> FALSE
Fires(t) ==
    CASE conf.agg = "TriggerByCount" -> mCounter + 1 = Interval
      [] conf.agg = "TriggerByTimestamp" -> t.ts - mLastTriggerTime >= Interval
      [] OTHER -> FALSE

\* Aggregation::processDataElement, under aggrMtx.  TriggerAll publishes the
\* aggregate for every tuple, the others for an outdated one; a trigger that
\* fires releases the mutex before it goes on.
AggregationElement(t, outdated) ==
    LET a == AggregateState_iterate(agg, t.val, outdated)
    IN /\ agg' = a
       /\ mCounter' = IF ~outdated /\ conf.agg = "TriggerByCount" THEN mCounter + 1 ELSE mCounter
       /\ trigger' = IF ~outdated /\ Fires(t) THEN "produce" ELSE trigger
       /\ failed' = failed \cup
             IF outdated \/ conf.agg = "TriggerAll" THEN UndefinedIn(a) ELSE {}
       /\ UNCHANGED <<mLastTriggerTime, slides>>

\* notificationCallback, called by a trigger that fired: produceAggregates, which
\* locks the mutex again, then the SlideExpired.
ProduceAggregates ==
    /\ trigger = "produce" /\ trigger' = "slide"
    /\ failed' = failed \cup UndefinedIn(agg)
    /\ UNCHANGED <<conf, windowVars, sourceVars, todo, agg, mCounter, mLastTriggerTime, slides,
                   grpVars, delivered>>
SlideExpired ==
    /\ trigger = "slide" /\ trigger' = "reset"
    /\ slides' = slides + 1
    /\ UNCHANGED <<conf, windowVars, sourceVars, todo, agg, mCounter, mLastTriggerTime,
                   grpVars, failed, delivered>>

\* The last assignment of processDataElement, without the mutex.  The element's
\* time is that of the tuple the source brought.
\* Mutant of ResetTrigger: the counter is not reset.
ResetTriggerTime ==
    /\ trigger = "reset" /\ trigger' = "none"
    /\ mLastTriggerTime' = IF conf.agg = "TriggerByTimestamp" THEN data.ts ELSE mLastTriggerTime
    /\ UNCHANGED <<conf, windowVars, sourceVars, todo, agg, mCounter, slides, grpVars, failed, delivered>>
ResetTrigger ==
    /\ trigger = "reset" /\ trigger' = "none"
    /\ mCounter' = IF conf.agg = "TriggerByCount" THEN 0 ELSE mCounter
    /\ mLastTriggerTime' = IF conf.agg = "TriggerByTimestamp" THEN data.ts ELSE mLastTriggerTime
    /\ UNCHANGED <<conf, windowVars, sourceVars, todo, agg, slides, grpVars, failed, delivered>>

\* processNewAggregationGroup.  The counter of a state starts at 1.
NewGroup(t) == [mCounter |-> 1, st |-> AggregateState_iterate(AggregateState_init, t.val, FALSE)]

\* updateAggregationGroup, before a group without tuples is erased.
\* Mutant of UpdatedGroup: outdated tuples are not counted.
UpdatedGroupNoCount(g, t, outdated) ==
    [mCounter |-> IF outdated THEN g.mCounter ELSE Step(g.mCounter, FALSE),
     st |-> AggregateState_iterate(g.st, t.val, outdated)]
UpdatedGroup(g, t, outdated) ==
    [mCounter |-> Step(g.mCounter, outdated), st |-> AggregateState_iterate(g.st, t.val, outdated)]

\* GroupedAggregation::processDataElement.  TriggerAll publishes the aggregate of
\* the tuple's group, of a group that lost its last tuple too before it is erased.
\* Its other triggers count outdated tuples too; notificationCallback locks the
\* mutex that is already held.
GroupedElement(t, outdated) ==
    LET k == GroupByFunc(t)
        known == k \in DOMAIN grp
        g == IF known THEN UpdatedGroup(grp[k], t, outdated) ELSE NewGroup(t)
    IN /\ grpThread = "ok"
       /\ grp' = CASE ~known /\ outdated -> grp
                   [] known /\ g.mCounter = 0 -> Erase(grp, k)
                   [] OTHER -> [x \in DOMAIN grp \cup {k} |-> IF x = k THEN g ELSE grp[x]]
       /\ grpCounter' = IF conf.grp = "TriggerByCount" THEN grpCounter + 1 ELSE grpCounter
       /\ grpThread' = CASE conf.grp = "TriggerByCount" /\ grpCounter + 1 = Interval -> "locks twice"
                         [] conf.grp = "TriggerByTimestamp" -> "bad_get"
                         [] OTHER -> "ok"
       /\ grpFailed' = grpFailed \cup
             IF conf.grp = "TriggerAll" /\ (known \/ ~outdated) THEN UndefinedIn(g.st) ELSE {}

\* The mutex is released after the last element of an eviction.
Release(th) == mMtx' = IF mMtx = th /\ Len(todo[th]) = 1 THEN "none" ELSE mMtx

\* One publish of the window, in the thread th.
Publish(th) ==
    /\ todo[th] # <<>> /\ (th = "source" => trigger = "none")
    /\ LET e == Head(todo[th])
       IN /\ delivered' = Append(delivered, e)
          /\ IF e.kind = "WindowExpired" THEN UNCHANGED <<aggVars, grpVars, failed>>
             ELSE /\ AggregationElement(e.t, e.kind = "outdated")
                  /\ GroupedElement(e.t, e.kind = "outdated")
    /\ todo' = [todo EXCEPT ![th] = Tail(@)]
    /\ Release(th)
    /\ UNCHANGED <<conf, mTupleBuf, mCurrSize, sourceVars>>

\* The TriggerNotifier's thread: notificationCallback, produceAggregates.
TriggerNotifier ==
    /\ conf.agg = "TriggerByTime"
    /\ failed' = failed \cup UndefinedIn(agg)
    /\ UNCHANGED <<conf, windowVars, sourceVars, todo, aggVars, grpVars, delivered>>

Next ==
    \/ \E val \in Values, ts \in 0 .. MaxTime : Arrive(val, ts)
    \/ \E i \in DOMAIN delivered : /\ delivered[i].kind = "new"
                                   /\ ArriveOutdated(delivered[i].t)
    \/ EvictByArrival
    \/ PublishNew
    \/ EvictionThread
    \/ \E th \in Threads : Publish(th)
    \/ ProduceAggregates
    \/ SlideExpired
    \/ ResetTrigger
    \/ TriggerNotifier

Spec == Init /\ [][Next]_vars

\* The threads go on until they block; the source need not bring tuples.
FairSpec ==
    /\ Spec
    /\ WF_vars(EvictByArrival \/ PublishNew \/ Publish("source")
                  \/ ProduceAggregates \/ SlideExpired \/ ResetTrigger)
    /\ WF_vars(EvictionThread \/ Publish("evict"))

-----------------------------------------------------------------------------
(* Properties.                                                             *)

TypeOK ==
    /\ conf \in Configs
    /\ mTupleBuf \in Seq(Tuples) /\ mCurrSize \in 0 .. MaxTuples
    /\ mMtx \in Threads \cup {"none"}
    /\ pc \in {"idle", "evict", "publish"}
    /\ \A th \in Threads : Len(todo[th]) <= MaxTuples + 1
    /\ trigger \in {"none", "produce", "slide", "reset"}
    /\ grpThread \in {"ok", "locks twice", "bad_get"}

Ids(kind) == {delivered[i].t.id : i \in {j \in DOMAIN delivered : delivered[j].kind = kind}}
\* What the subscribers take to be in the window, and where it was announced;
\* of a group; and the values of s at some positions, in their order.
LiveIds == Ids("new") \ Ids("outdated")
Live == LET old == Ids("outdated")
        IN {i \in DOMAIN delivered : delivered[i].kind = "new" /\ delivered[i].t.id \notin old}
LiveOf(k) == {i \in Live : GroupByFunc(delivered[i].t) = k}
Rank(P, i) == Cardinality({j \in P : j < i})
Nth(P, n) == CHOOSE i \in P : Rank(P, i) = n - 1
ValuesOf(s, P) == [n \in 1 .. Cardinality(P) |-> s[Nth(P, n)].t.val]
LiveVals == ValuesOf(delivered, Live)
AtRest == pc = "idle" /\ \A th \in Threads : todo[th] = <<>>

\* Nothing arrived outdated, and no new tuple differs from the one in the
\* buffer, or is announced after it was outdated.
Plain == forwarded = {} /\ ~conf.func /\ conf.win # "TumblingRow"

\* The counter of the window is the length of its list, and no eviction
\* leaves an expired tuple at the front.
WindowBounded ==
    /\ mCurrSize = Len(mTupleBuf)
    /\ (AtRest /\ mTupleBuf # <<>> /\ ~conf.thread) => Expired(mTupleBuf) = 0

\* Between two calls the subscribers know exactly the window's tuples.
WindowDelivered ==
    (AtRest /\ forwarded = {}) =>
        {mTupleBuf[i].id : i \in DOMAIN mTupleBuf} = LiveIds

\* A tuple is outdated once, after it was announced; only the tuple that
\* fills a tumbling window of rows is announced after it was outdated.
OutdatedFollowsNew ==
    forwarded = {} =>
        \A i \in DOMAIN delivered : delivered[i].kind = "outdated" =>
            /\ \A j \in 1 .. i - 1 : delivered[j] # delivered[i]
            /\ \/ \E j \in 1 .. i - 1 : /\ delivered[j].kind = "new"
                                        /\ delivered[j].t.id = delivered[i].t.id
               \/ /\ conf.win = "TumblingRow" /\ ~conf.func
                  /\ delivered[i].t.id % WinSize = 0

\* After WindowExpired no tuple of the expired window is left; the one whose
\* time ended it, and with it the next window begins, is the youngest.
ExpiredIsEmpty ==
    (forwarded = {} /\ delivered # <<>> /\ Last(delivered) = WindowExpired) =>
        \A x \in LiveIds : conf.win = "TumblingRange" /\ \A y \in Ids("new") : y <= x

\* The incremental aggregates have the values their definitions give for the
\* tuples that are valid, at every moment.
AggregatesExact ==
    Plain => LET v == AggregateState_finalize(agg)
                 r == Reference(LiveVals)
             IN \A n \in DOMAIN r : v[n] = r[n]

\* There is a group for exactly the keys of the valid tuples, it counts them,
\* and its aggregates are those of the group's tuples.
GroupsExact ==
    Plain => /\ DOMAIN grp = {GroupByFunc(delivered[i].t) : i \in Live}
             /\ \A k \in DOMAIN grp :
                   LET part == ValuesOf(delivered, LiveOf(k))
                       v == AggregateState_finalize(grp[k].st)
                       r == Reference(part)
                   IN /\ grp[k].mCounter = Len(part)
                      /\ \A n \in DOMAIN r : v[n] = r[n]

\* TriggerByCount announces a slide for every Interval new tuples, whatever the
\* eviction thread publishes between the release of the mutex, the slide and the
\* reset of the counter.
SlidesCounted ==
    conf.agg = "TriggerByCount" =>
        slides * Interval + (IF trigger = "reset" THEN 0 ELSE mCounter)
            = Cardinality({i \in DOMAIN delivered : delivered[i].kind = "new"})

\* Every tuple that arrived is announced in the end, and no tuple stays
\* expired in the window, with an eviction thread even if no further tuple
\* arrives.
EvictionHappens ==
    []<>(/\ arrived = Cardinality({i \in DOMAIN delivered : delivered[i].kind = "new"})
         /\ mTupleBuf = <<>> \/ Expired(mTupleBuf) = 0)

\* The assertions in AggrMinMax, AggrLRecent and AggrDCount and the division
\* in AggrAvg.  Aggregation asks for a value that does not exist only when no tuple
\* is valid - by an eviction that comes before the arriving tuple, or by the
\* notifier's thread; GroupedAggregation only for the group of the element just
\* delivered, when it was the group's last one, whatever other groups there are;
\* and AggrDCount's assertion never fails.
UndefinedOnlyWhenEmpty ==
    [][Plain' => /\ "dcount" \notin failed' \cup grpFailed'
                 /\ failed' # failed => LiveVals' = <<>>
                 /\ grpFailed' # grpFailed => LiveOf(GroupByFunc(Last(delivered).t))' = {}]_vars

\* The windows as a whole (processDataElement, evictByCount, evictByTime of both): the
\* buffer is bounded, the subscribers know it, every tuple is announced and outdated
\* once and in this order with the one exception named above, and a tumbling window
\* is empty when it expires - with the eviction thread between any two publishes.
WindowExact == TypeOK /\ WindowBounded /\ WindowDelivered /\ OutdatedFollowsNew /\ ExpiredIsEmpty

\* The aggregations behind a window: at every moment the incremental values, those of
\* the groups, and the number of slides are the ones their definitions give
\* (processDataElement of Aggregation and GroupedAggregation).
AggregationsExact == AggregatesExact /\ GroupsExact /\ SlidesCounted
=============================================================================
