-------------------------------- MODULE Joins --------------------------------
(***************************************************************************)
(* The two stream joins.  SHJoin is one symmetric hash join whose two      *)
(* inputs are serialised by its mutex.  ScaleJoin is built by              *)
(* Pipe::scaleJoin: n instances without a mutex; the left stream reaches   *)
(* each instance through a queue with its own thread, the right stream     *)
(* calls the instances one after the other; every instance sees every      *)
(* element but stores only those whose turn, counted by the instance       *)
(* itself, is its own.                                                     *)
(*                                                                         *)
(* An element is a record of its key and its payload.  Hash tables are     *)
(* bags of elements; the result is kept as the net number of times a pair  *)
(* was published (published as new minus published as outdated).           *)
(***************************************************************************)
EXTENDS Integers, Sequences, SequencesExt

CONSTANTS JoinKinds,      \* the joins to run, of {"SHJoin", "ScaleJoin"}, or "none"
          LeftElements,   \* the elements of the left stream, records [key, val]
          RightElements,  \* the elements of the right stream
          Threads,        \* threadnum of Pipe::scaleJoin
          KeyWidth,       \* bits of a key, an unsigned integer (DefaultKeyType has 64)
          IntWidth,       \* bits of key_t, an int (32)
          MaxFeed         \* bound: elements fed to both inputs

VARIABLES join,       \* which join runs
          instances,  \* the join instances: hash tables and counters
          queues,     \* the left elements waiting in front of each instance
          rightCall,  \* the right element being published, and to which instance next
          live,       \* elements of each side that are new and not outdated yet, oldest first
          feeds,      \* number of elements fed so far
          twice,      \* elements that were live twice at the same time
          owners,     \* the instances whose turn it was to store an element
          met,        \* pairs stored by two instances, one fed while the other was still on its way
          net         \* net number of results per pair

joinVars == <<join, instances, queues, rightCall, live, feeds, twice, owners, met, net>>

Sides == {"left", "right"}
Elements(side) == IF side = "left" THEN LeftElements ELSE RightElements
Other(side) == IF side = "left" THEN "right" ELSE "left"
Pairs == LeftElements \X RightElements

\* The join predicate of the programs checked: the payloads differ.
mJoinPredicate(l, r) == l.val # r.val

Empty(side) == [e \in Elements(side) |-> 0]
NewInstance == [table |-> [left |-> Empty("left"), right |-> Empty("right")],
                cntr  |-> [s \in Sides |-> [o \in BOOLEAN |-> 0]]]

NoCall == [to |-> Threads, elem |-> CHOOSE e \in RightElements : TRUE, outdated |-> FALSE]

JoinsInit == /\ join \in JoinKinds
             /\ instances = [i \in 0 .. (IF join = "ScaleJoin" THEN Threads ELSE 1) - 1 |-> NewInstance]
             /\ queues = [i \in DOMAIN instances |-> <<>>]
             /\ rightCall = NoCall
             /\ live = [s \in Sides |-> <<>>]
             /\ feeds = 0
             /\ twice = {}
             /\ owners = [s \in Sides |-> [e \in Elements(s) |-> {}]]
             /\ met = {}
             /\ net = [p \in Pairs |-> 0]

----------------------------------------------------------------------------
\* Mutant of updateHashTable: an outdated element stays in the table.
updateHashTableKeeps(table, e, outdated) == IF outdated THEN table ELSE [table EXCEPT ![e] = @ + 1]

\* An outdated element removes every equal element of the table.
updateHashTable(table, e, outdated) ==
  [table EXCEPT ![e] = IF outdated THEN 0 ELSE @ + 1]

\* All attributes of the left element, then all of the right one.
joinElements(l, r) == <<l, r>>

\* The net change of the results when e of a side meets the elements of the
\* other table that are stored under its key.
joinStored(table, side, e, outdated, StoredKey(_)) ==
  [p \in Pairs |->
     LET theirs == IF side = "left" THEN p[2] ELSE p[1]
         joined == IF side = "left" THEN joinElements(e, theirs) ELSE joinElements(theirs, e)
     IN IF p = joined /\ StoredKey(theirs.key) = e.key /\ mJoinPredicate(p[1], p[2])
        THEN (IF outdated THEN -1 ELSE 1) * table[theirs]
        ELSE 0]

joinTuples(table, side, e, outdated) == joinStored(table, side, e, outdated, LAMBDA k : k)

\* ScaleJoin keeps its own copy of both helpers.  Its updateHashTable takes
\* the key as a key_t: it is cut to an int and stored as what the int is as a
\* key again.  The handlers look up with the key itself.
key_t(k) ==
  LET low == k % 2 ^ IntWidth
  IN IF low < 2 ^ (IntWidth - 1) THEN low ELSE low - 2 ^ IntWidth + 2 ^ KeyWidth
ScaleJoin_updateHashTable(table, e, outdated) == updateHashTable(table, e, outdated)
ScaleJoin_joinTuples(table, side, e, outdated) == joinStored(table, side, e, outdated, key_t)

Add(n, d) == [p \in Pairs |-> n[p] + d[p]]

\* SHJoin::processLeftDataElement and processRightDataElement, under mMtx.
processElement(side, e, outdated) ==
  LET j == instances[0]
  IN /\ instances' = [instances EXCEPT ![0].table[side] = updateHashTable(@, e, outdated)]
     /\ net' = Add(net, joinTuples(j.table[Other(side)], side, e, outdated))

\* Mutant of scaleElement: the counters of new and outdated elements are one.
scaleElementOneCounter(i, side, e, outdated) ==
  LET j == instances[i]
      mine == j.cntr[side][FALSE] = i
  IN /\ instances' = [instances EXCEPT
          ![i].table[side] = IF mine THEN ScaleJoin_updateHashTable(@, e, outdated) ELSE @,
          ![i].cntr[side][FALSE] = (@ + 1) % Threads]
     /\ net' = Add(net, ScaleJoin_joinTuples(j.table[Other(side)], side, e, outdated))

\* ScaleJoin's handlers: the instance whose turn it is stores or removes the
\* element, every instance joins it with what it stored of the other side.
scaleElement(i, side, e, outdated) ==
  LET j == instances[i]
      mine == j.cntr[side][outdated] = i
  IN /\ instances' = [instances EXCEPT
          ![i].table[side] = IF mine THEN ScaleJoin_updateHashTable(@, e, outdated) ELSE @,
          ![i].cntr[side][outdated] = (@ + 1) % Threads]
     /\ net' = Add(net, ScaleJoin_joinTuples(j.table[Other(side)], side, e, outdated))

----------------------------------------------------------------------------
OnTheWay == rightCall.to < Threads \/ \E i \in DOMAIN queues : queues[i] # <<>>

\* The elements of a side that some instance has not processed yet.
InFlight(side) ==
  IF side = "right" THEN {rightCall.elem : i \in rightCall.to .. Threads - 1}
  ELSE UNION {{queues[i][k].elem : k \in DOMAIN queues[i]} : i \in DOMAIN queues}

\* The instance that will store the next new element of a side: the counter of
\* instance 0 after everything on its way has arrived.
Turn(side) ==
  LET pending == IF side = "right" THEN 0
                 ELSE Len(SelectSeq(queues[0], LAMBDA q : ~ q.outdated))
  IN (instances[0].cntr[side][FALSE] + pending) % Cardinality(DOMAIN instances)

Pair(side, e, o) == IF side = "left" THEN <<e, o>> ELSE <<o, e>>

\* Bookkeeping of an element handed to an input: what is live, what was live
\* twice, who stores it, and which pairs met on the way to two instances.
Track(side, e, outdated) ==
  /\ live' = [live EXCEPT ![side] =
        IF outdated THEN RemoveFirst(@, e) ELSE Append(@, e)]
  /\ feeds' = feeds + 1
  /\ twice' = IF ~outdated /\ Contains(live[side], e)
              THEN twice \union {<<side, e>>} ELSE twice
  /\ owners' = IF outdated THEN owners ELSE [owners EXCEPT ![side][e] = @ \union {Turn(side)}]
  /\ met' = met \union
       {Pair(side, e, o) : o \in
          {x \in InFlight(Other(side)) : Cardinality(owners'[side][e] \union owners[Other(side)][x]) > 1}}

\* What a stream hands on: a new element, or a live one as outdated; in front
\* of ScaleJoin the oldest one, the order in which windows outdate.
Feed(side, e, outdated) ==
  /\ feeds < MaxFeed
  /\ outdated => /\ Contains(live[side], e)
                 /\ join = "ScaleJoin" => e = live[side][1]

\* SHJoin: the element is processed before publish returns.
FeedSHJoin(side, e, outdated) ==
  /\ join = "SHJoin"
  /\ Feed(side, e, outdated)
  /\ Track(side, e, outdated)
  /\ processElement(side, e, outdated)
  /\ UNCHANGED <<join, queues, rightCall>>

\* ScaleJoin, left: the element is appended to the queue of every instance.
FeedLeft(e, outdated) ==
  /\ join = "ScaleJoin"
  /\ Feed("left", e, outdated)
  /\ Track("left", e, outdated)
  /\ queues' = [i \in DOMAIN queues |-> Append(queues[i], [elem |-> e, outdated |-> outdated])]
  /\ UNCHANGED <<join, instances, rightCall, net>>

\* The thread of queue i hands its head to instance i.
Dequeue(i) ==
  /\ join = "ScaleJoin" /\ i \in DOMAIN queues
  /\ queues[i] # <<>>
  /\ scaleElement(i, "left", Head(queues[i]).elem, Head(queues[i]).outdated)
  /\ queues' = [queues EXCEPT ![i] = Tail(@)]
  /\ UNCHANGED <<join, rightCall, live, feeds, twice, owners, met>>

\* ScaleJoin, right: publish calls instance after instance.
FeedRight(e, outdated) ==
  /\ join = "ScaleJoin"
  /\ rightCall.to = Threads
  /\ Feed("right", e, outdated)
  /\ Track("right", e, outdated)
  /\ rightCall' = [to |-> 0, elem |-> e, outdated |-> outdated]
  /\ UNCHANGED <<join, instances, queues, net>>

CallRight ==
  /\ join = "ScaleJoin"
  /\ rightCall.to < Threads
  /\ scaleElement(rightCall.to, "right", rightCall.elem, rightCall.outdated)
  /\ rightCall' = [rightCall EXCEPT !.to = @ + 1]
  /\ UNCHANGED <<join, queues, live, feeds, twice, owners, met>>

JoinsNext ==
  \/ \E side \in Sides, outdated \in BOOLEAN : \E e \in Elements(side) : FeedSHJoin(side, e, outdated)
  \/ \E e \in LeftElements, outdated \in BOOLEAN : FeedLeft(e, outdated)
  \/ \E e \in RightElements, outdated \in BOOLEAN : FeedRight(e, outdated)
  \/ \E i \in 0 .. Threads - 1 : Dequeue(i)
  \/ CallRight

----------------------------------------------------------------------------
LiveCount(side, e) == Cardinality({k \in DOMAIN live[side] : live[side][k] = e})

\* A join publishes exactly the join of what is live: when all elements have
\* arrived, the results published as new and not retracted are the matching
\* pairs of live elements, in whatever order the instances met the elements.
\* It may be wrong about a pair only if one of its elements was live twice at
\* the same time (the first outdated copy removes both from the hash table)
\* or, for ScaleJoin, if two instances store them and one was fed while the
\* other was on its way (then the pair is lost or doubled), or if a key does
\* not survive the conversion to key_t.
JoinExact ==
  ~OnTheWay =>
    \A p \in Pairs \ met :
      /\ <<"left", p[1]>> \notin twice /\ <<"right", p[2]>> \notin twice
      /\ join = "ScaleJoin" => key_t(p[1].key) = p[1].key /\ key_t(p[2].key) = p[2].key
      => net[p] = IF p[1].key = p[2].key /\ mJoinPredicate(p[1], p[2])
                  THEN LiveCount("left", p[1]) * LiveCount("right", p[2]) ELSE 0

\* What the instances store is disjoint and complete: an element that is live
\* once is in the hash table of exactly one instance, whatever the order in
\* which the instances met it, and an outdated one is in none.
StoredOnce ==
  ~OnTheWay =>
    \A side \in Sides : \A e \in Elements(side) :
      <<side, e>> \notin twice =>
        Cardinality({i \in DOMAIN instances : instances[i].table[side][e] # 0}) = LiveCount(side, e)
=============================================================================
