--------------------------- MODULE TupleHeap_proofs ----------------------------
(***************************************************************************)
(* The reference counters of tuples are right, for any number of objects,   *)
(* as many pointers as a short has values (TuplesAssumption) and whatever   *)
(* the byte format of tuples is.                                            *)
(***************************************************************************)
EXTENDS TupleHeap, FiniteSetTheorems, TLAPS

CONSTANTS Serialized(_), Deserialized(_)    \* the byte format

HeapSpec == TuplesInit /\ [][HeapNext(Serialized, Deserialized)]_tupleVars

----------------------------------------------------------------------------
Addresses == Objects \union {Null}

IsTuple(t) ==
    /\ t = [live |-> t.live, data |-> t.data, nulls |-> t.nulls, mRefCnt |-> t.mRefCnt, made |-> t.made]
    /\ t.live \in BOOLEAN /\ t.mRefCnt \in Int

HeapType ==
    /\ heap = [o \in Objects |-> heap[o]] /\ \A o \in Objects : IsTuple(heap[o])
    /\ ptrs \in [Pointers -> Addresses] /\ dying \in [Pointers -> Addresses]
    /\ spoiled \in BOOLEAN

\* A thread that is about to delete a tuple has given up its pointer.
ReleasedInv == \A p \in Pointers : ptrs[p] # Null => dying[p] = Null

\* The counter of object o, which is t and has held pointers and killers
\* threads that are about to delete it.
Counted(t, held, killers) ==
    IF t.live THEN t.mRefCnt = Short(held) /\ killers = IF held = 0 THEN 1 ELSE 0
    ELSE held = 0 /\ killers = 0

HeapInv == HeapType /\ ReleasedInv /\ HandlesCounted

LEMMA CountedIs ==
    HandlesCounted <=>
      (~ spoiled => \A o \in Objects : Counted(heap[o], Cardinality(With(ptrs, o)), Cardinality(With(dying, o))))
  BY DEF HandlesCounted, Counted, refCount

LEMMA CountedNext ==
    HandlesCounted' <=>
      (~ spoiled' => \A o \in Objects : Counted(heap'[o], Cardinality(With(ptrs', o)), Cardinality(With(dying', o))))
  BY DEF HandlesCounted, Counted, refCount, With

----------------------------------------------------------------------------
LEMMA WithFinite ==
    ASSUME NEW f, NEW o
    PROVE  IsFiniteSet(With(f, o)) /\ Cardinality(With(f, o)) \in Nat
  <1>1. With(f, o) \subseteq Pointers
    BY DEF With
  <1>2. IsFiniteSet(With(f, o))
    BY <1>1, TuplesAssumption, FS_Subset
  <1> QED BY <1>2, FS_CardinalityType

\* The pointers to a tuple do not exceed the values of a short.
LEMMA WithBounded ==
    ASSUME NEW f, NEW o
    PROVE  Cardinality(With(f, o)) <= 2 * (ShortMax + 1)
  <1>1. With(f, o) \subseteq Pointers
    BY DEF With
  <1>2. Cardinality(With(f, o)) <= Cardinality(Pointers)
    BY <1>1, TuplesAssumption, FS_Subset
  <1>3. Cardinality(With(f, o)) \in Nat /\ Cardinality(Pointers) \in Nat
    BY WithFinite, TuplesAssumption, FS_CardinalityType
  <1> QED BY <1>2, <1>3, TuplesAssumption

\* A pointer more or less, and the test of the last one, on converted counts.
LEMMA ShortCounts ==
    ASSUME NEW n \in Nat, n <= 2 * (ShortMax + 1)
    PROVE  /\ n + 1 <= 2 * (ShortMax + 1) => Incremented(Short(n)) = Short(n + 1)
           /\ n >= 1 => Decremented(Short(n)) = Short(n - 1) /\ (Short(n) = 1 <=> n = 1)
           /\ Short(0) = 0 /\ Short(1) = 1 /\ Short(n) \in Int
  BY TuplesAssumption DEF Incremented, Decremented, Short, ShortMin

LEMMA Wraps == \A n \in Int : Incremented(n) \in Int /\ Decremented(n) \in Int
  BY TuplesAssumption DEF Incremented, Decremented, ShortMin

\* g is f but for p, which has a.
Sets(f, g, p, a) == g[p] = a /\ \A q \in Pointers : q # p => g[q] = f[q]

\* An entry that changes: the others count as before.
LEMMA Recount ==
    ASSUME NEW f \in [Pointers -> Addresses], NEW p \in Pointers, NEW a, NEW o,
           NEW g, Sets(f, g, p, a)
    PROVE  Cardinality(With(g, o)) =
             Cardinality(With(f, o)) + (IF a = o THEN 1 ELSE 0) - (IF f[p] = o THEN 1 ELSE 0)
  <1>1. With(f, o) \ {p} = With(g, o) \ {p}
    BY DEF With, Sets
  <1>2. /\ p \in With(f, o) <=> f[p] = o
        /\ p \in With(g, o) <=> a = o
    BY DEF With, Sets
  <1>3. /\ IsFiniteSet(With(f, o)) /\ Cardinality(With(f, o)) \in Nat
        /\ IsFiniteSet(With(g, o)) /\ Cardinality(With(g, o)) \in Nat
    BY WithFinite
  <1> PICK n : n = Cardinality(With(f, o) \ {p})
    OBVIOUS
  <1>4. n = IF p \in With(f, o) THEN Cardinality(With(f, o)) - 1 ELSE Cardinality(With(f, o))
    BY ONLY n = Cardinality(With(f, o) \ {p}), <1>3, FS_RemoveElement, Zenon
  <1>5. n = IF p \in With(g, o) THEN Cardinality(With(g, o)) - 1 ELSE Cardinality(With(g, o))
    BY ONLY n = Cardinality(With(f, o) \ {p}), <1>1, <1>3, FS_RemoveElement, Zenon
  <1> PICK cf \in Nat, cg \in Nat : cf = Cardinality(With(f, o)) /\ cg = Cardinality(With(g, o))
    BY <1>3
  <1> QED BY <1>2, <1>4, <1>5

\* With one pointer there is a holder, and with one thread a killer.
LEMMA CountsOne ==
    ASSUME NEW f \in [Pointers -> Addresses], NEW p \in Pointers
    PROVE  Cardinality(With(f, f[p])) >= 1
  <1>1. p \in With(f, f[p])
    BY DEF With
  <1> QED BY <1>1, WithFinite, FS_EmptySet

LEMMA CountsNone ==
    ASSUME NEW f, NEW o, \A p \in Pointers : f[p] # o
    PROVE  Cardinality(With(f, o)) = 0
  <1>1. With(f, o) = {}
    BY DEF With
  <1> QED BY <1>1, FS_EmptySet

----------------------------------------------------------------------------
LEMMA InitCounted == TuplesInit => HeapInv
  <1> SUFFICES ASSUME TuplesInit PROVE HeapInv
    OBVIOUS
  <1>0. IsTuple(Freed) /\ Freed.live = FALSE
    BY DEF Freed, IsTuple
  <1>1. HeapType /\ ReleasedInv
    BY <1>0 DEF TuplesInit, HeapType, ReleasedInv, Addresses
  <1>2. ASSUME NEW o \in Objects
        PROVE  Counted(heap[o], Cardinality(With(ptrs, o)), Cardinality(With(dying, o)))
    <2>1. \A p \in Pointers : ptrs[p] # o /\ dying[p] # o
      BY TuplesAssumption DEF TuplesInit
    <2>2. Cardinality(With(ptrs, o)) = 0 /\ Cardinality(With(dying, o)) = 0
      BY <2>1, CountsNone
    <2>3. heap[o].live = FALSE
      BY <1>0 DEF TuplesInit
    <2> QED BY <2>2, <2>3 DEF Counted
  <1> QED BY <1>1, <1>2, CountedIs DEF HeapInv

\* A tuple at o is constructed with its first pointer.
LEMMA AllocateKeeps ==
    ASSUME HeapInv, NEW p \in Pointers, NEW o \in Objects, NEW t, IsTuple(t), t.live = TRUE,
           allocate(p, o, t), dying' = dying, ~ spoiled, spoiled' \in BOOLEAN, ~ spoiled' => t.mRefCnt = 0
    PROVE  HeapInv'
  <1> DEFINE u == intrusive_ptr_add_ref(t)
  <1>1. IsTuple(u) /\ u.live = TRUE /\ u.mRefCnt = Incremented(t.mRefCnt)
    BY Wraps DEF IsTuple, intrusive_ptr_add_ref
  <1> HIDE DEF u
  <1>2. /\ heap' = [heap EXCEPT ![o] = u] /\ ptrs' = [ptrs EXCEPT ![p] = o]
        /\ ptrs[p] = Null /\ dying[p] = Null /\ ~ heap[o].live
    BY DEF allocate, Holds, u
  <1>3. HeapType'
    BY <1>1, <1>2 DEF HeapInv, HeapType, Addresses
  <1>4. ReleasedInv'
    BY <1>2 DEF HeapInv, HeapType, ReleasedInv
  <1>5. ASSUME ~ spoiled', NEW x \in Objects
        PROVE  Counted(heap'[x], Cardinality(With(ptrs', x)), Cardinality(With(dying', x)))
    <2>1. Counted(heap[x], Cardinality(With(ptrs, x)), Cardinality(With(dying, x)))
      BY CountedIs DEF HeapInv
    <2>2. Cardinality(With(ptrs', x)) = Cardinality(With(ptrs, x)) + (IF o = x THEN 1 ELSE 0)
      <3>1. ptrs \in [Pointers -> Addresses] /\ Sets(ptrs, ptrs', p, o)
        BY <1>2 DEF HeapInv, HeapType, Addresses, Sets
      <3>2. Cardinality(With(ptrs', x)) =
              Cardinality(With(ptrs, x)) + (IF o = x THEN 1 ELSE 0) - (IF ptrs[p] = x THEN 1 ELSE 0)
        BY <3>1, Recount
      <3>3. Cardinality(With(ptrs, x)) \in Nat /\ Null # x
        BY WithFinite, TuplesAssumption
      <3> QED BY <1>2, <3>2, <3>3
    <2>3. CASE x = o
      <3>1. Cardinality(With(ptrs, x)) = 0 /\ Cardinality(With(dying, x)) = 0
        BY <1>2, <2>1, <2>3 DEF Counted
      <3>2. heap'[x] = u /\ u.mRefCnt = 1
        BY <1>1, <1>2, <1>5, <2>3, TuplesAssumption DEF HeapInv, HeapType, IsTuple, Incremented
      <3>3. Short(1) = 1
        BY TuplesAssumption DEF Short
      <3> QED BY <1>1, <2>2, <2>3, <3>1, <3>2, <3>3 DEF Counted
    <2>4. CASE x # o
      <3>1. heap'[x] = heap[x] /\ Cardinality(With(ptrs', x)) = Cardinality(With(ptrs, x))
        BY <1>2, <2>2, <2>4, WithFinite DEF HeapInv, HeapType
      <3> QED BY <2>1, <3>1
    <2> QED BY <2>3, <2>4
  <1> QED BY <1>3, <1>4, <1>5, CountedNext DEF HeapInv

LEMMA CopyPtrKeeps ==
    ASSUME HeapInv, ~ spoiled, NEW p \in Pointers, NEW q \in Pointers, copyPtr(p, q)
    PROVE  HeapInv'
  <1> PICK o : o = ptrs[q]
    OBVIOUS
  <1> DEFINE u == intrusive_ptr_add_ref(heap[o])
  <1>1. o \in Objects /\ heap[o].live
    BY DEF copyPtr, Valid, Holds, HeapInv, HeapType, Addresses
  <1>1a. heap[o].live = TRUE
    BY <1>1, Zenon DEF HeapInv, HeapType, IsTuple
  <1>2. IsTuple(u) /\ u.live = heap[o].live /\ u.mRefCnt = Incremented(heap[o].mRefCnt)
    BY <1>1, Wraps DEF IsTuple, intrusive_ptr_add_ref, HeapInv, HeapType
  <1> HIDE DEF u
  <1>3. /\ heap' = [heap EXCEPT ![o] = u] /\ ptrs' = [ptrs EXCEPT ![p] = o] /\ dying' = dying /\ spoiled' = spoiled
        /\ ptrs[p] = Null /\ dying[p] = Null
    BY DEF copyPtr, Holds, u
  <1>4. HeapType'
    BY <1>1, <1>2, <1>3 DEF HeapInv, HeapType, Addresses
  <1>5. ReleasedInv'
    BY <1>3 DEF HeapInv, HeapType, ReleasedInv
  <1>6. ASSUME NEW x \in Objects
        PROVE  Counted(heap'[x], Cardinality(With(ptrs', x)), Cardinality(With(dying', x)))
    <2>1. Counted(heap[x], Cardinality(With(ptrs, x)), Cardinality(With(dying, x)))
      BY CountedIs DEF HeapInv
    <2>2. Cardinality(With(ptrs', x)) = Cardinality(With(ptrs, x)) + (IF o = x THEN 1 ELSE 0)
      <3>1. ptrs \in [Pointers -> Addresses] /\ Sets(ptrs, ptrs', p, o)
        BY <1>3 DEF HeapInv, HeapType, Addresses, Sets
      <3>2. Cardinality(With(ptrs', x)) =
              Cardinality(With(ptrs, x)) + (IF o = x THEN 1 ELSE 0) - (IF ptrs[p] = x THEN 1 ELSE 0)
        BY <3>1, Recount
      <3>3. Cardinality(With(ptrs, x)) \in Nat /\ Null # x
        BY WithFinite, TuplesAssumption
      <3> QED BY <1>3, <3>2, <3>3
    <2>3. CASE x = o
      <3>1. Cardinality(With(ptrs, o)) >= 1
        BY CountsOne DEF HeapInv, HeapType
      <3>2. heap'[x] = u
        BY <1>1, <1>3, <2>3 DEF HeapInv, HeapType
      <3>3. Cardinality(With(ptrs, o)) \in Nat
        BY WithFinite
      <3>4. heap[o].mRefCnt = Short(Cardinality(With(ptrs, o))) /\ Cardinality(With(dying, o)) = 0
        BY <1>1, <2>1, <2>3, <3>1, <3>3 DEF Counted
      <3>5. heap'[x].live = TRUE /\ heap'[x].mRefCnt = Incremented(heap[o].mRefCnt)
        BY <1>2, <1>1a, <3>2
      <3>6. Cardinality(With(ptrs', x)) = Cardinality(With(ptrs, o)) + 1 /\ Cardinality(With(dying', x)) = 0
        BY <1>3, <2>2, <2>3, <3>4
      <3> PICK n \in Nat : n = Cardinality(With(ptrs, o))
        BY <3>3
      <3>7. n <= 2 * (ShortMax + 1) /\ n + 1 <= 2 * (ShortMax + 1)
        BY <3>6, WithBounded
      <3>8. Incremented(Short(n)) = Short(n + 1)
        BY <3>7, ShortCounts
      <3>9. heap'[x].mRefCnt = Short(n + 1)
        BY <3>4, <3>5, <3>8
      <3> QED BY <3>5, <3>6, <3>9 DEF Counted
    <2>4. CASE x # o
      <3>1. heap'[x] = heap[x] /\ Cardinality(With(ptrs', x)) = Cardinality(With(ptrs, x))
        BY <1>3, <2>2, <2>4, WithFinite DEF HeapInv, HeapType
      <3> QED BY <1>3, <2>1, <3>1
    <2> QED BY <2>3, <2>4
  <1> QED BY <1>4, <1>5, <1>6, CountedNext DEF HeapInv

\* The last pointer that is released makes its thread the only killer.
LEMMA ReleaseKeeps ==
    ASSUME HeapInv, ~ spoiled, NEW p \in Pointers, intrusive_ptr_release(p)
    PROVE  HeapInv'
  <1> PICK o : o = ptrs[p]
    OBVIOUS
  <1> PICK d : d = IF heap[o].mRefCnt = 1 THEN o ELSE Null
    OBVIOUS
  <1> DEFINE u == [heap[o] EXCEPT !.mRefCnt = Decremented(@)]
  <1>1. o \in Objects /\ heap[o].live /\ dying[p] = Null
    BY DEF intrusive_ptr_release, Valid, Holds, HeapInv, HeapType, ReleasedInv, Addresses
  <1>1a. heap[o].live = TRUE
    BY <1>1, Zenon DEF HeapInv, HeapType, IsTuple
  <1>2. IsTuple(u) /\ u.live = heap[o].live /\ u.mRefCnt = Decremented(heap[o].mRefCnt)
    BY <1>1, Wraps DEF IsTuple, HeapInv, HeapType
  <1>3. /\ heap' = [heap EXCEPT ![o] = u] /\ ptrs' = [ptrs EXCEPT ![p] = Null]
        /\ dying' = [dying EXCEPT ![p] = d] /\ spoiled' = spoiled
    BY DEF intrusive_ptr_release, getElementRef
  <1> HIDE DEF u
  <1>4. HeapType'
    BY <1>1, <1>2, <1>3 DEF HeapInv, HeapType, Addresses
  <1>5. ReleasedInv'
    BY <1>3 DEF HeapInv, HeapType, ReleasedInv
  <1>6. ASSUME NEW x \in Objects
        PROVE  Counted(heap'[x], Cardinality(With(ptrs', x)), Cardinality(With(dying', x)))
    <2>1. Counted(heap[x], Cardinality(With(ptrs, x)), Cardinality(With(dying, x)))
      BY CountedIs DEF HeapInv
    <2>2. Null # x /\ Null \in Addresses /\ d \in Addresses
      BY <1>1, TuplesAssumption DEF Addresses
    <2>3. Cardinality(With(ptrs', x)) = Cardinality(With(ptrs, x)) - (IF o = x THEN 1 ELSE 0)
      <3>1. ptrs \in [Pointers -> Addresses] /\ Sets(ptrs, ptrs', p, Null)
        BY <1>3 DEF HeapInv, HeapType, Addresses, Sets
      <3>2. Cardinality(With(ptrs', x)) =
              Cardinality(With(ptrs, x)) + (IF Null = x THEN 1 ELSE 0) - (IF ptrs[p] = x THEN 1 ELSE 0)
        BY <3>1, Recount
      <3>3. Cardinality(With(ptrs, x)) \in Nat /\ Null # x
        BY WithFinite, TuplesAssumption
      <3> QED BY <1>3, <3>2, <3>3
    <2>4. Cardinality(With(dying', x)) = Cardinality(With(dying, x)) + (IF d = x THEN 1 ELSE 0)
      <3>1. dying \in [Pointers -> Addresses] /\ Sets(dying, dying', p, d)
        BY <1>1, <1>3 DEF HeapInv, HeapType, Addresses, Sets
      <3>2. Cardinality(With(dying', x)) =
              Cardinality(With(dying, x)) + (IF d = x THEN 1 ELSE 0) - (IF dying[p] = x THEN 1 ELSE 0)
        BY <3>1, Recount
      <3>3. Cardinality(With(dying, x)) \in Nat /\ Null # x
        BY WithFinite, TuplesAssumption
      <3> QED BY <1>1, <1>3, <3>2, <3>3
    <2>5. CASE x = o
      <3>1. Cardinality(With(ptrs, o)) >= 1 /\ Cardinality(With(ptrs, o)) \in Nat
        BY CountsOne, WithFinite DEF HeapInv, HeapType
      <3>2. heap'[x] = u
        BY <1>1, <1>3, <2>5 DEF HeapInv, HeapType
      <3>3. heap[o].mRefCnt = Short(Cardinality(With(ptrs, o))) /\ Cardinality(With(dying, o)) = 0
        BY <1>1, <2>1, <2>5, <3>1 DEF Counted
      <3> PICK n \in Nat : n = Cardinality(With(ptrs, o)) /\ n >= 1
        BY <3>1
      <3>3a. Decremented(Short(n)) = Short(n - 1) /\ (Short(n) = 1 <=> n = 1)
        BY WithBounded, ShortCounts
      <3>4. d = x <=> Cardinality(With(ptrs, o)) = 1
        BY <2>2, <2>5, <3>3, <3>3a
      <3>5. heap'[x].live = TRUE /\ heap'[x].mRefCnt = Short(n - 1)
        BY <1>2, <1>1a, <3>2, <3>3, <3>3a
      <3>6. Cardinality(With(ptrs', x)) = Cardinality(With(ptrs, o)) - 1
        BY <2>3, <2>5
      <3>7. Cardinality(With(dying', x)) = IF Cardinality(With(ptrs, o)) = 1 THEN 1 ELSE 0
        BY <2>4, <2>5, <3>3, <3>4
      <3> QED BY <3>1, <3>3, <3>5, <3>6, <3>7 DEF Counted
    <2>6. CASE x # o
      <3>1. heap'[x] = heap[x] /\ d # x
        BY <1>3, <2>2, <2>6 DEF HeapInv, HeapType
      <3>2. /\ Cardinality(With(ptrs', x)) = Cardinality(With(ptrs, x))
            /\ Cardinality(With(dying', x)) = Cardinality(With(dying, x))
        BY <2>3, <2>4, <2>6, <3>1, WithFinite
      <3> QED BY <2>1, <3>1, <3>2
    <2> QED BY <2>5, <2>6
  <1> QED BY <1>4, <1>5, <1>6, CountedNext DEF HeapInv

LEMMA DeleteKeeps ==
    ASSUME HeapInv, ~ spoiled, NEW p \in Pointers, deleteTuple(p)
    PROVE  HeapInv'
  <1> PICK o : o = dying[p]
    OBVIOUS
  <1>1. o \in Objects
    BY DEF deleteTuple, HeapInv, HeapType, Addresses
  <1>2. /\ heap' = [heap EXCEPT ![o] = Freed] /\ ptrs' = ptrs
        /\ dying' = [dying EXCEPT ![p] = Null] /\ spoiled' = spoiled
    BY DEF deleteTuple
  <1>3. IsTuple(Freed) /\ ~ Freed.live
    BY DEF IsTuple, Freed
  <1>4. HeapType'
    BY <1>1, <1>2, <1>3 DEF HeapInv, HeapType, Addresses
  <1>5. ReleasedInv'
    BY <1>2 DEF HeapInv, HeapType, ReleasedInv
  <1>6. ASSUME NEW x \in Objects
        PROVE  Counted(heap'[x], Cardinality(With(ptrs', x)), Cardinality(With(dying', x)))
    <2>1. Counted(heap[x], Cardinality(With(ptrs, x)), Cardinality(With(dying, x)))
      BY CountedIs DEF HeapInv
    <2>2. Null # x /\ Null \in Addresses
      BY TuplesAssumption DEF Addresses
    <2>3. Cardinality(With(dying', x)) = Cardinality(With(dying, x)) - (IF o = x THEN 1 ELSE 0)
      <3>1. dying \in [Pointers -> Addresses] /\ Sets(dying, dying', p, Null)
        BY <1>2 DEF HeapInv, HeapType, Addresses, Sets
      <3>2. Cardinality(With(dying', x)) =
              Cardinality(With(dying, x)) + (IF Null = x THEN 1 ELSE 0) - (IF dying[p] = x THEN 1 ELSE 0)
        BY <3>1, Recount
      <3>3. Cardinality(With(dying, x)) \in Nat /\ Null # x
        BY WithFinite, TuplesAssumption
      <3> QED BY <1>2, <3>2, <3>3
    <2>4. CASE x = o
      <3>1. Cardinality(With(dying, o)) >= 1 /\ Cardinality(With(dying, o)) \in Nat
        BY CountsOne, WithFinite DEF HeapInv, HeapType
      <3>2. heap'[x] = Freed
        BY <1>1, <1>2, <2>4 DEF HeapInv, HeapType
      <3>3. Cardinality(With(dying, o)) = 1 /\ Cardinality(With(ptrs, o)) = 0
        BY <2>1, <2>4, <3>1 DEF Counted
      <3> QED BY <1>2, <1>3, <2>3, <2>4, <3>2, <3>3 DEF Counted
    <2>5. CASE x # o
      <3>1. heap'[x] = heap[x]
        BY <1>2, <2>5 DEF HeapInv, HeapType
      <3>2. Cardinality(With(dying', x)) = Cardinality(With(dying, x))
        BY <2>3, <2>5, WithFinite
      <3> QED BY <1>2, <2>1, <3>1, <3>2
    <2> QED BY <2>4, <2>5
  <1> QED BY <1>4, <1>5, <1>6, CountedNext DEF HeapInv

\* A tuple whose attributes or null bits change keeps its counter.
LEMMA UpdateKeeps ==
    ASSUME HeapInv, NEW p \in Pointers, NEW t, Update(p, t),
           ptrs[p] \in Objects => IsTuple(t) /\ t.live = heap[ptrs[p]].live /\ t.mRefCnt = heap[ptrs[p]].mRefCnt
    PROVE  HeapInv'
  <1>1. ptrs[p] \in Objects
    BY DEF Update, Valid, Holds, HeapInv, HeapType, Addresses
  <1>2. heap' = [heap EXCEPT ![ptrs[p]] = t] /\ ptrs' = ptrs /\ dying' = dying /\ spoiled' = spoiled
    BY DEF Update
  <1>3. HeapType'
    BY <1>1, <1>2 DEF HeapInv, HeapType
  <1>4. ReleasedInv'
    BY <1>2 DEF HeapInv, ReleasedInv
  <1>5. \A x \in Objects : heap'[x].live = heap[x].live /\ heap'[x].mRefCnt = heap[x].mRefCnt
    BY <1>1, <1>2 DEF HeapInv, HeapType
  <1>6. HandlesCounted'
    BY <1>2, <1>5, CountedIs, CountedNext DEF HeapInv, Counted
  <1> QED BY <1>3, <1>4, <1>6 DEF HeapInv

LEMMA NullsOnly ==
    ASSUME NEW x, IsTuple(x), NEW n, NEW t, t = [x EXCEPT !.nulls = n]
    PROVE  IsTuple(t) /\ t.live = x.live /\ t.mRefCnt = x.mRefCnt
  BY DEF IsTuple

LEMMA NextCounted ==
    ASSUME HeapInv, HeapNext(Serialized, Deserialized)
    PROVE  HeapInv'
  <1>1. ~ spoiled
    BY DEF HeapNext
  <1>2. ASSUME NEW p \in Pointers, NEW o \in Objects, NEW i \in Ints, NEW s \in Strings, makeTuplePtr(p, o, <<i, s>>)
        PROVE  HeapInv'
    <2> PICK t : t = TupleFromArgs(<<i, s>>)
      OBVIOUS
    <2>1. IsTuple(t) /\ t.live = TRUE /\ t.mRefCnt = 0
      BY DEF TupleFromArgs, IsTuple
    <2>2. allocate(p, o, t) /\ dying' = dying /\ spoiled' = spoiled
      BY <1>2 DEF makeTuplePtr, TuplePtrFactory_create, TupleFactoryTraits_create, createElement, createPointed, allocatePointer
    <2>3. spoiled' \in BOOLEAN /\ (~ spoiled' => t.mRefCnt = 0)
      BY <1>1, <2>1, <2>2, Zenon DEF HeapInv, HeapType
    <2> QED BY <1>1, <2>1, <2>2, <2>3, AllocateKeeps
  <1>3. ASSUME NEW p \in Pointers, NEW o \in Objects, NEW q \in Pointers, copyTuple(p, q, o)
        PROVE  HeapInv'
    <2> PICK t : t = TupleCopy(getElementRefConst(q))
      OBVIOUS
    <2>1. IsTuple(t) /\ t.live = TRUE /\ t.mRefCnt = 0
      BY DEF TupleCopy, TupleFromArgs, IsTuple
    <2>2. allocate(p, o, t) /\ dying' = dying /\ spoiled' = spoiled
      BY <1>3 DEF copyTuple
    <2>3. spoiled' \in BOOLEAN /\ (~ spoiled' => t.mRefCnt = 0)
      BY <1>1, <2>1, <2>2, Zenon DEF HeapInv, HeapType
    <2> QED BY <1>1, <2>1, <2>2, <2>3, AllocateKeeps
  <1>4. ASSUME NEW p \in Pointers, NEW o \in Objects, NEW g \in Garbage, receiveTuple(p, o, Deserialized(wire), g)
        PROVE  HeapInv'
    <2> PICK t : t = TupleFromBytes(Deserialized(wire), g)
      OBVIOUS
    <2>1. IsTuple(t) /\ t.live = TRUE /\ t.mRefCnt = g
      <3>1. g \in Int
        BY TuplesAssumption
      <3> QED BY <3>1 DEF TupleFromBytes, TupleFromArgs, IsTuple
    <2>2. allocate(p, o, t) /\ dying' = dying /\ spoiled' = (g # 0)
      BY <1>1, <1>4 DEF receiveTuple
    <2>3. spoiled' \in BOOLEAN /\ (~ spoiled' => t.mRefCnt = 0)
      BY <1>1, <2>1, <2>2, Zenon DEF HeapInv, HeapType
    <2> QED BY <1>1, <2>1, <2>2, <2>3, AllocateKeeps
  <1>5. ASSUME NEW p \in Pointers, destroyPointer(p) \/ deleteTuple(p)
        PROVE  HeapInv'
    BY <1>1, <1>5, ReleaseKeeps, DeleteKeeps DEF destroyPointer
  <1>6. ASSUME NEW p \in Pointers, sendTuple(p, Serialized(getElementRefConst(p)))
        PROVE  HeapInv'
    BY <1>6, CountedIs, CountedNext DEF sendTuple, HeapInv, HeapType, ReleasedInv
  <1>7. ASSUME NEW p \in Pointers, NEW id, NEW v, Global_setAttribute(p, id, v)
        PROVE  HeapInv'
    <2> PICK t : t = setAttribute(getElementRef(p), id, v)
      OBVIOUS
    <2>1. ptrs[p] \in Objects => IsTuple(t) /\ t.live = heap[ptrs[p]].live /\ t.mRefCnt = heap[ptrs[p]].mRefCnt
      BY DEF setAttribute, getElementRef, HeapInv, HeapType, IsTuple
    <2>2. Update(p, t)
      BY <1>7 DEF Global_setAttribute, Traits_setAttribute
    <2> QED BY <2>1, <2>2, UpdateKeeps
  <1>8. ASSUME NEW p \in Pointers, NEW index, NEW b, Global_setNull(p, index, b)
        PROVE  HeapInv'
    <2> PICK t : t = setNull(getElementRef(p), index, b)
      OBVIOUS
    <2>1. ptrs[p] \in Objects => IsTuple(t) /\ t.live = heap[ptrs[p]].live /\ t.mRefCnt = heap[ptrs[p]].mRefCnt
      <3> PICK x, n : x = heap[ptrs[p]] /\ n = IF b THEN x.nulls \union {index} ELSE x.nulls \ {index}
        OBVIOUS
      <3>1. t = [x EXCEPT !.nulls = n]
        BY DEF setNull, getElementRef
      <3> QED BY <3>1, NullsOnly DEF HeapInv, HeapType
    <2>2. Update(p, t)
      BY <1>8 DEF Global_setNull, Traits_setNull
    <2> QED BY <2>1, <2>2, UpdateKeeps
  <1>9. ASSUME NEW p \in Pointers, Global_setNullAll(p)
        PROVE  HeapInv'
    <2> PICK t : t = setNullAll(getElementRef(p))
      OBVIOUS
    <2>1. ptrs[p] \in Objects => IsTuple(t) /\ t.live = heap[ptrs[p]].live /\ t.mRefCnt = heap[ptrs[p]].mRefCnt
      <3> PICK x, n : x = heap[ptrs[p]] /\ n = 0 .. NUM_ATTRIBUTES - 1
        OBVIOUS
      <3>1. t = [x EXCEPT !.nulls = n]
        BY DEF setNullAll, getElementRef
      <3> QED BY <3>1, NullsOnly DEF HeapInv, HeapType
    <2>2. Update(p, t)
      BY <1>9 DEF Global_setNullAll, Traits_setNullAll
    <2> QED BY <2>1, <2>2, UpdateKeeps
  <1> QED BY <1>1, <1>2, <1>3, <1>4, <1>5, <1>6, <1>7, <1>8, <1>9, CopyPtrKeeps DEF HeapNext

\* However the threads interleave their allocations, copies, receptions and the
\* two steps of their releases, and although the short counter of a tuple may
\* overflow, it is the number of its pointers converted to short, none of them
\* dangles, and one thread deletes what nobody points to, provided that there
\* are no more pointers than a short has values (intrusive_ptr_add_ref and
\* intrusive_ptr_release of Tuple.hpp).
THEOREM HandlesStayCounted == HeapSpec => []HandlesCounted
  <1>1. TuplesInit => HeapInv
    BY InitCounted
  <1>2. HeapInv /\ [HeapNext(Serialized, Deserialized)]_tupleVars => HeapInv'
    <2>1. ASSUME HeapInv, UNCHANGED tupleVars PROVE HeapInv'
      BY <2>1, CountedIs, CountedNext DEF tupleVars, HeapInv, HeapType, ReleasedInv
    <2> QED BY <2>1, NextCounted
  <1>3. HeapInv => HandlesCounted
    BY DEF HeapInv
  <1> QED BY <1>1, <1>2, <1>3, PTL DEF HeapSpec
=============================================================================
