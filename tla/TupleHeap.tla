------------------------------ MODULE TupleHeap -------------------------------
(***************************************************************************)
(* The tuples that flow through a dataflow: heap objects counted by the     *)
(* intrusive pointers to them, and the accessors of the stream element      *)
(* traits.  Attributes count from 0.                                        *)
(***************************************************************************)
EXTENDS Integers, Sequences, FiniteSets

CONSTANTS Objects,      \* addresses of tuples
          Pointers,     \* TuplePtr variables, each of a thread of its own
          Null,         \* the null pointer
          Ints, Strings,\* values of the two attributes of a tuple
          ShortMax,     \* the largest value of a counter, a short: 32767
          Garbage       \* what memory may hold where a counter is not initialised

\* A short has 2 * (ShortMax + 1) values, and there are no more pointers: with
\* one more to the same tuple the counter of a shared tuple would be 1.
ASSUME TuplesAssumption ==
  /\ Null \notin Objects /\ IsFiniteSet(Pointers)
  /\ ShortMax \in Nat /\ ShortMax >= 1 /\ Cardinality(Pointers) <= 2 * (ShortMax + 1)
  /\ Garbage \subseteq -ShortMax - 1 .. ShortMax

VARIABLES heap,         \* the tuple at an address, or Freed
          ptrs,         \* the address a pointer holds
          dying,        \* the address a thread is about to delete
          wire,         \* a buffer with a serialised tuple, <<>> if there is none
          spoiled       \* a tuple was constructed over a counter that was not 0

tupleVars == <<heap, ptrs, dying, wire, spoiled>>

----------------------------------------------------------------------------
(* Tuple: the data, a bit per attribute that says it is null, and the       *)
(* reference counter.                                                       *)

NUM_ATTRIBUTES == 2
Freed == [live |-> FALSE, data |-> <<0, <<>>>>, nulls |-> {}, mRefCnt |-> 0, made |-> FALSE]

TupleFromArgs(args) == [live |-> TRUE, data |-> args, nulls |-> {}, mRefCnt |-> 0, made |-> TRUE]
TupleFromBase(base) == TupleFromArgs(base)
TupleCopy(tup) == TupleFromArgs(tup.data)         \* the null bits are not copied

\* The counter of a tuple that is constructed from bytes keeps what its
\* memory held.
TupleFromBytes(t, garbage) ==
  [TupleFromArgs(t.data) EXCEPT !.nulls = t.nulls, !.mRefCnt = garbage, !.made = FALSE]

getAttribute(t, id) == t.data[id + 1]
getAttributeConst(t, id) == t.data[id + 1]
setAttribute(t, id, value) == [t EXCEPT !.data[id + 1] = value]
setNull(t, index, value) == [t EXCEPT !.nulls = IF value THEN @ \union {index} ELSE @ \ {index}]
isNull(t, index) == index \in t.nulls
setNullAll(t) == [t EXCEPT !.nulls = 0 .. NUM_ATTRIBUTES - 1]
data(t) == t.data
size(t) == NUM_ATTRIBUTES
refCount(t) == t.mRefCnt

----------------------------------------------------------------------------
(* Pointers and the threads that hold them. *)

TuplesInit ==
  /\ heap = [o \in Objects |-> Freed]
  /\ ptrs = [p \in Pointers |-> Null]
  /\ dying = [p \in Pointers |-> Null]
  /\ wire = <<>>
  /\ spoiled = FALSE

Holds(p) == ptrs[p] # Null
isNullPointer(p) == ptrs[p] = Null
Valid(p) == Holds(p) /\ heap[ptrs[p]].live
getElementRef(p) == heap[ptrs[p]]
getElementRefConst(p) == heap[ptrs[p]]

\* fetch_add and fetch_sub of boost::atomic<short> wrap around.
ShortMin == -ShortMax - 1
Incremented(n) == IF n = ShortMax THEN ShortMin ELSE n + 1
Decremented(n) == IF n = ShortMin THEN ShortMax ELSE n - 1

intrusive_ptr_add_ref(t) == [t EXCEPT !.mRefCnt = Incremented(@)]

\* PointerTraits<intrusive_ptr>::allocate and what calls it: the object is
\* constructed and its pointer counts itself before anybody else sees it.
allocate(p, o, t) ==
  /\ ~ Holds(p) /\ dying[p] = Null /\ ~ heap[o].live
  /\ heap' = [heap EXCEPT ![o] = intrusive_ptr_add_ref(t)]
  /\ ptrs' = [ptrs EXCEPT ![p] = o]

allocatePointer(p, o, t) == allocate(p, o, t)
createPointed(p, o, args) == allocatePointer(p, o, TupleFromArgs(args))
createElement(p, o, args) == createPointed(p, o, args)
TuplePtrFactory_create(p, o, args) == allocate(p, o, TupleFromArgs(args))
TupleFactoryTraits_create(p, o, args) == TuplePtrFactory_create(p, o, args)
makeTuplePtr(p, o, args) ==
  (TuplePtrFactory_create(p, o, args) \/ TupleFactoryTraits_create(p, o, args) \/ createElement(p, o, args))
  /\ UNCHANGED <<dying, wire, spoiled>>

\* new Tuple(*tp)
copyTuple(p, q, o) ==
  Valid(q) /\ allocate(p, o, TupleCopy(getElementRefConst(q))) /\ UNCHANGED <<dying, wire, spoiled>>

\* TupleDeserializer: new Tuple(buf), where t is what the buffer says.
receiveTuple(p, o, t, garbage) ==
  /\ wire # <<>>
  /\ allocate(p, o, TupleFromBytes(t, garbage))
  /\ spoiled' = (spoiled \/ garbage # 0)
  /\ UNCHANGED <<dying, wire>>

\* tup = other: a subscriber keeps a copy of the pointer it is called with.
copyPtr(p, q) ==
  /\ ~ Holds(p) /\ dying[p] = Null /\ Valid(q)
  /\ ptrs' = [ptrs EXCEPT ![p] = ptrs[q]]
  /\ heap' = [heap EXCEPT ![ptrs[q]] = intrusive_ptr_add_ref(@)]
  /\ UNCHANGED <<dying, wire, spoiled>>

\* Mutant of intrusive_ptr_release: the counter is compared after the step.
intrusive_ptr_releaseZero(p) ==
  /\ Valid(p)
  /\ heap' = [heap EXCEPT ![ptrs[p]].mRefCnt = Decremented(@)]
  /\ dying' = [dying EXCEPT ![p] = IF getElementRef(p).mRefCnt = 0 THEN ptrs[p] ELSE Null]
  /\ ptrs' = [ptrs EXCEPT ![p] = Null]
  /\ UNCHANGED <<wire, spoiled>>

\* The pointer goes out of scope; the last one deletes, in a step of its own.
intrusive_ptr_release(p) ==
  /\ Valid(p)
  /\ heap' = [heap EXCEPT ![ptrs[p]].mRefCnt = Decremented(@)]
  /\ dying' = [dying EXCEPT ![p] = IF getElementRef(p).mRefCnt = 1 THEN ptrs[p] ELSE Null]
  /\ ptrs' = [ptrs EXCEPT ![p] = Null]
  /\ UNCHANGED <<wire, spoiled>>
destroyPointer(p) == intrusive_ptr_release(p)

deleteTuple(p) ==
  /\ dying[p] # Null
  /\ heap' = [heap EXCEPT ![dying[p]] = Freed]
  /\ dying' = [dying EXCEPT ![p] = Null]
  /\ UNCHANGED <<ptrs, wire, spoiled>>

\* The accessors of StreamElementTraits, and the functions in front of them.
Traits_getAttribute(p, id) == getAttribute(getElementRef(p), id)
Traits_getAttributeConst(p, id) == getAttributeConst(getElementRefConst(p), id)
Traits_isNull(p, index) == isNull(getElementRefConst(p), index)
Global_getAttribute(p, id) == Traits_getAttribute(p, id)
Global_getAttributeConst(p, id) == Traits_getAttributeConst(p, id)
Global_get(p, id) == Traits_getAttribute(p, id)
Global_getConst(p, id) == Traits_getAttributeConst(p, id)
Global_isNull(p, index) == Traits_isNull(p, index)
getNumAttributes(p) == size(getElementRefConst(p))
Global_getNumAttributes(p) == getNumAttributes(p)

Update(p, t) == Valid(p) /\ heap' = [heap EXCEPT ![ptrs[p]] = t] /\ UNCHANGED <<ptrs, dying, wire, spoiled>>
Traits_setAttribute(p, id, v) == Update(p, setAttribute(getElementRef(p), id, v))
Traits_setNull(p, index, v) == Update(p, setNull(getElementRef(p), index, v))
Traits_setNullAll(p) == Update(p, setNullAll(getElementRef(p)))
Global_setAttribute(p, id, v) == Traits_setAttribute(p, id, v)
Global_setNull(p, index, v) == Traits_setNull(p, index, v)
Global_setNullAll(p) == Traits_setNullAll(p)

\* A sink serialises the tuple into the buffer it sends.
sendTuple(p, bytes) == Valid(p) /\ wire' = bytes /\ UNCHANGED <<heap, ptrs, dying, spoiled>>

\* Serialized and Deserialized are the byte format of tuples.  What happens
\* after a counter was wrong from the start is not followed.
HeapNext(Serialized(_), Deserialized(_)) ==
  /\ ~ spoiled
  /\ \/ \E p \in Pointers, o \in Objects :
          \/ \E i \in Ints, s \in Strings : makeTuplePtr(p, o, <<i, s>>)
          \/ \E q \in Pointers : copyTuple(p, q, o)
          \/ \E g \in Garbage : receiveTuple(p, o, Deserialized(wire), g)
     \/ \E p, q \in Pointers : copyPtr(p, q)
     \/ \E p \in Pointers :
          \/ destroyPointer(p) \/ deleteTuple(p) \/ Global_setNullAll(p)
          \/ sendTuple(p, Serialized(getElementRefConst(p)))
          \/ \E i \in Ints : Global_setAttribute(p, 0, i)
          \/ \E s \in Strings : Global_setAttribute(p, 1, s)
          \/ \E index \in 0 .. 1, b \in BOOLEAN : Global_setNull(p, index, b)

----------------------------------------------------------------------------
\* The pointers whose entry in f is o.
With(f, o) == {p \in Pointers : f[p] = o}

\* n converted to short.
Short(n) == IF n <= ShortMax THEN n ELSE n - 2 * (ShortMax + 1)

\* As long as no tuple was constructed from bytes over a counter that was not
\* 0 (the constructor does not set it) and there are no more pointers than a
\* short has values: a pointer never dangles, refCount is the number of
\* pointers converted to short (negative beyond ShortMax of them), and a tuple
\* nobody points to is being deleted, by one thread, however the two steps of
\* the releases interleave and although the counter overflows.
HandlesCounted ==
  ~ spoiled =>
    \A o \in Objects :
      LET held == Cardinality(With(ptrs, o))
          killers == Cardinality(With(dying, o))
      IN IF heap[o].live THEN refCount(heap[o]) = Short(held) /\ killers = IF held = 0 THEN 1 ELSE 0
         ELSE held = 0 /\ killers = 0
=============================================================================
