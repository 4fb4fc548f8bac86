------------------------------- MODULE Tuples ---------------------------------
(***************************************************************************)
(* The formats of tuples: the bytes in which tuples and punctuations go     *)
(* over a network or into RocksDB, and the text in which they are read and  *)
(* printed; and the tuples of TupleHeap that are sent and received in them. *)
(* A byte is a number, a string a sequence of bytes.                        *)
(***************************************************************************)
EXTENDS TupleHeap, SequencesExt

----------------------------------------------------------------------------
(* serialize.hpp.  A type is a record: [k |-> "plain", w |-> its bytes],    *)
(* "string", "vector" or "tuple" (of).  Plain values are stored as the      *)
(* bytes they have in memory, little-endian, in two's complement.           *)

SizeT == 8
Plain(w) == [k |-> "plain", w |-> w]
String == [k |-> "string"]
Vector(ty) == [k |-> "vector", of |-> ty]
StdTuple(tys) == [k |-> "tuple", of |-> tys]

RECURSIVE get_size(_, _)

get_size_vector(ty, obj) == FoldLeft(LAMBDA acc, cur : acc + get_size(ty.of, cur), SizeT, obj)
get_size_string(obj) == SizeT + Len(obj)

RECURSIVE get_tuple_size(_, _, _)
get_tuple_size(tys, obj, idx) ==
  get_size(tys[idx], obj[idx]) + IF idx = Len(tys) THEN 0 ELSE get_tuple_size(tys, obj, idx + 1)

get_size_tuple(ty, obj) == get_tuple_size(ty.of, obj, 1)
get_size_plain(ty) == ty.w

get_size(ty, obj) ==
  CASE ty.k = "plain" -> get_size_plain(ty)
    [] ty.k = "string" -> get_size_string(obj)
    [] ty.k = "vector" -> get_size_vector(ty, obj)
    [] ty.k = "tuple" -> get_size_tuple(ty, obj)

RECURSIVE serializer(_, _)

\* The bytes above the fourth extend the sign.
serialize_plain(ty, obj) ==
  [i \in 1 .. ty.w |-> IF i <= 4 THEN (obj \div 256 ^ (i - 1)) % 256 ELSE IF obj < 0 THEN 255 ELSE 0]
serialize_string(obj) == serializer(Plain(SizeT), Len(obj)) \o FlattenSeq([i \in DOMAIN obj |-> serializer(Plain(1), obj[i])])
serialize_vector(ty, obj) == serializer(Plain(SizeT), Len(obj)) \o FlattenSeq([i \in DOMAIN obj |-> serializer(ty.of, obj[i])])

RECURSIVE serialize_tuple(_, _, _)
serialize_tuple(tys, obj, idx) ==
  serializer(tys[idx], obj[idx]) \o IF idx = Len(tys) THEN <<>> ELSE serialize_tuple(tys, obj, idx + 1)

\* Mutant of serializer: a string goes out without its length.
serializerNoLength(ty, obj) ==
  CASE ty.k = "plain" -> serialize_plain(ty, obj)
    [] ty.k = "string" -> [i \in DOMAIN obj |-> obj[i]]
    [] ty.k = "vector" -> serialize_vector(ty, obj)
    [] ty.k = "tuple" -> serialize_tuple(ty.of, obj, 1)

serializer(ty, obj) ==
  CASE ty.k = "plain" -> serialize_plain(ty, obj)
    [] ty.k = "string" -> serialize_string(obj)
    [] ty.k = "vector" -> serialize_vector(ty, obj)
    [] ty.k = "tuple" -> serialize_tuple(ty.of, obj, 1)

\* The buffer grows by get_size before the bytes are copied; an assertion
\* compares the two lengths.
serialize(ty, obj, res) == res \o serializer(ty, obj)
SizesAgree(ty, obj) == Len(serializer(ty, obj)) = get_size(ty, obj)

\* What the helpers leave: the value and the position; ok is false after an
\* assertion failed.
Read(v, at) == [ok |-> TRUE, v |-> v, at |-> at]
Assertion(v) == [ok |-> FALSE, v |-> v, at |-> 0]

RECURSIVE deserialize_helper(_, _, _)

deserialize_plain(ty, res, at) ==
  IF at + ty.w > Len(res) THEN Assertion(0)
  ELSE LET b(i) == res[at + i]
           signed(x) == IF x < 128 THEN x ELSE x - 256
       IN Read(IF ty.w = 1 THEN b(1) ELSE b(1) + 256 * b(2) + 65536 * b(3) + 16777216 * signed(b(4)), at + ty.w)

\* n values of one type after each other.
RECURSIVE deserialize_elements(_, _, _, _)
deserialize_elements(ty, n, res, at) ==
  IF n = 0 THEN Read(<<>>, at)
  ELSE LET x == deserialize_helper(ty, res, at)
           r == deserialize_elements(ty, n - 1, res, x.at)
       IN IF ~ x.ok THEN Assertion(<<>>) ELSE [r EXCEPT !.v = <<x.v>> \o @]

deserialize_vector(ty, res, at) ==
  LET n == deserialize_helper(Plain(SizeT), res, at)
  IN IF n.ok THEN deserialize_elements(ty.of, n.v, res, n.at) ELSE Assertion(<<>>)

deserialize_string(res, at) ==
  LET n == deserialize_helper(Plain(SizeT), res, at)
  IN IF n.ok THEN deserialize_elements(Plain(1), n.v, res, n.at) ELSE Assertion(<<>>)

RECURSIVE deserialize_tuple(_, _, _)
deserialize_tuple(tys, res, at) ==
  LET x == deserialize_helper(Head(tys), res, at)
      r == IF x.ok /\ Len(tys) > 1 THEN deserialize_tuple(Tail(tys), res, x.at) ELSE Read(<<>>, x.at)
  IN IF x.ok THEN [r EXCEPT !.v = <<x.v>> \o @] ELSE Assertion(<<>>)

deserialize_tuple_type(ty, res, at) == deserialize_tuple(ty.of, res, at)

deserialize_helper(ty, res, at) ==
  CASE ty.k = "plain" -> deserialize_plain(ty, res, at)
    [] ty.k = "string" -> deserialize_string(res, at)
    [] ty.k = "vector" -> deserialize_vector(ty, res, at)
    [] ty.k = "tuple" -> deserialize_tuple_type(ty, res, at)

deserializeAt(ty, res, at) == deserialize_helper(ty, res, at)
deserialize(ty, res) == deserializeAt(ty, res, 0)

\* A value of any type comes back from its bytes as it was, the announced
\* size is the real one, and a buffer that is cut short is noticed.
CodecExact(ty, obj) ==
  LET bytes == serialize(ty, obj, <<>>)
  IN /\ SizesAgree(ty, obj)
     /\ deserialize(ty, bytes) = Read(obj, Len(bytes))
     /\ \A n \in 0 .. Len(bytes) - 1 : ~ deserialize(ty, SubSeq(bytes, 1, n)).ok

----------------------------------------------------------------------------
(* Tuple: an int and a string, and a bit per attribute that says it is null. *)

Base == StdTuple(<<Plain(4), String>>)
\* std::bitset: a word with bit i for attribute i.
Bits(nulls) == (IF 0 \in nulls THEN 1 ELSE 0) + (IF 1 \in nulls THEN 2 ELSE 0)
FromBits(word) == {i \in 0 .. 1 : (word \div 2 ^ i) % 2 = 1}

\* Mutant of serializeToStream: the null bits stay behind.
serializeToStreamNoNulls(t, res) ==
  serialize(Plain(8), 0, serialize(Base, t.data, serialize(Plain(4), 0, res)))

serializeToStream(t, res) ==
  serialize(Plain(8), Bits(t.nulls), serialize(Base, t.data, serialize(Plain(4), 0, res)))

deserializeFromStream(res) ==
  LET type == deserializeAt(Plain(4), res, 0)
      base == deserializeAt(Base, res, type.at)
      bits == deserializeAt(Plain(8), res, base.at)
  IN IF type.ok /\ base.ok /\ bits.ok
     THEN Read([TupleFromBase(base.v) EXCEPT !.nulls = FromBits(bits.v)], bits.at)
     ELSE Assertion(Freed)

\* Punctuations: the data of one (the transaction of a commit) is not sent.
PunctuationToStream(p, res) == serialize(Plain(4), p.ptype, serialize(Plain(8), p.ts, serialize(Plain(4), 1, res)))
PunctuationFromStream(res) ==
  LET type == deserializeAt(Plain(4), res, 0)
      ts == deserializeAt(Plain(8), res, type.at)
      pt == deserializeAt(Plain(4), res, ts.at)
  IN [ptype |-> pt.v, ts |-> ts.v]

----------------------------------------------------------------------------
(* Text.  A piece of text is a number or a word of some length; a string    *)
(* attribute is a sequence of pieces, more than one if it has commas in it.  *)

Number(n) == [num |-> TRUE, n |-> n, len |-> 1]
Word(n, len) == [num |-> FALSE, n |-> n, len |-> len]
Attr(ty, n, s) == [ty |-> ty, n |-> n, s |-> s]

\* operator<< of a double writes six significant digits.
SixDigits(n) == IF n < 1000000 THEN n ELSE ((n + 5) \div 10) * 10
Text(a) == IF a.ty = "string" THEN a.s ELSE <<Number(IF a.ty = "double" THEN SixDigits(a.n) ELSE a.n)>>

\* Fields are separated by commas: the pieces of all attributes in a row.
RECURSIVE TuplePrinter(_, _)
TuplePrinter(t, i) == IF i = 0 THEN <<>> ELSE TuplePrinter(t, i - 1) \o Text(t[i])
print(t) == TuplePrinter(t, Len(t))

Bad == Attr("exception", 0, <<>>)

\* lexical_cast: what is no number throws.
parseGeneric(piece) == IF piece.num THEN Attr("other", piece.n, <<>>) ELSE Bad
\* atoi, atol and atof: what is no number is 0.
parseInt(piece) == Attr("int", IF piece.num THEN piece.n ELSE 0, <<>>)
parseLong(piece) == Attr("long", IF piece.num THEN piece.n ELSE 0, <<>>)
parseDouble(piece) == Attr("double", IF piece.num THEN piece.n ELSE 0, <<>>)
parseString(piece) == Attr("string", 0, <<piece>>)

StringAttributeParser(ty, piece) ==
  CASE ty = "int" -> parseInt(piece) [] ty = "long" -> parseLong(piece) [] ty = "double" -> parseDouble(piece)
    [] ty = "string" -> parseString(piece) [] ty = "other" -> parseGeneric(piece)

\* Strings of a StringRef are cut.
parseRefString(piece) == Attr("string", 0, <<IF piece.len > 1023 THEN [piece EXCEPT !.len = 1023] ELSE piece>>)
StringRefAttributeParser(ty, piece) == IF ty = "string" THEN parseRefString(piece) ELSE StringAttributeParser(ty, piece)

\* SelectAttributeParser picks the parser by the representation.
SelectAttributeParser(ty, ref, piece) ==
  IF ref THEN StringRefAttributeParser(ty, piece) ELSE StringAttributeParser(ty, piece)
parseAttribute(ty, ref, piece) == SelectAttributeParser(ty, ref, piece)

\* From the last attribute to the first.
RECURSIVE parseTupleImpl(_, _, _, _)
parseTupleImpl(tys, ref, pieces, i) ==
  (IF i = 1 THEN <<>> ELSE parseTupleImpl(tys, ref, pieces, i - 1)) \o <<parseAttribute(tys[i], ref, pieces[i])>>

\* Mutant of parseTuple: surplus fields are ignored.
parseTupleSurplus(tys, pieces) ==
  IF Len(pieces) < Len(tys) THEN [ok |-> FALSE, t |-> <<>>]
  ELSE [ok |-> Bad \notin ToSet(parseTupleImpl(tys, FALSE, pieces, Len(tys))), t |-> parseTupleImpl(tys, FALSE, pieces, Len(tys))]

parseTuple(tys, pieces) ==
  IF Len(pieces) # Len(tys) THEN [ok |-> FALSE, t |-> <<>>]
  ELSE [ok |-> Bad \notin ToSet(parseTupleImpl(tys, FALSE, pieces, Len(tys))), t |-> parseTupleImpl(tys, FALSE, pieces, Len(tys))]

\* The array of references has a fixed size; nobody counts.
parseTupleRefs(tys, pieces) == parseTupleImpl(tys, TRUE, pieces, Len(tys))

\* What a tuple prints is read back as that tuple, or refused because a string
\* has a comma in it; never as another tuple.  (Doubles of up to six digits;
\* by reference, strings that are neither cut nor split.)
TextExact(t) ==
  LET tys == [i \in DOMAIN t |-> t[i].ty]
      back == parseTuple(tys, print(t))
  IN (\A i \in DOMAIN t : t[i].ty # "double" \/ t[i].n < 1000000) =>
       /\ back.ok => back.t = t
       /\ (\A i \in DOMAIN t : Len(Text(t[i])) = 1) => back.ok
       /\ (\A i \in DOMAIN t : Len(Text(t[i])) = 1 /\ Text(t[i])[1].len <= 1023) => parseTupleRefs(tys, print(t)) = t

\* Recursively, from the last attribute; id 0 ends it.
RECURSIVE ElementsEqual(_, _, _)
ElementsEqual(p, q, id) ==
  id > 0 => /\ Global_getAttributeConst(p, id - 1) = Global_getConst(q, id - 1)
            /\ ElementsEqual(p, q, id - 1)
elementsEqual(p, q) == ElementsEqual(p, q, Global_getNumAttributes(p))

TuplesNext ==
  LET Serialized(t) == serializeToStream(t, <<>>)
      Deserialized(bytes) == deserializeFromStream(bytes).v
  IN HeapNext(Serialized, Deserialized)

----------------------------------------------------------------------------
\* A tuple that is received is equal to the one that was sent, null bits
\* included; a message that is cut short is noticed; and two tuples are equal
\* (elementsEqual, which ignores the null bits) exactly if their data has the
\* same bytes.
WireExact ==
  \A p \in Pointers : Valid(p) =>
    LET bytes == serializeToStream(heap[ptrs[p]], <<>>)
        back == deserializeFromStream(bytes)
    IN /\ back.ok /\ back.at = Len(bytes)
       /\ \A i \in 0 .. NUM_ATTRIBUTES - 1 :
            /\ getAttribute(back.v, i) = Global_getAttribute(p, i) /\ getAttribute(back.v, i) = Global_get(p, i)
            /\ isNull(back.v, i) = Global_isNull(p, i)
       /\ ~ deserializeFromStream(SubSeq(bytes, 1, Len(bytes) - 1)).ok
       /\ \A q \in Pointers : Valid(q) =>
            (elementsEqual(p, q) <=> serializer(Base, data(heap[ptrs[p]])) = serializer(Base, data(heap[ptrs[q]])))
=============================================================================
