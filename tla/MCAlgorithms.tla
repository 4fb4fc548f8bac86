---------------------------- MODULE MCAlgorithms ------------------------------
(* Small matrices, pointers, values and inputs for the algorithms. *)
EXTENDS Algorithms

MCStrings == {<<>>, <<72, 0>>}
MCInts == {-70000}
MCGarbage == {-1, 0}
MCCodecInputs ==
  LET ints == {0, 1, -1, 255, 256, -129, 16777216, -70000}
      strings == {<<>>, <<0>>, <<255, 1, 0>>}
      vectors == {<<>>, <<0>>, <<-1, 300>>}
  IN {<<Plain(4), i>> : i \in ints} \union {<<String, s>> : s \in strings}
     \union {<<Vector(Plain(4)), v>> : v \in vectors}
     \union {<<Vector(String), v>> : v \in {<<>>, <<<<>>>>, <<<<1, 2>>, <<>>, <<3>>>>}}
     \union {<<StdTuple(<<Plain(4), String, Vector(Plain(4))>>), <<i, s, v>>>> : i \in ints, s \in strings, v \in vectors}
     \union {<<StdTuple(<<StdTuple(<<Plain(4)>>), Plain(8)>>), <<<<i>>, 9>>>> : i \in ints}

MCTextInputs ==
  LET word == Word(7, 3)
      long == Word(8, 2000)
      attrs == {Attr("int", -4, <<>>), Attr("long", 12, <<>>), Attr("double", 999999, <<>>), Attr("double", 1234567, <<>>),
                Attr("other", 3, <<>>), Attr("string", 0, <<word>>), Attr("string", 0, <<long>>),
                Attr("string", 0, <<Number(5)>>), Attr("string", 0, <<word, Number(5)>>)}
  IN attrs \X attrs \union attrs \X attrs \X attrs

MCSpeedAt(v, t) == (v * 20 + t) % 70
MCPlaces ==
  LET Place(s, l, pos) == [x |-> 0, l |-> l, d |-> 0, s |-> s, pos |-> pos]
  IN {Place(4, 1, 400), Place(4, 4, 410), Place(5, 1, 500), Place(6, 2, 600)}

MCMetadataTriples ==
  <<[kind |-> "clusters", n |-> 3], [kind |-> "property", id |-> "p"],
    [kind |-> "clusters", n |-> 2], [kind |-> "property", id |-> "r"]>>
MCProperties == <<"p", "q", "r">>
MCOffered == [p |-> {-1, 1, 4}, q |-> {7}, r |-> {2, EmptyLiteral}]
MCOutOfBounds == {0, 9}
MCTransProb == <<2, 3>>
=============================================================================
