----------------------------- MODULE MCOperators -----------------------------
EXTENDS Operators

\* Key 5 is 1 as an int of two bits.
MCLeft == {[key |-> 1, val |-> 1], [key |-> 5, val |-> 1]}
MCRight == {[key |-> 1, val |-> 1], [key |-> 1, val |-> 2], [key |-> 5, val |-> 2]}
MCTriples == {[subj |-> "s1", pred |-> "p1", obj |-> "o1"], [subj |-> "s1", pred |-> "p1", obj |-> "o2"],
              [subj |-> "s1", pred |-> "p2", obj |-> "o1"], [subj |-> "s1", pred |-> "p3", obj |-> "o1"],
              [subj |-> "s2", pred |-> "p2", obj |-> "o1"]}
MCChains == {<<>>, <<"map", "where", "notify">>, <<"where", "batch", "unbatch", "map">>,
             <<"batchAll", "unbatch">>, <<"statefulMap">>}
MCFiles == {<<>>} \union
  {<<l1, l2, l3>> : l1, l2, l3 \in {<<"a", "b", "c">>, <<"d">>, <<"e", "f">>, <<"g", Null>>, <<>>}}
MCCells == {<<0, 0>>, <<1, 0>>}
MCSources == {[c \in MCCells |-> c[1] + k] : k \in 0 .. 1} \union {[c \in MCCells |-> 0]}
MCBarrierPlans == {NoBarriers} \union [barriers : 1 .. 2, notify : {"one", "all"}]
=============================================================================
