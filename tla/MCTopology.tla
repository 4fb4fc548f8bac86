----------------------------- MODULE MCTopology -----------------------------
(* Instances of Topology for TLC.                                          *)
EXTENDS Topology

\* Programs that are started: every kind of source alone, and a pair.
MCPrograms == {<<k>> : k \in Finite \cup Brokers} \cup {<<"file", "generator">>, <<"file", "rabbitmq">>}
=============================================================================
