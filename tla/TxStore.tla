------------------------------ MODULE TxStore -------------------------------
(***************************************************************************)
(* What the tables of a topology group promise to the topology that writes *)
(* them: the stream elements between TxBegin and TxCommit take effect in   *)
(* all tables in one indivisible step, those of an aborted transaction     *)
(* never do.                                                               *)
(***************************************************************************)
EXTENDS Integers

CONSTANTS Tables, Keys, Values,
          NoValue,    \* the key is not in the table
          Untouched   \* the transaction did not insert the key

VARIABLES
    db,       \* committed value of every key in every table
    running,  \* a write transaction has begun
    want      \* the smallest value it has inserted for each key

Init ==
    /\ \E f \in [Keys -> Values \cup {NoValue}] : db = [t \in Tables |-> f]
    /\ running = FALSE
    /\ want = [k \in Keys |-> Untouched]

Begin ==
    /\ ~running
    /\ running' = TRUE
    /\ UNCHANGED <<db, want>>

Insert(k, v) ==
    /\ running
    /\ want' = [want EXCEPT ![k] = IF @ = Untouched \/ v < @ THEN v ELSE @]
    /\ UNCHANGED <<db, running>>

Abort ==
    /\ running
    /\ running' = FALSE
    /\ want' = [k \in Keys |-> Untouched]
    /\ UNCHANGED db

Commit ==
    /\ running
    /\ running' = FALSE
    /\ db' = [t \in Tables |-> [k \in Keys |->
                 IF want[k] = Untouched THEN db[t][k] ELSE want[k]]]
    /\ want' = [k \in Keys |-> Untouched]

Next ==
    \/ Begin
    \/ \E k \in Keys, v \in Values : Insert(k, v)
    \/ Abort
    \/ Commit

Spec == Init /\ [][Next]_<<db, running, want>>
=============================================================================
