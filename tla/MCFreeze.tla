------------------------------ MODULE MCFreeze ------------------------------
(* An instance of FreezeProtocol: three parties of weight 2, 1 and 1.       *)
EXTENDS FreezeProtocol

CONSTANT heavy      \* the party of weight 2

\* n = 4, t = 1
Weights211 == [S \in SUBSET Party |-> Cardinality(S) + Cardinality(S \cap {heavy})]

AllFaultyMsgs == {m \in Message : m.src \in Faulty}

\* All of them but a vote for value 1, to keep the graph small.
SomeFaultyMsgs == {m \in AllFaultyMsgs : m.type = "Vote" => m.val # 1}
============================================================================
