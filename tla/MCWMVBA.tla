------------------------------ MODULE MCWMVBA ------------------------------
(* An instance of WMVBA: three parties of weight 2, 1 and 1.                *)
EXTENDS WMVBA

CONSTANT heavy      \* the party of weight 2

\* n = 4, t = 1
Weights211 == [S \in SUBSET Party |-> Cardinality(S) + Cardinality(S \cap {heavy})]

\* A good and a bad signature of every faulty party for one of the blocks.
SomeWitnesses == Faulty \X {CHOOSE v \in Val : TRUE} \X BOOLEAN
============================================================================
