------------------------------- MODULE MCABBA -------------------------------
(* Small instances of ABBA: three parties of weight 2, 1 and 1.             *)
EXTENDS ABBA

CONSTANT heavy      \* the party of weight 2

Weights211 == [S \in SUBSET Party |-> Cardinality(S) + Cardinality(S \cap {heavy})]

\* Faulty parties that nominate both choices.
BothInputs == {0} \X Faulty \X Choice

DoneBottom == Faulty \X {FALSE}
============================================================================
