------------------------------- MODULE MCCSS -------------------------------
(* Small instances of CSSProtocol: three parties of weight 2, 1 and 1.     *)
EXTENDS CSSProtocol

Weights211 == [S \in SUBSET Party |-> Cardinality(S) + Cardinality(S \cap {1})]

faulty == CHOOSE p \in Faulty : TRUE

\* A faulty party nominates both choices ...
TwoInputs == {Input(faulty, TRUE), Input(faulty, FALSE)}

\* ... or claims to have seen nominations of the others, one by one, and is done
\* with both.
FalseReports ==
    {Seen(faulty, {<<1, TRUE>>}), Seen(faulty, {<<2, FALSE>>}),
     DoneReporting(faulty, {<<1, TRUE>>, <<2, FALSE>>})}

FaultSets == {TwoInputs, FalseReports}
============================================================================
