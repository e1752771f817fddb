------------------------ MODULE MCFinalizationQueue ------------------------
(* Instances of FinalizationQueue for TLC. *)
EXTENDS FinalizationQueue

CONSTANTS a, b, c

\* n = 4, t = 1
Weights211 == [S \in SUBSET {a, b, c} |-> Cardinality(S) + Cardinality(S \cap {a})]

AllProofs == {ps \in SUBSET Party : HasHonest(ps)}

\* an honest party's signature verifies
AllSignatures ==
    {s \in [party : Party, valid : BOOLEAN] : s.party \in Honest => s.valid}

\* proofs that overlap, and one that no other contains
ThreeProofs == {{a}, {a, b}, {b, c}}
ValidSignatures == [party : {b}, valid : {TRUE}]
============================================================================
