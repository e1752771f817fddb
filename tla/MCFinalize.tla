----------------------------- MODULE MCFinalize -----------------------------
(* Small instances of Finalize: three parties of weight 2, 1 and 1.         *)
EXTENDS Finalize

Weights211 == [S \in SUBSET Party |-> Cardinality(S) + Cardinality(S \cap {1})]

\* Different rounds of an index decide on different blocks.
TwoBlocks == [i \in Index |-> [d \in Delta |-> <<i, IF d = 1 THEN "v" ELSE "w">>]]

\* Some messages of the third party, whose own state is not looked at.
ThirdParty ==
    {[type |-> "WeAreDone", index |-> 1, delta |-> d, src |-> 3, val |-> d = 2] : d \in Delta}
        \cup {[type |-> "Witness", index |-> 1, delta |-> 1, src |-> 3, val |-> <<1, "v">>]}

LateBlock == {<<1, "v">>}
============================================================================
