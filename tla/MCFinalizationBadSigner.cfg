SPECIFICATION Spec
CONSTANTS
    a = a
    b = b
    c = c
    Party = {a, b, c}
    Faulty = {c}
    Weight <- Weights211
    MaxIndex = 1
    MaxLag = 0
    Proofs <- AllProofs
    Signature <- AllSignatures
INVARIANT
    AggregateValid
