SPECIFICATION Spec
CONSTANTS
    a = a
    b = b
    c = c
    Party = {a, b, c}
    Faulty = {}
    Weight <- Weights211
    MaxIndex = 3
    MaxLag = 0
    Proofs <- ThreeProofs
    Signature <- ValidSignatures
INVARIANTS
    
    AggregateValid

    
