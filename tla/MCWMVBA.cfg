SPECIFICATION FairSpec
CONSTANTS
    Party = {a, b, c}
    Faulty = {c}
    heavy = a
    Weight <- Weights211
    Val = {v, w}
    Nothing = Nothing
    Passive = {o}
    FaultyWitnesses <- SomeWitnesses
INVARIANTS
    RoundAgreement
    ProofsVerify
    BadSignatures
PROPERTY
    ProofCreated
CHECK_DEADLOCK FALSE
