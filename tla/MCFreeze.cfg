SPECIFICATION FairSpec
CONSTANTS
    heavy = a
    Party = {a, b, c}
    Faulty = {c}
    Weight <- Weights211
    Val = {1, 2}
    FaultyMsgs <- SomeFaultyMsgs
INVARIANTS
    Agreement
    CachesExact
    VoteJustification
    FinishNotMissed
PROPERTY
    Termination
