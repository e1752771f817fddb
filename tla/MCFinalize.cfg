SPECIFICATION Spec
CONSTANTS
    Party = {1, 2, 3}
    Faulty = {3}
    Weight <- Weights211
    MaxIndex = 2
    MaxDelta = 2
    GrowFactor = 2
    ShrinkDivisor = 2
    Frozen <- TwoBlocks
    Late <- LateBlock
    FaultyMsgs <- ThirdParty
INVARIANTS
    FinalAgreement
    PendingHandled
    NeverStuck
CHECK_DEADLOCK FALSE
