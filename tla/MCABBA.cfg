SPECIFICATION Spec
CONSTANTS
    heavy = a
    Party = {a, b, c}
    Faulty = {c}
    Weight <- Weights211
    MaxPhase = 2
    FaultyInputs <- BothInputs
    FaultyDone <- DoneBottom
INVARIANTS
    Agreement
    GradedAgreement
    Validity
    OutcomeRecomputed
CHECK_DEADLOCK FALSE
