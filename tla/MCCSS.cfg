SPECIFICATION FairSpec
CONSTANTS
    Party = {1, 2, 3}
    Faulty = {3}
    Weight <- Weights211
    Justifiable = {TRUE, FALSE}
    Faults <- FaultSets
INVARIANTS
    ReportInvariant
    NoLostWakeup
PROPERTIES
    ImplementsCoreSelection
    Termination
CHECK_DEADLOCK FALSE
