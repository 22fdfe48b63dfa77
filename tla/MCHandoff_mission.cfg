SPECIFICATION Spec
CONSTANTS
    LastHandoff = 2
    ParticipantCount = 2
    Flows = {"mission"}
    Serial = TRUE
    FaultKinds <- StartFaults
    MaxFaults = 2
INVARIANTS
    TypeOK
    SingleOwner
    AcceptedOwnerComplete
CHECK_DEADLOCK FALSE
