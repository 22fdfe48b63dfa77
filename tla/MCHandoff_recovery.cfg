SPECIFICATION FairSpec
CONSTANTS
    LastHandoff = 2
    ParticipantCount = 2
    Flows = {"mission", "settings"}
    Serial = TRUE
    FaultKinds <- StopFaults
    MaxFaults = 2
CHECK_DEADLOCK FALSE
PROPERTIES
    ServiceRecovers
