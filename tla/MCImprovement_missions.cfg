SPECIFICATION FairImprovementSpec
CONSTANTS
    c1 = c1
    c2 = c2
    Candidates = {c1, c2}
    LastSlot = 4
    MaxFailures = 3
    FailureKinds = {"io", "torn", "crash", "late", "timeout"}
CHECK_DEADLOCK FALSE
INVARIANTS
    ImprovementTypeOK
    RepositorySound
    MissionsTruthful
PROPERTIES
    MissionSettles
