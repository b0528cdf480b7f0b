\* Further properties on the instance of MCTaskQueue.cfg.
SPECIFICATION FairSpec
CONSTANTS
    Jobs = {j1}
    Ids <- MCIds
    MaxRetries = 1
    RecorderRetries = 1
    MaxFaults = 2
INVARIANTS
    TypeOK
    AcceptedIsCarried
    LetterTellsAttempts
PROPERTIES
    FailureSettles
