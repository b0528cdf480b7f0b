\* One task with one retry of its own and one of the recorder's, up to three of
\* its messages in flight, and two faults.
SPECIFICATION FairSpec
CONSTANTS
    Jobs = {j1}
    Ids <- MCIds
    MaxRetries = 1
    RecorderRetries = 1
    MaxFaults = 2
INVARIANTS
    FailureIsRecorded
PROPERTIES
    MarkerOverwritesNothing
    AcceptedEnds
