\* Further properties on the instance of MCTelemetryEmitter.cfg.
SPECIFICATION FairSpec
CONSTANTS
    Events = 4
    Refused = {4}
    Queue = 3
    Batch = 2
    Threshold = 2
    Retries = 1
INVARIANTS
    TypeOK
    StoredOnce
PROPERTIES
    DropsAreReported
