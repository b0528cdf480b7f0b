\* Four events, the last of which the endpoint refuses; a queue of three, batches of
\* two, one retry.
SPECIFICATION FairSpec
CONSTANTS
    Events = 4
    Refused = {4}
    Queue = 3
    Batch = 2
    Threshold = 2
    Retries = 1
PROPERTIES
    NothingVanishes
    EventsLeave
