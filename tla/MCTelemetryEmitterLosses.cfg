\* Is every loss told?
SPECIFICATION Spec
CONSTANTS
    Events = 4
    Refused = {4}
    Queue = 3
    Batch = 2
    Threshold = 2
    Retries = 1
INVARIANTS
    LossesAreTold
