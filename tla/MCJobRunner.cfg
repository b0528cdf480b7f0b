\* Two executions over two dates and two jobs, every fault, and runs that may
\* outlive STALE_AFTER, so that a live execution can be swept.
SPECIFICATION FairSpec
CONSTANTS
    Execs = {e1, e2}
    nightly = nightly
    other = other
    monday = monday
    tuesday = tuesday
    Tasks <- MCTasks
    StaleAfter = 1
    MaxRun = 2
    MaxClock = 2
    Faults = {"work", "database", "signal", "kill"}
INVARIANTS
    WorkExclusive
    OutcomeTruthful
    RerunsSkip
PROPERTIES
    Recovers
