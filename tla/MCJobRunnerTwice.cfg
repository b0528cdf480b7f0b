\* Two executions of one task, no faults and no time: what run_job's docstring
\* promises about the work of one job and date.
SPECIFICATION Spec
CONSTANTS
    Execs = {e1, e2}
    nightly = nightly
    other = other
    monday = monday
    tuesday = tuesday
    Tasks <- MCOneTask
    StaleAfter = 1
    MaxRun = 1
    MaxClock = 0
    Faults = {}
INVARIANTS
    OneCompletionPerDate
