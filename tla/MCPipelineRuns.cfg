\* Two flow runs, two attempts each, one week closing on the way, and a clock
\* that lets a dead run's row expire.
SPECIFICATION Spec
CONSTANTS
    Runs = {r1, r2}
    WeekLength = 3
    Lookback = 2
    Attempts = 2
    AbandonAfter = 2
    MaxLife = 1
    Start = 8
    MaxClock = 10
    Asked = {0, 2, 3}
SYMMETRY RunSymmetry
INVARIANTS
    OneRunning
    LoadIsOfTheSnapshot
    OnlyRetriedRunsAreSwept
    EveryEndIsRecorded
PROPERTIES
    KeepsPromise
    SlotIsRecovered
