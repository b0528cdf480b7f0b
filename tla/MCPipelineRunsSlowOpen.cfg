\* A week closes between an attempt's closed_weeks() and its open_run().  TLC
\* finds SpanMatchesLoad violated, and without that line WeeksShowTheNewest.
SPECIFICATION Spec
CONSTANTS
    Runs = {r1, r2}
    WeekLength = 3
    Lookback = 2
    Attempts = 2
    AbandonAfter = 2
    MaxLife = 2
    Start = 8
    MaxClock = 11
    Asked = {0, 3}
INVARIANTS
    SpanMatchesLoad
    WeeksShowTheNewest
