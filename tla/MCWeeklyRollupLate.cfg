\* One late order, and a backfill of an older week between two scheduled runs.  TLC
\* finds SnapshotHolds violated, and without that line LateIsDetected.
SPECIFICATION Spec
CONSTANTS
    monterrey = monterrey
    zaragoza = zaragoza
    elsewhere = elsewhere
    acme = acme
    brio = brio
    p1 = p1
    p2 = p2
    o1 = o1
    NoValue = NoValue
    Warehouses = {monterrey, zaragoza}
    Clients = {acme, brio}
    Products <- MCProducts
    NewProducts = {}
    Reports <- MCLateReports
    Timestamps = {3}
    History <- MCHistory
    Ids = {1}
    WeekLength = 2
    Lookback = 2
    Start = 6
    MaxClock = 8
    MaxRuns = 3
INVARIANT
    LateIsDetected
PROPERTY
    SnapshotHolds
