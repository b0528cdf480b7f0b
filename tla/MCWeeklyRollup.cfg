\* Two events more in three weeks, a product that gets an owner, and two runs: by the
\* schedule or of one week.
SPECIFICATION Spec
CONSTANTS
    monterrey = monterrey
    zaragoza = zaragoza
    elsewhere = elsewhere
    acme = acme
    brio = brio
    p1 = p1
    p2 = p2
    o1 = o1
    NoValue = NoValue
    Warehouses = {monterrey, zaragoza}
    Clients = {acme, brio}
    Products <- MCProducts
    NewProducts <- MCNewProducts
    Reports <- MCReports
    Timestamps = {1, 3}
    History <- MCHistory
    Ids = {1, 2}
    WeekLength = 2
    Lookback = 2
    Start = 4
    MaxClock = 5
    MaxRuns = 2
PROPERTIES
    PublishesTheFacts
    LateEventsInflateNothing
