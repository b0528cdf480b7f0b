\* One incident, two suppliers, two products, four weeks, three candidates, and two notes,
\* with the requests, submits and changes by others that each page needs.
SPECIFICATION Spec
CONSTANTS
    Incidents = {"i1"}
    Origin <- MCOrigin
    FilterValues <- MCFilterValues
    MaxChanges = 2
    Fields = {"title", "origin"}
    Ids <- MCIds
    Initial = {"s1"}
    Country <- MCCountry
    Countries = {"Spain"}
    Rates = {2}
    Products = {"p1", "p2"}
    MaxQuantity = 1
    MaxStock = 2
    MaxOrders = 2
    Weeks <- MCWeeks
    Calculated = {2, 3}
    Candidates = {"c1", "c2", "c3"}
    Known = {"c1"}
    Status <- MCStatus
    Values = {"a"}
    Notes = {"n1", "n2"}
    Written = {"n1"}
    Requests <- MCRequests
    Submits <- MCSubmits
    OthersChange <- MCOthersChange
INVARIANTS
    ListMatchesFilters
    NoPhantomStatus
    SummaryCoversConfirmed
    FlowsEndOnce
    DraftOnShownRate
    RefusalReadsStockAgain
    FiguresAreOfTheShownWeek
    SettledIsNotSentAgain
PROPERTIES
    OnlySavesReplaceEdits
    WaitingEnds
CHECK_DEADLOCK FALSE
