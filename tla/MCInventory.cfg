\* Two requests and two seeds of two products, one fault.
SPECIFICATION Spec
CONSTANTS
    k1 = k1
    k2 = k2
    Requests = {r1, r2}
    Seeds = {s1, s2}
    NItems = 2
    Keys <- MCKeys
    ItemKey <- MCItemKey
    TargetStock <- MCTargetStock
    OutboundQuantity <- MCOutboundQuantity
    Quantities = {1, 2}
    MaxFaults = 1
SYMMETRY MCSymmetry
INVARIANTS
    SeedIsWhole
    SomeoneGoesOn
PROPERTY KeepsLedger
