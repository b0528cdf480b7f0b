\* Three requests over one stored incident and one to create, two views, a cache
\* of one entry.
SPECIFICATION Spec
CONSTANTS
    Incidents = {i1, i2}
    Stored = {i1}
    Requests = {r1, r2, r3}
    Views = {list, summary}
    MaxEntries = 1
SYMMETRY MCSymmetry
INVARIANTS
    ServedIsRecent
