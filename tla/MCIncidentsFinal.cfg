\* The documented rule that a final status stays, on a smaller instance: two
\* requests about one incident.
SPECIFICATION Spec
CONSTANTS
    Incidents = {i1}
    Stored = {i1}
    Requests = {r1, r2}
    Views = {list}
    MaxEntries = 1
SYMMETRY MCSymmetry
PROPERTIES
    FinalIsFinal
