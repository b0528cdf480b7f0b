\* Four weeks, of which two are calculated when the page opens.
SPECIFICATION Spec
CONSTANTS
    Weeks = {1, 2, 3, 4}
    Calculated = {2, 3}
    MaxRequests = 4
PROPERTY
    LoadingEnds
CHECK_DEADLOCK FALSE
