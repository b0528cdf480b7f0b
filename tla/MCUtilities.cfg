SPECIFICATION Spec
CONSTANTS
    MaxItems = 3
INVARIANTS
    SearchIsConjunction
    SortIsLexicographic
    SearchesAgree
PROPERTY
    OneRoundIsEnough
CHECK_DEADLOCK FALSE
