\* Two tabs of one browser, whose storage is shared or denied.
SPECIFICATION Spec
CONSTANTS
    Tabs = {"a", "b"}
    MaxTokens = 2
    MaxCalls = 5
INVARIANTS
    OneRedirect
    SignInIsNotForgotten
PROPERTY
    CheckEnds
CHECK_DEADLOCK FALSE
