\* Two tabs exchange at once.
CONSTANTS
    Tabs = {t1, t2}
    Logouts = {}
    Revokers = {}
    Window = 1
    AccessTTL = 1
    Lifetime = 3
    MaxTime = 1
    MaxTokens = 3
    MaxLost = 0
SPECIFICATION Spec
SYMMETRY SymTabs
INVARIANTS TabsStaySignedIn
CHECK_DEADLOCK FALSE
