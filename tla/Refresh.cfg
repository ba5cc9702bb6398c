\* Two tabs, a sign-out, two failures.
CONSTANTS
    Tabs = {t1, t2}
    Logouts = {o1}
    Revokers = {}
    Window = 0
    AccessTTL = 1
    Lifetime = 2
    MaxTime = 2
    MaxTokens = 3
    MaxLost = 2
SPECIFICATION FairSpec
INVARIANTS TypeOK RevocationShuts InOrderStaysIn
PROPERTIES NoFalseAlarm RefreshEnds
CHECK_DEADLOCK FALSE
