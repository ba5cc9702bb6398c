CONSTANTS
    Requests = {r1, r2}
    Addresses = {a1, a2}
    First = a1
    MaxBegun = 4
    MaxDead = 1
SPECIFICATION FairSpec
INVARIANTS TypeOK OneWorkingLink ResetEndsSessions
PROPERTIES OverwritesNobody RequestsEnd
CHECK_DEADLOCK FALSE
