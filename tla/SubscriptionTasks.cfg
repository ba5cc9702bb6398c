\* One request meets the worker, the expiry task, the sweep and an operator; a
\* write may come late and an earlier row may end the sweeps.
CONSTANTS
    Requests = {r1}
    Workers = {w1}
    Sweepers = {s1}
    Passes = {p1}
    Hooks = {}
    Days = {1}
    Rates <- HalfRate
    MaxAttempts = 2
    MaxTime = 1
    MaxDrift = 1
    MaxLate = 1
    MaxFaults = 1
SPECIFICATION FairSpec
INVARIANTS ExpiredByItsDate SerialGrantsAddUp
PROPERTIES PanelCatchesUp DueSubscriptionsEnd
CHECK_DEADLOCK FALSE
