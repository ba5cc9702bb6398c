\* Two grants read the same row.
CONSTANTS
    Requests = {r1, r2}
    Workers = {}
    Sweepers = {}
    Passes = {}
    Hooks = {}
    Days = {1}
    Rates <- NoRates
    MaxAttempts = 2
    MaxTime = 1
    MaxDrift = 0
    MaxFaults = 0
    MaxLate = 0
SPECIFICATION Spec
INVARIANTS NoGrantIsLost
CHECK_DEADLOCK FALSE
