\* The panel fails the synchronous attempt once, the queue goes on.
CONSTANTS
    Requests = {r1}
    Workers = {w1}
    Sweepers = {s1}
    Passes = {}
    Hooks = {}
    Days = {1}
    Rates <- NoRates
    MaxAttempts = 2
    MaxTime = 1
    MaxDrift = 0
    MaxFaults = 1
    MaxLate = 0
SPECIFICATION FairSpec
PROPERTIES GrantReachesPanel
CHECK_DEADLOCK FALSE
