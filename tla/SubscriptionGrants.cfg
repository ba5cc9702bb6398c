\* Two requests overlap each other, the outbox worker and an operator, who may
\* delete the panel user and make one of the same name by hand.
CONSTANTS
    Requests = {r1, r2}
    Workers = {w1}
    Sweepers = {}
    Passes = {}
    Hooks = {h1}
    Days = {1}
    Rates <- NoRates
    MaxAttempts = 1
    MaxTime = 1
    MaxDrift = 2
    MaxLate = 1
    MaxFaults = 1
SPECIFICATION Spec
INVARIANTS TypeOK OnlyCommittedDatesTravel NothingBeyondJournal SerialGrantsAddUp
PROPERTIES ForeignUserLeftAlone
SYMMETRY SymRequests
CHECK_DEADLOCK FALSE
