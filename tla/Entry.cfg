CONSTANTS
    Requests = {r1, r2}
    Keys = {k1, k2}
    Silent = {k2}
    Challenges = {c1, c2, c3}
    States = {s1, s2}
    Kids = {kid1, kid2, kid3}
    Mixes = {{"passkey", "expiry", "removal", "death"}, {"telegram", "rotation"}, {"telegram", "expiry", "death"}}
    MaxBegun = 3
    MaxDead = 1
SPECIFICATION Spec
SYMMETRY Symmetric
INVARIANTS TypeOK NobodyTurnedAway
PROPERTIES CountsHold ImplementsOneTimeValues
CHECK_DEADLOCK FALSE
