SPECIFICATION Spec
CONSTANTS
    Users = {u1, u2, u3}
    Telegrams = {t1, t2}
    Keys = {k1, k2}
    Links = {c1, c2}
    Challenges = {h1}
    States = {s1}
    Requests = {r1, r2}
    Registered = {u1}
    Visitors = {u2}
    MaxBegun = 4
    MaxDead = 1
SYMMETRY Symmetry
CHECK_DEADLOCK FALSE
INVARIANTS TypeOK AccountsStayOpen OneAccountPerTelegram TrialOnce
PROPERTIES LinkingTakesNothing
