CONSTANTS
    Requests = {r1, r2}
    Plans = {p1, p2}
    Codes = {c1, c2}
    Squads = {s1, s2}
    Mixes = {{"create", "update"}, {"create", "operator"}, {"update", "archive", "operator"}, {"archive", "grant", "change", "death"}, {"grant", "trial", "death"}}
    MaxBegun = 3
    MaxEdits = 1
    MaxDead = 1
SPECIFICATION Spec
SYMMETRY Symmetric
INVARIANTS TypeOK AuditTellsTheChange PlansStayInOrder
PROPERTIES ArchivedIsOffSale
CHECK_DEADLOCK FALSE
