CONSTANTS
    Requests = {r1, r2}
    Languages = {l1, l2}
    Devices = {d1}
    Events = {e1, e2}
    WhoTTL = 1
    PanelTTL = 1
    Limit = 1
    Window = 2
    MaxTime = 3
    MaxBegun = 3
    MaxDead = 1
    MaxEdits = 2
    Mixes = {{"unlink", "devices"}, {"unlink", "webhook"}, {"devices", "connect", "webhook", "modify"}, {"update", "login", "devices"}, {"bot", "block", "login", "devices"}, {"usage", "grow"}, {"webhook", "modify", "known"}}
SPECIFICATION Spec
SYMMETRY Symmetric
INVARIANTS TypeOK StaleHasCause EventsOnce LimitIsKept
CHECK_DEADLOCK FALSE
