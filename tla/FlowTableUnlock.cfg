SPECIFICATION Spec
CONSTANTS
    Entry = {e1, e2}
    None = None
    Fd = {d1}
    Races = {"flock"}
    MaxFlows = 3
    MaxVisits = 2
INVARIANTS
    HeldIsLive
CHECK_DEADLOCK FALSE
