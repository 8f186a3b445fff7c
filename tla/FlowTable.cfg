SPECIFICATION Spec
CONSTANTS
    Entry = {e1, e2}
    None = None
    Fd = {d1}
    Races = {}
    MaxFlows = 3
    MaxVisits = 2
INVARIANTS
    TypeOK
    HeldIsLive
    NothingLeaks

    
CHECK_DEADLOCK FALSE
