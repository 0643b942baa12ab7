SPECIFICATION Spec
CONSTANTS
    c1 = c1
    c2 = c2
    x1 = x1
    x2 = x2
    p1 = p1
    p2 = p2
    none = none
    Cars = {c1, c2}
    Codes = {x1, x2}
    Ports = {p1, p2}
    NoPort = none
    NoCode = none
    NoCar = none
    BadSlot = BadSlot
    StrongPort = p2
    MaxTurns = 0
    MaxScans = 2
    MaxResets = 1
INVARIANTS
    
    AnsweredIsRouted
PROPERTY
    ScanIsServed
CHECK_DEADLOCK FALSE
