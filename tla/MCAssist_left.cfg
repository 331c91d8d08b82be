SPECIFICATION Spec
CONSTANTS
    c1 = c1
    c2 = c2
    Call = {c1, c2}
    Probe = {p1, p2, p3}
    Slots = 1
    MaxPerPass = 1
    Setups <- Troubles
INVARIANTS TypeOK RecordedTruly
PROPERTIES NothingLeft
