SPECIFICATION Spec
CONSTANTS
    Teams = {All, Ops}
    Every = All
    Slots = {s1, s2}
    MaxSes = 2
    MaxVer = 1
    None = None
INVARIANTS TypeOK BusyIsCommand
PROPERTIES NoForeignRows SessionKept AlwaysUsable EventuallyCurrent
CHECK_DEADLOCK FALSE
