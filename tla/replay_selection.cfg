SPECIFICATION Spec
CONSTANTS
    Agents = {a, b}
    Limits = {5, 20}
    Lookups = {k1, k2}
    MaxSes = 2
    None = None
INVARIANT ReplayIsSelection
CHECK_DEADLOCK FALSE
