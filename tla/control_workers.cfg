SPECIFICATION Spec
CONSTANTS
    Infra = infra
    Gated = {support}
    RogueTasks = {}
    Keys = {k1, k2}
    Handlers = {h1}
    Viewers = {v1}
    Workers = {w1, w2}
    None = None
SYMMETRY Symmetry
INVARIANTS
    InFlightFenced
    LocksSound
