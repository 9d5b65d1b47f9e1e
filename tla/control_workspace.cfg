SPECIFICATION Spec
CONSTANTS
    Infra = infra
    Gated = {sales, support}
    RogueTasks = {rogue}
    Keys = {k1}
    Handlers = {h1}
    Viewers = {v1}
    Workers = {}
    None = None
SYMMETRY Symmetry
INVARIANTS
    StartAllWhole
