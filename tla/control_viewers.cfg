SPECIFICATION Spec
CONSTANTS
    Infra = infra
    Gated = {support}
    RogueTasks = {rogue}
    Keys = {k1, k2}
    Handlers = {h1}
    Viewers = {v1, v2}
    Workers = {}
    None = None
SYMMETRY Symmetry
INVARIANTS
    NextStepExists
PROPERTIES
    HaltedIsInert
    OneStepPerWindow
