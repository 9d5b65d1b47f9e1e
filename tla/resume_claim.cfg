SPECIFICATION Spec
CONSTANTS
    Infra = infra
    Gated = {support}
    RogueTasks = {}
    Keys = {k1, k2}
    Handlers = {h1}
    Viewers = {v1}
    Workers = {}
    None = None
SYMMETRY Symmetry
PROPERTIES
    ResumeNeedsDecidedGate
