SPECIFICATION Spec
CONSTANTS
    Infra = infra
    Gated = {support}
    RogueTasks = {rogue1, rogue2}
    Keys = {k1, k2, k3, k4}
    Handlers = {h1}
    Viewers = {v1}
    Workers = {}
    None = None
SYMMETRY Symmetry
INVARIANTS
    OneActiveRun
    RowsAgree
    ContainedUntilResumed
