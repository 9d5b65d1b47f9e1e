SPECIFICATION Spec
CONSTANTS
    Infra = infra
    Gated = {support}
    RogueTasks = {rogue}
    Keys = {k1, k2}
    Handlers = {h1, h2}
    Viewers = {v1}
    Workers = {}
    None = None
SYMMETRY Symmetry
INVARIANTS
    TypeOK
    GateSound
    ExactlyOnce
    OncePerKey
    KillOnRecord
    ProbeDenied
PROPERTIES
    ImplementsFleet
    KillTerminal
