SPECIFICATION FairSpec
CONSTANTS
    Infra = infra
    Gated = {support}
    RogueTasks = {rogue}
    Keys = {k1}
    Handlers = {h1}
    Viewers = {v1, v2}
    Workers = {}
    None = None
PROPERTIES
    Progress
