SPECIFICATION Spec
CONSTANTS
    Tabs = {t1, t2}
    MaxWs = 2
    Window = 3
    Leeway = 1
    Skews <- MCSkews
    MaxAge = 4
    None = None
INVARIANTS TypeOK SeededOnce OneChain StreamIsOwn
PROPERTIES WindowHolds FollowsCookie
CHECK_DEADLOCK FALSE
