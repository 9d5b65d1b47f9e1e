SPECIFICATION Spec
CONSTANTS
    Agents = {1, 2}
    TeamOf <- MCTeamOf
    Txs = {t1, t2}
    Dashboards = {d}
    Natives = {n}
    Scope <- MCScope
    Page = 2
    MaxSeq = 3
    All = All
    None = None
INVARIANTS TypeOK SequencesDense NothingSkipped NoWaitCycle
PROPERTIES ImplementsFeed
CHECK_DEADLOCK FALSE
