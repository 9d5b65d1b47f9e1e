SPECIFICATION Spec
CONSTANTS
    Actions <- MCActions
    Most <- MCMost
    Spendings = {104, 220}
INVARIANTS TypeOK Corroborated DriftedNeedsApproval
PROPERTIES DriftGrows DecisionHolds
CHECK_DEADLOCK FALSE
