\* supervisor_run: see README.md
CONSTANTS
    r1 = r1
    r2 = r2
    g1 = g1
    g2 = g2
    p1 = p1
    p2 = p2
    Runs = {r1}
    Groups = {g1}
    ModelGroups = {g1}
    LiveGroups = {g1}
    Account <- OneAccount
    Pollers = {p1}
    ModelLimit = 1
    MaxReloads = 0
    MaxRestarts = 1
    Offered = {"stop", "flatten"}
    Events = {"deadline", "error", "partial", "crash"}
SPECIFICATION FairSpec
CHECK_DEADLOCK FALSE
INVARIANTS NoFalseSuccess
PROPERTIES EndedRunIsReleased StopEndsRun
