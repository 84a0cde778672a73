\* supervisor_account: see README.md
CONSTANTS
    r1 = r1
    r2 = r2
    g1 = g1
    g2 = g2
    p1 = p1
    p2 = p2
    Runs = {r1, r2}
    Groups = {g1, g2}
    ModelGroups = {}
    LiveGroups = {g1, g2}
    Account <- OneAccount
    Pollers = {p1}
    ModelLimit = 1
    MaxReloads = 1
    MaxRestarts = 0
    Offered = {"stop"}
    Events = {"crash"}
SPECIFICATION Spec
CHECK_DEADLOCK FALSE
SYMMETRY RunSymmetry
INVARIANTS OneLiveRunPerAccount
