\* supervisor_slots: see README.md
CONSTANTS
    r1 = r1
    r2 = r2
    g1 = g1
    g2 = g2
    p1 = p1
    p2 = p2
    Runs = {r1, r2}
    Groups = {g1, g2}
    ModelGroups = {g1, g2}
    LiveGroups = {}
    Account <- OneAccount
    Pollers = {p1}
    ModelLimit = 1
    MaxReloads = 1
    MaxRestarts = 1
    Offered = {"stop", "halt", "resume"}
    Events = {"unready"}
SPECIFICATION Spec
CHECK_DEADLOCK FALSE
SYMMETRY RunSymmetry
INVARIANTS TypeOK SlotsRespected LiveRunIsManaged
