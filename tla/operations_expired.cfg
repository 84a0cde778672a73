\* operations_expired: see README.md
CONSTANTS
    o1 = o1
    o2 = o2
    h1 = h1
    h2 = h2
    Ops = {o1}
    Handlers = {h1, h2}
    Kinds = {"stop"}
    MaxRestarts = 0
    Faults = {"expiry"}
SPECIFICATION Spec
CHECK_DEADLOCK FALSE
SYMMETRY Symmetry
INVARIANTS ExpiredWasNotExecuted
