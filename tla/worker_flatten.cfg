\* worker_flatten: see README.md
CONSTANTS
    c1 = c1
    c2 = c2
    Ops = {c1}
    Commands = {"flatten"}
    Modes = {"continuous"}
    QueueMax = 2
    MaxAttempts = 2
    MaxHeld = 1
SPECIFICATION Spec
CHECK_DEADLOCK FALSE
INVARIANTS NeverOversold
