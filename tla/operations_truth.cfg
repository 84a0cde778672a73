\* operations_truth: see README.md
CONSTANTS
    o1 = o1
    o2 = o2
    h1 = h1
    h2 = h2
    Ops = {o1}
    Handlers = {h1, h2}
    Kinds = {"start", "stop", "control", "order"}
    MaxRestarts = 1
    Faults = {"dropped", "engine_ends", "raises"}
SPECIFICATION FairSpec
CHECK_DEADLOCK FALSE
INVARIANTS ReceiptsAreTrue
PROPERTIES CompletedIsReported
