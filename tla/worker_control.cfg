\* worker_control: see README.md
CONSTANTS
    c1 = c1
    c2 = c2
    Ops = {c1, c2}
    Commands = {"halt", "reduce", "resume", "flatten", "stop"}
    Modes = {"native", "allocation", "continuous"}
    QueueMax = 2
    MaxAttempts = 2
    MaxHeld = 1
SPECIFICATION FairSpec
CHECK_DEADLOCK FALSE
INVARIANTS TypeOK ReceiptsMatch NoFreeTradingAfterFlatten FlattenWithinAllocation
PROPERTIES FlattenEnds WorkerEnds
