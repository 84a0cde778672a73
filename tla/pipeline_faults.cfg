\* pipeline_faults: see README.md
CONSTANTS
    a = a
    b = b
    Streams = {a}
    Records <- PlainRecords
    Batch = 2
    MaxLog = 3
    MaxStored = 2
    InboxMax = 2
    MaxAckPending = 2
    Faults = {"adapter_crash", "ack_lost", "publish_lost", "gateway_crash", "gateway_ack_lost", "window_passes"}
SPECIFICATION Spec
CHECK_DEADLOCK FALSE
INVARIANTS NothingLost IdentityIsStable
PROPERTIES NeverBackwards ImplementsFeed
