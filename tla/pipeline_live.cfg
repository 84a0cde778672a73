\* pipeline_live: see README.md
CONSTANTS
    a = a
    b = b
    Streams = {a, b}
    Records <- MixedRecords
    Batch = 2
    MaxLog = 2
    MaxStored = 2
    InboxMax = 2
    MaxAckPending = 2
    Faults = {"ack_lost", "gateway_ack_lost", "window_passes"}
SPECIFICATION FairSpec
CHECK_DEADLOCK FALSE
INVARIANTS JournalIsLogPrefix OnlyGoodRecordsStaged
PROPERTIES EveryRecordJournaled
