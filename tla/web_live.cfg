\* web_live: see README.md
CONSTANTS
    ga = ga
    gb = gb
    o1 = o1
    o2 = o2
    Operators = {o1,o2}
    SlotCount = 2
    MaxVersion = 1
    MaxLogins = 1
    MaxLosses = 1
    Groups = {"a"}
    Offered = {"start","stop","halt","flatten"}
    MaxOps = 1
    MaxChanges = 0
    MaxTroubles = 1
    Instruments = {"x"}
    MaxSockets = 3
    MaxTicks = 1
    MaxUpsets = 2
    SelGroups = {"a"}
    SelRuns = {"r","s"}
    MaxEdits = 2
    MaxMishaps = 1
    Profiles = {"p"}
    MaxEpoch = 2
    MaxFailures = 1
    PageGroups = {"a"}
    MaxRuns = 2
    MaxLoads = 2
    MaxTurns = 2
    MaxTickets = 2
    MaxInputs = 1
    Pages = {"a","b","c","d","e"}
    Pinned <- FirstPages
    TabLimit = 4
    LayoutLimit = 4
    Streams = {"a","b"}
    Entities = {"order","quote"}
    Market = {"quote"}
    Capacity = 1
    MaxEvents = 3
    MaxBreaks = 1
    MessageTypes <- OneMessage
    MaxFilled = 1
    MaxUnknown = 1
    Scenes = {"api","panel","market","feed","loads","confirm","stream"}
SPECIFICATION WebFairSpec
CHECK_DEADLOCK FALSE
PROPERTIES ShownCatchesUp ConfirmedSettles StreamsCatchUp
