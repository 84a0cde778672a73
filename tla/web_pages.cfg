\* web_pages: see README.md
CONSTANTS
    ga = ga
    gb = gb
    o1 = o1
    o2 = o2
    Operators = {o1,o2}
    SlotCount = 2
    MaxVersion = 1
    MaxLogins = 2
    MaxLosses = 1
    Groups = {ga,gb}
    Offered = {"start","flatten"}
    MaxOps = 1
    MaxChanges = 2
    MaxTroubles = 0
    Instruments = {"x","y"}
    MaxSockets = 2
    MaxTicks = 2
    MaxUpsets = 1
    SelGroups = {"a","b"}
    SelRuns = {"r","s"}
    MaxEdits = 2
    MaxMishaps = 1
    Profiles = {"p","q"}
    MaxEpoch = 2
    MaxFailures = 1
    PageGroups = {"a","b"}
    MaxRuns = 2
    MaxLoads = 2
    MaxTurns = 2
    MaxTickets = 3
    MaxInputs = 1
    Pages = {"a","b","c","d","e"}
    Pinned <- FirstPages
    TabLimit = 4
    LayoutLimit = 4
    Streams = {"a","b"}
    Entities = {"order","quote"}
    Market = {"quote"}
    Capacity = 1
    MaxEvents = 4
    MaxBreaks = 1
    MessageTypes <- AllMessages
    MaxFilled = 2
    MaxUnknown = 1
    Scenes = {"api","panel","market","selection","feed","loads","confirm","tabs","stream","wire"}
SPECIFICATION WebSpec
SYMMETRY GroupSymmetry
CHECK_DEADLOCK FALSE
INVARIANTS WebTypeOK ReadsSeeWrites TicketIsCurrent ReceiptIsCurrent AccountFollows LoadsBelong RanWithTicket
 TabsFollowRoute ShownIsJournal ServerIsAccepted MessagesSurvive
PROPERTIES ChartIsOfStream SelectionIsKept
