\* Two or three of everything: producers, nodes, rows, legs, requests, keys.
SPECIFICATION Spec
CONSTANTS
    Producers = {"p1", "p2"}
    Closers = {"c1", "c2"}
    QueueCap = 1
    PerProducer = 2
    Nodes = {"n1", "n2", "n3"}
    Slots = 2
    OuterRows = {"r1", "r2"}
    PerRow = 2
    NMembers = 2
    FanOut = 2
    JoinFanOut = 1
    Sections = 2
    Ahead = 1
    MayFail = TRUE
    Outputs = {1, 2}
    Legs = {1, 2}
    LegOf <- OwnOutput
    PerLeg = 2
    Limit = 3
    Members = {"f", "g"}
    Betas <- Edges
    Outside = {"f"}
    Row = 0
    Responses <- Graph
    Specs <- Timed
    Bounds <- Bounded
    Growths <- Grow
    Kinds = {"none", "paginate", "follow", "link", "page_number", "poll"}
    Tokens = {"a", "b", "c"}
    FirstURL = "a"
    Pages = 4
    MaxAttempts = 3
    PageLimits = {0, 2}
    Ignorable = FALSE
    Requests = {1, 2, 3}
    Tries = 3
    Burst = 1
    Delays = {0, 1}
    RetryAfters = {0, 2}
    Keys = {1, 2, 3}
    Phases = {"Live", "Pending"}
    Uses <- DestroyUses
    Enforced = {1}
    MaxRuns = 2
    GraphKeys = {1, 2, 3, 4}
    Reads <- GraphReads
    Creates = {1, 2, 3}
    Addressable = {1, 2, 4}
INVARIANTS
    ExactlyOnce
    LimitsHold
    NothingOrphaned
    AnswerIsWhole
PROPERTIES
    StepsInOrder
    EverythingEnds
CHECK_DEADLOCK FALSE
