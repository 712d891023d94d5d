SPECIFICATION Spec
CONSTANTS
    None = None  Forever = Forever
    client = client  w1 = w1  w2 = w2  host = host  junk = junk
    Sources = {client}
    Workers = {w1, w2}
    CIDRs = {host, junk}
    Within <- ContainedIn
    Malformed = {junk}
    Setups <- AllSetups
    GlobalEngine <- AllowAll
    ProxyEngine <- DenyHost
    ReplaceLists <- Lists1
    NumBuckets = 2
    Resolution = 2
    MaxConnsInWindow = 1
    Rate = 50
    Burst = 200
    Sizes = {1, 150}
    BanThreshold = 2
    BanDuration = 1
    Points <- RuleScore
    HandDurations = {2, Forever}
    MaxStarts = 2
    MaxEdits = 2
    MaxBanCalls = 2
    MaxConns = 3
    MaxTime = 7
SYMMETRY WorkersAlike
INVARIANTS
    TypeOK
PROPERTIES
    ChecksAreJustified
    BansHold
    LimitsHold
CHECK_DEADLOCK FALSE
