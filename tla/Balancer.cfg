SPECIFICATION Spec
CONSTANTS
    None = None
    p1 = p1  p2 = p2  k1 = k1  k2 = k2  a = a  b = b
    Pickers = {p1, p2}
    Sources = {k1}
    N = 3
    IP <- ThreeIPs
    Port <- ThreePorts
    Hash <- OneHash
    Algorithms = {"round-robin", "least-conn", "ip-hash", "random"}
    StickyModes = {TRUE, FALSE}
    OneToOne = FALSE
    PairedPort = 1
SYMMETRY PickersAlike
INVARIANTS
    TypeOK
    Accounting
    DestinationWasHealthy
    FailureIsJustified
    ChoiceIsFair
    StickyAffinity
