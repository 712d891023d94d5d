SPECIFICATION Spec
CONSTANTS
    None = None
    p1 = p1  p2 = p2  k1 = k1  k2 = k2  a = a  b = b
    Pickers = {p1}
    Sources = {k1}
    N = 4
    IP <- FourIPs
    Port <- FourPorts
    Hash <- OneHash
    Algorithms = {"round-robin"}
    StickyModes = {FALSE}
    OneToOne = TRUE
    PairedPort = 1
INVARIANTS
    DestinationWasHealthy
