SPECIFICATION Spec
CONSTANTS
    None = None  Broken = Broken  Main = Main
    pa = pa  pb = pb  fa = fa  fb = fb  api = api
    Names = {pa, pb}
    Paths = {fa, fb}
    Handlers = {api}
    Canonical <- FileName
    Sockets = {"tcp1", "tcp2", "udp1"}
    Configs <- AllConfigs
    InitialFiles <- StartWith
    Edits <- UserEdits
    IPv6 = FALSE
    MaxFailures = 1
    RelativeDir = TRUE
    OutCap = 1
    MaxEdits = 1
    MaxRequests = 1
INVARIANT
    DeletedFileStopsProxy
CHECK_DEADLOCK FALSE
