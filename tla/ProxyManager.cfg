SPECIFICATION Spec
CONSTANTS
    None = None
    c1 = c1  c2 = c2  p = p  q = q  e1 = e1  e2 = e2
    Callers = {c1, c2}
    Names = {p, q}
    Endpoints = {e1, e2}
    Instances = {1, 2, 3}
    Configs <- AllConfigs
SYMMETRY CallersAlike
INVARIANTS
    TypeOK
    MapHoldsLiveInstance
    OneStopper
    UnreachableOnlyAfterOverlap
    LeaksAreFailedBuilds
    RegistriesAgree
