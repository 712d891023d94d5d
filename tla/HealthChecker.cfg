SPECIFICATION FairCheckerSpec
CONSTANTS
    Probed = {t1, t2}
    FailuresBeforeEject = 3
    PassesBeforeReadmit = 2
INVARIANT CheckerTypeOK
INVARIANT BalancerIsTold
PROPERTY FlipsAreExact
PROPERTY FlagFollowsTarget
PROPERTY StopReturns
