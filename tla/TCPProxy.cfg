SPECIFICATION FairSpec
CONSTANTS
    Conns = {c1, c2}
    Targets = {t1}
    Slow = {c1}
    Inspecting = TRUE
    None = None
CHECK_DEADLOCK FALSE
INVARIANT TypeOK
INVARIANT Accounting
INVARIANT OneDirectionRecorded
PROPERTY ImplementsListener
PROPERTY CloseEndsConnection
