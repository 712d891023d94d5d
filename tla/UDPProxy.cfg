SPECIFICATION FairSpec
CONSTANTS
    Clients = {c1, c2}
    Sessions = {1, 2}
    Targets = {t1}
    Timeout = 1
    None = None
CHECK_DEADLOCK FALSE
INVARIANT TypeOK
INVARIANT Accounting
INVARIANT MapLeadsToReader
PROPERTY CancelledReadersEnd
PROPERTY ImplementsListener
