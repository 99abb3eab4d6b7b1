SPECIFICATION FairSpec
CONSTANTS
    Kind = "kvs"
    Contexts = {c1, c2}
    DatabaseIds = {0}
    MaxConnects = 2
    Nobody = Nobody

PROPERTY DatabaseReturns
CHECK_DEADLOCK FALSE
