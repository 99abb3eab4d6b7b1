SPECIFICATION FairSpec
CONSTANTS
    Kind = "sql"
    Contexts = {c1, c2, c3}
    DatabaseIds = {0}
    MaxConnects = 2
    Nobody = Nobody
INVARIANTS NeverShared NeverLost AvailableAreClosed
PROPERTIES DatabaseReturns IdleConnectionsClose
CHECK_DEADLOCK FALSE
