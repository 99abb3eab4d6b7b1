SPECIFICATION Spec
CONSTANTS
    Kind = "kvs"
    Contexts = {c1, c2}
    DatabaseIds = {0, 1}
    MaxConnects = 1
    Nobody = Nobody
PROPERTY ImplementsConnectionPool
CHECK_DEADLOCK FALSE
