SPECIFICATION Spec
CONSTANTS
    HttpContexts = {h1}
    SocketContexts = {}
    DatabaseIds = {0}
    MaxConnects = 1
    MaxUnits = 2
    MaxTotal = 2
    AppWrites = {"w1"}
    Policies = {TRUE, FALSE}
    SessionPolicies = {TRUE, FALSE}
    Transactional = {0}
    Failures = {"aborts"}
    MaxDisturbed = 1
    OpenFailures = FALSE
    NoConnection = NoConnection
INVARIANT RollbackAlwaysUndoes
CHECK_DEADLOCK FALSE
