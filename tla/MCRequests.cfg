SPECIFICATION FairSpec
CONSTANTS
    HttpContexts = {h1}
    SocketContexts = {s1}
    DatabaseIds = {0}
    MaxConnects = 1
    MaxUnits = 2
    MaxTotal = 2
    AppWrites = {"w1", "w2"}
    Policies = {TRUE, FALSE}
    SessionPolicies = {TRUE}
    Transactional = {0}
    Failures = {"begin", "rollback", "aborts", "stays"}
    MaxDisturbed = 1
    OpenFailures = TRUE
    NoConnection = NoConnection
INVARIANTS RollbackUndoes AtomicPerDatabase AnsweredIsDurable StoredSessionIsDurable PooledAreClean
PROPERTY ConnectionsComeBack
CHECK_DEADLOCK FALSE
