SPECIFICATION Spec
CONSTANTS
  A = A  B = B  C = C  x = x
  Servers = {A, B, C}
  Sockets = {x}
  Home <- MCHome
  Nobody = Nobody
  Schedulers = {B}
  Content <- MCContent
  MaxMessages = 2
  MaxSubscriptions = 2
  MaxCrashes = 1
INVARIANTS OthersUnharmed OncePerSubscriber NothingStuck
CHECK_DEADLOCK FALSE
