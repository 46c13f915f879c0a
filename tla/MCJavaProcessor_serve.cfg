CONSTANTS
  f1 = f1
  t1 = t1
  p1 = p1
  u1 = u1
  Families = {f1}
  Access = Access
  HookAccess = HookAccess
  Unregister = Unregister
  Transactions = {t1, u1}
  FamilyOf <- MCFamilyOf
  Pings = {}
  NoMessage = NoMessage
  NoHandler = NoHandler
  Disconnect = Disconnect
  AllowShutdown = TRUE
  AllowSpurious = TRUE
  MaxDisconnects = 1
SPECIFICATION FairSpec
PROPERTIES
  RegistersAgain
  TransactionsAreAnswered
  ShutdownEnds
  ShutdownUnregisters
INVARIANTS
  OneResponse
CHECK_DEADLOCK FALSE
