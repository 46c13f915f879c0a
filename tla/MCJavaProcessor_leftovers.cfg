CONSTANTS
  f1 = f1
  t1 = t1
  u1 = u1
  p1 = p1
  Families = {f1}
  Access = Access
  HookAccess = HookAccess
  Unregister = Unregister
  Transactions = {t1}
  FamilyOf <- MCFamilyOf
  Pings = {p1}
  NoMessage = NoMessage
  NoHandler = NoHandler
  Disconnect = Disconnect
  AllowShutdown = TRUE
  AllowSpurious = FALSE
  MaxDisconnects = 0
SPECIFICATION Spec
INVARIANTS
  LeftoversFindTheirHandler
CHECK_DEADLOCK FALSE
