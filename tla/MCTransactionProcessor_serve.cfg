CONSTANTS
  Families = {f1, f2}
  Access = Access
  Unregister = Unregister
  Transactions = {t1, t2}
  Handled = {t1, t2}
  Pings = {p1}
  Others = {}
  HandlerTimed = TRUE
  NoMessage = NoMessage
  ReconnectEvent = ReconnectEvent
  MaxDisconnects = 2
  MaxRequests = 2
  AllowInterrupt = TRUE
  AllowMismatch = TRUE
SPECIFICATION FairSpec
INVARIANTS
  RegistersBeforeServing
  OneResponse
PROPERTIES
  RegistersAgain
  TransactionsAreAnswered
  InterruptEnds
CHECK_DEADLOCK FALSE
