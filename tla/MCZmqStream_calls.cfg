SPECIFICATION FairSpec
CONSTANTS
  c1 = c1
  c2 = c2
  r1 = r1
  Calls = {c1, c2}
  Timed = {c2}
  Requests = {r1}
  Disconnect = Disconnect
  NoMessage = NoMessage
  AllowSpurious = TRUE
  MaxDisconnects = 1
CHECK_DEADLOCK FALSE
INVARIANTS AnswersAreNotRequests NoLostWakeup
PROPERTIES KeepsPromise EveryCallReturns DisconnectsAreTold
