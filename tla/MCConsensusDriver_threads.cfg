CONSTANTS
  Register = Register
  Service = Service
  Notifications = {n1, n2}
  Activations = {a1}
  Deactivations = {d1}
  Pings = {}
  NoMessage = NoMessage
  ReconnectEvent = ReconnectEvent
  MaxDisconnects = 1
SPECIFICATION FairSpec
INVARIANTS
  UpdatesInOrder
  UpdatesFollowActivation
PROPERTIES
  AckedReachesEngine
  StopEnds
CHECK_DEADLOCK FALSE
