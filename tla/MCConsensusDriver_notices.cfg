CONSTANTS
  Register = Register
  Service = Service
  Notifications = {n1, n2}
  Activations = {a1}
  Deactivations = {}
  Pings = {}
  NoMessage = NoMessage
  ReconnectEvent = ReconnectEvent
  MaxDisconnects = 1
SPECIFICATION FairSpec
PROPERTIES
  NotificationsReachEngine
CHECK_DEADLOCK FALSE
