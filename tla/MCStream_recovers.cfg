CONSTANTS
  Sends = {s1}
  Timed = {}
  Replies = {p1}
  Requests = {}
  NoMessage = NoMessage
  ReconnectEvent = ReconnectEvent
  MaxDisconnects = 1
  AllowClose = FALSE
SPECIFICATION FairSpec
PROPERTY
  RecoversFromDisconnect
CHECK_DEADLOCK FALSE
