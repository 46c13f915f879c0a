CONSTANTS
  Sends = {s1}
  Timed = {s1}
  Replies = {}
  Requests = {r1}
  NoMessage = NoMessage
  ReconnectEvent = ReconnectEvent
  MaxDisconnects = 2
  AllowClose = TRUE
SPECIFICATION FairSpec
INVARIANTS
  TypeOK
  QueuesLive
  AnswersAreNotRequests
  ReconnectFirst
  StrandedOnlyWhenDropped
PROPERTIES
  SweepIsComplete
  AnswerKept
  KeepsPromise
  CloseEndsThread
  RecoversUnlessSweepFails
  EveryCallReturns
  ReceiveReleased
CHECK_DEADLOCK FALSE
