SPECIFICATION FairSpec
CONSTANTS
  c1 = c1
  c2 = c2
  k1 = k1
  k2 = k2
  blank = blank
  m1 = m1
  m2 = m2
  e1 = e1
  e2 = e2
  old = old
  new = new
  Nobody = Nobody
  Client <- MCClient
  ConversationId <- MCConversationId
  MessageId <- MCMessageId
  EventId <- MCEventId
  Text <- MCText
  Blank <- blank
  Calls <- MCCalls
  Limits <- MCNoLimits
  DefaultLimit = 1
  MaxLimit = 2
PROPERTIES LockReleased CallReturns
