SPECIFICATION Spec
CHECK_DEADLOCK FALSE
CONSTANTS
  s1 = s1
  s2 = s2
  w1 = w1
  k1 = k1
  m1 = m1
  m2 = m2
  NoId = NoId
  Sender <- MCSender
  Waiter <- MCWaiter
  Storing <- MCStoring
  Conversation <- MCConversation
  Scope <- MCScope
  PeerMessage <- MCPeerMessage
INVARIANT WaitRecordsTerminal
