SPECIFICATION Spec
CHECK_DEADLOCK FALSE
CONSTANTS
  Absent = Absent
  Null = Null
  Wrong = Wrong
  Blank = Blank
  Unset = Unset
  Name <- MCName
  Jsonrpc <- MCJsonrpc
  Version1 <- MCVersion1
  Sent = "r1"
  SendAnswers <- MCSendAnswers
  TaskAnswers <- MCTaskAnswers
  Discoveries <- MCDiscoveries
  Plain <- MCPlain
  Float64 <- MCFloat64
  OutOfRange = OutOfRange
  MaxDepth = 3
  Nested <- MCNested
INVARIANTS StrictAnswers ClassTellsWhy FirstDecides OnlyCredentialsGo
