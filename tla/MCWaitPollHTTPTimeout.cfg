SPECIFICATION Spec
CHECK_DEADLOCK FALSE
CONSTANTS
  PollInterval <- MCPollInterval
  MaxPollInterval <- MCMaxPollInterval
  HTTPTimeout <- MCHTTPTimeout
  Deadline <- MCDeadline
INVARIANT DeadlineDecides
