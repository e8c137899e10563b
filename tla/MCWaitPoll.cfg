SPECIFICATION FairSpec
CHECK_DEADLOCK FALSE
CONSTANTS
  PollInterval <- MCPollInterval
  MaxPollInterval <- MCMaxPollInterval
  HTTPTimeout <- MCHTTPTimeout
  Deadline <- MCDeadline
INVARIANTS TypeOK Verdict EndsByDeadline PollBudget NotMissed
PROPERTIES PoliteGaps Returns
