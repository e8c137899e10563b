----------------------------- MODULE MCWaitPoll -----------------------------
(* Timings for TLC, in the proportions of the code's 1s, 5s, 15s and 60s but  *)
(* smaller: the cap is not a power of two times the first pause, and the      *)
(* deadline leaves time for the pause to reach the cap and stay there.        *)
EXTENDS WaitPoll

MCPollInterval == 1
MCMaxPollInterval == 3
MCHTTPTimeout == 3
MCDeadline == 14
=============================================================================
