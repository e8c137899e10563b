------------------------------ MODULE MCA2actl ------------------------------
(* Two sends and a wait against one peer.  s1 and w1 store in the same        *)
(* conversation, s2 stores nothing; w1 may wait for the task of either.  One  *)
(* send and the wait are enough for liveness: the fairness is of each         *)
(* invocation by itself.                                                      *)
EXTENDS A2actl

CONSTANTS s1, s2, w1, k1, m1, m2

MCSender == {s1, s2}
MCOneSender == {s1}
MCWaiter == {w1}
MCStoring == {s1, w1}
MCConversation == {k1}
MCScope == [p \in Invocation |-> k1]
MCPeerMessage == {m1, m2}
=============================================================================
