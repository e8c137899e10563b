------------------------------ MODULE MCRpcCall ------------------------------
(* Two processes that may ask for the same task or for different ones, two    *)
(* calls each, so that an answer can meet a later call of its own process and *)
(* one of another; a task changes once, so that there is a past to see.       *)
EXTENDS RpcCall, TLC

CONSTANTS c1, c2, t1, t2

MCCaller == {c1, c2}
MCTask == {t1, t2}
Symmetry == Permutations(MCCaller) \cup Permutations(MCTask)
=============================================================================
