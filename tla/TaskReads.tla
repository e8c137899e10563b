------------------------------ MODULE TaskReads ------------------------------
(* What Client.GetTask promises ("GetTask fetches one task snapshot",         *)
(* client.go:573), without requests, answers and a network: a call reads the  *)
(* task it asks for once, at one instant between its start and its return,    *)
(* and returns what it read, or an error.  WaitPoll and A2actl take a poll to *)
(* be such a read; RpcCall shows that the JSON-RPC client makes it one.       *)
CONSTANTS Caller, Task,
          Snapshot,     \* what a task may be seen as
          Nothing       \* no snapshot, and none of Snapshot

VARIABLES
    tasks,     \* tasks[t]: t as it is
    busy,      \* the callers that are in a call
    asked,     \* asked[c]: the task of c's last call
    read,      \* read[c]: what the call has read, or Nothing
    got        \* got[c]: the task and snapshot c's last call returned, or Nothing

vars == <<tasks, busy, asked, read, got>>

Init ==
    /\ tasks \in [Task -> Snapshot]
    /\ busy = {}
    /\ asked \in [Caller -> Task]
    /\ read = [c \in Caller |-> Nothing]
    /\ got = [c \in Caller |-> Nothing]

Work(t) ==
    /\ \E s \in Snapshot : tasks' = [tasks EXCEPT ![t] = s]
    /\ UNCHANGED <<busy, asked, read, got>>

Begin(c) ==
    /\ c \notin busy
    /\ busy' = busy \cup {c}
    /\ \E t \in Task : asked' = [asked EXCEPT ![c] = t]
    /\ got' = [got EXCEPT ![c] = Nothing]
    /\ UNCHANGED <<tasks, read>>

Read(c) ==
    /\ c \in busy /\ read[c] = Nothing
    /\ read' = [read EXCEPT ![c] = tasks[asked[c]]]
    /\ UNCHANGED <<tasks, busy, asked, got>>

Return(c) ==
    /\ c \in busy /\ read[c] # Nothing
    /\ got' = [got EXCEPT ![c] = [task |-> asked[c], snapshot |-> read[c]]]
    /\ read' = [read EXCEPT ![c] = Nothing]
    /\ busy' = busy \ {c}
    /\ UNCHANGED <<tasks, asked>>

(* Also of a call that never began, because its arguments are no good.        *)
Fail(c) ==
    /\ got' = [got EXCEPT ![c] = Nothing]
    /\ read' = [read EXCEPT ![c] = Nothing]
    /\ busy' = busy \ {c}
    /\ UNCHANGED <<tasks, asked>>

Next ==
    \/ \E t \in Task : Work(t)
    \/ \E c \in Caller : Begin(c) \/ Read(c) \/ Return(c) \/ Fail(c)

Spec == Init /\ [][Next]_vars
=============================================================================
