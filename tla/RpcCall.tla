------------------------------- MODULE RpcCall -------------------------------
(* GetTask calls of several a2actl processes, or of one after another, to one *)
(* peer, through a network with proxies, caches and gateways in it: an answer *)
(* may be late, be given twice, go to the wrong call, or arrive damaged.  The *)
(* peer itself is honest: to a request it answers with the task that was      *)
(* asked for, as it is at that moment.                                        *)
(*                                                                            *)
(* GetTask (client.go) never compares the id of the task it gets with the one *)
(* it asked for: what keeps answers apart is the id of the request alone.     *)
EXTENDS RpcResponse

CONSTANTS Caller,        \* processes, each with one call at a time
          Task,          \* the peer's tasks
          MaxCalls,      \* bound: calls of a process
          MaxVersion     \* bound: changes of a task

ASSUME BoundsAssumption == MaxCalls \in Nat /\ MaxVersion \in Nat

(* The id of a request is a string, and Wrong stands for what is none.        *)
ASSUME WrongAssumption == Wrong \notin Caller \X (1..MaxCalls)

VARIABLES
    tasks,      \* tasks[t]: the state of t, and a version that every change raises
    calls,      \* calls[c]: how many requests c has made
    asked,      \* asked[c]: the task c's last request asks for
    began,      \* began[c]: the version that task had then
    stage,      \* stage[c]: "idle", or in a call: "headers" or "body"
    wire,       \* wire[c]: the answer whose body is read
    pending,    \* the requests the peer has not handled yet
    produced,   \* the answers it has given
    last        \* last[c]: how c's last call returned

peer == <<tasks, pending, produced>>
vars == <<tasks, calls, asked, began, stage, wire, pending, produced, last>>

State == {"working", "completed", "failed"}

NoAnswer == [status |-> "none"]
NoReturn == Error("none")

Init ==
    /\ tasks = [t \in Task |-> [state |-> "working", version |-> 0]]
    /\ calls = [c \in Caller |-> 0]
    /\ asked \in [Caller -> Task]
    /\ began = [c \in Caller |-> 0]
    /\ stage = [c \in Caller |-> "idle"]
    /\ wire = [c \in Caller |-> NoAnswer]
    /\ pending = {} /\ produced = {}
    /\ last = [c \in Caller |-> NoReturn]

-----------------------------------------------------------------------------
(* The id of c's current request.  newID takes 128 random bits or, when the   *)
(* random source fails, the clock's nanoseconds.  Nothing in the code keeps   *)
(* two calls from the same id: that neither way gives it twice is assumed.    *)
RequestIdPerProcess(c) == <<c, 1>>         \* mutant: one id for all calls of a client
RequestId(c) == <<c, calls[c]>>

Return(c, outcome) ==
    /\ stage' = [stage EXCEPT ![c] = "idle"]
    /\ wire' = [wire EXCEPT ![c] = NoAnswer]
    /\ last' = [last EXCEPT ![c] = outcome]
    /\ UNCHANGED <<calls, asked, began>>

(* No bearer, a blank task id, or a BaseURL that is no URL: nothing is sent.  *)
RejectRequest(c) ==
    /\ stage[c] = "idle"
    /\ \E err \in {"auth", "usage"} : Return(c, Error(err))
    /\ UNCHANGED peer

SendRequest(c) ==
    /\ stage[c] = "idle" /\ calls[c] < MaxCalls
    /\ calls' = [calls EXCEPT ![c] = @ + 1]
    /\ \E t \in Task :
          /\ asked' = [asked EXCEPT ![c] = t]
          /\ began' = [began EXCEPT ![c] = tasks[t].version]
          /\ pending' = pending \cup {[id |-> RequestId(c)', task |-> t]}
    /\ stage' = [stage EXCEPT ![c] = "headers"]
    /\ last' = [last EXCEPT ![c] = NoReturn]
    /\ UNCHANGED <<tasks, wire, produced>>

-----------------------------------------------------------------------------
(* The peer.  It may handle a request long after the caller gave up.          *)
PeerWorks(t) ==
    /\ tasks[t].state = "working" /\ tasks[t].version < MaxVersion
    /\ \E s \in State : tasks' = [tasks EXCEPT ![t] = [state |-> s, version |-> @.version + 1]]
    /\ UNCHANGED <<calls, asked, began, stage, wire, pending, produced, last>>

PeerAnswers(q) ==
    /\ pending' = pending \ {q}
    /\ produced' = produced \cup {[id |-> q.id, task |-> q.task, state |-> tasks[q.task].state,
                                   version |-> tasks[q.task].version]}
    /\ UNCHANGED <<tasks, calls, asked, began, stage, wire, last>>

(* Its answer as HTTP.  The version is a field the client does not know.      *)
Answer(a) ==
    [status |-> "2xx", version |-> "1.0", type |-> "application/json", body |-> "whole",
     json |-> "one-value", jsonrpc |-> "2.0", id |-> a.id, error |-> Absent,
     result |-> [id |-> a.task, contextId |-> "context", state |-> a.state,
                 message |-> Absent, version |-> a.version]]

(* What gateways and broken connections make of an answer, one thing at a     *)
(* time: of its headers, and of its body.  One case of every error class and  *)
(* of every id and result; RpcResponse has them all.                          *)
DamagedHeaders(r) == {[r EXCEPT !.status = "401/403"], [r EXCEPT !.version = "0.3"]}
DamagedBody(r) ==
    {[r EXCEPT !.body = "broken"], [r EXCEPT !.json = "trailing-data"], [r EXCEPT !.result = Null]}
    \cup {[r EXCEPT !.id = v] : v \in {Absent, Wrong}}

-----------------------------------------------------------------------------
(* The client.  An answer arrives, any the peer ever gave; its headers are    *)
(* looked at first.                                                           *)
ReceiveHeaders(c) ==
    /\ stage[c] = "headers"
    /\ \E a \in produced : \E r \in {Answer(a)} \cup DamagedHeaders(Answer(a)) :
          IF HeaderError(r) # "none"
          THEN Return(c, Error(HeaderError(r)))
          ELSE /\ stage' = [stage EXCEPT ![c] = "body"]
               /\ wire' = [wire EXCEPT ![c] = r]
               /\ UNCHANGED <<calls, asked, began, last>>
    /\ UNCHANGED peer

ReadBody(c) ==
    /\ stage[c] = "body"
    /\ \E r \in {wire[c]} \cup DamagedBody(wire[c]) :
          Return(c, GetTask(RequestId(c), r))
    /\ UNCHANGED peer

(* http.Client.Do, or the read of the body, fails, of itself or because the   *)
(* context or http.Client.Timeout runs out.                                   *)
ConnectionFails(c) ==
    /\ stage[c] \in {"headers", "body"}
    /\ Return(c, Error("transport"))
    /\ UNCHANGED peer

Client(c) ==
    \/ RejectRequest(c) \/ SendRequest(c) \/ ReceiveHeaders(c) \/ ReadBody(c)
    \/ ConnectionFails(c)

Next ==
    \/ \E c \in Caller : Client(c)
    \/ \E t \in Task : PeerWorks(t)
    \/ \E q \in pending : PeerAnswers(q)

Spec == Init /\ [][Next]_vars

-----------------------------------------------------------------------------
(* The calls as reads of the peer's tasks: a call has read its task when the  *)
(* peer has answered its request, whether or not the answer gets through.     *)
NoSnapshot == [state |-> "none"]
AnswersTo(id) == {a \in produced : a.id = id}
HasRead(c) ==
    IF stage[c] = "idle" \/ AnswersTo(RequestId(c)) = {} THEN NoSnapshot
    ELSE LET a == CHOOSE a \in AnswersTo(RequestId(c)) : TRUE
         IN  [state |-> a.state, version |-> a.version]
HasGot(c) ==
    IF last[c].kind # "task" THEN NoSnapshot
    ELSE [task |-> last[c].value.id,
          snapshot |-> [state |-> last[c].value.state, version |-> last[c].value.version]]

Reads == INSTANCE TaskReads WITH
    Snapshot <- [state : State, version : 0..MaxVersion], Nothing <- NoSnapshot,
    busy <- {c \in Caller : stage[c] # "idle"},
    read <- [c \in Caller |-> HasRead(c)],
    got <- [c \in Caller |-> HasGot(c)]

-----------------------------------------------------------------------------
(* The type of every variable; a call hands a task on exactly when it returns *)
(* without error, or with the task's own failure.                             *)
TypeOK ==
    /\ tasks \in [Task -> [state : State, version : 0..MaxVersion]]
    /\ calls \in [Caller -> 0..MaxCalls]
    /\ asked \in [Caller -> Task]
    /\ began \in [Caller -> 0..MaxVersion]
    /\ stage \in [Caller -> {"idle", "headers", "body"}]
    /\ \A c \in Caller : stage[c] = "body" <=> wire[c] # NoAnswer
    /\ \A c \in Caller :
          /\ last[c].err \in {"none", "auth", "usage", "protocol", "transport", "task-failed"}
          /\ last[c] # NoReturn =>
                (last[c].kind = "task" <=> last[c].err \in {"none", "task-failed"})

(* An accepted answer is about the task that was asked for, although nobody   *)
(* compares task ids and answers cross between calls; it is no older than its *)
(* call, so that a cached or late answer to an earlier poll of the same task  *)
(* never makes a wait see the past; and when it says that the task has ended, *)
(* it has.                                                                    *)
RightAndFresh ==
    \A c \in Caller : last[c].kind = "task" =>
        /\ last[c].value.id = asked[c]
        /\ last[c].value.version \in began[c] .. tasks[asked[c]].version
        /\ last[c].value.state # "working" => last[c].value.state = tasks[asked[c]].state

(* Requests and answers that cross, late, repeated and damaged answers, and   *)
(* expired contexts make no difference to what GetTask promises: each call is *)
(* one read of the task it asks for, at one instant of the call, or an error. *)
Implements == Reads!Spec
=============================================================================
