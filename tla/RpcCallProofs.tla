---------------------------- MODULE RpcCallProofs ----------------------------
(* For any number of callers, calls and tasks: what GetTask hands on is the   *)
(* task that was asked for, as it was at one instant of the call, however the *)
(* answers cross, and so the client implements TaskReads.                     *)
(*                                                                            *)
(* GetTask compares only the id of the request, so the argument is about ids. *)
(* The inductive invariant says that every id out there is one of a call that *)
(* was made, that no id is twice in pending and produced together, and that   *)
(* what carries the id of a caller's last call is about the task it asks for  *)
(* and no older than the call.  A body that is read comes from some answer of *)
(* the peer, perhaps to another call; only the check of the id, in ReadBody,  *)
(* makes it the answer to this one.                                           *)
EXTENDS RpcCall, TLAPS

(* The requests and answers under way, and the body that is read.             *)
Typed ==
    /\ TypeOK
    /\ pending \subseteq [id : Caller \X (1..MaxCalls), task : Task]
    /\ produced \subseteq [id : Caller \X (1..MaxCalls), task : Task, state : State,
                           version : 0..MaxVersion]
    /\ DOMAIN wire = Caller /\ DOMAIN last = Caller
    /\ \A c \in Caller : stage[c] # "idle" => calls[c] > 0

WireInv ==
    \A c \in Caller : stage[c] = "body" =>
        \E a \in produced : wire[c] \in {Answer(a)} \cup DamagedHeaders(Answer(a))

(* Every id is the id of one request, which is answered at most once.         *)
IdsMade ==
    /\ \A q \in pending : q.id[2] <= calls[q.id[1]]
    /\ \A a \in produced : a.id[2] <= calls[a.id[1]]

IdsOnce ==
    /\ \A q, r \in pending : q.id = r.id => q = r
    /\ \A a, b \in produced : a.id = b.id => a = b
    /\ \A q \in pending, a \in produced : q.id # a.id

(* A task only changes while it is working, and its version tells when.       *)
Past(snapshot, t) ==
    /\ snapshot.version <= tasks[t].version
    /\ snapshot.state # "working" => snapshot.state = tasks[t].state

(* What carries the id of the last call of c is about this call.              *)
AboutCall ==
    \A c \in Caller :
        /\ began[c] <= tasks[asked[c]].version
        /\ \A q \in pending : q.id = RequestId(c) => q.task = asked[c]
        /\ \A a \in produced : a.id = RequestId(c) =>
              a.task = asked[c] /\ began[c] <= a.version /\ Past(a, asked[c])

(* What a call handed on.                                                     *)
LastInv ==
    \A c \in Caller : last[c].kind = "task" =>
        /\ last[c].value.id = asked[c]
        /\ last[c].value.state \in State
        /\ last[c].value.version \in Nat /\ began[c] <= last[c].value.version
        /\ Past(last[c].value, asked[c])

IInv == Typed /\ WireInv /\ IdsMade /\ IdsOnce /\ AboutCall /\ LastInv

-----------------------------------------------------------------------------
(* The checks of an answer.                                                   *)

(* A list of checks passes when none of them fails, and otherwise gives the   *)
(* error of one that does.  No list of client.go is longer than six.          *)
LEMMA FirstFailureMeans ==
    ASSUME NEW n \in 1..6, NEW checks, DOMAIN checks = 1..n
    PROVE  \/ /\ \A i \in 1..n : ~checks[i][1]
              /\ FirstFailure(checks) = "none"
           \/ \E i \in 1..n : checks[i][1] /\ FirstFailure(checks) = checks[i][2]
  <1> DEFINE failing == {i \in DOMAIN checks : checks[i][1]}
  <1>1. CASE failing = {}
    BY <1>1 DEF FirstFailure
  <1>2. CASE failing # {}
    <2>1. failing \subseteq 1..6 /\ failing \subseteq 1..n
      OBVIOUS
    <2>2. \E i \in failing : \A j \in failing : i <= j
      <3> HIDE DEF failing
      <3>1. \A i \in 1..6 : i = 1 \/ i = 2 \/ i = 3 \/ i = 4 \/ i = 5 \/ i = 6
        OBVIOUS
      <3>2. CASE 1 \in failing
        BY <2>1, <3>2
      <3>3. CASE 1 \notin failing /\ 2 \in failing
        BY <2>1, <3>1, <3>3
      <3>4. CASE 1 \notin failing /\ 2 \notin failing /\ 3 \in failing
        BY <2>1, <3>1, <3>4
      <3>5. CASE failing \subseteq {4, 5, 6} /\ 4 \in failing
        BY <3>5
      <3>6. CASE failing \subseteq {5, 6} /\ 5 \in failing
        BY <3>6
      <3>7. CASE failing = {6}
        BY <3>7
      <3>8. failing \subseteq {5, 6} /\ 5 \notin failing => failing = {6}
        BY <1>2
      <3> QED BY <2>1, <3>1, <3>2, <3>3, <3>4, <3>5, <3>6, <3>7, <3>8
    <2>3. (CHOOSE k \in failing : \A j \in failing : k <= j) \in failing
      BY <2>2
    <2> QED BY <1>2, <2>1, <2>3 DEF FirstFailure
  <1> QED BY <1>1, <1>2

(* The errors of an answer's headers, and of its body: a body that passes is  *)
(* a whole one with the id of the request.                                    *)
LEMMA HeaderErrors == \A r : HeaderError(r) \in {"none", "auth", "protocol"}
  <1> SUFFICES ASSUME NEW r PROVE HeaderError(r) \in {"none", "auth", "protocol"}
    OBVIOUS
  <1> DEFINE checks == <<
        <<r.status = "401/403", "auth">>,
        <<r.status # "2xx", "protocol">>,
        <<r.version \notin {Absent, "1.0"}, "protocol">>,
        <<r.type # "application/json", "protocol">> >>
  <1>1. \A i \in 1..4 : checks[i][2] \in {"auth", "protocol"}
    <2>1. \A i \in 1..4 : i = 1 \/ i = 2 \/ i = 3 \/ i = 4
      OBVIOUS
    <2> QED BY <2>1
  <1>2. DOMAIN checks = 1..4
    OBVIOUS
  <1>3. HeaderError(r) = FirstFailure(checks)
    BY DEF HeaderError
  <1> HIDE DEF checks
  <1> QED BY <1>1, <1>2, <1>3, FirstFailureMeans

LEMMA BodyErrors ==
    ASSUME NEW sent, NEW r
    PROVE  /\ BodyError(sent, r) \in {"none", "transport", "protocol"}
           /\ BodyError(sent, r) = "none" =>
                 r.body = "whole" /\ r.json = "one-value" /\ Echoes(sent, r.id)
  <1> DEFINE checks == <<
        <<r.body # "whole", "transport">>,
        <<r.json # "one-value", "protocol">>,
        <<Text(r.jsonrpc) # "2.0", "protocol">>,
        <<~Echoes(sent, r.id), "protocol">>,
        <<r.error # Absent, "protocol">>,
        <<r.result = Absent, "protocol">> >>
  <1>1. \A i \in 1..6 : checks[i][2] \in {"transport", "protocol"}
    <2>1. \A i \in 1..6 : i = 1 \/ i = 2 \/ i = 3 \/ i = 4 \/ i = 5 \/ i = 6
      OBVIOUS
    <2>2. /\ checks[1][2] = "transport" /\ checks[2][2] = "protocol"
          /\ checks[3][2] = "protocol" /\ checks[4][2] = "protocol"
          /\ checks[5][2] = "protocol" /\ checks[6][2] = "protocol"
      OBVIOUS
    <2> HIDE DEF checks
    <2> QED BY <2>1, <2>2
  <1>2. DOMAIN checks = 1..6
    OBVIOUS
  <1>3. BodyError(sent, r) = FirstFailure(checks)
    BY DEF BodyError
  <1>4. /\ checks[1][1] <=> r.body # "whole"
        /\ checks[2][1] <=> r.json # "one-value"
        /\ checks[4][1] <=> ~Echoes(sent, r.id)
    OBVIOUS
  <1> HIDE DEF checks
  <1>5. \A i \in 1..6 : checks[i][2] # "none"
    BY <1>1
  <1>6. /\ FirstFailure(checks) \in {"none", "transport", "protocol"}
        /\ FirstFailure(checks) = "none" => \A i \in 1..6 : ~checks[i][1]
    BY <1>1, <1>2, <1>5, FirstFailureMeans
  <1>7. ASSUME FirstFailure(checks) = "none"
        PROVE  r.body = "whole" /\ r.json = "one-value" /\ Echoes(sent, r.id)
    <2>1. ~checks[1][1] /\ ~checks[2][1] /\ ~checks[4][1]
      BY <1>6, <1>7
    <2> QED BY <1>4, <2>1
  <1> QED BY <1>3, <1>6, <1>7

LEMMA AcceptedFields ==
    ASSUME NEW kind, NEW value, NEW err
    PROVE  /\ Accepted(kind, value, err).kind = kind /\ Accepted(kind, value, err).value = value
           /\ Accepted(kind, value, err).err = err
  BY DEF Accepted

(* How GetTask returns: it hands a task on exactly when it returns without    *)
(* error or with the failure of the task, and this task is the result of a    *)
(* whole answer with the id of the request.                                   *)
LEMMA GetTaskMeans ==
    ASSUME NEW sent, NEW r
    PROVE  /\ GetTask(sent, r).err \in {"none", "auth", "protocol", "transport", "task-failed"}
           /\ GetTask(sent, r).kind = "task" <=> GetTask(sent, r).err \in {"none", "task-failed"}
           /\ GetTask(sent, r).kind = "task" =>
                 /\ r.body = "whole" /\ r.json = "one-value" /\ Echoes(sent, r.id)
                 /\ ~Nil(r.result)
                 /\ GetTask(sent, r).value = r.result
  <1>1. doJSON(sent, r) \in {"none", "auth", "protocol", "transport"}
    BY HeaderErrors, BodyErrors DEF doJSON
  <1>2. doJSON(sent, r) = "none" =>
            r.body = "whole" /\ r.json = "one-value" /\ Echoes(sent, r.id)
    BY BodyErrors DEF doJSON
  <1>3. CASE doJSON(sent, r) # "none"
    BY <1>1, <1>3 DEF GetTask, Error
  <1>4. CASE doJSON(sent, r) = "none"
    <2>1. GetTask(sent, r) = TaskOutcome(r.result)
      BY <1>4 DEF GetTask
    <2>2. ValidTask(r.result) => ~Nil(r.result)
      <3> SUFFICES ASSUME Nil(r.result) PROVE ~ValidTask(r.result)
        OBVIOUS
      <3>1. TypedTask(r.result).id = Blank
        BY DEF TypedTask
      <3>2. ~IsText(TypedTask(r.result).id)
        BY <3>1 DEF IsText, Text
      <3> QED BY <3>2 DEF ValidTask, validateTask
    <2>3. TaskOutcome(r.result) \in {Error("protocol"), Accepted("task", r.result, "none"),
                                     Accepted("task", r.result, "task-failed")}
      BY DEF TaskOutcome
    <2>4. TaskOutcome(r.result) # Error("protocol") => ValidTask(r.result)
      BY DEF TaskOutcome
    <2>5. CASE TaskOutcome(r.result) = Error("protocol")
      BY <2>1, <2>5 DEF Error
    <2>6. CASE TaskOutcome(r.result) # Error("protocol")
      <3>1. ~Nil(r.result)
        BY <2>2, <2>4, <2>6
      <3>2. /\ GetTask(sent, r).kind = "task" /\ GetTask(sent, r).value = r.result
            /\ GetTask(sent, r).err \in {"none", "task-failed"}
        <4>1. PICK err \in {"none", "task-failed"} :
                 TaskOutcome(r.result) = Accepted("task", r.result, err)
          BY <2>3, <2>6, Zenon
        <4>2. /\ Accepted("task", r.result, err).kind = "task"
              /\ Accepted("task", r.result, err).value = r.result
              /\ Accepted("task", r.result, err).err = err
          BY AcceptedFields
        <4>3. GetTask(sent, r) = Accepted("task", r.result, err)
          BY <2>1, <4>1
        <4> QED BY <4>2, <4>3
      <3> QED BY <1>2, <1>4, <3>1, <3>2
    <2> QED BY <2>5, <2>6
  <1> QED BY <1>3, <1>4

-----------------------------------------------------------------------------
(* The steps.                                                                 *)

LEMMA InitIInv == Init => IInv
  <1> SUFFICES ASSUME Init PROVE IInv
    OBVIOUS
  <1>1. NoReturn.kind # "task" /\ NoReturn.err = "none"
    BY DEF NoReturn, Error
  <1>2. Typed
    BY <1>1, BoundsAssumption DEF Init, Typed, TypeOK, State
  <1> QED
    BY <1>1, <1>2, BoundsAssumption
       DEF Init, IInv, WireInv, IdsMade, IdsOnce, AboutCall, LastInv

(* What a call may return: no task, or the one that was asked for.            *)
Returnable(c, outcome) ==
    /\ outcome.err \in {"none", "auth", "usage", "protocol", "transport", "task-failed"}
    /\ outcome.kind = "task" <=> outcome.err \in {"none", "task-failed"}
    /\ outcome.kind = "task" =>
          /\ outcome.value.id = asked[c]
          /\ outcome.value.state \in State
          /\ outcome.value.version \in Nat /\ began[c] <= outcome.value.version
          /\ Past(outcome.value, asked[c])

LEMMA ErrorReturnable ==
    ASSUME NEW c, NEW err \in {"auth", "usage", "protocol", "transport"}
    PROVE  Returnable(c, Error(err)) /\ Error(err).kind # "task"
  BY DEF Returnable, Error

LEMMA ReturnKeeps ==
    ASSUME IInv, NEW c \in Caller, NEW outcome, Returnable(c, outcome),
           Return(c, outcome), UNCHANGED peer
    PROVE  IInv'
  <1>1. /\ stage' = [stage EXCEPT ![c] = "idle"]
        /\ wire' = [wire EXCEPT ![c] = NoAnswer]
        /\ last' = [last EXCEPT ![c] = outcome]
        /\ UNCHANGED <<calls, asked, began, tasks, pending, produced>>
    BY DEF Return, peer
  <1>2. /\ stage'[c] = "idle" /\ wire'[c] = NoAnswer /\ last'[c] = outcome
        /\ \A d \in Caller \ {c} :
              stage'[d] = stage[d] /\ wire'[d] = wire[d] /\ last'[d] = last[d]
        /\ stage' \in [Caller -> {"idle", "headers", "body"}]
        /\ DOMAIN wire' = Caller /\ DOMAIN last' = Caller
    BY <1>1 DEF IInv, Typed, TypeOK
  <1>3. TypeOK'
    <2>1. \A d \in Caller : stage'[d] = "body" <=> wire'[d] # NoAnswer
      BY <1>2 DEF IInv, Typed, TypeOK
    <2>2. \A d \in Caller :
            /\ last'[d].err \in {"none", "auth", "usage", "protocol", "transport", "task-failed"}
            /\ last'[d] # NoReturn =>
                  (last'[d].kind = "task" <=> last'[d].err \in {"none", "task-failed"})
      BY <1>2 DEF IInv, Typed, TypeOK, Returnable
    <2> QED BY <1>1, <1>2, <2>1, <2>2 DEF IInv, Typed, TypeOK
  <1>4. Typed'
    BY <1>1, <1>2, <1>3 DEF IInv, Typed
  <1>5. WireInv'
    BY <1>1, <1>2 DEF IInv, WireInv
  <1>6. IdsMade' /\ IdsOnce' /\ AboutCall'
    BY <1>1 DEF IInv, IdsMade, IdsOnce, AboutCall, RequestId, Past
  <1>7. LastInv'
    <2>1. ASSUME NEW d \in Caller, last'[d].kind = "task"
          PROVE  /\ last'[d].value.id = asked[d]
                 /\ last'[d].value.state \in State
                 /\ last'[d].value.version \in Nat /\ began[d] <= last'[d].value.version
                 /\ Past(last'[d].value, asked[d])
      <3>1. CASE d = c
        BY <1>2, <2>1, <3>1 DEF Returnable
      <3>2. CASE d # c
        BY <1>2, <2>1, <3>2 DEF IInv, LastInv
      <3> QED BY <3>1, <3>2
    <2> QED BY <1>1, <2>1 DEF LastInv, Past
  <1> QED BY <1>4, <1>5, <1>6, <1>7 DEF IInv

LEMMA SendRequestKeeps ==
    ASSUME IInv, NEW c \in Caller, SendRequest(c) PROVE IInv'
  <1>1. PICK t \in Task :
            /\ asked' = [asked EXCEPT ![c] = t]
            /\ began' = [began EXCEPT ![c] = tasks[t].version]
            /\ pending' = pending \cup {[id |-> <<c, calls[c] + 1>>, task |-> t]}
    BY DEF SendRequest, RequestId, IInv, Typed, TypeOK
  <1> DEFINE q == [id |-> <<c, calls[c] + 1>>, task |-> t]
  <1>2. /\ stage[c] = "idle" /\ calls[c] < MaxCalls
        /\ calls' = [calls EXCEPT ![c] = @ + 1]
        /\ stage' = [stage EXCEPT ![c] = "headers"]
        /\ last' = [last EXCEPT ![c] = NoReturn]
        /\ UNCHANGED <<tasks, wire, produced>>
    BY DEF SendRequest
  <1>3. /\ calls[c] \in Nat /\ calls[c] + 1 \in 1..MaxCalls
        /\ tasks[t].version \in 0..MaxVersion
    BY <1>2, BoundsAssumption DEF IInv, Typed, TypeOK
  <1>4. /\ calls' \in [Caller -> 0..MaxCalls] /\ calls'[c] = calls[c] + 1
        /\ asked' \in [Caller -> Task] /\ asked'[c] = t
        /\ began' \in [Caller -> 0..MaxVersion] /\ began'[c] = tasks[t].version
        /\ stage' \in [Caller -> {"idle", "headers", "body"}] /\ stage'[c] = "headers"
        /\ DOMAIN last' = Caller /\ last'[c] = NoReturn
        /\ \A d \in Caller \ {c} :
              /\ calls'[d] = calls[d] /\ asked'[d] = asked[d] /\ began'[d] = began[d]
              /\ stage'[d] = stage[d] /\ last'[d] = last[d]
    BY <1>1, <1>2, <1>3 DEF IInv, Typed, TypeOK
  <1>5. /\ q \in [id : Caller \X (1..MaxCalls), task : Task]
        /\ q.id = <<c, calls[c] + 1>> /\ q.id[1] = c /\ q.id[2] = calls[c] + 1 /\ q.task = t
    BY <1>3
  <1>6. NoReturn.kind # "task" /\ NoReturn.err = "none"
    BY DEF NoReturn, Error
  <1>7. pending' = pending \cup {q}
    BY <1>1
  <1> HIDE DEF q
  <1>8. Typed'
    <2>1. \A d \in Caller : stage'[d] = "body" <=> wire'[d] # NoAnswer
      BY <1>2, <1>4 DEF IInv, Typed, TypeOK
    <2>2. \A d \in Caller :
            /\ last'[d].err \in {"none", "auth", "usage", "protocol", "transport", "task-failed"}
            /\ last'[d] # NoReturn =>
                  (last'[d].kind = "task" <=> last'[d].err \in {"none", "task-failed"})
      BY <1>4, <1>6 DEF IInv, Typed, TypeOK
    <2>3. TypeOK'
      BY <1>2, <1>4, <2>1, <2>2 DEF IInv, Typed, TypeOK
    <2>4. \A d \in Caller : stage'[d] # "idle" => calls'[d] > 0
      BY <1>3, <1>4 DEF IInv, Typed
    <2> QED BY <1>2, <1>4, <1>5, <1>7, <2>3, <2>4 DEF IInv, Typed
  <1>9. WireInv'
    BY <1>2, <1>4 DEF IInv, WireInv
  <1>10. \A r \in pending \cup produced :
            /\ r.id \in Caller \X (1..MaxCalls) /\ r.id[2] <= calls[r.id[1]]
            /\ r.id # <<c, calls[c] + 1>>
            /\ \A d \in Caller : r.id = <<d, calls'[d]>> => d # c /\ r.id = <<d, calls[d]>>
    <2> SUFFICES ASSUME NEW r \in pending \cup produced
                 PROVE  /\ r.id \in Caller \X (1..MaxCalls) /\ r.id[2] <= calls[r.id[1]]
                        /\ r.id # <<c, calls[c] + 1>>
                        /\ \A d \in Caller :
                              r.id = <<d, calls'[d]>> => d # c /\ r.id = <<d, calls[d]>>
      OBVIOUS
    <2>1. r.id \in Caller \X (1..MaxCalls) /\ r.id[2] <= calls[r.id[1]]
      BY DEF IInv, Typed, IdsMade
    <2>2. r.id # <<c, calls[c] + 1>>
      BY <1>3, <2>1
    <2> QED BY <1>4, <2>1, <2>2
  <1>11. IdsMade'
    <2>1. \A r \in pending \cup produced : r.id[2] <= calls'[r.id[1]]
      BY <1>3, <1>4, <1>10
    <2> QED BY <1>2, <1>4, <1>5, <1>7, <2>1, <1>3 DEF IdsMade
  <1>12. IdsOnce'
    BY <1>2, <1>5, <1>7, <1>10 DEF IInv, IdsOnce
  <1>13. AboutCall'
    <2>1. ASSUME NEW d \in Caller
          PROVE  /\ began'[d] <= tasks[asked'[d]].version
                 /\ \A r \in pending' : r.id = <<d, calls'[d]>> => r.task = asked'[d]
                 /\ \A a \in produced : a.id = <<d, calls'[d]>> =>
                       a.task = asked'[d] /\ began'[d] <= a.version /\ Past(a, asked'[d])
      <3>1. CASE d = c
        BY <1>3, <1>4, <1>5, <1>7, <1>10, <3>1
      <3>2. CASE d # c
        BY <1>4, <1>5, <1>7, <1>10, <3>2 DEF IInv, AboutCall, RequestId
      <3> QED BY <3>1, <3>2
    <2> QED BY <1>2, <2>1 DEF AboutCall, RequestId, Past
  <1>14. LastInv'
    BY <1>2, <1>4, <1>6 DEF IInv, LastInv, Past
  <1> QED BY <1>8, <1>9, <1>11, <1>12, <1>13, <1>14 DEF IInv

(* A task goes on: what was seen of it stays a past of it, for only a task    *)
(* that works changes.                                                        *)
LEMMA PeerWorksKeeps ==
    ASSUME IInv, NEW t \in Task, PeerWorks(t) PROVE IInv'
  <1>1. PICK s \in State : tasks' = [tasks EXCEPT ![t] = [state |-> s, version |-> @.version + 1]]
    BY DEF PeerWorks
  <1>2. /\ tasks[t].state = "working" /\ tasks[t].version < MaxVersion
        /\ UNCHANGED <<calls, asked, began, stage, wire, pending, produced, last>>
    BY DEF PeerWorks
  <1>3. /\ \A u \in Task : tasks[u].version \in 0..MaxVersion
        /\ \A c \in Caller : asked[c] \in Task /\ began[c] \in 0..MaxVersion
    BY DEF IInv, Typed, TypeOK
  <1>4. /\ tasks' \in [Task -> [state : State, version : 0..MaxVersion]]
        /\ tasks'[t].version = tasks[t].version + 1
        /\ \A u \in Task \ {t} : tasks'[u] = tasks[u]
    BY <1>1, <1>2, <1>3, BoundsAssumption DEF IInv, Typed, TypeOK
  <1>5. \A u \in Task : tasks[u].version <= tasks'[u].version
    BY <1>3, <1>4, BoundsAssumption
  <1>6. ASSUME NEW u \in Task, NEW snapshot, snapshot.version \in Nat, Past(snapshot, u)
        PROVE  /\ snapshot.version <= tasks'[u].version
               /\ snapshot.state # "working" => snapshot.state = tasks'[u].state
    <2>1. CASE u = t
      BY <1>2, <1>3, <1>4, <1>6, <2>1, BoundsAssumption DEF Past
    <2>2. CASE u # t
      BY <1>4, <1>6, <2>2 DEF Past
    <2> QED BY <2>1, <2>2
  <1>7. Typed'
    BY <1>2, <1>4 DEF IInv, Typed, TypeOK
  <1>8. WireInv' /\ IdsMade' /\ IdsOnce'
    BY <1>2 DEF IInv, WireInv, IdsMade, IdsOnce
  <1>9. AboutCall'
    <2>1. ASSUME NEW c \in Caller
          PROVE  began[c] <= tasks'[asked[c]].version
      BY <1>3, <1>4, <1>5, BoundsAssumption DEF IInv, AboutCall
    <2>2. ASSUME NEW c \in Caller, NEW a \in produced, a.id = RequestId(c)
          PROVE  /\ a.task = asked[c] /\ began[c] <= a.version
                 /\ a.version <= tasks'[asked[c]].version
                 /\ a.state # "working" => a.state = tasks'[asked[c]].state
      <3>1. a.task = asked[c] /\ began[c] <= a.version /\ Past(a, asked[c])
        BY <2>2 DEF IInv, AboutCall
      <3>2. a.version \in Nat
        BY DEF IInv, Typed
      <3> QED BY <1>3, <1>6, <3>1, <3>2
    <2>3. \A c \in Caller, q \in pending : q.id = RequestId(c) => q.task = asked[c]
      BY DEF IInv, AboutCall
    <2> QED BY <1>2, <2>1, <2>2, <2>3 DEF AboutCall, RequestId, Past
  <1>10. LastInv'
    <2>1. ASSUME NEW c \in Caller, last[c].kind = "task"
          PROVE  /\ last[c].value.version <= tasks'[asked[c]].version
                 /\ last[c].value.state # "working" => last[c].value.state = tasks'[asked[c]].state
      <3>1. last[c].value.version \in Nat /\ Past(last[c].value, asked[c])
        BY <2>1 DEF IInv, LastInv
      <3> QED BY <1>3, <1>6, <3>1
    <2> QED BY <1>2, <2>1 DEF IInv, LastInv, Past
  <1> QED BY <1>7, <1>8, <1>9, <1>10 DEF IInv

(* The peer answers: the answer has the id of the request, which is gone.     *)
LEMMA PeerAnswersKeeps ==
    ASSUME IInv, NEW q \in pending, PeerAnswers(q) PROVE IInv'
  <1> DEFINE a == [id |-> q.id, task |-> q.task, state |-> tasks[q.task].state,
                   version |-> tasks[q.task].version]
  <1>1. /\ pending' = pending \ {q} /\ produced' = produced \cup {a}
        /\ UNCHANGED <<tasks, calls, asked, began, stage, wire, last>>
    BY DEF PeerAnswers
  <1>2. q \in [id : Caller \X (1..MaxCalls), task : Task]
    BY DEF IInv, Typed
  <1>3. tasks[q.task] \in [state : State, version : 0..MaxVersion]
    BY <1>2 DEF IInv, Typed, TypeOK
  <1>4. /\ a \in [id : Caller \X (1..MaxCalls), task : Task, state : State,
                  version : 0..MaxVersion]
        /\ a.id = q.id /\ a.task = q.task
        /\ a.state = tasks[q.task].state /\ a.version = tasks[q.task].version
    BY <1>2, <1>3
  <1> HIDE DEF a
  <1>5. Past(a, q.task)
    BY <1>3, <1>4 DEF Past
  <1>6. Typed'
    BY <1>1, <1>4 DEF IInv, Typed, TypeOK
  <1>7. WireInv'
    BY <1>1 DEF IInv, WireInv
  <1>8. IdsMade'
    BY <1>1, <1>4 DEF IInv, IdsMade
  <1>9. IdsOnce'
    BY <1>1, <1>4 DEF IInv, IdsOnce
  <1>10. AboutCall'
    <2>1. ASSUME NEW c \in Caller, a.id = RequestId(c)
          PROVE  a.task = asked[c] /\ began[c] <= a.version /\ Past(a, asked[c])
      BY <1>4, <1>5, <2>1 DEF IInv, AboutCall
    <2> QED BY <1>1, <2>1 DEF IInv, AboutCall, RequestId, Past
  <1>11. LastInv'
    BY <1>1 DEF IInv, LastInv, Past
  <1> QED BY <1>6, <1>7, <1>8, <1>9, <1>10, <1>11 DEF IInv

LEMMA ReceiveHeadersKeeps ==
    ASSUME IInv, NEW c \in Caller, ReceiveHeaders(c) PROVE IInv'
  <1>0. PICK a \in produced : \E r \in {Answer(a)} \cup DamagedHeaders(Answer(a)) :
          IF HeaderError(r) # "none"
          THEN Return(c, Error(HeaderError(r)))
          ELSE /\ stage' = [stage EXCEPT ![c] = "body"]
               /\ wire' = [wire EXCEPT ![c] = r]
               /\ UNCHANGED <<calls, asked, began, last>>
    BY DEF ReceiveHeaders
  <1>1. PICK r \in {Answer(a)} \cup DamagedHeaders(Answer(a)) :
          IF HeaderError(r) # "none"
          THEN Return(c, Error(HeaderError(r)))
          ELSE /\ stage' = [stage EXCEPT ![c] = "body"]
               /\ wire' = [wire EXCEPT ![c] = r]
               /\ UNCHANGED <<calls, asked, began, last>>
    BY <1>0
  <1>2. UNCHANGED <<tasks, pending, produced>> /\ stage[c] = "headers"
    BY DEF ReceiveHeaders, peer
  <1>3. CASE HeaderError(r) # "none"
    BY <1>1, <1>2, <1>3, HeaderErrors, ErrorReturnable, ReturnKeeps DEF peer
  <1>4. CASE HeaderError(r) = "none"
    <2>1. /\ stage' = [stage EXCEPT ![c] = "body"]
          /\ wire' = [wire EXCEPT ![c] = r]
          /\ UNCHANGED <<calls, asked, began, last>>
      BY <1>1, <1>4
    <2>2. r.status \in {"2xx", "401/403"}
      BY DEF Answer, DamagedHeaders
    <2>3. r # NoAnswer
      BY <2>2 DEF NoAnswer
    <2>4. /\ stage' \in [Caller -> {"idle", "headers", "body"}]
          /\ stage'[c] = "body" /\ DOMAIN wire' = Caller /\ wire'[c] = r
          /\ \A d \in Caller \ {c} : stage'[d] = stage[d] /\ wire'[d] = wire[d]
      BY <2>1 DEF IInv, Typed, TypeOK
    <2>5. \A d \in Caller : stage'[d] = "body" <=> wire'[d] # NoAnswer
      BY <2>3, <2>4 DEF IInv, Typed, TypeOK
    <2>6. \A d \in Caller : stage'[d] # "idle" => calls[d] > 0
      BY <1>2, <2>4 DEF IInv, Typed
    <2>7. Typed'
      BY <1>2, <2>1, <2>4, <2>5, <2>6 DEF IInv, Typed, TypeOK
    <2>8. WireInv'
      BY <1>2, <2>4 DEF IInv, WireInv
    <2>9. IdsMade' /\ IdsOnce' /\ AboutCall' /\ LastInv'
      BY <1>2, <2>1 DEF IInv, IdsMade, IdsOnce, AboutCall, LastInv, RequestId, Past
    <2> QED BY <2>7, <2>8, <2>9 DEF IInv
  <1> QED BY <1>3, <1>4

(* The heart of it: a body that was accepted is the answer to this request,   *)
(* whole and with the id that no other answer has.                            *)
LEMMA AcceptedBody ==
    ASSUME IInv, NEW c \in Caller, stage[c] = "body",
           NEW r \in {wire[c]} \cup DamagedBody(wire[c]),
           GetTask(RequestId(c), r).kind = "task"
    PROVE  \E a \in produced :
              /\ a.id = RequestId(c)
              /\ GetTask(RequestId(c), r).value.id = a.task
              /\ GetTask(RequestId(c), r).value.state = a.state
              /\ GetTask(RequestId(c), r).value.version = a.version
  <1>1. /\ r.body = "whole" /\ r.json = "one-value" /\ ~Nil(r.id) /\ r.id = RequestId(c)
        /\ ~Nil(r.result) /\ GetTask(RequestId(c), r).value = r.result
    BY GetTaskMeans DEF Echoes
  <1>2. RequestId(c) # Wrong
    <2>1. RequestId(c) \in Caller \X (1..MaxCalls)
      BY BoundsAssumption DEF RequestId, IInv, Typed, TypeOK
    <2> QED BY <2>1, WrongAssumption
  <1>3. PICK a \in produced : wire[c] \in {Answer(a)} \cup DamagedHeaders(Answer(a))
    BY DEF IInv, WireInv
  <1>4. /\ DOMAIN wire[c] = {"status", "version", "type", "body", "json", "jsonrpc", "id",
                             "error", "result"}
        /\ wire[c].id = a.id
        /\ wire[c].result.id = a.task /\ wire[c].result.state = a.state
        /\ wire[c].result.version = a.version
    BY <1>3 DEF Answer, DamagedHeaders
  <1>5. r = wire[c]
    <2>1. r # [wire[c] EXCEPT !.body = "broken"] /\ r # [wire[c] EXCEPT !.json = "trailing-data"]
      BY <1>1, <1>4
    <2>2. r # [wire[c] EXCEPT !.result = Null]
      BY <1>1, <1>4 DEF Nil
    <2>3. r # [wire[c] EXCEPT !.id = Absent] /\ r # [wire[c] EXCEPT !.id = Wrong]
      BY <1>1, <1>2, <1>4 DEF Nil
    <2> QED BY <2>1, <2>2, <2>3 DEF DamagedBody
  <1> QED BY <1>1, <1>4, <1>5

LEMMA ReadBodyKeeps ==
    ASSUME IInv, NEW c \in Caller, ReadBody(c) PROVE IInv'
  <1>1. PICK r \in {wire[c]} \cup DamagedBody(wire[c]) : Return(c, GetTask(RequestId(c), r))
    BY DEF ReadBody
  <1>2. stage[c] = "body" /\ UNCHANGED peer
    BY DEF ReadBody
  <1>3. PICK outcome : outcome = GetTask(RequestId(c), r)
    OBVIOUS
  <1>4. /\ outcome.err \in {"none", "auth", "usage", "protocol", "transport", "task-failed"}
        /\ outcome.kind = "task" <=> outcome.err \in {"none", "task-failed"}
    BY <1>3, GetTaskMeans
  <1>5. ASSUME outcome.kind = "task"
        PROVE  /\ outcome.value.id = asked[c]
               /\ outcome.value.state \in State
               /\ outcome.value.version \in Nat /\ began[c] <= outcome.value.version
               /\ Past(outcome.value, asked[c])
    <2>1. PICK a \in produced : /\ a.id = RequestId(c)
                                /\ outcome.value.id = a.task
                                /\ outcome.value.state = a.state
                                /\ outcome.value.version = a.version
      BY <1>2, <1>3, <1>5, AcceptedBody
    <2>2. a.task = asked[c] /\ began[c] <= a.version /\ Past(a, asked[c])
      BY <2>1 DEF IInv, AboutCall
    <2>3. a.state \in State /\ a.version \in Nat
      BY DEF IInv, Typed
    <2> QED BY <2>1, <2>2, <2>3 DEF Past
  <1>6. Returnable(c, outcome)
    BY <1>4, <1>5 DEF Returnable
  <1> QED BY <1>1, <1>2, <1>3, <1>6, ReturnKeeps

LEMMA NextKeeps == IInv /\ [Next]_vars => IInv'
  <1> SUFFICES ASSUME IInv, [Next]_vars PROVE IInv'
    OBVIOUS
  <1>1. ASSUME NEW c \in Caller, RejectRequest(c) PROVE IInv'
    BY <1>1, ErrorReturnable, ReturnKeeps DEF RejectRequest
  <1>2. ASSUME NEW c \in Caller, ConnectionFails(c) PROVE IInv'
    BY <1>2, ErrorReturnable, ReturnKeeps DEF ConnectionFails
  <1>3. CASE UNCHANGED vars
    BY <1>3 DEF vars, IInv, Typed, TypeOK, WireInv, IdsMade, IdsOnce, AboutCall, LastInv,
                RequestId, Past
  <1> QED BY <1>1, <1>2, <1>3, SendRequestKeeps, PeerWorksKeeps, PeerAnswersKeeps,
             ReceiveHeadersKeeps, ReadBodyKeeps
          DEF Next, Client

-----------------------------------------------------------------------------
(* The invariants.                                                            *)

(* Requests, answers and calls are always as IInv describes them.             *)
THEOREM Invariant == Spec => []IInv
  BY InitIInv, NextKeeps, PTL DEF Spec

(* GetTask hands a task on exactly when it returns without error or with the  *)
(* failure of the task, and every variable keeps its type.                    *)
THEOREM TypeCorrect == Spec => []TypeOK
  <1>1. IInv => TypeOK
    BY DEF IInv, Typed
  <1> QED BY <1>1, Invariant, PTL

(* What GetTask hands on is the task that was asked for, no older than the    *)
(* call, and in a state that the task had and, once ended, keeps: for any     *)
(* number of callers, calls and tasks, with only the ids of requests compared.*)
THEOREM RightAndFreshHolds == Spec => []RightAndFresh
  <1>1. IInv => RightAndFresh
    <2> SUFFICES ASSUME IInv, NEW c \in Caller, last[c].kind = "task"
                 PROVE  /\ last[c].value.id = asked[c]
                        /\ last[c].value.version \in began[c] .. tasks[asked[c]].version
                        /\ last[c].value.state # "working" =>
                              last[c].value.state = tasks[asked[c]].state
      BY DEF RightAndFresh
    <2>1. /\ asked[c] \in Task /\ began[c] \in Nat /\ tasks[asked[c]].version \in Nat
      BY BoundsAssumption DEF IInv, Typed, TypeOK
    <2> QED BY <2>1 DEF IInv, LastInv, Past
  <1> QED BY <1>1, Invariant, PTL

-----------------------------------------------------------------------------
(* TaskReads.  What a call has read is the one answer to its request.         *)
LEMMA HasReadMeans ==
    ASSUME NEW c, \A a, b \in produced : a.id = b.id => a = b
    PROVE  /\ stage[c] = "idle" => HasRead(c) = NoSnapshot
           /\ (\A a \in produced : a.id # RequestId(c)) => HasRead(c) = NoSnapshot
           /\ \A a \in produced : stage[c] # "idle" /\ a.id = RequestId(c) =>
                 HasRead(c) = [state |-> a.state, version |-> a.version]
  <1>1. ASSUME NEW a \in produced, a.id = RequestId(c)
        PROVE  AnswersTo(RequestId(c)) = {a}
    BY <1>1 DEF AnswersTo
  <1>2. (\A a \in produced : a.id # RequestId(c)) => AnswersTo(RequestId(c)) = {}
    BY DEF AnswersTo
  <1>3. ASSUME NEW a \in produced, a.id = RequestId(c), stage[c] # "idle"
        PROVE  HasRead(c) = [state |-> a.state, version |-> a.version]
    <2>1. AnswersTo(RequestId(c)) = {a}
      BY <1>1, <1>3
    <2>2. (CHOOSE b \in {a} : TRUE) = a
      OBVIOUS
    <2> QED BY <1>3, <2>1, <2>2 DEF HasRead
  <1> QED BY <1>2, <1>3 DEF HasRead

LEMMA HasReadThen ==
    ASSUME NEW c, \A a, b \in produced' : a.id = b.id => a = b
    PROVE  /\ stage'[c] = "idle" => HasRead(c)' = NoSnapshot
           /\ (\A a \in produced' : a.id # RequestId(c)') => HasRead(c)' = NoSnapshot
           /\ \A a \in produced' : stage'[c] # "idle" /\ a.id = RequestId(c)' =>
                 HasRead(c)' = [state |-> a.state, version |-> a.version]
  <1>1. ASSUME NEW a \in produced', a.id = RequestId(c)'
        PROVE  AnswersTo(RequestId(c))' = {a}
    BY <1>1 DEF AnswersTo
  <1>2. (\A a \in produced' : a.id # RequestId(c)') => AnswersTo(RequestId(c))' = {}
    BY DEF AnswersTo
  <1>3. ASSUME NEW a \in produced', a.id = RequestId(c)', stage'[c] # "idle"
        PROVE  HasRead(c)' = [state |-> a.state, version |-> a.version]
    <2>1. AnswersTo(RequestId(c))' = {a}
      BY <1>1, <1>3
    <2>2. (CHOOSE b \in {a} : TRUE) = a
      OBVIOUS
    <2> QED BY <1>3, <2>1, <2>2 DEF HasRead
  <1> QED BY <1>2, <1>3 DEF HasRead

(* The mapped variables, and when they stay.                                  *)
busy == {c \in Caller : stage[c] # "idle"}
read == [c \in Caller |-> HasRead(c)]
got == [c \in Caller |-> HasGot(c)]

LEMMA MappedSame ==
    ASSUME NEW d
    PROVE  /\ stage'[d] = stage[d] /\ calls'[d] = calls[d] /\ produced' = produced =>
                 HasRead(d)' = HasRead(d)
           /\ last'[d] = last[d] => HasGot(d)' = HasGot(d)
  BY DEF HasRead, AnswersTo, RequestId, HasGot

LEMMA InitRefines == Init => Reads!Init
  <1> SUFFICES ASSUME Init PROVE Reads!Init
    OBVIOUS
  <1>1. \A c \in Caller : HasRead(c) = NoSnapshot /\ HasGot(c) = NoSnapshot
    BY DEF Init, HasRead, HasGot, NoReturn, Error
  <1>2. tasks \in [Task -> [state : State, version : 0..MaxVersion]]
    BY BoundsAssumption DEF Init, State
  <1> QED BY <1>1, <1>2 DEF Init, Reads!Init

(* A call returns: an error is a failed read, and a task is the one read.     *)
LEMMA ReturnRefines ==
    ASSUME IInv, NEW c \in Caller, NEW outcome, Return(c, outcome), UNCHANGED peer,
           \/ outcome.kind # "task"
           \/ /\ stage[c] # "idle"
              /\ \E a \in produced : /\ a.id = RequestId(c)
                                     /\ outcome.value.id = a.task
                                     /\ outcome.value.state = a.state
                                     /\ outcome.value.version = a.version
    PROVE  Reads!Fail(c) \/ Reads!Return(c)
  <1>1. /\ stage' = [stage EXCEPT ![c] = "idle"]
        /\ last' = [last EXCEPT ![c] = outcome]
        /\ UNCHANGED <<calls, asked, began, tasks, pending, produced>>
    BY DEF Return, peer
  <1>2. /\ stage'[c] = "idle" /\ last'[c] = outcome
        /\ \A d \in Caller \ {c} : stage'[d] = stage[d] /\ last'[d] = last[d]
    BY <1>1 DEF IInv, Typed, TypeOK
  <1>3. busy' = busy \ {c}
    BY <1>2 DEF busy
  <1>4. HasRead(c)' = NoSnapshot /\ \A d \in Caller \ {c} : HasRead(d)' = HasRead(d)
    BY <1>1, <1>2, MappedSame DEF HasRead
  <1>5. read' = [read EXCEPT ![c] = NoSnapshot]
    BY <1>4 DEF read
  <1>6. \A d \in Caller \ {c} : HasGot(d)' = HasGot(d)
    BY <1>2, MappedSame
  <1>7. CASE outcome.kind # "task"
    <2>1. HasGot(c)' = NoSnapshot
      BY <1>2, <1>7 DEF HasGot
    <2>2. got' = [got EXCEPT ![c] = NoSnapshot]
      BY <1>6, <2>1 DEF got
    <2> QED BY <1>1, <1>3, <1>5, <2>2 DEF Reads!Fail, busy, read, got
  <1>8. CASE outcome.kind = "task"
    <2>1. PICK a \in produced : /\ a.id = RequestId(c)
                                /\ outcome.value.id = a.task
                                /\ outcome.value.state = a.state
                                /\ outcome.value.version = a.version
      BY <1>8
    <2>2. stage[c] # "idle"
      BY <1>8
    <2>3. HasRead(c) = [state |-> a.state, version |-> a.version]
      BY <2>1, <2>2, HasReadMeans DEF IInv, IdsOnce
    <2>4. a.state # "none"
      BY DEF IInv, Typed, State
    <2>5. read[c] = [state |-> a.state, version |-> a.version] /\ read[c] # NoSnapshot
      BY <2>3, <2>4 DEF read, NoSnapshot
    <2>6. a.task = asked[c]
      BY <2>1 DEF IInv, AboutCall
    <2>7. HasGot(c)' = [task |-> asked[c], snapshot |-> read[c]]
      BY <1>2, <1>8, <2>1, <2>5, <2>6 DEF HasGot
    <2>8. got' = [got EXCEPT ![c] = [task |-> asked[c], snapshot |-> read[c]]]
      BY <1>6, <2>7 DEF got
    <2>9. c \in busy
      BY <2>2 DEF busy
    <2>10. Reads!Return(c)
      BY <1>1, <1>3, <1>5, <2>5, <2>8, <2>9 DEF Reads!Return, busy, read, got
    <2> QED BY <2>10
  <1> QED BY <1>7, <1>8

LEMMA SendRequestRefines ==
    ASSUME IInv, NEW c \in Caller, SendRequest(c) PROVE Reads!Begin(c)
  <1>1. /\ stage[c] = "idle" /\ calls[c] < MaxCalls
        /\ calls' = [calls EXCEPT ![c] = @ + 1]
        /\ \E t \in Task : asked' = [asked EXCEPT ![c] = t]
        /\ stage' = [stage EXCEPT ![c] = "headers"]
        /\ last' = [last EXCEPT ![c] = NoReturn]
        /\ UNCHANGED <<tasks, wire, produced>>
    BY DEF SendRequest
  <1>2. /\ calls[c] \in Nat /\ calls'[c] = calls[c] + 1
        /\ stage'[c] = "headers" /\ last'[c] = NoReturn
        /\ \A d \in Caller \ {c} :
              calls'[d] = calls[d] /\ stage'[d] = stage[d] /\ last'[d] = last[d]
    BY <1>1 DEF IInv, Typed, TypeOK
  <1>3. c \notin busy /\ busy' = busy \cup {c}
    BY <1>1, <1>2 DEF busy
  <1>4. \A a \in produced : a.id # <<c, calls[c] + 1>>
    <2> SUFFICES ASSUME NEW a \in produced, a.id = <<c, calls[c] + 1>> PROVE FALSE
      OBVIOUS
    <2>1. a.id[2] <= calls[a.id[1]]
      BY DEF IInv, IdsMade
    <2> QED BY <1>2, <2>1
  <1>5. \A a \in produced' : a.id # RequestId(c)'
    BY <1>1, <1>2, <1>4 DEF RequestId
  <1>6. HasRead(c)' = NoSnapshot /\ HasRead(c) = NoSnapshot
    <2>1. \A a, b \in produced' : a.id = b.id => a = b
      BY <1>1 DEF IInv, IdsOnce
    <2>2. HasRead(c)' = NoSnapshot
      BY <1>5, <2>1, HasReadThen
    <2> QED BY <1>1, <2>2 DEF HasRead
  <1>7. read' = read
    BY <1>1, <1>2, <1>6, MappedSame DEF read
  <1>8. HasGot(c)' = NoSnapshot
    BY <1>2 DEF HasGot, NoReturn, Error
  <1>9. got' = [got EXCEPT ![c] = NoSnapshot]
    BY <1>2, <1>8, MappedSame DEF got
  <1> QED BY <1>1, <1>3, <1>7, <1>9 DEF Reads!Begin, busy, read, got

(* The answer of the peer is the read of the call that waits for it; to a     *)
(* call that was given up it is nothing.                                      *)
LEMMA PeerAnswersRefines ==
    ASSUME IInv, NEW q \in pending, PeerAnswers(q)
    PROVE  (\E c \in Caller : Reads!Read(c)) \/ UNCHANGED Reads!vars
  <1> DEFINE a == [id |-> q.id, task |-> q.task, state |-> tasks[q.task].state,
                   version |-> tasks[q.task].version]
  <1>1. /\ produced' = produced \cup {a}
        /\ UNCHANGED <<tasks, calls, asked, stage, last>>
    BY DEF PeerAnswers
  <1>2. q \in [id : Caller \X (1..MaxCalls), task : Task]
    BY DEF IInv, Typed
  <1>3. tasks[q.task] \in [state : State, version : 0..MaxVersion]
    BY <1>2 DEF IInv, Typed, TypeOK
  <1>4. /\ a.id = q.id /\ a.task = q.task
        /\ [state |-> a.state, version |-> a.version] = tasks[q.task]
    BY <1>3
  <1> HIDE DEF a
  <1>5. /\ \A b \in produced : b.id # q.id
        /\ \A b1, b2 \in produced : b1.id = b2.id => b1 = b2
    BY DEF IInv, IdsOnce
  <1>6. \A b1, b2 \in produced' : b1.id = b2.id => b1 = b2
    BY <1>1, <1>4, <1>5
  <1>7. \A d : RequestId(d)' = RequestId(d)
    BY <1>1 DEF RequestId
  <1>8. ASSUME NEW d \in Caller, stage[d] = "idle" \/ RequestId(d) # q.id
        PROVE  HasRead(d)' = HasRead(d)
    <2>1. CASE stage[d] = "idle"
      BY <1>1, <2>1 DEF HasRead
    <2>2. CASE RequestId(d) # q.id
      <3>1. AnswersTo(RequestId(d))' = AnswersTo(RequestId(d))
        BY <1>1, <1>4, <1>7, <2>2 DEF AnswersTo
      <3> QED BY <1>1, <3>1 DEF HasRead
    <2> QED BY <1>8, <2>1, <2>2
  <1>9. busy' = busy /\ got' = got
    BY <1>1, MappedSame DEF busy, got
  <1>10. CASE \E c \in Caller : stage[c] # "idle" /\ RequestId(c) = q.id
    <2>1. PICK c \in Caller : stage[c] # "idle" /\ RequestId(c) = q.id
      BY <1>10
    <2>2. HasRead(c) = NoSnapshot
      BY <1>5, <2>1, HasReadMeans
    <2>3. HasRead(c)' = tasks[q.task]
      <3>1. a \in produced' /\ stage'[c] # "idle" /\ a.id = RequestId(c)'
        BY <1>1, <1>4, <1>7, <2>1
      <3> QED BY <1>4, <1>6, <3>1, HasReadThen
    <2>4. q.task = asked[c]
      BY <2>1 DEF IInv, AboutCall
    <2>5. \A d \in Caller \ {c} : RequestId(d) # q.id
      BY <2>1 DEF RequestId
    <2>6. read' = [read EXCEPT ![c] = tasks[asked[c]]]
      BY <1>8, <2>3, <2>4, <2>5 DEF read
    <2>7. c \in busy /\ read[c] = NoSnapshot
      BY <2>1, <2>2 DEF busy, read
    <2>8. Reads!Read(c)
      BY <1>1, <1>9, <2>6, <2>7 DEF Reads!Read, busy, read, got
    <2> QED BY <2>8
  <1>11. CASE \A c \in Caller : stage[c] = "idle" \/ RequestId(c) # q.id
    <2>1. read' = read
      BY <1>8, <1>11 DEF read
    <2> QED BY <1>1, <1>9, <2>1 DEF Reads!vars, busy, read, got
  <1> QED BY <1>10, <1>11

LEMMA NextRefines == IInv /\ [Next]_vars => [Reads!Next]_Reads!vars
  <1> SUFFICES ASSUME IInv, [Next]_vars PROVE [Reads!Next]_Reads!vars
    OBVIOUS
  <1>1. ASSUME NEW c \in Caller, RejectRequest(c) \/ ConnectionFails(c)
        PROVE  Reads!Fail(c) \/ Reads!Return(c)
    BY <1>1, ErrorReturnable, ReturnRefines DEF RejectRequest, ConnectionFails
  <1>2. ASSUME NEW c \in Caller, ReadBody(c) PROVE Reads!Fail(c) \/ Reads!Return(c)
    <2>1. PICK r \in {wire[c]} \cup DamagedBody(wire[c]) : Return(c, GetTask(RequestId(c), r))
      BY <1>2 DEF ReadBody
    <2>2. stage[c] = "body" /\ UNCHANGED peer
      BY <1>2 DEF ReadBody
    <2> QED BY <2>1, <2>2, AcceptedBody, ReturnRefines
  <1>3. ASSUME NEW c \in Caller, ReceiveHeaders(c)
        PROVE  Reads!Fail(c) \/ Reads!Return(c) \/ UNCHANGED Reads!vars
    <2>1. UNCHANGED peer /\ stage[c] = "headers"
      BY <1>3 DEF ReceiveHeaders
    <2>2. CASE \E r : HeaderError(r) # "none" /\ Return(c, Error(HeaderError(r)))
      BY <2>1, <2>2, HeaderErrors, ErrorReturnable, ReturnRefines
    <2>3. CASE stage' = [stage EXCEPT ![c] = "body"] /\ UNCHANGED <<calls, asked, began, last>>
      <3>1. /\ stage'[c] = "body"
            /\ \A d \in Caller \ {c} : stage'[d] = stage[d]
        BY <2>3 DEF IInv, Typed, TypeOK
      <3>2. produced' = produced /\ tasks' = tasks
        BY <2>1 DEF peer
      <3>3. HasRead(c)' = HasRead(c)
        BY <2>1, <2>3, <3>1, <3>2 DEF HasRead, AnswersTo, RequestId
      <3>4. busy' = busy /\ read' = read /\ got' = got
        BY <2>1, <2>3, <3>1, <3>2, <3>3, MappedSame DEF busy, read, got
      <3> QED BY <2>3, <3>2, <3>4 DEF Reads!vars, busy, read, got
    <2> QED BY <1>3, <2>2, <2>3 DEF ReceiveHeaders
  <1>4. ASSUME NEW t \in Task, PeerWorks(t) PROVE Reads!Work(t)
    <2>1. /\ \E s \in State : tasks' = [tasks EXCEPT ![t] = [state |-> s, version |-> @.version + 1]]
          /\ tasks[t].version < MaxVersion
          /\ UNCHANGED <<calls, asked, stage, produced, last>>
      BY <1>4 DEF PeerWorks
    <2>2. tasks[t].version + 1 \in 0..MaxVersion
      BY <2>1, BoundsAssumption DEF IInv, Typed, TypeOK
    <2>3. \E s \in [state : State, version : 0..MaxVersion] : tasks' = [tasks EXCEPT ![t] = s]
      BY <2>1, <2>2
    <2>4. busy' = busy /\ read' = read /\ got' = got
      BY <2>1, MappedSame DEF busy, read, got
    <2> QED BY <2>1, <2>3, <2>4 DEF Reads!Work, busy, read, got
  <1>5. CASE UNCHANGED vars
    <2>1. busy' = busy /\ read' = read /\ got' = got
      BY <1>5, MappedSame DEF vars, busy, read, got
    <2> QED BY <1>5, <2>1 DEF vars, Reads!vars, busy, read, got
  <1>6. ASSUME NEW c \in Caller, Client(c) PROVE [Reads!Next]_Reads!vars
    BY <1>1, <1>2, <1>3, <1>6, SendRequestRefines DEF Client, Reads!Next
  <1>7. ASSUME NEW q \in pending, PeerAnswers(q) PROVE [Reads!Next]_Reads!vars
    BY <1>7, PeerAnswersRefines DEF Reads!Next
  <1> QED BY <1>4, <1>5, <1>6, <1>7 DEF Next, Reads!Next

(* Each call of GetTask is one read of the task it asks for, at one instant   *)
(* between its start and its return, or an error: the client implements       *)
(* TaskReads, whatever the network does with requests and answers.            *)
THEOREM ImplementsHolds == Spec => Implements
  BY InitRefines, NextRefines, Invariant, PTL DEF Spec, Implements, Reads!Spec
=============================================================================
