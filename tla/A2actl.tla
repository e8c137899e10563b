------------------------------- MODULE A2actl -------------------------------
(* Invocations of `a2actl send` and `a2actl wait` (internal/cli/cli.go) that  *)
(* share one conversation store and talk to one peer.  An invocation is a     *)
(* process of its own: it may crash between any two steps, its store may      *)
(* fail, its request or the answer may be late or lost, and nobody starts it  *)
(* again.                                                                     *)
(*                                                                            *)
(* A Record call is one step here: SqliteStore shows that it takes effect as  *)
(* a whole or not at all.  A wait is one step from its first poll to its      *)
(* return: WaitPoll shows the polling.                                        *)
EXTENDS Naturals, Sequences, FiniteSets

CONSTANTS Sender,         \* invocations of send
          Waiter,         \* invocations of wait
          Storing,        \* the invocations that were given --store
          Conversation,   \* conversation ids
          Scope,          \* Scope[p]: --context of a send, --conversation of a wait
          PeerMessage,    \* the message ids the peer has to give
          NoId            \* the empty id

Invocation == Sender \cup Waiter

ASSUME InvocationAssumption ==
    /\ Sender \cap Waiter = {}
    /\ Storing \subseteq Invocation
    /\ Scope \in [Invocation -> Conversation]
    /\ NoId \notin Conversation \cup PeerMessage \cup Invocation
    /\ PeerMessage \cap Invocation = {}

(* newID is random: an id is named by the invocation that makes it.  The      *)
(* outbound message of send p has the id p, its events <<p, type>>.           *)
EventType == {"send_started", "send_completed", "send_failed", "wait_finished"}

(* The columns a property looks at: parent_id of a message, type and          *)
(* causation_id of an event, and the invocation whose flags a conversation    *)
(* row was made from.                                                         *)
Columns == [parent : Sender \cup {NoId}]
           \cup [type : EventType, causation : Sender \cup {NoId}]
           \cup [flags : Invocation]

INSTANCE TranscriptDB WITH
    ConversationId <- Conversation \cup {NoId},
    MessageId <- Invocation \cup PeerMessage \cup {NoId},
    EventId <- Invocation \X EventType,
    Text <- Columns, Blank <- NoId, DefaultLimit <- 100, MaxLimit <- 1000

VARIABLES
    db,        \* the tables of the store
    pc,        \* pc[p]: where p is in runSend or runWait, see Place
    result,    \* result[p]: what its A2A call returned
    storeErr,  \* storeErr[p]: recording the result failed
    exit,      \* exit[p]: its exit code, or Running
    wire,      \* wire[p]: the request of send p: "none", "sent" or "answered"
    answer,    \* answer[p]: the peer's answer to it
    handled,   \* the sends whose message the peer has taken on
    tasks,     \* tasks[p]: the task the peer made of send p
    given,     \* the message ids the peer has given so far
    known,     \* the tasks whose id a send has printed
    target,    \* target[q]: the task wait q polls
    faulted    \* history: the invocations the store has failed for no fault of theirs

store == <<db, faulted>>
peer == <<answer, handled, tasks, given>>
vars == <<db, pc, result, storeErr, exit, wire, answer, handled, tasks, given,
          known, target, faulted>>

Place == {"start", "call", "response", "poll", "finish", "report", "exited", "crashed"}

(* Exit codes (cli.go:17-32); Running while there is none.                    *)
Running == 99
ExitOK == 0
ExitStore == 6
ExitCode(err) ==
    CASE err = "usage" -> 1 [] err = "auth" -> 2 [] err = "protocol" -> 3
      [] err = "task-failed" -> 4 [] err = "transport" -> 5

TaskState == {"running", "completed", "failed"}
NoTask == [state |-> "none", message |-> NoId]

(* What SendMessageWithID and Wait return: a message, or a task with its      *)
(* state and status message, or neither; and an error.                        *)
Failure(err) == [kind |-> "none", task |-> NoId, state |-> "none", message |-> NoId, err |-> err]
Reply(m) == [kind |-> "message", task |-> NoId, state |-> "none", message |-> m, err |-> "none"]
Snapshot(t, tk) ==
    [kind |-> "task", task |-> t, state |-> tk.state, message |-> tk.message,
     err |-> IF tk.state = "failed" THEN "task-failed" ELSE "none"]
NoResult == Failure("none")

Result == [kind : {"none", "message", "task"}, task : Sender \cup {NoId},
           state : TaskState \cup {"none"}, message : PeerMessage \cup {NoId},
           err : {"none", "usage", "auth", "protocol", "task-failed", "transport"}]

Init ==
    /\ db = EmptyTables
    /\ pc = [p \in Invocation |-> "start"]
    /\ result = [p \in Invocation |-> NoResult]
    /\ storeErr = [p \in Invocation |-> FALSE]
    /\ exit = [p \in Invocation |-> Running]
    /\ wire = [p \in Sender |-> "none"]
    /\ answer = [p \in Sender |-> NoResult]
    /\ handled = {}
    /\ tasks = [p \in Sender |-> NoTask]
    /\ given = {}
    /\ known = {}
    /\ target = [q \in Waiter |-> NoId]
    /\ faulted = {}

-----------------------------------------------------------------------------
(* Pieces of actions.                                                         *)

Goto(p, place) == pc' = [pc EXCEPT ![p] = place]

Exit(p, code) ==
    /\ Goto(p, "exited")
    /\ exit' = [exit EXCEPT ![p] = code]

(* The A2A call of p returns r; the outcome is recorded first if p stores.    *)
CallReturns(p, r) ==
    /\ result' = [result EXCEPT ![p] = r]
    /\ Goto(p, IF p \in Storing THEN "finish" ELSE "report")

(* The batches of cli.go.                                                     *)
Batch(p, messages, event) ==
    [op |-> "record",
     conversation |-> [id |-> Scope[p], text |-> [flags |-> p]],
     messages |-> messages,
     events |-> <<event>>]

Event(p, type, causation) ==
    [id |-> <<p, type>>, conversation |-> Scope[p],
     text |-> [type |-> type, causation |-> causation]]

MessageOf(p, id, parent) ==
    [id |-> id, conversation |-> Scope[p], text |-> [parent |-> parent]]

StartBatch(p) == Batch(p, <<MessageOf(p, p, NoId)>>, Event(p, "send_started", p))

(* The peer's message or status message, if there is one, and the outcome.    *)
PeerRow(p, parent) ==
    IF result[p].message = NoId THEN <<>>
    ELSE <<MessageOf(p, result[p].message, parent)>>

OutcomeBatchOptimistic(p) ==     \* mutant: only a lost request is a failure
    IF p \in Waiter
    THEN Batch(p, PeerRow(p, NoId), Event(p, "wait_finished", NoId))
    ELSE Batch(p, PeerRow(p, p),
               Event(p, IF result[p].err = "transport" THEN "send_failed" ELSE "send_completed", p))
OutcomeBatchEchoes(p) ==         \* mutant: the reply is recorded under the outbound id
    IF p \in Waiter
    THEN Batch(p, PeerRow(p, NoId), Event(p, "wait_finished", NoId))
    ELSE Batch(p, IF result[p].kind = "message" THEN <<MessageOf(p, p, p)>> ELSE PeerRow(p, p),
               Event(p, IF result[p].err = "none" THEN "send_completed" ELSE "send_failed", p))
OutcomeBatch(p) ==
    IF p \in Waiter
    THEN Batch(p, PeerRow(p, NoId), Event(p, "wait_finished", NoId))
    ELSE Batch(p, PeerRow(p, p),
               Event(p, IF result[p].err = "none" THEN "send_completed" ELSE "send_failed", p))

(* Store.Record, as Transcript promises it: all rows are new, or an error.    *)
(* The conversation is part of the batch, so no foreign key is in its way.    *)
Recorded(batch) ==
    /\ WellFormed(batch)
    /\ db' = Apply(db, batch)
    /\ UniqueKeys(db')

Conflicts(batch) == ~UniqueKeys(Apply(db, batch))

-----------------------------------------------------------------------------
(* Both commands, before anything is stored or sent: a flag is missing or the *)
(* timeout does not parse, or the bearer variable is not set.                 *)
RejectArguments(p) ==
    /\ pc[p] = "start"
    /\ Exit(p, ExitCode("usage"))
    /\ UNCHANGED <<store, peer, result, storeErr, wire, known, target>>

(* The store does not open, or a send cannot record its message: without the  *)
(* record there is no request.                                                *)
StoreRefuses(p) ==
    /\ pc[p] = "start" /\ p \in Storing
    /\ Exit(p, ExitStore)
    /\ faulted' = faulted \cup {p}
    /\ UNCHANGED <<db, peer, result, storeErr, wire, known, target>>

-----------------------------------------------------------------------------
(* runSend.                                                                   *)

(* The outbound message and send_started are recorded before anything is sent.*)
StartUnrecorded(p) ==            \* mutant: Record runs after the request
    /\ pc[p] = "start" /\ p \in Sender
    /\ Goto(p, "call")
    /\ UNCHANGED <<store, peer, result, storeErr, exit, wire, known, target>>
Start(p) ==
    /\ pc[p] = "start" /\ p \in Sender
    /\ IF p \in Storing THEN Recorded(StartBatch(p)) ELSE UNCHANGED db
    /\ Goto(p, "call")
    /\ UNCHANGED <<faulted, peer, result, storeErr, exit, wire, known, target>>

(* doJSON looks at the endpoint only now: send_started is recorded already.   *)
BadEndpoint(p) ==
    /\ pc[p] = "call"
    /\ CallReturns(p, Failure("usage"))
    /\ UNCHANGED <<store, peer, storeErr, exit, wire, known, target>>

SendRequest(p) ==
    /\ pc[p] = "call"
    /\ wire' = [wire EXCEPT ![p] = "sent"]
    /\ Goto(p, "response")
    /\ UNCHANGED <<store, peer, result, storeErr, exit, known, target>>

Receive(p) ==
    /\ pc[p] = "response" /\ wire[p] = "answered"
    /\ CallReturns(p, answer[p])
    /\ UNCHANGED <<store, peer, storeErr, exit, wire, known, target>>

(* The connection fails, the deadline passes, or the body is too large:       *)
(* whatever the peer has done or will do with the request.                    *)
SendWaitsForever(p) ==           \* mutant: no deadline on the request
    FALSE /\ UNCHANGED vars
SendLost(p) ==
    /\ pc[p] = "response"
    /\ CallReturns(p, Failure("transport"))
    /\ UNCHANGED <<store, peer, storeErr, exit, wire, known, target>>

-----------------------------------------------------------------------------
(* runWait.                                                                   *)

(* The user waits for a task whose id a send has printed.                     *)
StartWait(q) ==
    /\ pc[q] = "start" /\ q \in Waiter
    /\ \E t \in known : target' = [target EXCEPT ![q] = t]
    /\ Goto(q, "poll")
    /\ UNCHANGED <<store, peer, result, storeErr, exit, wire, known>>

PollsSeeTerminal(q) ==
    /\ pc[q] = "poll"
    /\ tasks[target[q]].state \in {"completed", "failed"}
    /\ CallReturns(q, Snapshot(target[q], tasks[target[q]]))
    /\ UNCHANGED <<store, peer, storeErr, exit, wire, known, target>>

PollsFail(q) ==
    /\ pc[q] = "poll"
    /\ \E err \in {"usage", "auth", "protocol", "transport"} : CallReturns(q, Failure(err))
    /\ UNCHANGED <<store, peer, storeErr, exit, wire, known, target>>

-----------------------------------------------------------------------------
(* Both commands, after the call: record the outcome, print it, exit.         *)

RecordOutcomeInParts(p) ==       \* mutant: AppendMessage and AppendEvent, no batch
    /\ pc[p] = "finish"
    /\ \/ Recorded(OutcomeBatch(p)) /\ Goto(p, "report")
       \/ /\ result[p].message # NoId
          /\ ~ \E i \in DOMAIN db.messages : db.messages[i].id = result[p].message
          /\ db' = [db EXCEPT !.messages = @ \o OutcomeBatch(p).messages]
          /\ Goto(p, "finish")
    /\ UNCHANGED <<faulted, peer, result, storeErr, exit, wire, known, target>>
RecordOutcome(p) ==
    /\ pc[p] = "finish"
    /\ Recorded(OutcomeBatch(p))
    /\ Goto(p, "report")
    /\ UNCHANGED <<faulted, peer, result, storeErr, exit, wire, known, target>>

(* The whole batch fails, because an id is there already ...                  *)
OutcomeConflicts(p) ==
    /\ pc[p] = "finish"
    /\ Conflicts(OutcomeBatch(p))
    /\ storeErr' = [storeErr EXCEPT ![p] = TRUE]
    /\ Goto(p, "report")
    /\ UNCHANGED <<store, peer, result, exit, wire, known, target>>

(* ... or because the store does: locked by others, disk full, 5s passed.     *)
OutcomeFaults(p) ==
    /\ pc[p] = "finish"
    /\ storeErr' = [storeErr EXCEPT ![p] = TRUE]
    /\ faulted' = faulted \cup {p}
    /\ Goto(p, "report")
    /\ UNCHANGED <<db, peer, result, exit, wire, known, target>>

(* The payload is printed first, then the error decides the exit code, then   *)
(* the store.                                                                 *)
FinalCode(p) ==
    IF result[p].err # "none" THEN ExitCode(result[p].err)
    ELSE IF storeErr[p] THEN ExitStore
    ELSE ExitOK

ReportPrintsAnyTask(p) ==        \* mutant: no test for res.Task # nil
    /\ pc[p] = "report"
    /\ Exit(p, FinalCode(p))
    /\ known' = known \cup {result[p].task}
    /\ UNCHANGED <<store, peer, result, storeErr, wire, target>>
ReportForgetsStore(p) ==         \* mutant: storeErr is only printed
    /\ pc[p] = "report"
    /\ Exit(p, IF result[p].err # "none" THEN ExitCode(result[p].err) ELSE ExitOK)
    /\ known' = known \cup (IF result[p].kind = "task" THEN {result[p].task} ELSE {})
    /\ UNCHANGED <<store, peer, result, storeErr, wire, target>>
Report(p) ==
    /\ pc[p] = "report"
    /\ Exit(p, FinalCode(p))
    /\ known' = known \cup (IF result[p].kind = "task" THEN {result[p].task} ELSE {})
    /\ UNCHANGED <<store, peer, result, storeErr, wire, target>>

(* stdout is closed: exitCode of an error it does not know.                   *)
ReportFails(p) ==
    /\ pc[p] = "report" /\ result[p].kind # "none"
    /\ Exit(p, ExitCode("transport"))
    /\ UNCHANGED <<store, peer, result, storeErr, wire, known, target>>

Crash(p) ==
    /\ pc[p] \notin {"exited", "crashed"}
    /\ Goto(p, "crashed")
    /\ UNCHANGED <<store, peer, result, storeErr, exit, wire, known, target>>

-----------------------------------------------------------------------------
(* The peer.  It may handle a request long after its sender gave up.          *)

Fresh == PeerMessage \ given

(* It takes the message on, and answers with a message, with a task, or with  *)
(* something the client does not accept.                                      *)
PeerReplies(p) ==
    /\ \E m \in Fresh :
          /\ given' = given \cup {m}
          /\ answer' = [answer EXCEPT ![p] = Reply(m)]
    /\ UNCHANGED tasks

PeerMakesTask(p) ==
    \E s \in TaskState, m \in Fresh \cup {NoId} :
        LET tk == [state |-> s, message |-> m]
        IN  /\ tasks' = [tasks EXCEPT ![p] = tk]
            /\ answer' = [answer EXCEPT ![p] = Snapshot(p, tk)]
            /\ given' = given \cup ({m} \ {NoId})

PeerGarbles(p) ==
    /\ answer' = [answer EXCEPT ![p] = Failure("protocol")]
    /\ UNCHANGED <<tasks, given>>

PeerHandles(p) ==
    /\ wire[p] = "sent"
    /\ wire' = [wire EXCEPT ![p] = "answered"]
    /\ handled' = handled \cup {p}
    /\ PeerReplies(p) \/ PeerMakesTask(p) \/ PeerGarbles(p)
    /\ UNCHANGED <<store, pc, result, storeErr, exit, known, target>>

PeerRefuses(p) ==
    /\ wire[p] = "sent"
    /\ wire' = [wire EXCEPT ![p] = "answered"]
    /\ \E err \in {"auth", "protocol"} : answer' = [answer EXCEPT ![p] = Failure(err)]
    /\ UNCHANGED <<store, pc, result, storeErr, exit, handled, tasks, given, known, target>>

(* A task goes on, with a new status message, the old one or none.  Its       *)
(* messages have ids of their own; the same message keeps its id.             *)
PeerWorks(p) ==
    /\ tasks[p].state = "running"
    /\ \E s \in TaskState, m \in Fresh \cup {NoId, tasks[p].message} :
          /\ tasks' = [tasks EXCEPT ![p] = [state |-> s, message |-> m]]
          /\ given' = given \cup ({m} \ {NoId})
    /\ UNCHANGED <<store, pc, result, storeErr, exit, wire, answer, handled, known, target>>

-----------------------------------------------------------------------------
Step(p) ==
    \/ RejectArguments(p) \/ StoreRefuses(p)
    \/ Start(p) \/ BadEndpoint(p) \/ SendRequest(p)
    \/ Receive(p) \/ SendLost(p)
    \/ StartWait(p) \/ PollsSeeTerminal(p) \/ PollsFail(p)
    \/ RecordOutcome(p) \/ OutcomeConflicts(p) \/ OutcomeFaults(p)
    \/ Report(p) \/ ReportFails(p)

PeerStep(p) == PeerHandles(p) \/ PeerRefuses(p) \/ PeerWorks(p)

Next ==
    \/ \E p \in Invocation : Step(p) \/ Crash(p)
    \/ \E p \in Sender : PeerStep(p)

Spec == Init /\ [][Next]_vars

(* An invocation that has begun runs on: SendLost and PollsFail stand for its *)
(* deadlines.  The peer owes nothing, and nobody has to begin.                *)
Proceed(p) == pc[p] # "start" /\ Step(p)
FairSpec == Spec /\ \A p \in Invocation : WF_vars(Proceed(p))

-----------------------------------------------------------------------------
HasMessage(id) == \E i \in DOMAIN db.messages : db.messages[i].id = id
HasEvent(p, type) == \E i \in DOMAIN db.events : db.events[i].id = <<p, type>>
HasOutcome(p) == \E type \in EventType \ {"send_started"} : HasEvent(p, type)

(* The type of every variable; an exit code is there exactly when an          *)
(* invocation has exited.                                                     *)
TypeOK ==
    /\ db \in Tables
    /\ pc \in [Invocation -> Place]
    /\ result \in [Invocation -> Result]
    /\ answer \in [Sender -> Result]
    /\ tasks \in [Sender -> [state : TaskState \cup {"none"}, message : PeerMessage \cup {NoId}]]
    /\ storeErr \in [Invocation -> BOOLEAN]
    /\ exit \in [Invocation -> 0..6 \cup {Running}]
    /\ \A p \in Invocation : pc[p] = "exited" <=> exit[p] # Running
    /\ wire \in [Sender -> {"none", "sent", "answered"}]
    /\ handled \subseteq Sender
    /\ given \subseteq PeerMessage
    /\ known \subseteq Sender
    /\ target \in [Waiter -> Sender \cup {NoId}]
    /\ faulted \subseteq Storing

(* Nothing is sent that the transcript does not have: whatever crashes, fails *)
(* or comes late, a message on the wire was committed with its send_started   *)
(* event, under the id it has on the wire (THREAT-MODEL.md, control 7).       *)
WriteAhead ==
    \A p \in Sender \cap Storing :
        wire[p] # "none" => HasMessage(p) /\ HasEvent(p, "send_started")

(* The audit of a send is one story: at most one of send_completed and        *)
(* send_failed, and only after its send_started.                              *)
OneStory ==
    \A p \in Sender \cap Storing :
        LET Outcome(i) == db.events[i].id[1] = p /\ db.events[i].id[2] # "send_started"
        IN  \A i \in DOMAIN db.events : Outcome(i) =>
                /\ \E j \in 1 .. i - 1 : db.events[j].id = <<p, "send_started">>
                /\ \A j \in DOMAIN db.events : Outcome(j) => i = j

(* "Related transcript rows and audit events are committed in one             *)
(* transaction" (THREAT-MODEL.md:53): a reply is there exactly with the       *)
(* outcome event of the send it answers, and after the message it answers.    *)
ReplyWithOutcome ==
    \A p \in Sender \cap Storing :
        LET replies == {i \in DOMAIN db.messages : db.messages[i].text.parent = p}
        IN  /\ HasOutcome(p) => Cardinality(replies) = IF result[p].message = NoId THEN 0 ELSE 1
            /\ replies # {} => HasOutcome(p)
            /\ \A i \in replies : \E j \in 1 .. i - 1 : db.messages[j].id = p

(* The transcript does not claim more than happened: a completed send was     *)
(* taken on by the peer.  (The converse is not promised: send_failed says     *)
(* nothing of what the peer did with a request that was lost.)                *)
CompletedMeansHandled ==
    \A p \in Sender : HasEvent(p, "send_completed") => p \in handled

(* An exit code can be relied on by a script: 0 means that the peer took the  *)
(* message on, or that the task completed, and that the transcript says so; 4 *)
(* that the task failed; 6 that the outcome is not in the transcript.         *)
ExitTellsTruth ==
    \A p \in Invocation :
        /\ exit[p] = ExitOK =>
              /\ p \in Storing => HasOutcome(p)
              /\ IF p \in Sender THEN p \in handled
                 ELSE tasks[target[p]].state = "completed"
        /\ exit[p] = ExitCode("task-failed") =>
              tasks[IF p \in Sender THEN p ELSE target[p]].state = "failed"
        /\ exit[p] = ExitStore => ~HasOutcome(p)

(* A send whose store works records its outcome, whatever other invocations   *)
(* write meanwhile: no id of its batch was used by any of them.               *)
SendRecordsOutcome ==
    \A p \in Sender \cap Storing :
        exit[p] # Running /\ wire[p] # "none" /\ p \notin faulted => HasOutcome(p)

(* "Add --store PATH --conversation ID to wait to record its terminal state"  *)
(* (USAGE.md:58-59): a wait that saw the task end, with a store that works,   *)
(* records it.  But its status message may be in the store already, from the  *)
(* send that made the task or from an earlier wait: its id is UNIQUE, and the *)
(* whole batch fails with it.                                                 *)
WaitRecordsTerminal ==
    \A q \in Waiter \cap Storing :
        exit[q] # Running /\ result[q].kind = "task" /\ q \notin faulted => HasOutcome(q)

(* Every invocation that began exits, unless it crashes, although the peer    *)
(* may never answer and the store may fail.                                   *)
Ends == \A p \in Invocation : pc[p] # "start" ~> pc[p] \in {"exited", "crashed"}
=============================================================================
