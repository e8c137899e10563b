----------------------------- MODULE RpcResponse -----------------------------
(* What internal/a2a/client.go makes of an HTTP answer: doJSON with its       *)
(* checks of the headers, the body and the JSON-RPC envelope, then            *)
(* parseSendResult or the tail of GetTask with the checks of messages and     *)
(* tasks.  Every operator is a function of the answer; RpcCall puts it into a *)
(* world of calls that cross.                                                 *)
(*                                                                            *)
(* A member of a JSON object is Absent, Null, Wrong (a value of another JSON  *)
(* type than the one that belongs there) or the value.  An answer is a record *)
(*   status    "2xx", "401/403" or "other"                                    *)
(*   version   the A2A-Version header, trimmed: Absent, "1.0" or another      *)
(*   type      the media type, in lower case: Absent, "application/json" or   *)
(*             another                                                        *)
(*   body      "whole", "oversize", or "broken" (the read fails)              *)
(*   json      "one-value", "trailing-data" or "malformed"                    *)
(*   jsonrpc, id, result, error   the members of the envelope                 *)
EXTENDS Naturals, Sequences, FiniteSets

CONSTANTS Absent, Null, Wrong, Blank     \* Blank: a string of white space

(* Go's decoding of a member into a string, and into a pointer or slice: null *)
(* is what absent is.  Into a RawMessage it is not: null is there.            *)
Text(v) == IF v \in {Absent, Null} THEN Blank ELSE v
Nil(v) == v \in {Absent, Null}

IsText(v) == Text(v) \notin {Blank, Wrong}

(* How a call returns: an error class, and what is handed on: a task, a       *)
(* message, or nothing.                                                       *)
Error(err) == [err |-> err, kind |-> "none", value |-> Null]
Accepted(kind, value, err) == [err |-> err, kind |-> kind, value |-> value]

(* The checks of a function in their order, each as <<it fails, the error>>:  *)
(* the first that fails decides.                                              *)
FirstFailure(checks) ==
    LET failing == {i \in DOMAIN checks : checks[i][1]}
    IN  IF failing = {} THEN "none"
        ELSE checks[CHOOSE i \in failing : \A j \in failing : i <= j][2]

-----------------------------------------------------------------------------
(* doJSON.                                                                    *)

HeaderError(r) == FirstFailure(<<
    <<r.status = "401/403", "auth">>,
    <<r.status # "2xx", "protocol">>,
    <<r.version \notin {Absent, "1.0"}, "protocol">>,          \* checkVersionHeader
    <<r.type # "application/json", "protocol">> >>)            \* checkContentType

(* checkRPCID: the client sends strings, so nothing else can be an echo.      *)
EchoesUnchecked(sent, id) == ~Nil(id) /\ id # Wrong    \* mutant: any string will do
Echoes(sent, id) == ~Nil(id) /\ id = sent

(* readBounded, the decoder, ensureNoTrailingJSON, and the envelope.  An      *)
(* error member is fatal whatever is in it, a null as well.                   *)
BodyError(sent, r) == FirstFailure(<<
    <<r.body # "whole", "transport">>,
    <<r.json # "one-value", "protocol">>,
    <<Text(r.jsonrpc) # "2.0", "protocol">>,
    <<~Echoes(sent, r.id), "protocol">>,
    <<r.error # Absent, "protocol">>,
    <<r.result = Absent, "protocol">> >>)

doJSONReadsFirst(sent, r) ==       \* mutant: the body is read before the headers are checked
    IF r.body # "whole" THEN "transport"
    ELSE IF HeaderError(r) # "none" THEN HeaderError(r) ELSE BodyError(sent, r)
doJSON(sent, r) ==
    IF HeaderError(r) # "none" THEN HeaderError(r) ELSE BodyError(sent, r)

-----------------------------------------------------------------------------
(* A message is decoded twice: into raw parts to be checked, and into the     *)
(* types of types.go, where a part has a text and nothing else.  It is a      *)
(* record [role, contextId, messageId, taskId, parts], and a part is Null,    *)
(* Wrong or [text, others], the last being those of raw, url and data that it *)
(* has.  Names of members are taken to be written as in types.go.             *)

(* validateMessageRaw for a message of the peer: ROLE_AGENT, its ids, and     *)
(* parts that have exactly one content field, be it a null.                   *)
Content(part) == part.others \cup (IF part.text = Absent THEN {} ELSE {"text"})
ValidPart(part) == part \notin {Null, Wrong} /\ Cardinality(Content(part)) = 1

validateMessageRaw(m) ==
    /\ ~Nil(m) /\ m # Wrong
    /\ m.role = "ROLE_AGENT"
    /\ IsText(m.contextId) /\ IsText(m.messageId)
    /\ ~Nil(m.parts) /\ m.parts # Wrong /\ m.parts # <<>>
    /\ \A i \in DOMAIN m.parts : ValidPart(m.parts[i])

(* json.Unmarshal into a Message: also the task id and the texts are strings. *)
DecodesPart(part) == part = Null \/ (part # Wrong /\ part.text # Wrong)
DecodesMessage(m) ==
    /\ m # Wrong
    /\ Wrong \notin {m.role, m.contextId, m.messageId, m.taskId, m.parts}
    /\ Nil(m.parts) \/ \A i \in DOMAIN m.parts : DecodesPart(m.parts[i])

(* json.Marshal of that Message: of a part only the text is left, and a part  *)
(* that had none has an empty one.                                            *)
TypedPart(part) == [text |-> IF part = Null THEN Blank ELSE Text(part.text), others |-> {}]
TypedMessage(m) ==
    [role |-> Text(m.role), contextId |-> Text(m.contextId), messageId |-> Text(m.messageId),
     taskId |-> Text(m.taskId),
     parts |-> IF Nil(m.parts) THEN Null ELSE [i \in DOMAIN m.parts |-> TypedPart(m.parts[i])]]

(* The message of a SendMessage result.                                       *)
ValidMessage(m) == validateMessageRaw(m) /\ DecodesMessage(m)

(* A task is [id, contextId, state, message], the last two being members of   *)
(* its status.  Its message is checked as it came; the task is decoded, and   *)
(* checked with what a Message has kept of the message.                       *)
validateTaskRaw(t) == t # Wrong /\ (Nil(t) \/ Nil(t.message) \/ validateMessageRaw(t.message))
DecodesTask(t) ==
    Nil(t) \/ /\ t # Wrong /\ Wrong \notin {t.id, t.contextId, t.state}
              /\ Nil(t.message) \/ DecodesMessage(t.message)
TypedTask(t) ==
    IF Nil(t) THEN [id |-> Blank, contextId |-> Blank, state |-> Blank, message |-> Null]
    ELSE [id |-> Text(t.id), contextId |-> Text(t.contextId), state |-> Text(t.state),
          message |-> IF Nil(t.message) THEN Null ELSE TypedMessage(t.message)]
validateTask(t) ==
    /\ IsText(t.id) /\ IsText(t.contextId) /\ IsText(t.state)
    /\ Nil(t.message) \/ validateMessageRaw(t.message)

ValidTask(t) == validateTaskRaw(t) /\ DecodesTask(t) /\ validateTask(TypedTask(t))

(* IsTerminal, IsInterrupted and IsFailure.                                   *)
Failed == {"failed", "rejected", "canceled"}
Terminal == {"completed"} \cup Failed
Interrupted == {"submitted", "working", "input-required", "auth-required"}

(* The end of GetTask and of parseSendResult's branch for tasks: the task is  *)
(* handed on with its failure, but not with an unknown state.                 *)
TaskOutcomeDropped(t) ==           \* mutant: the task is not returned with its failure
    IF ~ValidTask(t) \/ t.state \notin Terminal \cup Interrupted THEN Error("protocol")
    ELSE IF t.state \in Failed THEN Error("task-failed")
    ELSE Accepted("task", t, "none")
TaskOutcome(t) ==
    IF ~ValidTask(t) THEN Error("protocol")
    ELSE IF t.state \in Failed THEN Accepted("task", t, "task-failed")
    ELSE IF t.state \notin Terminal \cup Interrupted THEN Error("protocol")
    ELSE Accepted("task", t, "none")

(* parseSendResult: exactly one of task and message, null being none.         *)
parseSendResultLoose(result) ==    \* mutant: a task goes before a message
    IF result \in {Null, Wrong} THEN Error("protocol")
    ELSE IF ~Nil(result.task) THEN TaskOutcome(result.task)
    ELSE IF ValidMessage(result.message) THEN Accepted("message", result.message, "none")
    ELSE Error("protocol")
parseSendResult(result) ==
    IF result \in {Null, Wrong} \/ Nil(result.task) = Nil(result.message) THEN Error("protocol")
    ELSE IF ~Nil(result.task) THEN TaskOutcome(result.task)
    ELSE IF ValidMessage(result.message) THEN Accepted("message", result.message, "none")
    ELSE Error("protocol")

SendMessage(sent, r) ==
    IF doJSON(sent, r) # "none" THEN Error(doJSON(sent, r)) ELSE parseSendResult(r.result)
GetTask(sent, r) ==
    IF doJSON(sent, r) # "none" THEN Error(doJSON(sent, r)) ELSE TaskOutcome(r.result)
=============================================================================
