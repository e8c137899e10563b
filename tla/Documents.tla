----------------------------- MODULE Documents -----------------------------
(* What a2actl makes of the documents it is given: answers to SendMessage and *)
(* GetTask (RpcResponse), agent cards (Discovery) and event payloads          *)
(* (Redaction).  A behaviour is one call with one document, and its result is *)
(* compared with a description that is not a list of checks or a recursion.   *)
EXTENDS Discovery, Redaction

CONSTANTS Name,                        \* the strings that are not blank
          Sent,                        \* the id of the request
          SendAnswers, TaskAnswers,    \* answers to SendMessage and to GetTask
          Discoveries,                 \* what a discover meets
          Unset                        \* the outcome before the call returned

VARIABLES kind,      \* "SendMessage", "GetTask", "discover" or "payload"
          input,     \* the document
          outcome    \* what the function makes of it

vars == <<kind, input, outcome>>

-----------------------------------------------------------------------------
(* The documents a peer may write, conforming or not.                         *)
Strings == {Blank} \cup Name
Member(S) == {Absent, Null, Wrong} \cup S

Field == {"raw", "url", "data"}
Part == [text : Member(Strings), others : SUBSET Field]
Parts == Seq({Null, Wrong} \cup Part)
Message == [role : Member(Strings), contextId : Member(Strings), messageId : Member(Strings),
            taskId : Member(Strings), parts : Member(Parts)]
Task == [id : Member(Strings), contextId : Member(Strings), state : Member(Strings),
         message : Member(Message)]
SendResult == [task : Member(Task), message : Member(Message)]

Status == {"2xx", "401/403", "other"}
Body == {"whole", "oversize", "broken"}
Syntax == {"one-value", "trailing-data", "malformed"}
Answer(result) ==
    [status : Status, version : {Absent} \cup Name, type : {Absent} \cup Name,
     body : Body, json : Syntax, jsonrpc : Member(Strings), id : Member(Strings),
     result : Member(result), error : Member({"error object"})]

Discovered ==
    [reach : {"answered", "usage", "transport"},
     answer : [status : Status, version : {Absent} \cup Name, type : {Absent} \cup Name,
               body : Body, json : Syntax],
     card : [missing : SUBSET Required, skills : Seq(BOOLEAN),
             interfaces : Seq([binding : Name, version : Name, url : Url])],
     written : BOOLEAN]

(* What stands for an absent member, null, another type or white space is     *)
(* none of the values that belong there.                                      *)
ASSUME MarksAssumption ==
    /\ Absent \notin {Null, Wrong, Blank} /\ Null \notin {Wrong, Blank} /\ Wrong # Blank
    /\ \A mark \in {Absent, Null, Wrong, Blank} :
          /\ mark \notin Name \cup Message \cup Task \cup SendResult
          /\ mark \notin Part /\ mark \notin Parts
ASSUME NameAssumption ==
    {Sent, "ROLE_AGENT", "1.0", "2.0", "application/json"} \cup Terminal \cup Interrupted \subseteq Name
ASSUME DocumentsAssumption ==
    /\ SendAnswers \subseteq Answer(SendResult)
    /\ TaskAnswers \subseteq Answer(Task)
    /\ Discoveries \subseteq Discovered

-----------------------------------------------------------------------------
Given ==
    \/ kind = "SendMessage" /\ input \in SendAnswers
    \/ kind = "GetTask" /\ input \in TaskAnswers
    \/ kind = "discover" /\ input \in Discoveries
    \/ kind = "payload" /\ input \in JSON \cup {NoBytes, NoJSON}

Result ==
    CASE kind = "SendMessage" -> SendMessage(Sent, input)
      [] kind = "GetTask" -> GetTask(Sent, input)
      [] kind = "discover" -> runDiscover(input.reach, input.answer, input.card, input.written)
      [] kind = "payload" -> StoredPayload(input)

Init == Given /\ outcome = Unset
Return == outcome = Unset /\ outcome' = Result /\ UNCHANGED <<kind, input>>

Spec == Init /\ [][Return]_vars

Returned(k) == kind = k /\ outcome # Unset
Called == kind \in {"SendMessage", "GetTask"} /\ outcome # Unset

-----------------------------------------------------------------------------
(* Documents that conform.                                                    *)
ProperPart ==
    [text : {Null} \cup Strings, others : {{}}]
    \cup [text : {Absent}, others : {{field} : field \in Field}]
ProperMessage ==
    [role : {"ROLE_AGENT"}, contextId : Name, messageId : Name,
     taskId : {Absent, Null} \cup Strings, parts : Seq(ProperPart) \ {<<>>}]
ProperTask ==
    [id : Name, contextId : Name, state : Terminal \cup Interrupted,
     message : {Absent, Null} \cup ProperMessage]
ProperSendResult ==
    [task : ProperTask, message : {Absent, Null}]
    \cup [task : {Absent, Null}, message : ProperMessage]
ProperAnswer(result) ==
    [status : {"2xx"}, version : {Absent, "1.0"}, type : {"application/json"},
     body : {"whole"}, json : {"one-value"}, jsonrpc : {"2.0"}, id : {Sent},
     result : result, error : {Absent}]
Conforms(r) == r \in ProperAnswer(IF kind = "SendMessage" THEN ProperSendResult ELSE ProperTask)

(* "Strict response checks" (THREAT-MODEL.md:37-46): what a call hands on is  *)
(* a document the protocol allows, in an answer to this request; and no such  *)
(* document is turned away, so that a peer which leaves out A2A-Version,      *)
(* sends null for a missing member, two parts or a part that is no text is    *)
(* understood: a task's message is still valid when what a Message keeps of   *)
(* it is checked a second time (client.go:556-563).                           *)
StrictAnswers ==
    Called => (outcome.kind # "none" <=> Conforms(input))

(* The error class, and with it the exit code (USAGE.md:88-98), tells a       *)
(* script why: 2 for rejected credentials whatever else is wrong, 5 only when *)
(* the answer was not read to its end, 4 exactly for a task that failed and   *)
(* is handed on, 0 only with something to print.                              *)
ClassTellsWhy ==
    Called =>
        /\ outcome.err = "auth" <=> input.status = "401/403"
        /\ outcome.err = "transport" => input.body # "whole" /\ input.status = "2xx"
        /\ outcome.err = "protocol" => \/ input.body = "whole"
                                       \/ input.status = "other"
                                       \/ input.version \notin {Absent, "1.0"}
                                       \/ input.type # "application/json"
        /\ outcome.err = "task-failed" <=> /\ outcome.kind = "task"
                                           /\ outcome.value.state \in Failed
        /\ outcome.err = "none" => outcome.kind # "none"

-----------------------------------------------------------------------------
(* "Interface selects the first JSONRPC interface that advertises protocol    *)
(* version 1.0" (types.go:76): given a complete card in a good answer, that   *)
(* entry alone decides, however many others stand before and after it.        *)
(* discover prints it if its URL can be called, and turns the card away if    *)
(* not; interfaces of other bindings and versions never cost a peer its       *)
(* discovery.  It exits with 0 only when it has printed.                      *)
Fits(its) == {j \in DOMAIN its : its[j].binding \in Jsonrpc /\ its[j].version \in Version1}
First(its) == CHOOSE j \in Fits(its) : \A k \in Fits(its) : j <= k
Usable(its) == Fits(its) # {} /\ its[First(its)].url \in {"plain", "spaced"}
GoodAnswer(r) == /\ r.status = "2xx" /\ r.version \in {Absent, "1.0"} /\ r.type = "application/json"
                 /\ r.body = "whole" /\ r.json = "one-value"
FirstDecides ==
    Returned("discover") =>
        IF /\ input.reach = "answered" /\ GoodAnswer(input.answer) /\ input.written
           /\ input.card.missing = {} /\ (\A s \in DOMAIN input.card.skills : input.card.skills[s])
           /\ Usable(input.card.interfaces)
        THEN outcome = Accepted("interface", input.card.interfaces[First(input.card.interfaces)], "none")
        ELSE outcome.err # "none" /\ outcome.kind = "none"

(* "`send`/`wait` `--url` is the JSON-RPC endpoint (the selected              *)
(* `supportedInterfaces[].url` from the Agent Card" (USAGE.md:27-28): the URL *)
(* discover prints is one a send can be given.  But discover validates it     *)
(* after TrimSpace and prints it as it was, and doJSON parses it untrimmed.   *)
PrintedURLWorks ==
    Returned("discover") /\ outcome.err = "none" => Reaches(outcome.value.url)

-----------------------------------------------------------------------------
(* The leaves of a value with their paths, which one level after the other    *)
(* makes longer.  An empty array or object is a leaf.                         *)
Steps(v) == IF v.kind = "object" THEN DOMAIN v.members
            ELSE IF v.kind = "array" THEN DOMAIN v.items ELSE {}
Child(v, step) == IF v.kind = "object" THEN v.members[step] ELSE v.items[step]
Level(pairs) ==
    {p \in pairs : Steps(p[2]) = {}}
    \cup UNION {{<<Append(p[1], <<p[2].kind, s>>), Child(p[2], s)>> : s \in Steps(p[2])} : p \in pairs}
Leaves(v) ==
    LET down[n \in 0..MaxDepth] == IF n = 0 THEN {<< <<>>, v >>} ELSE Level(down[n - 1])
    IN  down[MaxDepth]

Sensitive(path) == {n \in DOMAIN path : path[n][1] = "object" /\ sensitiveKey(path[n][2])}

(* "Credential-shaped fields are structurally redacted from JSON and scrubbed *)
(* from free text" (THREAT-MODEL.md:55-56): the leaves of the stored payload  *)
(* are those of the given one, except that a path is cut at its first         *)
(* sensitive key, whatever stands below it, array or object; a text has lost  *)
(* every shape; and a number is the float64 next to it, so that integers      *)
(* above 2^53 may change.  A payload with a number no float64 comes near, be  *)
(* it under a sensitive key, is kept no better than one that is no JSON.  A   *)
(* call without a payload is not marked as one whose payload is no JSON.      *)
TooLarge(leaf) == leaf[2].kind = "number" /\ Float64[leaf[2].value] = OutOfRange
Rounded(leaf) ==
    IF leaf[2].kind = "number" THEN <<leaf[1], Number(Float64[leaf[2].value])>> ELSE leaf
Kept(leaf) ==
    IF Sensitive(leaf[1]) = {}
    THEN <<leaf[1], IF leaf[2].kind = "string" THEN Redact(leaf[2]) ELSE leaf[2]>>
    ELSE <<SubSeq(leaf[1], 1, CHOOSE n \in Sensitive(leaf[1]) : \A m \in Sensitive(leaf[1]) : n <= m),
           Masked>>
OnlyCredentialsGo ==
    Returned("payload") =>
        CASE input = NoBytes -> outcome = EmptyObject
          [] input = NoJSON -> outcome = InvalidPayload
          [] OTHER ->
               IF \E leaf \in Leaves(input) : TooLarge(leaf) THEN outcome = InvalidPayload
               ELSE /\ Leaves(outcome) = {Kept(Rounded(leaf)) : leaf \in Leaves(input)}
                    /\ \A leaf \in Leaves(outcome) : leaf[2].kind = "string" => leaf[2].shapes = {}
=============================================================================
