---------------------------- MODULE MCDocuments ----------------------------
(* The documents TLC tries, in bounded sets:                                  *)
(*   - answers to SendMessage and GetTask: every combination of headers and   *)
(*     bodies, of envelopes, of task members, of message members with up to   *)
(*     two parts, and of the two members of a SendMessage result;             *)
(*   - agent cards: every list of up to two interfaces, longer ones that end  *)
(*     well, every card that lacks one thing, every answer;                   *)
(*   - event payloads: values that nest two deep, with arrays and objects of  *)
(*     up to two of the values one level down.                                *)
EXTENDS Documents

MCName == {"ROLE_AGENT", "ROLE_USER", "r1", "r2", "c1", "m1", "t1", "0.3", "1.0", " 1.0", "2.0",
           "unspecified", "a text", "application/json", "text/html", "JSONRPC", "jsonrpc", "GRPC"} \cup Terminal \cup Interrupted

-----------------------------------------------------------------------------
(* Answers to SendMessage and GetTask.                                        *)
Id(name) == {Absent, Wrong, Blank, name}
SomeParts == {Null} \cup [text : {Absent, Null, Wrong, "a text"}, others : {{}, {"data"}}]
Messages ==
    [role : {"ROLE_AGENT", "ROLE_USER", Absent}, contextId : Id("c1"), messageId : Id("m1"),
     taskId : {Absent, Wrong, "t1"},
     parts : {Absent, Wrong, <<>>} \cup {<<p>> : p \in SomeParts} \cup {<<p, q>> : p, q \in SomeParts}]
SomeMessage == [role |-> "ROLE_AGENT", contextId |-> "c1", messageId |-> "m1", taskId |-> Absent,
                parts |-> <<[text |-> "a text", others |-> {}]>>]
DataMessage == [SomeMessage EXCEPT !.parts = <<[text |-> Absent, others |-> {"data"}]>>]
NoTextMessage == [SomeMessage EXCEPT !.parts = <<[text |-> Wrong, others |-> {}]>>]
FromUser == [SomeMessage EXCEPT !.role = "ROLE_USER"]
Tasks ==
    [id : Id("t1"), contextId : Id("c1"),
     state : Terminal \cup Interrupted \cup {Absent, Wrong, Blank, "unspecified"},
     message : {Absent, Null, Wrong, SomeMessage, DataMessage, NoTextMessage, FromUser}]
SomeTask(s) == [id |-> "t1", contextId |-> "c1", state |-> s, message |-> Absent]
Few == {Absent, Null, Wrong, SomeTask("completed"), SomeMessage}
SendResults ==
    [task : Few \ {SomeMessage}, message : Few \ {SomeTask("completed")}]
    \cup [task : Tasks, message : {Absent}] \cup [task : {Null}, message : Messages]

Results(m) == IF m = "SendMessage" THEN SendResults ELSE Tasks
Good(m) == IF m = "SendMessage" THEN [task |-> Absent, message |-> SomeMessage] ELSE SomeTask("failed")

Versions == {Absent, "1.0", "0.3"}
Types == {Absent, "application/json", "text/html"}
Envelopes(m) ==
    [status : Status, version : {"1.0", "0.3"}, type : {"application/json"}, body : {"whole"},
     json : {"one-value"}, jsonrpc : {"2.0", "1.0", Absent, Wrong},
     id : {"r1", "r2", Absent, Null, Wrong, Blank}, result : {Absent, Null, Wrong, Good(m)},
     error : {Absent, Null, Wrong, "error object"}]
Wrappings(m) ==
    [status : Status, version : Versions, type : Types, body : Body,
     json : Syntax, jsonrpc : {"2.0"}, id : {"r1", "r2"},
     result : {Good(m), Wrong}, error : {Absent}]
MCAnswers(m) == Envelopes(m) \cup Wrappings(m) \cup ProperAnswer(Results(m))
MCSendAnswers == MCAnswers("SendMessage")
MCTaskAnswers == MCAnswers("GetTask")

-----------------------------------------------------------------------------
(* Cards, all in a good answer, and one card in all answers.                  *)
CardAnswer == [status |-> "2xx", version |-> Absent, type |-> "application/json",
               body |-> "whole", json |-> "one-value"]
CardAnswers ==
    [status : Status, version : {Absent, "0.3"}, type : {"application/json", Absent},
     body : Body, json : Syntax]

MCJsonrpc == {"JSONRPC", "jsonrpc"}
MCVersion1 == {"1.0", " 1.0"}
Interfaces == [binding : MCJsonrpc \cup {"GRPC"}, version : MCVersion1 \cup {"0.3"}, url : Url]
GoodInterface == [binding |-> "JSONRPC", version |-> "1.0", url |-> "plain"]
Complete(its) == [missing |-> {}, skills |-> <<TRUE>>, interfaces |-> its]
AgentCards ==
    {Complete(its) : its \in UNION {[1..n -> Interfaces] : n \in 0..2}}
    \cup {Complete(<<a, b, GoodInterface>>) : a, b \in Interfaces}
    \cup [missing : {{m} : m \in Required}, skills : {<<>>}, interfaces : {<<GoodInterface>>}]
    \cup [missing : {{}}, skills : {<<>>, <<TRUE, FALSE>>}, interfaces : {<<GoodInterface>>}]

MCDiscoveries ==
    [reach : {"answered"}, answer : {CardAnswer}, card : AgentCards, written : {TRUE}]
    \cup [reach : {"answered", "usage", "transport"}, answer : CardAnswers,
          card : {Complete(<<GoodInterface>>), Complete(<<>>)}, written : BOOLEAN]

-----------------------------------------------------------------------------
(* Payloads.                                                                  *)
MCPlain == [note |-> "note", token |-> "token", api_key |-> "apikey", API_Key |-> "apikey",
            x_api_key |-> "xapikey", tokens |-> "tokens"]
Arrays(S, n) == [kind : {"array"}, items : UNION {[1..m -> S] : m \in 0..n}]
Objects(S, keys) ==
    [kind : {"object"},
     members : UNION {[ks -> S] : ks \in {x \in SUBSET keys : \E a, b \in keys : x \subseteq {a, b}}}]

(* An integer that a float64 holds, the next one, which it does not, and one  *)
(* that is out of range.                                                      *)
MCFloat64 == [n9007199254740992 |-> "n9007199254740992",
              n9007199254740993 |-> "n9007199254740992", n1e400 |-> OutOfRange]
Numbers == {Number(n) : n \in DOMAIN MCFloat64}
Even == Number("n9007199254740992")

Texts == {String({}), String({"assignment"}), String({"bearer", "bot token"}),
          [kind |-> "scalar", value |-> "null"]} \cup Numbers
OneDeep == Texts \cup Arrays(Texts, 2) \cup Objects(Texts, {"note", "API_Key"})
Mixed == {String({}), String({"assignment"}), Even}
         \cup Arrays({String({"bearer", "bot token"})}, 1)
         \cup Objects({String({"quoted assignment"}), Even}, {"note", "token"})
TwoDeep ==
    Arrays(OneDeep, 1) \cup Objects(OneDeep, {"note", "api_key"})
    \cup Objects(Mixed, DOMAIN MCPlain) \cup Arrays(Mixed, 2)
MCNested == <<Texts \cup {String({"quoted assignment"})}, OneDeep \cup Mixed, TwoDeep>>
=============================================================================
