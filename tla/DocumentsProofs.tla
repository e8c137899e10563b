--------------------------- MODULE DocumentsProofs ---------------------------
(* For every answer, every agent card with any number of skills and           *)
(* interfaces, and every payload of any depth: what the functions of          *)
(* RpcResponse, Discovery and Redaction make of it.                           *)
EXTENDS Documents, NumberLemmas, FiniteSetTheorems, SequenceTheorems

-----------------------------------------------------------------------------
(* The checks of an answer.                                                   *)

(* A list of checks passes when none of them fails, and otherwise gives the   *)
(* error of the first that does.                                              *)
LEMMA FirstFailureMeans ==
    ASSUME NEW n \in Nat, NEW checks, DOMAIN checks = 1..n
    PROVE  \/ (\A i \in 1..n : ~checks[i][1]) /\ FirstFailure(checks) = "none"
           \/ \E i \in 1..n : /\ checks[i][1] /\ \A j \in 1 .. i - 1 : ~checks[j][1]
                              /\ FirstFailure(checks) = checks[i][2]
  <1> DEFINE failing == {i \in DOMAIN checks : checks[i][1]}
             first == CHOOSE i \in failing : \A j \in failing : i <= j
  <1>1. CASE failing = {}
    BY <1>1 DEF FirstFailure
  <1>2. CASE failing # {}
    <2>1. failing \subseteq Nat
      OBVIOUS
    <2>2. \E i \in failing : \A j \in failing : i <= j
      <3> HIDE DEF failing
      <3> QED BY <1>2, <2>1, LeastNumber
    <2>3. first \in failing /\ \A j \in failing : first <= j
      <3> HIDE DEF failing
      <3> QED BY <2>2
    <2>4. FirstFailure(checks) = checks[first][2]
      BY <1>2 DEF FirstFailure
    <2> HIDE DEF first
    <2>5. \A j \in 1 .. first - 1 : ~checks[j][1]
      BY <2>3
    <2> QED BY <2>3, <2>4, <2>5
  <1> QED BY <1>1, <1>2

(* The checks of the headers, and what each error says of them.               *)
GoodHeaders(r) ==
    r.status = "2xx" /\ r.version \in {Absent, "1.0"} /\ r.type = "application/json"

LEMMA HeaderMeans ==
    ASSUME NEW r
    PROVE  /\ HeaderError(r) \in {"none", "auth", "protocol"}
           /\ HeaderError(r) = "auth" <=> r.status = "401/403"
           /\ HeaderError(r) = "none" <=> GoodHeaders(r)
  <1> DEFINE checks == <<
        <<r.status = "401/403", "auth">>,
        <<r.status # "2xx", "protocol">>,
        <<r.version \notin {Absent, "1.0"}, "protocol">>,
        <<r.type # "application/json", "protocol">> >>
  <1>1. DOMAIN checks = 1..4
    OBVIOUS
  <1>2. /\ checks[1][2] = "auth" /\ checks[2][2] = "protocol"
        /\ checks[3][2] = "protocol" /\ checks[4][2] = "protocol"
    OBVIOUS
  <1>3. /\ checks[1][1] <=> r.status = "401/403"
        /\ checks[2][1] <=> r.status # "2xx"
        /\ checks[3][1] <=> r.version \notin {Absent, "1.0"}
        /\ checks[4][1] <=> r.type # "application/json"
    OBVIOUS
  <1>4. HeaderError(r) = FirstFailure(checks)
    BY DEF HeaderError
  <1> HIDE DEF checks
  <1>5. \A i \in 1..4 : i = 1 \/ i = 2 \/ i = 3 \/ i = 4
    OBVIOUS
  <1>6. CASE (\A i \in 1..4 : ~checks[i][1]) /\ FirstFailure(checks) = "none"
    <2>1. ~checks[1][1] /\ ~checks[2][1] /\ ~checks[3][1] /\ ~checks[4][1]
      BY <1>6
    <2> QED BY <1>3, <1>4, <1>6, <2>1 DEF GoodHeaders
  <1>7. ASSUME NEW i \in 1..4, checks[i][1], \A j \in 1 .. i - 1 : ~checks[j][1],
               FirstFailure(checks) = checks[i][2]
        PROVE  /\ HeaderError(r) \in {"auth", "protocol"} /\ ~GoodHeaders(r)
               /\ HeaderError(r) = "auth" <=> r.status = "401/403"
    <2>1. CASE i = 1
      BY <1>2, <1>3, <1>4, <1>7, <2>1 DEF GoodHeaders
    <2>2. CASE i # 1
      <3>1. 1 \in 1 .. i - 1
        BY <2>2
      <3>2. ~checks[1][1]
        BY <1>7, <3>1
      <3>3. HeaderError(r) = "protocol"
        BY <1>2, <1>4, <1>5, <1>7, <2>2
      <3>4. ~GoodHeaders(r)
        BY <1>3, <1>5, <1>7, <2>2 DEF GoodHeaders
      <3> QED BY <1>3, <3>2, <3>3, <3>4
    <2> QED BY <2>1, <2>2
  <1>8. \/ (\A i \in 1..4 : ~checks[i][1]) /\ FirstFailure(checks) = "none"
        \/ \E i \in 1..4 : /\ checks[i][1] /\ \A j \in 1 .. i - 1 : ~checks[j][1]
                           /\ FirstFailure(checks) = checks[i][2]
    BY <1>1, FirstFailureMeans
  <1> QED BY <1>6, <1>7, <1>8

(* The checks of the body and of the envelope in it.                          *)
GoodBody(r) ==
    /\ r.body = "whole" /\ r.json = "one-value"
    /\ Text(r.jsonrpc) = "2.0" /\ Echoes(Sent, r.id) /\ r.error = Absent /\ r.result # Absent

LEMMA BodyMeans ==
    ASSUME NEW r
    PROVE  /\ BodyError(Sent, r) \in {"none", "transport", "protocol"}
           /\ BodyError(Sent, r) = "transport" <=> r.body # "whole"
           /\ BodyError(Sent, r) = "none" <=> GoodBody(r)
  <1> DEFINE checks == <<
        <<r.body # "whole", "transport">>,
        <<r.json # "one-value", "protocol">>,
        <<Text(r.jsonrpc) # "2.0", "protocol">>,
        <<~Echoes(Sent, r.id), "protocol">>,
        <<r.error # Absent, "protocol">>,
        <<r.result = Absent, "protocol">> >>
  <1>1. DOMAIN checks = 1..6
    OBVIOUS
  <1>2. /\ checks[1][2] = "transport" /\ checks[2][2] = "protocol"
        /\ checks[3][2] = "protocol" /\ checks[4][2] = "protocol"
        /\ checks[5][2] = "protocol" /\ checks[6][2] = "protocol"
    OBVIOUS
  <1>3. /\ checks[1][1] <=> r.body # "whole"
        /\ checks[2][1] <=> r.json # "one-value"
        /\ checks[3][1] <=> Text(r.jsonrpc) # "2.0"
        /\ checks[4][1] <=> ~Echoes(Sent, r.id)
        /\ checks[5][1] <=> r.error # Absent
        /\ checks[6][1] <=> r.result = Absent
    OBVIOUS
  <1>4. BodyError(Sent, r) = FirstFailure(checks)
    BY DEF BodyError
  <1> HIDE DEF checks
  <1>5. \A i \in 1..6 : i = 1 \/ i = 2 \/ i = 3 \/ i = 4 \/ i = 5 \/ i = 6
    OBVIOUS
  <1>6. CASE (\A i \in 1..6 : ~checks[i][1]) /\ FirstFailure(checks) = "none"
    <2>1. /\ ~checks[1][1] /\ ~checks[2][1] /\ ~checks[3][1]
          /\ ~checks[4][1] /\ ~checks[5][1] /\ ~checks[6][1]
      BY <1>6
    <2> QED BY <1>3, <1>4, <1>6, <2>1 DEF GoodBody
  <1>7. ASSUME NEW i \in 1..6, checks[i][1], \A j \in 1 .. i - 1 : ~checks[j][1],
               FirstFailure(checks) = checks[i][2]
        PROVE  /\ BodyError(Sent, r) \in {"transport", "protocol"} /\ ~GoodBody(r)
               /\ BodyError(Sent, r) = "transport" <=> r.body # "whole"
    <2>1. CASE i = 1
      BY <1>2, <1>3, <1>4, <1>7, <2>1 DEF GoodBody
    <2>2. CASE i # 1
      <3>1. 1 \in 1 .. i - 1
        BY <2>2
      <3>2. ~checks[1][1]
        BY <1>7, <3>1
      <3>3. BodyError(Sent, r) = "protocol"
        BY <1>2, <1>4, <1>5, <1>7, <2>2
      <3>4. ~GoodBody(r)
        BY <1>3, <1>5, <1>7, <2>2 DEF GoodBody
      <3> QED BY <1>3, <3>2, <3>3, <3>4
    <2> QED BY <2>1, <2>2
  <1>8. \/ (\A i \in 1..6 : ~checks[i][1]) /\ FirstFailure(checks) = "none"
        \/ \E i \in 1..6 : /\ checks[i][1] /\ \A j \in 1 .. i - 1 : ~checks[j][1]
                           /\ FirstFailure(checks) = checks[i][2]
    BY <1>1, FirstFailureMeans
  <1> QED BY <1>6, <1>7, <1>8

LEMMA doJSONMeans ==
    ASSUME NEW r, r.status \in Status
    PROVE  /\ doJSON(Sent, r) \in {"none", "auth", "transport", "protocol"}
           /\ doJSON(Sent, r) = "none" <=> GoodHeaders(r) /\ GoodBody(r)
           /\ doJSON(Sent, r) = "auth" <=> r.status = "401/403"
           /\ doJSON(Sent, r) = "transport" => r.body # "whole" /\ r.status = "2xx"
           /\ doJSON(Sent, r) = "protocol" => \/ r.body = "whole" \/ r.status = "other"
                                              \/ r.version \notin {Absent, "1.0"}
                                              \/ r.type # "application/json"
  <1>1. CASE HeaderError(r) # "none"
    <2>1. doJSON(Sent, r) = HeaderError(r)
      BY <1>1 DEF doJSON
    <2> QED BY <1>1, <2>1, HeaderMeans DEF GoodHeaders, Status
  <1>2. CASE HeaderError(r) = "none"
    <2>1. doJSON(Sent, r) = BodyError(Sent, r)
      BY <1>2 DEF doJSON
    <2>2. GoodHeaders(r)
      BY <1>2, HeaderMeans
    <2> QED BY <2>1, <2>2, BodyMeans DEF GoodHeaders, GoodBody
  <1> QED BY <1>1, <1>2

-----------------------------------------------------------------------------
(* The checks of messages and tasks.                                          *)

LEMMA Marks ==
    /\ Absent # Null /\ Absent # Wrong /\ Absent # Blank /\ Null # Wrong /\ Null # Blank
    /\ Wrong # Blank
    /\ \A mark \in {Absent, Null, Wrong, Blank} :
          /\ mark \notin Name /\ mark \notin Message /\ mark \notin Task /\ mark \notin SendResult
          /\ mark \notin Part /\ mark \notin Parts
  BY MarksAssumption

LEMMA TextMeans ==
    ASSUME NEW v \in Member(Strings)
    PROVE  /\ IsText(v) <=> v \in Name
           /\ IsText(Text(v)) <=> v \in Name
           /\ v # Wrong => Text(v) \in Strings
           /\ v \in Name => Text(v) = v
  BY Marks DEF Member, Strings, IsText, Text

(* A part is proper when it has exactly one content field and the text is one.*)
LEMMA PartMeans ==
    ASSUME NEW part \in {Null, Wrong} \cup Part
    PROVE  ValidPart(part) /\ DecodesPart(part) <=> part \in ProperPart
  <1>1. CASE part \in {Null, Wrong}
    <2>1. ProperPart \subseteq Part
      BY DEF ProperPart, Part, Member
    <2> QED BY <1>1, <2>1, Marks DEF ValidPart
  <1>2. CASE part \in Part
    <2>1. PICK text \in Member(Strings), others \in SUBSET Field :
               part = [text |-> text, others |-> others]
      BY <1>2 DEF Part
    <2>2. part.text = text /\ part.others = others /\ part \notin {Null, Wrong}
      BY <1>2, <2>1, Marks
    <2>3. PICK content : content = Content(part)
      OBVIOUS
    <2>4. content = others \cup (IF text = Absent THEN {} ELSE {"text"})
      BY <2>2, <2>3 DEF Content
    <2>5. ValidPart(part) <=> \E x : content = {x}
      <3>1. IsFiniteSet({"text", "raw", "url", "data"})
        <4>1. IsFiniteSet({"text"})
          BY FS_Singleton
        <4>2. IsFiniteSet({"text"} \cup {"raw"})
          BY <4>1, FS_AddElement
        <4>3. IsFiniteSet({"text"} \cup {"raw"} \cup {"url"})
          BY <4>2, FS_AddElement
        <4>4. IsFiniteSet({"text"} \cup {"raw"} \cup {"url"} \cup {"data"})
          BY <4>3, FS_AddElement
        <4>5. {"text", "raw", "url", "data"} = {"text"} \cup {"raw"} \cup {"url"} \cup {"data"}
          OBVIOUS
        <4> QED BY <4>4, <4>5
      <3>2. content \subseteq {"text", "raw", "url", "data"}
        BY <2>4 DEF Field
      <3>3. IsFiniteSet(content)
        BY <3>1, <3>2, FS_Subset
      <3>4. Cardinality(content) = 1 <=> \E x : content = {x}
        BY <3>3, FS_Singleton
      <3> QED BY <2>2, <2>3, <3>4 DEF ValidPart
    <2>6. DecodesPart(part) <=> text # Wrong
      BY <2>2 DEF DecodesPart
    <2>7. part \in ProperPart <=> \/ text \in {Null} \cup Strings /\ others = {}
                                  \/ text = Absent /\ others \in {{field} : field \in Field}
      BY <2>1 DEF ProperPart
    <2>8. CASE text = Absent
      <3>1. content = others
        BY <2>4, <2>8
      <3>2. (\E x : content = {x}) <=> others \in {{field} : field \in Field}
        BY <3>1
      <3>3. text # Wrong /\ text \notin {Null} \cup Strings
        BY <2>8, Marks DEF Strings
      <3> QED BY <2>5, <2>6, <2>7, <2>8, <3>2, <3>3
    <2>9. CASE text # Absent
      <3>1. content = others \cup {"text"}
        BY <2>4, <2>9
      <3>2. "text" \notin others
        BY DEF Field
      <3>3. (\E x : content = {x}) <=> others = {}
        BY <3>1, <3>2
      <3>4. text # Wrong <=> text \in {Null} \cup Strings
        BY <2>9, Marks DEF Member, Strings
      <3> QED BY <2>5, <2>6, <2>7, <2>9, <3>3, <3>4
    <2> QED BY <2>8, <2>9
  <1> QED BY <1>1, <1>2

LEMMA ProperParts == ProperPart \subseteq Part
  BY DEF ProperPart, Part, Member

LEMMA PartsMean ==
    ASSUME NEW parts \in Parts
    PROVE  /\ ~Nil(parts) /\ parts # Wrong
           /\ (/\ parts # <<>> /\ (\A i \in DOMAIN parts : ValidPart(parts[i]))
               /\ \A i \in DOMAIN parts : DecodesPart(parts[i]))
              <=> parts \in Seq(ProperPart) \ {<<>>}
  <1>1. ~Nil(parts) /\ parts # Wrong
    BY Marks DEF Nil
  <1>2. \A i \in DOMAIN parts : parts[i] \in {Null, Wrong} \cup Part
    BY DEF Parts
  <1>3. ((\A i \in DOMAIN parts : ValidPart(parts[i])) /\ \A i \in DOMAIN parts : DecodesPart(parts[i]))
            <=> \A i \in DOMAIN parts : parts[i] \in ProperPart
    BY <1>2, PartMeans
  <1>4. ASSUME NEW S PROVE (\A i \in DOMAIN parts : parts[i] \in S) <=> parts \in Seq(S)
    BY DEF Parts
  <1> QED BY <1>1, <1>3, <1>4

(* A record with the members of a message.                                    *)
LEMMA MessageFields ==
    ASSUME NEW m \in Message
    PROVE  /\ m = [role |-> m.role, contextId |-> m.contextId, messageId |-> m.messageId,
                   taskId |-> m.taskId, parts |-> m.parts]
           /\ m.role \in Member(Strings) /\ m.contextId \in Member(Strings)
           /\ m.messageId \in Member(Strings) /\ m.taskId \in Member(Strings)
           /\ m.parts \in Member(Parts)
  BY DEF Message

LEMMA ProperFields ==
    ASSUME NEW m
    PROVE  m \in ProperMessage <=>
              /\ m = [role |-> m.role, contextId |-> m.contextId, messageId |-> m.messageId,
                      taskId |-> m.taskId, parts |-> m.parts]
              /\ m.role = "ROLE_AGENT" /\ m.contextId \in Name /\ m.messageId \in Name
              /\ m.taskId \in {Absent, Null} \cup Strings
              /\ m.parts \in Seq(ProperPart) \ {<<>>}
  BY DEF ProperMessage

LEMMA ProperMessages == ProperMessage \subseteq Message
  <1> SUFFICES ASSUME NEW p \in ProperMessage PROVE p \in Message
    OBVIOUS
  <1>1. p.parts \in Parts
    BY ProperFields, ProperParts DEF Parts
  <1>2. /\ p.role \in Member(Strings) /\ p.contextId \in Member(Strings)
        /\ p.messageId \in Member(Strings) /\ p.taskId \in Member(Strings)
    BY ProperFields, NameAssumption DEF Member, Strings
  <1>3. p = [role |-> p.role, contextId |-> p.contextId, messageId |-> p.messageId,
             taskId |-> p.taskId, parts |-> p.parts]
    BY ProperFields
  <1>4. p.parts \in Member(Parts)
    BY <1>1 DEF Member
  <1> QED BY <1>2, <1>3, <1>4 DEF Message

LEMMA MessageMeans ==
    ASSUME NEW m \in Member(Message)
    PROVE  ValidMessage(m) <=> m \in ProperMessage
  <1>1. CASE m \in {Absent, Null, Wrong}
    <2>1. ~ValidMessage(m)
      BY <1>1 DEF ValidMessage, validateMessageRaw, Nil
    <2> QED BY <1>1, <2>1, ProperMessages, Marks
  <1>2. CASE m \in Message /\ m \notin {Absent, Null, Wrong}
    <2>1. /\ m = [role |-> m.role, contextId |-> m.contextId, messageId |-> m.messageId,
                  taskId |-> m.taskId, parts |-> m.parts]
          /\ m.role \in Member(Strings) /\ m.contextId \in Member(Strings)
          /\ m.messageId \in Member(Strings) /\ m.taskId \in Member(Strings)
          /\ m.parts \in Member(Parts)
      BY <1>2, MessageFields
    <2>2. (IsText(m.contextId) <=> m.contextId \in Name) /\ (IsText(m.messageId) <=> m.messageId \in Name)
      BY <2>1, TextMeans
    <2>3. "ROLE_AGENT" # Wrong /\ (\A n \in Name : n # Wrong)
      BY NameAssumption, Marks
    <2>4. m.taskId # Wrong <=> m.taskId \in {Absent, Null} \cup Strings
      BY <2>1, Marks DEF Member, Strings
    <2>5. (/\ ~Nil(m.parts) /\ m.parts # Wrong /\ m.parts # <<>>
           /\ (\A i \in DOMAIN m.parts : ValidPart(m.parts[i]))
           /\ (\A i \in DOMAIN m.parts : DecodesPart(m.parts[i])))
          <=> m.parts \in Seq(ProperPart) \ {<<>>}
      <3>1. CASE m.parts \in Parts
        BY <3>1, PartsMean
      <3>2. CASE m.parts \in {Absent, Null, Wrong}
        <4>1. Seq(ProperPart) \subseteq Parts
          BY ProperParts DEF Parts
        <4> QED BY <3>2, <4>1, Marks DEF Nil
      <3> QED BY <2>1, <3>1, <3>2 DEF Member
    <2>6. validateMessageRaw(m) <=>
             /\ m.role = "ROLE_AGENT" /\ m.contextId \in Name /\ m.messageId \in Name
             /\ ~Nil(m.parts) /\ m.parts # Wrong /\ m.parts # <<>>
             /\ \A i \in DOMAIN m.parts : ValidPart(m.parts[i])
      BY <1>2, <2>2 DEF validateMessageRaw, Nil
    <2>7. DecodesMessage(m) <=>
             /\ m.role # Wrong /\ m.contextId # Wrong /\ m.messageId # Wrong /\ m.taskId # Wrong
             /\ m.parts # Wrong
             /\ Nil(m.parts) \/ \A i \in DOMAIN m.parts : DecodesPart(m.parts[i])
      BY <1>2 DEF DecodesMessage
    <2>8. ValidMessage(m) <=> /\ m.role = "ROLE_AGENT" /\ m.contextId \in Name /\ m.messageId \in Name
                              /\ m.taskId \in {Absent, Null} \cup Strings
                              /\ m.parts \in Seq(ProperPart) \ {<<>>}
      BY <2>3, <2>4, <2>5, <2>6, <2>7 DEF ValidMessage
    <2> QED BY <2>1, <2>8, ProperFields
  <1> QED BY <1>1, <1>2 DEF Member

(* What a Message keeps of a proper one passes the second check.              *)
LEMMA TypedPartMeans ==
    ASSUME NEW part \in ProperPart
    PROVE  TypedPart(part) \in Part /\ ValidPart(TypedPart(part))
  <1>1. part # Null /\ part.text \in Member(Strings) /\ part.text # Wrong
    BY ProperParts, Marks DEF ProperPart, Member, Strings
  <1>2. PICK text : text = Text(part.text)
    OBVIOUS
  <1>3. TypedPart(part) = [text |-> text, others |-> {}]
    BY <1>1, <1>2 DEF TypedPart
  <1>4. text \in Strings /\ text # Absent
    BY <1>1, <1>2, TextMeans, Marks DEF Strings
  <1>5. TypedPart(part) \in Part
    BY <1>3, <1>4 DEF Part, Member
  <1>6. Content(TypedPart(part)) = {"text"}
    BY <1>3, <1>4 DEF Content
  <1>7. Cardinality({"text"}) = 1
    BY FS_Singleton
  <1> QED BY <1>5, <1>6, <1>7, Marks DEF ValidPart

LEMMA TypedMeans ==
    ASSUME NEW m \in ProperMessage
    PROVE  validateMessageRaw(TypedMessage(m))
  <1>1. /\ m.role = "ROLE_AGENT" /\ m.contextId \in Name /\ m.messageId \in Name
        /\ m.taskId \in {Absent, Null} \cup Strings
        /\ m.parts \in Seq(ProperPart) /\ m.parts # <<>>
    BY ProperFields
  <1>2. PICK parts : parts = [i \in DOMAIN m.parts |-> TypedPart(m.parts[i])]
    OBVIOUS
  <1>3. DOMAIN parts = 1 .. Len(m.parts) /\ Len(m.parts) \in Nat
    BY <1>1, <1>2
  <1>4. \A i \in DOMAIN parts : parts[i] \in Part /\ ValidPart(parts[i])
    BY <1>1, <1>2, TypedPartMeans
  <1>5. parts \in Seq(Part)
    BY <1>2, <1>3, <1>4
  <1>6. parts \in Parts /\ parts # <<>>
    <2>1. parts \in Parts
      BY <1>5 DEF Parts
    <2>2. Len(m.parts) # 0
      BY <1>1
    <2>3. 1 \in DOMAIN parts
      BY <1>3, <2>2
    <2> QED BY <2>1, <2>3
  <1>7. "ROLE_AGENT" \in Name
    BY NameAssumption
  <1>8. PICK task : task = Text(m.taskId)
    OBVIOUS
  <1>9. task \in Strings
    BY <1>1, <1>8, Marks, TextMeans DEF Member, Strings
  <1>10. ~Nil(m.parts)
    <2>1. m.parts \in Parts
      BY <1>1, ProperParts DEF Parts
    <2> QED BY <2>1, PartsMean
  <1>11. /\ Text(m.role) = "ROLE_AGENT" /\ Text(m.contextId) = m.contextId
         /\ Text(m.messageId) = m.messageId
    BY <1>1, <1>7, Marks DEF Text
  <1>12. TypedMessage(m) = [role |-> "ROLE_AGENT", contextId |-> m.contextId, messageId |-> m.messageId,
                     taskId |-> task, parts |-> parts]
    BY <1>2, <1>8, <1>10, <1>11 DEF TypedMessage
  <1>13. TypedMessage(m) \in Message
    BY <1>1, <1>6, <1>7, <1>9, <1>12 DEF Message, Member, Strings
  <1>14. ~Nil(TypedMessage(m)) /\ TypedMessage(m) # Wrong
    BY <1>13, Marks DEF Nil
  <1>15. IsText(m.contextId) /\ IsText(m.messageId)
    BY <1>1, TextMeans DEF Member, Strings
  <1>16. ~Nil(parts) /\ parts # Wrong
    BY <1>6, PartsMean
  <1> QED BY <1>4, <1>6, <1>12, <1>14, <1>15, <1>16 DEF validateMessageRaw

(* What is proper is one of the documents a peer may write, not a mark.       *)
LEMMA ProperTasks == ProperTask \subseteq Task
  <1> SUFFICES ASSUME NEW t \in ProperTask PROVE t \in Task
    OBVIOUS
  <1>1. t = [id |-> t.id, contextId |-> t.contextId, state |-> t.state, message |-> t.message]
    BY DEF ProperTask
  <1>2. t.id \in Member(Strings) /\ t.contextId \in Member(Strings) /\ t.state \in Member(Strings)
    BY NameAssumption DEF ProperTask, Member, Strings
  <1>3. t.message \in {Absent, Null} \cup ProperMessage
    BY DEF ProperTask
  <1>4. t.message \in Member(Message)
    BY <1>3, ProperMessages DEF Member
  <1> QED BY <1>1, <1>2, <1>4 DEF Task

LEMMA ProperSendResults == ProperSendResult \subseteq SendResult
  BY ProperTasks, ProperMessages DEF ProperSendResult, SendResult, Member

(* Of the tasks that have what a task must have, those in a known state.  The *)
(* second check of the message turns none away that has passed the first.     *)
LEMMA TaskMeans ==
    ASSUME NEW t \in Member(Task)
    PROVE  ValidTask(t) /\ t.state \in Terminal \cup Interrupted <=> t \in ProperTask
  <1>1. CASE t \in {Absent, Null, Wrong}
    <2>1. ~ValidTask(t)
      <3>1. CASE t = Wrong
        BY <3>1 DEF ValidTask, validateTaskRaw
      <3>2. CASE Nil(t)
        <4>1. TypedTask(t).id = Blank
          BY <3>2 DEF TypedTask
        <4>2. ~IsText(TypedTask(t).id)
          BY <4>1 DEF IsText, Text
        <4> QED BY <4>2 DEF ValidTask, validateTask
      <3> QED BY <1>1, <3>1, <3>2 DEF Nil
    <2> QED BY <1>1, <2>1, ProperTasks, Marks
  <1>2. CASE t \in Task /\ t \notin {Absent, Null, Wrong}
    <2>1. /\ t = [id |-> t.id, contextId |-> t.contextId, state |-> t.state, message |-> t.message]
          /\ t.id \in Member(Strings) /\ t.contextId \in Member(Strings)
          /\ t.state \in Member(Strings) /\ t.message \in Member(Message)
      BY <1>2 DEF Task
    <2>2. PICK id, context, state, message :
               /\ id = Text(t.id) /\ context = Text(t.contextId) /\ state = Text(t.state)
               /\ message = IF Nil(t.message) THEN Null ELSE TypedMessage(t.message)
      OBVIOUS
    <2>3. TypedTask(t) = [id |-> id, contextId |-> context, state |-> state, message |-> message]
      BY <1>2, <2>2 DEF TypedTask, Nil
    <2>4. /\ IsText(id) <=> t.id \in Name
          /\ IsText(context) <=> t.contextId \in Name
          /\ IsText(state) <=> t.state \in Name
      BY <2>1, <2>2, TextMeans
    <2>5. \A n \in Name : n # Wrong
      BY Marks
    <2>6. validateTaskRaw(t) /\ DecodesTask(t)
             <=> /\ t.id # Wrong /\ t.contextId # Wrong /\ t.state # Wrong
                 /\ Nil(t.message) \/ ValidMessage(t.message)
      BY <1>2 DEF validateTaskRaw, DecodesTask, ValidMessage, Nil
    <2>7. Nil(t.message) \/ ValidMessage(t.message)
             <=> t.message \in {Absent, Null} \cup ProperMessage
      BY <2>1, MessageMeans DEF Nil
    <2>8. t.message \in {Absent, Null} \cup ProperMessage => Nil(message) \/ validateMessageRaw(message)
      BY <2>2, TypedMeans DEF Nil
    <2>9. validateTask(TypedTask(t)) <=> /\ t.id \in Name /\ t.contextId \in Name /\ t.state \in Name
                                         /\ Nil(message) \/ validateMessageRaw(message)
      BY <2>3, <2>4 DEF validateTask
    <2>10. ValidTask(t) <=> /\ t.id \in Name /\ t.contextId \in Name /\ t.state \in Name
                            /\ t.message \in {Absent, Null} \cup ProperMessage
      BY <2>5, <2>6, <2>7, <2>8, <2>9 DEF ValidTask
    <2>11. Terminal \cup Interrupted \subseteq Name
      BY NameAssumption
    <2> HIDE DEF Terminal, Interrupted
    <2> QED BY <2>1, <2>10, <2>11 DEF ProperTask
  <1> QED BY <1>1, <1>2 DEF Member

-----------------------------------------------------------------------------
(* How a call returns.                                                        *)

(* What holds of the outcome o of an answer that is read, when `proper` says  *)
(* whether it has a document to hand on.                                      *)
Handed(o, proper) ==
    /\ o.err \in {"none", "protocol", "task-failed"}
    /\ o.kind # "none" <=> proper
    /\ o.err = "none" => o.kind # "none"
    /\ o.err = "task-failed" <=> o.kind = "task" /\ o.value.state \in Failed

LEMMA ErrorMeans ==
    ASSUME NEW err
    PROVE  Error(err).err = err /\ Error(err).kind = "none"
  BY DEF Error

LEMMA AcceptedMeans ==
    ASSUME NEW k, NEW value, NEW err
    PROVE  /\ Accepted(k, value, err).err = err /\ Accepted(k, value, err).kind = k
           /\ Accepted(k, value, err).value = value
  BY DEF Accepted

LEMMA TaskOutcomeMeans ==
    ASSUME NEW t \in Member(Task)
    PROVE  Handed(TaskOutcome(t), t \in ProperTask)
  <1>1. CASE ~ValidTask(t)
    <2>1. TaskOutcome(t) = Error("protocol")
      BY <1>1 DEF TaskOutcome
    <2> QED BY <1>1, <2>1, ErrorMeans, TaskMeans DEF Handed
  <1>2. CASE ValidTask(t) /\ t.state \in Failed
    <2>1. TaskOutcome(t) = Accepted("task", t, "task-failed")
      BY <1>2 DEF TaskOutcome
    <2>2. t \in ProperTask
      BY <1>2, TaskMeans DEF Terminal
    <2> QED BY <1>2, <2>1, <2>2, AcceptedMeans DEF Handed
  <1>3. CASE ValidTask(t) /\ t.state \notin Failed /\ t.state \notin Terminal \cup Interrupted
    <2>1. TaskOutcome(t) = Error("protocol")
      BY <1>3 DEF TaskOutcome
    <2> QED BY <1>3, <2>1, ErrorMeans, TaskMeans DEF Handed
  <1>4. CASE ValidTask(t) /\ t.state \notin Failed /\ t.state \in Terminal \cup Interrupted
    <2>1. TaskOutcome(t) = Accepted("task", t, "none")
      BY <1>4 DEF TaskOutcome
    <2> QED BY <1>4, <2>1, AcceptedMeans, TaskMeans DEF Handed
  <1> QED BY <1>1, <1>2, <1>3, <1>4

LEMMA parseSendResultMeans ==
    ASSUME NEW result \in Member(SendResult), result # Absent
    PROVE  Handed(parseSendResult(result), result \in ProperSendResult)
  <1> USE DEF Handed
  <1>1. CASE result \in {Null, Wrong}
    <2>1. parseSendResult(result) = Error("protocol")
      BY <1>1 DEF parseSendResult
    <2>2. result \notin SendResult
      BY <1>1, Marks
    <2>3. ProperSendResult \subseteq SendResult
      BY ProperSendResults
    <2> QED BY <2>1, <2>2, <2>3, ErrorMeans
  <1>2. CASE result \notin {Null, Wrong}
    <2>1. /\ result = [task |-> result.task, message |-> result.message]
          /\ result.task \in Member(Task) /\ result.message \in Member(Message)
      BY <1>2 DEF Member, SendResult
    <2>2. result \in ProperSendResult
             <=> \/ result.task \in ProperTask /\ Nil(result.message)
                 \/ Nil(result.task) /\ result.message \in ProperMessage
      BY <2>1 DEF ProperSendResult, Nil
    <2>3. result.task \in ProperTask => ~Nil(result.task)
      BY ProperTasks, Marks DEF Nil
    <2>4. result.message \in ProperMessage => ~Nil(result.message)
      BY ProperMessages, Marks DEF Nil
    <2>5. CASE Nil(result.task) = Nil(result.message)
      <3>1. parseSendResult(result) = Error("protocol")
        BY <2>5 DEF parseSendResult
      <3> QED BY <2>2, <2>3, <2>4, <2>5, <3>1, ErrorMeans
    <2>6. CASE ~Nil(result.task) /\ Nil(result.message)
      <3>1. parseSendResult(result) = TaskOutcome(result.task)
        BY <1>2, <2>6 DEF parseSendResult
      <3> QED BY <2>1, <2>2, <2>4, <2>6, <3>1, TaskOutcomeMeans
    <2>7. CASE Nil(result.task) /\ ~Nil(result.message)
      <3>1. CASE ValidMessage(result.message)
        <4>1. parseSendResult(result) = Accepted("message", result.message, "none")
          BY <1>2, <2>7, <3>1 DEF parseSendResult
        <4> QED BY <2>1, <2>2, <2>7, <3>1, <4>1, AcceptedMeans, MessageMeans
      <3>2. CASE ~ValidMessage(result.message)
        <4>1. parseSendResult(result) = Error("protocol")
          BY <1>2, <2>7, <3>2 DEF parseSendResult
        <4> QED BY <2>1, <2>2, <2>3, <2>7, <3>2, <4>1, ErrorMeans, MessageMeans
      <3> QED BY <3>1, <3>2
    <2>8. Nil(result.task) \in BOOLEAN /\ Nil(result.message) \in BOOLEAN
      BY DEF Nil
    <2> QED BY <2>5, <2>6, <2>7, <2>8
  <1> QED BY <1>1, <1>2

(* What ClassTellsWhy says of an answer r and the outcome o of its call.      *)
ClassTells(o, r) ==
    /\ o.err = "auth" <=> r.status = "401/403"
    /\ o.err = "transport" => r.body # "whole" /\ r.status = "2xx"
    /\ o.err = "protocol" => \/ r.body = "whole" \/ r.status = "other"
                             \/ r.version \notin {Absent, "1.0"}
                             \/ r.type # "application/json"
    /\ o.err = "task-failed" <=> o.kind = "task" /\ o.value.state \in Failed
    /\ o.err = "none" => o.kind # "none"

LEMMA CallMeans ==
    ASSUME NEW R, NEW P, Absent \notin P, NEW r \in Answer(R), NEW o,
           doJSON(Sent, r) # "none" => o = Error(doJSON(Sent, r)),
           doJSON(Sent, r) = "none" => Handed(o, r.result \in P)
    PROVE  /\ o.kind # "none" <=> r \in ProperAnswer(P)
           /\ ClassTells(o, r)
  <1>1. /\ r = [status |-> r.status, version |-> r.version, type |-> r.type, body |-> r.body,
                json |-> r.json, jsonrpc |-> r.jsonrpc, id |-> r.id, result |-> r.result,
                error |-> r.error]
        /\ r.status \in Status
    BY DEF Answer
  <1>2. Echoes(Sent, r.id) <=> r.id = Sent
    BY NameAssumption, Marks DEF Echoes, Nil
  <1>3. Text(r.jsonrpc) = "2.0" <=> r.jsonrpc = "2.0"
    BY NameAssumption, Marks DEF Text
  <1>4. r \in ProperAnswer(P) <=> GoodHeaders(r) /\ GoodBody(r) /\ r.result \in P
    <2>1. GoodHeaders(r) /\ GoodBody(r) /\ r.result \in P <=>
             /\ r.status = "2xx" /\ r.version \in {Absent, "1.0"} /\ r.type = "application/json"
             /\ r.body = "whole" /\ r.json = "one-value" /\ r.jsonrpc = "2.0" /\ r.id = Sent
             /\ r.error = Absent /\ r.result \in P
      BY <1>2, <1>3 DEF GoodHeaders, GoodBody
    <2> QED BY <1>1, <2>1 DEF ProperAnswer
  <1>5. CASE doJSON(Sent, r) # "none"
    <2>1. o.err = doJSON(Sent, r) /\ o.kind = "none"
      BY <1>5, ErrorMeans
    <2>2. ~(GoodHeaders(r) /\ GoodBody(r))
      BY <1>1, <1>5, doJSONMeans
    <2>3. r \notin ProperAnswer(P)
      BY <1>4, <2>2
    <2>4. ClassTells(o, r)
      BY <1>1, <1>5, <2>1, doJSONMeans DEF ClassTells
    <2> QED BY <2>1, <2>3, <2>4
  <1>6. CASE doJSON(Sent, r) = "none"
    <2>1. GoodHeaders(r) /\ GoodBody(r) /\ r.status # "401/403"
      BY <1>1, <1>6, doJSONMeans DEF GoodHeaders
    <2>2. Handed(o, r.result \in P)
      BY <1>6
    <2>3. ClassTells(o, r)
      BY <2>1, <2>2 DEF ClassTells, Handed, GoodHeaders, GoodBody
    <2> QED BY <1>4, <2>1, <2>2, <2>3 DEF Handed
  <1> QED BY <1>5, <1>6

LEMMA SendMessageMeans ==
    ASSUME NEW r \in Answer(SendResult)
    PROVE  /\ SendMessage(Sent, r).kind # "none" <=> r \in ProperAnswer(ProperSendResult)
           /\ ClassTells(SendMessage(Sent, r), r)
  <1>1. r.result \in Member(SendResult)
    BY DEF Answer
  <1>2. doJSON(Sent, r) = "none" => r.result # Absent
    BY doJSONMeans DEF Answer, GoodBody
  <1>3. doJSON(Sent, r) = "none" => Handed(SendMessage(Sent, r), r.result \in ProperSendResult)
    BY <1>1, <1>2, parseSendResultMeans DEF SendMessage
  <1>4. doJSON(Sent, r) # "none" => SendMessage(Sent, r) = Error(doJSON(Sent, r))
    BY DEF SendMessage
  <1>5. Absent \notin ProperSendResult
    BY ProperSendResults, Marks
  <1> QED BY <1>3, <1>4, <1>5, CallMeans

LEMMA GetTaskMeans ==
    ASSUME NEW r \in Answer(Task)
    PROVE  /\ GetTask(Sent, r).kind # "none" <=> r \in ProperAnswer(ProperTask)
           /\ ClassTells(GetTask(Sent, r), r)
  <1>1. r.result \in Member(Task)
    BY DEF Answer
  <1>2. doJSON(Sent, r) = "none" => Handed(GetTask(Sent, r), r.result \in ProperTask)
    BY <1>1, TaskOutcomeMeans DEF GetTask
  <1>3. doJSON(Sent, r) # "none" => GetTask(Sent, r) = Error(doJSON(Sent, r))
    BY DEF GetTask
  <1>4. Absent \notin ProperTask
    BY ProperTasks, Marks
  <1> QED BY <1>2, <1>3, <1>4, CallMeans

-----------------------------------------------------------------------------
(* The loop of AgentCard.Interface.                                           *)

(* What the loop makes of the entry it stops at, and of the entries S that    *)
(* fit and are still before it.                                               *)
Verdict(it) == IF Callable(it) THEN Accepted("interface", it, "none") ELSE Error("protocol")
Stops(its, S) ==
    IF S = {} THEN Error("protocol") ELSE Verdict(its[CHOOSE j \in S : \A k \in S : j <= k])
Loop(its, loop, i) ==
    IF i > Len(its) THEN Error("protocol")
    ELSE IF ~Speaks(its[i]) THEN loop[i + 1]
    ELSE IF ~Callable(its[i]) THEN Error("protocol")
    ELSE Accepted("interface", its[i], "none")

LEMMA LoopExists ==
    ASSUME NEW its, Len(its) \in Nat
    PROVE  \E loop : loop = [i \in 1 .. Len(its) + 1 |-> Loop(its, loop, i)]
  <1> DEFINE fits(i) == {j \in i .. Len(its) : Speaks(its[j])}
             loop == [i \in 1 .. Len(its) + 1 |-> Stops(its, fits(i))]
  <1>1. ASSUME NEW i \in 1 .. Len(its) + 1
        PROVE  loop[i] = Loop(its, loop, i)
    <2>1. loop[i] = Stops(its, fits(i))
      OBVIOUS
    <2>2. CASE i > Len(its)
      <3>1. fits(i) = {}
        BY <2>2
      <3> QED BY <2>1, <2>2, <3>1 DEF Stops, Loop
    <2>3. CASE i <= Len(its) /\ ~Speaks(its[i])
      <3>1. fits(i) = fits(i + 1) /\ i + 1 \in 1 .. Len(its) + 1
        BY <2>3
      <3>2. loop[i + 1] = Stops(its, fits(i + 1))
        BY <3>1
      <3> HIDE DEF loop, fits
      <3> QED BY <2>1, <2>3, <3>1, <3>2 DEF Loop
    <2>4. CASE i <= Len(its) /\ Speaks(its[i])
      <3>1. i \in fits(i) /\ \A j \in fits(i) : i <= j
        BY <2>4
      <3>2. \A j \in fits(i) : j \in Int
        OBVIOUS
      <3> HIDE DEF loop, fits
      <3>3. (CHOOSE j \in fits(i) : \A k \in fits(i) : j <= k) = i
        <4>1. PICK j : j = CHOOSE x \in fits(i) : \A k \in fits(i) : x <= k
          OBVIOUS
        <4>2. j \in fits(i) /\ \A k \in fits(i) : j <= k
          BY <3>1, <4>1
        <4>3. j = i
          BY <3>1, <3>2, <4>2
        <4> QED BY <4>1, <4>3
      <3>4. Stops(its, fits(i)) = Verdict(its[i])
        BY <3>1, <3>3 DEF Stops
      <3> QED BY <2>1, <2>4, <3>4 DEF Loop, Verdict
    <2> QED BY <2>2, <2>3, <2>4
  <1>2. loop = [i \in 1 .. Len(its) + 1 |-> loop[i]]
    OBVIOUS
  <1> HIDE DEF loop
  <1>3. loop = [i \in 1 .. Len(its) + 1 |-> Loop(its, loop, i)]
    BY <1>1, <1>2
  <1> QED BY <1>3

(* The entries before the first that fits change nothing.                     *)
LEMMA LoopSkips ==
    ASSUME NEW its, Len(its) \in Nat, NEW loop,
           loop = [i \in 1 .. Len(its) + 1 |-> Loop(its, loop, i)],
           NEW m \in 1 .. Len(its) + 1, \A j \in 1 .. m - 1 : ~Speaks(its[j])
    PROVE  loop[1] = Loop(its, loop, m)
  <1> DEFINE T == {k \in Nat : k < m => loop[k + 1] = loop[1]}
  <1>0. \A i \in 1 .. Len(its) + 1 : loop[i] = Loop(its, loop, i)
    OBVIOUS
  <1>1. 0 \in T
    OBVIOUS
  <1>2. ASSUME NEW k \in Nat, k \in T PROVE k + 1 \in T
    <2> SUFFICES ASSUME k + 1 < m PROVE loop[k + 1 + 1] = loop[1]
      OBVIOUS
    <2>1. k + 1 \in 1 .. m - 1 /\ k + 1 \in 1 .. Len(its) + 1 /\ ~(k + 1 > Len(its)) /\ k < m
      OBVIOUS
    <2>2. loop[k + 1] = Loop(its, loop, k + 1) /\ ~Speaks(its[k + 1])
      BY <1>0, <2>1
    <2>3. loop[k + 1] = loop[k + 1 + 1]
      BY <2>1, <2>2 DEF Loop
    <2> QED BY <1>2, <2>1, <2>3
  <1>3. Nat \subseteq T
    <2> HIDE DEF T
    <2> QED BY <1>1, <1>2, Induction
  <1>4. m - 1 \in Nat /\ m - 1 < m /\ m - 1 + 1 = m
    OBVIOUS
  <1>5. loop[m - 1 + 1] = loop[1]
    BY <1>3, <1>4
  <1> QED BY <1>0, <1>4, <1>5

LEMMA InterfaceMeans ==
    ASSUME NEW its, Len(its) \in Nat
    PROVE  /\ (\A j \in 1 .. Len(its) : ~Speaks(its[j])) => Interface(its) = Error("protocol")
           /\ \A i \in 1 .. Len(its) :
                 Speaks(its[i]) /\ (\A j \in 1 .. i - 1 : ~Speaks(its[j]))
                 => Interface(its) = Verdict(its[i])
  <1> DEFINE loop == CHOOSE f : f = [i \in 1 .. Len(its) + 1 |->
                        IF i > Len(its) THEN Error("protocol")
                        ELSE IF ~Speaks(its[i]) THEN f[i + 1]
                        ELSE IF ~Callable(its[i]) THEN Error("protocol")
                        ELSE Accepted("interface", its[i], "none")]
  <1>1. Interface(its) = loop[1]
    BY DEF Interface
  <1>2. loop = [i \in 1 .. Len(its) + 1 |-> Loop(its, loop, i)]
    <2>1. \E f : f = [i \in 1 .. Len(its) + 1 |-> Loop(its, f, i)]
      BY LoopExists
    <2> QED BY <2>1 DEF Loop
  <1> HIDE DEF loop
  <1>3. ASSUME \A j \in 1 .. Len(its) : ~Speaks(its[j])
        PROVE  Interface(its) = Error("protocol")
    <2>1. loop[1] = Loop(its, loop, Len(its) + 1)
      <3>1. Len(its) + 1 \in 1 .. Len(its) + 1 /\ \A j \in 1 .. Len(its) + 1 - 1 : ~Speaks(its[j])
        BY <1>3
      <3> QED BY <1>2, <3>1, LoopSkips
    <2>2. Len(its) + 1 > Len(its)
      OBVIOUS
    <2> QED BY <1>1, <2>1, <2>2 DEF Loop
  <1>4. ASSUME NEW i \in 1 .. Len(its), Speaks(its[i]), \A j \in 1 .. i - 1 : ~Speaks(its[j])
        PROVE  Interface(its) = Verdict(its[i])
    <2>1. i \in 1 .. Len(its) + 1 /\ ~(i > Len(its))
      OBVIOUS
    <2>2. loop[1] = Loop(its, loop, i)
      BY <1>2, <1>4, <2>1, LoopSkips
    <2> QED BY <1>1, <1>4, <2>1, <2>2 DEF Loop, Verdict
  <1> QED BY <1>3, <1>4

LEMMA CardErrorMeans ==
    ASSUME NEW r, NEW card
    PROVE  CardError(r, card) = "none"
              <=> GoodAnswer(r) /\ card.missing = {} /\ \A s \in DOMAIN card.skills : card.skills[s]
  <1>1. CASE HeaderError(r) # "none"
    <2>1. CardError(r, card) # "none"
      BY <1>1 DEF CardError
    <2> QED BY <1>1, <2>1, HeaderMeans DEF GoodAnswer, GoodHeaders
  <1>2. CASE HeaderError(r) = "none"
    <2> DEFINE checks == <<
          <<r.body # "whole", "transport">>,
          <<r.json # "one-value", "protocol">>,
          <<card.missing # {}, "protocol">>,
          <<\E s \in DOMAIN card.skills : ~card.skills[s], "protocol">> >>
    <2>1. DOMAIN checks = 1..4
      OBVIOUS
    <2>2. /\ checks[1][2] = "transport" /\ checks[2][2] = "protocol"
          /\ checks[3][2] = "protocol" /\ checks[4][2] = "protocol"
      OBVIOUS
    <2>3. /\ checks[1][1] <=> r.body # "whole"
          /\ checks[2][1] <=> r.json # "one-value"
          /\ checks[3][1] <=> card.missing # {}
          /\ checks[4][1] <=> \E s \in DOMAIN card.skills : ~card.skills[s]
      OBVIOUS
    <2>4. CardError(r, card) = FirstFailure(checks)
      BY <1>2 DEF CardError
    <2> HIDE DEF checks
    <2>5. \A i \in 1..4 : i = 1 \/ i = 2 \/ i = 3 \/ i = 4
      OBVIOUS
    <2>6. CardError(r, card) = "none" <=> \A i \in 1..4 : ~checks[i][1]
      <3>1. \/ (\A i \in 1..4 : ~checks[i][1]) /\ FirstFailure(checks) = "none"
            \/ \E i \in 1..4 : checks[i][1] /\ FirstFailure(checks) = checks[i][2]
        BY <2>1, FirstFailureMeans
      <3>2. \A i \in 1..4 : checks[i][2] # "none"
        BY <2>2, <2>5
      <3> QED BY <2>4, <3>1, <3>2
    <2>7. (\A i \in 1..4 : ~checks[i][1])
             <=> ~checks[1][1] /\ ~checks[2][1] /\ ~checks[3][1] /\ ~checks[4][1]
      BY <2>5
    <2>8. GoodHeaders(r)
      BY <1>2, HeaderMeans
    <2> QED BY <2>3, <2>6, <2>7, <2>8 DEF GoodAnswer, GoodHeaders
  <1> QED BY <1>1, <1>2

(* The list decides by its first entry that fits.                             *)
LEMMA FirstMeans ==
    ASSUME NEW its, Len(its) \in Nat, DOMAIN its = 1 .. Len(its)
    PROVE  IF Usable(its)
           THEN Interface(its) = Accepted("interface", its[First(its)], "none")
           ELSE Interface(its) = Error("protocol")
  <1>1. Fits(its) = {j \in 1 .. Len(its) : Speaks(its[j])}
    BY DEF Fits, Speaks
  <1>2. CASE Fits(its) = {}
    <2>1. \A j \in 1 .. Len(its) : ~Speaks(its[j])
      BY <1>1, <1>2
    <2> QED BY <1>2, <2>1, InterfaceMeans DEF Usable
  <1>3. CASE Fits(its) # {}
    <2>1. Fits(its) \subseteq Nat
      BY <1>1
    <2>2. \E j \in Fits(its) : \A k \in Fits(its) : j <= k
      BY <1>3, <2>1, LeastNumber
    <2>3. PICK i : i = First(its)
      OBVIOUS
    <2>4. i \in Fits(its) /\ \A k \in Fits(its) : i <= k
      BY <2>2, <2>3 DEF First
    <2>5. i \in 1 .. Len(its) /\ Speaks(its[i])
      BY <1>1, <2>4
    <2>6. \A j \in 1 .. i - 1 : ~Speaks(its[j])
      <3> SUFFICES ASSUME NEW j \in 1 .. i - 1, Speaks(its[j]) PROVE FALSE
        OBVIOUS
      <3>1. j \in 1 .. Len(its) /\ ~(i <= j)
        BY <2>5
      <3>2. j \in Fits(its)
        BY <1>1, <3>1
      <3> QED BY <2>4, <3>1, <3>2
    <2>7. Interface(its) = Verdict(its[i])
      BY <2>5, <2>6, InterfaceMeans
    <2>8. Usable(its) <=> Callable(its[i])
      BY <1>3, <2>3 DEF Usable, Callable
    <2> QED BY <2>3, <2>7, <2>8 DEF Verdict
  <1> QED BY <1>2, <1>3

LEMMA runDiscoverMeans ==
    ASSUME NEW d \in Discovered
    PROVE  IF /\ d.reach = "answered" /\ GoodAnswer(d.answer) /\ d.written
              /\ d.card.missing = {} /\ (\A s \in DOMAIN d.card.skills : d.card.skills[s])
              /\ Usable(d.card.interfaces)
           THEN runDiscover(d.reach, d.answer, d.card, d.written)
                  = Accepted("interface", d.card.interfaces[First(d.card.interfaces)], "none")
           ELSE /\ runDiscover(d.reach, d.answer, d.card, d.written).err # "none"
                /\ runDiscover(d.reach, d.answer, d.card, d.written).kind = "none"
  <1> DEFINE o == runDiscover(d.reach, d.answer, d.card, d.written)
             its == d.card.interfaces
  <1>1. d.reach \in {"answered", "usage", "transport"}
    BY DEF Discovered
  <1>2. Len(its) \in Nat /\ DOMAIN its = 1 .. Len(its)
    BY DEF Discovered
  <1>3. CASE d.reach # "answered"
    <2>1. o = Error(d.reach)
      BY <1>3 DEF runDiscover
    <2> QED BY <1>1, <1>3, <2>1, ErrorMeans
  <1>4. CASE d.reach = "answered" /\ CardError(d.answer, d.card) # "none"
    <2>1. Discover(d.answer, d.card) = Error(CardError(d.answer, d.card))
      BY <1>4 DEF Discover
    <2>2. Discover(d.answer, d.card).err # "none" /\ Discover(d.answer, d.card).kind = "none"
      BY <1>4, <2>1, ErrorMeans
    <2>3. o = Discover(d.answer, d.card)
      BY <1>4, <2>2 DEF runDiscover
    <2> QED BY <1>4, <2>2, <2>3, CardErrorMeans
  <1>5. CASE d.reach = "answered" /\ CardError(d.answer, d.card) = "none"
    <2>1. PICK found : found = Discover(d.answer, d.card)
      OBVIOUS
    <2>2. found = Interface(its)
      BY <1>5, <2>1 DEF Discover
    <2>3. o = IF found.err = "none" /\ ~d.written THEN Error("transport") ELSE found
      BY <1>5, <2>1 DEF runDiscover
    <2> HIDE DEF its, o
    <2>4. CASE Usable(its)
      <3>1. found = Accepted("interface", its[First(its)], "none")
        BY <1>2, <2>2, <2>4, FirstMeans
      <3>2. found.err = "none"
        BY <3>1, AcceptedMeans
      <3>3. CASE d.written
        BY <1>5, <2>3, <2>4, <3>1, <3>3, CardErrorMeans DEF its, o
      <3>4. CASE ~d.written
        <4>1. o.err # "none" /\ o.kind = "none"
          BY <2>3, <3>2, <3>4, ErrorMeans
        <4> QED BY <3>4, <4>1 DEF o
      <3> QED BY <3>3, <3>4
    <2>5. CASE ~Usable(its)
      <3>1. found = Error("protocol")
        BY <1>2, <2>2, <2>5, FirstMeans
      <3>2. o.err # "none" /\ o.kind = "none"
        BY <2>3, <3>1, ErrorMeans
      <3> QED BY <2>5, <3>2 DEF its, o
    <2> QED BY <2>4, <2>5
  <1> QED BY <1>3, <1>4, <1>5

-----------------------------------------------------------------------------
(* Unmarshal and redactValue, for payloads of any depth.                      *)

(* What each makes of v when f is what it makes of the parts of v.            *)
Unmarshaled(f, v) ==
    CASE v.kind = "object" ->
            LET parts == [k \in DOMAIN v.members |-> f[v.members[k]]]
            IN  IF \E k \in DOMAIN parts : parts[k] = Undecodable THEN Undecodable
                ELSE [v EXCEPT !.members = parts]
      [] v.kind = "array" ->
            LET parts == [i \in DOMAIN v.items |-> f[v.items[i]]]
            IN  IF \E i \in DOMAIN parts : parts[i] = Undecodable THEN Undecodable
                ELSE [v EXCEPT !.items = parts]
      [] v.kind = "number" -> IF Float64[v.value] = OutOfRange THEN Undecodable
                              ELSE Number(Float64[v.value])
      [] OTHER -> v
Rewritten(f, v) ==
    CASE v.kind = "object" -> [v EXCEPT !.members = redactMembers(f, @)]
      [] v.kind = "array" -> [v EXCEPT !.items = [i \in DOMAIN @ |-> f[@[i]]]]
      [] v.kind = "string" -> Redact(v)
      [] OTHER -> v
Pass(decoding, f, v) == IF decoding THEN Unmarshaled(f, v) ELSE Rewritten(f, v)

LEMMA BelowGrows ==
    ASSUME NEW d \in Nat, NEW e \in Nat, d <= e
    PROVE  Below(d) \subseteq Below(e)
  <1>1. 1 .. d - 1 \subseteq 1 .. e - 1
    OBVIOUS
  <1> QED BY <1>1 DEF Below

LEMMA BelowMeans ==
    ASSUME NEW d \in 0 .. MaxDepth, NEW v \in Below(d + 1)
    PROVE  \E e \in 1 .. d : IsValue(v, Below(e)) /\ e <= MaxDepth
  <1>1. PICK e \in 1 .. d : v \in Nested[e]
    BY NestedAssumption DEF Below
  <1>2. e \in 1 .. MaxDepth
    BY NestedAssumption
  <1> QED BY <1>1, <1>2, NestedAssumption

LEMMA IsValueGrows ==
    ASSUME NEW P, NEW Q, P \subseteq Q, NEW v, IsValue(v, P)
    PROVE  IsValue(v, Q)
  <1>1. CASE v \in [kind : {"array"}, items : Seq(P)]
    <2>1. v.items \in Seq(Q)
      BY <1>1
    <2> QED BY <1>1, <2>1 DEF IsValue
  <1>2. CASE /\ v.kind = "object" /\ v = [kind |-> "object", members |-> v.members]
             /\ v.members \in [DOMAIN v.members -> P]
    <2>1. v.members \in [DOMAIN v.members -> Q]
      BY <1>2
    <2> QED BY <1>2, <2>1 DEF IsValue
  <1> QED BY <1>1, <1>2 DEF IsValue

(* The parts of a value are all that either depends on.                       *)
LEMMA PassByParts ==
    ASSUME NEW P, NEW v, IsValue(v, P), NEW f, NEW g, \A u \in P : f[u] = g[u],
           NEW decoding \in BOOLEAN
    PROVE  Pass(decoding, f, v) = Pass(decoding, g, v)
  <1>1. CASE v.kind = "object"
    <2>1. v.members \in [DOMAIN v.members -> P]
      BY <1>1 DEF IsValue
    <2>2. \A k \in DOMAIN v.members : f[v.members[k]] = g[v.members[k]]
      BY <2>1
    <2>3. redactMembers(f, v.members) = redactMembers(g, v.members)
      BY <2>2 DEF redactMembers
    <2>4. [k \in DOMAIN v.members |-> f[v.members[k]]] = [k \in DOMAIN v.members |-> g[v.members[k]]]
      BY <2>2
    <2>5. Rewritten(f, v) = Rewritten(g, v)
      BY <1>1, <2>3 DEF Rewritten
    <2>6. Unmarshaled(f, v) = Unmarshaled(g, v)
      BY <1>1, <2>4 DEF Unmarshaled
    <2> QED BY <2>5, <2>6 DEF Pass
  <1>2. CASE v.kind = "array"
    <2>1. v.items \in Seq(P)
      BY <1>2 DEF IsValue
    <2>2. \A i \in DOMAIN v.items : f[v.items[i]] = g[v.items[i]]
      BY <2>1
    <2>3. [i \in DOMAIN v.items |-> f[v.items[i]]] = [i \in DOMAIN v.items |-> g[v.items[i]]]
      BY <2>2
    <2>4. Rewritten(f, v) = Rewritten(g, v)
      BY <1>2, <2>3 DEF Rewritten
    <2>5. Unmarshaled(f, v) = Unmarshaled(g, v)
      BY <1>2, <2>3 DEF Unmarshaled
    <2> QED BY <2>4, <2>5 DEF Pass
  <1>3. CASE v.kind \notin {"object", "array"}
    BY <1>3 DEF Pass, Rewritten, Unmarshaled
  <1> QED BY <1>1, <1>2, <1>3

LEMMA PassExists ==
    ASSUME NEW decoding \in BOOLEAN
    PROVE  \E f : f = [v \in JSON |-> Pass(decoding, f, v)]
  <1> DEFINE T == {d \in Nat : d <= MaxDepth => \E f : f = [v \in Below(d + 1) |-> Pass(decoding, f, v)]}
  <1>1. 0 \in T
    <2>1. Below(0 + 1) = {}
      BY DEF Below
    <2>2. PICK f : f = [v \in {} |-> v]
      OBVIOUS
    <2>3. f = [v \in {} |-> Pass(decoding, f, v)]
      BY <2>2
    <2>4. f = [v \in Below(0 + 1) |-> Pass(decoding, f, v)]
      BY <2>1, <2>3
    <2> QED BY <2>4
  <1>2. ASSUME NEW d \in Nat, d \in T PROVE d + 1 \in T
    <2> SUFFICES ASSUME d + 1 <= MaxDepth
                 PROVE  \E h : h = [v \in Below(d + 1 + 1) |-> Pass(decoding, h, v)]
      OBVIOUS
    <2>1. d \in 0 .. MaxDepth /\ d + 1 \in 0 .. MaxDepth /\ d <= MaxDepth
      BY NestedAssumption
    <2>2. PICK g : g = [v \in Below(d + 1) |-> Pass(decoding, g, v)]
      BY <1>2, <2>1
    <2> DEFINE h == [v \in Below(d + 1 + 1) |-> Pass(decoding, g, v)]
    <2>3. ASSUME NEW u \in Below(d + 1) PROVE h[u] = g[u]
      <3>1. u \in Below(d + 1 + 1)
        BY BelowGrows
      <3>2. g[u] = Pass(decoding, g, u)
        BY <2>2
      <3> QED BY <3>1, <3>2
    <2>4. ASSUME NEW v \in Below(d + 1 + 1) PROVE Pass(decoding, g, v) = Pass(decoding, h, v)
      <3>1. PICK e \in 1 .. d + 1 : IsValue(v, Below(e))
        BY <2>1, BelowMeans
      <3>2. Below(e) \subseteq Below(d + 1)
        BY BelowGrows
      <3> HIDE DEF h
      <3> QED BY <2>3, <3>1, <3>2, PassByParts
    <2>5. h = [v \in Below(d + 1 + 1) |-> Pass(decoding, h, v)]
      <3> DEFINE other == [v \in Below(d + 1 + 1) |-> Pass(decoding, h, v)]
      <3> SUFFICES h = other
        OBVIOUS
      <3>1. \A v \in Below(d + 1 + 1) : h[v] = Pass(decoding, g, v)
        OBVIOUS
      <3>2. h = [v \in Below(d + 1 + 1) |-> h[v]]
        OBVIOUS
      <3> HIDE DEF h
      <3>3. \A v \in Below(d + 1 + 1) : h[v] = Pass(decoding, h, v)
        BY <2>4, <3>1
      <3> QED BY <3>2, <3>3
    <2> QED BY <2>5
  <1>3. Nat \subseteq T
    <2> HIDE DEF T
    <2> QED BY <1>1, <1>2, Induction
  <1>4. MaxDepth \in Nat /\ MaxDepth <= MaxDepth
    BY NestedAssumption
  <1>5. \E f : f = [v \in Below(MaxDepth + 1) |-> Pass(decoding, f, v)]
    BY <1>3, <1>4
  <1> QED BY <1>5 DEF JSON

LEMMA UnmarshalMeans ==
    ASSUME NEW v \in JSON
    PROVE  Unmarshal[v] = Unmarshaled(Unmarshal, v)
  <1>1. \E f : f = [u \in JSON |-> Unmarshaled(f, u)]
    BY PassExists DEF Pass
  <1>2. Unmarshal = [u \in JSON |-> Unmarshaled(Unmarshal, u)]
    BY <1>1 DEF Unmarshal, Unmarshaled
  <1> HIDE DEF Unmarshal
  <1> QED BY <1>2

LEMMA redactValueMeans ==
    ASSUME NEW v \in JSON
    PROVE  redactValue[v] = Rewritten(redactValue, v)
  <1>1. \E f : f = [u \in JSON |-> Rewritten(f, u)]
    BY PassExists DEF Pass
  <1>2. redactValue = [u \in JSON |-> Rewritten(redactValue, u)]
    BY <1>1 DEF redactValue, Rewritten
  <1> HIDE DEF redactValue
  <1> QED BY <1>2

-----------------------------------------------------------------------------
(* The leaves of a value and those of its redaction, level by level.          *)
LEMMA LeavesMeans ==
    ASSUME NEW v
    PROVE  \E down : /\ down[0] = {<< <<>>, v >>}
                     /\ \A n \in Nat : n < MaxDepth => down[n + 1] = Level(down[n])
                     /\ Leaves(v) = down[MaxDepth]
  <1> DEFINE Root == {<< <<>>, v >>}
             Goes(D, n) == D = [k \in 0 .. n |-> IF k = 0 THEN Root ELSE Level(D[k - 1])]
             T == {n \in Nat : \E D : Goes(D, n)}
  <1> HIDE DEF Root
  <1>1. 0 \in T
    <2> DEFINE D == [k \in 0 .. 0 |-> Root]
    <2>1. \A k \in 0 .. 0 : k = 0
      OBVIOUS
    <2>2. PICK E : E = D
      OBVIOUS
    <2>3. E = [k \in 0 .. 0 |-> IF k = 0 THEN Root ELSE Level(E[k - 1])]
      BY <2>1, <2>2
    <2> QED BY <2>3
  <1>2. ASSUME NEW n \in Nat, n \in T PROVE n + 1 \in T
    <2>1. PICK D : Goes(D, n)
      BY <1>2
    <2> DEFINE E == [k \in 0 .. n + 1 |-> IF k = 0 THEN Root ELSE Level(D[k - 1])]
    <2>2. \A k \in 0 .. n : E[k] = D[k]
      <3> SUFFICES ASSUME NEW k \in 0 .. n PROVE E[k] = D[k]
        OBVIOUS
      <3>1. k \in 0 .. n + 1
        OBVIOUS
      <3> QED BY <2>1, <3>1
    <2>3. \A k \in 0 .. n + 1 : E[k] = IF k = 0 THEN Root ELSE Level(E[k - 1])
      <3> SUFFICES ASSUME NEW k \in 0 .. n + 1, k # 0 PROVE E[k] = Level(E[k - 1])
        OBVIOUS
      <3>1. k - 1 \in 0 .. n
        OBVIOUS
      <3>2. E[k] = Level(D[k - 1])
        OBVIOUS
      <3> HIDE DEF E
      <3> QED BY <2>2, <3>1, <3>2
    <2>4. E = [k \in 0 .. n + 1 |-> E[k]]
      OBVIOUS
    <2> HIDE DEF E
    <2>5. Goes(E, n + 1)
      BY <2>3, <2>4
    <2> QED BY <2>5
  <1>3. Nat \subseteq T
    <2> HIDE DEF T
    <2> QED BY <1>1, <1>2, Induction
  <1>4. MaxDepth \in Nat
    BY NestedAssumption
  <1>5. \E D : Goes(D, MaxDepth)
    BY <1>3, <1>4
  <1> DEFINE down == CHOOSE D : Goes(D, MaxDepth)
  <1>6. Leaves(v) = down[MaxDepth]
    BY DEF Leaves, Root
  <1>7. Goes(down, MaxDepth)
    BY <1>5
  <1> HIDE DEF down
  <1>8. down[0] = Root
    BY <1>4, <1>7
  <1>9. \A n \in Nat : n < MaxDepth => down[n + 1] = Level(down[n])
    <2> SUFFICES ASSUME NEW n \in Nat, n < MaxDepth PROVE down[n + 1] = Level(down[n])
      OBVIOUS
    <2>1. \A k \in 0 .. MaxDepth : k # 0 => down[k] = Level(down[k - 1])
      BY <1>7
    <2>2. n + 1 \in 0 .. MaxDepth /\ n + 1 # 0 /\ n + 1 - 1 = n
      BY <1>4
    <2> HIDE DEF Goes
    <2>3. PICK m : m = n + 1
      OBVIOUS
    <2>4. down[m] = Level(down[m - 1])
      BY <2>1, <2>2, <2>3
    <2> QED BY <2>2, <2>3, <2>4
  <1> QED BY <1>6, <1>8, <1>9 DEF Root

(* What one pair of a path and a value becomes a level further down.          *)
Under(p) == IF Steps(p[2]) = {} THEN {p}
            ELSE {<<Append(p[1], <<p[2].kind, s>>), Child(p[2], s)>> : s \in Steps(p[2])}

LEMMA LevelMeans ==
    ASSUME NEW pairs
    PROVE  Level(pairs) = UNION {Under(p) : p \in pairs}
  <1>1. ASSUME NEW q \in Level(pairs) PROVE q \in UNION {Under(p) : p \in pairs}
    <2>1. CASE q \in pairs /\ Steps(q[2]) = {}
      BY <2>1 DEF Under
    <2>2. CASE \E p \in pairs :
                 q \in {<<Append(p[1], <<p[2].kind, s>>), Child(p[2], s)>> : s \in Steps(p[2])}
      <3>1. PICK p \in pairs :
                 q \in {<<Append(p[1], <<p[2].kind, s>>), Child(p[2], s)>> : s \in Steps(p[2])}
        BY <2>2
      <3>2. Steps(p[2]) # {}
        BY <3>1
      <3>3. q \in Under(p)
        BY <3>1, <3>2 DEF Under
      <3> QED BY <3>3
    <2> QED BY <1>1, <2>1, <2>2 DEF Level
  <1>2. ASSUME NEW p \in pairs, NEW q \in Under(p) PROVE q \in Level(pairs)
    <2>1. CASE Steps(p[2]) = {}
      BY <1>2, <2>1 DEF Under, Level
    <2>2. CASE Steps(p[2]) # {}
      <3>1. q \in {<<Append(p[1], <<p[2].kind, s>>), Child(p[2], s)>> : s \in Steps(p[2])}
        BY <1>2, <2>2 DEF Under
      <3> QED BY <3>1 DEF Level
    <2> QED BY <2>1, <2>2
  <1> QED BY <1>1, <1>2

(* The paths to the parts of the values of JSON.                              *)
Tokens == {"object", "array"} \X UNION {Steps(u) : u \in JSON}
Paths == Seq(Tokens)
Secret(token) == token[1] = "object" /\ sensitiveKey(token[2])
Cut(path) ==
    SubSeq(path, 1, CHOOSE n \in Sensitive(path) : \A m \in Sensitive(path) : n <= m)

LEMMA NothingSensitive == Sensitive(<<>>) = {} /\ <<>> \in Paths
  <1>1. DOMAIN <<>> = {} /\ <<>> \in Paths
    BY DEF Paths
  <1> QED BY <1>1 DEF Sensitive

LEMMA SensitiveAppend ==
    ASSUME NEW path \in Paths, NEW token \in Tokens
    PROVE  /\ Append(path, token) \in Paths
           /\ Sensitive(Append(path, token))
                = Sensitive(path) \cup (IF Secret(token) THEN {Len(path) + 1} ELSE {})
           /\ Sensitive(path) \subseteq 1 .. Len(path)
  <1>1. /\ Append(path, token) \in Paths /\ Len(path) \in Nat
        /\ DOMAIN path = 1 .. Len(path) /\ DOMAIN Append(path, token) = 1 .. Len(path) + 1
        /\ \A n \in 1 .. Len(path) : Append(path, token)[n] = path[n]
        /\ Append(path, token)[Len(path) + 1] = token
    BY DEF Paths
  <1>2. PICK longer : longer = Append(path, token)
    OBVIOUS
  <1>3. \A n \in 1 .. Len(path) + 1 : n \in 1 .. Len(path) \/ n = Len(path) + 1
    BY <1>1
  <1>4. Sensitive(longer) = Sensitive(path) \cup (IF Secret(token) THEN {Len(path) + 1} ELSE {})
    <2>1. Sensitive(longer) = {n \in 1 .. Len(path) + 1 : Secret(longer[n])}
      BY <1>1, <1>2 DEF Sensitive, Secret
    <2>2. Sensitive(path) = {n \in 1 .. Len(path) : Secret(path[n])}
      BY <1>1 DEF Sensitive, Secret
    <2>3. /\ \A n \in 1 .. Len(path) : longer[n] = path[n] /\ n \in 1 .. Len(path) + 1
          /\ longer[Len(path) + 1] = token /\ Len(path) + 1 \in 1 .. Len(path) + 1
      BY <1>1, <1>2
    <2> QED BY <2>1, <2>2, <2>3, <1>3
  <1> QED BY <1>1, <1>2, <1>4 DEF Sensitive

LEMMA SubSeqFromFirst ==
    ASSUME NEW S, NEW s \in Seq(S), NEW n \in 1 .. Len(s)
    PROVE  SubSeq(s, 1, n) = [i \in 1 .. n |-> s[i]]
  <1>1. n \in Nat /\ \A i \in 1 .. n : s[i] \in S
    OBVIOUS
  <1>2. PICK t : t = SubSeq(s, 1, n)
    OBVIOUS
  <1>3. t \in Seq(S) /\ Len(t) = n /\ \A i \in 1 .. n : t[i] = s[i]
    <2>1. /\ t \in Seq(S) /\ Len(t) = IF 1 <= n THEN n - 1 + 1 ELSE 0
          /\ \A i \in 1 .. n - 1 + 1 : t[i] = s[1 + i - 1]
      BY <1>1, <1>2, SubSeqProperties
    <2> QED BY <1>1, <2>1
  <1>4. t = [i \in 1 .. n |-> t[i]]
    BY <1>3
  <1>5. [i \in 1 .. n |-> t[i]] = [i \in 1 .. n |-> s[i]]
    BY <1>3
  <1> QED BY <1>2, <1>4, <1>5

(* Below a sensitive key a path is cut where it was, and at one not at all.   *)
LEMMA CutAppend ==
    ASSUME NEW path \in Paths, NEW token \in Tokens
    PROVE  /\ Sensitive(path) # {} => Cut(Append(path, token)) = Cut(path)
           /\ Sensitive(path) = {} /\ Secret(token) => Cut(Append(path, token)) = Append(path, token)
  <1>1. PICK longer : longer = Append(path, token)
    OBVIOUS
  <1>2. /\ longer \in Paths /\ Len(path) \in Nat /\ Len(longer) = Len(path) + 1
        /\ \A n \in 1 .. Len(path) : longer[n] = path[n]
    BY <1>1 DEF Paths
  <1>3. /\ Sensitive(longer) = Sensitive(path) \cup (IF Secret(token) THEN {Len(path) + 1} ELSE {})
        /\ Sensitive(path) \subseteq 1 .. Len(path)
    BY <1>1, SensitiveAppend
  <1>4. ASSUME Sensitive(path) # {} PROVE Cut(longer) = Cut(path)
    <2>1. Sensitive(path) \subseteq Nat
      BY <1>2, <1>3
    <2>2. PICK i \in Sensitive(path) : \A m \in Sensitive(path) : i <= m
      BY <1>4, <2>1, LeastNumber
    <2>3. i \in 1 .. Len(path) /\ i <= Len(path) + 1
      BY <1>2, <1>3, <2>2
    <2>4. i \in Sensitive(longer) /\ \A m \in Sensitive(longer) : i <= m /\ m \in Nat
      BY <1>2, <1>3, <2>1, <2>2, <2>3
    <2>5. (CHOOSE n \in Sensitive(path) : \A m \in Sensitive(path) : n <= m) = i
      <3>1. PICK n : n = CHOOSE x \in Sensitive(path) : \A m \in Sensitive(path) : x <= m
        OBVIOUS
      <3>2. n \in Sensitive(path) /\ \A m \in Sensitive(path) : n <= m
        BY <2>2, <3>1
      <3>3. n <= i /\ i <= n /\ n \in Nat /\ i \in Nat
        BY <2>1, <2>2, <3>2
      <3> QED BY <3>1, <3>3
    <2>6. (CHOOSE n \in Sensitive(longer) : \A m \in Sensitive(longer) : n <= m) = i
      <3>1. PICK n : n = CHOOSE x \in Sensitive(longer) : \A m \in Sensitive(longer) : x <= m
        OBVIOUS
      <3>2. n \in Sensitive(longer) /\ \A m \in Sensitive(longer) : n <= m
        BY <2>4, <3>1
      <3>3. n <= i /\ i <= n /\ n \in Nat /\ i \in Nat
        BY <2>1, <2>2, <2>4, <3>2
      <3> QED BY <3>1, <3>3
    <2>7. Cut(path) = SubSeq(path, 1, i) /\ Cut(longer) = SubSeq(longer, 1, i)
      BY <2>5, <2>6 DEF Cut
    <2>8. SubSeq(longer, 1, i) = SubSeq(path, 1, i)
      <3>1. /\ SubSeq(path, 1, i) = [n \in 1 .. i |-> path[n]]
            /\ SubSeq(longer, 1, i) = [n \in 1 .. i |-> longer[n]]
        <4>1. i \in 1 .. Len(longer) /\ path \in Seq(Tokens) /\ longer \in Seq(Tokens)
          BY <1>2, <2>3 DEF Paths
        <4> QED BY <2>3, <4>1, SubSeqFromFirst
      <3>2. \A n \in 1 .. i : longer[n] = path[n]
        BY <1>2, <2>3
      <3> QED BY <3>1, <3>2
    <2> QED BY <2>7, <2>8
  <1>5. ASSUME Sensitive(path) = {}, Secret(token) PROVE Cut(longer) = longer
    <2>1. Sensitive(longer) = {Len(longer)} /\ Len(longer) \in Nat
      BY <1>2, <1>3, <1>5
    <2>2. (CHOOSE n \in Sensitive(longer) : \A m \in Sensitive(longer) : n <= m) = Len(longer)
      <3>1. PICK n : n = CHOOSE x \in Sensitive(longer) : \A m \in Sensitive(longer) : x <= m
        OBVIOUS
      <3>2. Len(longer) \in Sensitive(longer) /\ \A m \in Sensitive(longer) : Len(longer) <= m
        BY <2>1
      <3>3. n \in Sensitive(longer)
        BY <3>1, <3>2
      <3> QED BY <2>1, <3>1, <3>3
    <2>3. Cut(longer) = SubSeq(longer, 1, Len(longer))
      BY <2>2 DEF Cut
    <2>4. SubSeq(longer, 1, Len(longer)) = longer
      BY <1>2, SubSeqFull DEF Paths
    <2> QED BY <2>3, <2>4
  <1> QED BY <1>1, <1>4, <1>5

(* What the redaction keeps of a pair on any level.                           *)
Redacted(p) ==
    IF Sensitive(p[1]) = {} THEN <<p[1], redactValue[p[2]]>> ELSE <<Cut(p[1]), Masked>>

(* What a value of JSON is, and what its parts are.                           *)
LEMMA JSONMeans ==
    ASSUME NEW u \in JSON
    PROVE  /\ IsValue(u, JSON)
           /\ \A s \in Steps(u) : Child(u, s) \in JSON /\ <<u.kind, s>> \in Tokens
  <1>1. PICK e \in 1 .. MaxDepth : IsValue(u, Below(e))
    <2>1. MaxDepth \in 0 .. MaxDepth /\ MaxDepth \in Nat
      BY NestedAssumption
    <2> QED BY <2>1, BelowMeans DEF JSON
  <1>2. Below(e) \subseteq JSON
    <2>1. e \in Nat /\ MaxDepth + 1 \in Nat /\ e <= MaxDepth + 1
      BY NestedAssumption
    <2> QED BY <2>1, BelowGrows DEF JSON
  <1>3. IsValue(u, JSON)
    BY <1>1, <1>2, IsValueGrows
  <1>4. ASSUME NEW s \in Steps(u) PROVE Child(u, s) \in JSON /\ <<u.kind, s>> \in Tokens
    <2>1. u.kind \in {"object", "array"} /\ s \in UNION {Steps(w) : w \in JSON}
      BY DEF Steps
    <2>2. <<u.kind, s>> \in Tokens
      BY <2>1 DEF Tokens
    <2>3. CASE u.kind = "object"
      <3>1. u.members \in [DOMAIN u.members -> JSON]
        BY <1>3, <2>3 DEF IsValue
      <3> QED BY <2>2, <2>3, <3>1 DEF Steps, Child
    <2>4. CASE u.kind = "array"
      <3>1. u.items \in Seq(JSON)
        BY <1>3, <2>4 DEF IsValue
      <3> QED BY <2>2, <2>4, <3>1 DEF Steps, Child
    <2> QED BY <2>1, <2>3, <2>4
  <1> QED BY <1>3, <1>4

(* redactValue, by the kinds: the same steps, and the parts redacted or,      *)
(* under a sensitive key, masked.                                             *)
LEMMA RedactedMeans ==
    ASSUME NEW u \in JSON
    PROVE  /\ redactValue[u].kind = u.kind
           /\ Steps(redactValue[u]) = Steps(u)
           /\ \A s \in Steps(u) :
                 Child(redactValue[u], s)
                   = IF Secret(<<u.kind, s>>) THEN Masked ELSE redactValue[Child(u, s)]
           /\ Steps(u) = {} => redactValue[u] = IF u.kind = "string" THEN Redact(u) ELSE u
  <1> DEFINE f == redactValue
  <1>1. PICK r : r = f[u]
    OBVIOUS
  <1>2. r = Rewritten(f, u)
    BY <1>1, redactValueMeans
  <1>3. IsValue(u, JSON)
    BY JSONMeans
  <1> HIDE DEF f
  <1> SUFFICES /\ r.kind = u.kind
               /\ Steps(r) = Steps(u)
               /\ \A s \in Steps(u) :
                     Child(r, s) = IF Secret(<<u.kind, s>>) THEN Masked ELSE f[Child(u, s)]
               /\ Steps(u) = {} => r = IF u.kind = "string" THEN Redact(u) ELSE u
    BY <1>1 DEF f
  <1>4. CASE u.kind = "object"
    <2>1. u = [kind |-> "object", members |-> u.members]
      BY <1>3, <1>4 DEF IsValue
    <2>2. u.members = [k \in DOMAIN u.members |-> u.members[k]]
      <3>1. u.members \in [DOMAIN u.members -> JSON]
        BY <1>3, <1>4 DEF IsValue
      <3> QED BY <3>1
    <2>3. PICK members : members = u.members
      OBVIOUS
    <2>4. r = [kind |-> "object", members |-> redactMembers(f, members)]
      <3>1. r = [u EXCEPT !.members = redactMembers(f, u.members)]
        BY <1>2, <1>4 DEF Rewritten
      <3> QED BY <2>1, <2>3, <3>1
    <2>5. redactMembers(f, members)
            = [k \in DOMAIN members |-> IF sensitiveKey(k) THEN Masked ELSE f[members[k]]]
      BY DEF redactMembers
    <2>6. Steps(r) = DOMAIN members /\ Steps(u) = DOMAIN members
      BY <1>4, <2>3, <2>4, <2>5 DEF Steps
    <2>7. \A s \in DOMAIN members :
             Child(r, s) = IF Secret(<<u.kind, s>>) THEN Masked ELSE f[Child(u, s)]
      <3> TAKE s \in DOMAIN members
      <3>1. Child(r, s) = IF sensitiveKey(s) THEN Masked ELSE f[members[s]]
        BY <2>4, <2>5 DEF Child
      <3>2. Child(u, s) = members[s]
        BY <1>4, <2>3 DEF Child
      <3>3. Secret(<<u.kind, s>>) <=> sensitiveKey(s)
        BY <1>4 DEF Secret
      <3> QED BY <3>1, <3>2, <3>3
    <2>8. ASSUME DOMAIN members = {} PROVE r = u
      <3>1. redactMembers(f, members) = [k \in {} |-> members[k]]
        BY <2>5, <2>8
      <3>2. members = [k \in {} |-> members[k]]
        BY <2>2, <2>3, <2>8
      <3> QED BY <2>1, <2>3, <2>4, <3>1, <3>2
    <2> QED BY <1>4, <2>4, <2>6, <2>7, <2>8
  <1>5. CASE u.kind = "array"
    <2>1. u = [kind |-> "array", items |-> u.items] /\ u.items \in Seq(JSON)
      BY <1>3, <1>5 DEF IsValue
    <2>2. PICK items : items = u.items
      OBVIOUS
    <2>3. items = [i \in DOMAIN items |-> items[i]]
      BY <2>1, <2>2
    <2>4. r = [kind |-> "array", items |-> [i \in DOMAIN items |-> f[items[i]]]]
      <3>1. r = [u EXCEPT !.items = [i \in DOMAIN u.items |-> f[u.items[i]]]]
        BY <1>2, <1>5 DEF Rewritten
      <3> QED BY <2>1, <2>2, <3>1
    <2>5. Steps(r) = DOMAIN items /\ Steps(u) = DOMAIN items
      BY <1>5, <2>2, <2>4 DEF Steps
    <2>6. \A s \in DOMAIN items :
             Child(r, s) = IF Secret(<<u.kind, s>>) THEN Masked ELSE f[Child(u, s)]
      <3> TAKE s \in DOMAIN items
      <3>1. Child(r, s) = f[items[s]]
        BY <2>4 DEF Child
      <3>2. Child(u, s) = items[s] /\ ~Secret(<<u.kind, s>>)
        BY <1>5, <2>2 DEF Child, Secret
      <3> QED BY <3>1, <3>2
    <2>7. ASSUME DOMAIN items = {} PROVE r = u
      <3>1. [i \in DOMAIN items |-> f[items[i]]] = [i \in {} |-> items[i]]
        BY <2>7
      <3>2. items = [i \in {} |-> items[i]]
        BY <2>3, <2>7
      <3> QED BY <2>1, <2>2, <2>4, <3>1, <3>2
    <2> QED BY <1>5, <2>4, <2>5, <2>6, <2>7
  <1>6. CASE u.kind = "string"
    <2>1. u \in [kind : {"string"}, shapes : SUBSET Shape, masked : BOOLEAN]
      BY <1>3, <1>6 DEF IsValue
    <2>2. r = Redact(u) /\ r.kind = "string"
      BY <1>2, <1>6, <2>1 DEF Rewritten, Redact
    <2> QED BY <1>6, <2>2 DEF Steps
  <1>7. CASE u.kind \in {"number", "scalar"}
    <2>1. r = u
      BY <1>2, <1>7 DEF Rewritten
    <2> QED BY <1>7, <2>1 DEF Steps
  <1> QED BY <1>3, <1>4, <1>5, <1>6, <1>7 DEF IsValue

(* Going down a level and redacting may be done in either order.              *)
LEMMA UnderRedacted ==
    ASSUME NEW path \in Paths, NEW u \in JSON
    PROVE  Under(Redacted(<<path, u>>)) = {Redacted(q) : q \in Under(<<path, u>>)}
  <1> DEFINE p == <<path, u>>
             token(s) == <<u.kind, s>>
             part(s) == <<Append(path, token(s)), Child(u, s)>>
  <1>1. Under(p) = IF Steps(u) = {} THEN {p} ELSE {part(s) : s \in Steps(u)}
    BY DEF Under
  <1>2. CASE Sensitive(path) # {}
    <2>1. Redacted(p) = <<Cut(path), Masked>>
      BY <1>2 DEF Redacted
    <2>2. Steps(Masked) = {}
      BY DEF Steps, Masked
    <2>3. Under(Redacted(p)) = {<<Cut(path), Masked>>}
      BY <2>1, <2>2 DEF Under
    <2>4. ASSUME NEW s \in Steps(u) PROVE Redacted(part(s)) = <<Cut(path), Masked>>
      <3>1. token(s) \in Tokens
        BY JSONMeans
      <3>2. PICK longer : longer = Append(path, token(s))
        OBVIOUS
      <3>3. Sensitive(longer) # {} /\ Cut(longer) = Cut(path)
        BY <1>2, <3>1, <3>2, SensitiveAppend, CutAppend
      <3> QED BY <3>2, <3>3 DEF Redacted
    <2> HIDE DEF part
    <2>5. CASE Steps(u) = {}
      BY <1>1, <2>1, <2>3, <2>5
    <2>6. CASE Steps(u) # {}
      <3>1. {Redacted(q) : q \in {part(s) : s \in Steps(u)}} = {<<Cut(path), Masked>>}
        BY <2>4, <2>6
      <3> QED BY <1>1, <2>3, <2>6, <3>1
    <2> QED BY <2>5, <2>6
  <1>3. CASE Sensitive(path) = {}
    <2> DEFINE r == redactValue[u]
               kept(s) == <<Append(path, token(s)), Child(r, s)>>
    <2>1. Redacted(p) = <<path, r>>
      BY <1>3 DEF Redacted
    <2>2. r.kind = u.kind /\ Steps(r) = Steps(u)
      BY RedactedMeans
    <2>3. Under(Redacted(p)) = IF Steps(u) = {} THEN {Redacted(p)} ELSE {kept(s) : s \in Steps(u)}
      <3> HIDE DEF r
      <3> DEFINE down(s) == <<Append(path, <<r.kind, s>>), Child(r, s)>>
      <3>1. Under(<<path, r>>) = IF Steps(r) = {} THEN {<<path, r>>} ELSE {down(s) : s \in Steps(r)}
        BY DEF Under
      <3>2. \A s : down(s) = kept(s)
        BY <2>2
      <3> HIDE DEF down, kept
      <3>3. {down(s) : s \in Steps(r)} = {kept(s) : s \in Steps(u)}
        BY <2>2, <3>2
      <3> QED BY <2>1, <2>2, <3>1, <3>3
    <2>4. ASSUME NEW s \in Steps(u) PROVE Redacted(part(s)) = kept(s)
      <3>1. token(s) \in Tokens /\ Child(u, s) \in JSON
        BY JSONMeans
      <3>2. Child(r, s) = IF Secret(token(s)) THEN Masked ELSE redactValue[Child(u, s)]
        BY RedactedMeans
      <3>3. PICK longer : longer = Append(path, token(s))
        OBVIOUS
      <3>4. Sensitive(longer) = (IF Secret(token(s)) THEN {Len(path) + 1} ELSE {})
        BY <1>3, <3>1, <3>3, SensitiveAppend
      <3>5. CASE Secret(token(s))
        <4>1. Cut(longer) = longer
          BY <1>3, <3>1, <3>3, <3>5, CutAppend
        <4>2. Sensitive(longer) # {}
          BY <3>4, <3>5
        <4> QED BY <3>2, <3>3, <3>5, <4>1, <4>2 DEF Redacted
      <3>6. CASE ~Secret(token(s))
        <4>1. Sensitive(longer) = {}
          BY <3>4, <3>6
        <4> QED BY <3>2, <3>3, <3>6, <4>1 DEF Redacted
      <3> QED BY <3>5, <3>6
    <2> HIDE DEF part, kept
    <2>5. CASE Steps(u) = {}
      BY <1>1, <2>3, <2>5
    <2>6. CASE Steps(u) # {}
      <3>1. {Redacted(q) : q \in {part(s) : s \in Steps(u)}} = {kept(s) : s \in Steps(u)}
        BY <2>4
      <3> QED BY <1>1, <2>3, <2>6, <3>1
    <2> QED BY <2>5, <2>6
  <1> QED BY <1>2, <1>3

(* A pair of the level n: its value is a leaf, or n levels less deep.         *)
OnLevel(n, p) ==
    \E path \in Paths, u \in JSON :
        p = <<path, u>> /\ (Steps(u) = {} \/ u \in Below(MaxDepth + 1 - n))

LEMMA UnderOnLevel ==
    ASSUME NEW n \in Nat, n < MaxDepth, NEW p, OnLevel(n, p), NEW q \in Under(p)
    PROVE  OnLevel(n + 1, q)
  <1>1. PICK path \in Paths, u \in JSON :
             p = <<path, u>> /\ (Steps(u) = {} \/ u \in Below(MaxDepth + 1 - n))
    BY DEF OnLevel
  <1>2. CASE Steps(u) = {}
    <2>1. q = p
      BY <1>1, <1>2 DEF Under
    <2> QED BY <1>1, <1>2, <2>1 DEF OnLevel
  <1>3. CASE Steps(u) # {}
    <2>1. PICK d : d = MaxDepth - n
      OBVIOUS
    <2>2. d \in 0 .. MaxDepth /\ d + 1 = MaxDepth + 1 - n /\ d = MaxDepth + 1 - (n + 1)
      BY <2>1, NestedAssumption
    <2>3. u \in Below(d + 1)
      BY <1>1, <1>3, <2>2
    <2>4. PICK e \in 1 .. d : IsValue(u, Below(e))
      BY <2>2, <2>3, BelowMeans
    <2>5. Below(e) \subseteq Below(d)
      BY <2>2, BelowGrows
    <2>6. PICK s \in Steps(u) : q = <<Append(path, <<u.kind, s>>), Child(u, s)>>
      BY <1>1, <1>3 DEF Under
    <2>7. Child(u, s) \in Below(e)
      <3>1. CASE u.kind = "object"
        <4>1. u.members \in [DOMAIN u.members -> Below(e)]
          BY <2>4, <3>1 DEF IsValue
        <4> QED BY <3>1, <4>1 DEF Steps, Child
      <3>2. CASE u.kind = "array"
        <4>1. u.items \in Seq(Below(e))
          BY <2>4, <3>2 DEF IsValue
        <4> QED BY <3>2, <4>1 DEF Steps, Child
      <3>3. u.kind \in {"object", "array"}
        BY <1>3 DEF Steps
      <3> QED BY <3>1, <3>2, <3>3
    <2>8. Child(u, s) \in JSON /\ <<u.kind, s>> \in Tokens
      BY JSONMeans
    <2>9. Append(path, <<u.kind, s>>) \in Paths
      BY <2>8, SensitiveAppend
    <2>10. Child(u, s) \in Below(MaxDepth + 1 - (n + 1))
      BY <2>2, <2>5, <2>7
    <2> QED BY <2>6, <2>8, <2>9, <2>10 DEF OnLevel
  <1> QED BY <1>2, <1>3

(* On the last level all pairs are leaves, and the redaction keeps of them    *)
(* what Kept says.                                                            *)
LEMMA LeafRedacted ==
    ASSUME NEW p, OnLevel(MaxDepth, p)
    PROVE  /\ Redacted(p) = Kept(p)
           /\ Kept(p)[2].kind = "string" => Kept(p)[2].shapes = {}
  <1>1. PICK path \in Paths, u \in JSON :
             p = <<path, u>> /\ (Steps(u) = {} \/ u \in Below(MaxDepth + 1 - MaxDepth))
    BY DEF OnLevel
  <1>2. Steps(u) = {}
    <2>1. Below(1) = {}
      BY DEF Below
    <2>2. MaxDepth + 1 - MaxDepth = 1
      BY NestedAssumption
    <2> QED BY <1>1, <2>1, <2>2
  <1>3. redactValue[u] = IF u.kind = "string" THEN Redact(u) ELSE u
    BY <1>2, RedactedMeans
  <1>4. p[1] = path /\ p[2] = u
    BY <1>1
  <1>5. CASE Sensitive(path) # {}
    <2>1. Redacted(p) = <<Cut(path), Masked>>
      BY <1>4, <1>5 DEF Redacted
    <2>2. Kept(p) = <<Cut(path), Masked>>
      BY <1>4, <1>5 DEF Kept, Cut
    <2>3. PICK cut : cut = Cut(path)
      OBVIOUS
    <2>4. Kept(p)[2] = Masked
      BY <2>2, <2>3
    <2> QED BY <2>1, <2>2, <2>4 DEF Masked
  <1>6. CASE Sensitive(path) = {}
    <2>1. PICK w : w = IF u.kind = "string" THEN Redact(u) ELSE u
      OBVIOUS
    <2>2. Redacted(p) = <<path, w>>
      BY <1>3, <1>4, <1>6, <2>1 DEF Redacted
    <2>3. Kept(p) = <<path, w>>
      BY <1>4, <1>6, <2>1 DEF Kept
    <2>4. ASSUME w.kind = "string" PROVE w.shapes = {}
      <3>1. CASE u.kind = "string"
        <4>1. u \in [kind : {"string"}, shapes : SUBSET Shape, masked : BOOLEAN]
          BY <3>1, JSONMeans DEF IsValue
        <4>2. w = Redact(u)
          BY <2>1, <3>1
        <4> QED BY <4>1, <4>2 DEF Redact
      <3>2. CASE u.kind # "string"
        BY <2>1, <2>4, <3>2
      <3> QED BY <3>1, <3>2
    <2> QED BY <2>2, <2>3, <2>4
  <1> QED BY <1>5, <1>6

LEMMA LeavesRedacted ==
    ASSUME NEW v \in JSON
    PROVE  /\ Leaves(redactValue[v]) = {Kept(leaf) : leaf \in Leaves(v)}
           /\ \A leaf \in Leaves(redactValue[v]) : leaf[2].kind = "string" => leaf[2].shapes = {}
  <1>1. PICK given : /\ given[0] = {<< <<>>, v >>}
                     /\ \A n \in Nat : n < MaxDepth => given[n + 1] = Level(given[n])
                     /\ Leaves(v) = given[MaxDepth]
    BY LeavesMeans
  <1>2. PICK stored : /\ stored[0] = {<< <<>>, redactValue[v] >>}
                      /\ \A n \in Nat : n < MaxDepth => stored[n + 1] = Level(stored[n])
                      /\ Leaves(redactValue[v]) = stored[MaxDepth]
    BY LeavesMeans
  <1> DEFINE Same(n) == /\ stored[n] = {Redacted(p) : p \in given[n]}
                        /\ \A p \in given[n] : OnLevel(n, p)
             T == {n \in Nat : n <= MaxDepth => Same(n)}
  <1>3. 0 \in T
    <2>1. PICK none : none = <<>>
      OBVIOUS
    <2>2. Sensitive(none) = {} /\ none \in Paths
      BY <2>1, NothingSensitive
    <2>3. Redacted(<<none, v>>) = <<none, redactValue[v]>>
      BY <2>2 DEF Redacted
    <2>4. given[0] = {<<none, v>>} /\ stored[0] = {<<none, redactValue[v]>>}
      BY <1>1, <1>2, <2>1
    <2>5. v \in Below(MaxDepth + 1 - 0)
      <3>1. MaxDepth + 1 - 0 = MaxDepth + 1
        BY NestedAssumption
      <3> QED BY <3>1 DEF JSON
    <2>6. OnLevel(0, <<none, v>>)
      BY <2>2, <2>5 DEF OnLevel
    <2>7. {Redacted(p) : p \in given[0]} = {Redacted(<<none, v>>)}
      BY <2>4
    <2> QED BY <2>3, <2>4, <2>6, <2>7
  <1>4. ASSUME NEW n \in Nat, n \in T PROVE n + 1 \in T
    <2> SUFFICES ASSUME n + 1 <= MaxDepth PROVE Same(n + 1)
      OBVIOUS
    <2>1. n < MaxDepth /\ n <= MaxDepth
      BY NestedAssumption
    <2>2. Same(n)
      BY <1>4, <2>1
    <2>3. given[n + 1] = UNION {Under(p) : p \in given[n]}
      BY <1>1, <2>1, LevelMeans
    <2>4. stored[n + 1] = UNION {Under(r) : r \in stored[n]}
      BY <1>2, <2>1, LevelMeans
    <2>5. \A p \in given[n] : Under(Redacted(p)) = {Redacted(q) : q \in Under(p)}
      <3> TAKE p \in given[n]
      <3>1. PICK path \in Paths, u \in JSON : p = <<path, u>>
        BY <2>2 DEF OnLevel
      <3> QED BY <3>1, UnderRedacted
    <2>6. stored[n + 1] = {Redacted(q) : q \in given[n + 1]}
      BY <2>2, <2>3, <2>4, <2>5
    <2>7. \A q \in given[n + 1] : OnLevel(n + 1, q)
      BY <2>1, <2>2, <2>3, UnderOnLevel
    <2> QED BY <2>6, <2>7
  <1>5. Nat \subseteq T
    <2> HIDE DEF T
    <2> QED BY <1>3, <1>4, Induction
  <1>6. Same(MaxDepth)
    <2>1. MaxDepth \in Nat /\ MaxDepth <= MaxDepth
      BY NestedAssumption
    <2> QED BY <1>5, <2>1
  <1>7. \A p \in given[MaxDepth] :
           Redacted(p) = Kept(p) /\ (Kept(p)[2].kind = "string" => Kept(p)[2].shapes = {})
    BY <1>6, LeafRedacted
  <1>8. {Redacted(p) : p \in given[MaxDepth]} = {Kept(p) : p \in given[MaxDepth]}
    BY <1>7
  <1> QED BY <1>1, <1>2, <1>6, <1>7, <1>8

-----------------------------------------------------------------------------
(* Unmarshal, by the kinds: it fails where a part fails, and else has the     *)
(* same steps, to the parts decoded.                                          *)
LEMMA DecodedMeans ==
    ASSUME NEW u \in JSON
    PROVE  /\ Unmarshal[u] = Undecodable <=>
                 \/ \E s \in Steps(u) : Unmarshal[Child(u, s)] = Undecodable
                 \/ u.kind = "number" /\ Float64[u.value] = OutOfRange
           /\ Unmarshal[u] # Undecodable =>
                 /\ Unmarshal[u].kind = u.kind
                 /\ Steps(Unmarshal[u]) = Steps(u)
                 /\ \A s \in Steps(u) : Child(Unmarshal[u], s) = Unmarshal[Child(u, s)]
                 /\ Steps(u) = {} =>
                       Unmarshal[u] = IF u.kind = "number" THEN Number(Float64[u.value]) ELSE u
  <1> DEFINE f == Unmarshal
  <1>1. PICK r : r = f[u]
    OBVIOUS
  <1>2. r = Unmarshaled(f, u)
    BY <1>1, UnmarshalMeans
  <1>3. IsValue(u, JSON)
    BY JSONMeans
  <1> HIDE DEF f
  <1> SUFFICES /\ r = Undecodable <=>
                     \/ \E s \in Steps(u) : f[Child(u, s)] = Undecodable
                     \/ u.kind = "number" /\ Float64[u.value] = OutOfRange
               /\ r # Undecodable =>
                     /\ r.kind = u.kind
                     /\ Steps(r) = Steps(u)
                     /\ \A s \in Steps(u) : Child(r, s) = f[Child(u, s)]
                     /\ Steps(u) = {} =>
                           r = IF u.kind = "number" THEN Number(Float64[u.value]) ELSE u
    BY <1>1 DEF f
  <1>4. CASE u.kind = "object"
    <2>1. PICK members : members = u.members
      OBVIOUS
    <2>2. u = [kind |-> "object", members |-> members]
      BY <1>3, <1>4, <2>1 DEF IsValue
    <2>3. members = [k \in DOMAIN members |-> members[k]]
      <3>1. members \in [DOMAIN members -> JSON]
        BY <1>3, <1>4, <2>1 DEF IsValue
      <3> QED BY <3>1
    <2>4. PICK parts : parts = [k \in DOMAIN members |-> f[members[k]]]
      OBVIOUS
    <2>5. DOMAIN parts = DOMAIN members /\ \A k \in DOMAIN members : parts[k] = f[members[k]]
      BY <2>4
    <2>6. r = IF \E k \in DOMAIN parts : parts[k] = Undecodable THEN Undecodable
              ELSE [kind |-> "object", members |-> parts]
      <3>1. r = IF \E k \in DOMAIN parts : parts[k] = Undecodable THEN Undecodable
                ELSE [u EXCEPT !.members = parts]
        BY <1>2, <1>4, <2>1, <2>4 DEF Unmarshaled
      <3> QED BY <2>2, <3>1
    <2>7. Steps(u) = DOMAIN members /\ \A s \in DOMAIN members : Child(u, s) = members[s]
      BY <1>4, <2>1 DEF Steps, Child
    <2>8. [kind |-> "object", members |-> parts] # Undecodable
      BY DEF Undecodable
    <2>9. r = Undecodable <=> \E s \in Steps(u) : f[Child(u, s)] = Undecodable
      BY <2>5, <2>6, <2>7, <2>8
    <2>10. ASSUME r # Undecodable
           PROVE  /\ r.kind = u.kind /\ Steps(r) = Steps(u)
                  /\ \A s \in Steps(u) : Child(r, s) = f[Child(u, s)]
      <3>1. r = [kind |-> "object", members |-> parts]
        BY <2>6, <2>10
      <3>2. Steps(r) = DOMAIN parts /\ \A s : Child(r, s) = parts[s]
        BY <3>1 DEF Steps, Child
      <3> QED BY <1>4, <2>5, <2>7, <3>1, <3>2
    <2>11. ASSUME r # Undecodable, Steps(u) = {} PROVE r = u
      <3>1. r = [kind |-> "object", members |-> parts]
        BY <2>6, <2>11
      <3>2. parts = [k \in {} |-> members[k]]
        BY <2>4, <2>7, <2>11
      <3>3. members = [k \in {} |-> members[k]]
        BY <2>3, <2>7, <2>11
      <3> QED BY <2>2, <3>1, <3>2, <3>3
    <2> QED BY <1>4, <2>9, <2>10, <2>11
  <1>5. CASE u.kind = "array"
    <2>1. PICK items : items = u.items
      OBVIOUS
    <2>2. u = [kind |-> "array", items |-> items] /\ items \in Seq(JSON)
      BY <1>3, <1>5, <2>1 DEF IsValue
    <2>3. items = [i \in DOMAIN items |-> items[i]]
      BY <2>2
    <2>4. PICK parts : parts = [i \in DOMAIN items |-> f[items[i]]]
      OBVIOUS
    <2>5. DOMAIN parts = DOMAIN items /\ \A i \in DOMAIN items : parts[i] = f[items[i]]
      BY <2>4
    <2>6. r = IF \E i \in DOMAIN parts : parts[i] = Undecodable THEN Undecodable
              ELSE [kind |-> "array", items |-> parts]
      <3>1. r = IF \E i \in DOMAIN parts : parts[i] = Undecodable THEN Undecodable
                ELSE [u EXCEPT !.items = parts]
        BY <1>2, <1>5, <2>1, <2>4 DEF Unmarshaled
      <3> QED BY <2>2, <3>1
    <2>7. Steps(u) = DOMAIN items /\ \A s \in DOMAIN items : Child(u, s) = items[s]
      BY <1>5, <2>1 DEF Steps, Child
    <2>8. [kind |-> "array", items |-> parts] # Undecodable
      BY DEF Undecodable
    <2>9. r = Undecodable <=> \E s \in Steps(u) : f[Child(u, s)] = Undecodable
      BY <2>5, <2>6, <2>7, <2>8
    <2>10. ASSUME r # Undecodable
           PROVE  /\ r.kind = u.kind /\ Steps(r) = Steps(u)
                  /\ \A s \in Steps(u) : Child(r, s) = f[Child(u, s)]
      <3>1. r = [kind |-> "array", items |-> parts]
        BY <2>6, <2>10
      <3>2. Steps(r) = DOMAIN parts /\ \A s : Child(r, s) = parts[s]
        BY <3>1 DEF Steps, Child
      <3> QED BY <1>5, <2>5, <2>7, <3>1, <3>2
    <2>11. ASSUME r # Undecodable, Steps(u) = {} PROVE r = u
      <3>1. r = [kind |-> "array", items |-> parts]
        BY <2>6, <2>11
      <3>2. parts = [i \in {} |-> items[i]]
        BY <2>4, <2>7, <2>11
      <3>3. items = [i \in {} |-> items[i]]
        BY <2>3, <2>7, <2>11
      <3> QED BY <2>2, <3>1, <3>2, <3>3
    <2> QED BY <1>5, <2>9, <2>10, <2>11
  <1>6. CASE u.kind = "number"
    <2>1. r = IF Float64[u.value] = OutOfRange THEN Undecodable ELSE Number(Float64[u.value])
      BY <1>2, <1>6 DEF Unmarshaled
    <2>2. PICK x : x = Float64[u.value]
      OBVIOUS
    <2>3. Number(x).kind = "number" /\ Number(x) # Undecodable /\ Steps(Number(x)) = {}
      BY DEF Number, Undecodable, Steps
    <2> QED BY <1>6, <2>1, <2>2, <2>3 DEF Steps
  <1>7. CASE u.kind \in {"string", "scalar"}
    <2>1. r = u
      BY <1>2, <1>7 DEF Unmarshaled
    <2>2. u # Undecodable
      BY <1>7 DEF Undecodable
    <2> QED BY <1>7, <2>1, <2>2 DEF Steps
  <1> QED BY <1>3, <1>4, <1>5, <1>6, <1>7 DEF IsValue

(* Going down a level and decoding may be done in either order, and what      *)
(* fails is there on every level.                                             *)
Decoded(p) == <<p[1], Unmarshal[p[2]]>>
Fails(p) == Unmarshal[p[2]] = Undecodable

LEMMA UnderDecoded ==
    ASSUME NEW path, NEW u \in JSON
    PROVE  /\ Fails(<<path, u>>) <=> \E q \in Under(<<path, u>>) : Fails(q)
           /\ ~Fails(<<path, u>>) =>
                 Under(Decoded(<<path, u>>)) = {Decoded(q) : q \in Under(<<path, u>>)}
  <1> DEFINE p == <<path, u>>
             part(s) == <<Append(path, <<u.kind, s>>), Child(u, s)>>
  <1>1. Under(p) = IF Steps(u) = {} THEN {p} ELSE {part(s) : s \in Steps(u)}
    BY DEF Under
  <1>2. Fails(p) <=> Unmarshal[u] = Undecodable
    BY DEF Fails
  <1>3. \A s \in Steps(u) : Fails(part(s)) <=> Unmarshal[Child(u, s)] = Undecodable
    BY DEF Fails
  <1>4. Fails(p) <=> \E q \in Under(p) : Fails(q)
    <2>1. CASE Steps(u) = {}
      BY <1>1, <2>1
    <2>2. CASE Steps(u) # {}
      <3>1. u.kind # "number"
        BY <2>2 DEF Steps
      <3>2. Fails(p) <=> \E s \in Steps(u) : Fails(part(s))
        BY <1>2, <1>3, <3>1, DecodedMeans
      <3> HIDE DEF part
      <3> QED BY <1>1, <2>2, <3>2
    <2> QED BY <2>1, <2>2
  <1>5. ASSUME ~Fails(p) PROVE Under(Decoded(p)) = {Decoded(q) : q \in Under(p)}
    <2>1. PICK r : r = Unmarshal[u]
      OBVIOUS
    <2>2. r # Undecodable
      BY <1>2, <1>5, <2>1
    <2>3. r.kind = u.kind /\ Steps(r) = Steps(u)
      BY <2>1, <2>2, DecodedMeans
    <2>4. \A s \in Steps(u) : Child(r, s) = Unmarshal[Child(u, s)]
      BY <2>1, <2>2, DecodedMeans
    <2>5. Decoded(p) = <<path, r>>
      BY <2>1 DEF Decoded
    <2> DEFINE down(s) == <<Append(path, <<r.kind, s>>), Child(r, s)>>
    <2>6. Under(<<path, r>>) = IF Steps(r) = {} THEN {<<path, r>>} ELSE {down(s) : s \in Steps(r)}
      BY DEF Under
    <2>7. \A s \in Steps(u) : down(s) = Decoded(part(s))
      BY <2>3, <2>4 DEF Decoded
    <2> HIDE DEF down, part
    <2>8. CASE Steps(u) = {}
      BY <1>1, <2>3, <2>5, <2>6, <2>8
    <2>9. CASE Steps(u) # {}
      <3>1. {down(s) : s \in Steps(r)} = {Decoded(part(s)) : s \in Steps(u)}
        BY <2>3, <2>7
      <3>2. {Decoded(q) : q \in {part(s) : s \in Steps(u)}} = {Decoded(part(s)) : s \in Steps(u)}
        OBVIOUS
      <3> QED BY <1>1, <2>3, <2>5, <2>6, <2>9, <3>1, <3>2
    <2> QED BY <2>8, <2>9
  <1> QED BY <1>4, <1>5

(* A payload fails to decode for a leaf that is too large a number, and else  *)
(* has its leaves, with the numbers rounded.                                  *)
LEMMA LeavesDecoded ==
    ASSUME NEW v \in JSON
    PROVE  /\ Unmarshal[v] = Undecodable <=> \E leaf \in Leaves(v) : TooLarge(leaf)
           /\ Unmarshal[v] # Undecodable =>
                 Leaves(Unmarshal[v]) = {Rounded(leaf) : leaf \in Leaves(v)}
  <1>1. PICK given : /\ given[0] = {<< <<>>, v >>}
                     /\ \A n \in Nat : n < MaxDepth => given[n + 1] = Level(given[n])
                     /\ Leaves(v) = given[MaxDepth]
    BY LeavesMeans
  <1>2. PICK decoded : /\ decoded[0] = {<< <<>>, Unmarshal[v] >>}
                       /\ \A n \in Nat : n < MaxDepth => decoded[n + 1] = Level(decoded[n])
                       /\ Leaves(Unmarshal[v]) = decoded[MaxDepth]
    BY LeavesMeans
  <1> DEFINE Fine == Unmarshal[v] # Undecodable
             Same(n) == /\ \A p \in given[n] : OnLevel(n, p)
                        /\ Fine <=> \A p \in given[n] : ~Fails(p)
                        /\ Fine => decoded[n] = {Decoded(p) : p \in given[n]}
             T == {n \in Nat : n <= MaxDepth => Same(n)}
  <1>3. 0 \in T
    <2>1. PICK none : none = <<>>
      OBVIOUS
    <2>2. none \in Paths
      BY <2>1, NothingSensitive
    <2>3. Decoded(<<none, v>>) = <<none, Unmarshal[v]>> /\ (Fails(<<none, v>>) <=> ~Fine)
      BY DEF Decoded, Fails
    <2>4. given[0] = {<<none, v>>} /\ decoded[0] = {<<none, Unmarshal[v]>>}
      BY <1>1, <1>2, <2>1
    <2>5. v \in Below(MaxDepth + 1 - 0)
      <3>1. MaxDepth + 1 - 0 = MaxDepth + 1
        BY NestedAssumption
      <3> QED BY <3>1 DEF JSON
    <2>6. OnLevel(0, <<none, v>>)
      BY <2>2, <2>5 DEF OnLevel
    <2>7. {Decoded(p) : p \in given[0]} = {Decoded(<<none, v>>)}
      BY <2>4
    <2> QED BY <2>3, <2>4, <2>6, <2>7
  <1>4. ASSUME NEW n \in Nat, n \in T PROVE n + 1 \in T
    <2> SUFFICES ASSUME n + 1 <= MaxDepth PROVE Same(n + 1)
      OBVIOUS
    <2>1. n < MaxDepth /\ n <= MaxDepth
      BY NestedAssumption
    <2>2. Same(n)
      BY <1>4, <2>1
    <2>3. given[n + 1] = UNION {Under(p) : p \in given[n]}
      BY <1>1, <2>1, LevelMeans
    <2>4. decoded[n + 1] = UNION {Under(r) : r \in decoded[n]}
      BY <1>2, <2>1, LevelMeans
    <2>5. \A p \in given[n] :
             /\ Fails(p) <=> \E q \in Under(p) : Fails(q)
             /\ ~Fails(p) => Under(Decoded(p)) = {Decoded(q) : q \in Under(p)}
      <3> TAKE p \in given[n]
      <3>1. PICK path \in Paths, u \in JSON : p = <<path, u>>
        BY <2>2 DEF OnLevel
      <3> QED BY <3>1, UnderDecoded
    <2>6. Fine <=> \A q \in given[n + 1] : ~Fails(q)
      BY <2>2, <2>3, <2>5
    <2>7. ASSUME Fine PROVE decoded[n + 1] = {Decoded(q) : q \in given[n + 1]}
      <3>1. \A p \in given[n] : ~Fails(p)
        BY <2>2, <2>7
      <3> QED BY <2>2, <2>3, <2>4, <2>5, <2>7, <3>1
    <2>8. \A q \in given[n + 1] : OnLevel(n + 1, q)
      BY <2>1, <2>2, <2>3, UnderOnLevel
    <2> QED BY <2>6, <2>7, <2>8
  <1>5. Nat \subseteq T
    <2> HIDE DEF T
    <2> QED BY <1>3, <1>4, Induction
  <1>6. Same(MaxDepth)
    <2>1. MaxDepth \in Nat /\ MaxDepth <= MaxDepth
      BY NestedAssumption
    <2> QED BY <1>5, <2>1
  <1>7. ASSUME NEW p \in given[MaxDepth]
        PROVE  /\ Fails(p) <=> TooLarge(p)
               /\ ~Fails(p) => Decoded(p) = Rounded(p)
    <2>1. PICK path \in Paths, u \in JSON :
               p = <<path, u>> /\ (Steps(u) = {} \/ u \in Below(MaxDepth + 1 - MaxDepth))
      BY <1>6 DEF OnLevel
    <2>2. Steps(u) = {}
      <3>1. Below(1) = {}
        BY DEF Below
      <3>2. MaxDepth + 1 - MaxDepth = 1
        BY NestedAssumption
      <3> QED BY <2>1, <3>1, <3>2
    <2>3. p[1] = path /\ p[2] = u /\ p = <<path, u>>
      BY <2>1
    <2>4. Fails(p) <=> TooLarge(p)
      BY <2>2, <2>3, DecodedMeans DEF Fails, TooLarge
    <2>5. ASSUME ~Fails(p) PROVE Decoded(p) = Rounded(p)
      <3>1. Unmarshal[u] = IF u.kind = "number" THEN Number(Float64[u.value]) ELSE u
        BY <2>2, <2>3, <2>5, DecodedMeans DEF Fails
      <3> QED BY <2>3, <3>1 DEF Decoded, Rounded
    <2> QED BY <2>4, <2>5
  <1>8. Fine => {Decoded(p) : p \in given[MaxDepth]} = {Rounded(p) : p \in given[MaxDepth]}
    BY <1>6, <1>7
  <1> QED BY <1>1, <1>2, <1>6, <1>7, <1>8

-----------------------------------------------------------------------------
(* The calls.                                                                 *)

(* A call has the document it was given, and its outcome, once there is one,  *)
(* is what the function makes of that document.                               *)
IInv == Given /\ (outcome = Unset \/ outcome = Result)

LEMMA InvariantHolds == Spec => []IInv
  <1>1. Init => IInv
    BY DEF Init, IInv
  <1>2. IInv /\ [Return]_vars => IInv'
    <2> SUFFICES ASSUME IInv, [Return]_vars PROVE IInv'
      OBVIOUS
    <2>1. kind' = kind /\ input' = input
      BY DEF Return, vars
    <2>2. Given' /\ Result' = Result
      BY <2>1 DEF IInv, Given, Result
    <2>3. outcome' = outcome \/ outcome' = Result
      BY DEF Return, vars
    <2> QED BY <2>2, <2>3 DEF IInv
  <1> QED BY <1>1, <1>2, PTL DEF Spec

LEMMA CalledMeans ==
    ASSUME IInv, Called
    PROVE  /\ outcome.kind # "none" <=> Conforms(input)
           /\ ClassTells(outcome, input)
  <1>1. CASE kind = "SendMessage"
    <2>1. input \in Answer(SendResult)
      BY <1>1, DocumentsAssumption DEF IInv, Given
    <2>2. outcome = SendMessage(Sent, input)
      BY <1>1 DEF IInv, Called, Result
    <2>3. Conforms(input) <=> input \in ProperAnswer(ProperSendResult)
      BY <1>1 DEF Conforms
    <2> QED BY <2>1, <2>2, <2>3, SendMessageMeans
  <1>2. CASE kind = "GetTask"
    <2>1. input \in Answer(Task)
      BY <1>2, DocumentsAssumption DEF IInv, Given
    <2>2. outcome = GetTask(Sent, input)
      BY <1>2 DEF IInv, Called, Result
    <2>3. Conforms(input) <=> input \in ProperAnswer(ProperTask)
      BY <1>2 DEF Conforms
    <2> QED BY <2>1, <2>2, <2>3, GetTaskMeans
  <1> QED BY <1>1, <1>2 DEF Called

(* doJSON, decodeStrict, parseSendResult and the validations of client.go     *)
(* hand on exactly the answers to this request that the protocol allows,      *)
(* whatever the peer writes and however many parts its messages have.         *)
THEOREM AnswersAreStrict == Spec => []StrictAnswers
  <1>1. IInv => StrictAnswers
    BY CalledMeans DEF StrictAnswers
  <1> QED BY <1>1, InvariantHolds, PTL

(* The error class of a call, from the first check that fails, tells why.     *)
THEOREM ClassesTellWhy == Spec => []ClassTellsWhy
  <1>1. IInv => ClassTellsWhy
    BY CalledMeans DEF ClassTellsWhy, ClassTells
  <1> QED BY <1>1, InvariantHolds, PTL

(* The loop of AgentCard.Interface stops at the first JSON-RPC 1.0 interface, *)
(* in a list of any length, and CardError says whether it is reached.         *)
THEOREM TheFirstDecides == Spec => []FirstDecides
  <1>1. ASSUME IInv, Returned("discover") PROVE FirstDecides
    <2>1. kind = "discover"
      BY <1>1 DEF Returned
    <2>2. input \in Discovered
      BY <1>1, <2>1, DocumentsAssumption DEF IInv, Given
    <2>3. outcome = runDiscover(input.reach, input.answer, input.card, input.written)
      BY <1>1, <2>1 DEF IInv, Returned, Result
    <2> QED BY <2>2, <2>3, runDiscoverMeans DEF FirstDecides
  <1>2. IInv => FirstDecides
    BY <1>1 DEF FirstDecides
  <1> QED BY <1>2, InvariantHolds, PTL

(* RedactJSON takes what stands under a sensitive key and the credential      *)
(* shapes of every text, on every level of a payload, rounds the numbers, and *)
(* leaves the rest; or it takes everything, for a number that is too large.   *)
THEOREM OnlyCredentialsAreTaken == Spec => []OnlyCredentialsGo
  <1>1. ASSUME IInv, Returned("payload") PROVE OnlyCredentialsGo
    <2>1. kind = "payload"
      BY <1>1 DEF Returned
    <2>2. input \in JSON \cup {NoBytes, NoJSON}
      BY <1>1, <2>1 DEF IInv, Given
    <2>3. outcome = StoredPayload(input)
      BY <1>1, <2>1 DEF IInv, Returned, Result
    <2>4. NoBytes # NoJSON
      BY DEF NoBytes, NoJSON
    <2>5. CASE input = NoBytes
      BY <2>3, <2>4, <2>5 DEF StoredPayload, OnlyCredentialsGo
    <2>6. CASE input = NoJSON
      BY <2>3, <2>4, <2>6 DEF StoredPayload, RedactJSON, OnlyCredentialsGo
    <2>7. CASE input \notin {NoBytes, NoJSON}
      <3>1. input \in JSON
        BY <2>2, <2>7
      <3>2. outcome = IF Unmarshal[input] = Undecodable THEN InvalidPayload
                      ELSE redactValue[Unmarshal[input]]
        BY <2>3, <2>7 DEF StoredPayload, RedactJSON
      <3>3. CASE Unmarshal[input] = Undecodable
        <4>1. \E leaf \in Leaves(input) : TooLarge(leaf)
          BY <3>1, <3>3, LeavesDecoded
        <4> QED BY <2>7, <3>2, <3>3, <4>1 DEF OnlyCredentialsGo
      <3>4. CASE Unmarshal[input] # Undecodable
        <4>1. PICK decoded \in JSON : decoded = Unmarshal[input]
          BY <3>1, <3>4, DecodedAssumption
        <4>2. /\ ~ \E leaf \in Leaves(input) : TooLarge(leaf)
              /\ Leaves(decoded) = {Rounded(leaf) : leaf \in Leaves(input)}
          BY <3>1, <3>4, <4>1, LeavesDecoded
        <4>3. outcome = redactValue[decoded]
          BY <3>2, <3>4, <4>1
        <4>4. /\ Leaves(outcome) = {Kept(leaf) : leaf \in Leaves(decoded)}
              /\ \A leaf \in Leaves(outcome) : leaf[2].kind = "string" => leaf[2].shapes = {}
          BY <4>3, LeavesRedacted
        <4>5. {Kept(leaf) : leaf \in Leaves(decoded)} = {Kept(Rounded(leaf)) : leaf \in Leaves(input)}
          BY <4>2
        <4> QED BY <2>7, <4>2, <4>4, <4>5 DEF OnlyCredentialsGo
      <3> QED BY <3>3, <3>4
    <2> QED BY <2>5, <2>6, <2>7
  <1>2. IInv => OnlyCredentialsGo
    BY <1>1 DEF OnlyCredentialsGo
  <1> QED BY <1>2, InvariantHolds, PTL
=============================================================================
