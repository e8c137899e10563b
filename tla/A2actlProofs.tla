---------------------------- MODULE A2actlProofs ----------------------------
(* Theorems about A2actl, for any number of sends, waits, conversations and   *)
(* peer messages, and whichever of the invocations store.                     *)
EXTENDS A2actl, FiniteSetTheorems, SequenceTheorems, TLAPS

-----------------------------------------------------------------------------
(* The inductive invariant.                                                   *)

(* Where an invocation has left its outcome behind, one way or the other.     *)
Done == {"report", "exited", "crashed"}

(* Each place belongs to one command, and the request of a send goes out      *)
(* after `call`.                                                              *)
PlaceInv ==
    /\ \A p \in Invocation : /\ pc[p] = "finish" => p \in Storing
                             /\ pc[p] \in {"call", "response"} => p \in Sender
                             /\ pc[p] = "poll" => p \in Waiter
    /\ \A p \in Sender : pc[p] \in {"start", "call"} => wire[p] = "none"

(* A task is known from a send that has exited, and a wait polls a known one. *)
KnownInv == \A t \in known : pc[t] = "exited"
TargetInv ==
    \A q \in Waiter :
        \/ target[q] \in known
        \/ /\ target[q] = NoId
           /\ pc[q] \in {"start", "exited", "crashed"}
           /\ exit[q] \notin {ExitOK, ExitCode("task-failed")}

(* A send that has come to its call has its first rows in the store.          *)
StartedInv ==
    \A p \in Sender \cap Storing :
        wire[p] # "none" \/ pc[p] \in {"call", "response", "finish", "report"} =>
            HasMessage(p) /\ HasEvent(p, "send_started")

(* An outcome is recorded at `finish` or never, and storeErr says which; the  *)
(* record of a send fails only with its store.                                *)
OutcomeInv ==
    \A p \in Invocation :
        /\ HasOutcome(p) \/ storeErr[p] => pc[p] \in Done
        /\ ~(HasOutcome(p) /\ storeErr[p])
        /\ pc[p] = "report" /\ p \in Storing => HasOutcome(p) \/ storeErr[p]
        /\ p \in Sender /\ storeErr[p] => p \in faulted

(* The peer answers once; what it accepts it has taken on, and a task it has  *)
(* answered with is a task of that send.                                      *)
AnswerInv ==
    \A p \in Sender :
        /\ tasks[p].state # "none" => wire[p] = "answered"
        /\ wire[p] = "answered" /\ answer[p].err \in {"none", "task-failed"} => p \in handled
        /\ wire[p] = "answered" /\ answer[p].err = "task-failed" => tasks[p].state = "failed"
        /\ answer[p].kind = "task" => answer[p].task = p

(* What a send has from its call is a failure of its own or the answer.       *)
SendResultInv ==
    \A p \in Sender : pc[p] \in {"finish", "report"} =>
        \/ result[p] \in {Failure("usage"), Failure("transport")}
        \/ wire[p] = "answered" /\ result[p] = answer[p]

(* What a wait has from its polls is a failure or the last state of its task, *)
(* and before them nothing.                                                   *)
WaitResultInv ==
    \A q \in Waiter :
        /\ pc[q] = "start" => result[q] = NoResult
        /\ pc[q] \in {"finish", "report"} =>
              /\ result[q].kind = "task" => result[q].task = target[q]
              /\ result[q].err = "none" => tasks[target[q]].state = "completed"
              /\ result[q].err = "task-failed" => tasks[target[q]].state = "failed"

(* Every message id the peer has given belongs to one send, wherever it turns *)
(* up; it is in the store only after that send is past its own record.        *)
Owned(owner) ==
    /\ \A p \in Sender : /\ answer[p].message # NoId =>
                              answer[p].message \in given /\ owner[answer[p].message] = p
                         /\ tasks[p].message # NoId =>
                              tasks[p].message \in given /\ owner[tasks[p].message] = p
                         /\ result[p].message # NoId =>
                              result[p].message \in given /\ owner[result[p].message] = p
    /\ \A q \in Waiter : result[q].message # NoId =>
            result[q].message \in given /\ owner[result[q].message] = target[q]
    /\ \A i \in DOMAIN db.messages : db.messages[i].id \notin Invocation =>
            /\ db.messages[i].id \in given
            /\ pc[owner[db.messages[i].id]] \in Done

OwnerInv == \E owner \in [given -> Sender] : Owned(owner)

IInv == /\ TypeOK /\ PlaceInv /\ KnownInv /\ TargetInv
        /\ StartedInv /\ OutcomeInv /\ UniqueKeys(db)
        /\ AnswerInv /\ SendResultInv /\ WaitResultInv /\ OwnerInv
        /\ OneStory /\ ReplyWithOutcome /\ CompletedMeansHandled
        /\ ExitTellsTruth /\ SendRecordsOutcome

-----------------------------------------------------------------------------
(* What a Record leaves in the tables.                                        *)

(* One row at the end of a table.                                             *)
LEMMA OneMore ==
    ASSUME NEW S, NEW rows \in Seq(S), NEW r \in S
    PROVE  /\ rows \o <<r>> \in Seq(S)
           /\ Len(rows) \in Nat /\ DOMAIN rows = 1 .. Len(rows)
           /\ DOMAIN (rows \o <<r>>) = 1 .. Len(rows) + 1
           /\ \A i \in DOMAIN rows : (rows \o <<r>>)[i] = rows[i]
           /\ (rows \o <<r>>)[Len(rows) + 1] = r
  <1>1. <<r>> \in Seq(S) /\ Len(<<r>>) = 1 /\ <<r>>[1] = r
    OBVIOUS
  <1>2. Len(rows) \in Nat /\ DOMAIN rows = 1 .. Len(rows)
    BY LenProperties
  <1>3. /\ rows \o <<r>> \in Seq(S)
        /\ Len(rows \o <<r>>) = Len(rows) + 1
        /\ \A i \in 1 .. Len(rows) + 1 :
              (rows \o <<r>>)[i] = IF i <= Len(rows) THEN rows[i] ELSE <<r>>[i - Len(rows)]
    BY <1>1, ConcatProperties
  <1>4. DOMAIN (rows \o <<r>>) = 1 .. Len(rows) + 1
    BY <1>3, LenProperties
  <1>5. ASSUME NEW i \in DOMAIN rows PROVE (rows \o <<r>>)[i] = rows[i]
    BY <1>2, <1>3
  <1>6. (rows \o <<r>>)[Len(rows) + 1] = r
    <2>1. /\ Len(rows) + 1 \in 1 .. Len(rows) + 1 /\ ~(Len(rows) + 1 <= Len(rows))
          /\ Len(rows) + 1 - Len(rows) = 1
      BY <1>2
    <2> QED BY <1>1, <1>3, <2>1
  <1> QED BY <1>2, <1>3, <1>4, <1>5, <1>6

(* The rows of cli.go fit the tables.                                         *)
LEMMA RowTypes ==
    ASSUME TypeOK, NEW p \in Invocation
    PROVE  /\ \A type \in EventType, causation \in Sender \cup {NoId} :
                  Event(p, type, causation) \in EventRow
           /\ \A id \in Invocation \cup PeerMessage, parent \in Sender \cup {NoId} :
                  MessageOf(p, id, parent) \in MessageRow
           /\ [id |-> Scope[p], text |-> [flags |-> p]] \in ConversationRow
           /\ Scope[p] # NoId
  BY InvocationAssumption
     DEF Event, MessageOf, EventRow, MessageRow, ConversationRow, Columns, Invocation

(* A batch of cli.go, recorded: its event at the end of the events, its       *)
(* messages at the end of the messages.                                       *)
LEMMA RecordedTables ==
    ASSUME TypeOK, NEW p \in Invocation, NEW messages \in Seq(MessageRow), NEW event \in EventRow,
           Recorded(Batch(p, messages, event))
    PROVE  /\ db' \in Tables /\ UniqueKeys(db)'
           /\ db'.messages = db.messages \o messages
           /\ db'.events = db.events \o <<event>>
  <1> DEFINE batch == Batch(p, messages, event)
  <1>1. /\ batch.op = "record" /\ batch.messages = messages /\ batch.events = <<event>>
        /\ batch.conversation = [id |-> Scope[p], text |-> [flags |-> p]]
    BY DEF Batch
  <1>2. db \in Tables /\ batch.conversation \in ConversationRow
    BY <1>1, RowTypes DEF TypeOK
  <1>3. db' = Apply(db, batch) /\ UniqueKeys(db')
    BY DEF Recorded
  <1> HIDE DEF batch
  <1>4. db' = [conversations |-> EnsureRow(db, batch.conversation).conversations,
               messages |-> db.messages \o messages, events |-> db.events \o <<event>>]
    BY <1>1, <1>3 DEF Apply
  <1>5. EnsureRow(db, batch.conversation).conversations \subseteq ConversationRow
    BY <1>2 DEF EnsureRow, Tables
  <1>6. db.messages \o messages \in Seq(MessageRow) /\ db.events \o <<event>> \in Seq(EventRow)
    BY <1>2, ConcatProperties DEF Tables
  <1> QED BY <1>3, <1>4, <1>5, <1>6 DEF Tables

(* The events a Record adds to: the one it brings is there, and all others    *)
(* are there that were.                                                       *)
LEMMA RecordedEvents ==
    ASSUME TypeOK, NEW p \in Invocation, NEW type \in EventType,
           NEW causation \in Sender \cup {NoId}, NEW messages \in Seq(MessageRow),
           Recorded(Batch(p, messages, Event(p, type, causation)))
    PROVE  /\ \A q, t : HasEvent(q, t)' <=> HasEvent(q, t) \/ (q = p /\ t = type)
           /\ \A q : HasOutcome(q)' <=> HasOutcome(q) \/ (q = p /\ type # "send_started")
           /\ DOMAIN db.events = 1 .. Len(db.events) /\ Len(db.events) \in Nat
           /\ DOMAIN db'.events = 1 .. Len(db.events) + 1
           /\ \A i \in DOMAIN db.events : db'.events[i] = db.events[i]
           /\ db'.events[Len(db.events) + 1].id = <<p, type>>
  <1>1. Event(p, type, causation) \in EventRow /\ Event(p, type, causation).id = <<p, type>>
    BY RowTypes DEF Event
  <1>2. db.events \in Seq(EventRow)
    BY DEF TypeOK, Tables
  <1>3. db'.events = db.events \o <<Event(p, type, causation)>>
    BY <1>1, RecordedTables
  <1>4. /\ DOMAIN db.events = 1 .. Len(db.events) /\ Len(db.events) \in Nat
        /\ DOMAIN db'.events = 1 .. Len(db.events) + 1
        /\ \A i \in DOMAIN db.events : db'.events[i] = db.events[i]
        /\ db'.events[Len(db.events) + 1].id = <<p, type>>
    BY <1>1, <1>2, <1>3, OneMore
  <1>5. /\ Len(db.events) + 1 \in DOMAIN db'.events
        /\ \A i \in DOMAIN db'.events : i \in DOMAIN db.events \/ i = Len(db.events) + 1
        /\ \A i \in DOMAIN db.events : i \in DOMAIN db'.events
    BY <1>4
  <1>6. ASSUME NEW q, NEW t
        PROVE  HasEvent(q, t)' <=> HasEvent(q, t) \/ (q = p /\ t = type)
    <2>1. <<q, t>> = <<p, type>> <=> q = p /\ t = type
      OBVIOUS
    <2> QED BY <1>4, <1>5, <2>1 DEF HasEvent
  <1>7. \A q : HasOutcome(q)' <=> HasOutcome(q) \/ (q = p /\ type # "send_started")
    BY <1>6 DEF HasOutcome
  <1> QED BY <1>4, <1>6, <1>7

(* The messages a Record adds to, when it brings one and when it brings none. *)
LEMMA RecordedMessage ==
    ASSUME TypeOK, NEW p \in Invocation, NEW id \in Invocation \cup PeerMessage,
           NEW parent \in Sender \cup {NoId}, NEW event \in EventRow,
           Recorded(Batch(p, <<MessageOf(p, id, parent)>>, event))
    PROVE  /\ \A m : HasMessage(m)' <=> HasMessage(m) \/ m = id
           /\ DOMAIN db.messages = 1 .. Len(db.messages) /\ Len(db.messages) \in Nat
           /\ DOMAIN db'.messages = 1 .. Len(db.messages) + 1
           /\ \A i \in DOMAIN db.messages : db'.messages[i] = db.messages[i]
           /\ db'.messages[Len(db.messages) + 1].id = id
           /\ db'.messages[Len(db.messages) + 1].text.parent = parent
  <1>1. /\ MessageOf(p, id, parent) \in MessageRow
        /\ MessageOf(p, id, parent).id = id /\ MessageOf(p, id, parent).text.parent = parent
    BY RowTypes DEF MessageOf
  <1>2. db.messages \in Seq(MessageRow) /\ <<MessageOf(p, id, parent)>> \in Seq(MessageRow)
    BY <1>1 DEF TypeOK, Tables
  <1>3. db'.messages = db.messages \o <<MessageOf(p, id, parent)>>
    BY <1>2, RecordedTables
  <1>4. /\ DOMAIN db.messages = 1 .. Len(db.messages) /\ Len(db.messages) \in Nat
        /\ DOMAIN db'.messages = 1 .. Len(db.messages) + 1
        /\ \A i \in DOMAIN db.messages : db'.messages[i] = db.messages[i]
        /\ db'.messages[Len(db.messages) + 1] = MessageOf(p, id, parent)
    BY <1>1, <1>2, <1>3, OneMore
  <1>5. /\ Len(db.messages) + 1 \in DOMAIN db'.messages
        /\ \A i \in DOMAIN db'.messages : i \in DOMAIN db.messages \/ i = Len(db.messages) + 1
        /\ \A i \in DOMAIN db.messages : i \in DOMAIN db'.messages
    BY <1>4
  <1>6. \A m : HasMessage(m)' <=> HasMessage(m) \/ m = id
    BY <1>1, <1>4, <1>5 DEF HasMessage
  <1> QED BY <1>1, <1>4, <1>6

LEMMA RecordedNoMessage ==
    ASSUME TypeOK, NEW p \in Invocation, NEW event \in EventRow,
           Recorded(Batch(p, <<>>, event))
    PROVE  db'.messages = db.messages
  <1>1. <<>> \in Seq(MessageRow) /\ db.messages \in Seq(MessageRow)
    BY DEF TypeOK, Tables
  <1>2. db'.messages = db.messages \o <<>>
    BY <1>1, RecordedTables
  <1> QED BY <1>1, <1>2, ConcatEmptySeq

(* Where an invocation goes, the others stay.                                 *)
LEMMA GotoFacts ==
    ASSUME TypeOK, NEW p \in Invocation, NEW place \in Place, Goto(p, place)
    PROVE  /\ pc' \in [Invocation -> Place] /\ pc'[p] = place
           /\ \A q \in Invocation \ {p} : pc'[q] = pc[q]
  BY DEF TypeOK, Goto

(* Without a Record the transcript says what it said.                         *)
LEMMA SameTables ==
    ASSUME UNCHANGED db
    PROVE  /\ \A q, t : HasEvent(q, t)' <=> HasEvent(q, t)
           /\ \A q : HasOutcome(q)' <=> HasOutcome(q)
           /\ \A m : HasMessage(m)' <=> HasMessage(m)
           /\ OneStory => OneStory'
           /\ UniqueKeys(db) => UniqueKeys(db)'
  BY DEF HasEvent, HasOutcome, HasMessage, OneStory

(* ReplyWithOutcome, with a name for the replies to a send.                   *)
Replies(p) == {i \in DOMAIN db.messages : db.messages[i].text.parent = p}

Answered(p) ==
    /\ HasOutcome(p) => Cardinality(Replies(p)) = IF result[p].message = NoId THEN 0 ELSE 1
    /\ Replies(p) # {} => HasOutcome(p)
    /\ \A i \in Replies(p) : \E j \in 1 .. i - 1 : db.messages[j].id = p

LEMMA ReplyMeans ==
    /\ ReplyWithOutcome <=> \A p \in Sender \cap Storing : Answered(p)
    /\ ReplyWithOutcome' <=> \A p \in Sender \cap Storing : Answered(p)'
  BY DEF ReplyWithOutcome, Answered, Replies

(* It stays while nothing is recorded, if the results of recorded outcomes    *)
(* stay.                                                                      *)
LEMMA SameReplies ==
    ASSUME ReplyWithOutcome, UNCHANGED db,
           \A p \in Sender : HasOutcome(p) => result'[p] = result[p]
    PROVE  ReplyWithOutcome'
  <1>1. \A p \in Sender : Replies(p)' = Replies(p)
    BY DEF Replies
  <1>2. ASSUME NEW p \in Sender \cap Storing PROVE Answered(p)'
    BY <1>1, SameTables, ReplyMeans DEF Answered
  <1> QED BY <1>2, ReplyMeans

-----------------------------------------------------------------------------
(* The invariant holds before any invocation has begun.                       *)
LEMMA InitIInv == Init => IInv
  <1> SUFFICES ASSUME Init PROVE IInv
    OBVIOUS
  <1> USE InvocationAssumption DEF Invocation
  <1>1. db \in Tables /\ UniqueKeys(db) /\ DOMAIN db.messages = {} /\ DOMAIN db.events = {}
    BY DEF Init, EmptyTables, Tables, UniqueKeys, UniqueIds
  <1>2. /\ \A q, t : ~HasEvent(q, t)
        /\ \A q : ~HasOutcome(q)
        /\ \A q : Replies(q) = {}
    BY <1>1 DEF HasEvent, HasOutcome, Replies
  <1>3. TypeOK
    <2>1. /\ pc \in [Invocation -> Place] /\ result \in [Invocation -> Result]
          /\ storeErr \in [Invocation -> BOOLEAN] /\ exit \in [Invocation -> 0..6 \cup {Running}]
      BY DEF Init, Place, Result, NoResult, Failure, Running
    <2>2. /\ answer \in [Sender -> Result]
          /\ tasks \in [Sender -> [state : TaskState \cup {"none"}, message : PeerMessage \cup {NoId}]]
          /\ wire \in [Sender -> {"none", "sent", "answered"}]
          /\ target \in [Waiter -> Sender \cup {NoId}]
      BY DEF Init, Result, NoResult, Failure, NoTask, TaskState
    <2>3. \A p \in Invocation : pc[p] = "exited" <=> exit[p] # Running
      BY DEF Init
    <2> QED BY <1>1, <2>1, <2>2, <2>3 DEF Init, TypeOK
  <1>4. PlaceInv /\ KnownInv
    BY DEF Init, PlaceInv, KnownInv
  <1>5. TargetInv
    BY DEF Init, TargetInv, Running, ExitOK, ExitCode
  <1>6. StartedInv
    BY DEF Init, StartedInv
  <1>7. OutcomeInv
    BY <1>2 DEF Init, OutcomeInv
  <1>8. AnswerInv
    BY DEF Init, AnswerInv, NoResult, Failure, NoTask
  <1>9. SendResultInv /\ WaitResultInv
    BY DEF Init, SendResultInv, WaitResultInv
  <1>10. OwnerInv
    <2>1. Owned([m \in {} |-> NoId])
      BY <1>1 DEF Init, Owned, NoResult, Failure, NoTask
    <2> QED BY <2>1 DEF Init, OwnerInv
  <1>11. OneStory /\ CompletedMeansHandled
    BY <1>1, <1>2 DEF OneStory, CompletedMeansHandled
  <1>12. ReplyWithOutcome
    BY <1>2, ReplyMeans DEF Answered
  <1>13. ExitTellsTruth /\ SendRecordsOutcome
    BY DEF Init, ExitTellsTruth, SendRecordsOutcome, Running, ExitOK, ExitStore, ExitCode
  <1> QED BY <1>1, <1>3, <1>4, <1>5, <1>6, <1>7, <1>8, <1>9, <1>10, <1>11, <1>12, <1>13 DEF IInv

-----------------------------------------------------------------------------
(* A failure carries its error and nothing else.                              *)
LEMMA FailureErr ==
    \A err : Failure(err).err = err /\ Failure(err).message = NoId /\ Failure(err).kind = "none"
  BY DEF Failure

(* The A2A call of an invocation returns: with a failure, with the answer, or *)
(* with the state of the task a wait polls.                                   *)
LEMMA CallReturnsKeeps ==
    ASSUME IInv, NEW p \in Invocation, NEW r \in Result,
           pc[p] \in {"call", "response", "poll"}, CallReturns(p, r),
           UNCHANGED <<store, peer, storeErr, exit, wire, known, target>>,
           p \in Sender => \/ r \in {Failure("usage"), Failure("transport")}
                           \/ wire[p] = "answered" /\ r = answer[p],
           p \in Waiter => /\ r.kind = "task" => r.task = target[p]
                           /\ r.err = "none" => tasks[target[p]].state = "completed"
                           /\ r.err = "task-failed" => tasks[target[p]].state = "failed"
                           /\ r.message # NoId => r.message = tasks[target[p]].message
    PROVE  IInv'
  <1> DEFINE place == IF p \in Storing THEN "finish" ELSE "report"
  <1> USE DEF store, peer
  <1>1. /\ pc' \in [Invocation -> Place] /\ pc'[p] = place
        /\ \A q \in Invocation \ {p} : pc'[q] = pc[q]
        /\ place \in {"finish", "report"} /\ (place = "finish" <=> p \in Storing)
    <2>1. place \in Place /\ Goto(p, place)
      BY DEF CallReturns, Place
    <2> QED BY <2>1, GotoFacts DEF IInv
  <1> HIDE DEF place
  <1>2. /\ result' = [result EXCEPT ![p] = r] /\ result' \in [Invocation -> Result] /\ result'[p] = r
        /\ \A q \in Invocation \ {p} : result'[q] = result[q]
    BY DEF CallReturns, IInv, TypeOK
  <1>3. TypeOK'
    BY <1>1, <1>2 DEF IInv, TypeOK
  <1>4. PlaceInv' /\ KnownInv'
    BY <1>1, InvocationAssumption DEF IInv, TypeOK, PlaceInv, KnownInv, Invocation
  <1>5. TargetInv'
    BY <1>1 DEF IInv, TargetInv, Invocation
  <1>6. StartedInv'
    BY <1>1, SameTables, InvocationAssumption DEF IInv, StartedInv, PlaceInv, Invocation
  <1>7. OutcomeInv'
    BY <1>1, SameTables DEF IInv, OutcomeInv, Done
  <1>8. UniqueKeys(db)' /\ OneStory'
    BY SameTables DEF IInv
  <1>9. AnswerInv'
    BY DEF IInv, AnswerInv
  <1>10. SendResultInv' /\ WaitResultInv'
    BY <1>1, <1>2 DEF IInv, SendResultInv, WaitResultInv, Invocation
  <1>11. OwnerInv'
    <2>1. PICK owner \in [given -> Sender] : Owned(owner)
      BY DEF IInv, OwnerInv
    <2>2. \A i \in DOMAIN db.messages : db.messages[i].id \notin Invocation =>
              db.messages[i].id \in given /\ pc'[owner[db.messages[i].id]] \in Done
      BY <1>1, <2>1 DEF Owned, Done, Invocation
    <2>3. r.message # NoId =>
              /\ r.message \in given
              /\ p \in Sender => owner[r.message] = p
              /\ p \in Waiter => owner[r.message] = target[p]
      <3>1. ASSUME p \in Sender, r.message # NoId
            PROVE  r.message \in given /\ owner[r.message] = p
        <4>1. r = answer[p]
          BY <3>1, FailureErr
        <4> QED BY <2>1, <3>1, <4>1 DEF Owned
      <3>2. ASSUME p \in Waiter, r.message # NoId
            PROVE  r.message \in given /\ owner[r.message] = target[p]
        <4>1. pc[p] = "poll"
          BY <3>2, InvocationAssumption DEF IInv, PlaceInv
        <4>2. target[p] \in Sender
          BY <3>2, <4>1 DEF IInv, TargetInv, TypeOK
        <4>3. r.message = tasks[target[p]].message
          BY <3>2
        <4> QED BY <2>1, <3>2, <4>2, <4>3 DEF Owned
      <3> QED BY <3>1, <3>2, InvocationAssumption DEF Invocation
    <2>4. Owned(owner)'
      BY <1>2, <2>1, <2>2, <2>3, InvocationAssumption DEF Owned, Invocation
    <2> QED BY <2>1, <2>4 DEF OwnerInv
  <1>12. ReplyWithOutcome'
    BY <1>2, SameReplies DEF IInv, OutcomeInv, Done, Invocation
  <1>13. CompletedMeansHandled' /\ SendRecordsOutcome'
    BY SameTables DEF IInv, CompletedMeansHandled, SendRecordsOutcome
  <1>14. ExitTellsTruth'
    BY SameTables DEF IInv, ExitTellsTruth
  <1> QED BY <1>3, <1>4, <1>5, <1>6, <1>7, <1>8, <1>9, <1>10, <1>11, <1>12, <1>13, <1>14 DEF IInv

(* Running is no exit code, and the codes that tell something are told apart  *)
(* from each other and from the rest.                                         *)
LEMMA CodeFacts ==
    /\ \A code \in 0..6 : code # Running
    /\ ExitOK \in 0..6 /\ ExitStore \in 0..6 /\ ExitCode("task-failed") \in 0..6
    /\ ExitOK # ExitStore /\ ExitOK # ExitCode("task-failed") /\ ExitStore # ExitCode("task-failed")
    /\ \A err \in {"usage", "auth", "protocol", "transport"} :
           /\ ExitCode(err) \in 0..6
           /\ ExitCode(err) \notin {ExitOK, ExitStore, ExitCode("task-failed")}
  BY DEF Running, ExitOK, ExitStore, ExitCode

(* An invocation exits, before it has begun or after its report.              *)
LEMMA ExitKeeps ==
    ASSUME IInv, NEW p \in Invocation, NEW code \in 0..6,
           pc[p] \in {"start", "report"}, Exit(p, code),
           UNCHANGED <<db, peer, result, storeErr, wire, target>>,
           known \subseteq known', known' \subseteq (known \cup {p}) \cap Sender,
           faulted \subseteq faulted', faulted' \subseteq Storing,
           pc[p] = "start" => code \notin {ExitOK, ExitCode("task-failed")},
           code = ExitOK => result[p].err = "none" /\ ~storeErr[p],
           code = ExitCode("task-failed") => result[p].err = "task-failed",
           code = ExitStore => pc[p] = "start" \/ storeErr[p]
    PROVE  IInv'
  <1> USE DEF peer
  <1>1. /\ pc' \in [Invocation -> Place] /\ pc'[p] = "exited"
        /\ \A q \in Invocation \ {p} : pc'[q] = pc[q]
    BY GotoFacts DEF Exit, Place, IInv
  <1>2. /\ exit' = [exit EXCEPT ![p] = code] /\ exit'[p] = code
        /\ \A q \in Invocation \ {p} : exit'[q] = exit[q]
    BY DEF Exit, IInv, TypeOK
  <1>3. TypeOK'
    <2>1. exit' \in [Invocation -> 0..6 \cup {Running}] /\ exit'[p] # Running
      <3>1. exit \in [Invocation -> 0..6 \cup {Running}]
        BY DEF IInv, TypeOK
      <3>2. code # Running
        BY CodeFacts
      <3> QED BY <1>2, <3>1, <3>2
    <2>2. \A q \in Invocation : pc'[q] = "exited" <=> exit'[q] # Running
      BY <1>1, <1>2, <2>1 DEF IInv, TypeOK
    <2> QED BY <1>1, <2>1, <2>2 DEF IInv, TypeOK
  <1>4. PlaceInv' /\ KnownInv'
    <2>1. PlaceInv'
      BY <1>1 DEF IInv, PlaceInv, Invocation
    <2>2. \A t \in known' : t = p \/ (t \in known /\ t \in Invocation)
      BY DEF Invocation
    <2> QED BY <1>1, <2>1, <2>2 DEF IInv, KnownInv
  <1>5. TargetInv'
    BY <1>1, <1>2 DEF IInv, TargetInv, Invocation
  <1>6. StartedInv'
    BY <1>1, SameTables DEF IInv, StartedInv, Invocation
  <1>7. OutcomeInv'
    BY <1>1, SameTables DEF IInv, OutcomeInv, Done
  <1>8. UniqueKeys(db)' /\ OneStory'
    BY SameTables DEF IInv
  <1>9. AnswerInv'
    BY DEF IInv, AnswerInv
  <1>10. SendResultInv' /\ WaitResultInv'
    BY <1>1 DEF IInv, SendResultInv, WaitResultInv, Invocation
  <1>11. OwnerInv'
    <2>1. PICK owner \in [given -> Sender] : Owned(owner)
      BY DEF IInv, OwnerInv
    <2>2. Owned(owner)'
      BY <1>1, <2>1 DEF Owned, Done, Invocation
    <2> QED BY <2>1, <2>2 DEF OwnerInv
  <1>12. ReplyWithOutcome'
    BY SameReplies DEF IInv
  <1>13. CompletedMeansHandled'
    BY SameTables DEF IInv, CompletedMeansHandled
  <1>14. SendRecordsOutcome'
    <2>1. ASSUME p \in Sender \cap Storing, wire[p] # "none" PROVE HasOutcome(p) \/ p \in faulted'
      BY <2>1 DEF IInv, PlaceInv, OutcomeInv
    <2> QED BY <1>2, <2>1, SameTables DEF IInv, SendRecordsOutcome, Invocation
  <1>15. ExitTellsTruth'
    <2>1. ASSUME code = ExitOK
          PROVE  /\ p \in Storing => HasOutcome(p)
                 /\ IF p \in Sender THEN p \in handled ELSE tasks[target[p]].state = "completed"
      <3>1. pc[p] = "report" /\ result[p].err = "none" /\ ~storeErr[p]
        BY <2>1
      <3>2. CASE p \in Sender
        <4>1. wire[p] = "answered" /\ result[p] = answer[p]
          BY <3>1, <3>2, FailureErr DEF IInv, SendResultInv
        <4> QED BY <3>1, <3>2, <4>1 DEF IInv, OutcomeInv, AnswerInv
      <3>3. CASE p \in Waiter
        BY <3>1, <3>3, InvocationAssumption DEF IInv, OutcomeInv, WaitResultInv
      <3> QED BY <3>2, <3>3 DEF Invocation
    <2>2. ASSUME code = ExitCode("task-failed")
          PROVE  tasks[IF p \in Sender THEN p ELSE target[p]].state = "failed"
      <3>1. pc[p] = "report" /\ result[p].err = "task-failed"
        BY <2>2
      <3>2. CASE p \in Sender
        <4>1. wire[p] = "answered" /\ result[p] = answer[p]
          BY <3>1, <3>2, FailureErr DEF IInv, SendResultInv
        <4> QED BY <3>1, <3>2, <4>1 DEF IInv, AnswerInv
      <3>3. CASE p \in Waiter
        BY <3>1, <3>3, InvocationAssumption DEF IInv, WaitResultInv
      <3> QED BY <3>2, <3>3 DEF Invocation
    <2>3. code = ExitStore => ~HasOutcome(p)
      BY DEF IInv, OutcomeInv, Done
    <2>4. UNCHANGED <<handled, tasks, target>>
      OBVIOUS
    <2> QED BY <1>2, <2>1, <2>2, <2>3, <2>4, SameTables DEF IInv, ExitTellsTruth
  <1> QED BY <1>3, <1>4, <1>5, <1>6, <1>7, <1>8, <1>9, <1>10, <1>11, <1>12, <1>13, <1>14, <1>15
          DEF IInv

(* The record of an outcome fails: that of a send only with the store.        *)
LEMMA RecordFailsKeeps ==
    ASSUME IInv, NEW p \in Invocation, pc[p] = "finish", Goto(p, "report"),
           storeErr' = [storeErr EXCEPT ![p] = TRUE],
           faulted \subseteq faulted', faulted' \subseteq Storing, p \in Sender => p \in faulted',
           UNCHANGED <<db, peer, result, exit, wire, known, target>>
    PROVE  IInv'
  <1> USE DEF peer
  <1>1. /\ pc' \in [Invocation -> Place] /\ pc'[p] = "report"
        /\ \A q \in Invocation \ {p} : pc'[q] = pc[q]
    BY GotoFacts DEF Place, IInv
  <1>2. /\ storeErr' \in [Invocation -> BOOLEAN] /\ storeErr'[p]
        /\ \A q \in Invocation \ {p} : storeErr'[q] = storeErr[q]
    BY DEF IInv, TypeOK
  <1>3. TypeOK'
    BY <1>1, <1>2 DEF IInv, TypeOK
  <1>4. PlaceInv' /\ KnownInv'
    BY <1>1, InvocationAssumption DEF IInv, TypeOK, PlaceInv, KnownInv, Invocation
  <1>5. TargetInv'
    BY <1>1 DEF IInv, TargetInv, Invocation
  <1>6. StartedInv'
    BY <1>1, SameTables DEF IInv, StartedInv, Invocation
  <1>7. OutcomeInv'
    <2>1. ASSUME NEW q \in Invocation \ {p}
          PROVE  /\ HasOutcome(q)' \/ storeErr'[q] => pc'[q] \in Done
                 /\ ~(HasOutcome(q)' /\ storeErr'[q])
                 /\ pc'[q] = "report" /\ q \in Storing => HasOutcome(q)' \/ storeErr'[q]
                 /\ q \in Sender /\ storeErr'[q] => q \in faulted'
      BY <1>1, <1>2, SameTables DEF IInv, OutcomeInv
    <2>2. ~HasOutcome(p)' /\ pc'[p] \in Done /\ storeErr'[p] /\ (p \in Sender => p \in faulted')
      BY <1>1, <1>2, SameTables DEF IInv, OutcomeInv, Done
    <2> QED BY <2>1, <2>2 DEF OutcomeInv
  <1>8. UniqueKeys(db)' /\ OneStory'
    BY SameTables DEF IInv
  <1>9. AnswerInv'
    BY DEF IInv, AnswerInv
  <1>10. SendResultInv' /\ WaitResultInv'
    BY <1>1 DEF IInv, SendResultInv, WaitResultInv, Invocation
  <1>11. OwnerInv'
    <2>1. PICK owner \in [given -> Sender] : Owned(owner)
      BY DEF IInv, OwnerInv
    <2>2. Owned(owner)'
      BY <1>1, <2>1 DEF Owned, Done, Invocation
    <2> QED BY <2>1, <2>2 DEF OwnerInv
  <1>12. ReplyWithOutcome'
    BY SameReplies DEF IInv
  <1>13. CompletedMeansHandled' /\ SendRecordsOutcome'
    BY SameTables DEF IInv, CompletedMeansHandled, SendRecordsOutcome
  <1>14. ExitTellsTruth'
    BY SameTables DEF IInv, ExitTellsTruth
  <1> QED BY <1>3, <1>4, <1>5, <1>6, <1>7, <1>8, <1>9, <1>10, <1>11, <1>12, <1>13, <1>14 DEF IInv

(* A send puts its request on the wire: its rows are in the store.            *)
LEMMA SendRequestKeeps ==
    ASSUME IInv, NEW p \in Invocation, SendRequest(p)
    PROVE  IInv'
  <1> USE DEF SendRequest, store, peer
  <1>1. /\ pc' \in [Invocation -> Place] /\ pc'[p] = "response"
        /\ \A q \in Invocation \ {p} : pc'[q] = pc[q]
    BY GotoFacts DEF Place, IInv
  <1>2. p \in Sender /\ wire[p] = "none"
    BY DEF IInv, PlaceInv
  <1>3. /\ wire' \in [Sender -> {"none", "sent", "answered"}] /\ wire'[p] = "sent"
        /\ \A q \in Sender \ {p} : wire'[q] = wire[q]
    BY <1>2 DEF IInv, TypeOK
  <1>4. TypeOK'
    BY <1>1, <1>3 DEF IInv, TypeOK
  <1>5. PlaceInv' /\ KnownInv'
    BY <1>1, <1>2, <1>3, InvocationAssumption DEF IInv, TypeOK, PlaceInv, KnownInv, Invocation
  <1>6. TargetInv'
    BY <1>1 DEF IInv, TargetInv, Invocation
  <1>7. StartedInv'
    BY <1>1, <1>3, SameTables DEF IInv, StartedInv, Invocation
  <1>8. OutcomeInv'
    BY <1>1, SameTables DEF IInv, OutcomeInv, Done
  <1>9. UniqueKeys(db)' /\ OneStory'
    BY SameTables DEF IInv
  <1>10. AnswerInv'
    BY <1>2, <1>3 DEF IInv, AnswerInv
  <1>11. SendResultInv' /\ WaitResultInv'
    BY <1>1, <1>3 DEF IInv, SendResultInv, WaitResultInv, Invocation
  <1>12. OwnerInv'
    <2>1. PICK owner \in [given -> Sender] : Owned(owner)
      BY DEF IInv, OwnerInv
    <2>2. Owned(owner)'
      BY <1>1, <2>1 DEF Owned, Done, Invocation
    <2> QED BY <2>1, <2>2 DEF OwnerInv
  <1>13. ReplyWithOutcome'
    BY SameReplies DEF IInv
  <1>14. CompletedMeansHandled' /\ ExitTellsTruth'
    BY SameTables DEF IInv, CompletedMeansHandled, ExitTellsTruth
  <1>15. SendRecordsOutcome'
    BY <1>1, <1>3, SameTables DEF IInv, TypeOK, SendRecordsOutcome, Invocation
  <1> QED BY <1>4, <1>5, <1>6, <1>7, <1>8, <1>9, <1>10, <1>11, <1>12, <1>13, <1>14, <1>15
          DEF IInv

(* A wait begins, for a task whose send has exited.                           *)
LEMMA StartWaitKeeps ==
    ASSUME IInv, NEW p \in Invocation, StartWait(p)
    PROVE  IInv'
  <1> USE DEF StartWait, store, peer
  <1>1. /\ pc' \in [Invocation -> Place] /\ pc'[p] = "poll"
        /\ \A q \in Invocation \ {p} : pc'[q] = pc[q]
    BY GotoFacts DEF Place, IInv
  <1>2. p \in Waiter /\ p \notin Sender /\ result[p].message = NoId
    <2>1. p \in Waiter /\ p \notin Sender
      BY InvocationAssumption
    <2>2. result[p] = NoResult
      BY <2>1 DEF IInv, WaitResultInv
    <2> QED BY <2>1, <2>2, FailureErr DEF NoResult
  <1>3. /\ target' \in [Waiter -> Sender \cup {NoId}] /\ target'[p] \in known
        /\ \A q \in Waiter \ {p} : target'[q] = target[q]
    BY <1>2 DEF IInv, TypeOK
  <1>4. TypeOK'
    BY <1>1, <1>3 DEF IInv, TypeOK
  <1>5. PlaceInv' /\ KnownInv'
    <2>1. PlaceInv'
      BY <1>1, <1>2 DEF IInv, PlaceInv, Invocation
    <2>2. \A t \in known : t \in Invocation \ {p}
      BY <1>2 DEF IInv, TypeOK, Invocation
    <2> QED BY <1>1, <2>1, <2>2 DEF IInv, KnownInv
  <1>6. TargetInv'
    BY <1>1, <1>3 DEF IInv, TargetInv, Invocation
  <1>7. StartedInv'
    BY <1>1, <1>2, SameTables DEF IInv, StartedInv, Invocation
  <1>8. OutcomeInv'
    BY <1>1, SameTables DEF IInv, OutcomeInv, Done
  <1>9. UniqueKeys(db)' /\ OneStory'
    BY SameTables DEF IInv
  <1>10. AnswerInv'
    BY DEF IInv, AnswerInv
  <1>11. SendResultInv' /\ WaitResultInv'
    BY <1>1, <1>2, <1>3 DEF IInv, SendResultInv, WaitResultInv, Invocation
  <1>12. OwnerInv'
    <2>1. PICK owner \in [given -> Sender] : Owned(owner)
      BY DEF IInv, OwnerInv
    <2>2. Owned(owner)'
      BY <1>1, <1>2, <1>3, <2>1 DEF Owned, Done, Invocation
    <2> QED BY <2>1, <2>2 DEF OwnerInv
  <1>13. ReplyWithOutcome'
    BY SameReplies DEF IInv
  <1>14. CompletedMeansHandled' /\ SendRecordsOutcome'
    BY SameTables DEF IInv, CompletedMeansHandled, SendRecordsOutcome
  <1>15. ExitTellsTruth'
    <2>1. exit'[p] = Running
      BY DEF IInv, TypeOK
    <2>2. Running \notin {ExitOK, ExitCode("task-failed"), ExitStore}
      BY DEF Running, ExitOK, ExitCode, ExitStore
    <2>3. \A q \in Invocation \ {p} : q \notin Sender => target'[q] = target[q]
      BY <1>3 DEF Invocation
    <2> QED BY <2>1, <2>2, <2>3, SameTables DEF IInv, ExitTellsTruth
  <1> QED BY <1>4, <1>5, <1>6, <1>7, <1>8, <1>9, <1>10, <1>11, <1>12, <1>13, <1>14, <1>15
          DEF IInv

(* An invocation crashes.                                                     *)
LEMMA CrashKeeps ==
    ASSUME IInv, NEW p \in Invocation, Crash(p)
    PROVE  IInv'
  <1> USE DEF Crash, store, peer
  <1>1. /\ pc' \in [Invocation -> Place] /\ pc'[p] = "crashed"
        /\ \A q \in Invocation \ {p} : pc'[q] = pc[q]
    BY GotoFacts DEF Place, IInv
  <1>2. exit[p] = Running
    BY DEF IInv, TypeOK
  <1>3. TypeOK'
    BY <1>1, <1>2 DEF IInv, TypeOK
  <1>4. PlaceInv' /\ KnownInv'
    BY <1>1, InvocationAssumption DEF IInv, TypeOK, PlaceInv, KnownInv, Invocation
  <1>5. TargetInv'
    BY <1>1 DEF IInv, TargetInv, Invocation
  <1>6. StartedInv'
    BY <1>1, SameTables DEF IInv, StartedInv, Invocation
  <1>7. OutcomeInv'
    BY <1>1, SameTables DEF IInv, OutcomeInv, Done
  <1>8. UniqueKeys(db)' /\ OneStory'
    BY SameTables DEF IInv
  <1>9. AnswerInv'
    BY DEF IInv, AnswerInv
  <1>10. SendResultInv' /\ WaitResultInv'
    BY <1>1 DEF IInv, SendResultInv, WaitResultInv, Invocation
  <1>11. OwnerInv'
    <2>1. PICK owner \in [given -> Sender] : Owned(owner)
      BY DEF IInv, OwnerInv
    <2>2. Owned(owner)'
      BY <1>1, <2>1 DEF Owned, Done, Invocation
    <2> QED BY <2>1, <2>2 DEF OwnerInv
  <1>12. ReplyWithOutcome'
    BY SameReplies DEF IInv
  <1>13. CompletedMeansHandled' /\ SendRecordsOutcome' /\ ExitTellsTruth'
    BY SameTables DEF IInv, CompletedMeansHandled, SendRecordsOutcome, ExitTellsTruth
  <1> QED BY <1>3, <1>4, <1>5, <1>6, <1>7, <1>8, <1>9, <1>10, <1>11, <1>12, <1>13 DEF IInv

-----------------------------------------------------------------------------
(* The peer: it takes a message on or turns it down, once, or goes on with a  *)
(* task that has not ended.  A message id it gives is given for the first     *)
(* time, so that it can be put down to that send.                             *)
LEMMA PeerKeeps ==
    ASSUME IInv, NEW p \in Sender, NEW m \in Fresh \cup {NoId},
           wire[p] \in {"sent", "answered"}, tasks[p].state \in {"none", "running"},
           wire' \in [Sender -> {"none", "sent", "answered"}], wire'[p] = "answered",
           answer' \in [Sender -> Result],
           tasks' \in [Sender -> [state : TaskState \cup {"none"}, message : PeerMessage \cup {NoId}]],
           \A q \in Sender \ {p} :
               wire'[q] = wire[q] /\ answer'[q] = answer[q] /\ tasks'[q] = tasks[q],
           given' = given \cup ({m} \ {NoId}),
           handled \subseteq handled', handled' \subseteq Sender,
           wire[p] = "answered" => answer'[p] = answer[p],
           answer'[p].message \in {m, NoId, answer[p].message},
           tasks'[p].message \in {m, NoId, tasks[p].message},
           answer'[p].err \in {"none", "task-failed"} => p \in handled',
           answer'[p].err = "task-failed" => tasks'[p].state = "failed",
           answer'[p].kind = "task" => answer'[p].task = p,
           UNCHANGED <<db, faulted, pc, result, storeErr, exit, known, target>>
    PROVE  IInv'
  <1>1. p \in Invocation /\ m \in PeerMessage \cup {NoId} /\ NoId \notin PeerMessage
    BY InvocationAssumption DEF Invocation, Fresh
  <1>5. \A t \in Sender : tasks[t].state \in {"completed", "failed"} => tasks'[t] = tasks[t]
    OBVIOUS
  <1>6. \A q \in Waiter : target[q] # NoId => target[q] \in Sender
    BY DEF IInv, TypeOK
  <1>7. TypeOK'
    BY <1>1 DEF IInv, TypeOK
  <1>8. PlaceInv'
    BY DEF IInv, PlaceInv
  <1>9. KnownInv' /\ TargetInv'
    BY DEF IInv, KnownInv, TargetInv
  <1>10. StartedInv'
    BY SameTables DEF IInv, StartedInv
  <1>11. OutcomeInv'
    BY SameTables DEF IInv, OutcomeInv
  <1>12. UniqueKeys(db)' /\ OneStory'
    BY SameTables DEF IInv
  <1>13. AnswerInv'
    <2>1. ASSUME NEW q \in Sender \ {p}
          PROVE  /\ tasks'[q].state # "none" => wire'[q] = "answered"
                 /\ wire'[q] = "answered" /\ answer'[q].err \in {"none", "task-failed"} => q \in handled'
                 /\ wire'[q] = "answered" /\ answer'[q].err = "task-failed" => tasks'[q].state = "failed"
                 /\ answer'[q].kind = "task" => answer'[q].task = q
      <3>1. wire'[q] = wire[q] /\ answer'[q] = answer[q] /\ tasks'[q] = tasks[q]
        OBVIOUS
      <3>2. /\ tasks[q].state # "none" => wire[q] = "answered"
            /\ wire[q] = "answered" /\ answer[q].err \in {"none", "task-failed"} => q \in handled
            /\ wire[q] = "answered" /\ answer[q].err = "task-failed" => tasks[q].state = "failed"
            /\ answer[q].kind = "task" => answer[q].task = q
        BY DEF IInv, AnswerInv
      <3> QED BY <3>1, <3>2
    <2> QED BY <2>1 DEF AnswerInv
  <1>14. SendResultInv'
    BY DEF IInv, SendResultInv
  <1>15. WaitResultInv'
    <2>1. \A q \in Waiter : pc[q] \in {"finish", "report"} => target[q] \in Sender
      BY DEF IInv, TargetInv, TypeOK
    <2> QED BY <1>5, <2>1 DEF IInv, WaitResultInv
  <1>16. OwnerInv'
    <2>1. PICK owner \in [given -> Sender] : Owned(owner)
      BY DEF IInv, OwnerInv
    <2>2. [x \in given' |-> IF x = m THEN p ELSE owner[x]] \in [given' -> Sender]
      BY <2>1
    <2>3. \A x \in given : x \in given' /\ x # m
      BY <1>1 DEF IInv, TypeOK, Fresh
    <2>4. PICK later \in [given' -> Sender] :
              /\ \A x \in given : x \in given' /\ later[x] = owner[x]
              /\ m # NoId => m \in given' /\ later[m] = p
      BY <2>2, <2>3
    <2>5. ASSUME NEW q \in Sender
          PROVE  /\ answer[q].message # NoId => answer[q].message \in given /\ owner[answer[q].message] = q
                 /\ tasks[q].message # NoId => tasks[q].message \in given /\ owner[tasks[q].message] = q
                 /\ result[q].message # NoId => result[q].message \in given /\ owner[result[q].message] = q
      BY <2>1 DEF Owned
    <2>6. ASSUME NEW x, x \in {m, NoId} \/ (x # NoId => x \in given /\ owner[x] = p), x # NoId
          PROVE  x \in given' /\ later[x] = p
      BY <2>4, <2>6
    <2>7. ASSUME NEW q \in Sender
          PROVE  /\ answer'[q].message # NoId =>
                      answer'[q].message \in given' /\ later[answer'[q].message] = q
                 /\ tasks'[q].message # NoId =>
                      tasks'[q].message \in given' /\ later[tasks'[q].message] = q
                 /\ result'[q].message # NoId =>
                      result'[q].message \in given' /\ later[result'[q].message] = q
      <3>1. result'[q].message # NoId => result'[q].message \in given' /\ later[result'[q].message] = q
        BY <2>4, <2>5
      <3>2. CASE q = p
        <4>1. answer'[p].message # NoId => answer'[p].message \in given' /\ later[answer'[p].message] = p
          BY <2>5, <2>6
        <4>2. tasks'[p].message # NoId => tasks'[p].message \in given' /\ later[tasks'[p].message] = p
          BY <2>5, <2>6
        <4> QED BY <3>1, <3>2, <4>1, <4>2
      <3>3. CASE q # p
        <4>1. answer'[q] = answer[q] /\ tasks'[q] = tasks[q]
          BY <3>3
        <4> QED BY <2>4, <2>5, <3>1, <4>1
      <3> QED BY <3>2, <3>3
    <2>8. ASSUME NEW q \in Waiter, result'[q].message # NoId
          PROVE  result'[q].message \in given' /\ later[result'[q].message] = target'[q]
      <3>1. result[q].message \in given /\ owner[result[q].message] = target[q]
        BY <2>1, <2>8 DEF Owned
      <3> QED BY <2>4, <3>1
    <2>9. ASSUME NEW i \in DOMAIN db'.messages, db'.messages[i].id \notin Invocation
          PROVE  db'.messages[i].id \in given' /\ pc'[later[db'.messages[i].id]] \in Done
      <3>1. db.messages[i].id \in given /\ pc[owner[db.messages[i].id]] \in Done
        BY <2>1, <2>9 DEF Owned
      <3> QED BY <2>4, <3>1
    <2>10. Owned(later)'
      BY <2>7, <2>8, <2>9 DEF Owned
    <2> QED BY <2>4, <2>10 DEF OwnerInv
  <1>17. ReplyWithOutcome'
    BY SameReplies DEF IInv
  <1>18. CompletedMeansHandled'
    BY SameTables DEF IInv, CompletedMeansHandled
  <1>19. ExitTellsTruth'
    <2>1. \A q \in Invocation : exit[q] \in {ExitOK, ExitCode("task-failed")} /\ q \notin Sender =>
              target[q] \in Sender
      BY DEF IInv, TypeOK, TargetInv, Invocation
    <2> QED BY <1>5, <2>1, SameTables DEF IInv, ExitTellsTruth
  <1>20. SendRecordsOutcome'
    BY SameTables DEF IInv, SendRecordsOutcome
  <1> QED BY <1>7, <1>8, <1>9, <1>10, <1>11, <1>12, <1>13, <1>14, <1>15, <1>16, <1>17, <1>18,
             <1>19, <1>20 DEF IInv

LEMMA PeerStepKeeps ==
    ASSUME IInv, NEW p \in Sender, PeerStep(p)
    PROVE  IInv'
  <1> DEFINE TaskRecord == [state : TaskState \cup {"none"}, message : PeerMessage \cup {NoId}]
  <1>1. /\ wire \in [Sender -> {"none", "sent", "answered"}] /\ answer \in [Sender -> Result]
        /\ tasks \in [Sender -> TaskRecord] /\ handled \subseteq Sender
        /\ Fresh \subseteq PeerMessage /\ NoId \notin PeerMessage
    BY InvocationAssumption DEF IInv, TypeOK, Fresh
  <1>2. wire[p] = "sent" => tasks[p].state = "none"
    BY DEF IInv, AnswerInv
  <1>3. ASSUME wire[p] = "sent", wire' = [wire EXCEPT ![p] = "answered"]
        PROVE  /\ wire' \in [Sender -> {"none", "sent", "answered"}] /\ wire'[p] = "answered"
               /\ \A q \in Sender \ {p} : wire'[q] = wire[q]
    BY <1>1, <1>3
  <1>4. ASSUME NEW r \in Result, answer' = [answer EXCEPT ![p] = r]
        PROVE  /\ answer' \in [Sender -> Result] /\ answer'[p] = r
               /\ \A q \in Sender \ {p} : answer'[q] = answer[q]
    BY <1>1, <1>4
  <1>5. ASSUME NEW tk \in TaskRecord, tasks' = [tasks EXCEPT ![p] = tk]
        PROVE  /\ tasks' \in [Sender -> TaskRecord] /\ tasks'[p] = tk
               /\ \A q \in Sender \ {p} : tasks'[q] = tasks[q]
    BY <1>1, <1>5
  <1>6. CASE PeerHandles(p)
    <2>1. /\ handled \subseteq handled' /\ handled' \subseteq Sender /\ p \in handled'
          /\ wire[p] = "sent" /\ wire' = [wire EXCEPT ![p] = "answered"]
          /\ UNCHANGED <<db, faulted, pc, result, storeErr, exit, known, target>>
      BY <1>1, <1>6 DEF PeerHandles, store
    <2>2. /\ wire' \in [Sender -> {"none", "sent", "answered"}] /\ wire'[p] = "answered"
          /\ \A q \in Sender \ {p} : wire'[q] = wire[q]
      BY <1>3, <2>1
    <2>3. CASE PeerReplies(p)
      <3>1. PICK m \in Fresh : /\ given' = given \cup {m} /\ UNCHANGED tasks
                               /\ answer' = [answer EXCEPT ![p] = Reply(m)]
        BY <2>3 DEF PeerReplies
      <3>2. Reply(m) \in Result
        BY <1>1 DEF Reply, Result
      <3>3. /\ answer' \in [Sender -> Result] /\ answer'[p] = Reply(m)
            /\ \A q \in Sender \ {p} : answer'[q] = answer[q]
        BY <1>4, <3>1, <3>2
      <3>4. answer'[p].message = m /\ answer'[p].err = "none" /\ answer'[p].kind = "message"
        BY <3>3 DEF Reply
      <3>5. given' = given \cup ({m} \ {NoId})
        BY <1>1, <3>1
      <3> QED BY <1>1, <1>2, <2>1, <2>2, <3>1, <3>3, <3>4, <3>5, PeerKeeps
    <2>4. CASE PeerMakesTask(p)
      <3>1. PICK s \in TaskState, m \in Fresh \cup {NoId} :
                /\ tasks' = [tasks EXCEPT ![p] = [state |-> s, message |-> m]]
                /\ answer' = [answer EXCEPT ![p] = Snapshot(p, [state |-> s, message |-> m])]
                /\ given' = given \cup ({m} \ {NoId})
        BY <2>4 DEF PeerMakesTask
      <3> DEFINE tk == [state |-> s, message |-> m]
      <3>2. tk \in TaskRecord /\ tk.state = s /\ tk.message = m
        BY <1>1
      <3> HIDE DEF tk
      <3>3. /\ Snapshot(p, tk) \in Result /\ Snapshot(p, tk).kind = "task"
            /\ Snapshot(p, tk).task = p /\ Snapshot(p, tk).message = m
            /\ Snapshot(p, tk).err = "task-failed" => s = "failed"
        BY <1>1, <3>2 DEF Snapshot, Result
      <3>4. /\ answer' \in [Sender -> Result] /\ answer'[p] = Snapshot(p, tk)
            /\ \A q \in Sender \ {p} : answer'[q] = answer[q]
        BY <1>4, <3>1, <3>3 DEF tk
      <3>5. /\ tasks' \in [Sender -> TaskRecord] /\ tasks'[p] = tk
            /\ \A q \in Sender \ {p} : tasks'[q] = tasks[q]
        BY <1>5, <3>1, <3>2 DEF tk
      <3>6. /\ answer'[p].message = m /\ answer'[p].kind = "task" /\ answer'[p].task = p
            /\ answer'[p].err = "task-failed" => tasks'[p].state = "failed"
            /\ tasks'[p].message = m
        BY <3>2, <3>3, <3>4, <3>5
      <3> QED BY <1>2, <2>1, <2>2, <3>1, <3>4, <3>5, <3>6, PeerKeeps
    <2>5. CASE PeerGarbles(p)
      <3>1. answer' = [answer EXCEPT ![p] = Failure("protocol")] /\ UNCHANGED <<tasks, given>>
        BY <2>5 DEF PeerGarbles
      <3>2. Failure("protocol") \in Result
        BY DEF Failure, Result
      <3>3. /\ answer' \in [Sender -> Result] /\ answer'[p] = Failure("protocol")
            /\ \A q \in Sender \ {p} : answer'[q] = answer[q]
        BY <1>4, <3>1, <3>2
      <3>4. given' = given \cup ({NoId} \ {NoId}) /\ NoId \in Fresh \cup {NoId}
        BY <3>1
      <3>5. answer'[p].message = NoId /\ answer'[p].err = "protocol" /\ answer'[p].kind = "none"
        BY <3>3, FailureErr
      <3> QED BY <1>1, <1>2, <2>1, <2>2, <3>1, <3>3, <3>4, <3>5, PeerKeeps
    <2> QED BY <1>6, <2>3, <2>4, <2>5 DEF PeerHandles
  <1>7. CASE PeerRefuses(p)
    <2>1. /\ wire[p] = "sent" /\ wire' = [wire EXCEPT ![p] = "answered"]
          /\ UNCHANGED <<db, faulted, pc, result, storeErr, exit, handled, tasks, given, known, target>>
      BY <1>7 DEF PeerRefuses, store
    <2>2. /\ wire' \in [Sender -> {"none", "sent", "answered"}] /\ wire'[p] = "answered"
          /\ \A q \in Sender \ {p} : wire'[q] = wire[q]
      BY <1>3, <2>1
    <2>3. PICK err \in {"auth", "protocol"} : answer' = [answer EXCEPT ![p] = Failure(err)]
      BY <1>7 DEF PeerRefuses
    <2>4. Failure(err) \in Result
      BY DEF Failure, Result
    <2>5. /\ answer' \in [Sender -> Result] /\ answer'[p] = Failure(err)
          /\ \A q \in Sender \ {p} : answer'[q] = answer[q]
      BY <1>4, <2>3, <2>4
    <2>6. given' = given \cup ({NoId} \ {NoId}) /\ NoId \in Fresh \cup {NoId}
      BY <2>1
    <2>7. /\ answer'[p].message = NoId /\ answer'[p].err \in {"auth", "protocol"}
          /\ answer'[p].kind = "none"
      BY <2>5, FailureErr
    <2> QED BY <1>1, <1>2, <2>1, <2>2, <2>5, <2>6, <2>7, PeerKeeps
  <1>8. CASE PeerWorks(p)
    <2>1. /\ tasks[p].state = "running" /\ wire[p] = "answered"
          /\ answer[p].err # "task-failed" /\ (answer[p].kind = "task" => answer[p].task = p)
          /\ (answer[p].err \in {"none", "task-failed"} => p \in handled)
      BY <1>8 DEF PeerWorks, IInv, AnswerInv
    <2>2. PICK s \in TaskState, m \in Fresh \cup {NoId, tasks[p].message} :
              /\ tasks' = [tasks EXCEPT ![p] = [state |-> s, message |-> m]]
              /\ given' = given \cup ({m} \ {NoId})
      BY <1>8 DEF PeerWorks
    <2> DEFINE tk == [state |-> s, message |-> m]
               fresh == IF m \in Fresh THEN m ELSE NoId
    <2>3. tk \in TaskRecord /\ tk.message \in {fresh, NoId, tasks[p].message}
      BY <1>1, <2>2
    <2>4. given' = given \cup ({fresh} \ {NoId})
      BY <2>2 DEF IInv, OwnerInv, Owned
    <2>5. fresh \in Fresh \cup {NoId}
      OBVIOUS
    <2> HIDE DEF tk, fresh
    <2>6. /\ tasks' \in [Sender -> TaskRecord] /\ tasks'[p] = tk
          /\ \A q \in Sender \ {p} : tasks'[q] = tasks[q]
      BY <1>5, <2>2, <2>3 DEF tk
    <2>7. UNCHANGED <<db, faulted, pc, result, storeErr, exit, wire, answer, handled, known, target>>
      BY <1>8 DEF PeerWorks, store
    <2> QED BY <1>1, <2>1, <2>3, <2>4, <2>5, <2>6, <2>7, PeerKeeps
  <1> QED BY <1>6, <1>7, <1>8 DEF PeerStep

-----------------------------------------------------------------------------
(* Records.                                                                   *)

(* OneStory, with a name for the outcome events of a send.                    *)
OutcomeOf(q, i) == db.events[i].id[1] = q /\ db.events[i].id[2] # "send_started"

LEMMA StoryMeans ==
    /\ OneStory <=> \A q \in Sender \cap Storing : \A i \in DOMAIN db.events : OutcomeOf(q, i) =>
           /\ \E j \in 1 .. i - 1 : db.events[j].id = <<q, "send_started">>
           /\ \A j \in DOMAIN db.events : OutcomeOf(q, j) => i = j
    /\ OneStory' <=> \A q \in Sender \cap Storing : \A i \in DOMAIN db'.events : OutcomeOf(q, i)' =>
           /\ \E j \in 1 .. i - 1 : db'.events[j].id = <<q, "send_started">>
           /\ \A j \in DOMAIN db'.events : OutcomeOf(q, j)' => i = j
  BY DEF OneStory, OutcomeOf

(* An outcome event that is there is an outcome.                              *)
LEMMA OutcomeEvents ==
    ASSUME TypeOK, NEW q, NEW i \in DOMAIN db.events, OutcomeOf(q, i)
    PROVE  HasOutcome(q)
  <1>1. db.events[i].id \in Invocation \X EventType
    <2>1. db.events \in Seq(EventRow)
      BY DEF TypeOK, Tables
    <2>2. db.events[i] \in EventRow
      BY <2>1, ElementOfSeq, LenProperties
    <2> QED BY <2>2 DEF EventRow
  <1>2. db.events[i].id = <<q, db.events[i].id[2]>> /\ db.events[i].id[2] \in EventType
    BY <1>1 DEF OutcomeOf
  <1>3. db.events[i].id[2] \in EventType \ {"send_started"}
    BY <1>2 DEF OutcomeOf
  <1> QED BY <1>2, <1>3 DEF HasOutcome, HasEvent

(* A recorded event fits the story: it is the first of a send, or the outcome *)
(* of one that has started and has none.                                      *)
LEMMA RecordKeepsStory ==
    ASSUME TypeOK, OneStory, NEW p \in Invocation, NEW type \in EventType,
           NEW causation \in Sender \cup {NoId}, NEW messages \in Seq(MessageRow),
           Recorded(Batch(p, messages, Event(p, type, causation))),
           \/ type = "send_started"
           \/ p \in Waiter
           \/ HasEvent(p, "send_started") /\ ~HasOutcome(p)
    PROVE  OneStory'
  <1>1. PICK n \in Nat : /\ n = Len(db.events) /\ DOMAIN db.events = 1 .. n
                         /\ DOMAIN db'.events = 1 .. n + 1
                         /\ \A i \in 1 .. n : db'.events[i] = db.events[i]
                         /\ db'.events[n + 1].id = <<p, type>>
    BY RecordedEvents
  <1>2. \A i \in 1 .. n + 1 : i \in 1 .. n \/ i = n + 1
    OBVIOUS
  <1>3. \A q, i : i \in 1 .. n /\ OutcomeOf(q, i) => HasOutcome(q)
    BY <1>1, OutcomeEvents
  <1>4. \A q, i : i \in 1 .. n => (OutcomeOf(q, i)' <=> OutcomeOf(q, i))
    BY <1>1 DEF OutcomeOf
  <1>5. \A q : OutcomeOf(q, n + 1)' <=> q = p /\ type # "send_started"
    <2>1. <<p, type>>[1] = p /\ <<p, type>>[2] = type
      OBVIOUS
    <2> QED BY <1>1, <2>1 DEF OutcomeOf
  <1>6. ASSUME NEW q \in Sender \cap Storing, NEW i \in 1 .. n + 1, OutcomeOf(q, i)'
        PROVE  /\ \E j \in 1 .. i - 1 : db'.events[j].id = <<q, "send_started">>
               /\ \A j \in 1 .. n + 1 : OutcomeOf(q, j)' => i = j
    <2>1. q \notin Waiter
      BY InvocationAssumption
    <2>2. CASE i \in 1 .. n
      <3>1. OutcomeOf(q, i) /\ HasOutcome(q)
        BY <1>3, <1>4, <1>6, <2>2
      <3>2. /\ \E j \in 1 .. i - 1 : db.events[j].id = <<q, "send_started">>
            /\ \A j \in 1 .. n : OutcomeOf(q, j) => i = j
        BY <1>1, <2>2, <3>1, StoryMeans
      <3>3. ~OutcomeOf(q, n + 1)'
        BY <1>5, <2>1, <3>1
      <3>4. \A j \in 1 .. i - 1 : db'.events[j] = db.events[j]
        BY <1>1, <2>2
      <3> QED BY <1>2, <1>4, <3>2, <3>3, <3>4
    <2>3. CASE i = n + 1
      <3>1. q = p /\ HasEvent(p, "send_started") /\ ~HasOutcome(p)
        BY <1>5, <1>6, <2>1, <2>3
      <3>2. PICK j \in 1 .. n : db.events[j].id = <<p, "send_started">>
        BY <1>1, <3>1 DEF HasEvent
      <3>3. j \in 1 .. i - 1 /\ db'.events[j].id = <<q, "send_started">>
        BY <1>1, <2>3, <3>1, <3>2
      <3>4. \A k \in 1 .. n : ~OutcomeOf(q, k)'
        BY <1>3, <1>4, <3>1
      <3> QED BY <1>2, <2>3, <3>3, <3>4
    <2> QED BY <1>2, <2>2, <2>3
  <1> QED BY <1>1, <1>6, StoryMeans

(* A message row of q is in the tables, and stays where it is.                *)
LEMMA RecordKeepsReplies ==
    ASSUME TypeOK, ReplyWithOutcome, NEW p \in Invocation, NEW id \in Invocation \cup PeerMessage,
           NEW parent \in Sender \cup {NoId}, NEW event \in EventRow,
           Recorded(Batch(p, <<MessageOf(p, id, parent)>>, event)),
           parent \in Storing => HasMessage(parent)
    PROVE  \A q \in Sender \cap Storing :
               /\ Replies(q)' = IF parent = q THEN Replies(q) \cup {Len(db.messages) + 1} ELSE Replies(q)
               /\ \A i \in Replies(q)' : \E j \in 1 .. i - 1 : db'.messages[j].id = q
  <1>1. PICK n \in Nat : /\ n = Len(db.messages) /\ DOMAIN db.messages = 1 .. n
                         /\ DOMAIN db'.messages = 1 .. n + 1
                         /\ \A i \in 1 .. n : db'.messages[i] = db.messages[i]
                         /\ db'.messages[n + 1].text.parent = parent
    BY RecordedMessage
  <1> SUFFICES ASSUME NEW q \in Sender \cap Storing
               PROVE  /\ Replies(q)' = IF parent = q THEN Replies(q) \cup {n + 1} ELSE Replies(q)
                      /\ \A i \in Replies(q)' : \E j \in 1 .. i - 1 : db'.messages[j].id = q
    BY <1>1
  <1>2. \A i \in 1 .. n + 1 : i \in 1 .. n \/ i = n + 1
    BY <1>1
  <1>3. n + 1 \in 1 .. n + 1 /\ \A i \in 1 .. n : i \in 1 .. n + 1
    BY <1>1
  <1>4. Replies(q)' = IF parent = q THEN Replies(q) \cup {n + 1} ELSE Replies(q)
    BY <1>1, <1>2, <1>3 DEF Replies
  <1>5. ASSUME NEW i \in Replies(q)
        PROVE  \E j \in 1 .. i - 1 : db'.messages[j].id = q
    <2>1. i \in 1 .. n /\ \E j \in 1 .. i - 1 : db.messages[j].id = q
      BY <1>1, ReplyMeans DEF Answered, Replies
    <2>2. \A j \in 1 .. i - 1 : db'.messages[j] = db.messages[j]
      BY <1>1, <2>1
    <2> QED BY <2>1, <2>2
  <1>6. ASSUME parent = q
        PROVE  \E j \in 1 .. (n + 1) - 1 : db'.messages[j].id = q
    <2>1. PICK j \in 1 .. n : db.messages[j].id = q
      BY <1>1, <1>6 DEF HasMessage
    <2> QED BY <1>1, <2>1
  <1> QED BY <1>4, <1>5, <1>6

(* A send records what it is about to send.  Its first rows are in the store  *)
(* when it comes to its call.                                                 *)
LEMMA StartKeeps ==
    ASSUME IInv, NEW p \in Invocation, Start(p)
    PROVE  IInv'
  <1>1. /\ pc[p] = "start" /\ p \in Sender /\ p \notin Waiter
        /\ UNCHANGED <<faulted, answer, handled, tasks, given, result, storeErr, exit, wire, known, target>>
    BY InvocationAssumption DEF Start, peer
  <1>2. /\ pc' \in [Invocation -> Place] /\ pc'[p] = "call"
        /\ \A q \in Invocation \ {p} : pc'[q] = pc[q]
    BY GotoFacts DEF Place, IInv, Start
  <1>3. /\ db' \in Tables /\ UniqueKeys(db)' /\ OneStory'
        /\ \A q, t : HasEvent(q, t)' <=> HasEvent(q, t) \/ (p \in Storing /\ q = p /\ t = "send_started")
        /\ \A q : HasOutcome(q)' <=> HasOutcome(q)
        /\ \A m : HasMessage(m)' <=> HasMessage(m) \/ (p \in Storing /\ m = p)
        /\ \A q \in Sender \cap Storing :
              /\ Replies(q)' = Replies(q)
              /\ \A i \in Replies(q)' : \E j \in 1 .. i - 1 : db'.messages[j].id = q
        /\ \A i \in DOMAIN db'.messages : db'.messages[i].id \in Invocation
              \/ (i \in DOMAIN db.messages /\ db'.messages[i] = db.messages[i])
    <2>1. CASE p \notin Storing
      <3>1. UNCHANGED db
        BY <2>1 DEF Start
      <3> QED BY <2>1, <3>1, SameTables, ReplyMeans DEF IInv, TypeOK, Replies, Answered
    <2>2. CASE p \in Storing
      <3> DEFINE messages == <<MessageOf(p, p, NoId)>>
                 event == Event(p, "send_started", p)
      <3>1. Recorded(Batch(p, messages, event)) /\ TypeOK /\ OneStory /\ ReplyWithOutcome
        BY <2>2 DEF Start, StartBatch, IInv
      <3>2. /\ MessageOf(p, p, NoId) \in MessageRow /\ event \in EventRow
            /\ "send_started" \in EventType /\ p \in Sender \cup {NoId}
        BY <1>1, <3>1, RowTypes DEF EventType
      <3>3. messages \in Seq(MessageRow)
        BY <3>2
      <3>4. db' \in Tables /\ UniqueKeys(db)'
        BY <3>1, <3>2, <3>3, RecordedTables
      <3>5. OneStory'
        BY <3>1, <3>2, <3>3, RecordKeepsStory
      <3>6. /\ \A q, t : HasEvent(q, t)' <=> HasEvent(q, t) \/ (q = p /\ t = "send_started")
            /\ \A q : HasOutcome(q)' <=> HasOutcome(q)
        BY <3>1, <3>2, <3>3, RecordedEvents
      <3>7. /\ \A m : HasMessage(m)' <=> HasMessage(m) \/ m = p
            /\ \A i \in DOMAIN db'.messages : db'.messages[i].id \in Invocation
                  \/ (i \in DOMAIN db.messages /\ db'.messages[i] = db.messages[i])
        <4>1. /\ \A m : HasMessage(m)' <=> HasMessage(m) \/ m = p
              /\ DOMAIN db.messages = 1 .. Len(db.messages) /\ Len(db.messages) \in Nat
              /\ DOMAIN db'.messages = 1 .. Len(db.messages) + 1
              /\ \A i \in DOMAIN db.messages : db'.messages[i] = db.messages[i]
              /\ db'.messages[Len(db.messages) + 1].id = p
          BY <3>1, <3>2, RecordedMessage
        <4>2. \A i \in DOMAIN db'.messages : i \in DOMAIN db.messages \/ i = Len(db.messages) + 1
          BY <4>1
        <4> QED BY <4>1, <4>2
      <3>8. NoId \notin Storing /\ NoId \notin Sender
        BY InvocationAssumption DEF Invocation
      <3>9. \A q \in Sender \cap Storing :
                /\ Replies(q)' = Replies(q)
                /\ \A i \in Replies(q)' : \E j \in 1 .. i - 1 : db'.messages[j].id = q
        BY <3>1, <3>2, <3>8, RecordKeepsReplies
      <3> HIDE DEF messages, event
      <3> QED BY <2>2, <3>4, <3>5, <3>6, <3>7, <3>9
    <2> QED BY <2>1, <2>2
  <1>4. TypeOK'
    BY <1>1, <1>2, <1>3 DEF IInv, TypeOK
  <1>5. PlaceInv'
    BY <1>1, <1>2 DEF IInv, PlaceInv, Invocation
  <1>6. KnownInv' /\ TargetInv'
    BY <1>1, <1>2 DEF IInv, TypeOK, KnownInv, TargetInv, Invocation
  <1>7. StartedInv'
    BY <1>1, <1>2, <1>3 DEF IInv, StartedInv, Invocation
  <1>8. OutcomeInv'
    BY <1>1, <1>2, <1>3 DEF IInv, OutcomeInv, Done
  <1>9. AnswerInv'
    BY <1>1 DEF IInv, AnswerInv
  <1>10. SendResultInv' /\ WaitResultInv'
    BY <1>1, <1>2 DEF IInv, SendResultInv, WaitResultInv, Invocation
  <1>11. OwnerInv'
    <2>1. PICK owner \in [given -> Sender] : Owned(owner)
      BY DEF IInv, OwnerInv
    <2>2. \A i \in DOMAIN db'.messages : db'.messages[i].id \notin Invocation =>
              /\ db'.messages[i].id \in given
              /\ pc'[owner[db'.messages[i].id]] \in Done
      BY <1>1, <1>2, <1>3, <2>1 DEF Owned, Done, Invocation
    <2>3. Owned(owner)'
      BY <1>1, <2>1, <2>2 DEF Owned
    <2> QED BY <1>1, <2>1, <2>3 DEF OwnerInv
  <1>12. ReplyWithOutcome'
    <2>1. ASSUME NEW q \in Sender \cap Storing PROVE Answered(q)'
      BY <1>1, <1>3, ReplyMeans DEF IInv, Answered
    <2> QED BY <2>1, ReplyMeans
  <1>13. CompletedMeansHandled'
    BY <1>1, <1>3 DEF IInv, CompletedMeansHandled
  <1>14. ExitTellsTruth' /\ SendRecordsOutcome'
    BY <1>1, <1>3 DEF IInv, ExitTellsTruth, SendRecordsOutcome
  <1> QED BY <1>3, <1>4, <1>5, <1>6, <1>7, <1>8, <1>9, <1>10, <1>11, <1>12, <1>13, <1>14 DEF IInv

-----------------------------------------------------------------------------
(* The outcome.                                                               *)

(* The event of an outcome, and what it and the peer's message refer to.      *)
OutcomeType(p) ==
    IF p \in Waiter THEN "wait_finished"
    ELSE IF result[p].err = "none" THEN "send_completed" ELSE "send_failed"
Cause(p) == IF p \in Waiter THEN NoId ELSE p

LEMMA OutcomeBatchMeans ==
    ASSUME NEW p \in Invocation
    PROVE  /\ OutcomeBatch(p) = Batch(p, PeerRow(p, Cause(p)), Event(p, OutcomeType(p), Cause(p)))
           /\ OutcomeType(p) \in EventType \ {"send_started"}
           /\ Cause(p) \in Sender \cup {NoId}
  <1>1. CASE p \in Waiter
    BY <1>1 DEF OutcomeBatch, OutcomeType, Cause, EventType
  <1>2. CASE p \notin Waiter
    <2>1. OutcomeBatch(p) = Batch(p, PeerRow(p, p), Event(p, OutcomeType(p), p))
      BY <1>2 DEF OutcomeBatch, OutcomeType
    <2>2. OutcomeType(p) \in EventType \ {"send_started"}
      BY <1>2 DEF OutcomeType, EventType
    <2> QED BY <1>2, <2>1, <2>2 DEF Cause, Invocation
  <1> QED BY <1>1, <1>2

(* The record of a send's outcome meets no row of anybody's: its event is the *)
(* first of its kind, and its reply was given to this send alone, which has   *)
(* not recorded it yet.                                                       *)
LEMMA SendsDoNotConflict ==
    ASSUME IInv, NEW p \in Sender, pc[p] = "finish"
    PROVE  ~Conflicts(OutcomeBatch(p))
  <1> DEFINE row == [id |-> Scope[p], text |-> [flags |-> p]]
             messages == PeerRow(p, Cause(p))
             event == Event(p, OutcomeType(p), Cause(p))
             later == Apply(db, OutcomeBatch(p))
  <1>1. /\ p \in Invocation /\ TypeOK /\ UniqueKeys(db)
        /\ db.messages \in Seq(MessageRow) /\ db.events \in Seq(EventRow)
        /\ DOMAIN db.messages = 1 .. Len(db.messages) /\ DOMAIN db.events = 1 .. Len(db.events)
        /\ Len(db.messages) \in Nat /\ Len(db.events) \in Nat
    BY LenProperties DEF IInv, TypeOK, Tables, Invocation
  <1>2. /\ event \in EventRow /\ event.id = <<p, OutcomeType(p)>> /\ event.conversation = Scope[p]
        /\ OutcomeType(p) \in EventType \ {"send_started"}
    BY <1>1, RowTypes, OutcomeBatchMeans DEF Event
  <1>3. /\ later.conversations = EnsureRow(db, row).conversations
        /\ later.messages = db.messages \o messages
        /\ later.events = db.events \o <<event>>
    <2>1. OutcomeBatch(p) = Batch(p, messages, event)
      BY <1>1, OutcomeBatchMeans
    <2> HIDE DEF event, messages
    <2>2. /\ OutcomeBatch(p).op = "record" /\ OutcomeBatch(p).conversation = row
          /\ OutcomeBatch(p).messages = messages /\ OutcomeBatch(p).events = <<event>>
      BY <2>1 DEF Batch
    <2> HIDE DEF row
    <2> QED BY <2>2 DEF Apply
  <1> HIDE DEF later, event, messages
  <1>4. \A r, s \in later.conversations : r.id = s.id => r = s
    <2>1. row.id = Scope[p]
      OBVIOUS
    <2>2. CASE HasConversation(db, row.id)
      <3>1. later.conversations = db.conversations
        BY <1>3, <2>2 DEF EnsureRow
      <3> QED BY <1>1, <2>1, <2>2, <3>1 DEF UniqueKeys, HasConversation
    <2>3. CASE ~HasConversation(db, row.id)
      <3>1. later.conversations = db.conversations \cup {row}
        <4>1. db \in Tables
          BY <1>1 DEF TypeOK
        <4> QED BY <1>3, <2>3, <4>1 DEF EnsureRow, Tables
      <3> HIDE DEF row
      <3> QED BY <1>1, <2>1, <2>3, <3>1 DEF UniqueKeys, HasConversation
    <2> QED BY <2>2, <2>3
  <1>5. UniqueIds(later.events)
    <2>1. \A i \in DOMAIN db.events : db.events[i].id # <<p, OutcomeType(p)>>
      BY <1>1, <1>2 DEF IInv, OutcomeInv, HasOutcome, HasEvent, Done
    <2>2. /\ DOMAIN later.events = 1 .. Len(db.events) + 1
          /\ \A i \in DOMAIN db.events : later.events[i] = db.events[i]
          /\ later.events[Len(db.events) + 1] = event
      BY <1>1, <1>2, <1>3, OneMore
    <2>3. \A i \in DOMAIN later.events : i \in DOMAIN db.events \/ i = Len(db.events) + 1
      BY <1>1, <2>2
    <2> QED BY <1>1, <1>2, <1>4, <2>1, <2>2, <2>3 DEF UniqueKeys, UniqueIds
  <1>6. UniqueIds(later.messages)
    <2>1. CASE result[p].message = NoId
      <3>1. later.messages = db.messages
        BY <1>1, <1>3, <2>1, ConcatEmptySeq DEF messages, PeerRow
      <3> QED BY <1>1, <1>4, <3>1 DEF UniqueKeys
    <2>2. CASE result[p].message # NoId
      <3> DEFINE message == MessageOf(p, result[p].message, Cause(p))
      <3>1. messages = <<message>>
        BY <2>2 DEF messages, PeerRow
      <3>2. result[p].message \in PeerMessage
        BY <1>1, <2>2 DEF TypeOK, Result
      <3>3. message \in MessageRow /\ message.id = result[p].message /\ message.conversation = Scope[p]
        BY <1>1, <3>2, RowTypes, OutcomeBatchMeans DEF MessageOf
      <3>4. \A i \in DOMAIN db.messages : db.messages[i].id # result[p].message
        <4>1. PICK owner \in [given -> Sender] : Owned(owner)
          BY DEF IInv, OwnerInv
        <4>2. owner[result[p].message] = p /\ pc[p] \notin Done
          BY <2>2, <4>1 DEF Owned, Done
        <4>3. result[p].message \notin Invocation
          BY <3>2, InvocationAssumption
        <4> QED BY <4>1, <4>2, <4>3 DEF Owned
      <3> HIDE DEF message
      <3>5. /\ DOMAIN later.messages = 1 .. Len(db.messages) + 1
            /\ \A i \in DOMAIN db.messages : later.messages[i] = db.messages[i]
            /\ later.messages[Len(db.messages) + 1] = message
        BY <1>1, <1>3, <3>1, <3>3, OneMore
      <3>6. \A i \in DOMAIN later.messages : i \in DOMAIN db.messages \/ i = Len(db.messages) + 1
        BY <1>1, <3>5
      <3> QED BY <1>1, <1>4, <3>3, <3>4, <3>5, <3>6 DEF UniqueKeys, UniqueIds
    <2> QED BY <2>1, <2>2
  <1>7. UniqueKeys(later)
    BY <1>4, <1>5, <1>6 DEF UniqueKeys
  <1> QED BY <1>7 DEF later, Conflicts

(* What the record of an outcome does to the messages: the peer's message is  *)
(* added if there is one, as the only reply to this send.                     *)
LEMMA OutcomeMessages ==
    ASSUME IInv, NEW p \in Invocation, pc[p] = "finish", Recorded(OutcomeBatch(p))
    PROVE  /\ \A m : HasMessage(m) => HasMessage(m)'
           /\ \A i \in DOMAIN db'.messages :
                 \/ result[p].message # NoId /\ db'.messages[i].id = result[p].message
                 \/ i \in DOMAIN db.messages /\ db'.messages[i] = db.messages[i]
           /\ \A q \in Sender \cap Storing :
                 /\ q # p => Replies(q)' = Replies(q)
                 /\ q = p => Cardinality(Replies(q))' = IF result[p].message = NoId THEN 0 ELSE 1
                 /\ \A i \in Replies(q)' : \E j \in 1 .. i - 1 : db'.messages[j].id = q
  <1>1. /\ TypeOK /\ ReplyWithOutcome /\ Cause(p) \in Sender \cup {NoId}
        /\ Event(p, OutcomeType(p), Cause(p)) \in EventRow
        /\ Recorded(Batch(p, PeerRow(p, Cause(p)), Event(p, OutcomeType(p), Cause(p))))
    BY OutcomeBatchMeans, RowTypes DEF IInv
  <1>2. p \in Sender => Cause(p) = p /\ HasMessage(p) /\ p \in Storing
    BY InvocationAssumption DEF IInv, PlaceInv, StartedInv, Cause
  <1>3. p \notin Sender => Cause(p) = NoId /\ NoId \notin Sender
    BY InvocationAssumption DEF Cause, Invocation
  <1>4. p \in Sender => Replies(p) = {}
    BY <1>1, <1>2, ReplyMeans DEF IInv, OutcomeInv, Done, Answered
  <1>5. CASE result[p].message = NoId
    <2>1. db'.messages = db.messages
      BY <1>1, <1>5, RecordedNoMessage DEF PeerRow
    <2>2. /\ \A q : Replies(q)' = Replies(q)
          /\ \A m : HasMessage(m)' <=> HasMessage(m)
      BY <2>1 DEF Replies, HasMessage
    <2>3. Cardinality({}) = 0
      BY FS_EmptySet
    <2>4. p \in Sender => Cardinality(Replies(p))' = 0
      BY <1>4, <2>2, <2>3
    <2>5. \A q \in Sender \cap Storing :
              \A i \in Replies(q)' : \E j \in 1 .. i - 1 : db'.messages[j].id = q
      BY <1>1, <2>1, <2>2, ReplyMeans DEF Answered
    <2> QED BY <1>5, <2>1, <2>2, <2>4, <2>5
  <1>6. CASE result[p].message # NoId
    <2>1. result[p].message \in Invocation \cup PeerMessage
      BY <1>1, <1>6 DEF TypeOK, Result
    <2>2. Recorded(Batch(p, <<MessageOf(p, result[p].message, Cause(p))>>,
                         Event(p, OutcomeType(p), Cause(p))))
      BY <1>1, <1>6 DEF PeerRow
    <2>3. PICK n \in Nat : /\ n = Len(db.messages)
                           /\ DOMAIN db.messages = 1 .. n /\ DOMAIN db'.messages = 1 .. n + 1
                           /\ \A i \in DOMAIN db.messages : db'.messages[i] = db.messages[i]
                           /\ db'.messages[n + 1].id = result[p].message
                           /\ \A m : HasMessage(m) => HasMessage(m)'
      BY <1>1, <2>1, <2>2, RecordedMessage
    <2>4. \A i \in DOMAIN db'.messages : i \in DOMAIN db.messages \/ i = n + 1
      BY <2>3
    <2>5. Cause(p) \in Storing => HasMessage(Cause(p))
      BY <1>2, <1>3, InvocationAssumption DEF Invocation
    <2>6. \A q \in Sender \cap Storing :
              /\ Replies(q)' = IF Cause(p) = q THEN Replies(q) \cup {n + 1} ELSE Replies(q)
              /\ \A i \in Replies(q)' : \E j \in 1 .. i - 1 : db'.messages[j].id = q
      <3> DEFINE event == Event(p, OutcomeType(p), Cause(p))
                 id == result[p].message
      <3>1. /\ TypeOK /\ ReplyWithOutcome /\ Cause(p) \in Sender \cup {NoId}
            /\ event \in EventRow /\ id \in Invocation \cup PeerMessage
            /\ Recorded(Batch(p, <<MessageOf(p, id, Cause(p))>>, event))
        BY <1>1, <2>1, <2>2
      <3> HIDE DEF event, id
      <3>2. \A q \in Sender \cap Storing :
                /\ Replies(q)' = IF Cause(p) = q THEN Replies(q) \cup {Len(db.messages) + 1} ELSE Replies(q)
                /\ \A i \in Replies(q)' : \E j \in 1 .. i - 1 : db'.messages[j].id = q
        BY <2>5, <3>1, RecordKeepsReplies
      <3> QED BY <2>3, <3>2
    <2>7. \A q \in Sender \cap Storing : q # p => Replies(q)' = Replies(q)
      BY <1>2, <1>3, <2>6
    <2>8. p \in Sender => Replies(p)' = {n + 1}
      BY <1>2, <1>4, <2>6
    <2>9. p \in Sender => Cardinality(Replies(p))' = 1
      BY <2>8, FS_Singleton
    <2> QED BY <1>6, <2>3, <2>4, <2>6, <2>7, <2>9
  <1> QED BY <1>5, <1>6

LEMMA RecordOutcomeKeeps ==
    ASSUME IInv, NEW p \in Invocation, RecordOutcome(p)
    PROVE  IInv'
  <1>1. /\ pc[p] = "finish" /\ Recorded(OutcomeBatch(p))
        /\ UNCHANGED <<faulted, answer, handled, tasks, given, result, storeErr, exit, wire, known, target>>
    BY DEF RecordOutcome, peer
  <1>2. /\ pc' \in [Invocation -> Place] /\ pc'[p] = "report"
        /\ \A q \in Invocation \ {p} : pc'[q] = pc[q]
    BY GotoFacts DEF Place, IInv, RecordOutcome
  <1>3. /\ p \in Storing /\ ~HasOutcome(p) /\ ~storeErr[p]
        /\ p \in Sender => HasMessage(p) /\ HasEvent(p, "send_started")
    BY <1>1 DEF IInv, PlaceInv, OutcomeInv, StartedInv, Done
  <1>4. /\ \A m : HasMessage(m) => HasMessage(m)'
        /\ \A i \in DOMAIN db'.messages :
              \/ result[p].message # NoId /\ db'.messages[i].id = result[p].message
              \/ i \in DOMAIN db.messages /\ db'.messages[i] = db.messages[i]
        /\ \A q \in Sender \cap Storing :
              /\ q # p => Replies(q)' = Replies(q)
              /\ q = p => Cardinality(Replies(q))' = IF result[p].message = NoId THEN 0 ELSE 1
              /\ \A i \in Replies(q)' : \E j \in 1 .. i - 1 : db'.messages[j].id = q
    BY <1>1, OutcomeMessages
  <1>5. /\ db' \in Tables /\ UniqueKeys(db)' /\ OneStory'
        /\ \A q, t : HasEvent(q, t)' <=> HasEvent(q, t) \/ (q = p /\ t = OutcomeType(p))
        /\ \A q : HasOutcome(q)' <=> HasOutcome(q) \/ q = p
    <2>1. /\ TypeOK /\ OneStory
          /\ OutcomeType(p) \in EventType \ {"send_started"} /\ Cause(p) \in Sender \cup {NoId}
          /\ Event(p, OutcomeType(p), Cause(p)) \in EventRow
          /\ Recorded(Batch(p, PeerRow(p, Cause(p)), Event(p, OutcomeType(p), Cause(p))))
      BY <1>1, OutcomeBatchMeans, RowTypes DEF IInv
    <2>2. PeerRow(p, Cause(p)) \in Seq(MessageRow)
      <3>1. CASE result[p].message = NoId
        BY <3>1 DEF PeerRow
      <3>2. CASE result[p].message # NoId
        <4>1. result[p].message \in PeerMessage
          BY <2>1, <3>2 DEF TypeOK, Result
        <4>2. MessageOf(p, result[p].message, Cause(p)) \in MessageRow
          BY <2>1, <4>1, RowTypes
        <4> QED BY <3>2, <4>2 DEF PeerRow
      <3> QED BY <3>1, <3>2
    <2>3. db' \in Tables /\ UniqueKeys(db)'
      BY <2>1, <2>2, RecordedTables
    <2>4. OneStory'
      BY <1>3, <2>1, <2>2, RecordKeepsStory DEF Invocation
    <2>5. /\ \A q, t : HasEvent(q, t)' <=> HasEvent(q, t) \/ (q = p /\ t = OutcomeType(p))
          /\ \A q : HasOutcome(q)' <=> HasOutcome(q) \/ q = p
      BY <2>1, <2>2, RecordedEvents
    <2> QED BY <2>3, <2>4, <2>5
  <1>6. TypeOK'
    BY <1>1, <1>2, <1>5 DEF IInv, TypeOK
  <1>7. PlaceInv'
    BY <1>1, <1>2 DEF IInv, PlaceInv, Invocation
  <1>8. KnownInv' /\ TargetInv'
    BY <1>1, <1>2 DEF IInv, TypeOK, KnownInv, TargetInv, Invocation
  <1>9. StartedInv'
    BY <1>1, <1>2, <1>4, <1>5 DEF IInv, StartedInv, Invocation
  <1>10. OutcomeInv'
    BY <1>1, <1>2, <1>3, <1>5 DEF IInv, OutcomeInv, Done
  <1>11. AnswerInv'
    BY <1>1 DEF IInv, AnswerInv
  <1>12. SendResultInv' /\ WaitResultInv'
    BY <1>1, <1>2 DEF IInv, SendResultInv, WaitResultInv, Invocation
  <1>13. OwnerInv'
    <2>1. PICK owner \in [given -> Sender] : Owned(owner)
      BY DEF IInv, OwnerInv
    <2>2. result[p].message # NoId =>
              /\ result[p].message \in given
              /\ pc'[owner[result[p].message]] \in Done
      <3>1. ASSUME p \in Sender, result[p].message # NoId
            PROVE  result[p].message \in given /\ pc'[owner[result[p].message]] \in Done
        BY <1>2, <2>1, <3>1 DEF Owned, Done
      <3>2. ASSUME p \in Waiter, result[p].message # NoId
            PROVE  result[p].message \in given /\ pc'[owner[result[p].message]] \in Done
        <4>1. result[p].message \in given /\ owner[result[p].message] = target[p]
          BY <2>1, <3>2 DEF Owned
        <4>2. target[p] \in known
          BY <1>1, <3>2 DEF IInv, TargetInv
        <4>3. pc[target[p]] = "exited" /\ target[p] \in Invocation
          BY <4>2 DEF IInv, KnownInv, TypeOK, Invocation
        <4>4. pc'[target[p]] = "exited"
          BY <1>1, <1>2, <4>3
        <4> QED BY <4>1, <4>4 DEF Done
      <3> QED BY <3>1, <3>2 DEF Invocation
    <2>3. \A i \in DOMAIN db'.messages : db'.messages[i].id \notin Invocation =>
              /\ db'.messages[i].id \in given
              /\ pc'[owner[db'.messages[i].id]] \in Done
      BY <1>2, <1>4, <2>1, <2>2 DEF Owned, Done, Invocation
    <2>4. Owned(owner)'
      BY <1>1, <2>1, <2>3 DEF Owned
    <2> QED BY <1>1, <2>1, <2>4 DEF OwnerInv
  <1>14. ReplyWithOutcome'
    <2>1. ASSUME NEW q \in Sender \cap Storing PROVE Answered(q)'
      BY <1>1, <1>4, <1>5, ReplyMeans DEF IInv, Answered
    <2> QED BY <2>1, ReplyMeans
  <1>15. CompletedMeansHandled'
    <2>1. ASSUME p \in Sender, OutcomeType(p) = "send_completed" PROVE p \in handled
      <3>1. result[p].err = "none"
        BY <2>1, InvocationAssumption DEF OutcomeType
      <3>2. wire[p] = "answered" /\ result[p] = answer[p]
        BY <1>1, <2>1, <3>1, FailureErr DEF IInv, SendResultInv
      <3> QED BY <2>1, <3>1, <3>2 DEF IInv, AnswerInv
    <2> QED BY <1>1, <1>5, <2>1 DEF IInv, CompletedMeansHandled
  <1>16. ExitTellsTruth'
    <2>1. exit[p] = Running
      BY <1>1 DEF IInv, TypeOK
    <2>2. Running \notin {ExitOK, ExitCode("task-failed"), ExitStore}
      BY DEF Running, ExitOK, ExitCode, ExitStore
    <2> QED BY <1>1, <1>5, <2>1, <2>2 DEF IInv, ExitTellsTruth
  <1>17. SendRecordsOutcome'
    BY <1>1, <1>5 DEF IInv, SendRecordsOutcome
  <1> QED BY <1>5, <1>6, <1>7, <1>8, <1>9, <1>10, <1>11, <1>12, <1>13, <1>14, <1>15, <1>16, <1>17
          DEF IInv

-----------------------------------------------------------------------------
(* The steps of an invocation.                                                *)
LEMMA StepKeeps ==
    ASSUME IInv, NEW p \in Invocation, Step(p)
    PROVE  IInv'
  <1> USE DEF store, peer
  <1>1. CASE RejectArguments(p)
    <2>1. /\ pc[p] = "start" /\ Exit(p, ExitCode("usage"))
          /\ UNCHANGED <<db, faulted, peer, result, storeErr, wire, known, target>>
      BY <1>1 DEF RejectArguments
    <2>2. faulted \subseteq Storing /\ known \subseteq Sender
      BY DEF IInv, TypeOK
    <2>3. /\ ExitCode("usage") \in 0..6
          /\ ExitCode("usage") \notin {ExitOK, ExitStore, ExitCode("task-failed")}
      BY CodeFacts
    <2> QED BY <2>1, <2>2, <2>3, ExitKeeps
  <1>2. CASE StoreRefuses(p)
    <2>1. /\ pc[p] = "start" /\ p \in Storing /\ Exit(p, ExitStore)
          /\ faulted' = faulted \cup {p}
          /\ UNCHANGED <<db, peer, result, storeErr, wire, known, target>>
      BY <1>2 DEF StoreRefuses
    <2>2. faulted \subseteq Storing /\ known \subseteq Sender
      BY DEF IInv, TypeOK
    <2>3. ExitStore \in 0..6 /\ ExitStore \notin {ExitOK, ExitCode("task-failed")}
      BY CodeFacts
    <2> QED BY <2>1, <2>2, <2>3, ExitKeeps
  <1>3. CASE Start(p)
    BY <1>3, StartKeeps
  <1>4. CASE BadEndpoint(p)
    <2>1. Failure("usage") \in Result
      BY DEF Failure, Result
    <2>2. p \in Sender /\ p \notin Waiter
      BY <1>4, InvocationAssumption DEF BadEndpoint, IInv, PlaceInv
    <2> QED BY <1>4, <2>1, <2>2, CallReturnsKeeps DEF BadEndpoint
  <1>5. CASE SendRequest(p)
    BY <1>5, SendRequestKeeps
  <1>6. CASE Receive(p)
    <2>1. p \in Sender /\ p \notin Waiter
      BY <1>6, InvocationAssumption DEF Receive, IInv, PlaceInv
    <2>2. answer[p] \in Result
      BY <2>1 DEF IInv, TypeOK
    <2> QED BY <1>6, <2>1, <2>2, CallReturnsKeeps DEF Receive
  <1>7. CASE SendLost(p)
    <2>1. Failure("transport") \in Result
      BY DEF Failure, Result
    <2>2. p \in Sender /\ p \notin Waiter
      BY <1>7, InvocationAssumption DEF SendLost, IInv, PlaceInv
    <2> QED BY <1>7, <2>1, <2>2, CallReturnsKeeps DEF SendLost
  <1>8. CASE StartWait(p)
    BY <1>8, StartWaitKeeps
  <1>9. CASE PollsSeeTerminal(p)
    <2> DEFINE t == target[p]
               r == Snapshot(t, tasks[t])
    <2>1. p \in Waiter /\ p \notin Sender /\ t \in Sender
      BY <1>9, InvocationAssumption DEF PollsSeeTerminal, IInv, PlaceInv, TargetInv, TypeOK
    <2>2. /\ tasks[t] \in [state : TaskState \cup {"none"}, message : PeerMessage \cup {NoId}]
          /\ tasks[t].state \in {"completed", "failed"}
      BY <1>9, <2>1 DEF PollsSeeTerminal, IInv, TypeOK
    <2>3. /\ r \in Result /\ r.kind = "task" /\ r.task = t /\ r.message = tasks[t].message
          /\ r.err = "none" => tasks[t].state = "completed"
          /\ r.err = "task-failed" => tasks[t].state = "failed"
      BY <2>1, <2>2 DEF Snapshot, Result
    <2> HIDE DEF r
    <2>4. /\ CallReturns(p, r) /\ pc[p] = "poll"
          /\ UNCHANGED <<store, peer, storeErr, exit, wire, known, target>>
      BY <1>9 DEF PollsSeeTerminal, r
    <2> QED BY <2>1, <2>3, <2>4, CallReturnsKeeps
  <1>10. CASE PollsFail(p)
    <2>1. p \in Waiter /\ p \notin Sender
      BY <1>10, InvocationAssumption DEF PollsFail, IInv, PlaceInv
    <2>2. PICK err \in {"usage", "auth", "protocol", "transport"} : CallReturns(p, Failure(err))
      BY <1>10 DEF PollsFail
    <2>3. Failure(err) \in Result
      BY DEF Failure, Result
    <2> QED BY <1>10, <2>1, <2>2, <2>3, FailureErr, CallReturnsKeeps DEF PollsFail
  <1>11. CASE RecordOutcome(p)
    BY <1>11, RecordOutcomeKeeps
  <1>12. CASE OutcomeConflicts(p)
    <2>1. p \notin Sender
      BY <1>12, SendsDoNotConflict DEF OutcomeConflicts
    <2> QED BY <1>12, <2>1, RecordFailsKeeps DEF OutcomeConflicts, IInv, TypeOK
  <1>13. CASE OutcomeFaults(p)
    <2>1. p \in Storing
      BY <1>13 DEF OutcomeFaults, IInv, PlaceInv
    <2> QED BY <1>13, <2>1, RecordFailsKeeps DEF OutcomeFaults, IInv, TypeOK
  <1>14. CASE Report(p)
    <2>1. /\ pc[p] = "report" /\ Exit(p, FinalCode(p))
          /\ known' = known \cup (IF result[p].kind = "task" THEN {result[p].task} ELSE {})
          /\ UNCHANGED <<db, faulted, peer, result, storeErr, wire, target>>
      BY <1>14 DEF Report
    <2>2. result[p].err \in {"none", "usage", "auth", "protocol", "task-failed", "transport"}
      BY DEF IInv, TypeOK, Result
    <2>3. /\ FinalCode(p) \in 0..6
          /\ FinalCode(p) = ExitOK => result[p].err = "none" /\ ~storeErr[p]
          /\ FinalCode(p) = ExitCode("task-failed") => result[p].err = "task-failed"
          /\ FinalCode(p) = ExitStore => storeErr[p]
      <3>1. CASE result[p].err \in {"usage", "auth", "protocol", "transport"}
        <4>1. FinalCode(p) = ExitCode(result[p].err)
          BY <3>1 DEF FinalCode
        <4> QED BY <3>1, <4>1, CodeFacts
      <3>2. CASE result[p].err = "task-failed"
        <4>1. FinalCode(p) = ExitCode("task-failed")
          BY <3>2 DEF FinalCode
        <4> QED BY <3>2, <4>1, CodeFacts
      <3>3. CASE result[p].err = "none"
        <4>1. FinalCode(p) = IF storeErr[p] THEN ExitStore ELSE ExitOK
          BY <3>3 DEF FinalCode
        <4> QED BY <3>3, <4>1, CodeFacts
      <3> QED BY <2>2, <3>1, <3>2, <3>3
    <2>4. result[p].kind = "task" => result[p].task \in (known \cup {p}) \cap Sender
      <3>1. ASSUME p \in Sender, result[p].kind = "task" PROVE result[p].task = p
        BY <2>1, <3>1, FailureErr DEF IInv, SendResultInv, AnswerInv
      <3>2. ASSUME p \in Waiter, result[p].kind = "task" PROVE result[p].task \in known
        BY <2>1, <3>2 DEF IInv, WaitResultInv, TargetInv
      <3> QED BY <3>1, <3>2 DEF Invocation, IInv, TypeOK
    <2>5. known \subseteq known' /\ known' \subseteq (known \cup {p}) \cap Sender
      BY <2>1, <2>4 DEF IInv, TypeOK
    <2>6. faulted' \subseteq Storing
      BY <2>1 DEF IInv, TypeOK
    <2> QED BY <2>1, <2>3, <2>5, <2>6, ExitKeeps
  <1>15. CASE ReportFails(p)
    <2>1. /\ pc[p] = "report" /\ Exit(p, ExitCode("transport"))
          /\ UNCHANGED <<db, faulted, peer, result, storeErr, wire, known, target>>
      BY <1>15 DEF ReportFails
    <2>2. faulted \subseteq Storing /\ known \subseteq Sender
      BY DEF IInv, TypeOK
    <2>3. /\ ExitCode("transport") \in 0..6
          /\ ExitCode("transport") \notin {ExitOK, ExitStore, ExitCode("task-failed")}
      BY CodeFacts
    <2> QED BY <2>1, <2>2, <2>3, ExitKeeps
  <1> QED BY <1>1, <1>2, <1>3, <1>4, <1>5, <1>6, <1>7, <1>8, <1>9, <1>10, <1>11, <1>12, <1>13,
             <1>14, <1>15 DEF Step

(* No step breaks the invariant.                                              *)
LEMMA NextIInv == IInv /\ [Next]_vars => IInv'
  <1>1. ASSUME IInv, UNCHANGED vars PROVE IInv'
    <2>1. UNCHANGED <<db, pc, result, storeErr, exit, wire, answer, handled, tasks, given, known,
                      target, faulted>>
      BY <1>1 DEF vars
    <2>2. (TypeOK /\ PlaceInv /\ KnownInv /\ TargetInv /\ AnswerInv /\ SendResultInv /\ WaitResultInv)'
      BY <1>1, <2>1 DEF IInv, TypeOK, PlaceInv, KnownInv, TargetInv, AnswerInv, SendResultInv,
                        WaitResultInv
    <2>3. (StartedInv /\ OutcomeInv /\ UniqueKeys(db) /\ OneStory /\ CompletedMeansHandled
           /\ ExitTellsTruth /\ SendRecordsOutcome)'
      BY <1>1, <2>1, SameTables DEF IInv, StartedInv, OutcomeInv, CompletedMeansHandled,
                                    ExitTellsTruth, SendRecordsOutcome
    <2>4. OwnerInv'
      BY <1>1, <2>1 DEF IInv, OwnerInv, Owned
    <2>5. ReplyWithOutcome'
      BY <1>1, <2>1, SameReplies DEF IInv
    <2> QED BY <2>2, <2>3, <2>4, <2>5 DEF IInv
  <1>2. ASSUME IInv, NEW p \in Invocation, Step(p) \/ Crash(p) PROVE IInv'
    BY <1>2, StepKeeps, CrashKeeps
  <1>3. ASSUME IInv, NEW p \in Sender, PeerStep(p) PROVE IInv'
    BY <1>3, PeerStepKeeps
  <1> QED BY <1>1, <1>2, <1>3 DEF Next

(* The invariant of every behaviour.                                          *)
LEMMA Invariant == Spec => []IInv
  BY InitIInv, NextIInv, PTL DEF Spec

-----------------------------------------------------------------------------
(* Every variable keeps its type, and an exit code is there exactly when an   *)
(* invocation has exited.                                                     *)
THEOREM TypeCorrect == Spec => []TypeOK
  <1>1. IInv => TypeOK
    BY DEF IInv
  <1> QED BY <1>1, Invariant, PTL

(* Whatever crashes, fails or comes late, nothing is on the wire that the     *)
(* transcript does not have (runSend records before it calls).                *)
THEOREM NothingSentUnrecorded == Spec => []WriteAhead
  <1>1. IInv => WriteAhead
    BY DEF IInv, StartedInv, WriteAhead
  <1> QED BY <1>1, Invariant, PTL

(* The audit of a send has one outcome at most, after its send_started.       *)
THEOREM AuditIsOneStory == Spec => []OneStory
  <1>1. IInv => OneStory
    BY DEF IInv
  <1> QED BY <1>1, Invariant, PTL

(* A reply is in the transcript exactly with the outcome of the send that it  *)
(* answers, and after its message (runSend's last Record is one batch).       *)
THEOREM RepliesWithOutcomes == Spec => []ReplyWithOutcome
  <1>1. IInv => ReplyWithOutcome
    BY DEF IInv
  <1> QED BY <1>1, Invariant, PTL

(* A send_completed is only recorded of a message that the peer took on.      *)
THEOREM CompletedWasHandled == Spec => []CompletedMeansHandled
  <1>1. IInv => CompletedMeansHandled
    BY DEF IInv
  <1> QED BY <1>1, Invariant, PTL

(* The exit codes 0, 4 and 6 mean what a script takes them to mean.           *)
THEOREM ExitCodesTrue == Spec => []ExitTellsTruth
  <1>1. IInv => ExitTellsTruth
    BY DEF IInv
  <1> QED BY <1>1, Invariant, PTL

(* The last Record of a send fails only when its store does: no other process *)
(* ever uses an id of its batch.                                              *)
THEOREM SendsRecordOutcomes == Spec => []SendRecordsOutcome
  <1>1. IInv => SendRecordsOutcome
    BY DEF IInv
  <1> QED BY <1>1, Invariant, PTL
=============================================================================
