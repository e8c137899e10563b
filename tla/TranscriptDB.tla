---------------------------- MODULE TranscriptDB ----------------------------
(* The three tables of the conversation store, as values, and what the SQL    *)
(* statements of internal/conversation/sqlite.go do to them.  A conversation  *)
(* row is inserted once and kept (ON CONFLICT DO NOTHING); messages and       *)
(* events are append-only sequences in `sequence` order, with a UNIQUE id and *)
(* a foreign key to their conversation.                                       *)
(*                                                                            *)
(* Texts (titles, bodies, payloads, timestamps) are opaque values: they stand *)
(* for the columns after redaction, and matter only because two rows with the *)
(* same id may carry different texts.                                         *)
EXTENDS Sequences, Integers

CONSTANTS ConversationId,   \* values of conversations.id, Blank included
          MessageId,        \* values of messages.id, Blank included
          EventId,          \* values of events.id, Blank included
          Text,             \* what the other columns of a row hold
          Blank,            \* an id that is empty after strings.TrimSpace
          DefaultLimit,     \* rows of a read that asks for none (100)
          MaxLimit          \* rows of a read at most (1000)

ASSUME LimitAssumption == /\ DefaultLimit \in Nat \ {0}
                          /\ MaxLimit \in Nat
                          /\ DefaultLimit <= MaxLimit

ConversationRow == [id : ConversationId, text : Text]
MessageRow == [id : MessageId, conversation : ConversationId, text : Text]
EventRow == [id : EventId, conversation : ConversationId, text : Text]

Tables == [conversations : SUBSET ConversationRow,
           messages      : Seq(MessageRow),
           events        : Seq(EventRow)]

EmptyTables == [conversations |-> {}, messages |-> <<>>, events |-> <<>>]

-----------------------------------------------------------------------------
(* The calls that write.  "record" carries a whole batch; the three others    *)
(* carry the one row they insert.                                             *)
Call == [op           : {"record", "ensure", "message", "event"},
         conversation : ConversationRow,
         messages     : Seq(MessageRow),
         events       : Seq(EventRow)]

(* The value of `call` for a client with no call in progress.                 *)
NoCall == [op |-> "none"]

-----------------------------------------------------------------------------
HasConversation(db, id) == \E r \in db.conversations : r.id = id

UniqueIds(rows) == \A i, j \in DOMAIN rows : rows[i].id = rows[j].id => i = j

(* A row can be appended to a table: its id is new (UNIQUE), and it has its   *)
(* conversation if the connection it is inserted through checks that (fk):    *)
(* the pragma foreign_keys belongs to the connection, not to the file.        *)
CanInsert(db, rows, r, fk) ==
    /\ \A i \in DOMAIN rows : rows[i].id # r.id
    /\ fk => HasConversation(db, r.conversation)

(* INSERT INTO conversations ... ON CONFLICT(id) DO NOTHING                   *)
EnsureReplaces(db, r) ==     \* mutant: ON CONFLICT(id) DO UPDATE
    [db EXCEPT !.conversations = {x \in @ : x.id # r.id} \cup {r}]
EnsureRow(db, r) ==
    IF HasConversation(db, r.id) THEN db
    ELSE [db EXCEPT !.conversations = @ \cup {r}]

InsertMessage(db, r) == [db EXCEPT !.messages = Append(@, r)]
InsertEvent(db, r) == [db EXCEPT !.events = Append(@, r)]

(* The Go-side checks of one batch row, made inside Record's loops: the id is *)
(* not blank and the row belongs to the batch's conversation.  A blank type   *)
(* of an event is rejected in the same places as a blank id, and not kept     *)
(* apart from it.                                                             *)
RowBelongs(call, r) == r.id # Blank /\ r.conversation = call.conversation.id

(* AppendMessage and AppendEvent check one row, of any conversation.          *)
RowNamed(r) == r.id # Blank /\ r.conversation # Blank

(* The calls whose arguments are all in order.                                *)
WellFormed(call) ==
    CASE call.op = "ensure" -> call.conversation.id # Blank
      [] call.op = "record" ->
            /\ call.conversation.id # Blank
            /\ \A i \in DOMAIN call.messages : RowBelongs(call, call.messages[i])
            /\ \A i \in DOMAIN call.events : RowBelongs(call, call.events[i])
      [] OTHER ->
            /\ \A i \in DOMAIN call.messages : RowNamed(call.messages[i])
            /\ \A i \in DOMAIN call.events : RowNamed(call.events[i])

(* What a successful call leaves in the tables, the whole batch at once.      *)
Apply(db, call) ==
    [conversations |-> IF call.op \in {"record", "ensure"}
                       THEN EnsureRow(db, call.conversation).conversations
                       ELSE db.conversations,
     messages      |-> db.messages \o call.messages,
     events        |-> db.events \o call.events]

-----------------------------------------------------------------------------
(* Reads: the oldest rows of one conversation, at most boundedLimit of them.  *)
boundedLimit(n) == IF n <= 0 THEN DefaultLimit ELSE IF n > MaxLimit THEN MaxLimit ELSE n

InConversation(rows, id) ==
    LET scan[n \in 0 .. Len(rows)] ==
            IF n = 0 THEN <<>>
            ELSE IF rows[n].conversation = id THEN Append(scan[n - 1], rows[n])
            ELSE scan[n - 1]
    IN  scan[Len(rows)]

Page(rows, id, n) ==
    LET all == InConversation(rows, id)
    IN  SubSeq(all, 1, IF Len(all) < boundedLimit(n) THEN Len(all) ELSE boundedLimit(n))

-----------------------------------------------------------------------------
(* The integrity that the file itself keeps, whatever connection writes it:   *)
(* ids are unique in every table.                                             *)
UniqueKeys(db) ==
    /\ \A r, s \in db.conversations : r.id = s.id => r = s
    /\ UniqueIds(db.messages)
    /\ UniqueIds(db.events)
=============================================================================
