------------------------------- MODULE Listing -------------------------------
(* created_at of the conversation store (internal/conversation/sqlite.go):    *)
(* when a timestamp is taken, how it is written, and what ListConversations   *)
(* makes of it.                                                               *)
(*                                                                            *)
(* timestamp() runs while the arguments of an INSERT are put together, and    *)
(* takes the clock's time if CreatedAt is zero.  No command gives a CreatedAt *)
(* (nothing outside internal/conversation names the field), but a caller of   *)
(* the store may give any, and it is stored as it is.                         *)
(*                                                                            *)
(* The first INSERT of a transaction may then wait for another process's      *)
(* write lock, for up to busy_timeout; the ones after it hold it already.     *)
(* The text is RFC3339Nano, which leaves out the zeros at the end of the      *)
(* fraction, and the dot with them; ORDER BY compares the text.               *)
(*                                                                            *)
(* `messages` stands for both append-only tables, whose statements are alike. *)
EXTENDS Integers, Sequences, FiniteSets

CONSTANTS Writer,         \* processes with a store on the file
          Nobody,         \* the holder of a lock nobody holds
          Conversation,   \* conversation ids
          Base, Digits,   \* a fraction has Digits digits of Base values (10 and 9)
          ZeroTime,       \* time.Time{}: a CreatedAt that is not given
          Limits,         \* the page sizes asked for, as boundedLimit returns them
          Instant,        \* bound: what the clock shows
          Given,          \* bound: what callers put into CreatedAt
          MaxRows         \* bound: rows of messages

(* A time of the clock, and its fraction digit by digit.                      *)
Time == [second : Nat, fraction : [1..Digits -> 0 .. Base - 1]]

ASSUME TimeAssumption == /\ Base \in Nat \ {0, 1} /\ Digits \in Nat \ {0}
                         /\ Instant \subseteq Time
                         /\ Given \subseteq Time /\ ZeroTime \notin Given
                         /\ Limits \subseteq Nat \ {0}
                         /\ MaxRows \in Nat
ASSUME WriterAssumption == Nobody \notin Writer

VARIABLES
    clock,     \* the system clock, one for all processes, never set back
    db,        \* the committed tables
    image,     \* the tables as the transaction of the lock's holder sees them
    lock,      \* SQLite's write lock
    call       \* call[w]: the call in progress, see Call

vars == <<clock, db, image, lock, call>>

-----------------------------------------------------------------------------
(* The order of times.                                                        *)
Earlier(a, b) ==
    \/ a.second < b.second
    \/ /\ a.second = b.second
       /\ \E n \in 1..Digits : /\ a.fraction[n] < b.fraction[n]
                               /\ \A k \in 1 .. n - 1 : a.fraction[k] = b.fraction[k]
NoLater(a, b) == a = b \/ Earlier(a, b)

(* RFC3339Nano: the second in front, then a byte for the dot and one for each *)
(* digit up to the last that is no zero, then 'Z'.  '.' < '0'..'9' < 'Z'.     *)
Dot == 0
Byte(digit) == digit + 1
Zulu == Base + 1

Precision(t) ==        \* how many digits of the fraction are written
    CHOOSE n \in 0..Digits : /\ n = 0 \/ t.fraction[n] # 0
                             /\ \A k \in n + 1 .. Digits : t.fraction[k] = 0

FormatRFC3339(t) == <<t.second, Zulu>>     \* mutant: no fraction
Format(t) ==
    IF Precision(t) = 0
    THEN <<t.second, Zulu>>
    ELSE <<t.second, Dot>> \o [k \in 1..Precision(t) |-> Byte(t.fraction[k])] \o <<Zulu>>

(* timestamp(): the instant whose Format the row gets, and as history whether *)
(* it is the clock's own.                                                     *)
timestamp(createdAt) ==
    [taken |-> IF createdAt = ZeroTime THEN clock ELSE createdAt,
     own   |-> createdAt = ZeroTime]

(* time.Parse: the digits that are not written are zeros.                     *)
Parse(text) ==
    [second |-> text[1],
     fraction |-> [k \in 1..Digits |-> IF k + 3 <= Len(text) THEN text[k + 2] - 1 ELSE 0]]

(* The order of the texts, byte by byte (BINARY collation).  No text is the   *)
(* beginning of another, they end in 'Z'.                                     *)
Before(a, b) ==
    \E n \in DOMAIN a \cap DOMAIN b : /\ a[n] < b[n]
                                      /\ \A k \in 1 .. n - 1 : a[k] = b[k]

-----------------------------------------------------------------------------
(* A row of the tables.  `taken` and `own` are the history of its timestamp,  *)
(* and `via` the method that inserted it.                                     *)
NoTables == [conversations |-> {}, messages |-> <<>>]

Stamp == [taken : Time, own : BOOLEAN]
Call == [op : {"Record", "EnsureConversation", "AppendMessage"},
         stage : {"waiting", "inserting"},
         conversation : Conversation, stamp : Stamp]
NoCall == [stage |-> "idle"]

Has(tables, k) == \E r \in tables.conversations : r.id = k

ConversationRow(k, s) ==
    [id |-> k, created_at |-> Format(s.taken), taken |-> s.taken, own |-> s.own]
EnsureReplaces(tables, k, s) ==      \* mutant: ON CONFLICT(id) DO UPDATE
    [tables EXCEPT !.conversations = {r \in @ : r.id # k} \cup {ConversationRow(k, s)}]
EnsureRow(tables, k, s) ==
    IF Has(tables, k) THEN tables
    ELSE [tables EXCEPT !.conversations = @ \cup {ConversationRow(k, s)}]

InsertRow(tables, k, s, via) ==
    [tables EXCEPT !.messages =
        Append(@, [conversation |-> k, created_at |-> Format(s.taken),
                   taken |-> s.taken, own |-> s.own, via |-> via])]

Init ==
    /\ clock \in Instant
    /\ db = NoTables /\ image = NoTables
    /\ lock = Nobody
    /\ call = [w \in Writer |-> NoCall]

Return(w) == call' = [call EXCEPT ![w] = NoCall]

-----------------------------------------------------------------------------
(* A writing method is called, has passed its checks, and has put together    *)
(* the arguments of its first INSERT, CreatedAt's timestamp among them.       *)
Invoke(w, op, k, createdAt) ==
    /\ call[w] = NoCall
    /\ call' = [call EXCEPT ![w] = [op |-> op, stage |-> "waiting",
                                    conversation |-> k, stamp |-> timestamp(createdAt)]]
    /\ UNCHANGED <<clock, db, image, lock>>

Ready(w, op) == call[w].stage = "waiting" /\ call[w].op = op /\ lock = Nobody

(* That INSERT gets the lock: EnsureConversation's is the whole transaction,  *)
(* and AppendMessage's.  A message without its conversation is refused (Fail) *)
(* only while the connection enforces foreign keys, see StoreFile.            *)
EnsureConversation(w) ==
    /\ Ready(w, "EnsureConversation")
    /\ db' = EnsureRow(db, call[w].conversation, call[w].stamp)
    /\ Return(w)
    /\ UNCHANGED <<clock, image, lock>>

AppendMessage(w) ==
    /\ Ready(w, "AppendMessage")
    /\ Len(db.messages) < MaxRows
    /\ db' = InsertRow(db, call[w].conversation, call[w].stamp, "AppendMessage")
    /\ Return(w)
    /\ UNCHANGED <<clock, image, lock>>

(* Record's first INSERT is the conversation's.                               *)
Begin(w) ==
    /\ Ready(w, "Record")
    /\ lock' = w
    /\ image' = EnsureRow(db, call[w].conversation, call[w].stamp)
    /\ call' = [call EXCEPT ![w].stage = "inserting"]
    /\ UNCHANGED <<clock, db>>

(* The loops of Record over messages and events, each with its own CreatedAt. *)
RecordRowStampedFirst(w, createdAt) ==          \* mutant: one timestamp for the batch, taken first
    /\ call[w].stage = "inserting" /\ Len(image.messages) < MaxRows
    /\ image' = InsertRow(image, call[w].conversation, call[w].stamp, "Record")
    /\ UNCHANGED <<clock, db, lock, call>>
RecordRow(w, createdAt) ==
    /\ call[w].stage = "inserting" /\ Len(image.messages) < MaxRows
    /\ image' = InsertRow(image, call[w].conversation, timestamp(createdAt), "Record")
    /\ UNCHANGED <<clock, db, lock, call>>

Commit(w) ==
    /\ call[w].stage = "inserting"
    /\ db' = image
    /\ image' = NoTables /\ lock' = Nobody
    /\ Return(w)
    /\ UNCHANGED <<clock>>

(* A row is rejected, busy_timeout or the context runs out, or the process    *)
(* dies and another takes its place.                                          *)
FailLocked(w) ==                     \* mutant: no deferred Rollback
    /\ call[w] # NoCall
    /\ Return(w)
    /\ UNCHANGED <<clock, db, image, lock>>
Fail(w) ==
    /\ call[w] # NoCall
    /\ image' = IF lock = w THEN NoTables ELSE image
    /\ lock' = IF lock = w THEN Nobody ELSE lock
    /\ Return(w)
    /\ UNCHANGED <<clock, db>>

-----------------------------------------------------------------------------
(* ORDER BY created_at DESC LIMIT ?.  Rows with the same text come in any     *)
(* order.                                                                     *)
OrderedAscending(rows) ==            \* mutant: ORDER BY created_at
    \A i, j \in DOMAIN rows : i < j => ~Before(rows[j].created_at, rows[i].created_at)
Ordered(rows) ==
    \A i, j \in DOMAIN rows : i < j => ~Before(rows[i].created_at, rows[j].created_at)

Orders(S) ==
    {rows \in [1..Cardinality(S) -> S] : /\ \A r \in S : \E i \in DOMAIN rows : rows[i] = r
                                         /\ Ordered(rows)}

(* What a read of the committed tables may return: a page in that order, and  *)
(* the rows the limit left out of it.                                         *)
Listed(rows, limit) ==
    [i \in 1..(IF limit < Len(rows) THEN limit ELSE Len(rows)) |-> [rows[i] EXCEPT !.created_at = Parse(@)]]
LeftOut(rows, limit) == {rows[i] : i \in limit + 1 .. Len(rows)}
ListConversations(limit) ==
    {[page |-> Listed(rows, limit), rest |-> LeftOut(rows, limit)] : rows \in Orders(db.conversations)}

(* Any time may pass between two steps of a process.                          *)
Tick ==
    /\ clock' \in {t \in Instant : Earlier(clock, t)}
    /\ UNCHANGED <<db, image, lock, call>>

Write(w) ==
    \/ \E op \in {"Record", "EnsureConversation", "AppendMessage"}, k \in Conversation,
          createdAt \in Given \cup {ZeroTime} : Invoke(w, op, k, createdAt)
    \/ \E createdAt \in Given \cup {ZeroTime} : RecordRow(w, createdAt)
    \/ EnsureConversation(w) \/ AppendMessage(w) \/ Begin(w)
    \/ Commit(w) \/ Fail(w)

Next ==
    \/ \E w \in Writer : Write(w)
    \/ Tick

Spec == Init /\ [][Next]_vars

-----------------------------------------------------------------------------
(* The type of every variable; the lock is held exactly by a Record that      *)
(* inserts.                                                                   *)
Row == [id : Conversation, created_at : Seq(Nat), taken : Time, own : BOOLEAN]
MessageRow == [conversation : Conversation, created_at : Seq(Nat), taken : Time, own : BOOLEAN,
               via : {"Record", "AppendMessage"}]
Tables == [conversations : SUBSET Row, messages : Seq(MessageRow)]

TypeOK ==
    /\ clock \in Time
    /\ db \in Tables /\ image \in Tables
    /\ lock \in Writer \cup {Nobody}
    /\ call \in [Writer -> Call \cup {NoCall}]
    /\ \A w \in Writer : lock = w <=> call[w].stage = "inserting"

(* What ListConversations is for: newest first, and the limit leaves out the  *)
(* oldest.  The texts keep this promise between seconds.  Within a second     *)
(* they break it for two times of which the older is written with fewer       *)
(* digits, because 'Z' comes after every digit and after the dot: the row of  *)
(* a whole second stands before all others of its second.                     *)
Newer(r, s) ==
    \/ NoLater(s.taken, r.taken)
    \/ r.taken.second = s.taken.second /\ Precision(r.taken) < Precision(s.taken)

NewestFirst ==
    \A limit \in Limits : \A listing \in ListConversations(limit) :
        LET page == listing.page
        IN  /\ \A i, j \in DOMAIN page : i < j => Newer(page[i], page[j])
            /\ \A i \in DOMAIN page, r \in listing.rest : Newer(page[i], r)

(* CreatedAt of a listed conversation (sqlite.go:256, where the error of      *)
(* time.Parse is dropped) is its stamp to the last digit.                     *)
TimesSurvive ==
    \A limit \in Limits : \A listing \in ListConversations(limit) :
        \A i \in DOMAIN listing.page : listing.page[i].created_at = listing.page[i].taken

(* Messages are listed in sequence order, and a reader takes created_at for   *)
(* the same order.  That is true of the rows that Record inserts and stamps   *)
(* itself, as it does for every command (CreatedAt zero), whatever writers    *)
(* wait for each other: it takes the clock with the lock held.  It does not   *)
(* hold of AppendMessage and AppendEvent, which take it before they wait, nor *)
(* of a row whose CreatedAt the caller gave.                                  *)
Recorded(i) == db.messages[i].via = "Record" /\ db.messages[i].own
SequenceIsTime ==
    \A i, j \in DOMAIN db.messages :
        Recorded(i) /\ Recorded(j) /\ i < j => NoLater(db.messages[i].taken, db.messages[j].taken)

(* A conversation is no younger than what Record put into it, if the clock    *)
(* stamped both, although the conversation's stamp may come from another      *)
(* process, which ensured it while this one was waiting (ON CONFLICT DO       *)
(* NOTHING, sqlite.go:152).                                                   *)
ConversationFirst ==
    \A r \in db.conversations, i \in DOMAIN db.messages :
        r.own /\ Recorded(i) /\ db.messages[i].conversation = r.id
        => NoLater(r.taken, db.messages[i].taken)
=============================================================================
