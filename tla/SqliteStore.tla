---------------------------- MODULE SqliteStore -----------------------------
(* internal/conversation/sqlite.go: several clients (a2actl processes, or     *)
(* library users, each with its own SQLiteStore on the same file) use one     *)
(* SQLite database in WAL mode.  Each call is taken apart into the statements *)
(* it executes, so that the statements of two clients, errors, expired        *)
(* contexts and crashes interleave.                                           *)
(*                                                                            *)
(* SQLite itself is modelled from how the store uses it: one write            *)
(* transaction at a time over the whole file, readers that see the last       *)
(* commit, a busy_timeout after which a writer that cannot get the lock       *)
(* fails, and a lock and an uncommitted image that die with their process.    *)
(* database/sql is modelled where it shows: a connection whose statement was  *)
(* interrupted may be replaced by one on which the pragmas of OpenSQLite, the *)
(* foreign key among them, were never set.                                    *)
EXTENDS TranscriptDB, SequencesExt

CONSTANTS Client,     \* processes that use the file
          Calls,      \* the writes they may ask for, a subset of Call
          Limits,     \* the limits they may ask reads for
          Nobody      \* the holder of the write lock when it is free

(* A call that is not a batch carries the one row it inserts.                 *)
ASSUME CallsAssumption ==
    /\ Calls \subseteq Call
    /\ \A b \in Calls :
          /\ b.op \in {"ensure", "event"} => b.messages = <<>>
          /\ b.op \in {"ensure", "message"} => b.events = <<>>
          /\ b.op = "message" => Len(b.messages) = 1
          /\ b.op = "event" => Len(b.events) = 1
ASSUME ClientAssumption == Nobody \notin Client
ASSUME LimitsAssumption == Limits \subseteq Int

VARIABLES
    db,      \* the committed tables
    call,    \* call[c]: the write c is executing, or NoCall
    reply,   \* reply[c]: how c's last write returned: "none", "ok" or "error"
    seen,    \* seen[c]: the rows c's last read returned
    stage,   \* stage[c]: where c is in its call, see Stage
    lock,    \* the client whose transaction holds the write lock, or Nobody
    image,   \* the tables as the lock holder's open transaction sees them
    done,    \* how many messages and events of its batch it has inserted
    enforces,\* enforces[c]: foreign_keys is on for c's connection
    replaced,\* history: the clients whose connection is not the configured one
    bare     \* history: the rows that AppendMessage and AppendEvent inserted
             \* through such a connection

transaction == <<lock, image, done>>
connection == <<enforces, replaced, bare>>
vars == <<db, call, reply, seen, stage, transaction, connection>>

(* closed: no store open; idle: open, between calls; checking: the call's     *)
(* arguments are looked at; begin: BeginTx returned, no statement ran yet;    *)
(* rows: the batch's loops; statement: a call that is one autocommit INSERT.  *)
Stage == {"closed", "idle", "checking", "begin", "rows", "statement"}

NothingDone == [messages |-> 0, events |-> 0]
NothingBare == [messages |-> {}, events |-> {}]
NothingSeen == [table |-> "messages", conversation |-> Blank, rows |-> <<>>]

Init ==
    /\ db = EmptyTables
    /\ call = [c \in Client |-> NoCall]
    /\ reply = [c \in Client |-> "none"]
    /\ seen = [c \in Client |-> NothingSeen]
    /\ stage = [c \in Client |-> "closed"]
    /\ lock = Nobody
    /\ image = EmptyTables
    /\ done = NothingDone
    /\ enforces = [c \in Client |-> FALSE]
    /\ replaced = {}
    /\ bare = NothingBare

-----------------------------------------------------------------------------
(* Pieces of actions.                                                         *)

(* The call of c returns r; the store stays open.                             *)
Return(c, r) ==
    /\ call' = [call EXCEPT ![c] = NoCall]
    /\ reply' = [reply EXCEPT ![c] = r]
    /\ stage' = [stage EXCEPT ![c] = "idle"]

(* c's transaction, if it has the lock, ends and its image is dropped.        *)
EndTransaction(c) ==
    IF lock = c
    THEN /\ lock' = Nobody
         /\ image' = EmptyTables
         /\ done' = NothingDone
    ELSE UNCHANGED transaction

NoTransaction == UNCHANGED transaction

(* An error return of Record: the deferred tx.Rollback runs.                  *)
RollbackForgotten(c) ==      \* mutant: no deferred Rollback
    /\ Return(c, "error")
    /\ NoTransaction
    /\ UNCHANGED <<db, seen, connection>>
Rollback(c) ==
    /\ Return(c, "error")
    /\ EndTransaction(c)
    /\ UNCHANGED <<db, seen, connection>>

-----------------------------------------------------------------------------
(* OpenSQLite on a file whose schema is there: it configures the connection,  *)
(* foreign_keys included, and changes no table.                               *)
OpenWithoutPragma(c) ==      \* mutant: PRAGMA foreign_keys is left out
    /\ stage[c] = "closed"
    /\ stage' = [stage EXCEPT ![c] = "idle"]
    /\ UNCHANGED <<db, call, reply, seen, transaction, connection>>
Open(c) ==
    /\ stage[c] = "closed"
    /\ stage' = [stage EXCEPT ![c] = "idle"]
    /\ enforces' = [enforces EXCEPT ![c] = TRUE]
    /\ UNCHANGED <<db, call, reply, seen, transaction, replaced, bare>>

(* The connection goes, with its pragmas.                                     *)
Disconnect(c) ==
    /\ enforces' = [enforces EXCEPT ![c] = FALSE]
    /\ replaced' = replaced \ {c}
    /\ UNCHANGED bare

Close(c) ==
    /\ stage[c] = "idle"
    /\ stage' = [stage EXCEPT ![c] = "closed"]
    /\ Disconnect(c)
    /\ UNCHANGED <<db, call, reply, seen, transaction>>

Invoke(c) ==
    /\ stage[c] = "idle"
    /\ \E b \in Calls : call' = [call EXCEPT ![c] = b]
    /\ reply' = [reply EXCEPT ![c] = "none"]
    /\ stage' = [stage EXCEPT ![c] = "checking"]
    /\ UNCHANGED <<db, seen, transaction, connection>>

(* What each method rejects before it touches the database.  Record looks     *)
(* only at the conversation id here: its rows are checked one by one, after   *)
(* the rows before them were inserted.                                        *)
Accepted(b) ==
    IF b.op = "record" THEN b.conversation.id # Blank ELSE WellFormed(b)

Refuse(c) ==
    /\ stage[c] = "checking"
    /\ ~Accepted(call[c])
    /\ Return(c, "error")
    /\ NoTransaction
    /\ UNCHANGED <<db, seen, connection>>

(* BeginTx is a deferred BEGIN: it takes no lock.                             *)
Accept(c) ==
    /\ stage[c] = "checking"
    /\ Accepted(call[c])
    /\ stage' = [stage EXCEPT ![c] = IF call[c].op = "record" THEN "begin" ELSE "statement"]
    /\ UNCHANGED <<db, call, reply, seen, transaction, connection>>

(* The transaction's first INSERT takes the write lock, and with it the view  *)
(* of the last commit.                                                        *)
Begin(c) ==
    /\ stage[c] = "begin"
    /\ lock = Nobody
    /\ lock' = c
    /\ image' = EnsureRow(db, call[c].conversation)
    /\ stage' = [stage EXCEPT ![c] = "rows"]
    /\ UNCHANGED <<db, call, reply, seen, done, connection>>

(* Another client kept the lock for busy_timeout.                             *)
BusyIgnored(c) ==            \* mutant: SQLITE_BUSY is tried again, without end
    FALSE /\ stage[c] = "begin" /\ UNCHANGED vars
Busy(c) ==
    /\ stage[c] \in {"begin", "statement"}
    /\ lock # Nobody
    /\ Rollback(c)

-----------------------------------------------------------------------------
(* The loops of Record: the messages in order, then the events in order.      *)
MessagesDone(c) == done.messages = Len(call[c].messages)
EventsDone(c) == done.events = Len(call[c].events)

NextMessage(c) == call[c].messages[done.messages + 1]
NextEvent(c) == call[c].events[done.events + 1]

InsertNextMessageAutocommitted(c) ==     \* mutant: s.db instead of tx
    /\ stage[c] = "rows" /\ ~MessagesDone(c)
    /\ RowBelongs(call[c], NextMessage(c))
    /\ CanInsert(image, image.messages, NextMessage(c), enforces[c])
    /\ image' = InsertMessage(image, NextMessage(c))
    /\ db' = image'
    /\ done' = [done EXCEPT !.messages = @ + 1]
    /\ UNCHANGED <<call, reply, seen, stage, lock, connection>>
InsertNextMessage(c) ==
    /\ stage[c] = "rows" /\ ~MessagesDone(c)
    /\ RowBelongs(call[c], NextMessage(c))
    /\ CanInsert(image, image.messages, NextMessage(c), enforces[c])
    /\ image' = InsertMessage(image, NextMessage(c))
    /\ done' = [done EXCEPT !.messages = @ + 1]
    /\ UNCHANGED <<db, call, reply, seen, stage, lock, connection>>

InsertNextEvent(c) ==
    /\ stage[c] = "rows" /\ MessagesDone(c) /\ ~EventsDone(c)
    /\ RowBelongs(call[c], NextEvent(c))
    /\ CanInsert(image, image.events, NextEvent(c), enforces[c])
    /\ image' = InsertEvent(image, NextEvent(c))
    /\ done' = [done EXCEPT !.events = @ + 1]
    /\ UNCHANGED <<db, call, reply, seen, stage, lock, connection>>

(* The row at hand is blank or of another conversation, or its INSERT fails   *)
(* on a constraint.                                                           *)
RowRejected(c) ==
    /\ stage[c] = "rows"
    /\ \/ /\ ~MessagesDone(c)
          /\ ~ /\ RowBelongs(call[c], NextMessage(c))
               /\ CanInsert(image, image.messages, NextMessage(c), enforces[c])
       \/ /\ MessagesDone(c) /\ ~EventsDone(c)
          /\ ~ /\ RowBelongs(call[c], NextEvent(c))
               /\ CanInsert(image, image.events, NextEvent(c), enforces[c])
    /\ Rollback(c)

Commit(c) ==
    /\ stage[c] = "rows" /\ MessagesDone(c) /\ EventsDone(c)
    /\ db' = image
    /\ Return(c, "ok")
    /\ EndTransaction(c)
    /\ UNCHANGED <<seen, connection>>

-----------------------------------------------------------------------------
(* EnsureConversation, AppendMessage and AppendEvent: one autocommit INSERT,  *)
(* with the foreign key only as far as the connection enforces it.            *)
CanApply(d, b, fk) ==
    /\ \A i \in DOMAIN b.messages : CanInsert(d, d.messages, b.messages[i], fk)
    /\ \A i \in DOMAIN b.events : CanInsert(d, d.events, b.events[i], fk)

(* The row is there.                                                          *)
InsertRow(c) ==
    /\ CanApply(db, call[c], enforces[c])
    /\ db' = Apply(db, call[c])
    /\ bare' = IF c \notin replaced THEN bare
               ELSE [messages |-> bare.messages \cup ToSet(call[c].messages),
                     events   |-> bare.events \cup ToSet(call[c].events)]

Autocommit(c) ==
    /\ stage[c] = "statement"
    /\ lock = Nobody
    /\ InsertRow(c)
    /\ Return(c, "ok")
    /\ NoTransaction
    /\ UNCHANGED <<seen, enforces, replaced>>

ConstraintFails(c) ==
    /\ stage[c] = "statement"
    /\ lock = Nobody
    /\ ~CanApply(db, call[c], enforces[c])
    /\ Return(c, "error")
    /\ NoTransaction
    /\ UNCHANGED <<db, seen, connection>>

-----------------------------------------------------------------------------
(* The caller's context expires between two statements, in one, or before the *)
(* commit: the method returns the context's error and a transaction is rolled *)
(* back, but a single INSERT that had its row in before it was interrupted    *)
(* keeps it.  database/sql may drop the connection of a statement that was    *)
(* cut off; the next one it opens enforces no foreign key.                    *)
Expire(c) ==
    /\ stage[c] \in {"checking", "begin", "rows", "statement"}
    /\ Accepted(call[c])
    /\ Return(c, "error")
    /\ EndTransaction(c)
    /\ \/ UNCHANGED <<db, bare>>
       \/ stage[c] = "statement" /\ lock = Nobody /\ InsertRow(c)
    /\ \/ UNCHANGED <<enforces, replaced>>
       \/ /\ stage[c] # "checking"
          /\ enforces' = [enforces EXCEPT ![c] = FALSE]
          /\ replaced' = replaced \cup {c}
    /\ UNCHANGED seen

(* ListMessages and ListEvents: one SELECT over the last commit.              *)
ListDirty(c) ==              \* mutant: reads the open transaction's rows
    /\ stage[c] = "idle"
    /\ \E t \in {"messages", "events"}, k \in ConversationId, n \in Limits :
          seen' = [seen EXCEPT ![c] =
                     [table |-> t, conversation |-> k,
                      rows |-> Page((IF lock = Nobody THEN db ELSE image)[t], k, n)]]
    /\ UNCHANGED <<db, call, reply, stage, transaction, connection>>
List(c) ==
    /\ stage[c] = "idle"
    /\ \E t \in {"messages", "events"}, k \in ConversationId, n \in Limits :
          seen' = [seen EXCEPT ![c] = [table |-> t, conversation |-> k, rows |-> Page(db[t], k, n)]]
    /\ UNCHANGED <<db, call, reply, stage, transaction, connection>>

(* The process dies at any point; its lock and its image go with it.          *)
Crash(c) ==
    /\ stage[c] # "closed"
    /\ call' = [call EXCEPT ![c] = NoCall]
    /\ reply' = [reply EXCEPT ![c] = "none"]
    /\ stage' = [stage EXCEPT ![c] = "closed"]
    /\ Disconnect(c)
    /\ EndTransaction(c)
    /\ UNCHANGED <<db, seen>>

-----------------------------------------------------------------------------
(* The steps that carry a call of c to its return: Go code that runs, and     *)
(* SQLite, which grants the lock or gives up after busy_timeout.              *)
Step(c) ==
    \/ Refuse(c) \/ Accept(c) \/ Begin(c) \/ Busy(c)
    \/ InsertNextMessage(c) \/ InsertNextEvent(c) \/ RowRejected(c) \/ Commit(c)
    \/ Autocommit(c) \/ ConstraintFails(c)

Next ==
    \E c \in Client :
        Open(c) \/ Close(c) \/ Invoke(c) \/ Step(c) \/ Expire(c) \/ List(c) \/ Crash(c)

Spec == Init /\ [][Next]_vars

(* Neither crashes nor expired contexts are fair: a call that returns must    *)
(* not owe it to them.                                                        *)
FairSpec == Spec /\ \A c \in Client : WF_vars(Step(c))

-----------------------------------------------------------------------------
(* The type of every variable but seen, whose rows ReadsSurvive speaks of; a  *)
(* client has a call exactly while it is in one, and the write lock exactly   *)
(* while it is in the loops of Record.                                        *)
TypeOK ==
    /\ db \in Tables
    /\ call \in [Client -> Calls \cup {NoCall}]
    /\ reply \in [Client -> {"none", "ok", "error"}]
    /\ stage \in [Client -> Stage]
    /\ lock \in Client \cup {Nobody}
    /\ image \in Tables
    /\ done \in [messages : Nat, events : Nat]
    /\ enforces \in [Client -> BOOLEAN]
    /\ replaced \subseteq Client
    /\ bare \in [messages : SUBSET MessageRow, events : SUBSET EventRow]
    /\ \A c \in Client : stage[c] \in {"closed", "idle"} <=> call[c] = NoCall
    /\ \A c \in Client : stage[c] = "rows" <=> lock = c

(* Ids are unique, and every message and event has its conversation but for   *)
(* the rows in free.                                                          *)
Sound(d, free) ==
    /\ UniqueKeys(d)
    /\ \A i \in DOMAIN d.messages : \/ d.messages[i] \in free.messages
                                    \/ HasConversation(d, d.messages[i].conversation)
    /\ \A i \in DOMAIN d.events : \/ d.events[i] \in free.events
                                  \/ HasConversation(d, d.events[i].conversation)

(* The schema's integrity (sqlite.go:93-128) holds of what is committed,      *)
(* whatever the clients interleave: ids are unique, and a message or event    *)
(* without its conversation was put there by AppendMessage or AppendEvent on  *)
(* a connection that replaced the configured one.  No row of a Record is ever *)
(* one, on any connection, although the rows are checked one at a time        *)
(* against an image taken when the transaction began.                         *)
TablesConsistent == Sound(db, bare)

(* What a client has read stays the beginning of what is there: a page never  *)
(* shows a row of a transaction that is later rolled back or lost in a crash, *)
(* and no later write changes, removes or reorders a row that was shown.      *)
ReadsSurvive ==
    \A c \in Client :
        IsPrefix(seen[c].rows, InConversation(db[seen[c].table], seen[c].conversation))

(* "It never updates or deletes existing rows" (store.go:46), of every step   *)
(* of every client, rollbacks and crashes included.                           *)
AppendOnly ==
    [][ /\ db.conversations \subseteq db'.conversations
        /\ IsPrefix(db.messages, db'.messages)
        /\ IsPrefix(db.events, db'.events) ]_vars

(* "Record atomically ensures the conversation and appends all supplied       *)
(* messages and events" (store.go:45): every step of the statements is a step *)
(* of Transcript, where a batch is there as a whole in the step that reports  *)
(* success, and an error of Record means that nothing was written.  An error  *)
(* of a single-row call may come with its row: its context ran out.           *)
TR == INSTANCE Transcript
Implements == TR!Spec

(* No return path, crash or expired context leaves the file locked.           *)
LockReleased == \A c \in Client : lock = c ~> lock # c

(* Every call returns: a writer that waits is granted the lock or gives up,   *)
(* and no two writers wait for each other.                                    *)
CallReturns == \A c \in Client : call[c] # NoCall ~> call[c] = NoCall
=============================================================================
