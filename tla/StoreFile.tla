------------------------------ MODULE StoreFile ------------------------------
(* The file of a conversation store: OpenSQLite, which creates it and         *)
(* migrates it one statement at a time, OpenSQLiteReadOnly, which does        *)
(* neither, and the read commands of a2actl on top of that.  Processes open   *)
(* the same path at the same time, fail between any two statements, or crash  *)
(* there; SqliteStore goes on where this module ends, with an open store.     *)
(*                                                                            *)
(* Of the rows only the conversations they belong to are kept: that is what   *)
(* the foreign key is about.  A statement that meets another process's lock   *)
(* waits or fails, with or without busy_timeout; here it just may fail.       *)
EXTENDS Naturals, Sequences

CONSTANTS Writer,        \* processes that call OpenSQLite
          Reader,        \* processes that run conversations, messages or events
          Conversation   \* conversation ids

ASSUME ProcessAssumption == Writer \cap Reader = {}

VARIABLES
    mode,       \* the file: "missing", "private" (0600) or "shared"
    has,        \* what the file's migration has left in it, a subset of Durable
    convs,      \* the ids in conversations
    msgs,       \* the conversation ids of the rows in messages
    pc,         \* pc[p]: where p is, see WriterPlace and ReaderPlace
    next,       \* next[w]: the statement of the migration w executes next
    enforces,   \* enforces[w]: foreign_keys is on for w's connection
    table,      \* table[r]: the table r's command lists
    shown,      \* shown[r]: the conversations of the rows r has got
    exit,       \* exit[r]: how r's last command ended, see Exit
    found,      \* history: the file was there before any of the processes ran
    made,       \* history: OpenSQLite has made the file
    opened,     \* history: some OpenSQLite has returned a store
    replaced,   \* history: the writers whose connection is not the one they opened
    bare        \* history: the conversations appended to through such a connection

file == <<mode, has>>
rows == <<convs, msgs>>
writing == <<next, enforces, replaced, bare, found, made, opened>>
reading == <<table, shown, exit>>
vars == <<mode, has, convs, msgs, pc, next, enforces, table, shown, exit,
          found, made, opened, replaced, bare>>

(* The statements of migrate, each a transaction of its own.  Only the pragma *)
(* foreign_keys leaves nothing in the file: it belongs to the connection.     *)
Statements == <<"journal_mode", "foreign_keys", "conversations", "messages",
                "messages_index", "events", "events_index">>
Durable == {Statements[i] : i \in DOMAIN Statements} \ {"foreign_keys"}
Listed == {"conversations", "messages", "events"}

WriterPlace == {"closed", "created", "configuring", "migrating", "open"}
ReaderPlace == {"closed", "opening", "listing", "printing"}

(* The exit codes 0, 1 and 6 of a read command, 6 by what went wrong.         *)
Exit == {"none", "printed", "usage", "no file", "no table", "fault"}

(* The file may be there already, made by someone else and empty.             *)
Init ==
    /\ mode \in {"missing", "shared"}
    /\ has = {} /\ convs = {} /\ msgs = {}
    /\ pc = [p \in Writer \cup Reader |-> "closed"]
    /\ next = [w \in Writer |-> 1]
    /\ enforces = [w \in Writer |-> FALSE]
    /\ table = [r \in Reader |-> "conversations"]
    /\ shown = [r \in Reader |-> {}]
    /\ exit = [r \in Reader |-> "none"]
    /\ found = (mode # "missing") /\ made = FALSE /\ opened = FALSE
    /\ replaced = {} /\ bare = {}

Goto(p, place) == pc' = [pc EXCEPT ![p] = place]

-----------------------------------------------------------------------------
(* OpenSQLite.                                                                *)

(* secureCreate: O_CREATE with mode 0600 ...                                  *)
CreateDefault(w) ==          \* mutant: os.Create, the mode is left to Secure
    /\ pc[w] = "closed"
    /\ mode' = IF mode = "missing" THEN "shared" ELSE mode
    /\ made' = (made \/ mode = "missing")
    /\ Goto(w, "created")
    /\ UNCHANGED <<has, rows, next, enforces, replaced, bare, found, opened, reading>>
Create(w) ==
    /\ pc[w] = "closed"
    /\ mode' = IF mode = "missing" THEN "private" ELSE mode
    /\ made' = (made \/ mode = "missing")
    /\ Goto(w, "created")
    /\ UNCHANGED <<has, rows, next, enforces, replaced, bare, found, opened, reading>>

(* ... and Chmod, which also takes care of a file that was there.             *)
Secure(w) ==
    /\ pc[w] = "created"
    /\ mode' = "private"
    /\ Goto(w, "configuring")
    /\ UNCHANGED <<has, rows, writing, reading>>

(* sql.Open makes no connection yet; PRAGMA busy_timeout is its first use.    *)
Configure(w) ==
    /\ pc[w] = "configuring"
    /\ Goto(w, "migrating")
    /\ next' = [next EXCEPT ![w] = 1]
    /\ enforces' = [enforces EXCEPT ![w] = FALSE]
    /\ replaced' = replaced \ {w}
    /\ UNCHANGED <<file, rows, bare, found, made, opened, reading>>

(* The next statement of migrate.  IF NOT EXISTS: it may find its table made  *)
(* by another opener or by an earlier one that failed or crashed.             *)
MigrateWithoutPragma(w) ==   \* mutant: PRAGMA foreign_keys is left out
    /\ pc[w] = "migrating"
    /\ has' = has \cup ({Statements[next[w]]} \cap Durable)
    /\ IF next[w] < Len(Statements)
       THEN next' = [next EXCEPT ![w] = @ + 1] /\ UNCHANGED <<pc, opened>>
       ELSE Goto(w, "open") /\ opened' = TRUE /\ UNCHANGED next
    /\ UNCHANGED <<mode, rows, enforces, replaced, bare, found, made, reading>>
Migrate(w) ==
    /\ pc[w] = "migrating"
    /\ has' = has \cup ({Statements[next[w]]} \cap Durable)
    /\ enforces' = [enforces EXCEPT ![w] = @ \/ Statements[next[w]] = "foreign_keys"]
    /\ IF next[w] < Len(Statements)
       THEN next' = [next EXCEPT ![w] = @ + 1] /\ UNCHANGED <<pc, opened>>
       ELSE Goto(w, "open") /\ opened' = TRUE /\ UNCHANGED next
    /\ UNCHANGED <<mode, rows, replaced, bare, found, made, reading>>

(* A statement fails on a lock, the disk or the 10s of the context, or the    *)
(* file cannot be made: OpenSQLite closes what it opened and returns an error;*)
(* what was migrated stays.                                                   *)
OpenFailsIgnored(w) ==       \* mutant: the error of migrate is not looked at
    /\ pc[w] \in {"created", "configuring", "migrating"}
    /\ Goto(w, IF pc[w] = "migrating" THEN "open" ELSE "closed")
    /\ opened' = (opened \/ pc[w] = "migrating")
    /\ UNCHANGED <<file, rows, next, enforces, replaced, bare, found, made, reading>>
OpenFails(w) ==
    /\ pc[w] \in {"created", "configuring", "migrating"}
    /\ Goto(w, "closed")
    /\ UNCHANGED <<file, rows, writing, reading>>

-----------------------------------------------------------------------------
(* The open store.                                                            *)

(* Record ensures the conversation in the transaction of its rows; without a  *)
(* message it is EnsureConversation.                                          *)
Record(w, k) ==
    /\ pc[w] = "open" /\ {"conversations", "messages"} \subseteq has
    /\ convs' = convs \cup {k}
    /\ msgs' \in {msgs, msgs \cup {k}}
    /\ UNCHANGED <<file, pc, writing, reading>>

(* AppendMessage does not: the conversation has to be there, if the           *)
(* connection enforces the foreign key.                                       *)
AppendMessage(w, k) ==
    /\ pc[w] = "open" /\ "messages" \in has
    /\ enforces[w] => k \in convs
    /\ msgs' = msgs \cup {k}
    /\ bare' = IF w \in replaced THEN bare \cup {k} ELSE bare
    /\ UNCHANGED <<file, convs, pc, next, enforces, replaced, found, made, opened, reading>>

(* The caller's context expires in a statement (whose row may be there all    *)
(* the same: that is AppendMessage and then this).  The driver may declare    *)
(* the connection unusable, and database/sql opens another one, on which      *)
(* nobody sets the pragmas again.                                             *)
Expire(w) ==
    /\ pc[w] = "open"
    /\ enforces' = [enforces EXCEPT ![w] = FALSE]
    /\ replaced' = replaced \cup {w}
    /\ UNCHANGED <<file, rows, pc, next, bare, found, made, opened, reading>>

(* Close, or the process dies, at any point.                                  *)
Leave(w) ==
    /\ pc[w] # "closed"
    /\ Goto(w, "closed")
    /\ UNCHANGED <<file, rows, writing, reading>>

-----------------------------------------------------------------------------
(* The commands conversations, messages and events.                           *)

Finish(r, e) ==
    /\ Goto(r, "closed")
    /\ exit' = [exit EXCEPT ![r] = e]

(* readFlags and openReadStore before they touch the path: a flag does not    *)
(* parse, --conversation or --store is missing.                               *)
RejectArguments(r) ==
    /\ pc[r] = "closed"
    /\ Finish(r, "usage")
    /\ UNCHANGED <<file, rows, writing, table, shown>>

Run(r, t) ==
    /\ pc[r] = "closed"
    /\ table' = [table EXCEPT ![r] = t]
    /\ shown' = [shown EXCEPT ![r] = {}]
    /\ exit' = [exit EXCEPT ![r] = "none"]
    /\ Goto(r, "opening")
    /\ UNCHANGED <<file, rows, writing>>

(* os.Stat, then a connection with mode=ro, which looks at no table.          *)
OpenReadOnly(r) ==
    /\ pc[r] = "opening"
    /\ IF mode = "missing" THEN Finish(r, "no file")
                           ELSE Goto(r, "listing") /\ UNCHANGED exit
    /\ UNCHANGED <<file, rows, writing, table, shown>>

(* The one SELECT of the command, at the last commit.                         *)
Content(t) == IF t = "conversations" THEN convs ELSE IF t = "messages" THEN msgs ELSE {}

ListUnchecked(r) ==          \* mutant: the error of the SELECT is an empty page
    /\ pc[r] = "listing"
    /\ shown' = [shown EXCEPT ![r] = Content(table[r])]
    /\ Goto(r, "printing")
    /\ UNCHANGED <<file, rows, writing, table, exit>>
List(r) ==
    /\ pc[r] = "listing"
    /\ IF table[r] \in has
       THEN /\ shown' = [shown EXCEPT ![r] = Content(table[r])]
            /\ Goto(r, "printing") /\ UNCHANGED exit
       ELSE Finish(r, "no table") /\ UNCHANGED shown
    /\ UNCHANGED <<file, rows, writing, table>>

EmitJSON(r) ==
    /\ pc[r] = "printing"
    /\ Finish(r, "printed")
    /\ UNCHANGED <<file, rows, writing, table, shown>>

(* The ping, the SELECT, a scan or the output fails.                          *)
ReadFails(r) ==
    /\ pc[r] \in {"opening", "listing", "printing"}
    /\ Finish(r, "fault")
    /\ UNCHANGED <<file, rows, writing, table, shown>>

-----------------------------------------------------------------------------
OpenStep(w) == Create(w) \/ Secure(w) \/ Configure(w) \/ Migrate(w) \/ OpenFails(w)
UseStep(w) == \/ \E k \in Conversation : Record(w, k) \/ AppendMessage(w, k)
              \/ Expire(w) \/ Leave(w)
ReadStep(r) == \/ RejectArguments(r) \/ \E t \in Listed : Run(r, t)
               \/ OpenReadOnly(r) \/ List(r) \/ EmitJSON(r) \/ ReadFails(r)

Next ==
    \/ \E w \in Writer : OpenStep(w) \/ UseStep(w)
    \/ \E r \in Reader : ReadStep(r)

Spec == Init /\ [][Next]_vars

-----------------------------------------------------------------------------
(* The type of every variable; a store is open only when every statement of   *)
(* the migration has run.                                                     *)
TypeOK ==
    /\ mode \in {"missing", "private", "shared"}
    /\ has \subseteq Durable
    /\ convs \subseteq Conversation /\ msgs \subseteq Conversation
    /\ \A w \in Writer : pc[w] \in WriterPlace
    /\ \A r \in Reader : pc[r] \in ReaderPlace
    /\ next \in [Writer -> 1..Len(Statements)]
    /\ \A w \in Writer : pc[w] = "open" => next[w] = Len(Statements)
    /\ enforces \in [Writer -> BOOLEAN]
    /\ table \in [Reader -> Listed]
    /\ shown \in [Reader -> SUBSET Conversation]
    /\ exit \in [Reader -> Exit]
    /\ found \in BOOLEAN /\ made \in BOOLEAN /\ opened \in BOOLEAN
    /\ replaced \subseteq Writer /\ bare \subseteq Conversation

(* A store that OpenSQLite has returned stands on the whole schema and on a   *)
(* private file, although the migration is no transaction: whatever earlier   *)
(* openers left behind when they failed or crashed, and whatever others are   *)
(* doing to the same file meanwhile.                                          *)
OpenIsComplete == \A w \in Writer : pc[w] = "open" => has = Durable /\ mode = "private"

(* "New local transcript databases use owner-only (0600) permissions, and     *)
(* read commands never create a missing database" (README.md:129-130): a file *)
(* that was not found there was made by OpenSQLite, and is private at every   *)
(* instant, not only once OpenSQLite has returned.                            *)
NewFilesPrivate == found \/ mode = "missing" \/ (made /\ mode = "private")

(* No message without its conversation, by whatever calls and after whatever  *)
(* crashes, as long as no connection was replaced: foreign_keys belongs to    *)
(* the connection that OpenSQLite configured, and an orphan can only be       *)
(* appended through one that took its place.                                  *)
NoOrphans == msgs \ convs \subseteq bare

(* A read command never takes a missing or half migrated store for an empty   *)
(* transcript: what it prints comes from a table that is there, and is still  *)
(* there (the tables are append-only).                                        *)
EmptyMeansEmpty ==
    \A r \in Reader : exit[r] = "printed" => /\ table[r] \in has
                                             /\ shown[r] \subseteq Content(table[r])

(* Once a store was opened, a read command never again fails for want of the  *)
(* file or of a table, whoever opens, fails or crashes after that.            *)
ReadersServed ==
    [][\A r \in Reader : exit'[r] # exit[r] /\ opened => exit'[r] \notin {"no file", "no table"}]_vars
=============================================================================
