----------------------------- MODULE Transcript -----------------------------
(* What the Store interface promises (internal/conversation/store.go): an     *)
(* append-only transcript shared by clients that make one call at a time.  A  *)
(* call takes effect as a whole, in the step that makes it return, or not at  *)
(* all: there is no step at which half of a Record batch is there, and none   *)
(* that changes or removes a row.  A read is a page of the committed rows.  A *)
(* crash forgets the call, and nothing else.                                  *)
EXTENDS TranscriptDB

CONSTANTS Client,                    \* processes that hold the store open
          Calls,                     \* the calls they may make, a set of Call
          Limits                     \* the limits they ask reads for

VARIABLES db,      \* the committed tables
          call,    \* call[c]: the write c waits for, or NoCall
          reply,   \* reply[c]: how c's last write ended
          seen     \* seen[c]: c's last read: of which table and conversation, and its rows

vars == <<db, call, reply, seen>>

NothingSeen == [table |-> "messages", conversation |-> Blank, rows |-> <<>>]

Init ==
    /\ db = EmptyTables
    /\ call = [c \in Client |-> NoCall]
    /\ reply = [c \in Client |-> "none"]
    /\ seen = [c \in Client |-> NothingSeen]

Invoke(c) ==
    /\ call[c] = NoCall
    /\ \E b \in Calls : call' = [call EXCEPT ![c] = b]
    /\ reply' = [reply EXCEPT ![c] = "none"]
    /\ UNCHANGED <<db, seen>>

(* The call is valid, its rows are new, and all of it is there at once.  The  *)
(* rows of a batch are rows of the conversation that the batch ensures.       *)
Effect(c) ==
    /\ WellFormed(call[c])
    /\ db' = Apply(db, call[c])
    /\ UniqueKeys(db')

Succeed(c) ==
    /\ call[c] # NoCall
    /\ Effect(c)
    /\ call' = [call EXCEPT ![c] = NoCall]
    /\ reply' = [reply EXCEPT ![c] = "ok"]
    /\ UNCHANGED seen

(* An error of Record means that nothing was written.  An error of the other  *)
(* calls means that, or that their one row is there and the answer was lost.  *)
Fail(c) ==
    /\ call[c] # NoCall
    /\ UNCHANGED db \/ (call[c].op # "record" /\ Effect(c))
    /\ call' = [call EXCEPT ![c] = NoCall]
    /\ reply' = [reply EXCEPT ![c] = "error"]
    /\ UNCHANGED seen

Read(c) ==
    /\ call[c] = NoCall
    /\ \E t \in {"messages", "events"}, k \in ConversationId, n \in Limits :
          seen' = [seen EXCEPT ![c] = [table |-> t, conversation |-> k, rows |-> Page(db[t], k, n)]]
    /\ UNCHANGED <<db, call, reply>>

Crash(c) ==
    /\ call' = [call EXCEPT ![c] = NoCall]
    /\ reply' = [reply EXCEPT ![c] = "none"]
    /\ UNCHANGED <<db, seen>>

Next == \E c \in Client : Invoke(c) \/ Succeed(c) \/ Fail(c) \/ Read(c) \/ Crash(c)

Spec == Init /\ [][Next]_vars
=============================================================================
