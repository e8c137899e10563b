---------------------------- MODULE MCSqliteStore ----------------------------
(* Two clients of one file.  The batches collide on purpose: the same message *)
(* id with another text, a batch that fails at its second row, a row of       *)
(* another conversation after a good one, rows whose conversation may not be  *)
(* there yet, and a conversation that is ensured again under another title.   *)
EXTENDS SqliteStore

CONSTANTS c1, c2,              \* clients
          k1, k2, blank,       \* conversation ids; blank is the empty id
          m1, m2, e1, e2,      \* row ids
          old, new             \* texts

MCClient == {c1, c2}
MCConversationId == {k1, k2, blank}
MCMessageId == {m1, m2, blank}
MCEventId == {e1, e2, blank}
MCText == {old, new}

Conv(k, t) == [id |-> k, text |-> t]
Row(i, k, t) == [id |-> i, conversation |-> k, text |-> t]
Record(k, t, ms, es) ==
    [op |-> "record", conversation |-> Conv(k, t), messages |-> ms, events |-> es]

(* A write as cli.go makes it: one message, one event.                        *)
SendStarted == Record(k1, old, <<Row(m1, k1, old)>>, <<Row(e1, k1, old)>>)
(* A new message and then an id that SendStarted also uses.                   *)
Duplicate == Record(k1, new, <<Row(m2, k1, old), Row(m1, k1, new)>>, <<>>)
(* A good message and then an event of another conversation.                  *)
Mismatch == Record(k2, old, <<Row(m2, k2, new)>>, <<Row(e2, k1, old)>>)
BlankBatch == Record(blank, old, <<>>, <<>>)
Ensure == [op |-> "ensure", conversation |-> Conv(k1, new), messages |-> <<>>, events |-> <<>>]
AppendMessage == [op |-> "message", conversation |-> Conv(blank, old),
                  messages |-> <<Row(m2, k1, old)>>, events |-> <<>>]
AppendEvent == [op |-> "event", conversation |-> Conv(blank, old),
                messages |-> <<>>, events |-> <<Row(e1, k1, new)>>]

MCCalls == {SendStarted, Duplicate, Mismatch, BlankBatch, Ensure,
            AppendMessage, AppendEvent}

(* One below the default, one above the maximum.                              *)
MCLimits == {0, 5}
MCNoLimits == {}

(* The clients run the same program.                                          *)
MCSymmetry == Permutations(MCClient)
=============================================================================
