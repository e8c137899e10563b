-------------------------- MODULE SqliteStoreProofs --------------------------
(* For any number of clients, any calls and any rows: the store keeps its     *)
(* types and its integrity, only ever appends, and implements Transcript.     *)
(*                                                                            *)
(* The inductive invariant ties the open transaction to the tables and to the *)
(* call it executes: the image is what the committed tables become when the   *)
(* conversation is ensured and the rows inserted so far are appended.  So the *)
(* image, when the loops are done, is the whole batch applied, and dropping   *)
(* it at any earlier point leaves no trace.                                   *)
EXTENDS SqliteStore, NumberLemmas, SequencesExt, SequenceTheorems, TLAPS

-----------------------------------------------------------------------------
(* What the statements of the store do to the tables (TranscriptDB), for all  *)
(* tables: they stay well typed, they keep the integrity of the schema, and   *)
(* they only ever make the tables longer.                                     *)

(* A row whose id is new can be appended.                                     *)
LEMMA AppendKeepsUnique ==
    ASSUME NEW S, NEW rows \in Seq(S), NEW r \in S,
           UniqueIds(rows), \A i \in DOMAIN rows : rows[i].id # r.id
    PROVE  UniqueIds(Append(rows, r))
  <1>1. /\ Append(rows, r) \in Seq(S)
        /\ Len(Append(rows, r)) = Len(rows) + 1
        /\ DOMAIN Append(rows, r) = 1 .. Len(rows) + 1
        /\ \A i \in 1 .. Len(rows) : Append(rows, r)[i] = rows[i]
        /\ Append(rows, r)[Len(rows) + 1] = r
    BY AppendProperties, LenProperties
  <1>2. DOMAIN rows = 1 .. Len(rows) /\ Len(rows) \in Nat
    BY LenProperties
  <1> QED BY <1>1, <1>2 DEF UniqueIds

(* Every row of a longer sequence is an old one or the new one.               *)
LEMMA AppendReferences ==
    ASSUME NEW S, NEW rows \in Seq(S), NEW r \in S, NEW d,
           NEW free,
           \A i \in DOMAIN rows : rows[i] \in free \/ HasConversation(d, rows[i].conversation),
           r \in free \/ HasConversation(d, r.conversation)
    PROVE  \A i \in DOMAIN Append(rows, r) :
               \/ Append(rows, r)[i] \in free
               \/ HasConversation(d, Append(rows, r)[i].conversation)
  <1>1. /\ DOMAIN Append(rows, r) = 1 .. Len(rows) + 1
        /\ \A i \in 1 .. Len(rows) : Append(rows, r)[i] = rows[i]
        /\ Append(rows, r)[Len(rows) + 1] = r
    BY AppendProperties, LenProperties
  <1>2. DOMAIN rows = 1 .. Len(rows) /\ Len(rows) \in Nat
    BY LenProperties
  <1> QED BY <1>1, <1>2

(* ON CONFLICT DO NOTHING: the conversation is there, and no row is lost or   *)
(* changed.                                                                   *)
LEMMA EnsureRowProperties ==
    ASSUME NEW d \in Tables, NEW r \in ConversationRow
    PROVE  /\ EnsureRow(d, r) \in Tables
           /\ EnsureRow(d, r).messages = d.messages
           /\ EnsureRow(d, r).events = d.events
           /\ d.conversations \subseteq EnsureRow(d, r).conversations
           /\ HasConversation(EnsureRow(d, r), r.id)
           /\ \A free : Sound(d, free) => Sound(EnsureRow(d, r), free)
  <1>1. CASE HasConversation(d, r.id)
    BY <1>1 DEF EnsureRow
  <1>2. CASE ~HasConversation(d, r.id)
    <2> DEFINE e == EnsureRow(d, r)
    <2>1. e = [d EXCEPT !.conversations = @ \cup {r}]
      BY <1>2 DEF EnsureRow
    <2>2. /\ e \in Tables
          /\ e.conversations = d.conversations \cup {r}
          /\ e.messages = d.messages
          /\ e.events = d.events
      BY <2>1 DEF Tables
    <2>3. HasConversation(e, r.id) /\ \A id : HasConversation(d, id) => HasConversation(e, id)
      BY <2>2 DEF HasConversation
    <2>4. ASSUME NEW free, Sound(d, free) PROVE Sound(e, free)
      <3> HIDE DEF e
      <3>1. \A x, y \in e.conversations : x.id = y.id => x = y
        BY <1>2, <2>2, <2>4 DEF Sound, UniqueKeys, HasConversation
      <3> QED BY <2>2, <2>3, <2>4, <3>1 DEF Sound, UniqueKeys
    <2> QED BY <2>2, <2>3, <2>4
  <1> QED BY <1>1, <1>2

(* The tables with one of the sequences replaced, field by field.             *)
LEMMA ReplaceField ==
    ASSUME NEW d \in Tables, NEW x
    PROVE  /\ [d EXCEPT !.messages = x] =
                  [conversations |-> d.conversations, messages |-> x, events |-> d.events]
           /\ [d EXCEPT !.events = x] =
                  [conversations |-> d.conversations, messages |-> d.messages, events |-> x]
  BY DEF Tables

(* The integrity of the tables, for rows that may be more or less bare.       *)
LEMMA SoundForMore ==
    ASSUME NEW d, NEW free, NEW more, Sound(d, free),
           free.messages \subseteq more.messages, free.events \subseteq more.events
    PROVE  Sound(d, more)
  BY DEF Sound

(* An INSERT of a row with a new id keeps the integrity of the tables, if the *)
(* row has its conversation or is one of the bare rows.                       *)
LEMMA InsertMessageProperties ==
    ASSUME NEW d \in Tables, NEW r \in MessageRow, NEW free,
           Sound(d, free), \A i \in DOMAIN d.messages : d.messages[i].id # r.id,
           r \in free.messages \/ HasConversation(d, r.conversation)
    PROVE  /\ InsertMessage(d, r) \in Tables
           /\ InsertMessage(d, r).conversations = d.conversations
           /\ InsertMessage(d, r).messages = Append(d.messages, r)
           /\ InsertMessage(d, r).events = d.events
           /\ Sound(InsertMessage(d, r), free)
  <1> DEFINE e == InsertMessage(d, r)
  <1>1. d.messages \in Seq(MessageRow)
    BY DEF Tables
  <1>2. /\ e \in Tables
        /\ e.conversations = d.conversations
        /\ e.messages = Append(d.messages, r)
        /\ e.events = d.events
    BY <1>1, AppendProperties DEF InsertMessage, Tables
  <1>3. \A id : HasConversation(e, id) <=> HasConversation(d, id)
    BY <1>2 DEF HasConversation
  <1>4. UniqueIds(e.messages)
    BY <1>1, <1>2, AppendKeepsUnique DEF Sound, UniqueKeys
  <1>5. \A i \in DOMAIN e.messages : \/ e.messages[i] \in free.messages
                                 \/ HasConversation(d, e.messages[i].conversation)
    BY <1>1, <1>2, AppendReferences DEF Sound
  <1> HIDE DEF e
  <1>6. Sound(e, free)
    BY <1>2, <1>3, <1>4, <1>5 DEF Sound, UniqueKeys
  <1> QED BY <1>2, <1>6 DEF e

(* The same of events.                                                        *)
LEMMA InsertEventProperties ==
    ASSUME NEW d \in Tables, NEW r \in EventRow, NEW free,
           Sound(d, free), \A i \in DOMAIN d.events : d.events[i].id # r.id,
           r \in free.events \/ HasConversation(d, r.conversation)
    PROVE  /\ InsertEvent(d, r) \in Tables
           /\ InsertEvent(d, r).conversations = d.conversations
           /\ InsertEvent(d, r).messages = d.messages
           /\ InsertEvent(d, r).events = Append(d.events, r)
           /\ Sound(InsertEvent(d, r), free)
  <1> DEFINE e == InsertEvent(d, r)
  <1>1. d.events \in Seq(EventRow)
    BY DEF Tables
  <1>2. /\ e \in Tables
        /\ e.conversations = d.conversations
        /\ e.messages = d.messages
        /\ e.events = Append(d.events, r)
    BY <1>1, AppendProperties DEF InsertEvent, Tables
  <1>3. \A id : HasConversation(e, id) <=> HasConversation(d, id)
    BY <1>2 DEF HasConversation
  <1>4. UniqueIds(e.events)
    BY <1>1, <1>2, AppendKeepsUnique DEF Sound, UniqueKeys
  <1>5. \A i \in DOMAIN e.events : \/ e.events[i] \in free.events
                                 \/ HasConversation(d, e.events[i].conversation)
    BY <1>1, <1>2, AppendReferences DEF Sound
  <1> HIDE DEF e
  <1>6. Sound(e, free)
    BY <1>2, <1>3, <1>4, <1>5 DEF Sound, UniqueKeys
  <1> QED BY <1>2, <1>6 DEF e

(* What is written at the end leaves the beginning alone.                     *)
LEMMA PrefixOfConcat ==
    ASSUME NEW S, NEW s \in Seq(S), NEW t \in Seq(S)
    PROVE  IsPrefix(s, s \o t)
  <1>1. /\ s \o t \in Seq(S)
        /\ Len(s \o t) = Len(s) + Len(t)
        /\ \A i \in 1 .. Len(s) : (s \o t)[i] = s[i]
        /\ Len(s) \in Nat /\ Len(t) \in Nat
    BY ConcatProperties, LenProperties
  <1>2. \A i \in 1 .. Len(s) : s[i] \in S /\ (s \o t)[i] \in S
    BY <1>1, ElementOfSeq
  <1>3. SubSeq(s, 1, Len(s)) = SubSeq(s \o t, 1, Len(s))
    <2>1. /\ SubSeq(s, 1, Len(s)) \in Seq(S)
          /\ Len(SubSeq(s, 1, Len(s))) = Len(s)
          /\ \A i \in 1 .. Len(s) : SubSeq(s, 1, Len(s))[i] = s[i]
      BY <1>1, <1>2, SubSeqProperties, SubSeqFull
    <2>2. /\ SubSeq(s \o t, 1, Len(s)) \in Seq(S)
          /\ Len(SubSeq(s \o t, 1, Len(s))) = Len(s)
          /\ \A i \in 1 .. Len(s) : SubSeq(s \o t, 1, Len(s))[i] = (s \o t)[i]
      <3>1. 1 \in Int /\ Len(s) \in Int /\ \A i \in 1 .. Len(s) : (s \o t)[i] \in S
        BY <1>1, <1>2
      <3> QED BY <1>1, <3>1, SubSeqProperties
    <2> QED BY <1>1, <2>1, <2>2, SeqEqual
  <1> QED BY <1>1, <1>3 DEF IsPrefix

-----------------------------------------------------------------------------
(* Reads.                                                                     *)

(* A prefix, row by row.                                                      *)
LEMMA PrefixMeans ==
    ASSUME NEW S, NEW s \in Seq(S), NEW t \in Seq(S)
    PROVE  IsPrefix(s, t) <=> Len(s) <= Len(t) /\ \A i \in 1 .. Len(s) : s[i] = t[i]
  <1>1. /\ Len(s) \in Nat /\ Len(t) \in Nat
        /\ \A i \in 1 .. Len(s) : s[i] \in S
        /\ \A i \in 1 .. Len(t) : t[i] \in S
    BY LenProperties, ElementOfSeq
  <1>2. CASE Len(s) <= Len(t)
    <2>1. /\ SubSeq(s, 1, Len(s)) \in Seq(S)
          /\ Len(SubSeq(s, 1, Len(s))) = Len(s)
          /\ \A i \in 1 .. Len(s) : SubSeq(s, 1, Len(s))[i] = s[i]
      BY <1>1, SubSeqProperties, SubSeqFull
    <2>2. /\ SubSeq(t, 1, Len(s)) \in Seq(S)
          /\ Len(SubSeq(t, 1, Len(s))) = Len(s)
          /\ \A i \in 1 .. Len(s) : SubSeq(t, 1, Len(s))[i] = t[i]
      <3>1. 1 \in Int /\ Len(s) \in Int /\ \A i \in 1 .. Len(s) : t[i] \in S
        BY <1>1, <1>2
      <3> QED BY <1>1, <3>1, SubSeqProperties
    <2>3. SubSeq(s, 1, Len(s)) = SubSeq(t, 1, Len(s)) <=> \A i \in 1 .. Len(s) : s[i] = t[i]
      BY <1>1, <2>1, <2>2, SeqEqual
    <2> QED BY <1>2, <2>3 DEF IsPrefix
  <1>3. CASE ~(Len(s) <= Len(t))
    BY <1>3 DEF IsPrefix
  <1> QED BY <1>2, <1>3

(* The beginning of a beginning is a beginning.                               *)
LEMMA PrefixTransitive ==
    ASSUME NEW S, NEW s \in Seq(S), NEW t \in Seq(S), NEW u \in Seq(S),
           IsPrefix(s, t), IsPrefix(t, u)
    PROVE  IsPrefix(s, u)
  <1>1. Len(s) \in Nat /\ Len(t) \in Nat /\ Len(u) \in Nat
    BY LenProperties
  <1>2. /\ Len(s) <= Len(t) /\ \A i \in 1 .. Len(s) : s[i] = t[i]
        /\ Len(t) <= Len(u) /\ \A i \in 1 .. Len(t) : t[i] = u[i]
    BY PrefixMeans
  <1>3. Len(s) <= Len(u) /\ \A i \in 1 .. Len(s) : s[i] = u[i]
    BY <1>1, <1>2
  <1> QED BY <1>3, PrefixMeans

LEMMA AppendExtends ==
    ASSUME NEW S, NEW s \in Seq(S), NEW x \in S PROVE IsPrefix(s, Append(s, x))
  <1>1. PICK t \in Seq(S) : t = Append(s, x)
    BY AppendProperties
  <1>2. /\ Len(t) = Len(s) + 1 /\ Len(s) \in Nat
        /\ \A i \in 1 .. Len(s) : t[i] = s[i]
    BY <1>1, AppendProperties, LenProperties
  <1>3. Len(s) <= Len(t)
    BY <1>2
  <1>4. IsPrefix(s, t)
    BY <1>2, <1>3, PrefixMeans
  <1> QED BY <1>1, <1>4

(* The scan of a table: what it has found after each row.                     *)
Found(scan, rows, id, n) ==
    IF n = 0 THEN <<>>
    ELSE IF rows[n].conversation = id THEN Append(scan[n - 1], rows[n])
    ELSE scan[n - 1]
Scans(scan, rows, id) == \A n \in 0 .. Len(rows) : scan[n] = Found(scan, rows, id, n)

(* There is such a scan, and it is the one of InConversation.                 *)
LEMMA ScanExists ==
    ASSUME NEW S, NEW rows \in Seq(S), NEW id
    PROVE  \E scan \in [0 .. Len(rows) -> Seq(S)] :
              Scans(scan, rows, id) /\ InConversation(rows, id) = scan[Len(rows)]
  <1>1. PICK size \in Nat : size = Len(rows)
    BY LenProperties
  <1>2. \A n \in 1..size : rows[n] \in S
    BY <1>1, ElementOfSeq
  <1> DEFINE more(n, found) ==
                 IF n < size
                 THEN IF rows[n + 1].conversation = id THEN Append(found, rows[n + 1]) ELSE found
                 ELSE found
             step == [p \in Nat \X Seq(S) |-> more(p[1], p[2])]
  <1>3. \A n \in Nat, found \in Seq(S) : more(n, found) \in Seq(S)
    <2> SUFFICES ASSUME NEW n \in Nat, NEW found \in Seq(S), n < size
                 PROVE  Append(found, rows[n + 1]) \in Seq(S)
      OBVIOUS
    <2>1. rows[n + 1] \in S
      BY <1>2
    <2> QED BY <2>1, AppendProperties
  <1>4. step \in [Nat \X Seq(S) -> Seq(S)]
    <2> HIDE DEF more
    <2> QED BY <1>3
  <1>5. \A n \in Nat, found \in Seq(S) : step[<<n, found>>] = more(n, found)
    <2> HIDE DEF more
    <2> QED OBVIOUS
  <1>6. PICK f \in [Nat -> Seq(S)] : Iterates(f, <<>>, step)
    <2>1. <<>> \in Seq(S)
      BY EmptySeq
    <2> HIDE DEF step
    <2> QED BY <1>4, <2>1, Iteration
  <1>7. f[0] = <<>> /\ \A n \in Nat : f[n + 1] = more(n, f[n])
    <2> HIDE DEF more, step
    <2> QED BY <1>5, <1>6 DEF Iterates
  <1> DEFINE g == [n \in 0..size |-> f[n]]
  <1>8. ASSUME NEW n \in 0..size PROVE g[n] = Found(g, rows, id, n)
    <2>1. CASE n = 0
      BY <1>7, <2>1 DEF Found
    <2>2. CASE n # 0
      <3>1. n - 1 \in Nat /\ n - 1 < size /\ (n - 1) + 1 = n /\ n - 1 \in 0..size
        BY <2>2
      <3>2. f[n] = more(n - 1, f[n - 1])
        BY <1>7, <3>1, Zenon
      <3>3. g[n] = f[n] /\ g[n - 1] = f[n - 1]
        BY <3>1
      <3> HIDE DEF g
      <3> QED BY <2>2, <3>1, <3>2, <3>3 DEF Found
    <2> QED BY <2>1, <2>2
  <1>9. g \in [0..size -> Seq(S)]
    OBVIOUS
  <1> HIDE DEF g
  <1>10. g = [n \in 0 .. Len(rows) |-> IF n = 0 THEN <<>>
                                       ELSE IF rows[n].conversation = id
                                            THEN Append(g[n - 1], rows[n])
                                            ELSE g[n - 1]]
    BY <1>1, <1>8, <1>9 DEF Found
  <1> DEFINE scan == CHOOSE h : h = [n \in 0 .. Len(rows) |->
                                        IF n = 0 THEN <<>>
                                        ELSE IF rows[n].conversation = id
                                             THEN Append(h[n - 1], rows[n])
                                             ELSE h[n - 1]]
  <1>11. scan = [n \in 0 .. Len(rows) |-> IF n = 0 THEN <<>>
                                          ELSE IF rows[n].conversation = id
                                               THEN Append(scan[n - 1], rows[n])
                                               ELSE scan[n - 1]]
    BY <1>10, Zenon
  <1>12. InConversation(rows, id) = scan[Len(rows)]
    BY Zenon DEF InConversation
  <1> HIDE DEF scan
  <1>13. Scans(scan, rows, id) /\ DOMAIN scan = 0 .. Len(rows)
    <2>1. DOMAIN scan = 0 .. Len(rows)
      BY <1>11, Zenon
    <2>2. ASSUME NEW n \in 0 .. Len(rows) PROVE scan[n] = Found(scan, rows, id, n)
      BY <1>11, Zenon DEF Found
    <2> QED BY <2>1, <2>2, Zenon DEF Scans
  <1> DEFINE T == {n \in Nat : n <= size => scan[n] \in Seq(S)}
  <1>14. 0 \in T
    <2>1. scan[0] = <<>>
      <3>1. 0 \in 0 .. Len(rows)
        BY <1>1
      <3>2. scan[0] = Found(scan, rows, id, 0)
        BY <1>13, <3>1, Zenon DEF Scans
      <3> QED BY <3>2, Zenon DEF Found
    <2>2. <<>> \in Seq(S)
      BY EmptySeq
    <2> QED BY <2>1, <2>2
  <1>15. ASSUME NEW n \in Nat, n \in T PROVE n + 1 \in T
    <2> SUFFICES ASSUME n + 1 <= size PROVE scan[n + 1] \in Seq(S)
      OBVIOUS
    <2>1. /\ n + 1 \in 0 .. Len(rows) /\ n + 1 # 0 /\ (n + 1) - 1 = n
          /\ scan[n] \in Seq(S) /\ rows[n + 1] \in S
      BY <1>1, <1>2, <1>15
    <2>2. scan[n + 1] = scan[n] \/ scan[n + 1] = Append(scan[n], rows[n + 1])
      <3>1. scan[n + 1] = Found(scan, rows, id, n + 1)
        BY <1>13, <2>1, Zenon DEF Scans
      <3> QED BY <2>1, <3>1, Zenon DEF Found
    <2>3. PICK found \in Seq(S), row \in S : found = scan[n] /\ row = rows[n + 1]
      BY <2>1
    <2>4. Append(found, row) \in Seq(S)
      BY AppendProperties
    <2> QED BY <2>2, <2>3, <2>4
  <1>16. Nat \subseteq T
    <2> HIDE DEF T
    <2> QED BY <1>14, <1>15, Induction
  <1>17. \A n \in 0 .. Len(rows) : scan[n] \in Seq(S)
    BY <1>1, <1>16
  <1>18. scan \in [0 .. Len(rows) -> Seq(S)]
    BY <1>11, <1>17
  <1> QED BY <1>12, <1>13, <1>18

(* What a scan has found stays the beginning of what it finds.                *)
LEMMA ScanGrows ==
    ASSUME NEW S, NEW rows \in Seq(S), NEW id,
           NEW scan \in [0 .. Len(rows) -> Seq(S)], Scans(scan, rows, id),
           NEW m \in 0 .. Len(rows)
    PROVE  \A n \in m .. Len(rows) : IsPrefix(scan[m], scan[n])
  <1>1. PICK size \in Nat : size = Len(rows)
    BY LenProperties
  <1>2. m \in 0..size /\ scan[m] \in Seq(S)
    BY <1>1
  <1> DEFINE T == {n \in Nat : m <= n /\ n <= size => IsPrefix(scan[m], scan[n])}
  <1>3. IsPrefix(scan[m], scan[m])
    BY <1>2, PrefixMeans, LenProperties
  <1>4. 0 \in T
    BY <1>2, <1>3
  <1>5. ASSUME NEW n \in Nat, n \in T PROVE n + 1 \in T
    <2> SUFFICES ASSUME m <= n + 1, n + 1 <= size PROVE IsPrefix(scan[m], scan[n + 1])
      OBVIOUS
    <2>1. CASE m = n + 1
      BY <1>3, <2>1
    <2>2. CASE m <= n
      <3>1. /\ IsPrefix(scan[m], scan[n])
            /\ n \in 0 .. Len(rows) /\ n + 1 \in 0 .. Len(rows)
            /\ n + 1 \in 1 .. Len(rows) /\ n + 1 # 0 /\ (n + 1) - 1 = n
        BY <1>1, <1>5, <2>2
      <3>2. PICK first \in Seq(S), found \in Seq(S), more \in Seq(S), row \in S :
               first = scan[m] /\ found = scan[n] /\ more = scan[n + 1] /\ row = rows[n + 1]
        BY <1>2, <3>1, ElementOfSeq
      <3>3. more = found \/ more = Append(found, row)
        <4>1. scan[n + 1] = Found(scan, rows, id, n + 1)
          BY <3>1, Zenon DEF Scans
        <4> QED BY <3>1, <3>2, <4>1, Zenon DEF Found
      <3>4. IsPrefix(found, Append(found, row)) /\ Append(found, row) \in Seq(S)
        BY AppendExtends, AppendProperties
      <3>5. IsPrefix(first, more)
        BY <3>1, <3>2, <3>3, <3>4, PrefixTransitive
      <3> QED BY <3>2, <3>5
    <2> QED BY <1>2, <2>1, <2>2
  <1>6. Nat \subseteq T
    <2> HIDE DEF T
    <2> QED BY <1>4, <1>5, Induction
  <1> QED BY <1>1, <1>2, <1>6

(* The scan of a table that has grown begins as the scan of the table.        *)
LEMMA ScansAgree ==
    ASSUME NEW S, NEW rows \in Seq(S), NEW longer \in Seq(S), NEW id, IsPrefix(rows, longer),
           NEW scan \in [0 .. Len(rows) -> Seq(S)], Scans(scan, rows, id),
           NEW wide \in [0 .. Len(longer) -> Seq(S)], Scans(wide, longer, id)
    PROVE  scan[Len(rows)] = wide[Len(rows)]
  <1>1. PICK size \in Nat, length \in Nat : size = Len(rows) /\ length = Len(longer)
    BY LenProperties
  <1>2. size <= length /\ \A i \in 1..size : rows[i] = longer[i]
    BY <1>1, PrefixMeans
  <1> DEFINE T == {n \in Nat : n <= size => scan[n] = wide[n]}
  <1>3. 0 \in T
    <2>1. 0 \in 0 .. Len(rows) /\ 0 \in 0 .. Len(longer)
      BY <1>1
    <2>2. scan[0] = Found(scan, rows, id, 0) /\ wide[0] = Found(wide, longer, id, 0)
      BY <2>1, Zenon DEF Scans
    <2>3. scan[0] = wide[0]
      BY <2>2, Zenon DEF Found
    <2> QED BY <2>3
  <1>4. ASSUME NEW n \in Nat, n \in T PROVE n + 1 \in T
    <2> SUFFICES ASSUME n + 1 <= size PROVE scan[n + 1] = wide[n + 1]
      OBVIOUS
    <2>1. /\ n + 1 \in 0 .. Len(rows) /\ n + 1 \in 0 .. Len(longer)
          /\ n + 1 # 0 /\ (n + 1) - 1 = n /\ rows[n + 1] = longer[n + 1] /\ scan[n] = wide[n]
      BY <1>1, <1>2, <1>4
    <2>2. scan[n + 1] = Found(scan, rows, id, n + 1) /\ wide[n + 1] = Found(wide, longer, id, n + 1)
      BY <2>1 DEF Scans
    <2> QED BY <2>1, <2>2, Zenon DEF Found
  <1>5. Nat \subseteq T
    <2> HIDE DEF T
    <2> QED BY <1>3, <1>4, Induction
  <1> QED BY <1>1, <1>5

(* The rows of a conversation stay the beginning of its rows.                 *)
LEMMA InConversationGrows ==
    ASSUME NEW S, NEW rows \in Seq(S), NEW longer \in Seq(S), NEW id, IsPrefix(rows, longer)
    PROVE  IsPrefix(InConversation(rows, id), InConversation(longer, id))
  <1>1. PICK scan \in [0 .. Len(rows) -> Seq(S)] :
           Scans(scan, rows, id) /\ InConversation(rows, id) = scan[Len(rows)]
    BY ScanExists
  <1>2. PICK wide \in [0 .. Len(longer) -> Seq(S)] :
           Scans(wide, longer, id) /\ InConversation(longer, id) = wide[Len(longer)]
    BY ScanExists
  <1>3. scan[Len(rows)] = wide[Len(rows)]
    BY <1>1, <1>2, ScansAgree
  <1>4. Len(rows) \in 0 .. Len(longer) /\ Len(longer) \in Len(rows) .. Len(longer)
    BY PrefixMeans, LenProperties
  <1>5. IsPrefix(wide[Len(rows)], wide[Len(longer)])
    BY <1>2, <1>4, ScanGrows
  <1> QED BY <1>1, <1>2, <1>3, <1>5

LEMMA InConversationTyped ==
    ASSUME NEW S, NEW rows \in Seq(S), NEW id PROVE InConversation(rows, id) \in Seq(S)
  <1>1. PICK scan \in [0 .. Len(rows) -> Seq(S)] : InConversation(rows, id) = scan[Len(rows)]
    BY ScanExists
  <1>2. Len(rows) \in 0 .. Len(rows)
    BY LenProperties
  <1> QED BY <1>1, <1>2

(* A page is the beginning of the rows of its conversation.                   *)
LEMMA PageIsPrefix ==
    ASSUME NEW S, NEW rows \in Seq(S), NEW id, NEW n \in Int
    PROVE  Page(rows, id, n) \in Seq(S) /\ IsPrefix(Page(rows, id, n), InConversation(rows, id))
  <1>1. PICK all \in Seq(S) : all = InConversation(rows, id)
    BY InConversationTyped
  <1>2. Len(all) \in Nat /\ \A i \in 1 .. Len(all) : all[i] \in S
    BY LenProperties, ElementOfSeq
  <1>3. boundedLimit(n) \in Nat
    BY LimitAssumption DEF boundedLimit
  <1>4. PICK m \in Nat : m <= Len(all) /\ Page(rows, id, n) = SubSeq(all, 1, m)
    BY <1>1, <1>2, <1>3 DEF Page
  <1>5. PICK page \in Seq(S) : page = SubSeq(all, 1, m) /\ Len(page) = m
                              /\ \A i \in 1..m : page[i] = all[i]
    <2>1. 1 \in Int /\ m \in Int /\ \A i \in 1..m : all[i] \in S
      BY <1>2, <1>4
    <2>2. /\ SubSeq(all, 1, m) \in Seq(S) /\ Len(SubSeq(all, 1, m)) = m
          /\ \A i \in 1..m : SubSeq(all, 1, m)[i] = all[i]
      BY <1>2, <1>4, <2>1, SubSeqProperties
    <2> QED BY <2>2
  <1>6. IsPrefix(page, all)
    BY <1>4, <1>5, PrefixMeans
  <1> QED BY <1>1, <1>4, <1>5, <1>6

-----------------------------------------------------------------------------
(* The clients.                                                               *)

(* Where a client is tells what its call is, which was decided before, and a  *)
(* connection that does not enforce the foreign key is a replaced one.        *)
StageInv ==
    \A c \in Client :
        /\ stage[c] \in {"begin", "rows"} =>
              call[c].op = "record" /\ call[c].conversation.id # Blank
        /\ stage[c] = "statement" => call[c].op # "record" /\ Accepted(call[c])
        /\ stage[c] # "closed" => c \in replaced \/ enforces[c]

(* The transaction of c: its image, and the rows of its call inserted so far. *)
Image(c) ==
    /\ Sound(image, bare)
    /\ HasConversation(image, call[c].conversation.id)
    /\ image.conversations = EnsureRow(db, call[c].conversation).conversations
    /\ done.messages \in 0 .. Len(call[c].messages)
    /\ done.events \in 0 .. Len(call[c].events)
    /\ image.messages = db.messages \o SubSeq(call[c].messages, 1, done.messages)
    /\ image.events = db.events \o SubSeq(call[c].events, 1, done.events)
    /\ \A i \in 1 .. done.messages : RowBelongs(call[c], call[c].messages[i])
    /\ \A i \in 1 .. done.events : RowBelongs(call[c], call[c].events[i])

ImageInv ==
    /\ lock = Nobody => done = NothingDone
    /\ \A c \in Client : lock = c => Image(c)

IInv == TypeOK /\ TablesConsistent /\ StageInv /\ ImageInv

-----------------------------------------------------------------------------
(* One more row of the batch at the end of the image.                         *)
LEMMA ExtendBatch ==
    ASSUME NEW S, NEW s \in Seq(S), NEW t \in Seq(S), NEW k \in Nat, k + 1 <= Len(t)
    PROVE  Append(s \o SubSeq(t, 1, k), t[k + 1]) = s \o SubSeq(t, 1, k + 1)
  <1> DEFINE u == SubSeq(t, 1, k)
             v == SubSeq(t, 1, k + 1)
             x == t[k + 1]
             one == <<x>>
  <1>1. Len(t) \in Nat /\ \A i \in 1 .. Len(t) : t[i] \in S
    BY LenProperties, ElementOfSeq
  <1>2. u \in Seq(S) /\ x \in S /\ one \in Seq(S)
    <2>1. \A i \in 1 .. k : t[i] \in S
      BY <1>1
    <2>2. x \in S
      BY <1>1
    <2> QED BY <2>1, <2>2, SubSeqProperties
  <1>3. v = u \o one
    <2>1. 1 \in 1 .. Len(t) /\ k + 1 \in 1 .. Len(t) /\ (k + 1) - 1 = k
      BY <1>1
    <2> QED BY <2>1, SubSeqRecursiveSecond
  <1> HIDE DEF u, v, x
  <1>4. s \o u \in Seq(S)
    BY <1>2, ConcatProperties
  <1>5. Append(s \o u, x) = (s \o u) \o one
    BY <1>2, <1>4, AppendIsConcat
  <1> HIDE DEF one
  <1>6. (s \o u) \o one = s \o (u \o one)
    BY <1>2, ConcatAssociative
  <1>7. Append(s \o u, x) = s \o v
    BY <1>3, <1>5, <1>6, Zenon
  <1> QED BY <1>7 DEF u, v, x

(* A call that is not a batch does one of three single statements.  Its row   *)
(* has its conversation if that was looked at; otherwise it may be bare.      *)
LEMMA ApplyAutocommit ==
    ASSUME NEW d \in Tables, NEW b \in Calls, b.op # "record", NEW fk, CanApply(d, b, fk),
           NEW free, Sound(d, free),
           fk \/ (ToSet(b.messages) \subseteq free.messages /\ ToSet(b.events) \subseteq free.events)
    PROVE  Apply(d, b) \in Tables /\ Sound(Apply(d, b), free)
  <1>1. /\ b \in Call
        /\ b.conversation \in ConversationRow
        /\ b.messages \in Seq(MessageRow)
        /\ b.events \in Seq(EventRow)
        /\ d.messages \in Seq(MessageRow)
        /\ d.events \in Seq(EventRow)
    BY CallsAssumption DEF Call, Tables
  <1>2. CASE b.op = "ensure"
    <2>1. Apply(d, b) = EnsureRow(d, b.conversation)
      <3>1. b.messages = <<>> /\ b.events = <<>>
        BY <1>2, CallsAssumption
      <3>2. d.messages \o b.messages = d.messages /\ d.events \o b.events = d.events
        BY <1>1, <3>1, ConcatEmptySeq
      <3>3. EnsureRow(d, b.conversation) \in Tables
        BY <1>1, EnsureRowProperties
      <3> QED BY <1>1, <1>2, <3>2, <3>3, EnsureRowProperties DEF Apply, Tables
    <2> QED BY <1>1, <2>1, EnsureRowProperties
  <1>3. CASE b.op = "message"
    <2>1. b.events = <<>> /\ Len(b.messages) = 1
      BY <1>3, CallsAssumption
    <2>2. /\ DOMAIN b.messages = 1 .. 1
          /\ b.messages[1] \in MessageRow
      BY <1>1, <2>1, LenProperties, ElementOfSeq
    <2>3. /\ \A i \in DOMAIN d.messages : d.messages[i].id # b.messages[1].id
          /\ b.messages[1] \in free.messages \/ HasConversation(d, b.messages[1].conversation)
      BY <2>2 DEF CanApply, CanInsert, ToSet
    <2>4. Apply(d, b) = InsertMessage(d, b.messages[1])
      <3>1. b.messages = <<b.messages[1]>>
        BY <1>1, <2>1
      <3>2. d.messages \o b.messages = Append(d.messages, b.messages[1])
        BY <1>1, <2>2, <3>1, AppendIsConcat
      <3>3. d.events \o b.events = d.events
        BY <1>1, <2>1, ConcatEmptySeq
      <3>4. Apply(d, b) = [conversations |-> d.conversations,
                           messages |-> Append(d.messages, b.messages[1]),
                           events |-> d.events]
        BY <1>3, <3>2, <3>3 DEF Apply
      <3> QED BY <3>4, ReplaceField DEF InsertMessage
    <2> QED BY <2>2, <2>3, <2>4, InsertMessageProperties
  <1>4. CASE b.op = "event"
    <2>1. b.messages = <<>> /\ Len(b.events) = 1
      BY <1>4, CallsAssumption
    <2>2. /\ DOMAIN b.events = 1 .. 1
          /\ b.events[1] \in EventRow
      BY <1>1, <2>1, LenProperties, ElementOfSeq
    <2>3. /\ \A i \in DOMAIN d.events : d.events[i].id # b.events[1].id
          /\ b.events[1] \in free.events \/ HasConversation(d, b.events[1].conversation)
      BY <2>2 DEF CanApply, CanInsert, ToSet
    <2>4. Apply(d, b) = InsertEvent(d, b.events[1])
      <3>1. b.events = <<b.events[1]>>
        BY <1>1, <2>1
      <3>2. d.events \o b.events = Append(d.events, b.events[1])
        BY <1>1, <2>2, <3>1, AppendIsConcat
      <3>3. d.messages \o b.messages = d.messages
        BY <1>1, <2>1, ConcatEmptySeq
      <3>4. Apply(d, b) = [conversations |-> d.conversations,
                           messages |-> d.messages,
                           events |-> Append(d.events, b.events[1])]
        BY <1>4, <3>2, <3>3 DEF Apply
      <3> QED BY <3>4, ReplaceField DEF InsertEvent
    <2> QED BY <2>2, <2>3, <2>4, InsertEventProperties
  <1> QED BY <1>1, <1>2, <1>3, <1>4 DEF Call

-----------------------------------------------------------------------------
(* Where every history begins.                                                *)
LEMMA EmptyTablesProperties == EmptyTables \in Tables /\ \A free : Sound(EmptyTables, free)
  <1>1. \A S : <<>> \in Seq(S)
    BY EmptySeq
  <1> QED BY <1>1 DEF EmptyTables, Tables, Sound, UniqueKeys, UniqueIds

(* NoCall is told from every call by its op.                                  *)
LEMMA CallsAreCalls ==
    /\ NoCall \notin Calls
    /\ \A b \in Calls : /\ b.op \in {"record", "ensure", "message", "event"}
                        /\ b.conversation \in ConversationRow
                        /\ b.messages \in Seq(MessageRow)
                        /\ b.events \in Seq(EventRow)
  <1>1. \A b \in Calls : /\ b.op \in {"record", "ensure", "message", "event"}
                        /\ b.conversation \in ConversationRow
                        /\ b.messages \in Seq(MessageRow)
                        /\ b.events \in Seq(EventRow)
    BY CallsAssumption DEF Call
  <1>2. NoCall.op = "none"
    BY DEF NoCall
  <1> QED BY <1>1, <1>2

(* The empty store with nobody in it.                                         *)
LEMMA InitIInv == Init => IInv
  <1> SUFFICES ASSUME Init PROVE IInv
    OBVIOUS
  <1> USE DEF Init
  <1>1. TypeOK
    BY EmptyTablesProperties, ClientAssumption DEF TypeOK, NothingDone, NothingBare, Stage
  <1>2. TablesConsistent
    BY EmptyTablesProperties DEF TablesConsistent
  <1>3. StageInv /\ ImageInv
    BY ClientAssumption DEF StageInv, ImageInv
  <1> QED BY <1>1, <1>2, <1>3 DEF IInv

(* Connections are opened configured, or replace configured ones.             *)
ConnectionsKept ==
    /\ enforces' \in [Client -> BOOLEAN]
    /\ replaced' \subseteq Client
    /\ \A x \in Client : stage'[x] # "closed" => x \in replaced' \/ enforces'[x]

(* An error return with the deferred rollback, and a crash: the lock, the     *)
(* image and the position end with the transaction, the tables stay.          *)
LEMMA TransactionEnds ==
    ASSUME IInv, NEW c \in Client, NEW place \in {"idle", "closed"}, NEW r \in {"none", "error"},
           call' = [call EXCEPT ![c] = NoCall],
           reply' = [reply EXCEPT ![c] = r],
           stage' = [stage EXCEPT ![c] = place],
           EndTransaction(c), db' = db, bare' = bare, ConnectionsKept
    PROVE  IInv'
  <1>1. TypeOK'
    <2>1. image' \in Tables /\ done' \in [messages : Nat, events : Nat] /\ lock' \in Client \cup {Nobody}
      BY EmptyTablesProperties DEF EndTransaction, transaction, IInv, TypeOK, NothingDone
    <2>2. db' \in Tables /\ call' \in [Client -> Calls \cup {NoCall}]
          /\ reply' \in [Client -> {"none", "ok", "error"}] /\ stage' \in [Client -> Stage]
      BY DEF IInv, TypeOK, Stage
    <2>3. \A x \in Client : stage'[x] \in {"closed", "idle"} <=> call'[x] = NoCall
      BY DEF IInv, TypeOK
    <2>4. \A x \in Client : stage'[x] = "rows" <=> lock' = x
      BY ClientAssumption DEF EndTransaction, transaction, IInv, TypeOK
    <2>5. bare' \in [messages : SUBSET MessageRow, events : SUBSET EventRow]
      BY DEF IInv, TypeOK
    <2> QED BY <2>1, <2>2, <2>3, <2>4, <2>5 DEF TypeOK, ConnectionsKept
  <1>2. TablesConsistent'
    BY DEF IInv, TablesConsistent
  <1>3. StageInv'
    BY ClientAssumption
       DEF EndTransaction, IInv, TypeOK, StageInv, Accepted, WellFormed, ConnectionsKept
  <1>4. ImageInv'
    <2>1. CASE lock = c
      BY <2>1, ClientAssumption DEF EndTransaction, ImageInv
    <2>2. CASE lock # c
      <3>1. \A x \in Client : lock = x => call'[x] = call[x]
        BY <2>2 DEF IInv, TypeOK
      <3> QED BY <2>2, <3>1 DEF EndTransaction, transaction, IInv, ImageInv, Image
    <2> QED BY <2>1, <2>2
  <1> QED BY <1>1, <1>2, <1>3, <1>4 DEF IInv

(* The first INSERT of a batch: the image is the tables with the conversation.*)
LEMMA BeginIInv ==
    ASSUME IInv, NEW c \in Client, Begin(c)
    PROVE  IInv'
  <1> USE DEF Begin
  <1>1. call[c] \in Calls /\ call[c].op = "record" /\ call[c].conversation.id # Blank
    BY DEF IInv, TypeOK, StageInv
  <1>2. /\ image' \in Tables
        /\ image'.messages = db.messages
        /\ image'.events = db.events
        /\ Sound(image', bare) /\ HasConversation(image', call[c].conversation.id)
    BY <1>1, CallsAreCalls, EnsureRowProperties DEF IInv, TypeOK, TablesConsistent
  <1>3. TypeOK' /\ TablesConsistent' /\ StageInv'
    BY <1>1, <1>2, ClientAssumption
       DEF IInv, TypeOK, Stage, TablesConsistent, StageInv, connection
  <1>4. Image(c)'
    <2>1. done' = NothingDone
      BY DEF IInv, ImageInv
    <2>2. done'.messages = 0 /\ done'.events = 0
      BY <2>1 DEF NothingDone
    <2>3. /\ SubSeq(call[c].messages, 1, done'.messages) = <<>>
          /\ SubSeq(call[c].events, 1, done'.events) = <<>>
      BY <2>2, SubSeqEmpty
    <2>4. /\ db.messages \o <<>> = db.messages
          /\ db.events \o <<>> = db.events
      BY ConcatEmptySeq DEF IInv, TypeOK, Tables
    <2>5. /\ image'.messages = db.messages \o SubSeq(call[c].messages, 1, done'.messages)
          /\ image'.events = db.events \o SubSeq(call[c].events, 1, done'.events)
      BY <1>2, <2>3, <2>4, Zenon
    <2>6. Len(call[c].messages) \in Nat /\ Len(call[c].events) \in Nat
      BY <1>1, CallsAreCalls, LenProperties
    <2>7. /\ db' = db /\ call' = call /\ image' = EnsureRow(db, call[c].conversation)
          /\ bare' = bare
      BY DEF connection
    <2> QED BY <1>2, <2>2, <2>5, <2>6, <2>7 DEF Image
  <1>5. ImageInv'
    BY <1>4, ClientAssumption DEF ImageInv
  <1> QED BY <1>3, <1>5 DEF IInv

(* One turn of the loop over the messages.                                    *)
LEMMA InsertNextMessageIInv ==
    ASSUME IInv, NEW c \in Client, InsertNextMessage(c)
    PROVE  IInv'
  <1> USE DEF InsertNextMessage, connection
  <1> DEFINE ms == call[c].messages
             k == done.messages
  <1>1. lock = c /\ Image(c) /\ call[c] \in Calls
    BY DEF IInv, TypeOK, StageInv, ImageInv
  <1>2. ms \in Seq(MessageRow) /\ Len(ms) \in Nat /\ k \in Nat /\ k + 1 <= Len(ms)
    BY <1>1, CallsAreCalls, LenProperties DEF IInv, TypeOK, Image, MessagesDone
  <1>3. NextMessage(c) = ms[k + 1] /\ NextMessage(c) \in MessageRow
    BY <1>2, ElementOfSeq DEF NextMessage
  <1>4. /\ image' \in Tables
        /\ image'.conversations = image.conversations
        /\ image'.messages = Append(image.messages, NextMessage(c))
        /\ image'.events = image.events
        /\ Sound(image', bare) /\ HasConversation(image', call[c].conversation.id)
    <2>1. /\ \A i \in DOMAIN image.messages : image.messages[i].id # NextMessage(c).id
          /\ HasConversation(image, NextMessage(c).conversation)
      BY <1>1 DEF Image, CanInsert, RowBelongs
    <2>2. /\ image' = InsertMessage(image, NextMessage(c))
          /\ image \in Tables /\ Sound(image, bare)
      BY <1>1 DEF IInv, TypeOK, Image
    <2>3. Sound(image', bare) /\ image'.conversations = image.conversations
      BY <1>3, <2>1, <2>2, InsertMessageProperties
    <2>4. HasConversation(image', call[c].conversation.id)
      BY <1>1, <2>3 DEF Image, HasConversation
    <2> QED BY <1>3, <2>1, <2>2, <2>3, <2>4, InsertMessageProperties
  <1>5. done' \in [messages : Nat, events : Nat] /\ done'.messages = k + 1 /\ done'.events = done.events
    BY DEF IInv, TypeOK
  <1>6. TypeOK' /\ TablesConsistent' /\ StageInv'
    BY <1>4, <1>5 DEF IInv, TypeOK, TablesConsistent, StageInv
  <1>7. image'.messages = db.messages \o SubSeq(ms, 1, k + 1)
    <2>1. image.messages = db.messages \o SubSeq(ms, 1, k)
      BY <1>1 DEF Image
    <2>2. db.messages \in Seq(MessageRow)
      BY DEF IInv, TypeOK, Tables
    <2>3. Append(db.messages \o SubSeq(ms, 1, k), ms[k + 1]) = db.messages \o SubSeq(ms, 1, k + 1)
      BY <1>2, <2>2, ExtendBatch
    <2> HIDE DEF ms, k
    <2> QED BY <1>3, <1>4, <2>1, <2>3, Zenon
  <1>8. \A i \in 1 .. k + 1 : RowBelongs(call[c], ms[i])
    <2>1. \A i \in 1 .. k : RowBelongs(call[c], ms[i])
      BY <1>1 DEF Image
    <2>2. RowBelongs(call[c], ms[k + 1])
      BY <1>3
    <2>3. \A i \in 1 .. k + 1 : i \in 1 .. k \/ i = k + 1
      BY <1>2
    <2> QED BY <2>1, <2>2, <2>3
  <1>9. Image(c)'
    <2>1. db' = db /\ call' = call /\ bare' = bare
      OBVIOUS
    <2>2. image'.messages = db'.messages \o SubSeq(call'[c].messages, 1, done'.messages)
      BY <1>5, <1>7, <2>1, Zenon
    <2>3. image'.events = db'.events \o SubSeq(call'[c].events, 1, done'.events)
      BY <1>1, <1>4, <1>5, <2>1, Zenon DEF Image
    <2>4. image'.conversations = EnsureRow(db', call'[c].conversation).conversations
      BY <1>1, <1>4, <2>1, Zenon DEF Image
    <2>5. /\ done'.messages \in 0 .. Len(call'[c].messages)
          /\ done'.events \in 0 .. Len(call'[c].events)
      BY <1>1, <1>2, <1>5, <2>1 DEF Image
    <2>6. /\ \A i \in 1 .. done'.messages : RowBelongs(call'[c], call'[c].messages[i])
          /\ \A i \in 1 .. done'.events : RowBelongs(call'[c], call'[c].events[i])
      BY <1>1, <1>5, <1>8, <2>1 DEF Image
    <2> QED BY <1>4, <2>1, <2>2, <2>3, <2>4, <2>5, <2>6 DEF Image
  <1>10. ImageInv'
    BY <1>1, <1>9, ClientAssumption DEF ImageInv
  <1> QED BY <1>6, <1>10 DEF IInv

(* One turn of the loop over the events.                                      *)
LEMMA InsertNextEventIInv ==
    ASSUME IInv, NEW c \in Client, InsertNextEvent(c)
    PROVE  IInv'
  <1> USE DEF InsertNextEvent, connection
  <1> DEFINE es == call[c].events
             k == done.events
  <1>1. lock = c /\ Image(c) /\ call[c] \in Calls
    BY DEF IInv, TypeOK, StageInv, ImageInv
  <1>2. es \in Seq(EventRow) /\ Len(es) \in Nat /\ k \in Nat /\ k + 1 <= Len(es)
    BY <1>1, CallsAreCalls, LenProperties DEF IInv, TypeOK, Image, EventsDone
  <1>3. NextEvent(c) = es[k + 1] /\ NextEvent(c) \in EventRow
    BY <1>2, ElementOfSeq DEF NextEvent
  <1>4. /\ image' \in Tables
        /\ image'.conversations = image.conversations
        /\ image'.messages = image.messages
        /\ image'.events = Append(image.events, NextEvent(c))
        /\ Sound(image', bare) /\ HasConversation(image', call[c].conversation.id)
    <2>1. /\ \A i \in DOMAIN image.events : image.events[i].id # NextEvent(c).id
          /\ HasConversation(image, NextEvent(c).conversation)
      BY <1>1 DEF Image, CanInsert, RowBelongs
    <2>2. /\ image' = InsertEvent(image, NextEvent(c))
          /\ image \in Tables /\ Sound(image, bare)
      BY <1>1 DEF IInv, TypeOK, Image
    <2>3. Sound(image', bare) /\ image'.conversations = image.conversations
      BY <1>3, <2>1, <2>2, InsertEventProperties
    <2>4. HasConversation(image', call[c].conversation.id)
      BY <1>1, <2>3 DEF Image, HasConversation
    <2> QED BY <1>3, <2>1, <2>2, <2>3, <2>4, InsertEventProperties
  <1>5. done' \in [messages : Nat, events : Nat] /\ done'.messages = done.messages /\ done'.events = k + 1
    BY DEF IInv, TypeOK
  <1>6. TypeOK' /\ TablesConsistent' /\ StageInv'
    BY <1>4, <1>5 DEF IInv, TypeOK, TablesConsistent, StageInv
  <1>7. image'.events = db.events \o SubSeq(es, 1, k + 1)
    <2>1. image.events = db.events \o SubSeq(es, 1, k)
      BY <1>1 DEF Image
    <2>2. db.events \in Seq(EventRow)
      BY DEF IInv, TypeOK, Tables
    <2>3. Append(db.events \o SubSeq(es, 1, k), es[k + 1]) = db.events \o SubSeq(es, 1, k + 1)
      BY <1>2, <2>2, ExtendBatch
    <2> HIDE DEF es, k
    <2> QED BY <1>3, <1>4, <2>1, <2>3, Zenon
  <1>8. \A i \in 1 .. k + 1 : RowBelongs(call[c], es[i])
    <2>1. \A i \in 1 .. k : RowBelongs(call[c], es[i])
      BY <1>1 DEF Image
    <2>2. RowBelongs(call[c], es[k + 1])
      BY <1>3
    <2>3. \A i \in 1 .. k + 1 : i \in 1 .. k \/ i = k + 1
      BY <1>2
    <2> QED BY <2>1, <2>2, <2>3
  <1>9. Image(c)'
    <2>1. db' = db /\ call' = call /\ bare' = bare
      OBVIOUS
    <2>2. image'.events = db'.events \o SubSeq(call'[c].events, 1, done'.events)
      BY <1>5, <1>7, <2>1, Zenon
    <2>3. image'.messages = db'.messages \o SubSeq(call'[c].messages, 1, done'.messages)
      BY <1>1, <1>4, <1>5, <2>1, Zenon DEF Image
    <2>4. image'.conversations = EnsureRow(db', call'[c].conversation).conversations
      BY <1>1, <1>4, <2>1, Zenon DEF Image
    <2>5. /\ done'.messages \in 0 .. Len(call'[c].messages)
          /\ done'.events \in 0 .. Len(call'[c].events)
      BY <1>1, <1>2, <1>5, <2>1 DEF Image
    <2>6. /\ \A i \in 1 .. done'.messages : RowBelongs(call'[c], call'[c].messages[i])
          /\ \A i \in 1 .. done'.events : RowBelongs(call'[c], call'[c].events[i])
      BY <1>1, <1>5, <1>8, <2>1 DEF Image
    <2> QED BY <1>4, <2>1, <2>2, <2>3, <2>4, <2>5, <2>6 DEF Image
  <1>10. ImageInv'
    BY <1>1, <1>9, ClientAssumption DEF ImageInv
  <1> QED BY <1>6, <1>10 DEF IInv

(* When both loops are done the image is the whole batch, applied.            *)
LEMMA CommitApplies ==
    ASSUME IInv, NEW c \in Client, Commit(c)
    PROVE  /\ WellFormed(call[c])
           /\ db' = Apply(db, call[c])
           /\ UniqueKeys(db')
  <1> USE DEF Commit
  <1>1. Image(c) /\ call[c] \in Calls /\ call[c].op = "record" /\ call[c].conversation.id # Blank
    BY DEF IInv, TypeOK, StageInv, ImageInv
  <1>2. /\ call[c].messages \in Seq(MessageRow)
        /\ call[c].events \in Seq(EventRow)
        /\ DOMAIN call[c].messages = 1 .. done.messages
        /\ DOMAIN call[c].events = 1 .. done.events
    BY <1>1, CallsAreCalls, LenProperties DEF MessagesDone, EventsDone
  <1>3. WellFormed(call[c])
    BY <1>1, <1>2 DEF Image, WellFormed
  <1>4. /\ SubSeq(call[c].messages, 1, done.messages) = call[c].messages
        /\ SubSeq(call[c].events, 1, done.events) = call[c].events
    BY <1>2, SubSeqFull DEF MessagesDone, EventsDone
  <1>5. /\ image.conversations = EnsureRow(db, call[c].conversation).conversations
        /\ image.messages = db.messages \o call[c].messages
        /\ image.events = db.events \o call[c].events
        /\ image \in Tables
    BY <1>1, <1>4 DEF Image, IInv, TypeOK
  <1>6. image = Apply(db, call[c])
    BY <1>1, <1>5 DEF Apply, Tables
  <1> QED BY <1>1, <1>3, <1>6 DEF Image, Sound

(* A commit leaves the whole batch in the tables and no transaction.          *)
LEMMA CommitIInv ==
    ASSUME IInv, NEW c \in Client, Commit(c)
    PROVE  IInv'
  <1> USE DEF Commit, Return, connection
  <1>1. lock = c /\ Image(c)
    BY DEF IInv, TypeOK, StageInv, ImageInv
  <1>2. lock' = Nobody /\ image' = EmptyTables /\ done' = NothingDone /\ db' = image
    BY <1>1 DEF EndTransaction
  <1>3. TypeOK'
    <2>1. \A x \in Client : stage'[x] = "rows" <=> lock' = x
      BY <1>1, <1>2, ClientAssumption DEF IInv, TypeOK
    <2> QED BY <1>2, <2>1, EmptyTablesProperties DEF IInv, TypeOK, Stage, NothingDone
  <1>4. TablesConsistent'
    BY <1>1, <1>2 DEF Image, TablesConsistent
  <1>5. StageInv' /\ ImageInv'
    BY <1>1, <1>2, ClientAssumption DEF IInv, TypeOK, StageInv, ImageInv
  <1> QED BY <1>3, <1>4, <1>5 DEF IInv

(* A single-row call inserts while nobody has the lock, whatever it answers.  *)
LEMMA InsertRowIInv ==
    ASSUME IInv, NEW c \in Client, stage[c] = "statement", lock = Nobody, InsertRow(c),
           NEW r \in {"ok", "error"},
           call' = [call EXCEPT ![c] = NoCall],
           reply' = [reply EXCEPT ![c] = r],
           stage' = [stage EXCEPT ![c] = "idle"],
           UNCHANGED transaction, ConnectionsKept
    PROVE  IInv'
  <1>1. /\ db \in Tables /\ Sound(db, bare)
        /\ call[c] \in Calls /\ call[c].op # "record"
        /\ c \in replaced \/ enforces[c]
        /\ bare \in [messages : SUBSET MessageRow, events : SUBSET EventRow]
    BY DEF IInv, TypeOK, StageInv, TablesConsistent
  <1>2. /\ ToSet(call[c].messages) \subseteq MessageRow
        /\ ToSet(call[c].events) \subseteq EventRow
    BY <1>1, CallsAreCalls, ElementOfSeq, LenProperties DEF ToSet
  <1>3. /\ bare' \in [messages : SUBSET MessageRow, events : SUBSET EventRow]
        /\ bare.messages \subseteq bare'.messages /\ bare.events \subseteq bare'.events
        /\ \/ enforces[c]
           \/ /\ ToSet(call[c].messages) \subseteq bare'.messages
              /\ ToSet(call[c].events) \subseteq bare'.events
    BY <1>1, <1>2 DEF InsertRow
  <1>4. Sound(db, bare')
    BY <1>1, <1>3, SoundForMore
  <1>5. db' \in Tables /\ Sound(db', bare')
    BY <1>1, <1>3, <1>4, ApplyAutocommit DEF InsertRow
  <1>6. TypeOK' /\ TablesConsistent'
    BY <1>3, <1>5 DEF IInv, TypeOK, Stage, TablesConsistent, ConnectionsKept, transaction
  <1>7. StageInv' /\ ImageInv'
    BY ClientAssumption DEF IInv, TypeOK, StageInv, ImageInv, ConnectionsKept, transaction
  <1> QED BY <1>6, <1>7 DEF IInv

(* The clients that go on have the connections they had.                      *)
LEMMA SameConnections ==
    ASSUME IInv, UNCHANGED <<enforces, replaced>>,
           \A x \in Client : stage'[x] # "closed" => stage[x] # "closed"
    PROVE  ConnectionsKept
  BY DEF IInv, TypeOK, StageInv, ConnectionsKept

(* A context that runs out leaves the tables as they were, or with the one    *)
(* row of the call.                                                           *)
LEMMA ExpireIInv ==
    ASSUME IInv, NEW c \in Client, Expire(c)
    PROVE  IInv'
  <1> USE DEF Expire, Return
  <1>1. stage[c] # "closed" /\ stage \in [Client -> Stage]
    BY DEF IInv, TypeOK
  <1>2. ConnectionsKept
    <2>1. CASE UNCHANGED <<enforces, replaced>>
      BY <1>1, <2>1, SameConnections
    <2>2. CASE enforces' = [enforces EXCEPT ![c] = FALSE] /\ replaced' = replaced \cup {c}
      BY <1>1, <2>2 DEF IInv, TypeOK, StageInv, ConnectionsKept
    <2> QED BY <2>1, <2>2
  <1>3. CASE UNCHANGED <<db, bare>>
    BY <1>2, <1>3, TransactionEnds
  <1>4. CASE stage[c] = "statement" /\ lock = Nobody /\ InsertRow(c)
    <2>1. UNCHANGED transaction
      BY <1>4, ClientAssumption DEF EndTransaction
    <2> QED BY <1>2, <1>4, <2>1, InsertRowIInv
  <1> QED BY <1>3, <1>4

(* Every step preserves the invariant.                                        *)
LEMMA NextIInv == IInv /\ [Next]_vars => IInv'
  <1> SUFFICES ASSUME IInv, [Next]_vars PROVE IInv'
    OBVIOUS
  <1>1. ASSUME NEW c \in Client, Open(c) \/ Close(c) \/ Invoke(c) \/ Accept(c) \/ List(c)
        PROVE  IInv'
    <2>1. /\ UNCHANGED <<db, lock, image, done, bare>>
          /\ stage[c] # "rows"
          /\ \A x \in Client \ {c} : call'[x] = call[x] /\ stage'[x] = stage[x]
      BY <1>1 DEF Open, Close, Invoke, Accept, List, Disconnect, connection, transaction, IInv, TypeOK
    <2>2. enforces' \in [Client -> BOOLEAN] /\ replaced' \subseteq Client
      BY <1>1 DEF Open, Close, Invoke, Accept, List, Disconnect, connection, IInv, TypeOK
    <2>3. /\ call' \in [Client -> Calls \cup {NoCall}]
          /\ reply' \in [Client -> {"none", "ok", "error"}]
          /\ stage' \in [Client -> Stage]
          /\ stage'[c] \in {"closed", "idle"} <=> call'[c] = NoCall
          /\ stage'[c] # "rows"
      BY <1>1, CallsAreCalls DEF Open, Close, Invoke, Accept, List, IInv, TypeOK, Stage
    <2>4. TypeOK' /\ TablesConsistent'
      BY <2>1, <2>2, <2>3 DEF IInv, TypeOK, TablesConsistent
    <2>5. StageInv'
      BY <1>1, <2>1, ClientAssumption
         DEF Open, Close, Invoke, Accept, List, Disconnect, connection, Accepted, IInv, TypeOK,
             Stage, StageInv
    <2>6. ImageInv'
      <3>1. \A x \in Client : lock = x => x # c
        BY <2>1 DEF IInv, TypeOK
      <3> QED BY <2>1, <3>1 DEF IInv, ImageInv, Image
    <2> QED BY <2>4, <2>5, <2>6 DEF IInv
  <1>2. ASSUME NEW c \in Client, Begin(c) PROVE IInv'
    BY <1>2, BeginIInv
  <1>3. ASSUME NEW c \in Client, InsertNextMessage(c) PROVE IInv'
    BY <1>3, InsertNextMessageIInv
  <1>4. ASSUME NEW c \in Client, InsertNextEvent(c) PROVE IInv'
    BY <1>4, InsertNextEventIInv
  <1>5. ASSUME NEW c \in Client, Commit(c) PROVE IInv'
    BY <1>5, CommitIInv
  <1>6. ASSUME NEW c \in Client, Autocommit(c) PROVE IInv'
    <2>1. ConnectionsKept
      BY <1>6, SameConnections DEF Autocommit, Return, IInv, TypeOK
    <2> QED BY <1>6, <2>1, InsertRowIInv DEF Autocommit, Return, NoTransaction
  <1>7. ASSUME NEW c \in Client, Busy(c) \/ RowRejected(c) PROVE IInv'
    <2>1. ConnectionsKept
      BY <1>7, SameConnections DEF Busy, RowRejected, Rollback, Return, connection, IInv, TypeOK
    <2> QED BY <1>7, <2>1, TransactionEnds DEF Busy, RowRejected, Rollback, Return, connection
  <1>8. ASSUME NEW c \in Client, Refuse(c) \/ ConstraintFails(c) PROVE IInv'
    <2>1. lock # c
      BY <1>8 DEF Refuse, ConstraintFails, IInv, TypeOK
    <2>2. EndTransaction(c)
      BY <1>8, <2>1 DEF Refuse, ConstraintFails, NoTransaction, EndTransaction
    <2>3. ConnectionsKept
      BY <1>8, SameConnections DEF Refuse, ConstraintFails, Return, connection, IInv, TypeOK
    <2> QED BY <1>8, <2>2, <2>3, TransactionEnds DEF Refuse, ConstraintFails, Return, connection
  <1>9. ASSUME NEW c \in Client, Crash(c) PROVE IInv'
    <2>1. ConnectionsKept
      BY <1>9 DEF Crash, Disconnect, IInv, TypeOK, StageInv, ConnectionsKept
    <2> QED BY <1>9, <2>1, TransactionEnds DEF Crash, Disconnect
  <1>10. ASSUME NEW c \in Client, Expire(c) PROVE IInv'
    BY <1>10, ExpireIInv
  <1>11. CASE UNCHANGED vars
    <2>1. TypeOK' /\ TablesConsistent'
      BY <1>11 DEF vars, transaction, connection, IInv, TypeOK, TablesConsistent
    <2>2. StageInv'
      BY <1>11 DEF vars, connection, IInv, StageInv
    <2>3. ImageInv'
      BY <1>11 DEF vars, transaction, connection, IInv, ImageInv, Image
    <2> QED BY <2>1, <2>2, <2>3 DEF IInv
  <1> QED
    BY <1>1, <1>2, <1>3, <1>4, <1>5, <1>6, <1>7, <1>8, <1>9, <1>11, <1>10 DEF Next, Step

(* The invariant holds of every state.                                        *)
LEMMA SpecIInv == Spec => []IInv
  BY InitIInv, NextIInv, PTL DEF Spec

-----------------------------------------------------------------------------
(* Every variable keeps its type, a client has a call exactly while it is in  *)
(* one, and the write lock exactly while it is in the loops of Record.        *)
THEOREM TypeCorrect == Spec => []TypeOK
  BY SpecIInv, PTL DEF IInv

(* Unique ids in the committed tables, and no orphans but those that came     *)
(* through a replaced connection, for any interleaving of any number of       *)
(* clients, expired contexts and crashes included.                            *)
THEOREM TablesConsistentHolds == Spec => []TablesConsistent
  BY SpecIInv, PTL DEF IInv

-----------------------------------------------------------------------------
(* What a call applies goes to the end of the tables.                         *)
LEMMA ApplyAppends ==
    ASSUME NEW d \in Tables, NEW b \in Calls
    PROVE  /\ d.conversations \subseteq Apply(d, b).conversations
           /\ IsPrefix(d.messages, Apply(d, b).messages)
           /\ IsPrefix(d.events, Apply(d, b).events)
  <1>1. d.conversations \subseteq EnsureRow(d, b.conversation).conversations
    BY CallsAreCalls, EnsureRowProperties
  <1>2. /\ IsPrefix(d.messages, d.messages \o b.messages)
        /\ IsPrefix(d.events, d.events \o b.events)
    BY CallsAreCalls, PrefixOfConcat DEF Tables
  <1> QED BY <1>1, <1>2 DEF Apply

(* A step that writes the tables applies one call; all others leave them.     *)
LEMMA StepApplies ==
    ASSUME IInv, [Next]_vars
    PROVE  db' = db \/ \E c \in Client : call[c] \in Calls /\ db' = Apply(db, call[c])
  <1>1. ASSUME NEW c \in Client, Commit(c) PROVE call[c] \in Calls /\ db' = Apply(db, call[c])
    BY <1>1, CommitApplies DEF Commit, IInv, TypeOK
  <1>2. ASSUME NEW c \in Client, Autocommit(c)
        PROVE  call[c] \in Calls /\ db' = Apply(db, call[c])
    BY <1>2 DEF Autocommit, InsertRow, IInv, TypeOK
  <1>3. ASSUME NEW c \in Client,
               \/ Open(c) \/ Close(c) \/ Invoke(c) \/ Accept(c) \/ List(c) \/ Begin(c)
               \/ InsertNextMessage(c) \/ InsertNextEvent(c) \/ Busy(c) \/ RowRejected(c)
               \/ Refuse(c) \/ ConstraintFails(c) \/ Crash(c)
        PROVE  db' = db
    BY <1>3 DEF Open, Close, Invoke, Accept, List, Begin, InsertNextMessage, InsertNextEvent,
                Busy, RowRejected, Refuse, ConstraintFails, Crash, Rollback
  <1>4. ASSUME NEW c \in Client, Expire(c)
        PROVE  db' = db \/ (call[c] \in Calls /\ db' = Apply(db, call[c]))
    BY <1>4 DEF Expire, InsertRow, IInv, TypeOK
  <1>5. CASE UNCHANGED vars
    BY <1>5 DEF vars
  <1> QED BY <1>1, <1>2, <1>3, <1>4, <1>5 DEF Next, Step

(* No step of any client changes, removes or reorders a committed row.        *)
THEOREM AppendOnlyHolds == Spec => AppendOnly
  <1>1. IInv /\ [Next]_vars =>
            [ /\ db.conversations \subseteq db'.conversations
              /\ IsPrefix(db.messages, db'.messages)
              /\ IsPrefix(db.events, db'.events) ]_vars
    <2> SUFFICES ASSUME IInv, [Next]_vars
                 PROVE  /\ db.conversations \subseteq db'.conversations
                        /\ IsPrefix(db.messages, db'.messages)
                        /\ IsPrefix(db.events, db'.events)
      OBVIOUS
    <2>1. db \in Tables
      BY DEF IInv, TypeOK
    <2>2. CASE db' = db
      <3>1. \A S : <<>> \in Seq(S)
        BY EmptySeq
      <3>2. db.messages \o <<>> = db.messages /\ db.events \o <<>> = db.events
        BY <2>1, ConcatEmptySeq DEF Tables
      <3>3. /\ IsPrefix(db.messages, db.messages \o <<>>)
            /\ IsPrefix(db.events, db.events \o <<>>)
        BY <2>1, <3>1, PrefixOfConcat DEF Tables
      <3> QED BY <2>2, <3>2, <3>3, Zenon
    <2>3. CASE \E c \in Client : call[c] \in Calls /\ db' = Apply(db, call[c])
      BY <2>1, <2>3, ApplyAppends
    <2> QED BY <2>2, <2>3, StepApplies
  <1> QED BY <1>1, SpecIInv, PTL DEF Spec, AppendOnly

-----------------------------------------------------------------------------
(* What a read returns is of one of the two sequences.                        *)
AnyRow == MessageRow \cup EventRow
Reading == [table : {"messages", "events"}, conversation : ConversationId \cup {Blank},
            rows : Seq(AnyRow)]
SeenInv == seen \in [Client -> Reading]

LEMMA SequencesTyped ==
    ASSUME NEW d \in Tables, NEW t \in {"messages", "events"} PROVE d[t] \in Seq(AnyRow)
  <1>1. d.messages \in Seq(MessageRow) /\ d.events \in Seq(EventRow)
    BY DEF Tables
  <1>2. MessageRow \subseteq AnyRow /\ EventRow \subseteq AnyRow
    BY DEF AnyRow
  <1>3. d.messages \in Seq(AnyRow) /\ d.events \in Seq(AnyRow)
    <2> HIDE DEF AnyRow
    <2> QED BY <1>1, <1>2
  <1> QED BY <1>3

(* No step shortens or changes one of them.                                   *)
LEMMA StepAppends ==
    ASSUME IInv, [Next]_vars, NEW t \in {"messages", "events"}
    PROVE  IsPrefix(db[t], db'[t])
  <1>1. db \in Tables /\ db[t] \in Seq(AnyRow)
    BY SequencesTyped DEF IInv, TypeOK
  <1>2. CASE db' = db
    <2>1. IsPrefix(db[t], db[t])
      BY <1>1, PrefixMeans, LenProperties
    <2> QED BY <1>2, <2>1
  <1>3. CASE \E c \in Client : call[c] \in Calls /\ db' = Apply(db, call[c])
    BY <1>1, <1>3, ApplyAppends
  <1> QED BY <1>2, <1>3, StepApplies

LEMMA InitReads == ASSUME Init PROVE SeenInv /\ ReadsSurvive
  <1>1. <<>> \in Seq(AnyRow)
    BY EmptySeq
  <1>2. NothingSeen \in Reading /\ NothingSeen.rows = <<>> /\ NothingSeen.table = "messages"
    BY <1>1 DEF NothingSeen, Reading
  <1>3. PICK all \in Seq(AnyRow) : all = InConversation(<<>>, NothingSeen.conversation)
    BY <1>1, InConversationTyped
  <1>4. PICK none \in Seq(AnyRow) : none = <<>>
    BY <1>1
  <1>5. IsPrefix(<<>>, all)
    <2>1. Len(none) = 0 /\ Len(all) \in Nat
      BY <1>4, LenProperties
    <2>2. Len(none) <= Len(all) /\ \A i \in 1 .. Len(none) : none[i] = all[i]
      BY <2>1
    <2>3. IsPrefix(none, all)
      BY <2>2, PrefixMeans
    <2> QED BY <1>4, <2>3
  <1>6. db.messages = <<>>
    BY DEF Init, EmptyTables
  <1> QED BY <1>2, <1>3, <1>5, <1>6 DEF Init, SeenInv, ReadsSurvive

(* A read is a page of the tables as they are; every other step leaves what   *)
(* was read, and appends to what it was read from.                            *)
LEMMA NextReads ==
    ASSUME IInv, IInv', SeenInv, ReadsSurvive, [Next]_vars PROVE SeenInv' /\ ReadsSurvive'
  <1>1. db \in Tables /\ db' \in Tables
    BY DEF IInv, TypeOK
  <1>2. CASE \E c \in Client : List(c)
    <2>1. PICK c \in Client, t \in {"messages", "events"}, k \in ConversationId, n \in Limits :
             seen' = [seen EXCEPT ![c] = [table |-> t, conversation |-> k, rows |-> Page(db[t], k, n)]]
      BY <1>2 DEF List
    <2>2. db' = db
      BY <1>2 DEF List
    <2>3. db[t] \in Seq(AnyRow) /\ n \in Int
      BY <1>1, SequencesTyped, LimitsAssumption
    <2>4. PICK page \in Seq(AnyRow) :
             page = Page(db[t], k, n) /\ IsPrefix(page, InConversation(db[t], k))
      BY <2>3, PageIsPrefix
    <2>5. PICK new \in Reading : new = [table |-> t, conversation |-> k, rows |-> page]
      BY DEF Reading
    <2>6. seen' = [seen EXCEPT ![c] = new]
      BY <2>1, <2>4, <2>5
    <2>7. seen' \in [Client -> Reading] /\ \A x \in Client : seen'[x] = IF x = c THEN new ELSE seen[x]
      BY <2>6 DEF SeenInv
    <2>8. IsPrefix(new.rows, InConversation(db[new.table], new.conversation))
      BY <2>4, <2>5
    <2> QED BY <2>2, <2>7, <2>8 DEF SeenInv, ReadsSurvive
  <1>3. CASE ~ \E c \in Client : List(c)
    <2>1. seen' = seen
      BY <1>3 DEF Next, Step, Open, Close, Invoke, Refuse, Accept, Begin, Busy, InsertNextMessage,
         InsertNextEvent, RowRejected, Commit, Autocommit, ConstraintFails, Expire, Crash, Rollback,
         vars
    <2>2. ASSUME NEW c \in Client
          PROVE  IsPrefix(seen[c].rows, InConversation(db'[seen[c].table], seen[c].conversation))
      <3>1. seen[c] \in Reading
        BY DEF SeenInv
      <3>2. PICK t \in {"messages", "events"}, k \in ConversationId \cup {Blank}, page \in Seq(AnyRow) :
               t = seen[c].table /\ k = seen[c].conversation /\ page = seen[c].rows
        BY <3>1 DEF Reading
      <3>3. PICK before \in Seq(AnyRow), after \in Seq(AnyRow) : before = db[t] /\ after = db'[t]
        BY <1>1, SequencesTyped
      <3>4. IsPrefix(before, after)
        BY <3>3, StepAppends
      <3>5. PICK old \in Seq(AnyRow), all \in Seq(AnyRow) :
               old = InConversation(before, k) /\ all = InConversation(after, k)
        BY InConversationTyped
      <3>6. IsPrefix(old, all)
        BY <3>4, <3>5, InConversationGrows
      <3>7. IsPrefix(page, old)
        BY <3>2, <3>3, <3>5 DEF ReadsSurvive
      <3>8. IsPrefix(page, all)
        BY <3>6, <3>7, PrefixTransitive
      <3> QED BY <3>2, <3>3, <3>5, <3>8
    <2> QED BY <2>1, <2>2 DEF SeenInv, ReadsSurvive
  <1> QED BY <1>2, <1>3

(* What a client has read is never taken back, changed or reordered: no read  *)
(* shows a row that is not committed.                                         *)
THEOREM ReadsSurviveHolds == Spec => []ReadsSurvive
  <1>1. Init => SeenInv /\ ReadsSurvive
    BY InitReads
  <1>2. IInv /\ IInv' /\ SeenInv /\ ReadsSurvive /\ [Next]_vars => SeenInv' /\ ReadsSurvive'
    BY NextReads
  <1> QED BY <1>1, <1>2, SpecIInv, PTL DEF Spec

-----------------------------------------------------------------------------
(* The instance has its own copies of the operators on tables.                *)
LEMMA SameOperators ==
    /\ TR!EmptyTables = EmptyTables /\ TR!NoCall = NoCall /\ TR!NothingSeen = NothingSeen
    /\ \A b : TR!WellFormed(b) = WellFormed(b)
    /\ \A d, b : TR!Apply(d, b) = Apply(d, b)
    /\ \A d : TR!UniqueKeys(d) = UniqueKeys(d)
    /\ \A rows, k, n : TR!Page(rows, k, n) = Page(rows, k, n)
  <1>1. TR!EmptyTables = EmptyTables /\ TR!NoCall = NoCall /\ TR!NothingSeen = NothingSeen
    BY DEF TR!EmptyTables, EmptyTables, TR!NoCall, NoCall, TR!NothingSeen, NothingSeen
  <1>2. \A b : TR!WellFormed(b) = WellFormed(b)
    BY DEF TR!WellFormed, WellFormed, TR!RowBelongs, RowBelongs, TR!RowNamed, RowNamed
  <1>3. \A d, b : TR!Apply(d, b) = Apply(d, b)
    BY DEF TR!Apply, Apply, TR!EnsureRow, EnsureRow, TR!HasConversation, HasConversation
  <1>4. \A d : TR!UniqueKeys(d) = UniqueKeys(d)
    BY DEF TR!UniqueKeys, UniqueKeys, TR!UniqueIds, UniqueIds
  <1>5. \A rows, k, n : TR!Page(rows, k, n) = Page(rows, k, n)
    BY Zenon DEF TR!Page, Page, TR!InConversation, InConversation, TR!boundedLimit, boundedLimit
  <1> QED BY <1>1, <1>2, <1>3, <1>4, <1>5

(* The empty store is the empty transcript.                                   *)
LEMMA InitRefines == Init => TR!Init
  BY SameOperators DEF Init, TR!Init

(* Every statement is a step of Transcript or leaves its variables alone.     *)
LEMMA NextRefines == IInv /\ [Next]_vars => [TR!Next]_TR!vars
  <1> SUFFICES ASSUME IInv, [Next]_vars PROVE [TR!Next]_TR!vars
    OBVIOUS
  <1>1. ASSUME NEW c \in Client, Invoke(c) PROVE TR!Invoke(c)
    BY <1>1, SameOperators DEF Invoke, TR!Invoke, IInv, TypeOK
  <1>2. ASSUME NEW c \in Client, Commit(c) PROVE TR!Succeed(c)
    <2>1. call[c] # NoCall
      BY <1>2 DEF Commit, IInv, TypeOK
    <2>2. WellFormed(call[c]) /\ db' = Apply(db, call[c]) /\ UniqueKeys(db')
      BY <1>2, CommitApplies
    <2>3. /\ call' = [call EXCEPT ![c] = NoCall]
          /\ reply' = [reply EXCEPT ![c] = "ok"]
          /\ seen' = seen
      BY <1>2 DEF Commit, Return
    <2> QED BY <2>1, <2>2, <2>3, SameOperators DEF TR!Succeed, TR!Effect
  <1>3. ASSUME NEW c \in Client, stage[c] = "statement", InsertRow(c), IInv'
        PROVE  call[c] # NoCall /\ call[c].op # "record" /\ TR!Effect(c)
    <2>1. call[c] # NoCall /\ call[c] \in Calls /\ call[c].op # "record" /\ Accepted(call[c])
      BY <1>3 DEF IInv, TypeOK, StageInv
    <2>2. WellFormed(call[c])
      BY <2>1 DEF Accepted
    <2>3. db' = Apply(db, call[c]) /\ UniqueKeys(db')
      BY <1>3 DEF InsertRow, IInv, TablesConsistent, Sound
    <2> QED BY <2>1, <2>2, <2>3, SameOperators DEF TR!Effect
  <1>4. ASSUME NEW c \in Client, Autocommit(c) PROVE TR!Succeed(c)
    <2>1. call[c] # NoCall /\ TR!Effect(c)
      BY <1>3, <1>4, NextIInv DEF Autocommit
    <2>2. /\ call' = [call EXCEPT ![c] = NoCall]
          /\ reply' = [reply EXCEPT ![c] = "ok"]
          /\ seen' = seen
      BY <1>4 DEF Autocommit, Return
    <2> QED BY <2>1, <2>2, SameOperators DEF TR!Succeed
  <1>5. ASSUME NEW c \in Client,
               Refuse(c) \/ Busy(c) \/ RowRejected(c) \/ ConstraintFails(c) \/ Expire(c)
        PROVE  TR!Fail(c)
    <2>1. call[c] # NoCall
      BY <1>5 DEF Refuse, Busy, RowRejected, ConstraintFails, Expire, IInv, TypeOK
    <2>2. /\ call' = [call EXCEPT ![c] = NoCall]
          /\ reply' = [reply EXCEPT ![c] = "error"]
          /\ seen' = seen
      BY <1>5 DEF Refuse, Busy, RowRejected, ConstraintFails, Expire, Rollback, Return
    <2>3. db' = db \/ (call[c].op # "record" /\ TR!Effect(c))
      BY <1>3, <1>5, NextIInv DEF Refuse, Busy, RowRejected, ConstraintFails, Expire, Rollback
    <2> QED BY <2>1, <2>2, <2>3, SameOperators DEF TR!Fail
  <1>6. ASSUME NEW c \in Client, List(c) PROVE TR!Read(c)
    <2>1. call[c] = NoCall /\ UNCHANGED <<db, call, reply>>
      BY <1>6 DEF List, IInv, TypeOK
    <2>2. \E t \in {"messages", "events"}, k \in ConversationId, n \in Limits :
              seen' = [seen EXCEPT ![c] = [table |-> t, conversation |-> k, rows |-> Page(db[t], k, n)]]
      BY <1>6 DEF List
    <2>3. \E t \in {"messages", "events"}, k \in ConversationId, n \in Limits :
              seen' = [seen EXCEPT ![c] = [table |-> t, conversation |-> k,
                                           rows |-> TR!Page(db[t], k, n)]]
      BY <2>2, SameOperators
    <2> QED BY <2>1, <2>3, SameOperators DEF TR!Read
  <1>7. ASSUME NEW c \in Client, Crash(c) PROVE TR!Crash(c)
    BY <1>7, SameOperators DEF Crash, TR!Crash
  <1>8. ASSUME NEW c \in Client,
               \/ Open(c) \/ Close(c) \/ Accept(c) \/ Begin(c)
               \/ InsertNextMessage(c) \/ InsertNextEvent(c)
        PROVE  UNCHANGED TR!vars
    BY <1>8 DEF Open, Close, Accept, Begin, InsertNextMessage, InsertNextEvent, TR!vars
  <1>9. CASE UNCHANGED vars
    BY <1>9 DEF vars, TR!vars
  <1> QED
    BY <1>1, <1>2, <1>5, <1>6, <1>7, <1>8, <1>9, <1>4 DEF Next, Step, TR!Next

(* The statements of sqlite.go implement the promise of store.go: a batch is  *)
(* there as a whole exactly when its Record succeeded, and a read shows only  *)
(* what was committed.                                                        *)
THEOREM ImplementsHolds == Spec => Implements
  BY InitRefines, NextRefines, SpecIInv, PTL DEF Spec, Implements, TR!Spec
=============================================================================
