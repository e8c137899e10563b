---------------------------- MODULE ListingProofs ----------------------------
(* For any number of writers, conversations and digits, and whatever the      *)
(* clock shows and callers give: the times survive in their texts, a page is  *)
(* newest first as far as the texts keep the order of the times, and the rows *)
(* that Record stamps itself are in the order of their times.                 *)
(*                                                                            *)
(* The two promises about Record are not inductive: a row reaches the tables  *)
(* with the image of its transaction.  The inductive invariant says of both   *)
(* tables and image that the clock's stamps are in order and none is later    *)
(* than the clock, so that a row stamped now may follow; and that a           *)
(* conversation is there before the rows of Record in it, so that one that is *)
(* ensured late, with its early stamp or a late one, has none yet.            *)
EXTENDS Listing, NumberLemmas, FiniteSetTheorems, SequenceTheorems, TLAPS

-----------------------------------------------------------------------------
(* Times.                                                                     *)

LEMMA DigitTyped == \A t \in Time : \A n \in 1..Digits : t.fraction[n] \in Int
  <1>1. \A t \in Time : \A n \in 1..Digits : t.fraction[n] \in 0 .. Base - 1
    BY DEF Time
  <1>2. 0 .. Base - 1 \subseteq Int
    BY TimeAssumption
  <1> QED BY <1>1, <1>2

(* Two times are the same, or one is earlier: the first digit that differs    *)
(* decides.                                                                   *)
LEMMA EarlierTotal ==
    ASSUME NEW a \in Time, NEW b \in Time
    PROVE  a = b \/ Earlier(a, b) \/ Earlier(b, a)
  <1> DEFINE differ == {n \in 1..Digits : a.fraction[n] # b.fraction[n]}
  <1>0. /\ a.second \in Nat /\ b.second \in Nat
        /\ a.fraction \in [1..Digits -> 0 .. Base - 1]
        /\ b.fraction \in [1..Digits -> 0 .. Base - 1]
    BY DEF Time
  <1>1. CASE a.second # b.second
    BY <1>0, <1>1 DEF Earlier
  <1>2. CASE a.second = b.second /\ differ = {}
    <2>1. \A n \in 1..Digits : a.fraction[n] = b.fraction[n]
      BY <1>2
    <2>2. a.fraction = b.fraction
      <3> HIDE DEF differ
      <3>1. PICK f \in [1..Digits -> 0 .. Base - 1] : f = a.fraction
        BY <1>0
      <3>2. PICK g \in [1..Digits -> 0 .. Base - 1] : g = b.fraction
        BY <1>0
      <3>3. \A n \in 1..Digits : f[n] = g[n]
        BY <2>1, <3>1, <3>2
      <3>4. f = [n \in 1..Digits |-> f[n]] /\ g = [n \in 1..Digits |-> g[n]]
        OBVIOUS
      <3>5. f = g
        BY <3>3, <3>4
      <3> QED BY <3>1, <3>2, <3>5
    <2> QED BY <1>2, <2>2 DEF Time
  <1>3. CASE a.second = b.second /\ differ # {}
    <2>0. differ \subseteq Nat
      BY TimeAssumption
    <2>1. PICK n \in differ : \A m \in differ : n <= m
      BY <1>3, <2>0, LeastNumber
    <2>2. n \in 1..Digits /\ \A k \in 1 .. n - 1 : a.fraction[k] = b.fraction[k]
      BY <2>1, TimeAssumption
    <2>3. a.fraction[n] < b.fraction[n] \/ b.fraction[n] < a.fraction[n]
      BY <2>1, DigitTyped
    <2> QED BY <1>3, <2>2, <2>3 DEF Earlier
  <1> QED BY <1>1, <1>2, <1>3

(* What is no later than a time that is no later than a third is no later     *)
(* than that one.                                                             *)
LEMMA NoLaterTransitive ==
    ASSUME NEW a \in Time, NEW b \in Time, NEW c \in Time, NoLater(a, b), NoLater(b, c)
    PROVE  NoLater(a, c)
  <1>1. CASE a = b \/ b = c
    BY <1>1 DEF NoLater
  <1>2. CASE Earlier(a, b) /\ Earlier(b, c)
    <2>0. /\ a.second \in Nat /\ b.second \in Nat /\ c.second \in Nat
          /\ a.fraction \in [1..Digits -> 0 .. Base - 1]
          /\ b.fraction \in [1..Digits -> 0 .. Base - 1]
          /\ c.fraction \in [1..Digits -> 0 .. Base - 1]
      BY DEF Time
    <2>1. CASE a.second < b.second \/ b.second < c.second
      BY <1>2, <2>0, <2>1 DEF Earlier, NoLater
    <2>2. CASE a.second = b.second /\ b.second = c.second
      <3>1. PICK n \in 1..Digits : /\ a.fraction[n] < b.fraction[n]
                                   /\ \A k \in 1 .. n - 1 : a.fraction[k] = b.fraction[k]
        BY <1>2, <2>0, <2>2 DEF Earlier
      <3>2. PICK m \in 1..Digits : /\ b.fraction[m] < c.fraction[m]
                                   /\ \A k \in 1 .. m - 1 : b.fraction[k] = c.fraction[k]
        BY <1>2, <2>0, <2>2 DEF Earlier
      <3>3. PICK d \in 1..Digits : d <= n /\ d <= m /\ d \in {n, m}
        BY TimeAssumption
      <3>4. \A k \in 1 .. d - 1 : a.fraction[k] = c.fraction[k]
        BY <3>1, <3>2, <3>3, TimeAssumption
      <3>5. a.fraction[d] < c.fraction[d]
        <4>1. a.fraction[d] \in Int /\ b.fraction[d] \in Int /\ c.fraction[d] \in Int
          BY DigitTyped
        <4>2. n \in Int /\ m \in Int
          OBVIOUS
        <4>3. CASE n < m
          BY <3>1, <3>2, <3>3, <4>1, <4>2, <4>3
        <4>4. CASE m < n
          BY <3>1, <3>2, <3>3, <4>1, <4>2, <4>4
        <4>5. CASE n = m
          BY <3>1, <3>2, <3>3, <4>1, <4>2, <4>5
        <4> QED BY <4>2, <4>3, <4>4, <4>5
      <3> QED BY <2>2, <3>4, <3>5 DEF Earlier, NoLater
    <2> QED BY <1>2, <2>0, <2>1, <2>2 DEF Earlier
  <1> QED BY <1>1, <1>2 DEF NoLater

(* How many digits are written: up to the last that is no zero.               *)
LEMMA PrecisionMeans ==
    ASSUME NEW t \in Time
    PROVE  /\ Precision(t) \in 0..Digits
           /\ Precision(t) = 0 \/ t.fraction[Precision(t)] # 0
           /\ \A k \in Precision(t) + 1 .. Digits : t.fraction[k] = 0
  <1> DEFINE enough == {n \in 0..Digits : \A k \in n + 1 .. Digits : t.fraction[k] = 0}
  <1>1. enough \subseteq Nat /\ Digits \in enough
    BY TimeAssumption
  <1>2. PICK n \in enough : \A m \in enough : n <= m
    BY <1>1, LeastNumber
  <1>3. n = 0 \/ t.fraction[n] # 0
    <2> SUFFICES ASSUME n # 0, t.fraction[n] = 0 PROVE FALSE
      OBVIOUS
    <2>1. n - 1 \in enough
      BY TimeAssumption
    <2> QED BY <1>2, <2>1
  <1>4. \E p \in 0..Digits : /\ p = 0 \/ t.fraction[p] # 0
                             /\ \A k \in p + 1 .. Digits : t.fraction[k] = 0
    BY <1>3
  <1> QED BY <1>4 DEF Precision

-----------------------------------------------------------------------------
(* Texts.                                                                     *)

(* A text byte by byte.                                                       *)
LEMMA TextMeans ==
    ASSUME NEW t \in Time
    PROVE  /\ Format(t) \in Seq(Nat) /\ Format(t)[1] = t.second
           /\ Precision(t) = 0 => Len(Format(t)) = 2 /\ Format(t)[2] = Zulu
           /\ Precision(t) > 0 =>
                 /\ Len(Format(t)) = Precision(t) + 3
                 /\ Format(t)[2] = Dot
                 /\ \A k \in 1..Precision(t) : Format(t)[k + 2] = t.fraction[k] + 1
  <1>1. /\ t.second \in Nat /\ t.fraction \in [1..Digits -> 0 .. Base - 1]
        /\ Precision(t) \in 0..Digits /\ Zulu \in Nat /\ Dot \in Nat
    BY PrecisionMeans, TimeAssumption DEF Time, Zulu, Dot
  <1>2. CASE Precision(t) = 0
    BY <1>1, <1>2 DEF Format
  <1>3. CASE Precision(t) > 0
    <2> DEFINE n == Precision(t)
               digits == [k \in 1..n |-> Byte(t.fraction[k])]
    <2>1. /\ n \in Nat /\ n <= Digits /\ digits \in Seq(Nat) /\ Len(digits) = n
          /\ \A k \in 1..n : digits[k] = t.fraction[k] + 1
      <3>1. n \in Nat /\ n <= Digits
        BY <1>1, TimeAssumption
      <3>2. \A k \in 1..n : Byte(t.fraction[k]) = t.fraction[k] + 1 /\ Byte(t.fraction[k]) \in Nat
        BY <1>1, <3>1, TimeAssumption DEF Byte
      <3>3. digits \in [1..n -> Nat]
        BY <3>2
      <3> QED BY <3>1, <3>2, <3>3
    <2>2. Format(t) = <<t.second, Dot>> \o digits \o <<Zulu>>
      BY <1>1, <1>3 DEF Format
    <2> HIDE DEF n, digits
    <2>3. /\ <<t.second, Dot>> \in Seq(Nat) /\ Len(<<t.second, Dot>>) = 2
          /\ <<t.second, Dot>>[1] = t.second /\ <<t.second, Dot>>[2] = Dot
          /\ <<Zulu>> \in Seq(Nat) /\ Len(<<Zulu>>) = 1
      BY <1>1
    <2>4. PICK head \in Seq(Nat) : head = <<t.second, Dot>> \o digits
      BY <2>1, <2>3, ConcatProperties
    <2>5. /\ Len(head) = n + 2 /\ head[1] = t.second /\ head[2] = Dot
          /\ \A k \in 1..n : head[k + 2] = t.fraction[k] + 1
      BY <2>1, <2>3, <2>4, ConcatProperties
    <2>6. /\ Format(t) \in Seq(Nat) /\ Len(Format(t)) = n + 3
          /\ \A i \in 1 .. n + 2 : Format(t)[i] = head[i]
      BY <2>1, <2>2, <2>3, <2>4, <2>5, ConcatProperties
    <2>7. /\ Format(t)[1] = t.second /\ Format(t)[2] = Dot
          /\ \A k \in 1..n : Format(t)[k + 2] = t.fraction[k] + 1
      BY <2>1, <2>5, <2>6
    <2> QED BY <1>3, <2>6, <2>7 DEF n
  <1> QED BY <1>1, <1>2, <1>3

(* What is earlier by the text is earlier by the clock, except that within a  *)
(* second a text that stops before the digit that decides comes after.        *)
LEMMA TextOrder ==
    ASSUME NEW a \in Time, NEW b \in Time, ~Before(Format(a), Format(b))
    PROVE  \/ NoLater(b, a)
           \/ a.second = b.second /\ Precision(a) < Precision(b)
  <1> SUFFICES ASSUME Earlier(a, b), a.second = b.second => ~(Precision(a) < Precision(b))
               PROVE  FALSE
    BY EarlierTotal DEF NoLater
  <1>0. PICK A, B, p, q : /\ A = Format(a) /\ B = Format(b)
                          /\ p = Precision(a) /\ q = Precision(b)
    OBVIOUS
  <1>1. /\ a.second \in Nat /\ b.second \in Nat
        /\ a.fraction \in [1..Digits -> 0 .. Base - 1]
        /\ b.fraction \in [1..Digits -> 0 .. Base - 1]
        /\ p \in 0..Digits /\ q \in 0..Digits /\ Digits \in Nat
    BY <1>0, PrecisionMeans, TimeAssumption DEF Time
  <1>2. /\ A \in Seq(Nat) /\ B \in Seq(Nat) /\ A[1] = a.second /\ B[1] = b.second
        /\ p = 0 => Len(A) = 2
        /\ q = 0 => Len(B) = 2
        /\ p > 0 => /\ Len(A) = p + 3 /\ A[2] = Dot
                               /\ \A k \in 1..p : A[k + 2] = a.fraction[k] + 1
        /\ q > 0 => /\ Len(B) = q + 3 /\ B[2] = Dot
                               /\ \A k \in 1..q : B[k + 2] = b.fraction[k] + 1
    BY <1>0, TextMeans
  <1>3. 1 \in DOMAIN A \cap DOMAIN B
    BY <1>1, <1>2, TimeAssumption
  <1>4. CASE a.second < b.second
    BY <1>0, <1>2, <1>3, <1>4 DEF Before
  <1>5. CASE a.second = b.second
    <2>1. PICK n \in 1..Digits : /\ a.fraction[n] < b.fraction[n]
                                 /\ \A k \in 1 .. n - 1 : a.fraction[k] = b.fraction[k]
      BY <1>1, <1>5 DEF Earlier
    <2>2. n <= q
      <3> SUFFICES ASSUME n > q PROVE FALSE
        BY <1>1, TimeAssumption
      <3>1. b.fraction[n] = 0
        BY <1>0, <1>1, PrecisionMeans, TimeAssumption
      <3> QED BY <1>1, <2>1, <3>1, TimeAssumption
    <2>3. n <= p
      BY <1>0, <1>1, <1>5, <2>2
    <2>4. /\ Len(A) = p + 3 /\ A[2] = Dot
          /\ \A k \in 1..n : A[k + 2] = a.fraction[k] + 1
      BY <1>1, <1>2, <2>3, TimeAssumption
    <2>5. /\ Len(B) = q + 3 /\ B[2] = Dot
          /\ \A k \in 1..n : B[k + 2] = b.fraction[k] + 1
      BY <1>1, <1>2, <2>2, TimeAssumption
    <2>6. n + 2 \in DOMAIN A \cap DOMAIN B
      <3>1. /\ n + 2 \in Nat /\ 1 <= n + 2
            /\ n + 2 <= Len(A) /\ n + 2 <= Len(B)
        BY <1>1, <2>2, <2>3, <2>4, <2>5, TimeAssumption
      <3>2. DOMAIN A = 1 .. Len(A) /\ DOMAIN B = 1 .. Len(B)
        BY <1>2
      <3> QED BY <3>1, <3>2
    <2>7. A[n + 2] < B[n + 2]
      BY <1>1, <2>1, <2>4, <2>5, TimeAssumption
    <2>8. ASSUME NEW k \in 1 .. (n + 2) - 1 PROVE A[k] = B[k]
      <3>1. CASE k \in {1, 2}
        BY <1>2, <1>5, <2>4, <2>5, <3>1
      <3>2. CASE k \notin {1, 2}
        <4>1. k - 2 \in 1 .. n - 1 /\ k - 2 \in 1..n /\ (k - 2) + 2 = k
          BY <3>2
        <4>2. a.fraction[k - 2] = b.fraction[k - 2]
          BY <2>1, <4>1
        <4>3. A[(k - 2) + 2] = a.fraction[k - 2] + 1 /\ B[(k - 2) + 2] = b.fraction[k - 2] + 1
          BY <2>4, <2>5, <4>1
        <4> QED BY <4>1, <4>2, <4>3
      <3> QED BY <3>1, <3>2
    <2>9. Before(A, B)
      BY <2>6, <2>7, <2>8 DEF Before
    <2> QED BY <1>0, <2>9
  <1> QED BY <1>1, <1>4, <1>5 DEF Earlier

(* time.Parse reads back what was written, to the last digit.             *)
LEMMA ParseFormat ==
    ASSUME NEW t \in Time PROVE Parse(Format(t)) = t
  <1> DEFINE text == Format(t)
             digit(k) == IF k + 3 <= Len(text) THEN text[k + 2] - 1 ELSE 0
  <1>0. PICK p : p = Precision(t)
    OBVIOUS
  <1>1. /\ t.second \in Nat /\ t.fraction \in [1..Digits -> 0 .. Base - 1]
        /\ p \in 0..Digits /\ Digits \in Nat
    BY <1>0, PrecisionMeans, TimeAssumption DEF Time
  <1>2. text[1] = t.second
    BY TextMeans
  <1>3. ASSUME NEW k \in 1..Digits PROVE digit(k) = t.fraction[k]
    <2>0. t.fraction[k] \in Int /\ k \in Int
      BY DigitTyped
    <2>1. CASE k <= p
      <3>1. p > 0 /\ k \in 1..p
        BY <1>1, <2>1, TimeAssumption
      <3>2. Len(text) = p + 3 /\ text[k + 2] = t.fraction[k] + 1
        BY <1>0, <3>1, TextMeans
      <3> HIDE DEF text
      <3> QED BY <1>1, <2>0, <2>1, <3>2, TimeAssumption
    <2>2. CASE k > p
      <3>1. t.fraction[k] = 0
        BY <1>0, <1>1, <2>0, <2>2, PrecisionMeans, TimeAssumption
      <3>2. ~(k + 3 <= Len(text))
        <4>1. /\ p = 0 => Len(text) = 2
              /\ p > 0 => Len(text) = p + 3
          BY <1>0, TextMeans
        <4>2. p \in Int /\ 0 <= p /\ 1 <= k
          BY <1>1
        <4> HIDE DEF text
        <4>3. Len(text) \in Int
          <5>1. CASE p = 0
            BY <4>1, <5>1
          <5>2. CASE p > 0
            BY <4>1, <4>2, <5>2
          <5> QED BY <4>2, <5>1, <5>2
        <4>4. PICK length \in Int : length = Len(text)
          BY <4>3
        <4>5. \/ p = 0 /\ length = 2
              \/ p > 0 /\ length = p + 3
          BY <4>1, <4>2, <4>4
        <4>6. ~(k + 3 <= length)
          BY <2>0, <2>2, <4>2, <4>5
        <4> QED BY <4>4, <4>6
      <3> QED BY <3>1, <3>2
    <2> QED BY <1>1, <2>0, <2>1, <2>2, TimeAssumption
  <1>4. [k \in 1..Digits |-> digit(k)] = t.fraction
    <2> HIDE DEF digit
    <2>1. t.fraction = [k \in 1..Digits |-> t.fraction[k]]
      BY <1>1
    <2> QED BY <1>3, <2>1
  <1>5. Parse(text) = [second |-> text[1], fraction |-> [k \in 1..Digits |-> digit(k)]]
    BY DEF Parse
  <1>6. t = [second |-> t.second, fraction |-> t.fraction]
    BY DEF Time
  <1> HIDE DEF text, digit
  <1>7. Parse(text) = t
    BY <1>2, <1>4, <1>5, <1>6
  <1> QED BY <1>7 DEF text

-----------------------------------------------------------------------------
(* The invariant.                                                             *)

(* What is true of the tables, the committed ones and those of a transaction  *)
(* alike, when the clock shows `now`.                                         *)
Texts(tables) ==
    /\ IsFiniteSet(tables.conversations)
    /\ \A r \in tables.conversations : r.created_at = Format(r.taken)
StampsPast(tables, now) ==
    /\ \A r \in tables.conversations : r.own => NoLater(r.taken, now)
    /\ \A i \in DOMAIN tables.messages :
          tables.messages[i].own => NoLater(tables.messages[i].taken, now)
ByRecord(m) == m.via = "Record" /\ m.own
InOrder(tables) ==
    \A i, j \in DOMAIN tables.messages :
        ByRecord(tables.messages[i]) /\ ByRecord(tables.messages[j]) /\ i < j
        => NoLater(tables.messages[i].taken, tables.messages[j].taken)
ParentsThere(tables) ==
    \A i \in DOMAIN tables.messages :
        ByRecord(tables.messages[i]) => Has(tables, tables.messages[i].conversation)
ParentsFirst(tables) ==
    \A r \in tables.conversations, i \in DOMAIN tables.messages :
        r.own /\ ByRecord(tables.messages[i]) /\ tables.messages[i].conversation = r.id
        => NoLater(r.taken, tables.messages[i].taken)

Sound(tables, now) ==
    /\ tables \in Tables
    /\ Texts(tables)
    /\ StampsPast(tables, now)
    /\ InOrder(tables)
    /\ ParentsThere(tables)
    /\ ParentsFirst(tables)

(* A stamp the clock gave is past. *)
Past(s, now) == s.own => NoLater(s.taken, now)

IInv ==
    /\ TypeOK
    /\ Sound(db, clock) /\ Sound(image, clock)
    /\ \A w \in Writer : call[w] # NoCall => Past(call[w].stamp, clock)
    /\ \A w \in Writer : call[w].stage = "inserting" => Has(image, call[w].conversation)

(* The empty tables are sound at any time.                                    *)
LEMMA NoTablesSound == ASSUME NEW now PROVE Sound(NoTables, now)
  <1>1. NoTables.conversations = {} /\ NoTables.messages = <<>> /\ NoTables \in Tables
    BY DEF NoTables, Tables
  <1>2. DOMAIN NoTables.messages = {}
    BY <1>1
  <1> QED
    BY <1>1, <1>2, FS_EmptySet
    DEF Sound, Texts, StampsPast, InOrder, ParentsThere, ParentsFirst

(* Time passes: what is past stays past.                                      *)
LEMMA SoundLater ==
    ASSUME NEW tables, NEW now \in Time, NEW later \in Time,
           Sound(tables, now), NoLater(now, later)
    PROVE  Sound(tables, later)
  <1>1. /\ \A r \in tables.conversations : r.taken \in Time
        /\ \A i \in DOMAIN tables.messages : tables.messages[i].taken \in Time
    <2>1. tables.conversations \subseteq Row /\ tables.messages \in Seq(MessageRow)
      BY DEF Sound, Tables
    <2>2. \A i \in DOMAIN tables.messages : tables.messages[i] \in MessageRow
      BY <2>1
    <2> QED BY <2>1, <2>2 DEF Row, MessageRow
  <1>2. StampsPast(tables, later)
    BY <1>1, NoLaterTransitive DEF Sound, StampsPast
  <1> QED BY <1>2 DEF Sound

(* INSERT ... ON CONFLICT(id) DO NOTHING, with a time that is past.           *)
LEMMA EnsureRowSound ==
    ASSUME NEW tables, NEW now, NEW k \in Conversation, NEW s \in Stamp,
           Sound(tables, now), Past(s, now)
    PROVE  Sound(EnsureRow(tables, k, s), now) /\ Has(EnsureRow(tables, k, s), k)
  <1>1. CASE Has(tables, k)
    BY <1>1 DEF EnsureRow
  <1>2. CASE ~Has(tables, k)
    <2> DEFINE row == ConversationRow(k, s)
    <2>1. PICK after : after = EnsureRow(tables, k, s)
      OBVIOUS
    <2>2. /\ tables.conversations \subseteq Row /\ tables.messages \in Seq(MessageRow)
          /\ tables = [conversations |-> tables.conversations, messages |-> tables.messages]
      BY DEF Sound, Tables
    <2>0. s.taken \in Time /\ s.own \in BOOLEAN
      BY DEF Stamp
    <2>3. /\ row \in Row /\ row.id = k /\ row.created_at = Format(row.taken)
          /\ row.own => NoLater(row.taken, now)
      BY <2>0, TextMeans DEF ConversationRow, Row, Past
    <2>4. after = [tables EXCEPT !.conversations = @ \cup {row}]
      BY <1>2, <2>1 DEF EnsureRow
    <2> HIDE DEF row
    <2>5. /\ after.conversations = tables.conversations \cup {row}
          /\ after.messages = tables.messages
          /\ after \in Tables
      BY <2>2, <2>3, <2>4 DEF Tables
    <2>6. \A i \in DOMAIN tables.messages :
             ByRecord(tables.messages[i]) => tables.messages[i].conversation # k
      BY <1>2 DEF Sound, ParentsThere
    <2>7. Texts(after)
      BY <2>3, <2>5, FS_AddElement DEF Sound, Texts
    <2>8. StampsPast(after, now)
      BY <2>3, <2>5 DEF Sound, StampsPast
    <2>9. InOrder(after)
      BY <2>5 DEF Sound, InOrder
    <2>10. ParentsThere(after)
      BY <2>5 DEF Sound, ParentsThere, Has
    <2>11. ParentsFirst(after)
      BY <2>3, <2>5, <2>6 DEF Sound, ParentsFirst
    <2>12. Has(after, k)
      BY <2>3, <2>5 DEF Has
    <2> QED BY <2>1, <2>5, <2>7, <2>8, <2>9, <2>10, <2>11, <2>12 DEF Sound
  <1> QED BY <1>1, <1>2

(* A row is appended.  The one that Record stamps carries the time of now,    *)
(* and its conversation is there.                                             *)
LEMMA InsertRowSound ==
    ASSUME NEW tables, NEW now \in Time, NEW k \in Conversation, NEW s \in Stamp,
           NEW via \in {"Record", "AppendMessage"},
           Sound(tables, now), Past(s, now),
           via = "Record" => Has(tables, k) /\ (s.own => s.taken = now)
    PROVE  /\ Sound(InsertRow(tables, k, s, via), now)
           /\ \A c : Has(tables, c) => Has(InsertRow(tables, k, s, via), c)
  <1> DEFINE row == [conversation |-> k, created_at |-> Format(s.taken),
                    taken |-> s.taken, own |-> s.own, via |-> via]
  <1>1. PICK after : after = InsertRow(tables, k, s, via)
    OBVIOUS
  <1>2. /\ tables.conversations \subseteq Row /\ tables.messages \in Seq(MessageRow)
        /\ tables = [conversations |-> tables.conversations, messages |-> tables.messages]
    BY DEF Sound, Tables
  <1>0. s.taken \in Time /\ s.own \in BOOLEAN
    BY DEF Stamp
  <1>3. /\ row \in MessageRow /\ row.conversation = k
        /\ row.own => NoLater(row.taken, now)
        /\ ByRecord(row) => Has(tables, k) /\ row.taken = now
    BY <1>0, TextMeans DEF MessageRow, Past, ByRecord
  <1>4. after = [tables EXCEPT !.messages = Append(@, row)]
    BY <1>1 DEF InsertRow
  <1> HIDE DEF row
  <1>5. PICK n \in Nat : n = Len(tables.messages) /\ DOMAIN tables.messages = 1..n
    BY <1>2
  <1>6. /\ after.conversations = tables.conversations
        /\ after.messages = Append(tables.messages, row)
        /\ after \in Tables
    <2>1. Append(tables.messages, row) \in Seq(MessageRow)
      BY <1>2, <1>3
    <2>2. PICK longer \in Seq(MessageRow) : longer = Append(tables.messages, row)
      BY <2>1
    <2>3. after = [conversations |-> tables.conversations, messages |-> longer]
      BY <1>2, <1>4, <2>2
    <2> QED BY <1>2, <2>2, <2>3 DEF Tables
  <1>7. /\ DOMAIN after.messages = 1 .. n + 1
        /\ \A i \in 1..n : after.messages[i] = tables.messages[i]
        /\ after.messages[n + 1] = row
    BY <1>2, <1>3, <1>5, <1>6, AppendProperties
  <1>8. \A i \in 1 .. n + 1 : i \in 1..n \/ i = n + 1
    OBVIOUS
  <1>9. Texts(after)
    BY <1>6 DEF Sound, Texts
  <1>10. StampsPast(after, now)
    BY <1>3, <1>5, <1>6, <1>7, <1>8 DEF Sound, StampsPast
  <1>11. InOrder(after)
    <2> SUFFICES ASSUME NEW i \in 1 .. n + 1, NEW j \in 1 .. n + 1, i < j,
                        ByRecord(after.messages[i]), ByRecord(after.messages[j])
                 PROVE  NoLater(after.messages[i].taken, after.messages[j].taken)
      BY <1>7 DEF InOrder
    <2>1. i \in 1..n
      OBVIOUS
    <2>2. CASE j \in 1..n
      BY <1>5, <1>7, <2>1, <2>2 DEF Sound, InOrder
    <2>3. CASE j = n + 1
      BY <1>3, <1>5, <1>7, <2>1, <2>3 DEF Sound, StampsPast, ByRecord
    <2> QED BY <1>8, <2>2, <2>3
  <1>12. ParentsThere(after)
    BY <1>3, <1>5, <1>6, <1>7, <1>8 DEF Sound, ParentsThere, Has
  <1>13. ParentsFirst(after)
    BY <1>3, <1>5, <1>6, <1>7, <1>8 DEF Sound, ParentsFirst, StampsPast, ByRecord
  <1>14. \A c : Has(tables, c) => Has(after, c)
    BY <1>6 DEF Has
  <1> QED BY <1>1, <1>6, <1>9, <1>10, <1>11, <1>12, <1>13, <1>14 DEF Sound

(* What the type says of a call in progress.                                  *)
LEMMA CallTyped ==
    ASSUME TypeOK, NEW w \in Writer, call[w] # NoCall
    PROVE  /\ call[w] \in Call
           /\ call[w].conversation \in Conversation /\ call[w].stamp \in Stamp
  BY DEF TypeOK, Call

(* timestamp() gives a stamp, the clock's time or the one it was given.       *)
LEMMA TimestampMeans ==
    ASSUME clock \in Time, NEW createdAt \in Given \cup {ZeroTime}
    PROVE  /\ timestamp(createdAt) \in Stamp
           /\ timestamp(createdAt).own => timestamp(createdAt).taken = clock
           /\ Past(timestamp(createdAt), clock)
  BY TimeAssumption DEF timestamp, Stamp, Past, NoLater

LEMMA NoCallIdle == NoCall.stage = "idle"
  BY DEF NoCall

LEMMA InitIInv == ASSUME Init PROVE IInv
  <1>1. clock \in Time
    BY TimeAssumption DEF Init
  <1>2. Sound(db, clock) /\ Sound(image, clock)
    BY NoTablesSound DEF Init
  <1>3. \A w \in Writer : call[w] = NoCall
    BY DEF Init
  <1>4. TypeOK
    BY <1>1, <1>2, <1>3, NoCallIdle, WriterAssumption DEF Init, TypeOK, Sound
  <1> QED BY <1>2, <1>3, <1>4, NoCallIdle DEF IInv

(* A call changes by its own steps only.                                      *)
LEMMA InvokeKeeps ==
    ASSUME IInv, NEW w \in Writer,
           NEW op \in {"Record", "EnsureConversation", "AppendMessage"},
           NEW k \in Conversation, NEW createdAt \in Given \cup {ZeroTime},
           Invoke(w, op, k, createdAt)
    PROVE  IInv'
  <1> DEFINE new == [op |-> op, stage |-> "waiting", conversation |-> k,
                     stamp |-> timestamp(createdAt)]
  <1>1. /\ new \in Call /\ new.stage = "waiting" /\ Past(new.stamp, clock)
    BY TimestampMeans DEF IInv, TypeOK, Call
  <1>2. /\ UNCHANGED <<clock, db, image, lock>>
        /\ call[w].stage = "idle"
        /\ call' = [call EXCEPT ![w] = new]
    BY NoCallIdle DEF Invoke
  <1> HIDE DEF new
  <1>3. \A v \in Writer : call'[v] = IF v = w THEN new ELSE call[v]
    BY <1>2 DEF IInv, TypeOK
  <1> QED BY <1>1, <1>2, <1>3 DEF IInv, TypeOK

LEMMA ReturnMeans ==
    ASSUME TypeOK, NEW w \in Writer, Return(w)
    PROVE  /\ call' \in [Writer -> Call \cup {NoCall}]
           /\ \A v \in Writer : call'[v] = IF v = w THEN NoCall ELSE call[v]
  BY DEF TypeOK, Return

(* A transaction of one INSERT.                                               *)
LEMMA EnsureConversationKeeps ==
    ASSUME IInv, NEW w \in Writer, EnsureConversation(w) PROVE IInv'
  <1>1. /\ UNCHANGED <<clock, image, lock>> /\ Return(w) /\ TypeOK
        /\ call[w].stage = "waiting" /\ call[w] # NoCall
        /\ db' = EnsureRow(db, call[w].conversation, call[w].stamp)
    BY NoCallIdle DEF EnsureConversation, Ready, IInv
  <1>2. Sound(db', clock)
    BY <1>1, CallTyped, EnsureRowSound DEF IInv
  <1>3. TypeOK'
    BY <1>1, <1>2, ReturnMeans, NoCallIdle DEF TypeOK, Sound
  <1> QED BY <1>1, <1>2, <1>3, ReturnMeans, NoCallIdle DEF IInv

LEMMA AppendMessageKeeps ==
    ASSUME IInv, NEW w \in Writer, AppendMessage(w) PROVE IInv'
  <1>1. /\ UNCHANGED <<clock, image, lock>> /\ Return(w) /\ TypeOK
        /\ call[w].stage = "waiting" /\ call[w] # NoCall
        /\ db' = InsertRow(db, call[w].conversation, call[w].stamp, "AppendMessage")
    BY NoCallIdle DEF AppendMessage, Ready, IInv
  <1>2. clock \in Time /\ Past(call[w].stamp, clock) /\ Sound(db, clock)
    BY <1>1 DEF IInv, TypeOK
  <1>3. Sound(db', clock)
    BY <1>1, <1>2, CallTyped, InsertRowSound
  <1>4. TypeOK'
    BY <1>1, <1>3, ReturnMeans, NoCallIdle DEF TypeOK, Sound
  <1> QED BY <1>1, <1>3, <1>4, ReturnMeans, NoCallIdle DEF IInv

(* Record's transaction: its conversation is there from its first INSERT on.  *)
LEMMA BeginKeeps ==
    ASSUME IInv, NEW w \in Writer, Begin(w) PROVE IInv'
  <1>1. /\ UNCHANGED <<clock, db>> /\ TypeOK /\ lock = Nobody /\ lock' = w
        /\ call[w].stage = "waiting" /\ call[w] # NoCall
        /\ image' = EnsureRow(db, call[w].conversation, call[w].stamp)
        /\ call' = [call EXCEPT ![w].stage = "inserting"]
    BY NoCallIdle DEF Begin, Ready, IInv
  <1>2. /\ Sound(image', clock)
        /\ Has(image', call[w].conversation)
    BY <1>1, CallTyped, EnsureRowSound DEF IInv
  <1>3. /\ call[w] \in Call /\ call \in [Writer -> Call \cup {NoCall}]
        /\ call' \in [Writer -> Call \cup {NoCall}]
        /\ call'[w] \in Call
        /\ call'[w].stage = "inserting"
        /\ call'[w].conversation = call[w].conversation /\ call'[w].stamp = call[w].stamp
        /\ \A v \in Writer \ {w} : call'[v] = call[v]
    <2>1. call[w] \in Call /\ call \in [Writer -> Call \cup {NoCall}]
      BY <1>1, CallTyped DEF TypeOK
    <2>2. PICK new : new = [call[w] EXCEPT !.stage = "inserting"]
      OBVIOUS
    <2>3. /\ new \in Call /\ new.stage = "inserting"
          /\ new.conversation = call[w].conversation /\ new.stamp = call[w].stamp
      BY <2>1, <2>2 DEF Call
    <2>4. call' = [call EXCEPT ![w] = new]
      BY <1>1, <2>2
    <2> QED BY <2>1, <2>3, <2>4
  <1>4. \A v \in Writer : lock' = v <=> call'[v].stage = "inserting"
    BY <1>1, <1>3, WriterAssumption DEF TypeOK
  <1>5. TypeOK'
    BY <1>1, <1>2, <1>3, <1>4 DEF TypeOK, Sound
  <1>6. \A v \in Writer : call'[v] # NoCall => Past(call'[v].stamp, clock)
    BY <1>1, <1>3 DEF IInv
  <1>7. \A v \in Writer : call'[v].stage = "inserting" => Has(image', call'[v].conversation)
    BY <1>1, <1>2, <1>3, <1>4, WriterAssumption
  <1> QED BY <1>1, <1>2, <1>5, <1>6, <1>7 DEF IInv

LEMMA RecordRowKeeps ==
    ASSUME IInv, NEW w \in Writer,
           NEW createdAt \in Given \cup {ZeroTime}, RecordRow(w, createdAt)
    PROVE  IInv'
  <1>1. /\ UNCHANGED <<clock, db, lock, call>> /\ TypeOK
        /\ call[w].stage = "inserting" /\ call[w] # NoCall
        /\ image' = InsertRow(image, call[w].conversation, timestamp(createdAt), "Record")
    BY NoCallIdle DEF RecordRow, IInv
  <1>2. /\ clock \in Time /\ Sound(image, clock)
        /\ Has(image, call[w].conversation) /\ call[w].conversation \in Conversation
    BY <1>1, CallTyped DEF IInv, TypeOK
  <1>3. Sound(image', clock) /\ \A c : Has(image, c) => Has(image', c)
    BY <1>1, <1>2, TimestampMeans, InsertRowSound
  <1>4. TypeOK'
    BY <1>1, <1>3 DEF TypeOK, Sound
  <1>5. \A v \in Writer : call[v].stage = "inserting" => Has(image', call[v].conversation)
    BY <1>3 DEF IInv
  <1> QED BY <1>1, <1>3, <1>4, <1>5 DEF IInv

LEMMA CommitKeeps ==
    ASSUME IInv, NEW w \in Writer, Commit(w) PROVE IInv'
  <1>1. /\ clock' = clock /\ TypeOK /\ db' = image /\ image' = NoTables /\ lock' = Nobody
        /\ Return(w) /\ call[w].stage = "inserting" /\ lock = w
    BY DEF Commit, IInv, TypeOK
  <1>2. Sound(db', clock) /\ Sound(image', clock)
    BY <1>1, NoTablesSound DEF IInv
  <1>3. \A v \in Writer : call'[v].stage # "inserting" /\ lock' # v
    BY <1>1, ReturnMeans, NoCallIdle, WriterAssumption DEF TypeOK
  <1>4. TypeOK'
    BY <1>1, <1>2, <1>3, ReturnMeans DEF TypeOK, Sound
  <1> QED BY <1>1, <1>2, <1>3, <1>4, ReturnMeans DEF IInv

LEMMA FailKeeps ==
    ASSUME IInv, NEW w \in Writer, Fail(w) PROVE IInv'
  <1>1. /\ UNCHANGED <<clock, db>> /\ TypeOK /\ Return(w)
        /\ image' = IF lock = w THEN NoTables ELSE image
        /\ lock' = IF lock = w THEN Nobody ELSE lock
    BY DEF Fail, IInv
  <1>2. Sound(image', clock)
    BY <1>1, NoTablesSound DEF IInv
  <1>3. \A v \in Writer : /\ lock' = v <=> call'[v].stage = "inserting"
                          /\ lock' = v => lock = v /\ image' = image /\ call'[v] = call[v]
    BY <1>1, ReturnMeans, NoCallIdle, WriterAssumption DEF TypeOK
  <1>4. TypeOK'
    BY <1>1, <1>2, <1>3, ReturnMeans DEF TypeOK, Sound
  <1>5. \A v \in Writer : call'[v].stage = "inserting" => Has(image', call'[v].conversation)
    BY <1>3 DEF IInv, TypeOK
  <1> QED BY <1>1, <1>2, <1>4, <1>5, ReturnMeans DEF IInv

(* Time passes: what is past stays past.                                      *)
LEMMA TickKeeps == ASSUME IInv, Tick PROVE IInv'
  <1>1. /\ UNCHANGED <<db, image, lock, call>> /\ TypeOK
        /\ clock \in Time /\ clock' \in Time /\ NoLater(clock, clock')
    BY TimeAssumption DEF Tick, IInv, TypeOK, NoLater
  <1>2. Sound(db, clock') /\ Sound(image, clock')
    BY <1>1, SoundLater DEF IInv
  <1>3. \A w \in Writer : call[w] # NoCall => Past(call[w].stamp, clock')
    BY <1>1, CallTyped, NoLaterTransitive DEF IInv, Past, Stamp
  <1>4. TypeOK'
    BY <1>1 DEF TypeOK
  <1> QED BY <1>1, <1>2, <1>3, <1>4 DEF IInv

LEMMA NextKeeps == ASSUME IInv, [Next]_vars PROVE IInv'
  <1>1. CASE UNCHANGED vars
    BY <1>1 DEF vars, IInv, TypeOK
  <1>2. CASE Tick
    BY <1>2, TickKeeps
  <1>3. ASSUME NEW w \in Writer, Write(w) PROVE IInv'
    BY <1>3, InvokeKeeps, EnsureConversationKeeps, AppendMessageKeeps, BeginKeeps,
       RecordRowKeeps, CommitKeeps, FailKeeps DEF Write
  <1> QED BY <1>1, <1>2, <1>3 DEF Next

THEOREM Invariant == Spec => []IInv
  <1>1. Init => IInv
    BY InitIInv
  <1>2. IInv /\ [Next]_vars => IInv'
    BY NextKeeps
  <1> QED BY <1>1, <1>2, PTL DEF Spec

-----------------------------------------------------------------------------
(* The promises.                                                              *)

(* The tables have their types, and the lock is held exactly by a Record that *)
(* inserts.                                                                   *)
THEOREM TypeCorrect == Spec => []TypeOK
  <1>1. IInv => TypeOK
    BY DEF IInv
  <1> QED BY <1>1, Invariant, PTL

(* In sequence order, the rows Record stamps are in the order of their times, *)
(* whatever writers wait for each other.                                      *)
THEOREM SequenceIsTimeHolds == Spec => []SequenceIsTime
  <1>1. IInv => SequenceIsTime
    BY DEF IInv, Sound, InOrder, SequenceIsTime, Recorded, ByRecord
  <1> QED BY <1>1, Invariant, PTL

(* A conversation is no younger than what Record put into it, where the clock *)
(* stamped both.                                                              *)
THEOREM ConversationFirstHolds == Spec => []ConversationFirst
  <1>1. IInv => ConversationFirst
    BY DEF IInv, Sound, ParentsFirst, ConversationFirst, Recorded, ByRecord
  <1> QED BY <1>1, Invariant, PTL

(* What a page and the rest are made of: the conversations, in an order of    *)
(* their texts.                                                               *)
LEMMA ListingMeans ==
    ASSUME IInv, NEW limit \in Limits, NEW listing \in ListConversations(limit)
    PROVE  \E rows \in Seq(Row) :
              /\ \A i \in DOMAIN rows : rows[i].created_at = Format(rows[i].taken)
              /\ \A i, j \in DOMAIN rows :
                    i < j => ~Before(rows[i].created_at, rows[j].created_at)
              /\ \A i \in DOMAIN listing.page :
                    /\ i \in DOMAIN rows /\ i <= limit
                    /\ listing.page[i].taken = rows[i].taken
                    /\ listing.page[i].created_at = Parse(rows[i].created_at)
              /\ \A r \in listing.rest : \E j \in DOMAIN rows : limit < j /\ r = rows[j]
  <1>1. /\ db.conversations \subseteq Row
        /\ IsFiniteSet(db.conversations)
        /\ \A r \in db.conversations : r.created_at = Format(r.taken)
    BY DEF IInv, Sound, Tables, Texts
  <1>2. PICK n \in Nat : n = Cardinality(db.conversations)
    BY <1>1, FS_CardinalityType
  <1>3. PICK rows \in [1..n -> db.conversations] :
           /\ Ordered(rows)
           /\ listing = [page |-> Listed(rows, limit), rest |-> LeftOut(rows, limit)]
    BY <1>2 DEF ListConversations, Orders
  <1>4. /\ rows \in Seq(Row) /\ DOMAIN rows = 1..n /\ Len(rows) = n
        /\ \A i \in 1..n : rows[i] \in db.conversations /\ rows[i] \in Row
    BY <1>1
  <1>5. limit \in Nat
    BY TimeAssumption
  <1>6. PICK m \in Nat : m <= n /\ m <= limit /\ m = (IF limit < Len(rows) THEN limit ELSE Len(rows))
    BY <1>4, <1>5
  <1>7. Listed(rows, limit) = [i \in 1..m |-> [rows[i] EXCEPT !.created_at = Parse(@)]]
    BY <1>6, Zenon DEF Listed
  <1>8. ASSUME NEW i \in DOMAIN listing.page
        PROVE  /\ i \in DOMAIN rows /\ i <= limit
               /\ listing.page[i].taken = rows[i].taken
               /\ listing.page[i].created_at = Parse(rows[i].created_at)
    <2>1. i \in 1..m /\ listing.page[i] = [rows[i] EXCEPT !.created_at = Parse(@)]
      BY <1>3, <1>7
    <2>2. i \in 1..n /\ i <= limit
      BY <1>5, <1>6, <2>1
    <2>3. rows[i] \in Row
      BY <1>4, <2>2
    <2> QED BY <1>4, <2>1, <2>2, <2>3 DEF Row
  <1>9. ASSUME NEW r \in listing.rest PROVE \E j \in DOMAIN rows : limit < j /\ r = rows[j]
    BY <1>3, <1>4, <1>5 DEF LeftOut
  <1> QED BY <1>1, <1>3, <1>4, <1>8, <1>9 DEF Ordered

(* The order of the texts is the order of the times, as far as it is.         *)
LEMMA OrderedNewer ==
    ASSUME NEW r, NEW s, NEW a \in Row, NEW b \in Row, r.taken = a.taken, s.taken = b.taken,
           a.created_at = Format(a.taken), b.created_at = Format(b.taken),
           ~Before(a.created_at, b.created_at)
    PROVE  Newer(r, s)
  <1>1. a.taken \in Time /\ b.taken \in Time
    BY DEF Row
  <1> QED BY <1>1, TextOrder DEF Newer

(* A page is newest first, and what the limit leaves out is older, but for    *)
(* the texts of one second of which the older has fewer digits.               *)
THEOREM NewestFirstHolds == Spec => []NewestFirst
  <1>1. ASSUME IInv PROVE NewestFirst
    <2> SUFFICES ASSUME NEW limit \in Limits, NEW listing \in ListConversations(limit)
                 PROVE  /\ \A i, j \in DOMAIN listing.page :
                              i < j => Newer(listing.page[i], listing.page[j])
                        /\ \A i \in DOMAIN listing.page, r \in listing.rest :
                              Newer(listing.page[i], r)
      BY DEF NewestFirst
    <2>1. PICK rows \in Seq(Row) :
              /\ \A i \in DOMAIN rows : rows[i].created_at = Format(rows[i].taken)
              /\ \A i, j \in DOMAIN rows :
                    i < j => ~Before(rows[i].created_at, rows[j].created_at)
              /\ \A i \in DOMAIN listing.page :
                    /\ i \in DOMAIN rows /\ i <= limit
                    /\ listing.page[i].taken = rows[i].taken
              /\ \A r \in listing.rest : \E j \in DOMAIN rows : limit < j /\ r = rows[j]
      BY <1>1, ListingMeans
    <2>2. ASSUME NEW i \in DOMAIN listing.page, NEW j \in DOMAIN listing.page, i < j
          PROVE  Newer(listing.page[i], listing.page[j])
      <3>1. i \in DOMAIN rows /\ j \in DOMAIN rows /\ rows[i] \in Row /\ rows[j] \in Row
        BY <2>1
      <3> QED BY <2>1, <2>2, <3>1, OrderedNewer
    <2>3. ASSUME NEW i \in DOMAIN listing.page, NEW r \in listing.rest
          PROVE  Newer(listing.page[i], r)
      <3>1. PICK j \in DOMAIN rows : limit < j /\ r = rows[j]
        BY <2>1
      <3>2. i \in DOMAIN rows /\ rows[i] \in Row /\ rows[j] \in Row /\ i < j
        BY <2>1, <3>1, TimeAssumption
      <3> QED BY <2>1, <3>1, <3>2, OrderedNewer
    <2> QED BY <2>2, <2>3
  <1> QED BY <1>1, Invariant, PTL

(* A listed time is the instant of its stamp, to the last digit.              *)
THEOREM TimesSurviveHolds == Spec => []TimesSurvive
  <1>1. ASSUME IInv PROVE TimesSurvive
    <2> SUFFICES ASSUME NEW limit \in Limits, NEW listing \in ListConversations(limit),
                        NEW i \in DOMAIN listing.page
                 PROVE  listing.page[i].created_at = listing.page[i].taken
      BY DEF TimesSurvive
    <2>0. PICK rows \in Seq(Row) :
              /\ \A j \in DOMAIN rows : rows[j].created_at = Format(rows[j].taken)
              /\ \A j \in DOMAIN listing.page :
                    /\ j \in DOMAIN rows
                    /\ listing.page[j].taken = rows[j].taken
                    /\ listing.page[j].created_at = Parse(rows[j].created_at)
      BY <1>1, ListingMeans
    <2>1. PICK row \in Row : /\ row.created_at = Format(row.taken)
                             /\ listing.page[i].taken = row.taken
                             /\ listing.page[i].created_at = Parse(row.created_at)
      BY <2>0
    <2>2. row.taken \in Time
      BY DEF Row
    <2> QED BY <2>1, <2>2, ParseFormat
  <1> QED BY <1>1, Invariant, PTL
=============================================================================
