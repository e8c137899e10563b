--------------------------- MODULE StoreFileProofs ---------------------------
(* Theorems about StoreFile, for any number of writers, readers and           *)
(* conversations.                                                             *)
EXTENDS StoreFile, TLAPS

-----------------------------------------------------------------------------
(* The inductive invariant.                                                   *)

(* The statements of migrate before the i-th that leave something behind.     *)
DoneBefore(i) == {Statements[j] : j \in 1 .. i - 1} \ {"foreign_keys"}

PlaceInv == /\ pc \in [Writer \cup Reader -> WriterPlace \cup ReaderPlace]
            /\ \A w \in Writer : pc[w] \in WriterPlace
            /\ \A r \in Reader : pc[r] \in ReaderPlace

(* What a writer's migration has done is in the file, whoever did it.         *)
MigrationInv ==
    \A w \in Writer : /\ pc[w] = "migrating" => DoneBefore(next[w]) \subseteq has
                      /\ pc[w] = "open" => has = Durable /\ next[w] = Len(Statements)

(* The mode is tightened before anything is done to the file, and stays.      *)
ModeInv ==
    \A w \in Writer : /\ pc[w] = "created" => mode # "missing"
                      /\ pc[w] \in {"configuring", "migrating", "open"} => mode = "private"

(* foreign_keys is the second statement, and is on until the connection is    *)
(* replaced.                                                                  *)
ConnectionInv ==
    \A w \in Writer : /\ pc[w] = "migrating" => (next[w] > 2 => enforces[w])
                      /\ pc[w] = "open" => enforces[w] \/ w \in replaced

(* What was opened once stays a whole store.                                  *)
OpenedInv == opened => has = Durable /\ mode # "missing"

(* A page that waits to be printed came from a table that is there.           *)
PageInv ==
    \A r \in Reader : pc[r] = "printing" \/ exit[r] = "printed" =>
        table[r] \in has /\ shown[r] \subseteq Content(table[r])

IInv == /\ TypeOK /\ PlaceInv /\ MigrationInv /\ ModeInv /\ ConnectionInv
        /\ OpenedInv /\ PageInv /\ NewFilesPrivate /\ NoOrphans

-----------------------------------------------------------------------------
(* What the proofs use of the list of statements: its length, where the       *)
(* pragma stands, and that the three tables are among what it leaves.         *)
LEMMA StatementFacts ==
    /\ Len(Statements) = 7 /\ DOMAIN Statements = 1..7
    /\ Statements[2] = "foreign_keys"
    /\ \A i \in 1..7 : i # 2 => Statements[i] # "foreign_keys"
    /\ Listed \subseteq Durable
  BY DEF Statements, Durable, Listed

(* Each statement adds itself to what is done, and the last completes it.     *)
LEMMA DoneFacts ==
    /\ DoneBefore(1) = {}
    /\ \A i \in 1..7 : DoneBefore(i + 1) = DoneBefore(i) \cup ({Statements[i]} \cap Durable)
    /\ DoneBefore(8) = Durable
  <1>1. DoneBefore(1) = {}
    BY DEF DoneBefore
  <1>2. ASSUME NEW i \in 1..7
        PROVE  DoneBefore(i + 1) = DoneBefore(i) \cup ({Statements[i]} \cap Durable)
    <2>1. 1 .. (i + 1) - 1 = (1 .. i - 1) \cup {i}
      OBVIOUS
    <2>2. {Statements[j] : j \in 1 .. (i + 1) - 1} = {Statements[j] : j \in 1 .. i - 1} \cup {Statements[i]}
      BY <2>1
    <2>3. {Statements[i]} \cap Durable = {Statements[i]} \ {"foreign_keys"}
      BY StatementFacts DEF Durable
    <2> QED BY <2>2, <2>3 DEF DoneBefore
  <1>3. DoneBefore(8) = Durable
    <2>1. 1 .. 8 - 1 = DOMAIN Statements
      BY StatementFacts
    <2> QED BY <2>1 DEF DoneBefore, Durable
  <1> QED BY <1>1, <1>2, <1>3

-----------------------------------------------------------------------------
(* The invariant holds before any process has run.                            *)
LEMMA InitIInv == Init => IInv
  <1> SUFFICES ASSUME Init PROVE IInv
    OBVIOUS
  <1>1. TypeOK
    <2>1. /\ mode \in {"missing", "private", "shared"}
          /\ has \subseteq Durable /\ convs \subseteq Conversation /\ msgs \subseteq Conversation
          /\ replaced \subseteq Writer /\ bare \subseteq Conversation
      BY DEF Init
    <2>2. found \in BOOLEAN /\ made \in BOOLEAN /\ opened \in BOOLEAN
      BY DEF Init
    <2>3. /\ \A w \in Writer : pc[w] = "closed"
          /\ \A r \in Reader : pc[r] = "closed"
          /\ next \in [Writer -> 1..Len(Statements)]
          /\ enforces \in [Writer -> BOOLEAN]
      BY StatementFacts DEF Init
    <2>4. /\ table \in [Reader -> Listed]
          /\ shown \in [Reader -> SUBSET Conversation]
          /\ exit \in [Reader -> Exit]
      BY DEF Init, Listed, Exit
    <2> QED BY <2>1, <2>2, <2>3, <2>4 DEF TypeOK, WriterPlace, ReaderPlace
  <1>2. PlaceInv
    BY DEF Init, PlaceInv, WriterPlace, ReaderPlace
  <1>3. MigrationInv /\ ModeInv /\ ConnectionInv
    BY DEF Init, MigrationInv, ModeInv, ConnectionInv
  <1>4. OpenedInv /\ PageInv /\ NewFilesPrivate /\ NoOrphans
    BY DEF Init, OpenedInv, PageInv, NewFilesPrivate, NoOrphans
  <1> QED BY <1>1, <1>2, <1>3, <1>4 DEF IInv

-----------------------------------------------------------------------------
(* A step of a reader changes nothing but its own place, page and exit code,  *)
(* so all that is left to show is its page.                                   *)
LEMMA ReaderFrame ==
    ASSUME IInv, NEW r \in Reader, NEW place \in ReaderPlace, NEW e \in Exit,
           Goto(r, place), UNCHANGED <<file, rows, writing>>,
           exit' = [exit EXCEPT ![r] = e],
           table' \in [Reader -> Listed], shown' \in [Reader -> SUBSET Conversation],
           PageInv'
    PROVE  IInv'
  <1>1. PlaceInv'
    BY ProcessAssumption DEF IInv, PlaceInv, Goto
  <1>2. \A w \in Writer : pc'[w] = pc[w]
    BY ProcessAssumption DEF IInv, PlaceInv, Goto
  <1>3. TypeOK'
    BY <1>1, <1>2 DEF IInv, TypeOK, PlaceInv, file, rows, writing
  <1>4. (MigrationInv /\ ModeInv /\ ConnectionInv)'
    BY <1>2 DEF IInv, MigrationInv, ModeInv, ConnectionInv, file, writing
  <1>5. (OpenedInv /\ NewFilesPrivate /\ NoOrphans)'
    BY DEF IInv, OpenedInv, NewFilesPrivate, NoOrphans, file, rows, writing
  <1> QED BY <1>1, <1>3, <1>4, <1>5 DEF IInv

(* A step of a writer touches no reader, and what a page came from only grows.*)
LEMMA WriterFrame ==
    ASSUME IInv, NEW w \in Writer, NEW place \in WriterPlace,
           Goto(w, place) \/ UNCHANGED pc, UNCHANGED reading,
           has \subseteq has', convs \subseteq convs', msgs \subseteq msgs'
    PROVE  /\ PlaceInv' /\ PageInv'
           /\ \A v \in Writer \ {w} : pc'[v] = pc[v]
           /\ Goto(w, place) => pc'[w] = place
  <1>1. PlaceInv' /\ (\A v \in Writer \ {w} : pc'[v] = pc[v]) /\ (Goto(w, place) => pc'[w] = place)
    BY ProcessAssumption DEF IInv, PlaceInv, Goto
  <1>2. \A r \in Reader : pc'[r] = pc[r]
    BY ProcessAssumption DEF IInv, PlaceInv, Goto
  <1>3. PageInv'
    BY <1>2 DEF IInv, PageInv, reading, Content
  <1> QED BY <1>1, <1>3

-----------------------------------------------------------------------------
(* The steps of a writer.                                                     *)

(* A file that is made is made private, and `created` begins with a file.     *)
LEMMA CreateKeeps ==
    ASSUME IInv, NEW w \in Writer, Create(w)
    PROVE  IInv'
  <1>1. /\ PlaceInv' /\ PageInv'
        /\ \A v \in Writer \ {w} : pc'[v] = pc[v]
        /\ Goto(w, "created") => pc'[w] = "created"
    BY WriterFrame DEF Create, file, rows, writing, WriterPlace
  <1>2. TypeOK'
    BY <1>1 DEF Create, IInv, TypeOK, PlaceInv, rows, reading
  <1>3. (MigrationInv /\ ModeInv /\ ConnectionInv)'
    BY <1>1 DEF Create, IInv, MigrationInv, ModeInv, ConnectionInv
  <1>4. (OpenedInv /\ NewFilesPrivate /\ NoOrphans)'
    BY <1>1 DEF Create, IInv, OpenedInv, NewFilesPrivate, NoOrphans, rows
  <1> QED BY <1>1, <1>2, <1>3, <1>4 DEF IInv

LEMMA SecureKeeps ==
    ASSUME IInv, NEW w \in Writer, Secure(w)
    PROVE  IInv'
  <1>1. /\ PlaceInv' /\ PageInv'
        /\ \A v \in Writer \ {w} : pc'[v] = pc[v]
        /\ Goto(w, "configuring") => pc'[w] = "configuring"
    BY WriterFrame DEF Secure, file, rows, writing, WriterPlace
  <1>2. TypeOK'
    BY <1>1 DEF Secure, IInv, TypeOK, PlaceInv, rows, writing, reading
  <1>3. (MigrationInv /\ ModeInv /\ ConnectionInv)'
    BY <1>1 DEF Secure, IInv, MigrationInv, ModeInv, ConnectionInv, writing
  <1>4. (OpenedInv /\ NewFilesPrivate /\ NoOrphans)'
    BY <1>1 DEF Secure, IInv, OpenedInv, NewFilesPrivate, NoOrphans, ModeInv, rows,
        writing
  <1> QED BY <1>1, <1>2, <1>3, <1>4 DEF IInv

(* A migration begins with nothing done, on a connection without pragmas.     *)
LEMMA ConfigureKeeps ==
    ASSUME IInv, NEW w \in Writer, Configure(w)
    PROVE  IInv'
  <1>1. /\ PlaceInv' /\ PageInv'
        /\ \A v \in Writer \ {w} : pc'[v] = pc[v]
        /\ Goto(w, "migrating") => pc'[w] = "migrating"
    BY WriterFrame DEF Configure, file, rows, writing, WriterPlace
  <1>2. TypeOK'
    BY <1>1, StatementFacts DEF Configure, IInv, TypeOK, PlaceInv, file, rows, reading
  <1>3. (MigrationInv /\ ModeInv /\ ConnectionInv)'
    BY <1>1, StatementFacts, DoneFacts DEF Configure, IInv, MigrationInv, ModeInv,
        ConnectionInv, TypeOK, file
  <1>4. (OpenedInv /\ NewFilesPrivate /\ NoOrphans)'
    BY <1>1 DEF Configure, IInv, OpenedInv, NewFilesPrivate, NoOrphans, file, rows
  <1> QED BY <1>1, <1>2, <1>3, <1>4 DEF IInv

(* A statement adds itself to what is done; the last one completes the schema *)
(* and opens the store.                                                       *)
LEMMA MigrateKeeps == ASSUME IInv, NEW w \in Writer, Migrate(w) PROVE IInv'
  <1>1. /\ PlaceInv' /\ PageInv'
        /\ \A v \in Writer \ {w} : pc'[v] = pc[v]
        /\ Goto(w, "open") => pc'[w] = "open"
    BY WriterFrame DEF Migrate, file, rows, writing, WriterPlace
  <1>2. /\ next[w] \in 1..7 /\ has \subseteq Durable /\ mode = "private"
        /\ DoneBefore(next[w]) \subseteq has /\ (next[w] > 2 => enforces[w])
        /\ has' = has \cup ({Statements[next[w]]} \cap Durable)
        /\ DoneBefore(next[w] + 1) \subseteq has' /\ has' \subseteq Durable
        /\ enforces' = [enforces EXCEPT ![w] = @ \/ Statements[next[w]] = "foreign_keys"]
    BY StatementFacts, DoneFacts DEF IInv, TypeOK, MigrationInv, ModeInv, ConnectionInv, Migrate
  <1>3. enforces' \in [Writer -> BOOLEAN] /\ (next[w] + 1 > 2 => enforces'[w])
    <2>1. enforces' \in [Writer -> BOOLEAN]
      BY <1>2 DEF IInv, TypeOK
    <2>2. enforces'[w] <=> enforces[w] \/ Statements[next[w]] = "foreign_keys"
      BY <1>2 DEF IInv, TypeOK
    <2> QED BY <1>2, <2>1, <2>2, StatementFacts
  <1>4. ASSUME next[w] < 7
        PROVE  (TypeOK /\ MigrationInv /\ ConnectionInv /\ OpenedInv)'
    <2>1. /\ next' = [next EXCEPT ![w] = next[w] + 1] /\ UNCHANGED <<pc, opened>>
          /\ next'[w] = next[w] + 1 /\ \A v \in Writer \ {w} : next'[v] = next[v]
      BY <1>4, StatementFacts DEF Migrate, IInv, TypeOK
    <2>2. TypeOK'
      BY <1>1, <1>2, <1>3, <1>4, <2>1, StatementFacts DEF IInv, TypeOK, PlaceInv, Migrate, rows, reading
    <2>3. MigrationInv'
      BY <1>2, <2>1 DEF IInv, MigrationInv, Migrate
    <2>4. ConnectionInv'
      BY <1>2, <1>3, <2>1 DEF IInv, ConnectionInv, Migrate
    <2>5. OpenedInv'
      <3>1. has = Durable => has' = Durable
        BY <1>2
      <3>2. (opened' <=> opened) /\ mode' # "missing"
        BY <1>2, <2>1 DEF Migrate
      <3> QED BY <3>1, <3>2 DEF IInv, OpenedInv
    <2> QED BY <2>2, <2>3, <2>4, <2>5
  <1>5. ASSUME next[w] = 7
        PROVE  (TypeOK /\ MigrationInv /\ ConnectionInv /\ OpenedInv)'
    <2>1. /\ Goto(w, "open") /\ opened' /\ UNCHANGED next
      BY <1>5, StatementFacts DEF Migrate
    <2>2. has' = Durable
      BY <1>2, <1>5, DoneFacts
    <2>3. TypeOK'
      BY <1>1, <1>2, <1>3, <1>5, <2>1, StatementFacts DEF IInv, TypeOK, PlaceInv, Migrate, rows, reading
    <2>4. MigrationInv'
      BY <1>1, <1>2, <1>5, <2>1, <2>2, StatementFacts DEF IInv, MigrationInv, Migrate
    <2>5. ConnectionInv'
      BY <1>1, <1>2, <1>3, <1>5, <2>1 DEF IInv, ConnectionInv, Migrate
    <2>6. OpenedInv'
      <3>1. mode' # "missing"
        BY <1>2 DEF Migrate
      <3> QED BY <2>2, <3>1 DEF OpenedInv
    <2> QED BY <2>3, <2>4, <2>5, <2>6
  <1>6. (TypeOK /\ MigrationInv /\ ConnectionInv /\ OpenedInv)'
    BY <1>2, <1>4, <1>5
  <1>7. ModeInv' /\ NewFilesPrivate' /\ NoOrphans'
    BY <1>1, <1>2 DEF IInv, ModeInv, NewFilesPrivate, NoOrphans, Migrate, Goto, PlaceInv, rows
  <1> QED BY <1>1, <1>6, <1>7 DEF IInv

(* A failed open leaves the file as it is.                                    *)
LEMMA OpenFailsKeeps ==
    ASSUME IInv, NEW w \in Writer, OpenFails(w)
    PROVE  IInv'
  <1>1. /\ PlaceInv' /\ PageInv'
        /\ \A v \in Writer \ {w} : pc'[v] = pc[v]
        /\ Goto(w, "closed") => pc'[w] = "closed"
    BY WriterFrame DEF OpenFails, file, rows, writing, WriterPlace
  <1>2. TypeOK'
    BY <1>1 DEF OpenFails, IInv, TypeOK, PlaceInv, file, rows, writing, reading
  <1>3. (MigrationInv /\ ModeInv /\ ConnectionInv)'
    BY <1>1 DEF OpenFails, IInv, MigrationInv, ModeInv, ConnectionInv, file, writing
  <1>4. (OpenedInv /\ NewFilesPrivate /\ NoOrphans)'
    BY <1>1 DEF OpenFails, IInv, OpenedInv, NewFilesPrivate, NoOrphans, file, rows,
        writing
  <1> QED BY <1>1, <1>2, <1>3, <1>4 DEF IInv

(* A row comes with its conversation, ...                                     *)
LEMMA RecordKeeps ==
    ASSUME IInv, NEW w \in Writer, NEW k \in Conversation, Record(w, k)
    PROVE  IInv'
  <1>1. /\ PlaceInv' /\ PageInv'
        /\ \A v \in Writer \ {w} : pc'[v] = pc[v]
        /\ Goto(w, "open") => pc'[w] = "open"
    BY WriterFrame DEF Record, file, rows, writing, WriterPlace
  <1>2. TypeOK'
    BY <1>1 DEF Record, IInv, TypeOK, PlaceInv, file, writing, reading
  <1>3. (MigrationInv /\ ModeInv /\ ConnectionInv)'
    BY <1>1 DEF Record, IInv, MigrationInv, ModeInv, ConnectionInv, file, writing
  <1>4. (OpenedInv /\ NewFilesPrivate /\ NoOrphans)'
    BY <1>1 DEF Record, IInv, OpenedInv, NewFilesPrivate, NoOrphans, file, writing
  <1> QED BY <1>1, <1>2, <1>3, <1>4 DEF IInv

(* ... or its conversation is there, or the connection does not enforce it.   *)
LEMMA AppendMessageKeeps ==
    ASSUME IInv, NEW w \in Writer, NEW k \in Conversation, AppendMessage(w, k)
    PROVE  IInv'
  <1>1. /\ PlaceInv' /\ PageInv'
        /\ \A v \in Writer \ {w} : pc'[v] = pc[v]
        /\ Goto(w, "open") => pc'[w] = "open"
    BY WriterFrame DEF AppendMessage, file, rows, writing, WriterPlace
  <1>2. TypeOK'
    BY <1>1 DEF AppendMessage, IInv, TypeOK, PlaceInv, file, reading
  <1>3. (MigrationInv /\ ModeInv /\ ConnectionInv)'
    BY <1>1 DEF AppendMessage, IInv, MigrationInv, ModeInv, ConnectionInv, file
  <1>4. (OpenedInv /\ NewFilesPrivate /\ NoOrphans)'
    BY <1>1 DEF AppendMessage, IInv, OpenedInv, NewFilesPrivate, NoOrphans,
        ConnectionInv, file
  <1> QED BY <1>1, <1>2, <1>3, <1>4 DEF IInv

LEMMA ExpireKeeps ==
    ASSUME IInv, NEW w \in Writer, Expire(w)
    PROVE  IInv'
  <1>1. /\ PlaceInv' /\ PageInv'
        /\ \A v \in Writer \ {w} : pc'[v] = pc[v]
        /\ Goto(w, "open") => pc'[w] = "open"
    BY WriterFrame DEF Expire, file, rows, writing, WriterPlace
  <1>2. TypeOK'
    BY <1>1 DEF Expire, IInv, TypeOK, PlaceInv, file, rows, reading
  <1>3. (MigrationInv /\ ModeInv /\ ConnectionInv)'
    BY <1>1 DEF Expire, IInv, MigrationInv, ModeInv, ConnectionInv, TypeOK, file
  <1>4. (OpenedInv /\ NewFilesPrivate /\ NoOrphans)'
    BY <1>1 DEF Expire, IInv, OpenedInv, NewFilesPrivate, NoOrphans, file, rows
  <1> QED BY <1>1, <1>2, <1>3, <1>4 DEF IInv

LEMMA LeaveKeeps ==
    ASSUME IInv, NEW w \in Writer, Leave(w)
    PROVE  IInv'
  <1>1. /\ PlaceInv' /\ PageInv'
        /\ \A v \in Writer \ {w} : pc'[v] = pc[v]
        /\ Goto(w, "closed") => pc'[w] = "closed"
    BY WriterFrame DEF Leave, file, rows, writing, WriterPlace
  <1>2. TypeOK'
    BY <1>1 DEF Leave, IInv, TypeOK, PlaceInv, file, rows, writing, reading
  <1>3. (MigrationInv /\ ModeInv /\ ConnectionInv)'
    BY <1>1 DEF Leave, IInv, MigrationInv, ModeInv, ConnectionInv, file, writing
  <1>4. (OpenedInv /\ NewFilesPrivate /\ NoOrphans)'
    BY <1>1 DEF Leave, IInv, OpenedInv, NewFilesPrivate, NoOrphans, file, rows, writing
  <1> QED BY <1>1, <1>2, <1>3, <1>4 DEF IInv

-----------------------------------------------------------------------------
(* The steps of a reader.                                                     *)

LEMMA RejectArgumentsKeeps == ASSUME IInv, NEW r \in Reader, RejectArguments(r) PROVE IInv'
  <1>1. PageInv'
    BY DEF RejectArguments, Finish, Goto, IInv, PageInv, PlaceInv, TypeOK, Content, file, rows
  <1>2. shown' \in [Reader -> SUBSET Conversation] /\ table' \in [Reader -> Listed]
    BY DEF RejectArguments, Finish, IInv, TypeOK, Content
  <1>3. \E place \in ReaderPlace, e \in Exit : Goto(r, place) /\ exit' = [exit EXCEPT ![r] = e]
    BY DEF RejectArguments, Finish, Goto, IInv, TypeOK, ReaderPlace, Exit
  <1>4. UNCHANGED <<file, rows, writing>>
    BY DEF RejectArguments
  <1> QED BY <1>1, <1>2, <1>3, <1>4, ReaderFrame

LEMMA RunKeeps == ASSUME IInv, NEW r \in Reader, NEW t \in Listed, Run(r, t) PROVE IInv'
  <1>1. PageInv'
    BY DEF Run, Goto, IInv, PageInv, PlaceInv, TypeOK, Content, file, rows
  <1>2. shown' \in [Reader -> SUBSET Conversation] /\ table' \in [Reader -> Listed]
    BY DEF Run, IInv, TypeOK
  <1> QED BY <1>1, <1>2, ReaderFrame DEF Run, ReaderPlace, Exit

LEMMA OpenReadOnlyKeeps == ASSUME IInv, NEW r \in Reader, OpenReadOnly(r) PROVE IInv'
  <1>1. PageInv'
    BY DEF OpenReadOnly, Finish, Goto, IInv, PageInv, PlaceInv, TypeOK, Content, file, rows
  <1>2. shown' \in [Reader -> SUBSET Conversation] /\ table' \in [Reader -> Listed]
    BY DEF OpenReadOnly, Finish, IInv, TypeOK, Content
  <1>3. \E place \in ReaderPlace, e \in Exit : Goto(r, place) /\ exit' = [exit EXCEPT ![r] = e]
    BY DEF OpenReadOnly, Finish, Goto, IInv, TypeOK, ReaderPlace, Exit
  <1>4. UNCHANGED <<file, rows, writing>>
    BY DEF OpenReadOnly
  <1> QED BY <1>1, <1>2, <1>3, <1>4, ReaderFrame

(* The one step that fills a page fills it from a table that is there.        *)
LEMMA ListKeeps == ASSUME IInv, NEW r \in Reader, List(r) PROVE IInv'
  <1>1. PageInv'
    BY DEF List, Finish, Goto, IInv, PageInv, PlaceInv, TypeOK, Content, file, rows
  <1>2. shown' \in [Reader -> SUBSET Conversation] /\ table' \in [Reader -> Listed]
    BY DEF List, Finish, IInv, TypeOK, Content
  <1>3. \E place \in ReaderPlace, e \in Exit : Goto(r, place) /\ exit' = [exit EXCEPT ![r] = e]
    BY DEF List, Finish, Goto, IInv, TypeOK, ReaderPlace, Exit
  <1>4. UNCHANGED <<file, rows, writing>>
    BY DEF List
  <1> QED BY <1>1, <1>2, <1>3, <1>4, ReaderFrame

LEMMA EmitJSONKeeps == ASSUME IInv, NEW r \in Reader, EmitJSON(r) PROVE IInv'
  <1>1. PageInv'
    BY DEF EmitJSON, Finish, Goto, IInv, PageInv, PlaceInv, TypeOK, Content, file, rows
  <1>2. shown' \in [Reader -> SUBSET Conversation] /\ table' \in [Reader -> Listed]
    BY DEF EmitJSON, Finish, IInv, TypeOK, Content
  <1>3. \E place \in ReaderPlace, e \in Exit : Goto(r, place) /\ exit' = [exit EXCEPT ![r] = e]
    BY DEF EmitJSON, Finish, Goto, IInv, TypeOK, ReaderPlace, Exit
  <1>4. UNCHANGED <<file, rows, writing>>
    BY DEF EmitJSON
  <1> QED BY <1>1, <1>2, <1>3, <1>4, ReaderFrame

LEMMA ReadFailsKeeps == ASSUME IInv, NEW r \in Reader, ReadFails(r) PROVE IInv'
  <1>1. PageInv'
    BY DEF ReadFails, Finish, Goto, IInv, PageInv, PlaceInv, TypeOK, Content, file, rows
  <1>2. shown' \in [Reader -> SUBSET Conversation] /\ table' \in [Reader -> Listed]
    BY DEF ReadFails, Finish, IInv, TypeOK, Content
  <1>3. \E place \in ReaderPlace, e \in Exit : Goto(r, place) /\ exit' = [exit EXCEPT ![r] = e]
    BY DEF ReadFails, Finish, Goto, IInv, TypeOK, ReaderPlace, Exit
  <1>4. UNCHANGED <<file, rows, writing>>
    BY DEF ReadFails
  <1> QED BY <1>1, <1>2, <1>3, <1>4, ReaderFrame

-----------------------------------------------------------------------------
(* Every step keeps the invariant.                                            *)
LEMMA NextIInv == IInv /\ [Next]_vars => IInv'
  <1> SUFFICES ASSUME IInv, [Next]_vars PROVE IInv'
    OBVIOUS
  <1>1. ASSUME NEW w \in Writer, OpenStep(w) PROVE IInv'
    BY <1>1, CreateKeeps, SecureKeeps, ConfigureKeeps, MigrateKeeps, OpenFailsKeeps DEF OpenStep
  <1>2. ASSUME NEW w \in Writer, UseStep(w) PROVE IInv'
    BY <1>2, RecordKeeps, AppendMessageKeeps, ExpireKeeps, LeaveKeeps DEF UseStep
  <1>3. ASSUME NEW r \in Reader, ReadStep(r) PROVE IInv'
    BY <1>3, RejectArgumentsKeeps, RunKeeps, OpenReadOnlyKeeps, ListKeeps, EmitJSONKeeps,
       ReadFailsKeeps DEF ReadStep
  <1>4. CASE UNCHANGED vars
    BY <1>4 DEF vars, IInv, TypeOK, PlaceInv, MigrationInv, ModeInv, ConnectionInv, OpenedInv,
       PageInv, NewFilesPrivate, NoOrphans, Content
  <1> QED BY <1>1, <1>2, <1>3, <1>4 DEF Next

(* The invariant holds in every reachable state.                              *)
THEOREM Invariant == Spec => []IInv
  BY InitIInv, NextIInv, PTL DEF Spec

(* Types, and an open store only behind the last statement.                   *)
THEOREM TypeCorrect == Spec => []TypeOK
  <1>1. IInv => TypeOK
    BY DEF IInv
  <1> QED BY <1>1, Invariant, PTL

(* OpenSQLite returns a store on the whole schema and a private file, however *)
(* many openers fail, crash and run at the same time.                         *)
THEOREM OpenIsCompleteHolds == Spec => []OpenIsComplete
  <1>1. IInv => OpenIsComplete
    BY DEF IInv, MigrationInv, ModeInv, OpenIsComplete
  <1> QED BY <1>1, Invariant, PTL

(* A file that the processes have made is private at every instant.           *)
THEOREM NewFilesPrivateHolds == Spec => []NewFilesPrivate
  <1>1. IInv => NewFilesPrivate
    BY DEF IInv
  <1> QED BY <1>1, Invariant, PTL

(* An orphan row needs a replaced connection.                                 *)
THEOREM NoOrphansHolds == Spec => []NoOrphans
  <1>1. IInv => NoOrphans
    BY DEF IInv
  <1> QED BY <1>1, Invariant, PTL

(* A printed page, empty or not, came from a table that is there.             *)
THEOREM EmptyMeansEmptyHolds == Spec => []EmptyMeansEmpty
  <1>1. IInv => EmptyMeansEmpty
    BY DEF IInv, PageInv, EmptyMeansEmpty
  <1> QED BY <1>1, Invariant, PTL

-----------------------------------------------------------------------------
(* "no file" and "no table" are the exits of OpenReadOnly and List alone, and *)
(* of neither once a store was opened.                                        *)
LEMMA ServedStep ==
    ASSUME IInv, [Next]_vars, NEW r \in Reader, exit'[r] # exit[r], opened
    PROVE  exit'[r] \notin {"no file", "no table"}
  <1>1. mode # "missing" /\ Listed \subseteq has
    BY StatementFacts DEF IInv, OpenedInv
  <1>2. PICK q \in Reader : ReadStep(q)
    <2>1. ASSUME NEW w \in Writer, OpenStep(w) PROVE FALSE
      BY <2>1 DEF OpenStep, Create, Secure, Configure, Migrate, OpenFails, reading
    <2>2. ASSUME NEW w \in Writer, UseStep(w) PROVE FALSE
      BY <2>2 DEF UseStep, Record, AppendMessage, Expire, Leave, reading
    <2> QED BY <2>1, <2>2 DEF Next, vars
  <1>3. exit \in [Reader -> Exit] /\ table[q] \in has
    BY <1>1 DEF IInv, TypeOK
  <1>4. CASE RejectArguments(q) \/ (\E t \in Listed : Run(q, t)) \/ EmitJSON(q) \/ ReadFails(q)
    BY <1>3, <1>4 DEF RejectArguments, Run, EmitJSON, ReadFails, Finish
  <1>5. CASE OpenReadOnly(q)
    BY <1>1, <1>5 DEF OpenReadOnly
  <1>6. CASE List(q)
    BY <1>3, <1>6 DEF List
  <1> QED BY <1>2, <1>4, <1>5, <1>6 DEF ReadStep

(* Once a store was opened, no read command fails for want of a file or table.*)
THEOREM ReadersServedHolds == Spec => ReadersServed
  <1>1. IInv /\ [Next]_vars =>
          [\A r \in Reader : exit'[r] # exit[r] /\ opened => exit'[r] \notin {"no file", "no table"}]_vars
    BY ServedStep
  <1> QED BY <1>1, Invariant, PTL DEF Spec, ReadersServed
=============================================================================
