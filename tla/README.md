# A TLA+ model of agent-a2a-bridge

`a2actl` is a command line client of the A2A 1.0 agent protocol. It sends one
message to a peer agent, waits for the task the peer may make of it, and keeps
a durable transcript of both in a SQLite file. The modules here model the parts
in which processes, clocks, failures and a shared file meet, check them with
TLC on small instances, and prove what matters most with TLAPS for every
instance. Paths are relative to the repository (`internal/...` is
`src/internal/...` in `PROJECT.json`).

## 1. Inventory

| component | state | operations | meets | hard behaviour | correct when |
|---|---|---|---|---|---|
| Conversation store (`conversation/sqlite.go`, `store.go`) | three tables in one file; per call, SQLite's transaction, write lock and uncommitted image | `EnsureConversation`, `Record`, `AppendMessage`, `AppendEvent`, lists, `Close` | every `a2actl` process opens its own `SQLiteStore` on the file | two writers, a batch that fails at its last row, expired contexts, crashes, readers during a batch | a batch is there as a whole or not at all; rows are never changed or taken back; ids unique, no batch leaves a row without its conversation; every call returns |
| Task polling (`a2a/client.go`, `Wait`, `GetTask`) | the pause, the call in flight, two clocks | poll, sleep, give up | the peer, the network, the caller's deadline | late answers, silence, timers that race | its verdict is the task's; over by the deadline; polite; no finished task missed |
| Commands `send`, `wait` (`cli/cli.go`) | the place in the command, the call's result, the store's error | record, send, poll, record, print, exit | store, peer, other invocations | crash between record and request, lost answers, store faults, ids the peer gives | transcript and exit code say what happened |
| JSON-RPC call and validation (`doJSON`, `parseSendResult`, `validate*`) | none | one request, one answer | peer | hostile or sloppy answers | every answer that is not exactly right is an error of the right class |
| Error taxonomy (`a2a/errors.go`, `exitCode`) | none | classify | commands | masking of one error by another | exit codes are stable and tell the truth |
| Discovery (`Discover`, `ValidateCard`, `AgentCard.Interface`) | none | fetch, validate, select | peer | first match, several interfaces | selects the first JSONRPC 1.0 interface or fails |
| Store file (`OpenSQLite`, `OpenSQLiteReadOnly`, `secureCreate`, `migrate`) | which tables the file has, its mode, the connection's pragmas | create, migrate, open | other openers | crash between two statements of the migration | an opened store has its schema; the read-only open never creates one |
| Order and time of the rows (`timestamp`, `ListConversations`) | `created_at` of every row | stamp or take what the caller gives, write as text, order by the text, parse | the clock, other writers' locks | a stamp taken before a wait for the lock; a text whose order is not that of the times | the newest first; rows of a batch in the order of their times; the time survives |
| Redaction (`conversation/redact.go`) | none | rewrite texts and JSON | store | nesting | no sensitive field survives at any depth |
| Read commands, `discover` command | none | open, read, print | store, peer | limits | prints what the store has |
| `cmd/a2actl/main.go` | none | calls `cli.Run` | | | |

The interactions: `runSend` records the outbound message and `send_started`
in one `Record`, sends the request under the same message id, and records the
peer's message and `send_completed` or `send_failed` in another `Record`.
`runWait` polls with `Client.Wait` and then records the status message and
`wait_finished` in one `Record`. Invocations meet in the store and at the peer,
never in memory. The hazards are listed, each at its line and with the
properties that watch it, in `PROJECT.json`.

## 2. Modules

| module | models | abstraction |
|---|---|---|
| `TranscriptDB` | the three tables as values, and what the SQL statements and the Go-side row checks do to them | texts are opaque values, taken after redaction |
| `Transcript` | the promise of the `Store` interface: a call takes effect as a whole, in the step that reports success | the abstract specification |
| `SqliteStore` | `sqlite.go`, one action per statement or return path, for any number of clients, and the connection of each | SQLite from how the store uses it; of a connection, whether it enforces foreign keys |
| `WaitPoll` | `Client.Wait` and `GetTask` in discrete time | task states and errors as far as `Wait` tells them apart |
| `A2actl` | `runSend` and `runWait`, any number of invocations, the store's tables and the peer | a `Record` is one step (justified by `SqliteStore`), a wait's polling is one step (justified by `WaitPoll`) |
| `StoreFile` | `OpenSQLite` from `secureCreate` to the last statement of `migrate`, `OpenSQLiteReadOnly`, the read commands, and the pragmas of a connection that is replaced | of a row only its conversation; any statement may fail on a lock |
| `Listing` | when a timestamp is taken or given, its text, the order by that text, `boundedLimit`'s cut, and its parsing | a time is its second and its fraction, digit by digit; one append-only table stands for two |
| `RpcResponse` | `doJSON` behind the request, `parseSendResult`, the tail of `GetTask`, the two readings of a message and their validations, as functions of an answer | a JSON member is absent, null, of a wrong type, or a value; its name is the one the code asks for |
| `RpcCall` | `GetTask` calls of several processes through a network that delays, repeats, misdirects and damages answers | what is damaged is one case of each error class |
| `TaskReads` | the promise of `GetTask`: one read of one task at one instant of the call, or an error | the abstract specification of `RpcCall` |
| `Discovery` | `Discover`, `ValidateCard`, `AgentCard.Interface`, `runDiscover` to the write of its output, as functions of a card and the answer it comes in | a card is what it lacks, and its interfaces; `Jsonrpc` and `Version1` are the spellings `EqualFold` and `TrimSpace` accept |
| `Redaction` | `Redact`, `redactValue`, `RedactJSON` and what the store does around them, for payloads of any depth | a text is the set of credential shapes in it; `Float64` gives the number a number becomes, `Plain` gives a key in lower case, without `-` and `_` |
| `Documents` | the three modules of functions as calls, one document each, and what is expected of the result | the sets of documents are constants |
| `MCSqliteStore`, `MCWaitPoll`, `MCA2actl`, `MCStoreFile`, `MCListing`, `MCRpcCall`, `MCDocuments` | constants for TLC | |
| `SqliteStoreProofs`, `WaitPollProofs`, `StoreFileProofs`, `A2actlProofs`, `RpcCallProofs`, `ListingProofs`, `DocumentsProofs` | lemmas and theorems of the module named | |
| `NumberLemmas` | induction over the natural numbers and the existence of functions defined by recursion, for the proofs | |

### 2.1 The store

A client of `SqliteStore` is one `SQLiteStore` with at most one call in
progress (`SetMaxOpenConns(1)`; the commands make one call at a time). Its
`stage` is its place in the code:

| code | action |
|---|---|
| `OpenSQLite` on a migrated file, `Close` | `Open`, `Close` |
| the caller calls a writing method | `Invoke` |
| argument checks before the database is touched | `Refuse`, `Accept` |
| `BeginTx` (deferred, takes no lock), then the conversation's INSERT, which takes the write lock | `Accept`, `Begin`, `Busy` |
| the loops of `Record` over messages and events | `InsertNextMessage`, `InsertNextEvent`, `RowRejected` |
| `Commit`, the deferred `Rollback` | `Commit`, `Rollback` in every error path |
| `EnsureConversation`, `AppendMessage`, `AppendEvent` | `Autocommit`, `ConstraintFails`, `Busy` |
| the context expires | `Expire` |
| `ListMessages`, `ListEvents` | `List` |
| the process dies | `Crash` |

`image` is the database as the open transaction sees it, `db` what is
committed. A blank event type is rejected where a blank id is and is not kept
apart from it. A `Commit` that returns an error is taken not to have committed;
it is one of the ways of `Expire` or `Crash`.

A context that expires may cut a statement off, and nothing in the code says
which side of its effect. So `Expire` rolls a transaction back, but the row of
a single-row call may be there although the call returned an error. And
`database/sql` may drop the connection: the next one it opens has none of the
pragmas of `OpenSQLite`, which sets `foreign_keys` on one connection
(`sqlite.go:94`). `enforces[c]` is whether that pragma is on for c's connection,
and every INSERT looks at it. Two history variables say what came of it:
`replaced`, the clients whose connection is not the configured one, and `bare`,
the rows that `AppendMessage` and `AppendEvent` inserted through such a
connection. `TablesConsistent` lets exactly those be without a conversation. It
exempts no row of a `Record`, on whatever connection: there it is the
conversation's own INSERT that keeps the rows from being orphans, and not the
foreign key.

`Implements` is the refinement: with the variables `db`, `call`, `reply` and
`seen` mapped to themselves, every statement is a step of `Transcript` or
stutters. The interesting part is in `Transcript!Succeed`: the whole batch
appears, well-formed and with ids that were free, in the step that returns nil,
and in `Transcript!Fail`: a `Record` that returns an error has changed no row, so
no error return leaves half a batch. An error of one of the other calls
says less, that its one row is there or not.

### 2.2 The wait

Time is a natural number that passes (`Tick`) until `Horizon`, one instant after
the deadline, and waits only for a timer of the client that is armed and due: the
call's (`CallDue`), the pause's (`PauseOver`), the context's in the `select`
(`ContextDone`). The Go code between two blocking points takes no time. A timer
that the code does not arm holds nothing up, so time would pass over the deadline
in a `Wait` that sleeps without looking at its context; `EndsByDeadline`, which
says that `Wait` is done when the deadline has passed, is about the client and
not about the clock. At every instant
the peer and the network may answer, refuse, garble, fail or do nothing. A call
that cannot be made (no token, a malformed endpoint) is rejected before the
network is used (`RejectRequest`). A `GetTask` call has a `headers` and a `body` stage, because a timer that fires
in `http.Client.Do` and one that fires in `readBounded` give different errors;
`sleep` is the `select`, in which the pause and the deadline race. `snapshot`
is the task as the answer carries it, `task` the task as it is.

### 2.3 The commands

An invocation is a process that starts once, and may crash between any two of
its steps. `pc` is its place: `start` (arguments, store, first record), `call`,
`response`, `poll`, `finish` (second record), `report` (print, exit). The peer
may handle a request long after its sender gave up, may refuse it, may answer
with a message, a task, or something the client does not accept, and its tasks
go on by themselves. `faulted` is a history variable: the invocations whose
store failed for no fault of theirs, so that properties can speak of a store
that works.

Assumptions, all but the first about code outside `src/`: the ids of `newID` are
never given twice, neither as random bits nor, when the random source fails, as
the nanoseconds of the clock (`client.go:111-112`);
the peer's messages have unique ids, and the same message keeps its id when it
is delivered again; a terminal task state is final; `wait` is started for tasks
whose id a `send` printed.

### 2.4 The store's file

`StoreFile` ends where `SqliteStore` begins, with an open store. `pc` is the
place of a process in `OpenSQLite` (`created`, `configuring`, `migrating`,
`open`) or in a read command (`opening`, `listing`, `printing`); `next` is the
statement of `migrate` it executes next, and `has` what the statements have left
in the file.

| code | action |
|---|---|
| `secureCreate`: `OpenFile` with `O_CREATE` and 0600, then `Chmod` | `Create`, `Secure` |
| `sql.Open`, `PRAGMA busy_timeout` | `Configure` |
| the statements of `migrate`, each its own transaction | `Migrate` |
| an error of any of them, the 10s context | `OpenFails` |
| `Record`, `EnsureConversation`; `AppendMessage` with its foreign key | `Record`, `AppendMessage` |
| a failed or cancelled statement makes `database/sql` replace the connection | `Expire` |
| `Close`, or the process dies | `Leave` |
| `readFlags`, `openReadStore` | `RejectArguments`, `Run` |
| `OpenSQLiteReadOnly`, the one SELECT, `emitJSON` | `OpenReadOnly`, `List`, `EmitJSON`, `ReadFails` |

`foreign_keys` belongs to a connection, not to the file. `NoOrphans` says what
that means: a row without its conversation can only come from an append through
a connection that took the place of the one `OpenSQLite` configured. No command
of `a2actl` appends without `Record`, which ensures the conversation itself.

### 2.5 Answers, calls and reads

`RpcResponse` has an operator for each function of the code that looks at an
answer, and gives the checks in their order, because the order decides the
error class. A message is read twice: `validateMessageRaw` looks at the members
as they came (`ValidPart`), and then the decoder of `Message`, which keeps only
the text of a part, makes a value of it; a message it cannot make one of
(`DecodesMessage`) is an error, although the first reading took it. The status
message of a task is looked at a third time: what the decoder has kept of it (`TypedMessage`) is marshalled and
goes through `validateMessageRaw` again (`client.go:556-563`). `ValidMessage` and
`ValidTask` are these checks one after the other; `StrictAnswers` says what they
accept together. `encoding/json` matches the names of members without regard to
case; the model takes them as the code writes them. `RequestId` is the assumption
on `newID` above: its ids are not given twice.

`RpcCall` gives those functions a world: requests the peer handles
late, answers that reach any call at any time, once or more, whole or damaged.
`GetTask` does not compare the id of the task in an answer with the one it asked
for; `checkRPCID` is all that keeps answers apart, and `Implements` shows that
it is enough: with the refinement mapping at the end of `RpcCall` every call is
a step of `TaskReads`, whose `Read` happens when the peer handles the request.
`WaitPoll` and `A2actl` take a poll to be such a read. The peer of `RpcCall` is
honest: a peer that answers a request for one task with another's snapshot is
believed.

`WaitPoll` and `A2actl` tell a call that ran out of time from one that broke
(`CallTimeout`, `BodyTimeout`); `RpcCall` does not, because the error class is
the same. The flag `TransportError.Timeout` is set when the time runs out in
`http.Client.Do` and not when it runs out in `readBounded`; the exit code is 5
in both cases.

### 2.6 Cards, payloads and times

The operators of `RpcResponse`, `Discovery` and `Redaction` have no state of
their own, so `Documents` gives them theirs: `input` is a document, `outcome`
what the function makes of it. `Answer`, `Discovered` and `JSON` are the
documents there are: any strings, any number of parts, skills and interfaces,
objects with any keys, nested to any depth. `Interface` is the loop over `supportedInterfaces`, a
function of the rest of the list; `FirstDecides` describes its result by the
least index that fits. `redactValue` recurs as in the code, a
function of the values, which are the sets `Nested[1]` to `Nested[MaxDepth]` (the
parts of a value come from the sets before its own; `encoding/json` rejects what
nests deeper than 10000). `RedactJSON` decodes into an `any` first (`Unmarshal`):
a number becomes the float64 next to it, and one that is out of range, on any
level, is an error of the whole, which makes the payload an invalid one.
`OnlyCredentialsGo` describes the result by the paths to the leaves, and says what
else changes: no leaf but the credentials and the numbers that a float64
does not hold. Of two members with one key the decoder keeps the last, and it
writes the replacement character for bytes that are no UTF-8; the payloads of the
model have neither. `runDiscover` may fail to write what it selected
(`cli.go:178-181`); then `discover` does not exit with 0.

A time of `Listing` is a second and a fraction of `Digits` digits of `Base`
values, ordered by `Earlier`; the clock shows any times of `Instant`, in that
order. `Listing` writes a time as the code does, digit by digit without the
zeros at the end, and orders the texts byte by byte. That order is not the order of the
times: in `10:00:00Z` and `10:00:00.5Z` the `Z` comes after the dot, so the
older one is listed first. `NewestFirst` says exactly how far the promise
holds: between seconds always, within a second unless the older one is written
with fewer digits. `SequenceIsTime` is about the instant a stamp is taken:
`Record` takes the stamp of a row while it holds the lock, `AppendMessage` and
`AppendEvent` take it before they wait. `timestamp` asks the clock only for a
`CreatedAt` that is zero. No command gives one, but the methods of the store take
any, and write it as it is. A row remembers which it was (`own`), and
`SequenceIsTime` and `ConversationFirst` speak of the rows the clock stamped:
nothing orders times that callers made up. `NewestFirst` and `TimesSurvive` hold
of both.

## 3. What TLC checks

| run | instance | what it shows |
|---|---|---|
| `store_safety` | 2 clients, 7 calls, 2 conversations, page limits 0 and 5 with a default of 1 and a maximum of 2 | `TypeOK`, `TablesConsistent`, `ReadsSurvive`, `AppendOnly`, `Implements` |
| `store_liveness` | the same without reads | `LockReleased`, `CallReturns` |
| `wait_poll` | pause 1, cap 3, HTTP timeout 3, deadline 14 | `TypeOK`, `Verdict`, `EndsByDeadline`, `PollBudget`, `NotMissed`, `PoliteGaps`, `Returns` |
| `http_timeout_first` | the same | the finding `DeadlineDecides` |
| `invocations_safety` | 2 sends (one with a store), 1 wait with a store, 2 peer messages | `TypeOK`, `WriteAhead`, `OneStory`, `ReplyWithOutcome`, `CompletedMeansHandled`, `ExitTellsTruth`, `SendRecordsOutcome` |
| `invocations_liveness` | 1 send, 1 wait | `Ends` |
| `wait_loses_outcome` | as `invocations_safety` | the finding `WaitRecordsTerminal` |
| `store_file` | 2 writers, 1 reader, 2 conversations; the file is there or not | `TypeOK`, `OpenIsComplete`, `NewFilesPrivate`, `NoOrphans`, `EmptyMeansEmpty`, `ReadersServed` |
| `listing` | 2 writers, 2 conversations, 4 instants (3 of one second, the first of the next), one time a caller gives, 2 messages, pages of 1 and 5 | `TypeOK`, `NewestFirst`, `TimesSurvive`, `SequenceIsTime`, `ConversationFirst` |
| `rpc_calls` | 2 callers with 2 calls each, 2 tasks that change once | `TypeOK`, `RightAndFresh`, `Implements` |
| `documents` | about 62,700 answers, cards and payloads | `StrictAnswers`, `ClassTellsWhy`, `FirstDecides`, `OnlyCredentialsGo` |
| `discovered_url` | the same | the finding `PrintedURLWorks` |

Why the bounds are enough. The seven calls of `MCSqliteStore` contain every way
two calls can meet: the same id with another text, an id that collides only at
the second row, a row of another conversation after a good one, a blank batch,
a conversation ensured again under another title, and single-row calls whose
conversation may or may not be there. The two page limits are the ones
`boundedLimit` changes, one to the default and one to the maximum. Two clients are
enough for every pair of statements to interleave; a third would wait for the same
lock. They run one program, and the properties of this run are invariants and
action properties, so the symmetry between them is sound; the liveness run has
none. The tables are
bounded by the ids, which are unique, so no counter is capped. In `MCWaitPoll`
the cap is not a power of two times the first pause, so that the capping step
differs from a doubling, and the deadline leaves room for several pauses at the
cap. In `MCA2actl` the wait can meet the task of a send with a store and of one
without; the second send also writes nothing, so every disturbance of the first
one's transcript comes from the wait or the peer.

In `MCStoreFile` two writers give every pair of statements of two migrations,
one of which may fail and begin again while the other uses the store; the
commands of the one reader do not end, so it meets every state of the file. In
`MCListing` the clock shows the fractions none, .1 and .11 of one second, each of
whose texts ends where the next goes on, and the first instant of the next second;
the time a caller gives lies in their middle, so that it is before the clock or
after it. `Parse` and `timestamp` work digit by digit,
so more digits repeat these cases (the proofs are for any number). In `MCRpcCall`
an answer can meet a later
call of its own process or one of another, about the same task or the other,
and a task changes once, so that there is a past to see. `MCDocuments` names its
sets: lists of up to two parts or interfaces (three, when the last one is good),
since the loops over them carry nothing but a flag from one element to the next,
parts with a text, with another member, with both or neither, and payloads that
nest two deep with the mixtures that tell an array under a sensitive key from a
key under an array. The numbers are one that a float64 holds, the next one, which
it does not, and one out of range.

Deadlock is checked for the store, its file, the listings and the calls, each of
which can always go on (a call can be rejected, a reader run again, a call begin).
`WaitPoll` and `A2actl` have terminal states in which everybody is done, so their
cfgs switch the check off; `Returns` and `Ends` say that those states are
reached. `MCDocuments` makes one step: its cfgs switch it off too.

Each property has a mutant, a definition beside the one it replaces, that makes
the mistake the property is there to catch: a forgotten rollback, a statement
outside the transaction, a dirty read, `DO UPDATE` instead of `DO NOTHING`, a
`select` without the deadline, an uncapped pause, a record after the request
instead of before, two appends instead of a batch, a pragma that is left out, a
time written without its fraction.

### Fairness

- `SqliteStore!FairSpec`: weak fairness of the steps of a call (`Step`). They
  are Go code that runs and SQLite, which grants the lock or, through
  `busy_timeout`, gives up. `Crash`, `Expire`, `Open`, `Close`, `Invoke` and
  `List` are not fair: a call that returns owes it to none of them.
- `WaitPoll!FairSpec`: time passes and timers fire. No fairness of the peer,
  the network, or `ReturnTask`, `FallAsleep`: `Returns` holds without an answer.
- `A2actl!FairSpec`: an invocation that has begun runs on; `SendLost` and
  `PollsFail` stand for its deadlines, which `WaitPoll` justifies. Nothing is
  asked of the peer, and no invocation has to begin.

### Findings

1. **A call's own timeout ends a wait that has time left**
   (`http_timeout_first`). The comment on `DefaultTimeout`
   (`internal/a2a/client.go:28`) says it "bounds any single HTTP call when the
   caller has no deadline". `NewClient` sets it on `http.Client` for every call,
   and `Wait` returns on the first error, so one slow poll ends a 60s wait
   after 15s with exit code 5.
2. **A wait can fail to record the state it saw** (`wait_loses_outcome`).
   `runWait` stores the task's status message under the peer's message id, in
   one batch with `wait_finished`. If the send that made the task, or an
   earlier wait, stored the same status message, the UNIQUE id fails the batch
   and the event is rolled back: the transcript never shows the end of the
   task, and `wait` exits 6 for a task that completed.
3. **`discover` can print a URL that `send` does not take** (`discovered_url`).
   `AgentCard.Interface` checks `strings.TrimSpace(it.URL)` and `runDiscover`
   prints `it.URL` as the peer wrote it; `send` and `wait` hand it to `doJSON`
   untrimmed, where a URL that begins with white space does not parse (exit 1).
   `docs/USAGE.md:27-28` says that `--url` is the selected interface's URL.

## 4. What TLAPS proves

For every number of clients, every set of calls and every limit
(`SqliteStoreProofs`), from the assumptions `LimitAssumption`,
`CallsAssumption`, `ClientAssumption` and `LimitsAssumption`:

- `TypeCorrect`, `TablesConsistentHolds`, `AppendOnlyHolds`, `ImplementsHolds`,
  `ReadsSurviveHolds`.

`TablesConsistent` is not inductive: `Commit` puts the image in the place of the
tables, so the image must be consistent and the tables must not have changed
since it was taken. It is `Sound(db, bare)`: sound but for the bare rows. The
inductive invariant `IInv` adds `StageInv` (what a
client's stage says about its call) and `ImageInv`: the image of the lock
holder is the committed tables with its conversation ensured and the first
`done` rows of its call appended, each of which passed its checks. The image is
sound with the same exemptions as the tables, because a row of a batch has the
conversation that the batch ensured (`InsertMessageProperties`), on any connection.
A single row has its conversation because the connection enforces the foreign key,
or else the connection was replaced and the row is bare: every open
store enforces or is in `replaced`. At `Commit`
`done` is the whole call, so the image is `Apply(db, call)`: this one fact
gives the refinement, the append-only property and the integrity. Nobody else
writes `db` meanwhile because every other writer needs `lock = Nobody`.
The lemmas on the tables and on sequences come first in the module.

`ReadsSurvive` is about a page that was read in an earlier state. Every step
leaves the committed tables or appends to them (`StepAppends`), the scan for a
conversation over a grown table begins with the scan over the table
(`InConversationGrows`), and a page is the beginning of a scan (`PageIsPrefix`);
`SeenInv` gives the types of what was seen. `InConversation` is a recursive
function of the length of the table, so the lemma on scans is an induction.

For every timing (`WaitPollProofs`), from `TimingAssumption`:

- `TypeCorrect`, `VerdictHolds`, `EndsByDeadlineHolds`, `PollBudgetHolds`,
  `NotMissedHolds`, `PoliteGapsHolds`.

`EndsByDeadline` needs `ClockInv`: in every stage before the end a timer is armed
that is due by the deadline, a call's or a pause's own or the context's, and time
does not pass over an armed one; so `Wait` has returned in every state after the
deadline. It falls with any of them, which the mutant shows for the `select`.
`Verdict` needs that an answer in flight carries a terminal state only if the
task has it; `NotMissed` needs when the call in flight or the current pause
began, and that the answer that led to the pause was not older than one call.
`PoliteGaps` is an action property about the n-th pause, and the code keeps no n:
it doubles `backoff` and caps it. `BackoffInv` says that the two agree,
`backoff = Pause(polls)`; a capped value stays at the cap because the doubled one
would exceed it too (`NextPause`).

For any number of writers, readers and conversations (`StoreFileProofs`), from
`ProcessAssumption`:

- `TypeCorrect`, `OpenIsCompleteHolds`, `NewFilesPrivateHolds`,
  `NoOrphansHolds`, `EmptyMeansEmptyHolds`, `ReadersServedHolds`.

`OpenIsComplete` is not inductive: the last statement of a migration proves
nothing about the ones before it, which another process may have executed.
`MigrationInv` says that what a writer has behind it is in the file
(`DoneBefore`), and since no statement removes anything, failures and crashes of
others cannot take it away; `ModeInv` and `ConnectionInv` do the same for the
mode and for `foreign_keys`. `OpenedInv` carries completeness past the `Close` of
the store, which is what `ReadersServed` needs, and `PageInv` ties the page a
reader holds to a table that exists. Steps of a reader and of a writer are
framed once (`ReaderFrame`, `WriterFrame`).

For any number of `send` and `wait` invocations, any storing subset of them and
any messages of the peer (`A2actlProofs`), from `InvocationAssumption`:

- `TypeCorrect`, `NothingSentUnrecorded` (`WriteAhead`), `AuditIsOneStory`
  (`OneStory`), `RepliesWithOutcomes` (`ReplyWithOutcome`), `CompletedWasHandled`
  (`CompletedMeansHandled`), `ExitCodesTrue` (`ExitTellsTruth`),
  `SendsRecordOutcomes` (`SendRecordsOutcome`).

None of them is inductive alone, and their conjunction is not either. `PlaceInv`
to `OutcomeInv` say which rows a place in a command allows: at `call` the first
batch is there and no outcome is, after `finish` the outcome is there unless
`storeErr` is set. `AnswerInv`, `SendResultInv` and `WaitResultInv` tie what an
invocation holds to what the peer did, although it may have gone on since.
`SendRecordsOutcome` needs one thing more: the second batch of a send could fail
on the UNIQUE id of the peer's message. `OwnerInv` excludes it. Every message id
the peer has given belongs to one send, wherever it turns up, and is in the store
only after that send is past its own record; so when a send records its outcome
nobody has stored that id before (`SendsDoNotConflict`). The same argument fails
for a wait, which is finding 2.

For any number of callers, calls and tasks (`RpcCallProofs`), from
`BoundsAssumption` and `WrongAssumption` (the id of a misdirected answer is none of
a request):

- `TypeCorrect`, `RightAndFreshHolds`, `ImplementsHolds`.

What is inductive is about request ids: every pending request and every answer
has the id of a call that was made (`IdsMade`), at most one of the two exists for
an id (`IdsOnce`), and what carries the id of a caller's last call is about that
call, no older than it, and consistent with what the task is now (`AboutCall`).
What the checks of `RpcResponse` accept is reduced to a few facts once
(`GetTaskMeans`), and damage of every kind is an error. The refinement maps the
instant the peer handles a request to `TaskReads!Read`.

For any clock, any number of digits, and any number of writers and conversations
(`ListingProofs`), from `TimeAssumption` and `WriterAssumption`:

- `TypeCorrect`, `NewestFirstHolds`, `TimesSurviveHolds`, `SequenceIsTimeHolds`,
  `ConversationFirstHolds`.

`Sound` holds of the committed tables and of the image of an open transaction
alike: no stamp the clock gave is later than the clock, the rows of `Record` that it
stamped are in the order of their stamps, their conversation is there, and its
stamp, if the clock gave it, is no later than theirs. The image is needed because
`Commit` makes it the tables, and the clock because the next row of a batch takes
its stamp from it. `TextOrder` (the order of two texts gives the order of the
times, but for a shorter text of the same second) and `ParseFormat` (parsing
what was written gives the time back) hold for any base and precision.

For every answer, agent card and event payload (`DocumentsProofs`), from
`MarksAssumption` (what stands for an absent member, null, another type or white
space is none of the values), `NameAssumption` (the strings the code compares
with are strings), `DocumentsAssumption` (the documents are of their types),
`NestedAssumption` (a value has parts of less depth) and `DecodedAssumption` (what
a value is decoded to is one of the values):

- `AnswersAreStrict` (`StrictAnswers`), `ClassesTellWhy` (`ClassTellsWhy`),
  `TheFirstDecides` (`FirstDecides`), `OnlyCredentialsAreTaken`
  (`OnlyCredentialsGo`).

The invariant `IInv` says only that a call has the document it was given and the
outcome the function makes of it; the work is in what the functions compute.
For the answers, each list of checks is turned into what it accepts
(`FirstFailureMeans`, then `HeaderMeans`, `BodyMeans`, `PartMeans`, `PartsMean`,
`MessageMeans`, `TaskMeans`, `parseSendResultMeans`; `TypedMeans` is the second
reading of a message, of which it leaves the text), and `CallMeans` puts the
envelope and the
result together. The loop of `AgentCard.Interface` is a recursive function of the
index: `LoopExists` names the function that satisfies its equation, `LoopSkips`
shows by induction that entries which do not fit pass the question on, so that
`InterfaceMeans` finds the verdict at the first that fits.

`redactValue` recurs over the depth: `redactValueExists` builds it, one depth on
top of the other, because the redaction of a value depends only on that of its
parts (`RewrittenByParts`). `OnlyCredentialsGo` looks at a value level by level,
which is not how `redactValue` goes through it. What joins the two is
`UnderRedacted`: going one level down and redacting may be done in either order,
where redacting a pair of a path and a value (`Redacted`) masks the value and cuts
the path once there is a sensitive key on it. By induction the levels of the
stored payload are the redacted levels of the given one, and on the last level,
where all values are leaves (`UnderOnLevel`), `Redacted` is `Kept` (`LeafRedacted`).
`Unmarshal` recurs in the same way: going down and decoding may be done in either
order (`UnderDecoded`), so the leaves of what is decoded are the decoded leaves
and the whole is undecodable exactly if one of them is out of range
(`LeavesDecoded`).

Induction. The provers cannot use the induction theorems of the library, which
speak of an operator. `NumberLemmas` says the same of sets and functions: a set of
numbers that is not empty has a least one (`LeastNumber`), a set with 0 that is
closed under successor holds every number (`Induction`), and a recursion has a
function that satisfies it (`Iteration`). That is enough for the recursions the
proofs meet: the powers of two, the scan of a table, the loop over the interfaces,
`redactValue` and the levels of a payload; and for the first byte or digit in which
two texts or two times differ.

Model-checked only: liveness, and everything under fairness (`LockReleased`,
`CallReturns`, `Returns`, `Ends`). It needs ENABLED, which TLAPS does not do. Every
invariant and every action property that a passing run checks is also a theorem.

## 5. Not modelled, and the plan

Modelled, in the order of importance: `TranscriptDB`, `Transcript`, `SqliteStore`;
`WaitPoll`; `A2actl`; `RpcResponse`, `RpcCall` and `TaskReads`; `StoreFile`;
`Listing`; `Discovery`, `Redaction` and `Documents`. All have their proofs; nothing
the plan named is left to prove.

Left out for good: what the regular expressions of `Redact` match, and all
wording; the parsing of flags and durations; TLS, redirects and proxies of
`net/http`; file permissions beyond the mode of the file; `:memory:` and paths
`OpenSQLite` rejects, which leave no file; the decoding of the participants
column; and `main.go`, which decides nothing.
