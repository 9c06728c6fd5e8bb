# Telegram Codex Bridge: TLA+ models, checks and proofs

The bridge is one Go process between Telegram and the coding agents Codex and
Gemini. It polls Telegram for updates, gives each chat topic a worker
goroutine, runs the topic's messages against the agent bound to the topic, and
keeps bindings, preferences and the polling cursor in SQLite. This directory
holds the TLA+ modules that model its control, the TLC configurations that
check them, and TLAPS proofs that the main safety properties hold for every
number of messages, updates, faults, sessions and requests.

Paths below are relative to the repository (`src/` in the maps of
`PROJECT.json`).

## 1. Inventory

| Part | State | Operations | Hard behaviour | Correct means |
|---|---|---|---|---|
| **Topic worker** `internal/app/async.go`, `progress.go` | `topicWorker`: `busy`, `followUps`, active tracker, active session and turn, channel of one job; one typing loop per tracker | poll goroutine: `enqueueMessage` (begin, steer, promote, enqueue); worker goroutine: `processQueuedMessage` (prepare, run, take follow-ups, deliver, fail, release) | two goroutines and about a dozen short critical sections; calls to Telegram and the agent between them | runs of a topic never overlap; no message lost or run twice; order kept; steering goes to the live turn; the poll goroutine never blocks; typing shown while working |
| **Update poller** `internal/telegram/bot.go` | cursor in memory, cursor last saved, end of the answer; the stored row `telegram_update_offset` | `Run`, `getUpdates`, `loadStoredOffset`, `saveStoredOffset` | crashes and restarts, lost answers, failed saves, handler errors, updates that normalise to nothing | no update skipped; repetition bounded; everything handled |
| **Bindings and commands** `internal/app/app.go`, `topic_settings.go`, `async.go` | row of `topic_bindings`, provider preference | `executeUpdate`, `createThread`, `continueThread`; `/archive`, `/delete`, `/new`, `/provider`, topic edits | worker and poll goroutine read and write the row with no common lock; whole-row upserts of copies read before a long run | row names the backend that has the session; archived stays archived |
| **Provider router, fallback client** `internal/codex/provider_router.go`, `adapter.go` | map from session to provider | start, resume, steer, archive, remember | fallback from Codex to Gemini on a new thread, from app-server to command line on any; memory lost on restart | requests about a session reach the backend that holds it |
| **App-server session** `internal/codex/app_server.go` | child process, web socket, pending requests, event channel of 128, registered active turns | start, resume, steer, archive, `waitForTurnCompletion`, `readLoop`, `Close` | reader goroutine against callers; events dropped when the channel is full; loss of the connection racing the last event | every call ends; replies go to their requests; completed turns are reported completed |
| **Command-line clients** `client.go`, `gemini_client.go` | child process per run, two pipes, the parser's state | start, resume | two bounded pipes and two goroutines; bad exits, lines too long, missing session id | a run comes back; the reply is the child's, in full; no child left at work |
| **Settings** `topic_settings.go`, `codex/catalog.go` | preferences row | `/model`, `/think`, `/speed`, `/provider`, panel callbacks; resolution for a run | preferences against a catalog that changes with the provider and from one call to the next | a backend is started with a model and level it has |
| **Permission mode** `permission.go`, `config.go` | `.env`, one mode per client | `/permission` | truncate, write and one call per client, with crashes between | file, clients and user agree |
| **Media and workspaces** `media.go`, `workspace.go`, `transcribe/` | directories of a topic, attachments in them | download, transcribe, snapshot, detect and send artifacts; name allocation | two goroutines prepare messages of one topic; partial downloads; names in use; follow-ups inside a job | a topic reuses its directory, topics do not share one; what the agent makes comes back, what the user sent does not |
| **Store** `internal/store/` | SQLite tables | bindings, preferences, language, offset | schema migration | upserts keep other columns |
| **Telegram calls** `bot.go` | topic-name cache | send, edit, upload, split long texts | splitting at limits, a call that fails half-way | all text sent, in order |
| **Power manager** `power/` | reference count, inhibitor process | acquire, release | overlapping runs, a process that does not start | on exactly while runs are |
| **Logging** `logging/` | current file and its size, backups | write, rotate | failure or crash between two steps of a rotation | lines in order, without holes |
| **Service managers, control CLI** | unit files | install, start, stop | a sequence of external calls | a dead process is started again |
| **macOS status bar app, scripts, health checks** | none the bridge depends on | user interface, builds, probes | none | not modelled |

The parts meet as follows. The poller calls `handleUpdate` for each update and
moves its cursor when it returns. `handleUpdate` runs commands itself and hands
messages to the topic's worker, which returns at once. The worker calls
`executeUpdate`, which reads the binding and the preferences from the store and
starts or resumes a thread through the router; a stream callback writes the
turn's ids back into the `topicWorker`, where the poll goroutine reads them for
steering. Everything else is called from these.

`PROJECT.json` lists every component with its status, and under `hazards` each
place where this code can go wrong in a way a test would hardly reach.

## 2. The modules

### `TopicWorker` and `SerialTopic`

`TopicWorker` models one topic. Every critical section of `topicWorker.mu` and
every call that leaves the process is one action, so every interleaving of the
two goroutines is a behaviour.

| TLA+ | Code |
|---|---|
| `busy`, `jobs`, `followUps`, `active`, `activeTurn` | the fields of `topicWorker` and its channel (capacity 1) |
| `arrived`, `pPc`, `pTurn` | the poll goroutine inside `enqueueMessage`: message in hand, place, the pair returned by `activeTurn` |
| `wPc`, `batch`, `wTracker` | the worker inside `processQueuedMessage`: place, messages of the current run, local `progress` |
| `typing` | trackers whose `typingLoop` runs |
| `liveTurn` | the turn the app-server accepts steering for |
| `steered`, `finished` | history only |
| `BeginRun`, `BeginFollowUp` | `begin` returning true, false |
| `PeekTurn`, `Promote`, `SteerAccepted`, `SteerFailed`, `EnqueueFollowUp` | `enqueueMessage` 62 to 95 |
| `Receive` to `ReleasePending` | `processQueuedMessage`, in its order |

A message is its arrival number; a merged batch is the sequence of its
messages; a turn is named by the last message of its batch; a tracker is its
message and the goroutine that created it. Prompts, media, wording and stats
are abstracted. `SteerFailed` covers both a refused request and an accepted one
whose answer was lost. `CliFallback` is the fallback client moving the run to
the command line.

`SerialTopic` says what a topic promises without goroutines, lock or channel:
messages wait, one batch runs at a time, and a message leaves the waiting set
once. `TopicWorker` implements it under `waiting <- Waiting`,
`running <- RunningBatch`.

### `UpdatePoller`

`Bot.Run` with one action per store or Telegram call; a crash is possible
between any two. `offset`, `lastSavedOffset`, `nextOffset` and `messages` are
the loop's locals, `stored` is the database row, `held` is the first update
Telegram has not been told to forget. `Forget` is what a process that ends
loses. `Silent` is the set of updates `normalizeMessage` and
`normalizeCallbackQuery` turn into nothing. `Handle` takes a handler that
returns: for a message that is the hand-over to the worker, not the run.

### `SessionBinding`

The row of one topic under its two writers. Each call of the store, the router
or a backend is one action; `copy`, `settings`, `use` and `result` are what a
goroutine has read and not yet used. The worker goes `Lookup`, `Settings`,
`Reread`, `Start` or `Resume`, `Save` (`executeUpdate`, then `createThread` or
`continueThread`). The poll goroutine runs the archive commands
(`ArchiveLookup` to `ArchiveThread`, and on to a new run for `/new` with a
prompt), `/provider` (`SwitchProvider`, `SwitchLookup`, `SwitchRow`) and topic
edits (`SyncLookup`, `Save`). A `Crash` empties the router's memory and the
locals. `Start` may be served by Gemini when Codex was asked
(`ProviderRouter.StartThread`). Sessions are numbered in order of creation; the
row keeps session, provider and whether `archived_at` is set. Title, workspace,
topic name and timestamps are left out. `Resume` keeps the session of the row:
the code adopts the one the backend answers with, which is the one it was asked
for.

The model lets the worker run at any time: how messages are queued is
`TopicWorker`'s subject, and the two agree on the interface, which is that the
worker runs one `executeUpdate` at a time.

### `AppServerSession` and `RpcCalls`

One session of the app-server: a child process, a web socket, and three
goroutines. `run` is `StartThread` or `ResumeThread`, called by a topic's
worker; `steer` is `SteerThread`, called by the poll goroutine; the reader is
`readLoop`.

| TLA+ | Code |
|---|---|
| `nextID`, `pending`, `replyCh`, `events` | the fields of `appServerSession`; a reply channel holds one reply |
| `reader` | `readLoop`: reading, past `failAllPending`, past `close(done)` |
| `pc`, `stage`, `rid` | where a goroutine is, which request the run is at, the number it waits for |
| `socket`, `wire`, `inbound` | the connection, requests and messages on it |
| `turn`, `sent`, `taken` | the agent's side (external) |
| `Open`, `Write`, `WriteFails`, `TakeReply`, `SeeDone`, `GiveUp` | `request`, one action per critical section and per branch of its `select` |
| `RunGets`, `SteerGets` | what each caller does with the outcome |
| `ReadReply`, `ReadNote`, `ReadFails`, `CloseDone` | `readLoop`, `failAllPending` |
| `Consume`, `WaitEnds` | `waitForTurnCompletion` |
| `Unregister`, `Close`, `Fallback` | the deferred calls of a run, then `FallbackClient` |

Where Go's `select` finds several branches ready the model takes any of them.
`Lose` ends the connection at any time and keeps any part of what was on it. A
write to a connection that is lost may still succeed until the reader has
noticed. Notifications are text deltas, the three ends of a turn (completed,
interrupted, failed; `app_server.go:759` takes all but the last for success),
and everything else, which only feeds the progress display. The texts themselves
are counted. After a turn that brought no delta the run asks for the thread, and
`LatestReply` is what it may find: `threadReadLatestReply` walks back over all
turns for the latest message with text, so it can be one of this turn's messages
or an older turn's reply (`older`). Left out: starting and dialing the process,
which ends as unavailable before a session exists; requests of the server, which
the reader refuses with a message and no other effect; the sessions of
`ArchiveThread` and `SettingsCatalog`, which make one request and close.

`RpcCalls` says what a session promises its callers: a call returns at most
once, with the answer the server gave to that very call, or with a failure of
the client's own making. `AppServerSession` implements it under
`called <- 1..nextID`.

### `TopicFiles` and `WakeLock`

The files of several topics of one title, whose workers and the poll goroutine
prepare messages at the same time.

| TLA+ | Code |
|---|---|
| `dirs`, `row` | the directories there are, `WorkspaceRoot` of each binding (0: no row) |
| `prepared` | `PreparedWorkspace` of a message |
| `pc`, `message`, `target` | of each goroutine: its place, the message and the directory of the preparation it is in |
| `files` | the files in the directories, half-written ones too |
| `changed` | what a comparison with the worker's snapshot would report |
| `collected`, `skipped` | `collectedArtifacts`, `collectedSkipped` of a job |
| `busy`, `jobs`, `followUps`, `batch`, `pollTurn` | as in `TopicWorker`, at the grain the files need |
| `made`, `named`, `byPoller`, `raced` | history only |
| `Nameable`, `Links` | `generatedArtifactsFromReply`: any file under the run's directory that the reply names |
| `Locate`, `MakeDir`, `Fetch`, `FetchBreaksOff` | `prepareIncomingUpdate`: `resolveTopicWorkspace`, `MkdirAll`, `DownloadFile` |
| `Snapshot`, `AgentWrites`, `ExecuteReturns`, `Collect`, `TakeFollowUps`, `Deliver` | `processQueuedMessage` and `executeUpdate` in their order |
| `Arrive`, `Steer`, `SteerFails` | `enqueueMessage` |
| `refCount`, `inhibitor`, `Acquire`, `Release` | `power.Manager`, held from `TakeJob` to the end of the job |

A directory is the number behind its name, a file its directory and the message
it came with (0 for the agent's). The module repeats the control of a topic
coarsely: a message can be a follow-up of a busy topic, steered into a turn, or
queued. What goes wrong in the lock and the trackers is `TopicWorker`'s
subject. A download that breaks off leaves a part of the file, whoever made it.
Left out: transcription, and sizes and kinds of files. `skipped` has the ones
over the limit on number; every file here is of a kind the bridge sends, while
the code drops other extensions without a word (`media.go:364-365`).

### `RunSettings`

The preferences of a topic, the catalogs they are judged by, and the settings a
run is started with. The catalog of Codex is asked for anew at each use, of the
app-server or of the cache file, and may differ each time: `Catalogs` is the set
of answers. `ModelCommand`, `ThinkCommand`, `SpeedCommand` and `ProviderCommand`
stand for the commands and for the buttons of a panel, which may be old.
`Resolve` and `StartRun` are two steps, between which the preferences can
change; `CrossOver` is the router starting Gemini in place of Codex.

### `PermissionMode`

`/permission` step by step: `os.WriteFile` truncates `.env` (`Truncate`) and
writes it (`WriteEnv`, `WriteEnvFails`), then each client is told
(`SetClient`), then the user (`Acknowledge`, `ReportFails`). `PermCrash` is
possible anywhere and changes nothing of what the user was told. A write that is
cut off leaves a prefix (`CutOff`): the bot token (`token`) and the line of the
mode (`envFile`) may each be in it, the latter being appended last when it is
new. What the process inherits (`environment`) is never replaced by the file.
`PermRestart` needs a token from either and gives every client `StartMode`:
the inherited mode, else the file's, else the default; without a token the
process stays down. Left out: the macOS application and `bridgectl`, which
also write `.env`.

### `CommandLineRun`

One run of `codex exec` or of Gemini: the child writes any sequence of lines to
two bounded pipes (`ChildWrites`), `run` scans stdout (`ScanLine`, `ScanFails`,
`ScanEnds`), a goroutine copies stderr (`CopyStderr`), and only then is the
process waited for (`AwaitCopy`, `Wait`). Lines are told apart by what
`consumeLine` does with them. The two clients share the module: Codex keeps the
last message or takes the file it named, Gemini appends.

### `LogRotation` and `TextSplit`

`LogRotation` makes each file system call of `rotateLocked` an action; any may
fail and the process may be restarted after any. A file is the sequence of the
numbers of its lines. Left out: a `Close` that fails, and a line of which only a
part reaches the file. `TextSplit` runs the loop of `SplitTextForTelegram` one
chunk per step over every text up to a length, made of ink, spaces and line
breaks, and then sends the chunks one call at a time. A message is a slice of
the text, the place where it begins and the place where it ends. Limit and
window are constants, counted in characters (the code: 4000 and 500, in runes).

### `MCBridgeParts`

The six parts above share no state with each other. One run explores them side
by side: a behaviour picks its part at the start and keeps it. The specification
is the disjunction of theirs, so an invariant of a part is checked in all of
that part's states.

## 3. The runs

| Run | Question | Result |
|---|---|---|
| `topic_worker` | four messages, all interleavings | all hold; refines `SerialTopic` |
| `update_poller` | five updates, answers of two, updates 2 and 3 silent, three faults | all hold |
| `session_binding` | three sessions, default provider Codex | all hold |
| `stranded_follow_up` | are queued follow-ups always processed later? | no |
| `typing_leak` | is typing shown only while processing? | no |
| `offset_retry` | is a failed save retried by the next loop? | no |
| `archive_undone` | does a message after `/archive` start a fresh thread? | not if a run was on |
| `parallel_runs` | are all operations of a topic serialized? | not `/new` with a prompt |
| `app_server_session` | a turn of two deltas, one steered message, a process that may die | all hold; refines `RpcCalls` |
| `transport_noise` | does a failed connection always end as unavailable? | no |
| `bridge_parts` | files, settings, permission mode, command line, log and texts, side by side | all hold |
| `foreign_inbox` | is a steered file stored where the agent works? | not in a topic's first run |

**Topic worker.** `SingleFlight` gives `busy` exactly one owner.
`SendNeverBlocks` keeps the poll goroutine, which serves all topics, off a full
channel. `OwnedOnce` places each message once. `ArrivalOrder` keeps the order
in which merged prompts number messages. `TurnOfThisRun` makes the pair offered
for steering the current run's. `TypingWhileWorking` follows the tracker
through the exchanges of the two goroutines. `RunEnds` and `FollowUpsDrain` are
liveness: a run is given up, and what is queued while a run is on leaves the
queue.

**Update poller.** `NoUpdateSkipped` is about both memories of progress, the
row and Telegram's. `OncePerLife` and `RedeliveryBound` bound repetition: no
repetition without a restart, and at most one update per crash unless the last
save failed. `CursorMonotone` holds across restarts. `EveryUpdateHandled` is
the liveness property.

**Session binding.** `ProviderOwnsBinding` and `ArchiveReachesOwner` state what
`docs/architecture.md` says of restarts. `ResumedByOwner` has one exception,
which the code has: `/provider` between the two times a run reads the settings;
the backend then refuses the session and the user gets an error.
`SettledStaysArchived` says what archiving does guarantee: a session no run
held when it was archived is never live or resumed again.

**App-server session.** `ReaderNeverBlocks` keeps the one goroutine every call
depends on from blocking on a reply channel. `SteeredWasTaken` is what the topic
relies on when it drops a steered message from its queue. `ReplyComplete`
relates the result of a run to the turn the process ran: a success is a turn
that was completed or interrupted, and unless a delta was dropped its reply is
the turn's whole text, or an older turn's reply when the turn said nothing.
`ActiveIsOpen` is the order of the deferred calls. `RunReturns` and
`SteerReturns` are liveness; the first has the exception the code has, an end of
the turn that `readLoop` dropped for want of room.

**Files.** `GeneratedIsReturned` and `OwnAttachmentsStay` pull in opposite
directions: the snapshot must be young enough that no attachment of the batch is
in the difference, and what earlier runs of the job made must survive the later
snapshots. The first is about files of the kinds the bridge sends. The second
has two exceptions, both of the code's making: what the poll goroutine fetched
during a run, which the code cannot tell from the agent's work, and what a reply
of the job names, for `generatedArtifactsFromReply` takes any file under the
run's directory, `.telegram/inbox` included. `DirectoryPerTopic` excepts a name
that two goroutines chose before either had made the directory.
`AwakeWhileWorking` relates the inhibitor to the places of all workers.

**Settings.** `LaunchFitsProvider` says that whatever was chosen, for whichever
provider and by whichever catalog, what a backend is given is in the catalog the
run was resolved with. It speaks of runs as they were asked for: the one that
falls back from Codex to Gemini is given Codex's model, which the code does.

**Permission mode.** `ModesAgree` compares four places between two commands: the
file, every client, what the user was told, and the next life. Clients always
agree with each other, and their mode and that of the next life are in
`Expected`: the mode reported last or inherited, and, once a command was cut
short (a torn write, a crash before the report, a report that could not be
sent), also the mode it asked for or the default. As long as every command came
to its report and no mode is inherited, all four places are one.

**Command line.** `CliRunEnds` is the absence of the deadlock of two pipes: with
stderr read only after stdout, a child with much to say on stderr would block
for ever. `CliOutcome` says when a run is an error, what its reply is, and that
no child is left running.

**Log and texts.** `LogKeepsOrder` holds in the middle of a rotation too. A
failed rename of the loop is ignored by the code and is the one thing that makes
a hole, and even then nothing is out of order. A line is dropped only when
`MaxBackups` files are full behind it, unless a call failed or the process
died. `SplitKeepsText` says that the messages are pieces of the text in its
order, none overlapping the one before, each of a length Telegram takes and
with no white space at its ends, and that between them they hold every
character of ink; white space at a cut is dropped by design.

**Bounds.** `MaxMsgs = 4`: one message runs, one is in the poll goroutine's
hand, two wait and can be merged, which is the most that the code can tell apart
(a queue of two already has an order, a batch of two already has a last
message). `MaxUpdates = 5` with `Limit = 2` gives at least three answers, and
with `Silent = {2, 3}` one that ends in a silent update and one that holds
nothing else, past which only the end of the answer can move the cursor; three
faults allow a failed save followed by a crash and another one. `MaxSessions =
3`: one archived, one in a worker's copy and one in the row. In
`app_server_session` a turn has up to four notifications and the channel room
for two (`EventCap`), so that it overflows; `MaxAttempts = 2` has a first, a
repeated and a last attempt; one steered message is enough for its request to
race with the run's, and its two attempts for a late reply to meet another call.
In `bridge_parts`, two topics of one title and two names are enough for each
topic to have its own and for a third allocation to find none; three messages
let one run while a second is steered or queued and a third begins the other
topic's job (the first is to the topic `First`, which loses nothing, the topics
being alike); the second and third may have an attachment (`Media`), so that one
is fetched by either goroutine, before or during a run; one returned file per
run puts the second over the limit, and one file that goes back only because a
reply names it (`MaxNamed`) meets every snapshot and limit there is. Three
catalogs (both models, one, none) and a configured model that is not listed let
a stored model disappear between choice and run. Three `/permission` commands:
one whose write is cut off, one that repairs the file, one more, from every
state of the file and of the inherited environment; the clients are three, of
which one is told after its primary. Pipes of one line block a child that writes
two; three lines hold a session id, a message and one more of any kind, on
either pipe. Three backups have a first, a middle and a last one to shift;
eleven lines of two to a file fill all four files and rotate once more. Texts of
eight characters are cut twice at four with a window of two, so that each of the
four kinds of place is used, and so is the piece that is all white space. The
theorems below remove the bounds for safety where they exist. No symmetry is
used: messages, updates and sessions are ordered.

**Deadlock** is checked in every run but the last two, whose parts may stop by
design: all messages have arrived, the commands are used up, a process that
finds no token in what is left of `.env` and inherits none is not started again,
a log without a file accepts nothing
and its faults are used up. That a command-line run never stops half-way is
`CliRunEnds`. A topic whose messages have all arrived
and whose goroutines wait may stop: `Quiescent` says exactly when.

**Fairness.** `TopicWorker!FairSpec` is weakly fair to each goroutine, which the
Go scheduler gives, and so assumes that a call of the agent, of Telegram or of
the file system returns or fails. For the agent that is an assumption about an
external program: the bridge itself sets no limit on a turn. Users owe nothing:
`Begin` is not fair. `UpdatePoller!FairSpec` is weakly fair to the loop,
restart included, because the service runs with `Restart=always`
(`internal/service/service_linux.go:295`); faults are bounded, so an update
whose handler fails for ever is outside the assumption. `SessionBinding` states
safety only. `AppServerSession!FairSpec` is weakly fair to each goroutine and to
the process, which while it lives answers requests and ends its turn; it need
not live, and `Lose` and `Cancel` are not fair. Without that assumption a
process that hangs holds up its caller: `request` has no time limit.
`CliFairness` is weakly fair to the child, which writes what it has to write and
exits (unless a full pipe holds it up), to the goroutine in `run`, and to the
one that copies stderr. The other parts of `bridge_parts` state safety only.

## 4. Findings

1. **A follow-up can be stranded** (`stranded_follow_up`). `begin` says
   "follow-up" and `enqueueFollowUp` appends in a later critical section. The
   run can end in between (steering alone is retried for about two seconds).
   The message stays in `followUps` of an idle topic until another message
   starts a run. `README.md:30` and `docs/architecture.md:66` promise it is
   merged.
2. **A typing indicator can leak** (`typing_leak`). `begin` and
   `releasePending` set `active` to nil without closing it.
3. **A failed offset save is not retried** (`offset_retry`), against the
   comment at `bot.go:191`: the next iteration takes the cursor in memory for
   the saved one.
4. **An archive can be undone** (`archive_undone`): `continueThread` writes
   back the row it looked up before the run, against the comment at
   `async.go:265`.
5. **`/new` with a prompt is not serialized** (`parallel_runs`): it runs on the
   poll goroutine, beside the worker, against `docs/architecture.md:64`.
6. **A lost connection can reach the user as a transport error**
   (`transport_noise`). When the connection breaks before a request is written,
   `request` returns the write error as it is (`app_server.go:822`), and
   `FallbackClient` does not take it for unavailability, against the comment at
   `app_server.go:1040`.

7. **A steered file can be out of the agent's reach** (`foreign_inbox`). The
   row that names a topic's directory is saved when the first run returns. A
   file that comes during that run is prepared by the poll goroutine, which
   finds no row, takes another free name and stores the file in a second
   directory, against `docs/architecture.md:18` and `:77`. The path steered into
   the turn points there; the directory is not used again.

Accepted by the models and not reported as disagreements: a message whose
steering answer is lost runs twice; a message accepted into memory is lost with
the process, its cursor being saved at once; a topic edit can put back the
session of the row it looked up, over one the worker has saved since; an
attachment fetched during a run, or named by a reply, may come back as an
artifact; a turn that said nothing may be answered with an older turn's reply,
and an interrupted turn counts as a success; a `.env` cut off by a crash or a
full disk keeps the process from starting when the token is lost with it, and
makes it start with the default mode when only the line of the mode is; a mode
whose report could not be sent stays set; a message steered into a turn whose
app-server dies is not in the prompt the command line runs again.

## 5. What is proved

Every theorem is for all values of the constants that meet the module's named
assumption (naturals; `Limit` at least 1; `DefaultProvider` a provider).

**`TopicWorkerProofs`.** Five inductive invariants, each resting on the ones
before it.
- `TypeCorrect`: `TypeOK` is inductive by itself.
- `Owner`: `busy` is set exactly in the three places a run can be owned from,
  and these exclude each other. The property `SingleFlight` is this fact and
  `SendNeverBlocks` follows. What it needs beyond the property is the length of
  the channel.
- `TrackerInv`: which tracker is whose, in each place of either goroutine.
  `TypingWhileWorking` alone is not inductive: it says nothing of the worker's
  local tracker between the two critical sections of `ensureActiveProgress`,
  nor that a tracker made by the poller is newer than any the worker holds.
- `Placement`: ascending sequences and where each message may be. `OwnedOnce`
  and `ArrivalOrder` need each other: that the message in hand is the newest is
  what keeps the sets apart when it is appended.
- `SteerInv`: a turn is live only while the worker waits for it, and only a
  non-empty pair is steered into. The refinement needs both, since `Absorb`
  takes a message into a run that is on. `TurnOfThisRun` is inductive by itself
  once the types are known.

`ImplementsSerialTopic` then shows each step of either goroutine to be a step
of `SerialTopic` or a stutter, action by action (`SerialStep`).

Two theorems carry what `RunEnds` and `FollowUpsDrain` need besides a fair
scheduler. `OwnerIsNeverStuck`, from `Owner`: while `busy` is set, whoever owns
the run has a step whose guard holds. `EveryStepLeavesLess`: each step of either
goroutine lowers `Left`, a natural number that weighs the messages still to
come, the one in the poll goroutine's hand, those waiting and the place of the
run. So neither goroutine goes round in a circle, whatever follow-ups do.

**`UpdatePollerProofs`.** `CursorInv` relates `offset`, `stored`, `held`,
`nextOffset` and the unhandled messages in each place of the loop. None of
`NoUpdateSkipped`, `OncePerLife`, `RedeliveryBound` and `CursorMonotone` is
inductive without it: that the row is safe rests on the offset in memory being
safe, which rests on messages being handled in order and on `nextOffset` not
being used before they are.

**`SessionBindingProofs`.** `OwnerInv` extends `ProviderOwnsBinding` to every
copy of the row in flight and to the router's memory: since any copy can be
written back, each must name the right backend. `SettleInv` does the same for
archived sessions: no goroutine's copy or result is a live row of a settled
session, but for the poller's copy of an archived one. `BindingNamesOwner`,
`ArchiveRouted`, `ResumeRouted` and `SettledForGood` follow.

**`AppServerSessionProofs`.** `RpcInv` follows a call's number through the map,
the socket, the agent, its channel and its caller. Neither `ReaderNeverBlocks`
nor the refinement is inductive without it: that a caller gets the answer to its
own request rests on numbers being new when taken (`Numbered`, `Fresh`), on one
request per number on the socket (`OnTheWire`, `Writing`), and on replies being
the server's at every stage (`FromServer`, `Delivered`). `SteerInv` adds what a
steer request carries; `SteeringIsTrue` needs both. `OpenInv`, about the places
a run has left, gives `LookupIsOpen`. The agent's side appears in these proofs
as arbitrary answers and notifications.

`ReplyIsWhole` is the theorem for `ReplyComplete`. `TurnInv`: a turn is started
by one request, which is on the socket at most once and before the turn runs.
`ReplyInv` adds that a notification of the turn's end names the way it ended,
that a thread/read is made only after a finished turn that brought the run no
text (`WhenRead`), so that the latest reply of the thread can stand for more
than this turn only if the turn said nothing or a delta was dropped, and that
what the run has read, what is queued for it and what is on the socket
add up to what the agent has sent, with nothing behind the end. To define the
sum would take a recursion over two sequences and an induction to use it, so
`Reckons` asks for two functions that give the text after each notification; a
step that takes or appends one shifts or extends a function.

The last part is what `RunReturns` and `SteerReturns` need besides fairness.
`CallInv` follows an awaited call from the map through the socket and the answer
to its channel; without its other half, that a call about to be written is in
the map (`InMap`), an answer could find nobody. `EndInv` does the same for the
end of the turn: a run waits only after its turn/start was accepted
(`TurnBegun`, which needs that a request says what the run is at, `AskedAsIs`),
and from then on the end is to come, on its way, or dropped (`EndKept`).
`NobodyWaitsInVain` states both. `RoomForMore` counts requests against the places
of the two goroutines, so `MaxRequests`, a bound of the model, never holds up
anyone (`RoomEnough`). `SessionIsNeverStuck` follows, with the guards written
out; the one exception is a run whose turn's end the reader had no room for. As
above, `EveryStepLeavesLess` gives a natural number that every step lowers, the
retries of steering and the loss of the connection included.

**`TopicFilesProofs`.** `AwakeInv`: the reference count is the number of workers
that are not idle, and the inhibitor is off exactly when it is zero.
`AwakeWhileWorking` is not inductive, since whether a release is the last one is
known from the count only. `OwnInv` says whose the messages are: what a topic
has in its batch, its queue or its job, and what its worker prepares, came to
that topic, and the message in the poll goroutine's hand is nowhere else.
`FileInv` rests on it: while a turn is on, what the agent has made is returned
already or still to be found; what has changed since the snapshot is not
the topic's own attachment, unless the poll goroutine fetched it; and what was
collected without having changed was named by a reply of this job.
`GeneratedAlwaysReturned` and
`OwnAttachmentsAlwaysStay` follow for any number of topics of any number of
messages, directories and returned files.

`DirInv` follows a directory from the moment its name is chosen: through the
goroutine that prepares a message, to the message, and to the row.
`DirectoryPerTopic` speaks of messages only and is not inductive: what keeps
topics apart is that everything a topic has is a directory that exists, since
only names that do not exist are chosen anew. `DirectoriesStayApart` follows.

`FilesTypeCorrect` needs an invariant as well, `KindInv`: that what an agent
writes lies in a directory there is rests on a turn beginning only with every
message of the batch prepared, and that a fetched file has a place rests on the
place having been chosen before. The queues and jobs have their types by
`OwnInv`, the count by `AwakeInv`.

**`SettingsProofs`.** `FitInv`: between the two steps of a run the settings fit
the catalog they were resolved with, which is one a provider may answer with. Of
the stored preferences it knows only that they are preferences, and that is the
point: they are checked at every use, so nothing rests on the check made when
they were chosen. `LaunchAlwaysFits` follows. `SetInv` adds that a run which is
resolved or launched has settings, and gives `SettingsTypeCorrect`: every name
in them is one that a catalog, the configuration or the user gave. It uses that
the first model of a list is in the list (`SettingsAssumption`), which
`readModelsCache` and the app-server's list have by construction.

`ModeInv` follows a `/permission` command through truncation, write and the
clients told so far; `ModesAgree` speaks of the time between commands only and
is not inductive without it. That a prefix of the file starts the next life with
an expected mode, whichever of its lines are left and whatever is inherited, is
`CutOffIsExpected`.

**`StreamProofs`.** Three things that pass through the bridge piece by piece.
- `CliInv`: the pipe holds what was written and not scanned, in order and behind
  all that was scanned (`PipeInv`), and the stream has made of the scanned part
  what `CliOutcome` asks of the whole. `CliOutcome` speaks of the end of a run
  only. `CliAlwaysTells` follows. Two more theorems carry the safety half of
  `CliRunEnds`: `CliIsNeverStuck` (the guards are written out: while a run is on,
  the child, the run or the copier can move) and `CliGetsCloser` (each of their
  steps lowers `CliLeft`, a natural number). That a fair scheduler then brings
  the run to its end is left to TLC.
- `LogInv`: where a rotation stands. A backup is only moved to a number that is
  free, the open file is as long as `size` says, and the one that is moved is
  full; `Steady` says of a log without faults that every backup is full and that
  none is there without the newer ones. `LogKeepsOrder` is the conjunct of it
  that a rename could break, and is not inductive: that nothing is overwritten
  is known only from the place of the loop. `LogAlwaysKeepsOrder` follows.
- `SplitInv`: `rest` begins and ends with ink, the chunks made so far hold the
  ink before it, and nothing is left once the pieces are sent.
  `SplitAlwaysKeepsText` follows for every text, limit and window. `Min` and
  `Max` of a set of places exist because a set of naturals has a least element
  and a bounded one a greatest (`LeastNumber`, `GreatestNumber`, from the
  library's well-foundedness of `<`). The proof also shows that the branch of
  `SplitTextForTelegram` for a chunk of white space only is never taken: the
  text is trimmed before each cut.

**`BridgePartsProofs`.** `PartsSpec`, the specification that `bridge_parts`
explores, implies the specification of each part (`PartsBehave`), so
`PartsTypesHold` and `PartsKeepTheirPromises` state all ten invariants of that run
for every value of the constants.

**Only model-checked.** `RunEnds`, `FollowUpsDrain`, `EveryUpdateHandled`,
`RunReturns`, `SteerReturns` and `CliRunEnds`: liveness under fairness is out of
the proof system's reach. For all of these but `EveryUpdateHandled` the theorems
above prove the part without fairness: that something can always go on, and that
all steps together are finitely many. That a goroutine which can go on is
scheduled, and that the guards written out are those of the actions (ENABLED),
is left to TLC. Every other property of a passing run, safety, action or
refinement, is stated by a theorem. The modules avoid definitions by recursion, of
which nothing could be proved for every input: the text of a reply is handled
by the functions of `Reckons`, order and completeness of logs and messages by
quantifiers over places.

## 6. Not modelled

Within the modelled parts: shutdown by cancelled context (the process ends, and
a restart begins from the stored state as after a crash); the contents of
prompts, replies, stats and media; the title and timestamps of a row; retries
inside one store or Telegram call; several chats in one process (each has its
own worker, binding and locks; they share the poll goroutine); a copy of stderr
that fails and a grandchild that keeps a pipe open after its parent was killed
(`CommandLineRun` lets both end with the child); the restart of the process in
`TopicFiles` (the directories and rows stay, the job is lost as in
`UpdatePoller`); files of kinds the bridge does not send; a log's `Close` that
fails and lines of which a part is written; other writers of `.env` than
`/permission`.

Components left out, and why, are listed in `PROJECT.json`. Read-only commands,
health checks, the status bar app and the release scripts have no state whose
steps could interfere. The language preference is one value per topic with one
writer. Bootstrap, the installation of the service and of the speech model are
sequences of external calls made before the bridge serves anyone.

## 7. Plan

Built: 1. `TopicWorker`, `SerialTopic`; 2. `UpdatePoller`; 3. `SessionBinding`;
4. `AppServerSession`, `RpcCalls`; 5. `TopicFiles`, `WakeLock`; 6.
`RunSettings`, `PermissionMode`; 7. `CommandLineRun`, `LogRotation`,
`TextSplit`; proofs for 1 to 7 and for `MCBridgeParts`.

What would add most from here:

8. A composition of the poller with topics and crashes: at-most-once execution
   of an update, and what exactly a crash loses.
9. The `SettingsCatalog` and archive sessions of the app-server, which make one
   request each.
