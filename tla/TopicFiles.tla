------------------------------- MODULE TopicFiles -------------------------------
(***************************************************************************)
(* The files of a topic: its directory, the attachments fetched into it,   *)
(* and the files an agent makes that go back to the chat                   *)
(* (internal/app/media.go, workspace.go, the file side of async.go;        *)
(* internal/telegram/bot.go: DownloadFile).                                *)
(*                                                                         *)
(* Topics of one title share a name: a directory is the number behind it.  *)
(* A topic has a worker, and one poll goroutine serves all topics; a       *)
(* message that comes during a turn is prepared by the poll goroutine and  *)
(* steered into it, or queued for the run that follows.  What the trackers *)
(* and the lock of a topic do is TopicWorker's subject, what becomes of    *)
(* the row of a topic besides its directory is SessionBinding's.           *)
(***************************************************************************)
EXTENDS WakeLock, Sequences, FiniteSets

CONSTANTS
  Topics,       \* topics of one title
  Poller,       \* the poll goroutine
  MaxMessages,  \* bound: messages that arrive
  Media,        \* bound: those that may carry an attachment, by their number
  MaxDirs,      \* names tried (the code: 1000)
  MaxReturned,  \* files one run sends back (the code: 8)
  MaxNamed      \* bound: files the replies of the jobs at work name

ASSUME FilesAssumption ==
  /\ Poller \notin Topics
  /\ IsFiniteSet(Topics)
  /\ MaxMessages \in Nat
  /\ MaxDirs \in Nat
  /\ MaxReturned \in Nat
  /\ MaxNamed \in Nat

Actors == Topics \cup {Poller}
Messages == 1..MaxMessages
Dirs == 1..MaxDirs
Output == 0                    \* what an agent makes; a message's attachment
Files == Dirs \X (0..MaxMessages)   \*   goes by the message's number

VARIABLES
  \* ---- the disk and the database
  dirs,        \* the directories there are
  files,       \* the files in them, those that are half written too
  row,         \* the directory in a topic's binding, 0 when there is none
  \* ---- the messages
  topicOf,
  toFetch,     \* messages whose attachment has not been fetched
  prepared,    \* PreparedWorkspace, 0 before
  \* ---- the goroutines
  pc, message, target,   \* of each: where it is, and what it prepares where
  batch,       \* the messages the worker's run is for
  busy, jobs, followUps,
  pollTurn,    \* the turn the poll goroutine has seen, by its batch
  changed,     \* files changed since the worker's snapshot
  collected, skipped,    \* artifacts to be sent, and to be named only
  \* ---- history
  made,        \* files the agent wrote for this job
  named,       \* files sent only because a reply of this job named them
  byPoller,    \* attachments the poll goroutine fetched, or began to
  raced        \* directories two actors chose before either made them

disk == <<dirs, files, row>>
mail == <<topicOf, toFetch>>
actors == <<pc, message, target>>
work == <<batch, changed, collected, skipped, made, named>>
queues == <<busy, jobs, followUps>>
notes == <<byPoller, raced>>
filesVars == <<lockVars, disk, mail, prepared, actors, work, queues, pollTurn, notes>>

FilesInit ==
  /\ WakeInit
  /\ dirs = {}
  /\ files = {}
  /\ row = [t \in Topics |-> 0]
  /\ topicOf = <<>> /\ toFetch = {}
  /\ prepared = [m \in Messages |-> 0]
  /\ pc = [a \in Actors |-> "idle"]
  /\ message = [a \in Actors |-> 0]
  /\ target = [a \in Actors |-> 0]
  /\ batch = [t \in Topics |-> <<>>]
  /\ busy = [t \in Topics |-> FALSE]
  /\ jobs = [t \in Topics |-> 0]
  /\ followUps = [t \in Topics |-> <<>>]
  /\ pollTurn = 0
  /\ changed = [t \in Topics |-> {}]
  /\ collected = [t \in Topics |-> {}]
  /\ skipped = [t \in Topics |-> {}]
  /\ made = [t \in Topics |-> {}]
  /\ named = [t \in Topics |-> {}]
  /\ byPoller = {} /\ raced = {}

Goto(a, l) == pc' = [pc EXCEPT ![a] = l]
Latest(t) == batch[t][Len(batch[t])]
RunDir(t) == prepared[Latest(t)]

(* A file is written: a worker whose directory it is in will find it       *)
(* changed, unless its snapshot comes after.                               *)
Watched(t) == IF pc[t] \in {"turn", "collect"} THEN RunDir(t) ELSE target[t]
Touched(f) ==
  [t \in Topics |-> IF f[1] = Watched(t) THEN changed[t] \cup {f} ELSE changed[t]]
Touch(f) ==
  /\ files' = files \cup {f}
  /\ changed' = Touched(f)

-----------------------------------------------------------------------------
(* ---- prepareIncomingUpdate, by a worker or by the poll goroutine        *)

(* uniqueWorkspacePath: the first name that is not there yet, if any.      *)
Free == Dirs \ dirs

(* Slip: the first name is taken whether it is there or not.               *)
FirstName == {1}

FirstFree == {d \in Free : \A e \in Free : d <= e}

(* What an actor is to prepare: the poll goroutine its message, a worker   *)
(* the first of its batch that the poll goroutine has not prepared before  *)
(* it failed to steer it.                                                  *)
Unprepared(t) == {i \in DOMAIN batch[t] : prepared[batch[t][i]] = 0}
ToPrepare(a) ==
  IF a = Poller THEN {m \in {message[a]} : pc[a] = "locate"}
  ELSE {batch[a][i] : i \in {k \in Unprepared(a) :
          pc[a] = "prepare" /\ \A j \in Unprepared(a) : k <= j}}
NoName(a) ==
  \E m \in ToPrepare(a) : row[topicOf[m]] = 0 /\ Free = {}

(* workspaceForUpdate, resolveTopicWorkspace: the directory of the row,    *)
(* or a new name.                                                          *)
Locate(a) ==
  /\ \E m \in ToPrepare(a) :
       LET r == row[topicOf[m]] IN
       \E d \in IF r # 0 THEN {r} ELSE FirstFree :
         /\ message' = [message EXCEPT ![a] = m]
         /\ target' = [target EXCEPT ![a] = d]
         /\ raced' = IF \E b \in Actors \ {a} : pc[b] = "mkdir" /\ target[b] = d
                     THEN raced \cup {d} ELSE raced
  /\ Goto(a, "mkdir")
  /\ UNCHANGED <<lockVars, disk, mail, prepared, work, queues, pollTurn, byPoller>>

(* The message of the actor is prepared, with this directory.              *)
Prepared(a) ==
  /\ prepared' = [prepared EXCEPT ![message[a]] = target[a]]
  /\ target' = [target EXCEPT ![a] = 0]
  /\ IF a = Poller THEN Goto(a, "steer") /\ UNCHANGED message
     ELSE Goto(a, "prepare") /\ message' = [message EXCEPT ![a] = 0]

(* MkdirAll, which does not mind a directory that is there.                *)
MakeDir(a) ==
  /\ pc[a] = "mkdir"
  /\ dirs' = dirs \cup {target[a]}
  /\ IF message[a] \in toFetch
     THEN Goto(a, "fetch") /\ UNCHANGED <<prepared, message, target>>
     ELSE Prepared(a)
  /\ UNCHANGED <<lockVars, files, row, mail, work, queues, pollTurn, notes>>

(* downloadIncomingMedia: into .telegram/inbox/<message> of the directory. *)
(* (A voice message is transcribed next to it; that it cannot be is logged.)*)
Fetch(a) ==
  LET m == message[a] IN
  /\ pc[a] = "fetch"
  /\ Touch(<<target[a], m>>)
  /\ byPoller' = IF a = Poller THEN byPoller \cup {m} ELSE byPoller
  /\ toFetch' = toFetch \ {m}
  /\ Prepared(a)
  /\ UNCHANGED <<lockVars, dirs, row, topicOf, batch, collected,
                 skipped, made, named, queues, pollTurn, raced>>

(* ---- the worker: processQueuedMessage and executeUpdate                 *)
Clear(t, seen) ==
  /\ changed' = [seen EXCEPT ![t] = {}]
  /\ collected' = [collected EXCEPT ![t] = {}]
  /\ skipped' = [skipped EXCEPT ![t] = {}]
  /\ made' = [made EXCEPT ![t] = {}]
  /\ named' = [named EXCEPT ![t] = {}]

TakeJob(t) ==
  /\ pc[t] = "idle"
  /\ jobs[t] # 0
  /\ Acquire
  /\ batch' = [batch EXCEPT ![t] = <<jobs[t]>>]
  /\ jobs' = [jobs EXCEPT ![t] = 0]
  /\ Goto(t, "prepare")
  /\ UNCHANGED <<disk, mail, prepared, message, target, changed, collected, skipped,
                 made, named, busy, followUps, pollTurn, notes>>

(* Slip: the workspace is compared with what it was before the job.        *)
SnapshotOnce(t) ==
  /\ pc[t] = "prepare"
  /\ Unprepared(t) = {}
  /\ Goto(t, "turn")
  /\ UNCHANGED <<lockVars, disk, mail, prepared, message, target, work, queues,
                 pollTurn, notes>>

(* snapshotWorkspaceFiles, after the batch is prepared; the agent starts.  *)
Snapshot(t) ==
  /\ pc[t] = "prepare"
  /\ Unprepared(t) = {}
  /\ changed' = [changed EXCEPT ![t] = {}]
  /\ Goto(t, "turn")
  /\ UNCHANGED <<lockVars, disk, mail, prepared, message, target, batch, collected,
                 skipped, made, named, queues, pollTurn, notes>>

AgentWrites(t) ==
  LET f == <<RunDir(t), Output>> IN
  /\ pc[t] = "turn"
  /\ f \notin changed[t]
  /\ Touch(f)
  /\ made' = [made EXCEPT ![t] = @ \cup {f}]
  /\ UNCHANGED <<lockVars, dirs, row, mail, prepared, actors, batch, collected,
                 skipped, named, queues, pollTurn, notes>>

(* createThread saves the directory of the run, continueThread leaves the  *)
(* one of the row.                                                         *)
ExecuteReturns(t) ==
  /\ pc[t] = "turn"
  /\ row' = [row EXCEPT ![t] = RunDir(t)] \/ (row[t] # 0 /\ UNCHANGED row)
  /\ Goto(t, "collect")
  /\ UNCHANGED <<lockVars, dirs, files, mail, prepared, message, target, work,
                 queues, pollTurn, notes>>

(* The order of the relative paths: the hidden directory of the            *)
(* attachments comes before the agent's file.                              *)
Before(f, g) == f[2] # Output /\ (g[2] = Output \/ f[2] < g[2])

(* detectGeneratedArtifacts.                                               *)
Found(t) == {f \in changed[t] : f[1] = RunDir(t)}
Artifacts(t) ==
  {f \in Found(t) : Cardinality({g \in Found(t) : Before(g, f)}) < MaxReturned}

(* generatedArtifactsFromReply: the files a reply can name are those under *)
(* the directory of the run, whoever wrote them and when; to name one that *)
(* is sent anyway changes nothing.                                         *)
Nameable(t) == {f \in files : f[1] = RunDir(t)} \ (collected[t] \cup Artifacts(t))
Links(t) ==
  {l \in SUBSET Nameable(t) :
     Cardinality(l \cup UNION {named[u] : u \in Topics}) <= MaxNamed}

(* Slip: the artifacts of the last run replace those collected before.     *)
CollectLast(t) ==
  /\ pc[t] = "collect"
  /\ \E links \in Links(t) :
       /\ collected' = [collected EXCEPT ![t] = Artifacts(t) \cup links]
       /\ named' = [named EXCEPT ![t] = @ \cup links]
  /\ skipped' = [skipped EXCEPT ![t] = Found(t) \ Artifacts(t)]
  /\ changed' = [changed EXCEPT ![t] = {}]
  /\ Goto(t, "take")
  /\ UNCHANGED <<lockVars, disk, mail, prepared, message, target, batch, made,
                 queues, pollTurn, notes>>

(* mergeGeneratedArtifacts, WithReply, mergeUniqueStrings: what the runs   *)
(* of one job made goes back together.                                     *)
Collect(t) ==
  /\ pc[t] = "collect"
  /\ \E links \in Links(t) :
       /\ collected' = [collected EXCEPT ![t] = @ \cup Artifacts(t) \cup links]
       /\ named' = [named EXCEPT ![t] = @ \cup links]
  /\ skipped' = [skipped EXCEPT ![t] = @ \cup (Found(t) \ Artifacts(t))]
  /\ changed' = [changed EXCEPT ![t] = {}]
  /\ Goto(t, "take")
  /\ UNCHANGED <<lockVars, disk, mail, prepared, message, target, batch, made,
                 queues, pollTurn, notes>>

(* takeFollowUpsOrMarkIdle.                                                *)
TakeFollowUps(t) ==
  /\ pc[t] = "take"
  /\ IF followUps[t] = <<>>
     THEN /\ busy' = [busy EXCEPT ![t] = FALSE]
          /\ Goto(t, "deliver")
          /\ UNCHANGED <<batch, followUps>>
     ELSE /\ batch' = [batch EXCEPT ![t] = followUps[t]]
          /\ followUps' = [followUps EXCEPT ![t] = <<>>]
          /\ Goto(t, "prepare")
          /\ UNCHANGED busy
  /\ UNCHANGED <<lockVars, disk, mail, prepared, message, target, changed, collected,
                 skipped, made, named, jobs, pollTurn, notes>>

WorkerRests(t, seen) ==
  /\ Release
  /\ Clear(t, seen)
  /\ batch' = [batch EXCEPT ![t] = <<>>]
  /\ message' = [message EXCEPT ![t] = 0]
  /\ target' = [target EXCEPT ![t] = 0]
  /\ Goto(t, "idle")

(* sendGeneratedArtifacts; a failed upload is logged.                      *)
Deliver(t) ==
  /\ pc[t] = "deliver"
  /\ WorkerRests(t, changed)
  /\ UNCHANGED <<disk, mail, prepared, queues, pollTurn, notes>>

(* No name is free, the download, the run, the save of the row or the      *)
(* second look at the workspace fails: the artifacts collected so far are  *)
(* dropped, and the follow-ups with them.  DownloadFile writes as it       *)
(* reads: what has come stays there when the rest does not.                *)
WorkerFails(t) ==
  /\ \/ NoName(t)
     \/ pc[t] \in {"mkdir", "fetch", "turn", "collect"}
  /\ busy' = [busy EXCEPT ![t] = FALSE]
  /\ followUps' = [followUps EXCEPT ![t] = <<>>]
  /\ \/ /\ WorkerRests(t, changed)
        /\ UNCHANGED files
     \/ LET f == <<target[t], message[t]>> IN
        /\ pc[t] = "fetch"
        /\ files' = files \cup {f}
        /\ WorkerRests(t, Touched(f))
  /\ UNCHANGED <<dirs, row, mail, prepared, jobs, pollTurn, notes>>

(* ---- the poll goroutine: enqueueMessage                                 *)

(* A message comes: it is the job of an idle topic, or a follow-up, which  *)
(* is queued unless there is a turn to steer it into; only one with media  *)
(* is prepared first.  (A command-line run has no turn to be seen.)        *)
Arrive(t) ==
  LET m == Len(topicOf) + 1 IN
  /\ pc[Poller] = "idle"
  /\ m <= MaxMessages
  /\ topicOf' = Append(topicOf, t)
  /\ toFetch' \in {toFetch, toFetch \cup ({m} \cap Media)}
  /\ \/ /\ ~busy[t]
        /\ busy' = [busy EXCEPT ![t] = TRUE]
        /\ jobs' = [jobs EXCEPT ![t] = m]
        /\ UNCHANGED <<pc, message, followUps, pollTurn>>
     \/ /\ busy[t]
        /\ followUps' = [followUps EXCEPT ![t] = Append(@, m)]
        /\ UNCHANGED <<pc, message, busy, jobs, pollTurn>>
     \/ /\ busy[t]
        /\ pc[t] = "turn"
        /\ m \in toFetch'
        /\ message' = [message EXCEPT ![Poller] = m]
        /\ pollTurn' = Latest(t)
        /\ Goto(Poller, "locate")
        /\ UNCHANGED queues
  /\ UNCHANGED <<lockVars, disk, prepared, target, work, notes>>

(* It cannot be prepared: its text is steered without the attachment.      *)
PrepareFails ==
  /\ \/ NoName(Poller)
     \/ pc[Poller] \in {"mkdir", "fetch"}
  /\ Goto(Poller, "steer")
  /\ target' = [target EXCEPT ![Poller] = 0]
  /\ UNCHANGED <<lockVars, disk, mail, prepared, message, work, queues, pollTurn,
                 notes>>

(* What has come of the attachment stays there, as for the worker.         *)
FetchBreaksOff ==
  /\ pc[Poller] = "fetch"
  /\ Touch(<<target[Poller], message[Poller]>>)
  /\ byPoller' = byPoller \cup {message[Poller]}
  /\ Goto(Poller, "steer")
  /\ target' = [target EXCEPT ![Poller] = 0]
  /\ UNCHANGED <<lockVars, dirs, row, mail, prepared, message, batch, collected,
                 skipped, made, named, queues, pollTurn, raced>>

PollerRests ==
  /\ message' = [message EXCEPT ![Poller] = 0]
  /\ target' = [target EXCEPT ![Poller] = 0]
  /\ Goto(Poller, "idle")
  /\ pollTurn' = 0

Steer ==
  LET m == message[Poller]
      t == topicOf[m]
  IN  /\ pc[Poller] = "steer"
      /\ pc[t] = "turn"
      /\ Latest(t) = pollTurn
      /\ PollerRests
      /\ UNCHANGED <<lockVars, disk, mail, prepared, work, queues, notes>>

(* The turn is over, or steering fails: the message is queued as it is,    *)
(* prepared or not.                                                        *)
SteerFails ==
  LET m == message[Poller]
      t == topicOf[m]
  IN  /\ pc[Poller] = "steer"
      /\ followUps' = [followUps EXCEPT ![t] = Append(@, m)]
      /\ PollerRests
      /\ UNCHANGED <<lockVars, disk, mail, prepared, work, busy, jobs, notes>>

FilesNext ==
  \/ \E a \in Actors : Locate(a) \/ MakeDir(a) \/ Fetch(a)
  \/ \E t \in Topics :
       \/ TakeJob(t) \/ Snapshot(t) \/ AgentWrites(t)
       \/ ExecuteReturns(t) \/ Collect(t) \/ TakeFollowUps(t) \/ Deliver(t)
       \/ WorkerFails(t) \/ Arrive(t)
  \/ PrepareFails \/ FetchBreaksOff \/ Steer \/ SteerFails

FilesSpec == FilesInit /\ [][FilesNext]_filesVars

-----------------------------------------------------------------------------
Places ==
  {"idle", "prepare", "locate", "mkdir", "fetch", "turn", "collect", "take",
   "deliver", "steer"}
FilesTypeOK ==
  /\ refCount \in Nat
  /\ inhibitor \in {"off", "on", "failed"}
  /\ dirs \in SUBSET Dirs
  /\ files \in SUBSET Files
  /\ row \in [Topics -> Dirs \cup {0}]
  /\ topicOf \in Seq(Topics) /\ Len(topicOf) <= MaxMessages
  /\ toFetch \in SUBSET DOMAIN topicOf
  /\ prepared \in [Messages -> Dirs \cup {0}]
  /\ pc \in [Actors -> Places]
  /\ message \in [Actors -> DOMAIN topicOf \cup {0}]
  /\ target \in [Actors -> Dirs \cup {0}]
  /\ batch \in [Topics -> Seq(DOMAIN topicOf)]
  /\ busy \in [Topics -> BOOLEAN]
  /\ jobs \in [Topics -> DOMAIN topicOf \cup {0}]
  /\ followUps \in [Topics -> Seq(DOMAIN topicOf)]
  /\ pollTurn \in DOMAIN topicOf \cup {0}
  /\ changed \in [Topics -> SUBSET Files]
  /\ collected \in [Topics -> SUBSET Files]
  /\ skipped \in [Topics -> SUBSET Files]
  /\ made \in [Topics -> SUBSET Files]
  /\ named \in [Topics -> SUBSET Files]
  /\ byPoller \in SUBSET DOMAIN topicOf
  /\ raced \in SUBSET Dirs

(* The machine is kept awake exactly while some topic's worker is at work: *)
(* the inhibitor is asked for before the first and given up after the last *)
(* of the runs that overlap, on every way a run ends.                      *)
AwakeWhileWorking == inhibitor = "off" <=> \A t \in Topics : pc[t] = "idle"

(* What an agent made in any of the runs of a job is sent with the reply,  *)
(* or named in it when it is too large or one too many: merging follow-ups *)
(* into further runs of the job loses no file.  The model's files are of   *)
(* the kinds the bridge sends; classifyGeneratedArtifact drops every other *)
(* (media.go:364-365) without a word.                                      *)
GeneratedIsReturned ==
  \A t \in Topics :
    pc[t] = "deliver" => made[t] \subseteq collected[t] \cup skipped[t]

(* A user's own attachment is not sent back as if the agent had made it:   *)
(* that it lies under the directory of the run is not enough, the snapshot *)
(* being taken after the downloads of each batch.  It does go back in two  *)
(* cases, both of the code's making: when the poll goroutine fetched it,   *)
(* or a part of it, during the run in order to steer it, so that it is     *)
(* newer than the snapshot; and when a reply of the job names it, as any   *)
(* file under that directory can be named (media.go:403-461).              *)
OwnAttachmentsStay ==
  \A t \in Topics : \A f \in collected[t] \cup skipped[t] :
    f[2] \in {m \in DOMAIN topicOf : topicOf[m] = t} =>
      f[2] \in byPoller \/ f \in named[t]

(* Topics do not share a directory, even when they have one title: what is *)
(* prepared for one is never in the other's.  (Except when two goroutines  *)
(* chose one name before either had made the directory.)                   *)
DirectoryPerTopic ==
  \A m, k \in DOMAIN topicOf :
    topicOf[m] # topicOf[k] /\ prepared[m] = prepared[k] =>
      prepared[m] \in raced \cup {0}

(* architecture.md:18 and 77: a topic has one directory, and an incoming   *)
(* file is stored in it, where the agent that is told of it works.         *)
SteeredFilesInRunDirectory ==
  [][Steer /\ message[Poller] \in byPoller =>
       prepared[message[Poller]] = RunDir(topicOf[message[Poller]])]_filesVars
=============================================================================
