------------------------------ MODULE TopicWorker ------------------------------
(***************************************************************************)
(* One chat topic of the bridge (internal/app/async.go, progress.go).      *)
(*                                                                         *)
(* Two goroutines share a topicWorker under its mutex: the Telegram poll   *)
(* goroutine (enqueueMessage) hands messages over, and the topic's own     *)
(* goroutine (runWorker / processQueuedMessage) runs them one batch at a   *)
(* time against the coding agent.  While a run is on, a new message is     *)
(* steered into the live app-server turn when there is one, and appended   *)
(* to followUps otherwise.  Every critical section of topicWorker.mu and   *)
(* every call that leaves the process is one action.                       *)
(*                                                                         *)
(* A message is its number in arrival order.  A turn is named by the last  *)
(* message of the batch it runs, 0 being "no turn".                        *)
(***************************************************************************)
EXTENDS Naturals, Sequences

CONSTANT MaxMsgs          \* bound: messages that reach the topic

ASSUME MaxMsgsAssumption == MaxMsgs \in Nat

Msgs == 1..MaxMsgs

(* A progressTracker (one typing indicator): its message and the goroutine *)
(* that created it.                                                        *)
Trackers == Msgs \X {"poller", "worker"}
NoTracker == <<0, "none">>

VARIABLES
  \* ---- topicWorker, guarded by its mutex, and its channel
  busy,        \* a run is owned by somebody
  jobs,        \* the channel of capacity 1
  followUps,   \* messages to be merged into the next run
  active,      \* the tracker replies and failures go to
  activeTurn,  \* the (session, turn) pair follow-ups are steered into
  \* ---- the poll goroutine inside enqueueMessage
  arrived,     \* messages received; the last one is the one in hand
  pPc, pTurn,
  \* ---- the worker goroutine inside processQueuedMessage
  wPc,
  batch,       \* messages merged into the current run
  wTracker,    \* the local variable progress
  \* ---- outside the topicWorker
  typing,      \* trackers whose typingLoop is running
  liveTurn,    \* the turn the app-server would accept steering for
  \* ---- history
  steered,     \* messages a turn accepted
  finished     \* messages whose run or resend notice is over

workerState == <<busy, jobs, followUps, active, activeTurn>>
pollerVars  == <<arrived, pPc, pTurn>>
runVars     == <<wPc, batch, wTracker>>
vars == <<busy, jobs, followUps, active, activeTurn, arrived, pPc, pTurn,
          wPc, batch, wTracker, typing, liveTurn, steered, finished>>

RangeOf(s) == {s[i] : i \in 1..Len(s)}

(* The last message of the current batch: the update of queuedMessage.     *)
Latest == batch[Len(batch)]

(* A run owned by the worker, up to the step that clears busy.             *)
Running == {"ensure", "ensureSet", "prepare", "exec", "turn", "cli", "clear",
            "take", "merge", "override", "failing", "release"}
WorkerPcs == Running \cup {"recv", "deliver", "finish"}
PollerPcs == {"idle", "send", "peek", "promote", "steer", "enqueue"}

Init ==
  /\ busy = FALSE
  /\ jobs = <<>>
  /\ followUps = <<>>
  /\ active = NoTracker
  /\ activeTurn = 0
  /\ arrived = 0
  /\ pPc = "idle"
  /\ pTurn = 0
  /\ wPc = "recv"
  /\ batch = <<>>
  /\ wTracker = NoTracker
  /\ typing = {}
  /\ liveTurn = 0
  /\ steered = {}
  /\ finished = {}

-----------------------------------------------------------------------------
(* The poll goroutine: enqueueMessage.                                     *)

(* Slip: the job is taken without looking at busy.                         *)
BeginUnguarded ==
  /\ pPc = "idle"
  /\ arrived < MaxMsgs
  /\ arrived' = arrived + 1
  /\ pPc' = "send"
  /\ busy' = TRUE
  /\ active' = NoTracker
  /\ UNCHANGED <<jobs, followUps, activeTurn, pTurn, runVars, typing,
                 liveTurn, steered, finished>>

(* begin: the message starts a run ...                                     *)
BeginRun ==
  /\ pPc = "idle"
  /\ arrived < MaxMsgs
  /\ ~busy
  /\ arrived' = arrived + 1
  /\ pPc' = "send"
  /\ busy' = TRUE
  /\ active' = NoTracker
  /\ UNCHANGED <<jobs, followUps, activeTurn, pTurn, runVars, typing,
                 liveTurn, steered, finished>>

(* ... or it is a follow-up of the run that is on.                         *)
BeginFollowUp ==
  /\ pPc = "idle"
  /\ arrived < MaxMsgs
  /\ busy
  /\ arrived' = arrived + 1
  /\ pPc' = "peek"
  /\ UNCHANGED <<workerState, pTurn, runVars, typing, liveTurn, steered,
                 finished>>

(* queue <- job on a channel of capacity 1.                                *)
Send ==
  /\ pPc = "send"
  /\ Len(jobs) < 1
  /\ jobs' = Append(jobs, arrived)
  /\ pPc' = "idle"
  /\ UNCHANGED <<busy, followUps, active, activeTurn, arrived, pTurn, runVars,
                 typing, liveTurn, steered, finished>>

(* activeTurn: the pair is read in its own critical section and used later.*)
PeekTurn ==
  /\ pPc = "peek"
  /\ pTurn' = activeTurn
  /\ pPc' = "promote"
  /\ UNCHANGED <<workerState, arrived, runVars, typing, liveTurn, steered,
                 finished>>

(* A new tracker takes over from the active one, whose typing stops        *)
(* (promoteFollowUp, then Handoff).                                        *)
Promote ==
  LET next == <<arrived, "poller">> IN
  /\ pPc = "promote"
  /\ active' = next
  /\ typing' = (typing \cup {next}) \ {active}
  /\ pPc' = IF pTurn # 0 THEN "steer" ELSE "enqueue"
  /\ UNCHANGED <<busy, jobs, followUps, activeTurn, arrived, pTurn, runVars,
                 liveTurn, steered, finished>>

(* turn/steer is accepted by the turn it names: the message is handed over.*)
SteerAccepted ==
  /\ pPc = "steer"
  /\ liveTurn = pTurn
  /\ steered' = steered \cup {arrived}
  /\ pPc' = "idle"
  /\ UNCHANGED <<workerState, arrived, pTurn, runVars, typing, liveTurn,
                 finished>>

(* No registered session, an error, or eight refusals; an accepted request *)
(* whose answer is lost with the connection is an error as well.           *)
SteerFailed ==
  /\ pPc = "steer"
  /\ \/ UNCHANGED steered
     \/ liveTurn = pTurn /\ steered' = steered \cup {arrived}
  /\ pPc' = "enqueue"
  /\ UNCHANGED <<workerState, arrived, pTurn, runVars, typing, liveTurn,
                 finished>>

(* Slip: the newest follow-up goes first.                                  *)
EnqueueInFront ==
  /\ pPc = "enqueue"
  /\ followUps' = <<arrived>> \o followUps
  /\ pPc' = "idle"
  /\ UNCHANGED <<busy, jobs, active, activeTurn, arrived, pTurn, runVars,
                 typing, liveTurn, steered, finished>>

EnqueueFollowUp ==
  /\ pPc = "enqueue"
  /\ followUps' = Append(followUps, arrived)
  /\ pPc' = "idle"
  /\ UNCHANGED <<busy, jobs, active, activeTurn, arrived, pTurn, runVars,
                 typing, liveTurn, steered, finished>>

-----------------------------------------------------------------------------
(* The worker goroutine: processQueuedMessage.                             *)

Receive ==
  /\ wPc = "recv"
  /\ jobs # <<>>
  /\ batch' = <<Head(jobs)>>
  /\ jobs' = Tail(jobs)
  /\ wPc' = "ensure"
  /\ UNCHANGED <<busy, followUps, active, activeTurn, pollerVars, wTracker,
                 typing, liveTurn, steered, finished>>

(* ensureActiveProgress, first critical section: a tracker promoted by the *)
(* poller is taken over, otherwise one is created outside the lock ...     *)
EnsureProgress ==
  /\ wPc = "ensure"
  /\ \/ /\ active # NoTracker
        /\ wTracker' = active
        /\ wPc' = "prepare"
        /\ UNCHANGED typing
     \/ /\ active = NoTracker
        /\ typing' = typing \cup {<<Latest, "worker">>}
        /\ wPc' = "ensureSet"
        /\ UNCHANGED wTracker
  /\ UNCHANGED <<workerState, pollerVars, batch, liveTurn, steered, finished>>

(* ... second critical section: and installed unless one appeared since.   *)
EnsureProgressSet ==
  LET mine == <<Latest, "worker">> IN
  /\ wPc = "ensureSet"
  /\ \/ /\ active = NoTracker
        /\ active' = mine
        /\ wTracker' = mine
        /\ UNCHANGED typing
     \/ /\ active # NoTracker
        /\ wTracker' = active
        /\ typing' = typing \ {mine}
        /\ UNCHANGED active
  /\ wPc' = "prepare"
  /\ UNCHANGED <<busy, jobs, followUps, activeTurn, pollerVars, batch,
                 liveTurn, steered, finished>>

(* prepareIncomingUpdate downloads media and may fail.                     *)
Prepare ==
  /\ wPc = "prepare"
  /\ wPc' \in {"exec", "failing"}
  /\ UNCHANGED <<workerState, pollerVars, batch, wTracker, typing, liveTurn,
                 steered, finished>>

(* executeUpdate, the agent's side.  An app-server turn starts and the     *)
(* stream handler records it ...                                           *)
TurnStarted ==
  /\ wPc = "exec"
  /\ liveTurn' = Latest
  /\ activeTurn' = Latest
  /\ wPc' = "turn"
  /\ UNCHANGED <<busy, jobs, followUps, active, pollerVars, batch, wTracker,
                 typing, steered, finished>>

(* ... or the command-line adapter runs the prompt, from the start or      *)
(* after the app-server was lost in the middle of a turn.                  *)
CliFallback ==
  /\ wPc \in {"exec", "turn"}
  /\ wPc' = "cli"
  /\ liveTurn' = 0
  /\ UNCHANGED <<workerState, pollerVars, batch, wTracker, typing, steered,
                 finished>>

ExecuteReturns ==
  /\ wPc \in {"turn", "cli"}
  /\ wPc' = "clear"
  /\ liveTurn' = 0
  /\ UNCHANGED <<workerState, pollerVars, batch, wTracker, typing, steered,
                 finished>>

ExecuteFails ==
  /\ wPc \in {"exec", "turn", "cli"}
  /\ wPc' = "failing"
  /\ liveTurn' = 0
  /\ UNCHANGED <<workerState, pollerVars, batch, wTracker, typing, steered,
                 finished>>

(* Slip: the finished turn's ids are left in place.                        *)
ClearForgotten ==
  /\ wPc = "clear"
  /\ wPc' = "take"
  /\ UNCHANGED <<workerState, pollerVars, batch, wTracker, typing, liveTurn,
                 steered, finished>>

ClearActiveTurn ==
  /\ wPc = "clear"
  /\ activeTurn' = 0
  /\ wPc' = "take"
  /\ UNCHANGED <<busy, jobs, followUps, active, pollerVars, batch, wTracker,
                 typing, liveTurn, steered, finished>>

(* Slips: follow-ups are taken without looking whether there are any, or   *)
(* copied without being removed.                                           *)
TakeAlways ==
  /\ wPc = "take"
  /\ finished' = finished \cup RangeOf(batch)
  /\ batch' = followUps
  /\ followUps' = <<>>
  /\ wPc' = "merge"
  /\ UNCHANGED <<busy, activeTurn, jobs, active, pollerVars, wTracker, typing,
                 liveTurn, steered>>

TakeKeepsFollowUps ==
  /\ wPc = "take"
  /\ followUps # <<>>
  /\ finished' = finished \cup RangeOf(batch)
  /\ batch' = followUps
  /\ wPc' = "merge"
  /\ UNCHANGED <<busy, jobs, followUps, active, activeTurn, pollerVars, wTracker,
                 typing, liveTurn, steered>>

(* takeFollowUpsOrMarkIdle: the follow-ups become the next batch ...        *)
TakeFollowUps ==
  /\ wPc = "take"
  /\ followUps # <<>>
  /\ finished' = finished \cup RangeOf(batch)
  /\ batch' = followUps
  /\ followUps' = <<>>
  /\ wPc' = "merge"
  /\ UNCHANGED <<busy, jobs, active, activeTurn, pollerVars, wTracker, typing,
                 liveTurn, steered>>

(* ... or the run's ownership ends, before its reply is sent.              *)
MarkIdle ==
  /\ wPc = "take"
  /\ followUps = <<>>
  /\ busy' = FALSE
  /\ activeTurn' = 0
  /\ wPc' = "deliver"
  /\ UNCHANGED <<jobs, followUps, active, pollerVars, batch, wTracker, typing,
                 liveTurn, steered, finished>>

(* The follow-ups are prepared; then the active tracker is kept when it    *)
(* belongs to the last of them, and a new one is made otherwise.           *)
MergeFollowUps ==
  LET mine == <<Latest, "worker">> IN
  /\ wPc = "merge"
  /\ \/ /\ active # NoTracker /\ active[1] = Latest
        /\ wTracker' = active
        /\ wPc' = "prepare"
        /\ UNCHANGED typing
     \/ /\ active = NoTracker \/ active[1] # Latest
        /\ wTracker' = mine
        /\ typing' = typing \cup {mine}
        /\ wPc' = "override"
     \/ /\ wPc' = "failing"
        /\ UNCHANGED <<wTracker, typing>>
  /\ UNCHANGED <<workerState, pollerVars, batch, liveTurn, steered, finished>>

OverrideProgress ==
  /\ wPc = "override"
  /\ active' = wTracker
  /\ typing' = IF active = wTracker THEN typing ELSE typing \ {active}
  /\ wPc' = "prepare"
  /\ UNCHANGED <<busy, jobs, followUps, activeTurn, pollerVars, batch, wTracker,
                 liveTurn, steered, finished>>

(* The tracker a reply or a failure is sent to: activeProgress(), or the   *)
(* local one when there is none.                                           *)
Target == IF active # NoTracker THEN active ELSE wTracker

(* DeliverFinal, sendGeneratedArtifacts and Finish.                        *)
Deliver ==
  /\ wPc = "deliver"
  /\ wTracker' = Target
  /\ typing' = typing \ {Target}
  /\ finished' = finished \cup RangeOf(batch)
  /\ batch' = <<>>
  /\ wPc' = "finish"
  /\ UNCHANGED <<workerState, pollerVars, liveTurn, steered>>

(* Slip: the closed tracker stays installed.                               *)
FinishKeepsActive ==
  /\ wPc = "finish"
  /\ activeTurn' = 0
  /\ wTracker' = NoTracker
  /\ wPc' = "recv"
  /\ UNCHANGED <<busy, jobs, followUps, active, pollerVars, batch, typing,
                 liveTurn, steered, finished>>

FinishRun ==
  /\ wPc = "finish"
  /\ active' = IF active = wTracker THEN NoTracker ELSE active
  /\ activeTurn' = 0
  /\ wTracker' = NoTracker
  /\ wPc' = "recv"
  /\ UNCHANGED <<busy, jobs, followUps, pollerVars, batch, typing, liveTurn,
                 steered, finished>>

(* Slip: busy is cleared with the failure notice and again on release.     *)
FailClearsBusy ==
  /\ wPc = "failing"
  /\ busy' = FALSE
  /\ typing' = typing \ {Target}
  /\ wPc' = "release"
  /\ UNCHANGED <<jobs, followUps, active, activeTurn, pollerVars, batch,
                 wTracker, liveTurn, steered, finished>>

Fail ==
  /\ wPc = "failing"
  /\ typing' = typing \ {Target}
  /\ wPc' = "release"
  /\ UNCHANGED <<workerState, pollerVars, batch, wTracker, liveTurn, steered,
                 finished>>

(* Slips: the release forgets busy, or forgets the queue.                  *)
ReleaseKeepsBusy ==
  /\ wPc = "release"
  /\ active' = NoTracker
  /\ activeTurn' = 0
  /\ followUps' = <<>>
  /\ finished' = finished \cup RangeOf(batch) \cup RangeOf(followUps)
  /\ batch' = <<>>
  /\ wTracker' = NoTracker
  /\ wPc' = "recv"
  /\ UNCHANGED <<busy, jobs, pollerVars, typing, liveTurn, steered>>

ReleaseKeepsQueue ==
  /\ wPc = "release"
  /\ busy' = FALSE
  /\ active' = NoTracker
  /\ activeTurn' = 0
  /\ finished' = finished \cup RangeOf(batch)
  /\ batch' = <<>>
  /\ wTracker' = NoTracker
  /\ wPc' = "recv"
  /\ UNCHANGED <<jobs, followUps, pollerVars, typing, liveTurn, steered>>

(* releasePending, then a "please resend" notice for every message it      *)
(* returns (failPendingFollowUps).                                         *)
ReleasePending ==
  /\ wPc = "release"
  /\ busy' = FALSE
  /\ active' = NoTracker
  /\ activeTurn' = 0
  /\ followUps' = <<>>
  /\ finished' = finished \cup RangeOf(batch) \cup RangeOf(followUps)
  /\ batch' = <<>>
  /\ wTracker' = NoTracker
  /\ wPc' = "recv"
  /\ UNCHANGED <<jobs, pollerVars, typing, liveTurn, steered>>

-----------------------------------------------------------------------------
(* No message is left to arrive and both goroutines wait.                  *)
Quiescent ==
  /\ arrived = MaxMsgs
  /\ pPc = "idle"
  /\ wPc = "recv"
  /\ jobs = <<>>
  /\ UNCHANGED vars

PollerStep ==
  \/ Send \/ PeekTurn \/ Promote \/ SteerAccepted \/ SteerFailed
  \/ EnqueueFollowUp

WorkerStep ==
  \/ Receive \/ EnsureProgress \/ EnsureProgressSet \/ Prepare
  \/ TurnStarted \/ CliFallback \/ ExecuteReturns \/ ExecuteFails
  \/ ClearActiveTurn \/ TakeFollowUps \/ MarkIdle
  \/ MergeFollowUps \/ OverrideProgress
  \/ Deliver \/ FinishRun \/ Fail \/ ReleasePending

Begin == BeginRun \/ BeginFollowUp

Next == Begin \/ PollerStep \/ WorkerStep \/ Quiescent

Spec == Init /\ [][Next]_vars

(* Goroutines that can run are scheduled, and the agent answers or fails.  *)
(* Nothing makes a user send another message, so Begin is not fair.        *)
FairSpec == Spec /\ WF_vars(PollerStep) /\ WF_vars(WorkerStep)

-----------------------------------------------------------------------------
(* What one topic promises.                                                *)

(* Every variable ranges over what its Go type and its uses allow.         *)
TypeOK ==
  /\ busy \in BOOLEAN
  /\ jobs \in Seq(Msgs)
  /\ followUps \in Seq(Msgs)
  /\ active \in Trackers \cup {NoTracker}
  /\ activeTurn \in 0..MaxMsgs
  /\ arrived \in 0..MaxMsgs
  /\ pPc \in PollerPcs
  /\ pPc # "idle" => arrived # 0
  /\ pTurn \in 0..MaxMsgs
  /\ wPc \in WorkerPcs
  /\ batch \in Seq(Msgs)
  /\ wPc \in Running \cup {"deliver"} => batch # <<>>
  /\ wTracker \in Trackers \cup {NoTracker}
  /\ typing \subseteq Trackers
  /\ liveTurn \in 0..MaxMsgs
  /\ steered \subseteq Msgs
  /\ finished \subseteq Msgs

(* busy means exactly one owner: the poller about to send the job, the job *)
(* in the channel, or the worker before it gives the run up.  So one topic *)
(* never has two runs (architecture.md, "serialized"), although busy is    *)
(* cleared while the worker still has a reply to send.                     *)
SingleFlight ==
  /\ busy <=> pPc = "send" \/ jobs # <<>> \/ wPc \in Running
  /\ pPc = "send" => wPc \notin Running
  /\ jobs # <<>> => wPc \notin Running

(* The poll goroutine, which serves every topic, never blocks on the       *)
(* channel of a busy one, and never leaves a second job in it.             *)
SendNeverBlocks ==
  /\ pPc = "send" => jobs = <<>>
  /\ Len(jobs) <= 1

(* The messages the poll goroutine still holds, and those no run has taken.*)
InHand == IF pPc = "idle" THEN {} ELSE {arrived}
Waiting == InHand \cup RangeOf(jobs) \cup RangeOf(followUps)

(* A message that arrived is in one place and one place only: in hand, in  *)
(* the channel, in followUps, in the current batch, or finished -- or a    *)
(* turn accepted it.  Whatever the interleaving, none is run by two batches*)
(* and none vanishes.  (A message whose steering answer was lost is held   *)
(* by the turn and queued as well.)                                        *)
OwnedOnce ==
  /\ InHand \cap (RangeOf(jobs) \cup RangeOf(followUps)) = {}
  /\ RangeOf(jobs) \cap RangeOf(followUps) = {}
  /\ Waiting \cap RangeOf(batch) = {}
  /\ (Waiting \cup RangeOf(batch)) \cap finished = {}
  /\ Waiting \cup RangeOf(batch) \cup finished \cup steered = 1..arrived

(* Follow-ups keep the order the user sent them in, and the message in     *)
(* hand comes after all of them, so a merged prompt numbers them rightly.  *)
Ascending(s) == \A i, j \in 1..Len(s) : i < j => s[i] < s[j]
ArrivalOrder ==
  /\ Ascending(followUps)
  /\ Ascending(batch)
  /\ pPc # "idle" => \A i \in 1..Len(followUps) : followUps[i] < arrived

(* The (session, turn) pair offered for steering is the current batch's,   *)
(* and none is offered outside a run: a follow-up is never steered into an *)
(* earlier run's turn.                                                     *)
TurnOfThisRun ==
  activeTurn # 0 =>
    /\ wPc \in {"turn", "cli", "clear", "failing", "release"}
    /\ activeTurn = Latest

(* From the first preparation until the failure notice or the reply, the   *)
(* active tracker exists and its typing indicator is on, however trackers  *)
(* are swapped by the two goroutines (architecture.md:80).                 *)
Working == Running \ {"ensure", "ensureSet", "release"}
TypingWhileWorking == wPc \in Working => active \in typing

(* A run ends: whoever owns it gives it up.                                *)
RunEnds == busy ~> ~busy

(* A message queued while a run is on leaves the queue, merged into the    *)
(* next run or returned with a resend notice.                              *)
FollowUpsDrain ==
  \A m \in Msgs : (busy /\ m \in RangeOf(followUps)) ~> m \notin RangeOf(followUps)

(* Nothing is kept waiting by an idle topic.  Stated by README.md:30 and   *)
(* docs/architecture.md:66 ("queued and merged for later processing").     *)
Idle == pPc = "idle" /\ ~busy /\ wPc = "recv"
NoStrandedFollowUp == Idle => followUps = <<>>

(* An idle topic shows no typing indicator (docs/architecture.md:80,       *)
(* "typing indicators shown during processing").                           *)
SilentWhenIdle == Idle => typing = {}

(* The refinement mapping: what waits and what runs.  A message whose      *)
(* steering answer was lost still waits.                                   *)
RunningBatch == IF wPc \in Running THEN RangeOf(batch) ELSE {}
Serial == INSTANCE SerialTopic WITH waiting <- Waiting, running <- RunningBatch

(* Every step of the two goroutines is a step of the abstract topic: runs  *)
(* never overlap, and no message is run, absorbed or given back twice.     *)
SerialTopicSpec == Serial!Spec
=============================================================================
