--------------------------- MODULE TopicWorkerProofs ---------------------------
(***************************************************************************)
(* Proofs about TopicWorker, for every number of messages.                 *)
(***************************************************************************)
EXTENDS TopicWorker, TLAPS

USE MaxMsgsAssumption

(* What a sequence holds after the three operations the code performs on   *)
(* its slices and its channel.                                             *)
LEMMA RangeEmpty == RangeOf(<<>>) = {}
  BY DEF RangeOf

(* What a one-element sequence holds: the batch a job starts.              *)
LEMMA RangeOne ==
  ASSUME NEW e PROVE RangeOf(<<e>>) = {e}
<1>1. Len(<<e>>) = 1 /\ <<e>>[1] = e
  OBVIOUS
<1>. QED
  BY <1>1 DEF RangeOf

(* What enqueueFollowUp adds to followUps.                                 *)
LEMMA RangeAppend ==
  ASSUME NEW S, NEW s \in Seq(S), NEW e \in S
  PROVE  RangeOf(Append(s, e)) = RangeOf(s) \cup {e}
<1>1. Len(Append(s, e)) = Len(s) + 1 /\ Len(s) \in Nat
  OBVIOUS
<1>2. \A i \in 1..Len(s) : Append(s, e)[i] = s[i]
  OBVIOUS
<1>3. Append(s, e)[Len(s) + 1] = e
  OBVIOUS
<1>4. 1..(Len(s) + 1) = (1..Len(s)) \cup {Len(s) + 1}
  BY <1>1
<1>. QED
  BY <1>1, <1>2, <1>3, <1>4 DEF RangeOf

(* A queue of messages holds messages.                                     *)
LEMMA RangeOfSeq ==
  ASSUME NEW S, NEW s \in Seq(S)
  PROVE  RangeOf(s) \subseteq S
  BY DEF RangeOf

(* The types.  The batch is never empty while a message of it is needed,   *)
(* and the poller holds a message unless it is idle.                       *)
THEOREM TypeCorrect == Spec => []TypeOK
<1>1. Init => TypeOK
  <2> SUFFICES ASSUME Init PROVE TypeOK
    OBVIOUS
  <2>1. busy \in BOOLEAN
    BY DEF Init
  <2>. QED
    BY <2>1 DEF Init, TypeOK, PollerPcs, WorkerPcs, Running
<1>2. TypeOK /\ [Next]_vars => TypeOK'
  <2> SUFFICES ASSUME TypeOK, [Next]_vars PROVE TypeOK'
    OBVIOUS
  <2>1. busy' \in BOOLEAN
    <3>0. busy \in BOOLEAN
      BY DEF TypeOK
    <3>1. CASE UNCHANGED busy
      BY <3>0, <3>1
    <3>2. CASE Begin \/ MarkIdle \/ ReleasePending
      BY <3>0, <3>2 DEF Begin, BeginRun, BeginFollowUp, workerState, MarkIdle,
                        ReleasePending
    <3>3. PollerStep => UNCHANGED busy
      BY DEF PollerStep, workerState, Send, PeekTurn, Promote, SteerAccepted,
             SteerFailed, EnqueueFollowUp
    <3>4. WorkerStep => \/ UNCHANGED busy
                        \/ MarkIdle
                        \/ ReleasePending
      <4>1. CASE \/ Receive \/ EnsureProgress \/ EnsureProgressSet \/ Prepare
                 \/ TurnStarted \/ CliFallback \/ ExecuteReturns \/ TakeFollowUps
        BY <4>1 DEF workerState, Receive, EnsureProgress, EnsureProgressSet,
                    Prepare, TurnStarted, CliFallback, ExecuteReturns,
                    TakeFollowUps
      <4>2. CASE \/ ExecuteFails \/ ClearActiveTurn \/ MergeFollowUps
                 \/ OverrideProgress \/ Deliver \/ FinishRun \/ Fail
        BY <4>2 DEF workerState, ExecuteFails, ClearActiveTurn, MergeFollowUps,
                    OverrideProgress, Deliver, FinishRun, Fail
      <4>. QED
        BY <4>1, <4>2 DEF WorkerStep
    <3>5. Quiescent \/ UNCHANGED vars => UNCHANGED busy
      BY DEF Quiescent, vars
    <3>. QED
      BY <3>1, <3>2, <3>3, <3>4, <3>5 DEF Next
  <2>2. /\ pPc # "idle" => arrived \in Msgs /\ <<arrived, "poller">> \in Trackers
        /\ Latest \in Msgs => <<Latest, "worker">> \in Trackers
    BY DEF Trackers, TypeOK, Msgs
  <2>3. wPc \in Running \cup {"deliver"} => Latest \in Msgs
    BY DEF TypeOK, Latest
  <2> USE <2>1, <2>2, <2>3 DEF TypeOK, workerState, pollerVars, runVars, 
              PollerPcs, WorkerPcs, Running
  <2>4. CASE BeginRun
    BY <2>4 DEF BeginRun, Msgs
  <2>26. CASE BeginFollowUp
    BY <2>26 DEF BeginFollowUp, Msgs
  <2>5. CASE Send
    BY <2>5 DEF Send
  <2>6. CASE PeekTurn
    BY <2>6 DEF PeekTurn
  <2>7. CASE Promote
    BY <2>7 DEF Promote
  <2>8. CASE SteerAccepted \/ SteerFailed
    BY <2>8 DEF SteerAccepted, SteerFailed
  <2>9. CASE EnqueueFollowUp
    BY <2>9 DEF EnqueueFollowUp
  <2>10. CASE Receive
    BY <2>10 DEF Receive
  <2>11. CASE EnsureProgress
    BY <2>11 DEF EnsureProgress
  <2>12. CASE EnsureProgressSet
    BY <2>12 DEF EnsureProgressSet
  <2>13. CASE Prepare
    BY <2>13 DEF Prepare
  <2>14. CASE TurnStarted
    BY <2>14 DEF TurnStarted, Msgs
  <2>15. CASE CliFallback \/ ExecuteReturns
    BY <2>15 DEF CliFallback, ExecuteReturns
  <2>16. CASE ExecuteFails \/ ClearActiveTurn
    BY <2>16 DEF ExecuteFails, ClearActiveTurn
  <2>17. CASE TakeFollowUps
    BY <2>17, RangeOfSeq DEF TakeFollowUps
  <2>25. CASE MarkIdle
    BY <2>25 DEF MarkIdle
  <2>18. CASE MergeFollowUps
    BY <2>18 DEF MergeFollowUps
  <2>19. CASE OverrideProgress
    BY <2>19 DEF OverrideProgress
  <2>20. CASE Deliver
    BY <2>20, RangeOfSeq DEF Deliver, Target
  <2>21. CASE FinishRun
    BY <2>21 DEF FinishRun
  <2>22. CASE Fail
    BY <2>22 DEF Fail
  <2>23. CASE ReleasePending
    BY <2>23, RangeOfSeq DEF ReleasePending
  <2>24. CASE Quiescent \/ UNCHANGED vars
    BY <2>24 DEF Quiescent, vars
  <2>. QED
    BY <2>4, <2>5, <2>6, <2>7, <2>8, <2>9, <2>10, <2>11, <2>12, <2>13,
       <2>14, <2>15, <2>16, <2>17, <2>18, <2>19, <2>20, <2>21, <2>22, <2>23,
       <2>24, <2>25, <2>26
       DEF Next, Begin, PollerStep, WorkerStep
<1>. QED
  BY <1>1, <1>2, PTL DEF Spec

(* One owner per run, and a channel that always has room for it.           *)
Owner == SingleFlight /\ SendNeverBlocks

(* Every step of the two goroutines keeps busy in line with its owner.     *)
LEMMA OwnerStep == TypeOK /\ Owner /\ [Next]_vars => Owner'
<1> SUFFICES ASSUME TypeOK, Owner, [Next]_vars PROVE Owner'
  OBVIOUS
<1>1. /\ jobs \in Seq(Msgs)
      /\ pPc # "idle" => arrived \in Msgs
  BY DEF TypeOK, Msgs
<1> USE DEF Owner, SingleFlight, SendNeverBlocks, Running, workerState,
            pollerVars, runVars
<1>2. CASE BeginRun
  BY <1>1, <1>2 DEF BeginRun
<1>3. CASE BeginFollowUp
  BY <1>1, <1>3 DEF BeginFollowUp
<1>4. CASE Send
  <2>1. jobs' = Append(jobs, arrived) /\ jobs = <<>> /\ arrived \in Msgs
    BY <1>1, <1>4 DEF Send
  <2>2. Len(jobs') = 1
    BY <1>1, <2>1
  <2>3. jobs' # <<>>
    BY <2>2
  <2>. QED
    BY <1>4, <2>2, <2>3 DEF Send
<1>5. CASE PeekTurn \/ Promote \/ SteerAccepted
  BY <1>1, <1>5 DEF PeekTurn, Promote, SteerAccepted
<1>6. CASE SteerFailed \/ EnqueueFollowUp
  BY <1>1, <1>6 DEF SteerFailed, EnqueueFollowUp
<1>7. CASE Receive
  <2>1. jobs' = <<>>
    BY <1>1, <1>7 DEF Receive
  <2>. QED
    BY <1>7, <2>1 DEF Receive
<1>8. CASE EnsureProgress \/ EnsureProgressSet \/ Prepare \/ TurnStarted
  BY <1>8 DEF EnsureProgress, EnsureProgressSet, Prepare, TurnStarted
<1>9. CASE CliFallback \/ ExecuteReturns \/ ExecuteFails \/ ClearActiveTurn
  BY <1>9 DEF CliFallback, ExecuteReturns, ExecuteFails, ClearActiveTurn
<1>10. CASE TakeFollowUps
  BY <1>10 DEF TakeFollowUps
<1>11. CASE MarkIdle
  BY <1>11 DEF MarkIdle
<1>12. CASE MergeFollowUps \/ OverrideProgress
  BY <1>12 DEF MergeFollowUps, OverrideProgress
<1>13. CASE Deliver \/ FinishRun \/ Fail
  BY <1>13 DEF Deliver, FinishRun, Fail
<1>14. CASE ReleasePending
  BY <1>14 DEF ReleasePending
<1>15. CASE Quiescent \/ UNCHANGED vars
  BY <1>15 DEF Quiescent, vars
<1>. QED
  BY <1>2, <1>3, <1>4, <1>5, <1>6, <1>7, <1>8, <1>9, <1>10, <1>11, <1>12,
     <1>13, <1>14, <1>15 DEF Next, Begin, PollerStep, WorkerStep

(* busy has one owner, and a job in the channel is alone (begin,           *)
(* runWorker).                                                             *)
THEOREM OwnerCorrect == Spec => []Owner
<1>1. Init => Owner
  BY DEF Init, Owner, SingleFlight, SendNeverBlocks, Running
<1>. QED
  BY <1>1, TypeCorrect, OwnerStep, PTL DEF Spec

(* A topic never has two runs: busy has exactly one owner.                 *)
THEOREM SerializedRuns == Spec => []SingleFlight
  BY OwnerCorrect, PTL DEF Owner

(* The poll goroutine, shared by all topics, never blocks on the channel.  *)
THEOREM PollerNeverBlocks == Spec => []SendNeverBlocks
  BY OwnerCorrect, PTL DEF Owner

(* The trackers.  next of a promotion is new, a closed tracker is active   *)
(* only until the run that closed it lets go, and whoever holds the right  *)
(* to start a run finds no worker tracker installed.                       *)
Closing(t) == (wPc = "finish" /\ t = wTracker) \/ wPc = "release"

TrackerInv ==
  /\ \A t \in {active, wTracker} : t[2] = "poller" =>
       t[1] <= arrived /\ (pPc \in {"peek", "promote"} => t[1] < arrived)
  /\ active # NoTracker /\ active \notin typing => Closing(active)
  /\ wPc \in Working => active # NoTracker
  /\ \/ pPc = "send"
     \/ jobs # <<>>
     \/ wPc \in {"ensure", "ensureSet"}
     => active = NoTracker \/ active[2] = "poller"
  /\ wPc = "ensureSet" => <<Latest, "worker">> \in typing
  /\ wPc = "override" =>
       wTracker \in typing /\ wTracker[2] = "worker" /\ wTracker # active
  /\ wTracker = NoTracker <=> wPc \in {"recv", "ensure", "ensureSet"}

(* Every step keeps the active tracker typing while the worker works.      *)
LEMMA TrackerStep ==
  TypeOK /\ Owner /\ TrackerInv /\ [Next]_vars => TrackerInv'
<1> SUFFICES ASSUME TypeOK, Owner, TrackerInv, [Next]_vars PROVE TrackerInv'
  OBVIOUS
<1>1. /\ arrived \in Nat
      /\ jobs \in Seq(Msgs)
      /\ wPc \in WorkerPcs
      /\ \A t \in Trackers : /\ t[1] \in Nat /\ t # NoTracker
                             /\ t[2] \in {"poller", "worker"}
      /\ active \in Trackers \cup {NoTracker}
      /\ wTracker \in Trackers \cup {NoTracker}
      /\ NoTracker[2] # "poller"
  BY DEF TypeOK, Msgs, Trackers, NoTracker
<1>2. /\ pPc # "idle" => <<arrived, "poller">> \in Trackers
      /\ wPc \in Running => <<Latest, "worker">> \in Trackers
      /\ <<arrived, "poller">>[1] = arrived
      /\ <<arrived, "poller">>[2] = "poller"
      /\ <<Latest, "worker">>[2] = "worker"
  BY DEF TypeOK, Msgs, Trackers, Latest
<1>3. /\ busy <=> pPc = "send" \/ jobs # <<>> \/ wPc \in Running
      /\ pPc = "send" => wPc \notin Running
      /\ jobs # <<>> => wPc \notin Running
  BY DEF Owner, SingleFlight
<1> USE DEF TrackerInv, Closing, Working, Running, WorkerPcs
<1>4. CASE BeginRun
  BY <1>1, <1>3, <1>4 DEF BeginRun, runVars, Latest
<1>5. CASE BeginFollowUp
  BY <1>1, <1>3, <1>5 DEF BeginFollowUp, runVars, workerState, Latest
<1>6. CASE Send
  BY <1>1, <1>6 DEF Send, runVars, Latest
<1>7. CASE PeekTurn
  BY <1>1, <1>7 DEF PeekTurn, runVars, workerState, Latest
<1>8. CASE Promote
  BY <1>1, <1>2, <1>8 DEF Promote, runVars, Latest
<1>9. CASE SteerAccepted \/ SteerFailed
  BY <1>1, <1>9 DEF SteerAccepted, SteerFailed, runVars, workerState, Latest
<1>10. CASE EnqueueFollowUp
  BY <1>1, <1>10 DEF EnqueueFollowUp, runVars, Latest
<1>11. CASE Receive
  BY <1>1, <1>3, <1>11 DEF Receive, pollerVars
<1>12. CASE EnsureProgress
  BY <1>1, <1>2, <1>3, <1>12 DEF EnsureProgress, pollerVars, workerState, Latest
<1>13. CASE EnsureProgressSet
  BY <1>1, <1>2, <1>3, <1>13 DEF EnsureProgressSet, pollerVars, Latest
<1>14. CASE Prepare \/ CliFallback \/ ExecuteReturns \/ ExecuteFails
  BY <1>14 DEF Prepare, CliFallback, ExecuteReturns, ExecuteFails, pollerVars,
               workerState, Latest
<1>15. CASE TurnStarted \/ ClearActiveTurn \/ MarkIdle
  BY <1>15 DEF TurnStarted, ClearActiveTurn, MarkIdle, pollerVars, Latest
<1>16. CASE TakeFollowUps
  BY <1>16 DEF TakeFollowUps, pollerVars
<1>17. CASE MergeFollowUps
  BY <1>1, <1>2, <1>3, <1>17 DEF MergeFollowUps, pollerVars, workerState, Latest
<1>18. CASE OverrideProgress
  BY <1>1, <1>3, <1>18 DEF OverrideProgress, pollerVars, Latest
<1>19. CASE Deliver
  BY <1>1, <1>19 DEF Deliver, Target, pollerVars, workerState
<1>20. CASE FinishRun
  BY <1>1, <1>20 DEF FinishRun, pollerVars
<1>21. CASE Fail
  BY <1>1, <1>21 DEF Fail, pollerVars, workerState
<1>22. CASE ReleasePending
  BY <1>1, <1>22 DEF ReleasePending, pollerVars
<1>23. CASE Quiescent \/ UNCHANGED vars
  BY <1>23 DEF Quiescent, vars, Latest
<1>. QED
  BY <1>4, <1>5, <1>6, <1>7, <1>8, <1>9, <1>10, <1>11, <1>12, <1>13, <1>14,
     <1>15, <1>16, <1>17, <1>18, <1>19, <1>20, <1>21, <1>22, <1>23
     DEF Next, Begin, PollerStep, WorkerStep

(* The tracker invariant holds of every run of the two goroutines.         *)
THEOREM TrackersCorrect == Spec => []TrackerInv
<1>1. Init => TrackerInv
  BY DEF Init, TrackerInv, Closing, Working, Running, NoTracker
<1>. QED
  BY <1>1, TypeCorrect, OwnerCorrect, TrackerStep, PTL DEF Spec

(* Typing is shown while a run is worked on, whichever goroutine installed *)
(* the tracker last.                                                       *)
THEOREM TypingShown == Spec => []TypingWhileWorking
<1>1. TrackerInv => TypingWhileWorking
  BY DEF TrackerInv, TypingWhileWorking, Closing, Working, Running
<1>. QED
  BY <1>1, TrackersCorrect, PTL

(* The pair offered for steering names the turn of the current batch.      *)
THEOREM SteeringTargetsThisRun == Spec => []TurnOfThisRun
<1>1. Init => TurnOfThisRun
  BY DEF Init, TurnOfThisRun
<1>2. TypeOK /\ TurnOfThisRun /\ [Next]_vars => TurnOfThisRun'
  <2> SUFFICES ASSUME TypeOK, TurnOfThisRun, [Next]_vars PROVE TurnOfThisRun'
    OBVIOUS
  <2> USE DEF TurnOfThisRun, Latest, workerState, pollerVars, runVars
  <2>1. CASE Begin \/ PollerStep
    BY <2>1 DEF Begin, BeginRun, BeginFollowUp, PollerStep, Send, PeekTurn,
                Promote, SteerAccepted, SteerFailed, EnqueueFollowUp
  <2>2. CASE \/ Receive \/ EnsureProgress \/ EnsureProgressSet \/ Prepare
             \/ TurnStarted \/ CliFallback \/ ExecuteReturns \/ ExecuteFails
    BY <2>2 DEF Receive, EnsureProgress, EnsureProgressSet, Prepare,
                TurnStarted, CliFallback, ExecuteReturns, ExecuteFails
  <2>3. CASE \/ ClearActiveTurn \/ TakeFollowUps \/ MarkIdle
             \/ MergeFollowUps \/ OverrideProgress \/ Deliver \/ FinishRun
             \/ Fail \/ ReleasePending
    BY <2>3 DEF ClearActiveTurn, TakeFollowUps, MarkIdle, MergeFollowUps,
                OverrideProgress, Deliver, FinishRun, Fail, ReleasePending
  <2>4. CASE Quiescent \/ UNCHANGED vars
    BY <2>4 DEF Quiescent, vars
  <2>. QED
    BY <2>1, <2>2, <2>3, <2>4 DEF Next, WorkerStep
<1>. QED
  BY <1>1, <1>2, TypeCorrect, PTL DEF Spec

(* Where the messages are, and in which order.                             *)
Placement ==
  /\ OwnedOnce
  /\ ArrivalOrder
  /\ wPc \in {"recv", "finish"} => batch = <<>>

(* Every step moves messages between the places without copy or loss.      *)
LEMMA PlacementStep ==
  TypeOK /\ Owner /\ Placement /\ [Next]_vars => Placement'
<1> SUFFICES ASSUME TypeOK, Owner, Placement, [Next]_vars PROVE Placement'
  OBVIOUS
<1>1. /\ arrived \in Nat
      /\ jobs \in Seq(Msgs) /\ followUps \in Seq(Msgs) /\ batch \in Seq(Msgs)
      /\ pPc # "idle" => arrived \in Msgs
      /\ Len(followUps) \in Nat
  BY DEF TypeOK, Msgs
<1>2. /\ pPc = "send" => jobs = <<>>
      /\ Len(jobs) <= 1
  BY DEF Owner, SendNeverBlocks
<1> USE DEF Placement, OwnedOnce, ArrivalOrder, Waiting, InHand, workerState,
            pollerVars, runVars
<1>3. CASE BeginRun \/ BeginFollowUp
  <2>1. arrived + 1 \notin 1..arrived /\ 1..(arrived + 1) = (1..arrived) \cup {arrived + 1}
    BY <1>1
  <2>2. /\ arrived' = arrived + 1
        /\ pPc = "idle" /\ pPc' # "idle"
        /\ UNCHANGED <<jobs, followUps, batch, wPc, finished, steered>>
    BY <1>3 DEF BeginRun, BeginFollowUp
  <2>3. \A i \in 1..Len(followUps) : followUps[i] < arrived + 1
    <3>1. \A i \in 1..Len(followUps) : followUps[i] \in RangeOf(followUps)
      BY DEF RangeOf
    <3>2. RangeOf(followUps) \subseteq 1..arrived
      OBVIOUS
    <3>. QED
      BY <1>1, <3>1, <3>2
  <2>4. Ascending(followUps') /\ Ascending(batch')
    BY <2>2 DEF Ascending
  <2>. QED
    BY <2>1, <2>2, <2>3, <2>4
<1>4. CASE Send
  <2>1. jobs = <<>> /\ jobs' = <<arrived>> /\ pPc' = "idle" /\ pPc # "idle"
    BY <1>1, <1>2, <1>4 DEF Send
  <2>2. RangeOf(jobs) = {} /\ RangeOf(jobs') = {arrived}
    BY <2>1, RangeEmpty, RangeOne
  <2>3. UNCHANGED <<followUps, batch, wPc, arrived, finished, steered>>
    BY <1>4 DEF Send
  <2>. QED
    BY <2>1, <2>2, <2>3 DEF Ascending
<1>5. CASE EnqueueFollowUp
  <2>1. /\ followUps' = Append(followUps, arrived)
        /\ pPc # "idle" /\ pPc' = "idle"
        /\ UNCHANGED <<jobs, batch, wPc, arrived, finished, steered>>
    BY <1>5 DEF EnqueueFollowUp
  <2>2. RangeOf(followUps') = RangeOf(followUps) \cup {arrived}
    BY <1>1, <2>1, RangeAppend
  <2>3. Ascending(followUps')
    BY <1>1, <2>1 DEF Ascending, Msgs
  <2>. QED
    BY <2>1, <2>2, <2>3
<1>6. CASE SteerAccepted \/ SteerFailed
  <2>1. /\ UNCHANGED <<jobs, followUps, batch, wPc, arrived, finished>>
        /\ steered' = steered \/ steered' = steered \cup {arrived}
        /\ pPc # "idle"
        /\ pPc' = "idle" => steered' = steered \cup {arrived}
    BY <1>6 DEF SteerAccepted, SteerFailed
  <2>. QED
    BY <2>1
<1>7. CASE PeekTurn \/ Promote
  BY <1>7 DEF PeekTurn, Promote
<1>8. CASE Receive
  <2>1. jobs = <<Head(jobs)>> /\ jobs' = <<>> /\ batch' = <<Head(jobs)>>
    BY <1>1, <1>2, <1>8 DEF Receive
  <2>2. /\ RangeOf(jobs) = {Head(jobs)}
        /\ RangeOf(batch') = RangeOf(jobs)
        /\ RangeOf(jobs') = {}
    BY <2>1, RangeOne, RangeEmpty
  <2>3. batch = <<>>
    BY <1>8 DEF Receive
  <2>. QED
    BY <1>8, <2>1, <2>2, <2>3, RangeEmpty DEF Receive, Ascending
<1>9. CASE \/ EnsureProgress \/ EnsureProgressSet \/ Prepare \/ TurnStarted
           \/ CliFallback \/ ExecuteReturns \/ ExecuteFails
  BY <1>9 DEF EnsureProgress, EnsureProgressSet, Prepare, TurnStarted,
              CliFallback, ExecuteReturns, ExecuteFails
<1>10. CASE \/ ClearActiveTurn \/ MarkIdle \/ MergeFollowUps
            \/ OverrideProgress \/ FinishRun \/ Fail
  BY <1>10 DEF ClearActiveTurn, MarkIdle, MergeFollowUps, OverrideProgress,
               FinishRun, Fail
<1>11. CASE TakeFollowUps
  BY <1>11, RangeEmpty DEF TakeFollowUps, Ascending
<1>12. CASE Deliver
  BY <1>12, RangeEmpty DEF Deliver, Ascending
<1>13. CASE ReleasePending
  BY <1>13, RangeEmpty DEF ReleasePending, Ascending
<1>14. CASE Quiescent \/ UNCHANGED vars
  BY <1>14 DEF Quiescent, vars
<1>. QED
  BY <1>3, <1>4, <1>5, <1>6, <1>7, <1>8, <1>9, <1>10, <1>11, <1>12, <1>13,
     <1>14 DEF Next, Begin, PollerStep, WorkerStep

(* Places are disjoint, complete and in arrival order at all times.        *)
THEOREM PlacementCorrect == Spec => []Placement
<1>1. Init => Placement
  BY RangeEmpty DEF Init, Placement, OwnedOnce, ArrivalOrder, Waiting, InHand,
                    Ascending
<1>. QED
  BY <1>1, TypeCorrect, OwnerCorrect, PlacementStep, PTL DEF Spec

(* Every message that arrived has one owner: none is lost by the worker,   *)
(* none is run by two batches.                                             *)
THEOREM EveryMessageOwnedOnce == Spec => []OwnedOnce
  BY PlacementCorrect, PTL DEF Placement

(* Follow-ups are merged in the order they were sent.                      *)
THEOREM MergedInOrder == Spec => []ArrivalOrder
  BY PlacementCorrect, PTL DEF Placement

(* A turn is live only while the worker waits for it, and only a non-empty *)
(* pair is ever offered.                                                   *)
SteerInv ==
  /\ liveTurn # 0 => wPc = "turn"
  /\ pPc = "steer" => pTurn # 0

(* The pair a follow-up is steered into, and the turn that may accept it.  *)
LEMMA SteerCorrect == Spec => []SteerInv
<1>1. Init => SteerInv
  BY DEF Init, SteerInv
<1>2. SteerInv /\ [Next]_vars => SteerInv'
  <2> SUFFICES ASSUME SteerInv, [Next]_vars PROVE SteerInv'
    OBVIOUS
  <2> USE DEF SteerInv, pollerVars, runVars
  <2>1. CASE Begin \/ PollerStep
    BY <2>1 DEF Begin, BeginRun, BeginFollowUp, PollerStep, Send, PeekTurn,
                Promote, SteerAccepted, SteerFailed, EnqueueFollowUp
  <2>2. CASE \/ Receive \/ EnsureProgress \/ EnsureProgressSet \/ Prepare
             \/ TurnStarted \/ CliFallback \/ ExecuteReturns \/ ExecuteFails
    BY <2>2 DEF Receive, EnsureProgress, EnsureProgressSet, Prepare,
                TurnStarted, CliFallback, ExecuteReturns, ExecuteFails
  <2>3. CASE \/ ClearActiveTurn \/ TakeFollowUps \/ MarkIdle
             \/ MergeFollowUps \/ OverrideProgress \/ Deliver \/ FinishRun
             \/ Fail \/ ReleasePending
    BY <2>3 DEF ClearActiveTurn, TakeFollowUps, MarkIdle, MergeFollowUps,
                OverrideProgress, Deliver, FinishRun, Fail, ReleasePending
  <2>4. CASE Quiescent \/ UNCHANGED vars
    BY <2>4 DEF Quiescent, vars
  <2>. QED
    BY <2>1, <2>2, <2>3, <2>4 DEF Next, WorkerStep
<1>. QED
  BY <1>1, <1>2, PTL DEF Spec

(* Each step of the goroutines is a step of the abstract topic, or none.   *)
LEMMA SerialStep ==
  TypeOK /\ Owner /\ Placement /\ SteerInv /\ [Next]_vars
    => [Serial!Next]_(Serial!vars)
<1> SUFFICES ASSUME TypeOK, Owner, Placement, SteerInv, [Next]_vars
             PROVE  [Serial!Next]_(Serial!vars)
  OBVIOUS
<1>1. /\ jobs \in Seq(Msgs) /\ followUps \in Seq(Msgs) /\ batch \in Seq(Msgs)
      /\ pPc # "idle" => arrived \in Msgs
  BY DEF TypeOK, Msgs
<1>2. /\ InHand \cap (RangeOf(jobs) \cup RangeOf(followUps)) = {}
      /\ RangeOf(jobs) \cap RangeOf(followUps) = {}
  BY DEF Placement, OwnedOnce
<1>3. \A s \in Seq(Msgs) : s # <<>> => RangeOf(s) # {}
  <2> SUFFICES ASSUME NEW s \in Seq(Msgs), s # <<>> PROVE s[1] \in RangeOf(s)
    OBVIOUS
  <2>. QED
    BY DEF RangeOf
<1> USE DEF Waiting, RunningBatch, InHand, Running, workerState, pollerVars,
            runVars, Serial!vars
<1>4. CASE Begin
  <2>1. Serial!Arrive
    BY <1>4 DEF Begin, BeginRun, BeginFollowUp, Serial!Arrive
  <2>. QED
    BY <2>1 DEF Serial!Next
<1>5. CASE Send
  <2>1. jobs = <<>> /\ jobs' = <<arrived>>
    BY <1>1, <1>5 DEF Send, Owner, SendNeverBlocks
  <2>2. RangeOf(jobs) = {} /\ RangeOf(jobs') = {arrived}
    BY <2>1, RangeEmpty, RangeOne
  <2>. QED
    BY <1>5, <2>2 DEF Send
<1>6. CASE EnqueueFollowUp
  <2>1. RangeOf(followUps') = RangeOf(followUps) \cup {arrived}
    BY <1>1, <1>6, RangeAppend DEF EnqueueFollowUp
  <2>. QED
    BY <1>6, <2>1 DEF EnqueueFollowUp
<1>7. CASE PeekTurn \/ Promote \/ SteerFailed
  BY <1>7 DEF PeekTurn, Promote, SteerFailed
<1>8. CASE SteerAccepted
  <2>1. wPc = "turn" /\ batch # <<>>
    BY <1>8 DEF SteerAccepted, SteerInv, TypeOK
  <2>2. RunningBatch # {} /\ RunningBatch' = RunningBatch
    BY <1>1, <1>3, <1>8, <2>1 DEF SteerAccepted
  <2>3. arrived \in Waiting /\ Waiting' = Waiting \ {arrived} /\ arrived' = arrived
    BY <1>2, <1>8 DEF SteerAccepted
  <2>4. Serial!Absorb
    BY <2>2, <2>3 DEF Serial!Absorb
  <2>. QED
    BY <2>4 DEF Serial!Next
<1>9. CASE Receive
  <2> DEFINE B == RangeOf(jobs)
  <2>1. jobs' = <<>> /\ batch' = jobs
    BY <1>1, <1>9 DEF Receive, Owner, SendNeverBlocks
  <2>2. RunningBatch = {} /\ RunningBatch' = B
    BY <1>9, <2>1 DEF Receive
  <2>3. B \in (SUBSET Waiting) \ {{}}
    <3>1. B # {}
      BY <1>1, <1>3, <1>9 DEF Receive
    <3>. QED
      BY <3>1
  <2>4. Waiting' = Waiting \ B /\ arrived' = arrived
    BY <1>2, <1>9, <2>1, RangeEmpty DEF Receive
  <2>5. Serial!Start
    BY <2>2, <2>3, <2>4 DEF Serial!Start
  <2>. QED
    BY <2>5 DEF Serial!Next
<1>10. CASE \/ EnsureProgress \/ EnsureProgressSet \/ Prepare \/ TurnStarted
            \/ CliFallback \/ ExecuteReturns \/ ExecuteFails
  BY <1>10 DEF EnsureProgress, EnsureProgressSet, Prepare, TurnStarted,
               CliFallback, ExecuteReturns, ExecuteFails
<1>11. CASE \/ ClearActiveTurn \/ MergeFollowUps \/ OverrideProgress
            \/ Deliver \/ FinishRun \/ Fail
  BY <1>11 DEF ClearActiveTurn, MergeFollowUps, OverrideProgress, Deliver,
               FinishRun, Fail
<1>12. CASE TakeFollowUps
  <2> DEFINE B == RangeOf(followUps)
  <2>1. RunningBatch # {} /\ RunningBatch' = B
    <3>1. RangeOf(batch) # {} /\ wPc = "take"
      BY <1>1, <1>3, <1>12 DEF TakeFollowUps, TypeOK
    <3>. QED
      BY <1>12, <3>1 DEF TakeFollowUps
  <2>2. B \in (SUBSET Waiting) \ {{}}
    <3>1. B # {}
      BY <1>1, <1>3, <1>12 DEF TakeFollowUps
    <3>. QED
      BY <3>1
  <2>3. Waiting' = Waiting \ B /\ arrived' = arrived
    BY <1>2, <1>12, RangeEmpty DEF TakeFollowUps
  <2>4. Serial!Continue
    BY <2>1, <2>2, <2>3 DEF Serial!Continue
  <2>. QED
    BY <2>4 DEF Serial!Next
<1>13. CASE MarkIdle \/ ReleasePending
  <2> DEFINE R == IF wPc = "take" THEN {} ELSE RangeOf(followUps)
  <2>1. RunningBatch # {} /\ RunningBatch' = {}
    BY <1>1, <1>3, <1>13 DEF MarkIdle, ReleasePending, TypeOK
  <2>2. R \in SUBSET Waiting /\ Waiting' = Waiting \ R /\ arrived' = arrived
    BY <1>2, <1>13, RangeEmpty DEF MarkIdle, ReleasePending
  <2>3. Serial!End
    BY <2>1, <2>2 DEF Serial!End
  <2>. QED
    BY <2>3 DEF Serial!Next
<1>14. CASE Quiescent \/ UNCHANGED vars
  BY <1>14 DEF Quiescent, vars
<1>. QED
  BY <1>4, <1>5, <1>6, <1>7, <1>8, <1>9, <1>10, <1>11, <1>12, <1>13, <1>14
     DEF Next, PollerStep, WorkerStep

(* The topic worker implements the serial topic: runs do not overlap and a *)
(* message is run, absorbed or given back once.                            *)
THEOREM ImplementsSerialTopic == Spec => SerialTopicSpec
<1>1. Init => Serial!Init
  BY RangeEmpty DEF Init, Serial!Init, Waiting, InHand, RunningBatch, Running
<1>. QED
  BY <1>1, TypeCorrect, OwnerCorrect, PlacementCorrect, SteerCorrect, SerialStep,
     PTL DEF Spec, Serial!Spec, SerialTopicSpec

-----------------------------------------------------------------------------
(* Whoever owns a run can go on with it: the poll goroutine with the job   *)
(* in its hand finds room in the channel, and the worker waits for nobody  *)
(* while a run is on or a job is there.                                    *)
PollerCanMove == pPc # "idle" /\ (pPc = "send" => Len(jobs) < 1)
WorkerCanMove == wPc # "recv" \/ jobs # <<>>
OwnerCanMove ==
  /\ pPc # "idle" => PollerCanMove
  /\ busy => WorkerCanMove \/ (pPc = "send" /\ PollerCanMove)

THEOREM OwnerIsNeverStuck == Spec => []OwnerCanMove
<1>1. Len(<<>>) = 0
  OBVIOUS
<1>2. Owner => OwnerCanMove
  BY <1>1 DEF Owner, SingleFlight, SendNeverBlocks, OwnerCanMove, PollerCanMove,
              WorkerCanMove, Running
<1>. QED
  BY <1>2, OwnerCorrect, PTL

(* What is left to do for the messages that can still come: for each of    *)
(* them, for the one in the poll goroutine's hand, for each one waiting,   *)
(* and for the run that is on.                                             *)
HandLeft ==
  CASE pPc = "peek" -> 20 [] pPc = "promote" -> 19 [] pPc = "steer" -> 18
    [] pPc \in {"send", "enqueue"} -> 17 [] OTHER -> 0
RunLeft ==
  CASE wPc \in {"ensure", "merge"} -> 10 [] wPc \in {"ensureSet", "override"} -> 9
    [] wPc = "prepare" -> 8 [] wPc = "exec" -> 7 [] wPc = "turn" -> 6
    [] wPc = "cli" -> 5 [] wPc = "clear" -> 4 [] wPc = "take" -> 3
    [] wPc \in {"deliver", "failing"} -> 2 [] wPc \in {"finish", "release"} -> 1
    [] OTHER -> 0
Left == 21 * (MaxMsgs - arrived) + HandLeft + 16 * (Len(jobs) + Len(followUps)) + RunLeft

(* The two goroutines never go round in a circle: each step of either has  *)
(* less left behind it, whether follow-ups are steered, queued, merged     *)
(* into another batch or given back.  With OwnerCanMove this is why a run  *)
(* ends and a queue drains, however many messages there are.               *)
THEOREM EveryStepLeavesLess ==
  Spec => [][Left' \in Nat /\ Left' < Left]_vars
<1>1. ASSUME TypeOK, TypeOK', Next, ~(UNCHANGED vars)
      PROVE  Left' \in Nat /\ Left' < Left
  <2>1. /\ Len(jobs) \in Nat /\ Len(followUps) \in Nat
        /\ Len(jobs') \in Nat /\ Len(followUps') \in Nat
        /\ arrived \in 0..MaxMsgs /\ arrived' \in 0..MaxMsgs
    BY <1>1 DEF TypeOK
  <2>2. HandLeft' \in 0..20 /\ RunLeft' \in 0..10
    BY DEF HandLeft, RunLeft
  <2>3. PICK a, h, q, r : a = MaxMsgs - arrived /\ h = HandLeft /\ r = RunLeft
                          /\ q = Len(jobs) + Len(followUps)
    OBVIOUS
  <2>4. PICK b, i, p, s : b = MaxMsgs - arrived' /\ i = HandLeft' /\ s = RunLeft'
                          /\ p = Len(jobs') + Len(followUps')
    OBVIOUS
  <2>5. HandLeft \in 0..20 /\ RunLeft \in 0..10
    BY DEF HandLeft, RunLeft
  <2>6. /\ a \in Nat /\ b \in Nat /\ q \in Nat /\ p \in Nat
        /\ h \in 0..20 /\ i \in 0..20 /\ r \in 0..10 /\ s \in 0..10
        /\ Left = 21 * a + h + 16 * q + r /\ Left' = 21 * b + i + 16 * p + s
    <3>0. /\ \A x \in 0..MaxMsgs : MaxMsgs - x \in Nat
          /\ arrived \in 0..MaxMsgs /\ arrived' \in 0..MaxMsgs
      <4>1. \A x \in 0..MaxMsgs : MaxMsgs - x \in Nat
        OBVIOUS
      <4>. QED
        BY <2>1, <4>1, Zenon
    <3>1. a \in Nat /\ b \in Nat
      BY <3>0, <2>3, <2>4, Zenon
    <3>2. q \in Nat /\ p \in Nat
      BY <2>1, <2>3, <2>4
    <3>3. h \in 0..20 /\ i \in 0..20 /\ r \in 0..10 /\ s \in 0..10
      BY <2>2, <2>3, <2>4, <2>5
    <3>4. Left = 21 * a + h + 16 * q + r
      BY <2>3, Zenon DEF Left
    <3>5. Left' = 21 * b + i + 16 * p + s
      BY <2>4, Zenon DEF Left
    <3>. QED
      BY <3>1, <3>2, <3>3, <3>4, <3>5
  <2>7. CASE Begin
    <3>1. b = a - 1 /\ p = q /\ s = r /\ h = 0
      BY <2>1, <2>3, <2>4, <2>7
         DEF Begin, BeginRun, BeginFollowUp, HandLeft, RunLeft, workerState, runVars
    <3>. QED
      BY <2>6, <3>1
  <2>8. CASE Send \/ EnqueueFollowUp
    <3>1. b = a /\ s = r /\ h = 17 /\ i = 0
      BY <2>3, <2>4, <2>8 DEF Send, EnqueueFollowUp, HandLeft, RunLeft, runVars
    <3>2. jobs \in Seq(Msgs) /\ followUps \in Seq(Msgs)
      BY <1>1 DEF TypeOK
    <3>3. arrived \in Msgs
      BY <1>1, <2>8 DEF TypeOK, Msgs, Send, EnqueueFollowUp
    <3>4. /\ Len(Append(jobs, arrived)) = Len(jobs) + 1
          /\ Len(Append(followUps, arrived)) = Len(followUps) + 1
      BY <3>2, <3>3
    <3>5. ASSUME Send PROVE p = q + 1
      <4>1. Len(jobs') = Len(jobs) + 1 /\ Len(followUps') = Len(followUps)
        BY <3>4, <3>5 DEF Send
      <4>. QED
        BY <2>1, <2>3, <2>4, <4>1
    <3>6. ASSUME EnqueueFollowUp PROVE p = q + 1
      <4>1. Len(followUps') = Len(followUps) + 1 /\ Len(jobs') = Len(jobs)
        BY <3>4, <3>6 DEF EnqueueFollowUp
      <4>. QED
        BY <2>1, <2>3, <2>4, <4>1
    <3>7. p = q + 1
      BY <2>8, <3>5, <3>6
    <3>. QED
      BY <2>6, <3>1, <3>7
  <2>9. CASE PeekTurn \/ Promote \/ SteerAccepted \/ SteerFailed
    <3>1. b = a /\ s = r /\ p = q
      BY <2>3, <2>4, <2>9
         DEF PeekTurn, Promote, SteerAccepted, SteerFailed, RunLeft, workerState, runVars
    <3>2. i < h
      BY <2>3, <2>4, <2>9 DEF PeekTurn, Promote, SteerAccepted, SteerFailed, HandLeft
    <3>. QED
      BY <2>6, <3>1, <3>2
  <2>10. CASE Receive
    <3>1. b = a /\ i = h /\ r = 0 /\ s = 10
      BY <2>3, <2>4, <2>10 DEF Receive, HandLeft, RunLeft, pollerVars
    <3>2. jobs \in Seq(Msgs) /\ jobs # <<>> /\ jobs' = Tail(jobs) /\ followUps' = followUps
      BY <1>1, <2>10 DEF TypeOK, Receive
    <3>3. Len(jobs') = Len(jobs) - 1
      BY <3>2
    <3>4. p = q - 1
      BY <2>1, <2>3, <2>4, <3>2, <3>3
    <3>. QED
      BY <2>6, <3>1, <3>4
  <2>11. CASE TakeFollowUps
    <3>1. b = a /\ i = h /\ r = 3 /\ s = 10
      BY <2>3, <2>4, <2>11 DEF TakeFollowUps, HandLeft, RunLeft, pollerVars
    <3>2. /\ followUps \in Seq(Msgs) /\ followUps # <<>> /\ followUps' = <<>>
          /\ jobs' = jobs
      BY <1>1, <2>11 DEF TypeOK, TakeFollowUps
    <3>3. Len(followUps) >= 1 /\ Len(followUps') = 0
      BY <3>2
    <3>4. p <= q - 1
      BY <2>1, <2>3, <2>4, <3>2, <3>3
    <3>. QED
      BY <2>6, <3>1, <3>4
  <2>12. CASE ReleasePending
    <3>1. b = a /\ i = h /\ r = 1 /\ s = 0
      BY <2>3, <2>4, <2>12 DEF ReleasePending, HandLeft, RunLeft, pollerVars
    <3>2. Len(followUps') = 0 /\ jobs' = jobs
      BY <2>12 DEF ReleasePending
    <3>3. p <= q
      BY <2>1, <2>3, <2>4, <3>2
    <3>. QED
      BY <2>6, <3>1, <3>3
  <2>13. CASE \/ EnsureProgress \/ EnsureProgressSet \/ Prepare \/ TurnStarted
              \/ CliFallback \/ ExecuteReturns \/ ExecuteFails \/ ClearActiveTurn
    <3>1. b = a /\ i = h /\ p = q
      BY <2>3, <2>4, <2>13
         DEF EnsureProgress, EnsureProgressSet, Prepare, TurnStarted, CliFallback,
             ExecuteReturns, ExecuteFails, ClearActiveTurn, HandLeft, workerState, pollerVars
    <3>2. s < r
      BY <2>3, <2>4, <2>13
         DEF EnsureProgress, EnsureProgressSet, Prepare, TurnStarted, CliFallback,
             ExecuteReturns, ExecuteFails, ClearActiveTurn, RunLeft
    <3>. QED
      BY <2>6, <3>1, <3>2
  <2>14. CASE \/ MarkIdle \/ MergeFollowUps \/ OverrideProgress \/ Deliver
              \/ FinishRun \/ Fail
    <3>1. b = a /\ i = h /\ p = q
      BY <2>3, <2>4, <2>14
         DEF MarkIdle, MergeFollowUps, OverrideProgress, Deliver, FinishRun, Fail,
             HandLeft, workerState, pollerVars
    <3>2. s < r
      BY <2>3, <2>4, <2>14
         DEF MarkIdle, MergeFollowUps, OverrideProgress, Deliver, FinishRun, Fail, RunLeft
    <3>. QED
      BY <2>6, <3>1, <3>2
  <2>15. ~Quiescent
    BY <1>1 DEF Quiescent
  <2>. QED
    BY <1>1, <2>7, <2>8, <2>9, <2>10, <2>11, <2>12, <2>13, <2>14, <2>15
       DEF Next, PollerStep, WorkerStep
<1>2. TypeOK /\ TypeOK' /\ [Next]_vars => [Left' \in Nat /\ Left' < Left]_vars
  BY <1>1
<1>. QED
  BY <1>2, TypeCorrect, PTL DEF Spec
=============================================================================
