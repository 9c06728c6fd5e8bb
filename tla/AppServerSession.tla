---------------------------- MODULE AppServerSession ----------------------------
(***************************************************************************)
(* One app-server session: the child process that runs a turn of the agent *)
(* and the web socket the bridge talks JSON-RPC over                       *)
(* (internal/codex/app_server.go, and FallbackClient of adapter.go).       *)
(*                                                                         *)
(* Three goroutines share a session: "run" is StartThread or ResumeThread, *)
(* called by a topic's worker; "steer" is SteerThread, called by the poll  *)
(* goroutine; the reader is readLoop.  Locks cover single steps; channels  *)
(* are what the goroutines wait on.  The process may die at any time and   *)
(* its last messages may be lost.                                          *)
(***************************************************************************)
EXTENDS Naturals, Sequences

CONSTANTS
  EventCap,      \* capacity of the events channel (128)
  MaxAttempts,   \* turn/steer is tried so often (8)
  MaxDeltas,     \* bound: agentMessage deltas of the turn
  MaxSteers      \* bound: messages steered into the turn

ASSUME SessionAssumption ==
  /\ EventCap \in Nat
  /\ MaxAttempts \in Nat \ {0}
  /\ MaxDeltas \in Nat
  /\ MaxSteers \in Nat

(* initialize, thread/start or thread/resume, turn/start and thread/read,  *)
(* and turn/steer for each attempt of each message.                        *)
MaxRequests == 4 + MaxSteers * MaxAttempts
Ids == 1..MaxRequests

Goroutines == {"run", "steer"}
Stages == {"initialize", "thread", "turn", "read"}
Pcs == {"idle", "open", "write", "await", "notify", "wait", "unregister",
        "close", "fallback", "returned"}

(* Answers of the server, errors of the client, and notifications; "status"*)
(* stands for those that only feed the progress display.  A turn ends in   *)
(* one of three ways; the bridge takes all but "failed" for success.       *)
Answers == {"ok", "error", "noturn"}
Failures == {"unavailable", "write", "cancelled"}
Ends == {"completed", "interrupted", "failed"}
Finished == Ends \ {"failed"}
Notes == {"status", "delta", "completed", "interrupted", "failed"}

(* A request on the socket, and a message of the process; a notification   *)
(* has no id.                                                              *)
Requests == [id : Ids, method : Stages \cup {"steer"}, message : 0..MaxSteers]
Messages == [id : Ids, says : Answers] \cup [id : {0}, says : Notes]

VARIABLES
  \* ---- the process and the socket
  socket,      \* "up", "lost" or "closed" (by Close)
  wire,        \* requests on their way to the process
  inbound,     \* messages on their way to the bridge
  turn,        \* the turn as the process sees it
  sent,        \* deltas it has produced
  taken,       \* steered messages it has taken in
  \* ---- appServerSession
  nextID,
  pending,     \* keys of the map of waiting requests
  replyCh,     \* their channels, of capacity 1
  events,      \* the channel of notifications
  reader,      \* readLoop: "reading", "failed" (failAllPending), "ended" (done)
  text,        \* the reply so far, as a number of this turn's deltas
  older,       \* the reply is the one of an older turn of the thread
  \* ---- AppServerClient and its callers
  registered,  \* the session is in the map of active ones
  offered,     \* the stream handler has told the topic the turn's id
  cancelled,   \* the context is done
  pc,
  stage,       \* the request the run is at
  rid,         \* the request a goroutine waits for
  attempt, steers,
  result,      \* what the run returns
  \* ---- history
  confirmed,   \* messages reported as steered
  dropped,     \* notifications the reader had no room for
  answered, returned  \* per request: the server's answer, what the caller got

remote == <<socket, wire, inbound, turn, sent, taken>>
channels == <<nextID, pending, replyCh, events, reader>>
run == <<text, older, registered, offered, stage, result>>
steering == <<attempt, steers, confirmed>>
history == <<dropped, answered, returned>>
vars == <<socket, wire, inbound, turn, sent, taken, nextID, pending, replyCh,
          events, reader, text, older, registered, offered, cancelled, pc, stage, rid,
          attempt, steers, result, confirmed, dropped, answered, returned>>

(* The process has been started and dialed.                                *)
Init ==
  /\ socket = "up"
  /\ wire = {}
  /\ inbound = <<>>
  /\ turn = "none"
  /\ sent = 0
  /\ taken = {}
  /\ nextID = 0
  /\ pending = {}
  /\ replyCh = [i \in Ids |-> "none"]
  /\ events = <<>>
  /\ reader = "reading"
  /\ text = 0
  /\ older = FALSE
  /\ registered = FALSE
  /\ offered = FALSE
  /\ cancelled = FALSE
  /\ pc = [g \in Goroutines |-> IF g = "run" THEN "open" ELSE "idle"]
  /\ stage = "initialize"
  /\ rid = [g \in Goroutines |-> 0]
  /\ attempt = 0
  /\ steers = 0
  /\ result = "none"
  /\ confirmed = {}
  /\ dropped = {}
  /\ answered = [i \in Ids |-> "none"]
  /\ returned = [i \in Ids |-> "none"]

Goto(g, label) == pc' = [pc EXCEPT ![g] = label]

-----------------------------------------------------------------------------
(* The agent's process (external).                                         *)

(* A request is answered.  turn/start starts the turn, which is notified as *)
(* well; a turn accepts steering while it runs.                            *)
Serve(r) ==
  /\ socket = "up"
  /\ r \in wire
  /\ wire' = wire \ {r}
  /\ \E a \in Answers :
       LET reply == [id |-> r.id, says |-> a] IN
       /\ answered' = [answered EXCEPT ![r.id] = a]
       /\ a = "noturn" => r.method = "steer"
       /\ r.method = "steer" /\ a = "ok" => turn = "running"
       /\ taken' = IF r.method = "steer" /\ a = "ok"
                   THEN taken \cup {r.message} ELSE taken
       /\ \/ /\ r.method = "turn" /\ a = "ok"
             /\ turn' = "running"
             /\ inbound' = Append(Append(inbound, reply), [id |-> 0, says |-> "status"])
          \/ /\ r.method # "turn" \/ a # "ok"
             /\ inbound' = Append(inbound, reply)
             /\ UNCHANGED turn
  /\ UNCHANGED <<socket, sent, channels, run, cancelled, pc, rid, steering,
                 dropped, returned>>

(* A running turn reports what it does ...                                 *)
Report ==
  /\ socket = "up"
  /\ turn = "running"
  /\ sent < MaxDeltas
  /\ sent' = sent + 1
  /\ inbound' = Append(inbound, [id |-> 0, says |-> "delta"])
  /\ UNCHANGED <<socket, wire, turn, taken, channels, run, cancelled, pc, rid,
                 steering, history>>

(* ... and ends.                                                           *)
EndTurn ==
  /\ socket = "up"
  /\ turn = "running"
  /\ turn' \in Ends
  /\ inbound' = Append(inbound, [id |-> 0, says |-> turn'])
  /\ UNCHANGED <<socket, wire, sent, taken, channels, run, cancelled, pc, rid,
                 steering, history>>

(* What is still readable after the connection has ended.                  *)
KeepsSome == \E k \in 0..Len(inbound) : inbound' = SubSeq(inbound, 1, k)

Lose ==
  /\ socket = "up"
  /\ socket' = "lost"
  /\ KeepsSome
  /\ UNCHANGED <<wire, turn, sent, taken, channels, run, cancelled, pc, rid,
                 steering, history>>

(* The bridge is told to stop.                                             *)
Cancel ==
  /\ ~cancelled
  /\ cancelled' = TRUE
  /\ UNCHANGED <<remote, channels, run, pc, rid, steering, history>>

-----------------------------------------------------------------------------
(* The reader: readLoop.                                                   *)

(* Slip: the call stays in the map when its reply is passed on.            *)
ReadReplyKeepsPending ==
  /\ reader = "reading"
  /\ inbound # <<>>
  /\ Head(inbound).id # 0
  /\ inbound' = Tail(inbound)
  /\ LET m == Head(inbound) IN
     /\ UNCHANGED pending
     /\ replyCh' = IF m.id \in pending
                   THEN [replyCh EXCEPT ![m.id] = m.says] ELSE replyCh
  /\ UNCHANGED <<socket, wire, turn, sent, taken, nextID, events, reader, run,
                 cancelled, pc, rid, steering, history>>

(* Slip: the reply goes to a call that waits, whichever it is.             *)
ReadReplyToAny ==
  /\ reader = "reading"
  /\ inbound # <<>>
  /\ Head(inbound).id # 0
  /\ inbound' = Tail(inbound)
  /\ \E i \in pending :
       /\ pending' = pending \ {i}
       /\ replyCh' = [replyCh EXCEPT ![i] = Head(inbound).says]
  /\ UNCHANGED <<socket, wire, turn, sent, taken, nextID, events, reader, run,
                 cancelled, pc, rid, steering, history>>

(* Slip: an error is not passed on.                                        *)
ReadReplyDropsErrors ==
  /\ reader = "reading"
  /\ inbound # <<>>
  /\ Head(inbound).id # 0
  /\ inbound' = Tail(inbound)
  /\ LET m == Head(inbound) IN
     /\ pending' = pending \ {m.id}
     /\ replyCh' = IF m.id \in pending /\ m.says # "error"
                   THEN [replyCh EXCEPT ![m.id] = m.says] ELSE replyCh
  /\ UNCHANGED <<socket, wire, turn, sent, taken, nextID, events, reader, run,
                 cancelled, pc, rid, steering, history>>

(* A reply goes to the call that waits for it; nobody may wait any more.   *)
ReadReply ==
  /\ reader = "reading"
  /\ inbound # <<>>
  /\ Head(inbound).id # 0
  /\ inbound' = Tail(inbound)
  /\ LET m == Head(inbound) IN
     /\ pending' = pending \ {m.id}
     /\ replyCh' = IF m.id \in pending
                   THEN [replyCh EXCEPT ![m.id] = m.says] ELSE replyCh
  /\ UNCHANGED <<socket, wire, turn, sent, taken, nextID, events, reader, run,
                 cancelled, pc, rid, steering, history>>

(* A notification is queued for the run, or dropped when there is no room. *)
ReadNote ==
  /\ reader = "reading"
  /\ inbound # <<>>
  /\ Head(inbound).id = 0
  /\ inbound' = Tail(inbound)
  /\ \/ /\ Len(events) < EventCap
        /\ events' = Append(events, Head(inbound).says)
        /\ UNCHANGED dropped
     \/ /\ Len(events) >= EventCap
        /\ dropped' = dropped \cup {Head(inbound).says}
        /\ UNCHANGED events
  /\ UNCHANGED <<socket, wire, turn, sent, taken, nextID, pending, replyCh,
                 reader, run, cancelled, pc, rid, steering, answered, returned>>

(* A read error: failAllPending ...                                        *)
ReadFails ==
  /\ reader = "reading"
  /\ socket # "up"
  /\ inbound = <<>>
  /\ reader' = "failed"
  /\ replyCh' = [i \in Ids |-> IF i \in pending THEN "unavailable"
                                              ELSE replyCh[i]]
  /\ pending' = {}
  /\ UNCHANGED <<remote, nextID, events, run, cancelled, pc, rid, steering,
                 history>>

(* Slip: the channel done is never closed.                                 *)
NeverDone ==
  /\ reader = "failed"
  /\ UNCHANGED vars

(* ... and done is closed.                                                 *)
CloseDone ==
  /\ reader = "failed"
  /\ reader' = "ended"
  /\ UNCHANGED <<remote, nextID, pending, replyCh, events, run, cancelled, pc,
                 rid, steering, history>>

-----------------------------------------------------------------------------
(* What the outcome of a request makes of its caller.                      *)

(* The run is over: its deferred calls follow.                             *)
Leave(outcome) ==
  /\ result' = outcome
  /\ Goto("run", IF registered THEN "unregister" ELSE "close")
  /\ UNCHANGED <<registered, offered, stage>>

(* threadReadLatestReply gives the latest message of the thread that has   *)
(* text: one of this turn's, which need not be all of it, or an older      *)
(* turn's; or there is none.                                               *)
LatestReply ==
  \/ text' \in 1..sent /\ UNCHANGED older
  \/ older' = TRUE /\ UNCHANGED text
  \/ UNCHANGED <<text, older>>

(* newSession, threadStart or threadResume, turnStart.  A thread/read is   *)
(* only asked for a reply that no delta brought, and may fail.             *)
RunGets(outcome) ==
  \/ /\ stage = "initialize" /\ outcome = "ok"
     /\ Goto("run", "notify")
     /\ UNCHANGED run
  \/ /\ stage = "thread" /\ outcome = "ok"
     /\ registered' = TRUE
     /\ stage' = "turn"
     /\ Goto("run", "open")
     /\ UNCHANGED <<text, older, offered, result>>
  \/ /\ stage = "turn" /\ outcome = "ok"
     /\ offered' = TRUE
     /\ Goto("run", "wait")
     /\ UNCHANGED <<text, older, registered, stage, result>>
  \/ /\ stage = "initialize" /\ outcome # "ok"
     /\ Leave("unavailable")
     /\ UNCHANGED <<text, older>>
  \/ /\ stage \in {"thread", "turn"} /\ outcome # "ok"
     /\ Leave(outcome)
     /\ UNCHANGED <<text, older>>
  \/ /\ stage = "read"
     /\ IF outcome = "ok" THEN LatestReply ELSE UNCHANGED <<text, older>>
     /\ Leave("ok")

(* Slip: one attempt too many.                                             *)
SteerGetsOneMore(outcome) ==
  \/ /\ outcome = "ok"
     /\ confirmed' = confirmed \cup {steers}
     /\ Goto("steer", "idle")
     /\ UNCHANGED <<attempt, steers>>
  \/ /\ outcome = "noturn" /\ attempt <= MaxAttempts
     /\ attempt' = attempt + 1
     /\ Goto("steer", "open")
     /\ UNCHANGED <<steers, confirmed>>
  \/ /\ outcome \notin {"ok", "noturn"}
     /\ Goto("steer", "idle")
     /\ UNCHANGED steering

(* SteerThread tries again while the process says "no active turn".        *)
SteerGets(outcome) ==
  \/ /\ outcome = "ok"
     /\ confirmed' = confirmed \cup {steers}
     /\ Goto("steer", "idle")
     /\ UNCHANGED <<attempt, steers>>
  \/ /\ outcome = "noturn" /\ attempt < MaxAttempts
     /\ attempt' = attempt + 1
     /\ Goto("steer", "open")
     /\ UNCHANGED <<steers, confirmed>>
  \/ /\ outcome # "ok"
     /\ outcome = "noturn" => attempt >= MaxAttempts
     /\ Goto("steer", "idle")
     /\ UNCHANGED steering

Returns(g, outcome) ==
  /\ returned' = [returned EXCEPT ![rid[g]] = outcome]
  /\ \/ g = "run" /\ RunGets(outcome) /\ UNCHANGED steering
     \/ g = "steer" /\ SteerGets(outcome) /\ UNCHANGED run

-----------------------------------------------------------------------------
(* A request.                                                              *)

(* The call takes a number and a place in the map ...                      *)
Open(g) ==
  /\ pc[g] = "open"
  /\ nextID < MaxRequests
  /\ nextID' = nextID + 1
  /\ rid' = [rid EXCEPT ![g] = nextID + 1]
  /\ pending' = pending \cup {nextID + 1}
  /\ Goto(g, "write")
  /\ UNCHANGED <<remote, replyCh, events, reader, run, cancelled, steering,
                 history>>

(* ... is written, perhaps to a connection whose end nobody noticed ...    *)
Write(g) ==
  /\ pc[g] = "write"
  /\ \/ /\ socket = "up"
        /\ wire' = wire \cup {[id |-> rid[g],
                               method |-> IF g = "run" THEN stage ELSE "steer",
                               message |-> IF g = "run" THEN 0 ELSE steers]}
     \/ /\ socket = "lost" /\ reader = "reading"
        /\ UNCHANGED wire
  /\ Goto(g, "await")
  /\ UNCHANGED <<socket, inbound, turn, sent, taken, channels, run, cancelled,
                 rid, steering, history>>

(* ... or the write fails and the call leaves the map ...                  *)
WriteFails(g) ==
  /\ pc[g] = "write"
  /\ socket # "up" \/ cancelled
  /\ pending' = pending \ {rid[g]}
  /\ Returns(g, "write")
  /\ UNCHANGED <<remote, nextID, replyCh, events, reader, cancelled, rid,
                 dropped, answered>>

(* ... and it waits for its reply, for the end of the reader, or for the   *)
(* context, in a select that takes any of them when several are ready.     *)
TakeReply(g) ==
  /\ pc[g] = "await"
  /\ replyCh[rid[g]] # "none"
  /\ Returns(g, replyCh[rid[g]])
  /\ UNCHANGED <<remote, channels, cancelled, rid, dropped, answered>>

SeeDone(g) ==
  /\ pc[g] = "await"
  /\ reader = "ended"
  /\ Returns(g, "unavailable")
  /\ UNCHANGED <<remote, channels, cancelled, rid, dropped, answered>>

GiveUp(g) ==
  /\ pc[g] = "await"
  /\ cancelled
  /\ Returns(g, "cancelled")
  /\ UNCHANGED <<remote, channels, cancelled, rid, dropped, answered>>

-----------------------------------------------------------------------------
(* The run.                                                                *)

(* newSession ends with the notification "initialized".                    *)
Initialized ==
  /\ pc["run"] = "notify"
  /\ \/ /\ socket = "up" \/ (socket = "lost" /\ reader = "reading")
        /\ stage' = "thread"
        /\ Goto("run", "open")
        /\ UNCHANGED <<registered, offered, result>>
     \/ /\ socket # "up" \/ cancelled
        /\ Leave("unavailable")
  /\ UNCHANGED <<remote, channels, text, older, cancelled, rid, steering, history>>

(* Slip: the status of the turn is not looked at.                          *)
ConsumeIgnoresStatus ==
  /\ pc["run"] = "wait"
  /\ events # <<>>
  /\ events' = Tail(events)
  /\ \/ /\ Head(events) = "status"
        /\ UNCHANGED <<pc, run>>
     \/ /\ Head(events) = "delta"
        /\ text' = text + 1
        /\ UNCHANGED <<pc, older, registered, offered, stage, result>>
     \/ /\ Head(events) \in Ends
        /\ Leave("ok")
        /\ UNCHANGED <<text, older>>
  /\ UNCHANGED <<remote, nextID, pending, replyCh, reader, cancelled, rid,
                 steering, history>>

(* waitForTurnCompletion handles the next notification ...                 *)
Consume ==
  /\ pc["run"] = "wait"
  /\ events # <<>>
  /\ events' = Tail(events)
  /\ \/ /\ Head(events) = "status"
        /\ UNCHANGED <<pc, run>>
     \/ /\ Head(events) = "delta"
        /\ text' = text + 1
        /\ UNCHANGED <<pc, older, registered, offered, stage, result>>
     \/ /\ Head(events) = "failed"
        /\ Leave("error")
        /\ UNCHANGED <<text, older>>
     \/ /\ Head(events) \in Finished /\ text # 0
        /\ Leave("ok")
        /\ UNCHANGED <<text, older>>
     \/ /\ Head(events) \in Finished /\ text = 0
        /\ stage' = "read"
        /\ Goto("run", "open")
        /\ UNCHANGED <<text, older, registered, offered, result>>
  /\ UNCHANGED <<remote, nextID, pending, replyCh, reader, cancelled, rid,
                 steering, history>>

(* ... or is told that the connection or the context has ended; an event   *)
(* that is ready at the same time may lose.                                *)
WaitEnds ==
  /\ pc["run"] = "wait"
  /\ \/ reader = "ended" /\ Leave("unavailable")
     \/ cancelled /\ Leave("cancelled")
  /\ UNCHANGED <<remote, channels, text, older, cancelled, rid, steering, history>>

(* Slip: the session is closed before it is unregistered.                  *)
UnregisterLast ==
  /\ pc["run"] = "unregister"
  /\ Goto("run", "close")
  /\ UNCHANGED <<remote, channels, run, cancelled, rid, steering, history>>

Unregister ==
  /\ pc["run"] = "unregister"
  /\ registered' = FALSE
  /\ Goto("run", "close")
  /\ UNCHANGED <<remote, channels, text, older, offered, cancelled, stage, rid,
                 result, steering, history>>

(* Close: the connection, and the process after half a second.             *)
Close ==
  /\ pc["run"] = "close"
  /\ socket' = "closed"
  /\ KeepsSome
  /\ Goto("run", "fallback")
  /\ UNCHANGED <<wire, turn, sent, taken, channels, run, cancelled, rid,
                 steering, history>>

(* FallbackClient runs the request again on the command line when the      *)
(* app-server was unavailable, and passes on every other outcome.          *)
Fallback ==
  /\ pc["run"] = "fallback"
  /\ result' = IF result = "unavailable" THEN "cli" ELSE result
  /\ Goto("run", "returned")
  /\ UNCHANGED <<remote, channels, text, older, registered, offered, cancelled,
                 stage, rid, steering, history>>

-----------------------------------------------------------------------------
(* Steering: lookupActive, then the attempts.                              *)
Steer ==
  /\ pc["steer"] = "idle"
  /\ offered
  /\ steers < MaxSteers
  /\ steers' = steers + 1
  /\ attempt' = 1
  /\ Goto("steer", IF registered THEN "open" ELSE "idle")
  /\ UNCHANGED <<remote, channels, run, cancelled, rid, confirmed, history>>

(* The context ends the wait between two attempts.                         *)
SteerStops ==
  /\ pc["steer"] = "open"
  /\ attempt > 1
  /\ cancelled
  /\ Goto("steer", "idle")
  /\ UNCHANGED <<remote, channels, run, cancelled, rid, steering, history>>

-----------------------------------------------------------------------------
Quiescent ==
  /\ pc["run"] = "returned"
  /\ pc["steer"] = "idle"
  /\ reader = "ended"
  /\ UNCHANGED vars

Request(g) ==
  \/ Open(g) \/ Write(g) \/ WriteFails(g)
  \/ TakeReply(g) \/ SeeDone(g) \/ GiveUp(g)

RunStep ==
  \/ Request("run") \/ Initialized \/ Consume \/ WaitEnds
  \/ Unregister \/ Close \/ Fallback
SteerStep == Request("steer") \/ SteerStops
ReaderStep == ReadReply \/ ReadNote \/ ReadFails \/ CloseDone
AgentStep == (\E r \in Requests : Serve(r)) \/ Report \/ EndTurn

Next ==
  \/ RunStep \/ SteerStep \/ Steer \/ ReaderStep
  \/ AgentStep \/ Lose \/ Cancel
  \/ Quiescent

Spec == Init /\ [][Next]_vars

(* Goroutines that can run are scheduled, and the process, while it lives, *)
(* answers every request and ends its turn.                                *)
FairSpec ==
  /\ Spec
  /\ WF_vars(RunStep) /\ WF_vars(SteerStep) /\ WF_vars(ReaderStep)
  /\ WF_vars(AgentStep)

-----------------------------------------------------------------------------
(* Types; a goroutine in a request has a number.                           *)
TypeOK ==
  /\ socket \in {"up", "lost", "closed"}
  /\ wire \subseteq Requests
  /\ inbound \in Seq(Messages)
  /\ turn \in Ends \cup {"none", "running"}
  /\ sent \in 0..MaxDeltas
  /\ taken \subseteq 0..MaxSteers
  /\ nextID \in 0..MaxRequests
  /\ pending \subseteq Ids
  /\ replyCh \in [Ids -> Answers \cup Failures \cup {"none"}]
  /\ events \in Seq(Notes)
  /\ reader \in {"reading", "failed", "ended"}
  /\ text \in Nat
  /\ older \in BOOLEAN
  /\ registered \in BOOLEAN
  /\ offered \in BOOLEAN
  /\ cancelled \in BOOLEAN
  /\ pc \in [Goroutines -> Pcs]
  /\ stage \in Stages
  /\ rid \in [Goroutines -> 0..MaxRequests]
  /\ \A g \in Goroutines : pc[g] \in {"write", "await"} => rid[g] # 0
  /\ attempt \in 0..MaxAttempts
  /\ steers \in 0..MaxSteers
  /\ result \in Answers \cup Failures \cup {"cli", "none"}
  /\ confirmed \subseteq 0..MaxSteers
  /\ dropped \subseteq Notes
  /\ answered \in [Ids -> Answers \cup {"none"}]
  /\ returned \in [Ids -> Answers \cup Failures \cup {"none"}]

(* The reader, which every call of the session depends on, never blocks:   *)
(* the channel of a call that is in the map has room for its one reply.    *)
ReaderNeverBlocks == \A i \in pending : replyCh[i] = "none"

(* A message reported as steered was taken in by the turn, however answers,*)
(* retries and the end of the connection interleave; the topic drops it    *)
(* from its own queue on this report.                                      *)
SteeredWasTaken == confirmed \subseteq taken

(* A run that reports success had its turn end otherwise than by failing   *)
(* (an interrupted turn counts as a success, app_server.go:759).  Unless   *)
(* the reader had to drop notifications, its reply is the whole text of    *)
(* the turn; it is an older turn's only after a turn that said nothing.    *)
ReplyComplete ==
  result = "ok" =>
    /\ turn \in Finished
    /\ "delta" \notin dropped => text = sent /\ (older => sent = 0)

(* A session the poll goroutine can look up is one its run has not closed. *)
ActiveIsOpen == registered => socket # "closed"

(* A run returns, whatever happens to the process, unless the end of its   *)
(* turn was dropped for want of room.                                      *)
RunReturns ==
  pc["run"] # "returned" ~>
    pc["run"] = "returned" \/ dropped \cap Ends # {}

(* Steering returns: the poll goroutine, which serves every topic, is not  *)
(* held up for ever by one agent.                                          *)
SteerReturns == pc["steer"] # "idle" ~> pc["steer"] = "idle"

(* The comment at app_server.go:1040-1042: "Any websocket read failure     *)
(* means this app-server session is no longer trustworthy. Surface it as   *)
(* app-server unavailability so the bridge can fall back to the CLI path   *)
(* instead of exposing transport noise to users."  A run that ends after   *)
(* the read failure ends as unavailable.                                   *)
NoTransportNoise ==
  [][reader # "reading" /\ ~cancelled /\ result = "none" => result' # "write"]_vars

(* The refinement mapping: each request is a call.                         *)
Rpc == INSTANCE RpcCalls WITH called <- 1..nextID
RpcSpec == Rpc!Spec
=============================================================================
