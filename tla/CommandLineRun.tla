----------------------------- MODULE CommandLineRun -----------------------------
(***************************************************************************)
(* One run of an agent's command line                                      *)
(* (internal/codex/client.go: CLIClient.StartThread, ResumeThread, run,    *)
(* streamState; internal/codex/gemini_client.go: the same for Gemini).     *)
(*                                                                         *)
(* The child process writes to two pipes of bounded capacity.  The caller  *)
(* scans stdout to its end, a goroutine of its own copies stderr, and only *)
(* then is the process waited for.  A read of a pipe does not fail here,   *)
(* and whatever the child has started ends with it: the branches for a     *)
(* failed copy of stderr are left out.                                     *)
(***************************************************************************)
EXTENDS Naturals, Sequences, Functions

CONSTANTS
  MaxWrites,   \* bound: lines the child writes
  PipeCap      \* lines a pipe holds

ASSUME CliAssumption == MaxWrites \in Nat /\ PipeCap \in Nat \ {0}

(* What the child writes.  On stdout: a line with the session id, an agent *)
(* message, a failed turn, a line that means nothing (blank, not JSON,     *)
(* another event), a line longer than the scanner's 2 MiB; "err": stderr.  *)
StdoutLines == {"session", "message", "failed", "noise", "huge"}
Writes == StdoutLines \cup {"err"}

VARIABLES
  \* ---- the child process
  child,        \* "none", "running", "exited", "killed" or "reaped"
  plan,         \* what it writes, in order
  done,         \* how much of it it has written
  exitOk,       \* it exits with status 0
  messageFile,  \* it leaves the last message in the file named by -o
  outPipe, errPipe,
  \* ---- run
  agent, runMode,
  cliPc,        \* "idle", "scan", "awaitCopy", "wait" or "done"
  copier,       \* the goroutine: "none", "copying" or "ended"
  \* ---- streamState
  sessionSeen, failureSeen,
  reply,        \* messages, by their place in plan; 0: the file's
  \* ---- what the caller gets
  outcome       \* "none", "reply" or "error"

childVars == <<plan, exitOk, messageFile, agent, runMode>>
pipes == <<outPipe, errPipe>>
stream == <<sessionSeen, failureSeen, reply>>
cliVars == <<child, childVars, done, pipes, cliPc, copier, stream, outcome>>

CliInit ==
  /\ child = "none"
  /\ plan = <<>>
  /\ done = 0
  /\ exitOk = TRUE
  /\ messageFile = FALSE
  /\ outPipe = <<>>
  /\ errPipe = 0
  /\ agent = "codex"
  /\ runMode = "start"
  /\ cliPc = "idle"
  /\ copier = "none"
  /\ sessionSeen = FALSE
  /\ failureSeen = FALSE
  /\ reply = <<>>
  /\ outcome = "none"

-----------------------------------------------------------------------------
(* run: everything up to cmd.Start.                                        *)
Launch ==
  /\ cliPc = "idle"
  /\ \E n \in 0..MaxWrites : plan' \in [1..n -> Writes]
  /\ agent' \in {"codex", "gemini"}
  /\ runMode' \in {"start", "resume"}
  /\ exitOk' \in BOOLEAN
  /\ messageFile' \in IF agent' = "codex" THEN BOOLEAN ELSE {FALSE}
  /\ child' = "running"
  /\ cliPc' = "scan"
  /\ copier' = "copying"
  /\ UNCHANGED <<done, pipes, stream, outcome>>

LaunchFails ==
  /\ cliPc = "idle"
  /\ cliPc' = "done"
  /\ outcome' = "error"
  /\ UNCHANGED <<child, childVars, done, pipes, copier, stream>>

(* The child writes its next line, and waits while the pipe is full.       *)
ChildWrites ==
  /\ child = "running"
  /\ done < Len(plan)
  /\ done' = done + 1
  /\ IF plan[done'] = "err"
     THEN errPipe < PipeCap /\ errPipe' = errPipe + 1 /\ UNCHANGED outPipe
     ELSE Len(outPipe) < PipeCap /\ outPipe' = Append(outPipe, done')
          /\ UNCHANGED errPipe
  /\ UNCHANGED <<child, childVars, cliPc, copier, stream, outcome>>

ChildExits ==
  /\ child = "running"
  /\ done = Len(plan)
  /\ child' = "exited"
  /\ UNCHANGED <<childVars, done, pipes, cliPc, copier, stream, outcome>>

(* consumeLine: Codex keeps the last message, Gemini appends each.         *)
ConsumeLine(k) ==
  /\ sessionSeen' = (sessionSeen \/ plan[k] = "session")
  /\ failureSeen' = (failureSeen \/ plan[k] = "failed")
  /\ reply' = IF plan[k] # "message" THEN reply
              ELSE IF agent = "codex" THEN <<k>> ELSE Append(reply, k)

ScanLine ==
  /\ cliPc = "scan"
  /\ outPipe # <<>>
  /\ plan[Head(outPipe)] # "huge"
  /\ ConsumeLine(Head(outPipe))
  /\ outPipe' = Tail(outPipe)
  /\ UNCHANGED <<child, childVars, done, errPipe, cliPc, copier, outcome>>

(* Slip: the child is left running when its output cannot be scanned.      *)
AbandonScan ==
  /\ cliPc = "scan"
  /\ outPipe # <<>>
  /\ plan[Head(outPipe)] = "huge"
  /\ cliPc' = "done"
  /\ outcome' = "error"
  /\ UNCHANGED <<child, childVars, done, pipes, copier, stream>>

(* The scanner gives up: the child is killed, and run returns at once.     *)
ScanFails ==
  /\ cliPc = "scan"
  /\ outPipe # <<>>
  /\ plan[Head(outPipe)] = "huge"
  /\ child' = IF child = "running" THEN "killed" ELSE child
  /\ cliPc' = "done"
  /\ outcome' = "error"
  /\ UNCHANGED <<childVars, done, pipes, copier, stream>>

ScanEnds ==
  /\ cliPc = "scan"
  /\ outPipe = <<>>
  /\ child # "running"
  /\ cliPc' = "awaitCopy"
  /\ UNCHANGED <<child, childVars, done, pipes, copier, stream, outcome>>

(* Slip: stderr is read only once stdout has ended.                        *)
CopyAfterScan ==
  /\ copier = "copying"
  /\ cliPc = "awaitCopy"
  /\ IF errPipe > 0 THEN errPipe' = errPipe - 1 /\ UNCHANGED copier
     ELSE child # "running" /\ copier' = "ended" /\ UNCHANGED errPipe
  /\ UNCHANGED <<child, childVars, done, outPipe, cliPc, stream, outcome>>

(* The goroutine: io.Copy until stderr ends.                               *)
CopyStderr ==
  /\ copier = "copying"
  /\ IF errPipe > 0 THEN errPipe' = errPipe - 1 /\ UNCHANGED copier
     ELSE child # "running" /\ copier' = "ended" /\ UNCHANGED errPipe
  /\ UNCHANGED <<child, childVars, done, outPipe, cliPc, stream, outcome>>

AwaitCopy ==
  /\ cliPc = "awaitCopy"
  /\ copier = "ended"
  /\ cliPc' = "wait"
  /\ UNCHANGED <<child, childVars, done, pipes, copier, stream, outcome>>

(* cmd.Wait, then the errors in the order run and its callers test them: a *)
(* bad exit, a failed turn, a new thread without a session id.             *)
Wait ==
  /\ cliPc = "wait"
  /\ child # "running"
  /\ child' = "reaped"
  /\ reply' = IF messageFile THEN <<0>> ELSE reply
  /\ outcome' = IF ~exitOk \/ failureSeen \/ (runMode = "start" /\ ~sessionSeen)
                THEN "error" ELSE "reply"
  /\ cliPc' = "done"
  /\ UNCHANGED <<childVars, done, pipes, copier, sessionSeen, failureSeen>>

(* The caller has its answer; what is left of the run is collected.        *)
NextRun ==
  /\ cliPc = "done"
  /\ copier # "copying"
  /\ cliPc' = "idle"
  /\ child' = "none"
  /\ copier' = "none"
  /\ outcome' = "none"
  /\ plan' = <<>> /\ done' = 0 /\ exitOk' = TRUE /\ messageFile' = FALSE
  /\ outPipe' = <<>> /\ errPipe' = 0
  /\ agent' = "codex" /\ runMode' = "start"
  /\ sessionSeen' = FALSE /\ failureSeen' = FALSE /\ reply' = <<>>

ChildStep == ChildWrites \/ ChildExits
RunStep == ScanLine \/ ScanFails \/ ScanEnds \/ AwaitCopy \/ Wait

CliNext ==
  \/ Launch \/ LaunchFails \/ NextRun
  \/ ChildStep \/ RunStep \/ CopyStderr

CliFairness == WF_cliVars(ChildStep) /\ WF_cliVars(RunStep) /\ WF_cliVars(CopyStderr)
CliSpec == CliInit /\ [][CliNext]_cliVars /\ CliFairness

-----------------------------------------------------------------------------
CliTypeOK ==
  /\ child \in {"none", "running", "exited", "killed", "reaped"}
  /\ plan \in Seq(Writes)
  /\ done \in 0..Len(plan)
  /\ exitOk \in BOOLEAN
  /\ messageFile \in BOOLEAN
  /\ outPipe \in Seq(1..Len(plan)) /\ Len(outPipe) <= PipeCap
  /\ errPipe \in 0..PipeCap
  /\ agent \in {"codex", "gemini"}
  /\ runMode \in {"start", "resume"}
  /\ cliPc \in {"idle", "scan", "awaitCopy", "wait", "done"}
  /\ copier \in {"none", "copying", "ended"}
  /\ sessionSeen \in BOOLEAN
  /\ failureSeen \in BOOLEAN
  /\ reply \in Seq(0..Len(plan))
  /\ outcome \in {"none", "reply", "error"}

(* A run that has begun comes back: whatever the child writes, in whatever *)
(* order and however much of it on either pipe, it is never blocked for    *)
(* good on a pipe that nobody reads while its caller waits for its end.    *)
CliRunEnds == cliPc = "scan" ~> cliPc = "done"

(* When the caller has its answer no child is still at work in the         *)
(* workspace, and the answer is the child's: an error exactly when the     *)
(* child failed in one of the ways the protocol has, else every message    *)
(* of a Gemini run in order, and of a Codex run the file's or the last.    *)
Said == {k \in DOMAIN plan : plan[k] = "message"}
CliOutcome ==
  cliPc = "done" /\ child # "none" =>
    /\ child # "running"
    /\ outcome = "error" <=>
         \/ \E k \in DOMAIN plan : plan[k] \in {"failed", "huge"}
         \/ ~exitOk
         \/ runMode = "start" /\ \A k \in DOMAIN plan : plan[k] # "session"
    /\ outcome = "reply" =>
         /\ agent = "gemini" =>
              /\ Range(reply) = Said
              /\ \A i, j \in DOMAIN reply : i < j => reply[i] < reply[j]
         /\ agent = "codex" /\ messageFile => reply = <<0>>
         /\ agent = "codex" /\ ~messageFile =>
              /\ Range(reply) = {k \in Said : \A j \in Said : j <= k}
              /\ Len(reply) <= 1
=============================================================================
