------------------------------ MODULE StreamProofs ------------------------------
(***************************************************************************)
(* Proofs about what passes through the bridge piece by piece, and arrives *)
(* in order: the lines of a command-line agent (CommandLineRun), those of  *)
(* the log (LogRotation), and the messages a long text is sent in          *)
(* (TextSplit); for all bounds and sizes.                                  *)
(***************************************************************************)
EXTENDS CommandLineRun, LogRotation, TextSplit, SequenceTheorems,
        WellFoundedInduction, TLAPS

(* The elements of a sequence.                                             *)
LEMMA RangeOfEmpty == Range(<<>>) = {} /\ DOMAIN (<<>>) = {}
BY DEF Range

LEMMA RangeFacts ==
     \A s \in Seq(Nat), e \in Nat :
       /\ Range(Append(s, e)) = Range(s) \cup {e}
       /\ Range(s) \subseteq Nat
       /\ s # <<>> => Range(s) # {}
<1>2. ASSUME NEW s \in Seq(Nat), NEW e \in Nat
      PROVE  /\ Range(Append(s, e)) = Range(s) \cup {e}
             /\ Range(s) \subseteq Nat
             /\ s # <<>> => Range(s) # {}
  <2>1. /\ Len(s) \in Nat /\ DOMAIN s = 1..Len(s)
        /\ DOMAIN Append(s, e) = 1..(Len(s) + 1)
        /\ \A i \in 1..Len(s) : Append(s, e)[i] = s[i] /\ s[i] \in Nat
        /\ Append(s, e)[Len(s) + 1] = e
    BY <1>2
  <2>2. \A i \in 1..(Len(s) + 1) : i \in 1..Len(s) \/ i = Len(s) + 1
    BY <2>1
  <2>3. s # <<>> => 1 \in DOMAIN s
    BY <1>2
  <2>4. Range(Append(s, e)) \subseteq Range(s) \cup {e}
    BY <2>1, <2>2 DEF Range
  <2>5. Range(s) \cup {e} \subseteq Range(Append(s, e))
    BY <2>1 DEF Range
  <2>. QED
    BY <2>1, <2>3, <2>4, <2>5 DEF Range
<1>. QED
  BY <1>2

LEMMA RangeOfTail ==
  ASSUME NEW s \in Seq(Nat), s # <<>>
  PROVE  Range(s) = Range(Tail(s)) \cup {Head(s)}
<1>1. /\ Len(s) \in Nat \ {0} /\ DOMAIN s = 1..Len(s) /\ Len(Tail(s)) = Len(s) - 1
      /\ DOMAIN Tail(s) = 1..(Len(s) - 1) /\ Head(s) = s[1]
      /\ \A i \in 1..(Len(s) - 1) : Tail(s)[i] = s[i + 1]
  BY EmptySeq, HeadTailProperties
<1>2. \A i \in 1..Len(s) : i = 1 \/ i - 1 \in 1..(Len(s) - 1)
  BY <1>1
<1>3. ASSUME NEW i \in 1..Len(s) PROVE s[i] \in Range(Tail(s)) \cup {Head(s)}
  <2>1. CASE i = 1
    BY <1>1, <2>1
  <2>2. CASE i # 1
    <3>1. i - 1 \in DOMAIN Tail(s) /\ Tail(s)[i - 1] = s[i]
      BY <1>1, <1>2, <2>2
    <3>. QED
      BY <3>1 DEF Range
  <2>. QED
    BY <2>1, <2>2
<1>4. ASSUME NEW i \in 1..(Len(s) - 1) PROVE Tail(s)[i] \in Range(s)
  <2>1. i + 1 \in DOMAIN s /\ Tail(s)[i] = s[i + 1]
    BY <1>1
  <2>. QED
    BY <2>1 DEF Range
<1>5. Head(s) \in Range(s)
  BY <1>1 DEF Range
<1>. QED
  BY <1>1, <1>3, <1>4, <1>5 DEF Range

-----------------------------------------------------------------------------
(* ---- A run of a command line                                            *)
(* The lines of stdout that have been scanned.                             *)
Read == {k \in 1..done : plan[k] # "err"} \ Range(outPipe)
Heard(R) == {k \in R : plan[k] = "message"}

(* What a stream that has met these lines has made of them.                *)
ReplyOf(R) ==
  /\ agent = "gemini" =>
       /\ Range(reply) = Heard(R)
       /\ \A i, j \in DOMAIN reply : i < j => reply[i] < reply[j]
  /\ agent = "codex" =>
       /\ Range(reply) = {k \in Heard(R) : \A j \in Heard(R) : j <= k}
       /\ Len(reply) <= 1

(* The pipe holds what has been written and not been scanned, in order and *)
(* behind all that has been scanned.                                       *)
PipeInv ==
  /\ \A i \in DOMAIN outPipe : outPipe[i] \in 1..done /\ plan[outPipe[i]] # "err"
  /\ \A i, j \in DOMAIN outPipe : i < j => outPipe[i] < outPipe[j]
  /\ \A k \in Read, i \in DOMAIN outPipe : k < outPipe[i]

(* CliOutcome rests on the prefix of the output that has been scanned: the *)
(* stream has made of it what it should, and it is all of the output when  *)
(* the scan ends.                                                          *)
CliInv ==
  /\ CliTypeOK
  /\ PipeInv
  /\ \A k \in Read : plan[k] # "huge"
  /\ sessionSeen <=> \E k \in Read : plan[k] = "session"
  /\ failureSeen <=> \E k \in Read : plan[k] = "failed"
  /\ cliPc # "done" => ReplyOf(Read)
  /\ agent = "gemini" => ~messageFile
  /\ child = "exited" => done = Len(plan)
  /\ cliPc = "idle" => child = "none" /\ plan = <<>> /\ outPipe = <<>> /\ reply = <<>>
                       /\ done = 0 /\ ~sessionSeen /\ ~failureSeen
  /\ cliPc = "scan" => child \in {"running", "exited"}
  /\ cliPc \in {"awaitCopy", "wait"} => child = "exited" /\ outPipe = <<>>
  /\ cliPc \in {"scan", "awaitCopy"} => copier # "none"
  /\ child = "running" => copier = "copying"
  /\ CliOutcome

LEMMA CliInitInv == CliInit => CliInv
<1> SUFFICES ASSUME CliInit PROVE CliInv
  OBVIOUS
<1>1. CliTypeOK
  <2>1. /\ plan = <<>> /\ outPipe = <<>> /\ reply = <<>> /\ Len(plan) = 0
        /\ done = 0 /\ errPipe = 0 /\ PipeCap \in Nat
        /\ Len(outPipe) = 0
    BY CliAssumption DEF CliInit
  <2>2. /\ plan \in Seq(Writes) /\ outPipe \in Seq(1..Len(plan))
        /\ reply \in Seq(0..Len(plan))
    BY <2>1
  <2>3. done \in 0..Len(plan) /\ errPipe \in 0..PipeCap /\ Len(outPipe) <= PipeCap
    BY <2>1
  <2>. QED
    BY <2>2, <2>3 DEF CliInit, CliTypeOK
<1>2. Read = {} /\ DOMAIN outPipe = {}
  BY RangeOfEmpty DEF CliInit, Read
<1>3. PipeInv
  BY <1>2 DEF PipeInv
<1>4. Range(reply) = {} /\ DOMAIN reply = {} /\ Len(reply) = 0
  BY RangeOfEmpty DEF CliInit
<1>5. ReplyOf(Read)
  BY <1>2, <1>4 DEF ReplyOf, Heard
<1>. QED
  BY <1>1, <1>2, <1>3, <1>5 DEF CliInit, CliInv, CliOutcome

(* A step that changes neither the output nor the stream.                  *)
LEMMA CliMove ==
  ASSUME CliInv, CliTypeOK', UNCHANGED <<childVars, done, outPipe, stream>>
  PROVE  /\ Read' = Read /\ PipeInv'
         /\ \A k \in Read' : plan'[k] # "huge"
         /\ sessionSeen' <=> \E k \in Read' : plan'[k] = "session"
         /\ failureSeen' <=> \E k \in Read' : plan'[k] = "failed"
         /\ ReplyOf(Read) => ReplyOf(Read)'
         /\ agent' = "gemini" => ~messageFile'
<1>1. UNCHANGED <<plan, exitOk, messageFile, agent, runMode, done, outPipe,
                  sessionSeen, failureSeen, reply>>
  BY DEF childVars, stream
<1>2. Read' = Read
  BY <1>1 DEF Read
<1>. QED
  BY <1>1, <1>2 DEF CliInv, PipeInv, ReplyOf, Heard

LEMMA ChildKeeps == CliInv /\ ChildStep => CliInv'
<1> SUFFICES ASSUME CliInv, ChildStep PROVE CliInv'
  OBVIOUS
<1>1. CliTypeOK /\ child = "running" /\ cliPc = "scan"
  <2>1. CliTypeOK /\ child = "running"
    BY DEF ChildStep, ChildWrites, ChildExits, CliInv
  <2>. QED
    BY <2>1 DEF CliInv, CliOutcome, CliTypeOK
<1>2. CASE ChildExits
  <2>1. /\ done = Len(plan) /\ child' = "exited"
        /\ UNCHANGED <<childVars, done, pipes, cliPc, copier, stream, outcome>>
    BY <1>2 DEF ChildExits
  <2>2. CliTypeOK'
    BY <1>1, <2>1 DEF CliTypeOK, childVars, pipes, stream
  <2>3. UNCHANGED <<childVars, done, outPipe, stream, plan, cliPc, copier>>
    BY <2>1 DEF pipes, childVars
  <2>. QED
    BY <1>1, <2>1, <2>2, <2>3, CliMove DEF CliInv, CliOutcome
<1>3. CASE ChildWrites
  <2>0. PICK d : d = done + 1
    OBVIOUS
  <2>1. /\ done < Len(plan) /\ done' = d
        /\ \/ plan[d] = "err" /\ errPipe < PipeCap /\ errPipe' = errPipe + 1 /\ outPipe' = outPipe
           \/ plan[d] # "err" /\ Len(outPipe) < PipeCap /\ outPipe' = Append(outPipe, d)
              /\ errPipe' = errPipe
        /\ UNCHANGED <<child, childVars, cliPc, copier, stream, outcome>>
    BY <1>3, <2>0 DEF ChildWrites
  <2>2. UNCHANGED <<child, plan, exitOk, messageFile, agent, runMode, cliPc, copier,
                    sessionSeen, failureSeen, reply, outcome>>
    BY <2>1 DEF childVars, stream
  <2>3. /\ plan \in Seq(Writes) /\ Len(plan) \in Nat /\ done \in Nat /\ d \in 1..Len(plan)
        /\ outPipe \in Seq(1..Len(plan)) /\ Len(outPipe) \in Nat /\ PipeCap \in Nat
        /\ outPipe \in Seq(Nat) /\ d \in Nat
    BY <1>1, <2>0, <2>1, CliAssumption DEF CliTypeOK
  <2>4. outPipe' \in Seq(1..Len(plan)) /\ Len(outPipe') <= PipeCap /\ errPipe' \in 0..PipeCap
        /\ done' \in 0..Len(plan)
    <3>1. done' \in 0..Len(plan)
      BY <2>1, <2>3
    <3>2. Len(outPipe) <= PipeCap /\ errPipe \in 0..PipeCap
      BY <1>1 DEF CliTypeOK
    <3>3. CASE plan[d] = "err"
      BY <2>1, <2>3, <3>1, <3>2, <3>3
    <3>4. CASE plan[d] # "err"
      <4>1. outPipe' \in Seq(1..Len(plan)) /\ Len(outPipe') = Len(outPipe) + 1
        <5>1. /\ Append(outPipe, d) \in Seq(1..Len(plan))
              /\ Len(Append(outPipe, d)) = Len(outPipe) + 1
          BY <2>3, AppendProperties
        <5>. QED
          BY <2>1, <3>4, <5>1
      <4>2. Len(outPipe) < PipeCap /\ errPipe' = errPipe
        BY <2>1, <3>4
      <4>. QED
        BY <2>3, <3>1, <3>2, <4>1, <4>2
    <3>. QED
      BY <3>3, <3>4
  <2>5. CliTypeOK'
    BY <1>1, <2>2, <2>4 DEF CliTypeOK
  <2>6. \A k : k \in 1..d <=> k \in 1..done \/ k = d
    BY <2>0, <2>3
  <2>7. d \notin Range(outPipe) /\ \A k \in Range(outPipe) : k \in 1..done
    BY <2>0, <2>3 DEF CliInv, PipeInv, Range
  <2>8. Read' = Read
    <3>1. CASE plan[d] = "err"
      BY <2>1, <2>2, <2>6, <3>1 DEF Read
    <3>2. CASE plan[d] # "err"
      <4>1. Range(outPipe') = Range(outPipe) \cup {d}
        BY <2>1, <2>3, <3>2, RangeFacts
      <4>. QED
        BY <2>1, <2>2, <2>6, <4>1, <2>0, <2>3 DEF Read
    <3>. QED
      BY <3>1, <3>2
  <2>9. PipeInv'
    <3>1. CASE plan[d] = "err"
      BY <2>1, <2>2, <2>6, <2>8, <3>1 DEF CliInv, PipeInv
    <3>2. CASE plan[d] # "err"
      <4>1. /\ outPipe' = Append(outPipe, d) /\ DOMAIN outPipe = 1..Len(outPipe)
            /\ DOMAIN outPipe' = 1..(Len(outPipe) + 1) /\ outPipe'[Len(outPipe) + 1] = d
            /\ \A i \in DOMAIN outPipe : outPipe'[i] = outPipe[i]
            /\ \A i \in DOMAIN outPipe' : i \in DOMAIN outPipe \/ i = Len(outPipe) + 1
            /\ \A i \in DOMAIN outPipe : i < Len(outPipe) + 1
        <5>1. outPipe' = Append(outPipe, d) /\ Len(outPipe) \in Nat
          BY <2>1, <2>3, <3>2
        <5>2. /\ DOMAIN outPipe = 1..Len(outPipe) /\ Len(outPipe') = Len(outPipe) + 1
              /\ \A i \in 1..Len(outPipe) : outPipe'[i] = outPipe[i]
              /\ outPipe'[Len(outPipe) + 1] = d
          BY <2>3, <5>1, AppendProperties
        <5>3. DOMAIN outPipe' = 1..(Len(outPipe) + 1)
          BY <2>4, <5>2
        <5>. QED
          BY <5>1, <5>2, <5>3
      <4>2. \A i \in DOMAIN outPipe : outPipe[i] \in 1..done /\ outPipe[i] < d
                                      /\ outPipe[i] \in 1..d /\ plan[outPipe[i]] # "err"
        BY <2>0, <2>3 DEF CliInv, PipeInv
      <4>3. \A k \in Read : k < d
        BY <2>0, <2>3 DEF Read
      <4>4. \A i \in DOMAIN outPipe' : outPipe'[i] \in 1..done' /\ plan'[outPipe'[i]] # "err"
        <5>1. TAKE i \in DOMAIN outPipe'
        <5>2. d \in 1..d
          BY <2>3
        <5>3. CASE i \in DOMAIN outPipe
          BY <2>1, <2>2, <4>1, <4>2, <5>3
        <5>4. CASE i = Len(outPipe) + 1
          BY <2>1, <2>2, <3>2, <4>1, <5>2, <5>4
        <5>. QED
          BY <4>1, <5>3, <5>4
      <4>5. ASSUME NEW i \in DOMAIN outPipe', NEW j \in DOMAIN outPipe', i < j
            PROVE  outPipe'[i] < outPipe'[j]
        <5>1. i \in DOMAIN outPipe
          BY <2>3, <4>1, <4>5
        <5>2. CASE j \in DOMAIN outPipe
          BY <4>1, <4>5, <5>1, <5>2 DEF CliInv, PipeInv
        <5>3. CASE j = Len(outPipe) + 1
          BY <4>1, <4>2, <5>1, <5>3
        <5>. QED
          BY <4>1, <4>5, <5>2, <5>3
      <4>6. \A k \in Read, i \in DOMAIN outPipe' : k < outPipe'[i]
        BY <4>1, <4>3 DEF CliInv, PipeInv
      <4>. QED
        BY <2>8, <4>4, <4>5, <4>6 DEF PipeInv
    <3>. QED
      BY <3>1, <3>2
  <2>10. ReplyOf(Read)'
    BY <1>1, <2>2, <2>8 DEF CliInv, ReplyOf, Heard
  <2>. QED
    BY <1>1, <2>2, <2>5, <2>8, <2>9, <2>10 DEF CliInv, CliOutcome
<1>. QED
  BY <1>2, <1>3 DEF ChildStep

(* Scanning a line takes it out of the pipe and into what has been scanned.*)
LEMMA ScanLineKeeps == CliInv /\ ScanLine => CliInv'
<1> SUFFICES ASSUME CliInv, ScanLine PROVE CliInv'
  OBVIOUS
<1>0. PICK h : h = Head(outPipe)
  OBVIOUS
<1>1. /\ cliPc = "scan" /\ outPipe # <<>> /\ plan[h] # "huge" /\ outPipe' = Tail(outPipe)
      /\ sessionSeen' = (sessionSeen \/ plan[h] = "session")
      /\ failureSeen' = (failureSeen \/ plan[h] = "failed")
      /\ reply' = IF plan[h] # "message" THEN reply
                  ELSE IF agent = "codex" THEN <<h>> ELSE Append(reply, h)
      /\ UNCHANGED <<child, childVars, done, errPipe, cliPc, copier, outcome>>
  BY <1>0 DEF ScanLine, ConsumeLine
<1>2. UNCHANGED <<child, plan, exitOk, messageFile, agent, runMode, done, errPipe, cliPc,
                  copier, outcome>>
  BY <1>1 DEF childVars
<1>3. /\ CliTypeOK /\ plan \in Seq(Writes) /\ Len(plan) \in Nat /\ done \in 0..Len(plan)
      /\ outPipe \in Seq(1..Len(plan)) /\ outPipe \in Seq(Nat) /\ Len(outPipe) \in Nat
      /\ Len(outPipe) <= PipeCap /\ PipeCap \in Nat /\ reply \in Seq(0..Len(plan))
      /\ reply \in Seq(Nat)
  BY CliAssumption DEF CliInv, CliTypeOK
<1>4. PICK t : t = Tail(outPipe)
  OBVIOUS
<1>5. /\ Len(outPipe) # 0 /\ h = outPipe[1] /\ DOMAIN outPipe = 1..Len(outPipe)
      /\ t \in Seq(1..Len(plan)) /\ Len(t) = Len(outPipe) - 1
      /\ \A i \in 1..Len(t) : t[i] = outPipe[i + 1]
  BY <1>0, <1>1, <1>3, <1>4, EmptySeq, HeadTailProperties
<1>6. /\ \A i \in DOMAIN t : i \in Nat /\ 1 < i + 1 /\ i + 1 \in DOMAIN outPipe
                             /\ t[i] = outPipe[i + 1]
      /\ \A i, j \in DOMAIN t : i < j => i + 1 < j + 1
      /\ 1 \in DOMAIN outPipe
  BY <1>3, <1>5
<1>7. h \in 1..done /\ plan[h] # "err" /\ \A k \in Read : k < h
  BY <1>5, <1>6 DEF CliInv, PipeInv
<1>8. \A i \in DOMAIN t : h < t[i]
  BY <1>5, <1>6 DEF CliInv, PipeInv
<1>9. Range(outPipe) = Range(t) \cup {h}
  BY <1>0, <1>1, <1>3, <1>4, RangeOfTail
<1>10. h \notin Range(t)
  <2>1. \A i \in DOMAIN t : t[i] \in Nat
    BY <1>5
  <2>. QED
    BY <1>3, <1>7, <1>8, <2>1 DEF Range
<1>11. Read' = Read \cup {h} /\ h \notin Read
  <2>1. outPipe' = t /\ plan' = plan /\ done' = done
    BY <1>1, <1>2, <1>4
  <2>. QED
    BY <1>7, <1>9, <1>10, <2>1 DEF Read
<1>12. PipeInv'
  <2>1. outPipe' = t /\ plan' = plan /\ done' = done
    BY <1>1, <1>2, <1>4
  <2>2. \A i \in DOMAIN t : t[i] \in 1..done /\ plan[t[i]] # "err"
    BY <1>6 DEF CliInv, PipeInv
  <2>3. \A i, j \in DOMAIN t : i < j => t[i] < t[j]
    BY <1>6 DEF CliInv, PipeInv
  <2>4. \A k \in Read, i \in DOMAIN t : k < t[i]
    BY <1>6 DEF CliInv, PipeInv
  <2>5. \A k \in Read', i \in DOMAIN t : k < t[i]
    BY <1>8, <1>11, <2>4
  <2>. QED
    BY <2>1, <2>2, <2>3, <2>5 DEF PipeInv
<1>13. \A k \in Read : k \in Nat
  BY <1>3 DEF Read
<1>14. reply' \in Seq(0..Len(plan))
  <2>1. h \in 0..Len(plan)
    BY <1>3, <1>7
  <2>2. <<h>> \in Seq(0..Len(plan)) /\ Append(reply, h) \in Seq(0..Len(plan))
    BY <1>3, <2>1, AppendProperties
  <2>3. reply' = reply \/ reply' = <<h>> \/ reply' = Append(reply, h)
    BY <1>1
  <2>. QED
    BY <1>3, <2>2, <2>3
<1>15. ReplyOf(Read)
  BY <1>1 DEF CliInv
<1>16. ReplyOf(Read)'
  <2>1. CASE plan[h] # "message"
    <3>1. Heard(Read \cup {h}) = Heard(Read) /\ reply' = reply
      BY <1>1, <2>1 DEF Heard
    <3>. QED
      BY <1>2, <1>11, <1>15, <3>1 DEF ReplyOf, Heard
  <2>2. CASE plan[h] = "message" /\ agent = "codex"
    <3>1. reply' = <<h>>
      BY <1>1, <2>2
    <3>2. Range(reply') = {h} /\ Len(reply') <= 1
      BY <3>1 DEF Range
    <3>3. Heard(Read \cup {h}) = Heard(Read) \cup {h} /\ Heard(Read) \subseteq Read
      BY <2>2 DEF Heard
    <3>4. {k \in Heard(Read) \cup {h} : \A j \in Heard(Read) \cup {h} : j <= k} = {h}
      <4>1. \A k \in Heard(Read) : k < h /\ k \in Nat /\ h \in Nat
        BY <1>3, <1>7, <1>13, <3>3
      <4>2. \A k \in Heard(Read) : ~(h <= k) /\ k <= h
        BY <4>1
      <4>3. h <= h
        BY <1>3, <1>7
      <4>. QED
        BY <4>2, <4>3
    <3>5. agent' = "codex"
      BY <1>2, <2>2
    <3>6. \A R : Heard(R)' = {k \in R' : plan[k] = "message"}
      BY <1>2 DEF Heard
    <3>. QED
      BY <1>2, <1>11, <3>2, <3>3, <3>4, <3>5 DEF ReplyOf, Heard
  <2>3. CASE plan[h] = "message" /\ agent # "codex"
    <3>1. agent = "gemini" /\ agent' = "gemini"
      BY <1>2, <1>3, <2>3 DEF CliTypeOK
    <3>2. /\ reply' = Append(reply, h) /\ h \in Nat
          /\ Range(reply) = Heard(Read) /\ Heard(Read) \subseteq Read
          /\ \A i, j \in DOMAIN reply : i < j => reply[i] < reply[j]
      BY <1>1, <1>3, <1>7, <1>15, <2>3, <3>1 DEF ReplyOf, Heard
    <3>3. Range(reply') = Heard(Read) \cup {h}
      BY <1>3, <3>2, RangeFacts
    <3>4. Heard(Read \cup {h}) = Heard(Read) \cup {h}
      BY <2>3 DEF Heard
    <3>5. \A i \in DOMAIN reply : reply[i] < h
      BY <1>7, <3>2 DEF Range
    <3>6. \A i, j \in DOMAIN reply' : i < j => reply'[i] < reply'[j]
      <4>1. /\ DOMAIN reply = 1..Len(reply) /\ Len(reply) \in Nat
            /\ DOMAIN reply' = 1..(Len(reply) + 1) /\ reply'[Len(reply) + 1] = h
            /\ \A i \in DOMAIN reply : reply'[i] = reply[i]
        BY <1>3, <3>2, AppendProperties
      <4>2. SUFFICES ASSUME NEW i \in DOMAIN reply', NEW j \in DOMAIN reply', i < j
                     PROVE  reply'[i] < reply'[j]
        OBVIOUS
      <4>3. i \in DOMAIN reply /\ (j \in DOMAIN reply \/ j = Len(reply) + 1)
        BY <4>1, <4>2
      <4>. QED
        BY <3>2, <3>5, <4>1, <4>2, <4>3
    <3>. QED
      BY <1>2, <1>11, <3>1, <3>3, <3>4, <3>6 DEF ReplyOf, Heard
  <2>. QED
    BY <2>1, <2>2, <2>3
<1>17. CliTypeOK'
  <2>1. outPipe' \in Seq(1..Len(plan)) /\ Len(outPipe') <= PipeCap
    BY <1>1, <1>3, <1>4, <1>5
  <2>2. sessionSeen' \in BOOLEAN /\ failureSeen' \in BOOLEAN
    BY <1>1, <1>3 DEF CliTypeOK
  <2>. QED
    BY <1>2, <1>3, <1>14, <2>1, <2>2 DEF CliTypeOK
<1>18. /\ \A k \in Read' : plan'[k] # "huge"
       /\ sessionSeen' <=> \E k \in Read' : plan'[k] = "session"
       /\ failureSeen' <=> \E k \in Read' : plan'[k] = "failed"
  BY <1>1, <1>2, <1>11 DEF CliInv
<1>. QED
  BY <1>1, <1>2, <1>12, <1>16, <1>17, <1>18 DEF CliInv, CliOutcome

(* An answer is given only when the output has been scanned to its end: it *)
(* is that of everything the child has said.                               *)
LEMMA WaitKeeps == CliInv /\ Wait => CliInv'
<1> SUFFICES ASSUME CliInv, Wait PROVE CliInv'
  OBVIOUS
<1>1. /\ cliPc = "wait" /\ cliPc' = "done" /\ child' = "reaped"
      /\ reply' = IF messageFile THEN <<0>> ELSE reply
      /\ outcome' = IF ~exitOk \/ failureSeen \/ (runMode = "start" /\ ~sessionSeen)
                    THEN "error" ELSE "reply"
      /\ UNCHANGED <<plan, exitOk, messageFile, agent, runMode, done, outPipe, errPipe,
                     copier, sessionSeen, failureSeen>>
  BY DEF Wait, childVars, pipes
<1>2. /\ CliTypeOK /\ outPipe = <<>> /\ done = Len(plan) /\ ReplyOf(Read)
      /\ Len(plan) \in Nat
  BY <1>1 DEF CliInv, CliTypeOK
<1>3. DOMAIN plan = 1..Len(plan)
  BY <1>2 DEF CliTypeOK
<1>4. Read = {k \in DOMAIN plan : plan[k] # "err"} /\ Read' = Read
  BY <1>1, <1>2, <1>3, RangeOfEmpty DEF Read
<1>5. Said = Heard(Read) /\ Said' = Said
  BY <1>1, <1>4 DEF Said, Heard
<1>6. /\ \A k \in DOMAIN plan : plan[k] # "huge"
      /\ sessionSeen <=> \E k \in DOMAIN plan : plan[k] = "session"
      /\ failureSeen <=> \E k \in DOMAIN plan : plan[k] = "failed"
  BY <1>4 DEF CliInv
<1>7. outcome' = "error" <=>
         \/ \E k \in DOMAIN plan : plan[k] \in {"failed", "huge"}
         \/ ~exitOk
         \/ runMode = "start" /\ \A k \in DOMAIN plan : plan[k] # "session"
  BY <1>1, <1>6
<1>8. agent = "gemini" => reply' = reply
  BY <1>1 DEF CliInv
<1>9. agent = "codex" /\ messageFile => reply' = <<0>>
  BY <1>1
<1>10. agent = "codex" /\ ~messageFile => reply' = reply
  BY <1>1
<1>11. CliOutcome'
  <2>1. agent' = "gemini" =>
              /\ Range(reply') = Said'
              /\ \A i, j \in DOMAIN reply' : i < j => reply'[i] < reply'[j]
    BY <1>1, <1>2, <1>5, <1>8 DEF ReplyOf
  <2>2. agent' = "codex" /\ ~messageFile' =>
              /\ Range(reply') = {k \in Said' : \A j \in Said' : j <= k}
              /\ Len(reply') <= 1
    BY <1>1, <1>2, <1>5, <1>10 DEF ReplyOf
  <2>. QED
    BY <1>1, <1>7, <1>9, <2>1, <2>2 DEF CliOutcome
<1>12. CliTypeOK'
  <2>1. reply \in Seq(0..Len(plan)) /\ 0 \in 0..Len(plan)
    BY <1>2 DEF CliTypeOK
  <2>2. <<0>> \in Seq(0..Len(plan))
    BY <2>1
  <2>3. reply' = reply \/ reply' = <<0>>
    BY <1>1
  <2>4. reply' \in Seq(0..Len(plan))
    BY <2>1, <2>2, <2>3
  <2>. QED
    BY <1>1, <1>2, <2>4 DEF CliTypeOK
<1>13. PipeInv'
  BY <1>1, <1>4 DEF CliInv, PipeInv
<1>. QED
  BY <1>1, <1>4, <1>11, <1>12, <1>13 DEF CliInv

LEMMA RunKeeps == CliInv /\ RunStep => CliInv'
<1> SUFFICES ASSUME CliInv, RunStep PROVE CliInv'
  OBVIOUS
<1>1. CliTypeOK
  BY DEF CliInv
<1>2. CASE ScanFails
  <2>1. /\ cliPc = "scan" /\ outPipe # <<>> /\ plan[Head(outPipe)] = "huge"
        /\ child' = (IF child = "running" THEN "killed" ELSE child)
        /\ cliPc' = "done" /\ outcome' = "error"
        /\ UNCHANGED <<childVars, done, pipes, copier, stream>>
    BY <1>2 DEF ScanFails
  <2>2. UNCHANGED <<plan, exitOk, messageFile, agent, runMode, done, outPipe, errPipe, copier,
                    sessionSeen, failureSeen, reply, childVars, stream>>
    BY <2>1 DEF childVars, pipes, stream
  <2>3. CliTypeOK'
    BY <1>1, <2>1, <2>2 DEF CliTypeOK
  <2>4. Head(outPipe) \in DOMAIN plan
    BY <1>1, <2>1, HeadTailProperties DEF CliTypeOK
  <2>5. child \in {"running", "exited"}
    BY <2>1 DEF CliInv
  <2>. QED
    BY <2>1, <2>2, <2>3, <2>4, <2>5, CliMove DEF CliInv, CliOutcome
<1>3. CASE ScanEnds
  <2>1. /\ cliPc = "scan" /\ outPipe = <<>> /\ child # "running" /\ cliPc' = "awaitCopy"
        /\ UNCHANGED <<child, childVars, done, pipes, copier, stream, outcome>>
    BY <1>3 DEF ScanEnds
  <2>2. UNCHANGED <<plan, exitOk, messageFile, agent, runMode, done, outPipe, errPipe, copier,
                    sessionSeen, failureSeen, reply, childVars, stream, child, outcome>>
    BY <2>1 DEF childVars, pipes, stream
  <2>3. CliTypeOK'
    BY <1>1, <2>1, <2>2 DEF CliTypeOK
  <2>. QED
    BY <2>1, <2>2, <2>3, CliMove DEF CliInv, CliOutcome
<1>4. CASE AwaitCopy
  <2>1. /\ cliPc = "awaitCopy" /\ cliPc' = "wait"
        /\ UNCHANGED <<child, childVars, done, pipes, copier, stream, outcome>>
    BY <1>4 DEF AwaitCopy
  <2>2. UNCHANGED <<plan, exitOk, messageFile, agent, runMode, done, outPipe, errPipe, copier,
                    sessionSeen, failureSeen, reply, childVars, stream, child, outcome>>
    BY <2>1 DEF childVars, pipes, stream
  <2>3. CliTypeOK'
    BY <1>1, <2>1, <2>2 DEF CliTypeOK
  <2>. QED
    BY <2>1, <2>2, <2>3, CliMove DEF CliInv, CliOutcome
<1>. QED
  BY <1>2, <1>3, <1>4, ScanLineKeeps, WaitKeeps DEF RunStep

LEMMA OthersKeep ==
  CliInv /\ (Launch \/ LaunchFails \/ NextRun \/ CopyStderr \/ UNCHANGED cliVars) => CliInv'
<1>1. CliInv /\ Launch => CliInv'
  <2> SUFFICES ASSUME CliInv, Launch PROVE CliInv'
    OBVIOUS
  <2>1. /\ CliTypeOK /\ plan = <<>> /\ outPipe = <<>> /\ reply = <<>> /\ done = 0
        /\ ~sessionSeen /\ ~failureSeen
    BY DEF Launch, CliInv
  <2>2. PICK n \in 0..MaxWrites : plan' \in [1..n -> Writes]
    BY DEF Launch
  <2>3. plan' \in Seq(Writes) /\ Len(plan') \in Nat
    BY <2>2, CliAssumption
  <2>4. /\ UNCHANGED <<done, outPipe, errPipe, sessionSeen, failureSeen, reply, outcome>>
        /\ agent' \in {"codex", "gemini"} /\ runMode' \in {"start", "resume"}
        /\ exitOk' \in BOOLEAN /\ child' = "running" /\ cliPc' = "scan" /\ copier' = "copying"
        /\ messageFile' \in BOOLEAN /\ (agent' = "gemini" => ~messageFile')
    BY DEF Launch, pipes, stream
  <2>5. CliTypeOK'
    <3>1. /\ outPipe' \in Seq(1..Len(plan')) /\ reply' \in Seq(0..Len(plan'))
          /\ done' \in 0..Len(plan')
      BY <2>1, <2>3, <2>4
    <3>. QED
      BY <2>1, <2>3, <2>4, <3>1 DEF CliTypeOK
  <2>6. /\ done' = 0 /\ outPipe' = <<>> /\ reply' = <<>> /\ Range(reply') = {}
        /\ DOMAIN reply' = {} /\ Len(reply') = 0 /\ DOMAIN outPipe' = {}
    BY <2>1, <2>4, RangeOfEmpty
  <2>7. Read' = {}
    BY <2>6 DEF Read
  <2>8. PipeInv' /\ ReplyOf(Read)'
    BY <2>6, <2>7 DEF PipeInv, ReplyOf, Heard
  <2>. QED
    BY <2>1, <2>4, <2>5, <2>6, <2>7, <2>8 DEF CliInv, CliOutcome
<1>2. CliInv /\ LaunchFails => CliInv'
  <2> SUFFICES ASSUME CliInv, LaunchFails PROVE CliInv'
    OBVIOUS
  <2>1. /\ CliTypeOK /\ child = "none" /\ cliPc' = "done" /\ outcome' = "error"
        /\ UNCHANGED <<child, childVars, done, pipes, copier, stream>>
    BY DEF LaunchFails, CliInv
  <2>2. UNCHANGED <<plan, exitOk, messageFile, agent, runMode, done, outPipe, errPipe, copier,
                    sessionSeen, failureSeen, reply, childVars, stream, child>>
    BY <2>1 DEF childVars, pipes, stream
  <2>3. CliTypeOK'
    BY <2>1, <2>2 DEF CliTypeOK
  <2>. QED
    BY <2>1, <2>2, <2>3, CliMove DEF CliInv, CliOutcome
<1>3. CliInv /\ NextRun => CliInv'
  <2> SUFFICES ASSUME CliInv, NextRun PROVE CliInv'
    OBVIOUS
  <2>1. CliInit'
    BY DEF NextRun, CliInit
  <2>. QED
    BY <2>1, CliInitInv, PTL
<1>4. CliInv /\ CopyStderr => CliInv'
  <2> SUFFICES ASSUME CliInv, CopyStderr PROVE CliInv'
    OBVIOUS
  <2>1. /\ copier = "copying"
        /\ UNCHANGED <<child, childVars, done, outPipe, cliPc, stream, outcome>>
    BY DEF CopyStderr
  <2>2. UNCHANGED <<plan, exitOk, messageFile, agent, runMode, sessionSeen, failureSeen, reply>>
    BY <2>1 DEF childVars, stream
  <2>3. errPipe' \in 0..PipeCap /\ copier' \in {"copying", "ended"}
    BY CliAssumption DEF CopyStderr, CliInv, CliTypeOK
  <2>4. CliTypeOK'
    BY <2>1, <2>2, <2>3 DEF CliInv, CliTypeOK
  <2>5. child = "running" => copier' = "copying"
    BY <2>1 DEF CopyStderr
  <2>6. CliOutcome'
    BY <2>1, <2>2 DEF CliInv, CliOutcome, Said
  <2>. QED
    BY <2>1, <2>2, <2>3, <2>4, <2>5, <2>6, CliMove DEF CliInv
<1>5. CliInv /\ UNCHANGED cliVars => CliInv'
  BY DEF CliInv, CliTypeOK, PipeInv, Read, ReplyOf, Heard, CliOutcome, Said, cliVars,
     childVars, pipes, stream
<1>. QED
  BY <1>1, <1>2, <1>3, <1>4, <1>5

LEMMA CliStep == CliInv /\ [CliNext]_cliVars => CliInv'
BY ChildKeeps, RunKeeps, OthersKeep DEF CliNext

LEMMA CliAlways == CliSpec => []CliInv
BY CliInitInv, CliStep, PTL DEF CliSpec

(* Whatever the child writes and however it ends, its caller is told what  *)
(* it said, and only once no child is at work any more.                    *)
THEOREM CliAlwaysTells == CliSpec => []CliOutcome
<1>1. CliInv => CliOutcome
  BY DEF CliInv
<1>. QED
  BY <1>1, CliAlways, PTL

(* While a run is on, one of the child, the run and the copier can take a  *)
(* step (the guards of ChildStep, RunStep and CopyStderr): they never wait *)
(* for each other in a circle, however little a pipe holds and whatever    *)
(* the child writes, for the copier reads on its own while stdout is       *)
(* scanned.                                                                *)
ChildCanMove ==
  /\ child = "running"
  /\ \/ done = Len(plan)
     \/ done < Len(plan) /\ IF plan[done + 1] = "err" THEN errPipe < PipeCap
                                                       ELSE Len(outPipe) < PipeCap
RunCanMove ==
  \/ cliPc = "scan" /\ (outPipe # <<>> \/ child # "running")
  \/ cliPc = "awaitCopy" /\ copier = "ended"
  \/ cliPc = "wait" /\ child # "running"
CopierCanMove == copier = "copying" /\ (errPipe > 0 \/ child # "running")
CliNeverStuck ==
  cliPc \in {"scan", "awaitCopy", "wait"} => ChildCanMove \/ RunCanMove \/ CopierCanMove

THEOREM CliIsNeverStuck == CliSpec => []CliNeverStuck
<1>1. CliInv => CliNeverStuck
  <2> SUFFICES ASSUME CliInv, cliPc \in {"scan", "awaitCopy", "wait"}
               PROVE  ChildCanMove \/ RunCanMove \/ CopierCanMove
    BY DEF CliNeverStuck
  <2>1. CASE cliPc = "scan" /\ outPipe = <<>> /\ child = "running"
    <3>1. /\ done \in 0..Len(plan) /\ Len(plan) \in Nat /\ errPipe \in 0..PipeCap
          /\ PipeCap \in Nat \ {0} /\ Len(outPipe) = 0
      BY <2>1, CliAssumption DEF CliInv, CliTypeOK
    <3>2. copier = "copying"
      BY <2>1 DEF CliInv
    <3>3. errPipe > 0 \/ errPipe < PipeCap
      BY <3>1
    <3>4. done = Len(plan) \/ done < Len(plan)
      BY <3>1
    <3>5. Len(outPipe) < PipeCap
      BY <3>1
    <3>. QED
      BY <2>1, <3>2, <3>3, <3>4, <3>5 DEF ChildCanMove, CopierCanMove
  <2>2. CASE cliPc = "scan" /\ ~(outPipe = <<>> /\ child = "running")
    BY <2>2 DEF RunCanMove
  <2>3. CASE cliPc = "awaitCopy"
    BY <2>3 DEF CliInv, CliTypeOK, RunCanMove, CopierCanMove
  <2>4. CASE cliPc = "wait"
    BY <2>4 DEF CliInv, RunCanMove
  <2>. QED
    BY <2>1, <2>2, <2>3, <2>4
<1>. QED
  BY <1>1, CliAlways, PTL

(* What is left to do in a run.                                            *)
StagesLeft == IF cliPc = "scan" THEN 3 ELSE IF cliPc = "awaitCopy" THEN 2
              ELSE IF cliPc = "wait" THEN 1 ELSE 0
ProcessesLeft == (IF child = "running" THEN 1 ELSE 0) + (IF copier = "copying" THEN 1 ELSE 0)
CliLeft ==
  2 * (Len(plan) - done) + Len(outPipe) + errPipe + ProcessesLeft + StagesLeft

(* Each step of the child, the run and the copier leaves less to do (a     *)
(* line written is one to be read): none of them can go round for ever,    *)
(* which with CliNeverStuck is why a run comes back.                       *)
THEOREM CliGetsCloser ==
  CliSpec => [][ChildStep \/ RunStep \/ CopyStderr => CliLeft' \in Nat /\ CliLeft' < CliLeft]_cliVars
<1>1. CliInv => /\ CliTypeOK /\ Len(plan) - done \in Nat /\ Len(outPipe) \in Nat
                /\ errPipe \in Nat /\ done \in Nat /\ Len(plan) \in Nat
                /\ ProcessesLeft \in Nat /\ StagesLeft \in Nat /\ CliLeft \in Nat
  <2> SUFFICES ASSUME CliInv
               PROVE  /\ CliTypeOK /\ Len(plan) - done \in Nat /\ Len(outPipe) \in Nat
                      /\ errPipe \in Nat /\ done \in Nat /\ Len(plan) \in Nat
                      /\ ProcessesLeft \in Nat /\ StagesLeft \in Nat /\ CliLeft \in Nat
    OBVIOUS
  <2>1. /\ CliTypeOK /\ Len(plan) \in Nat /\ done \in 0..Len(plan) /\ Len(outPipe) \in Nat
        /\ errPipe \in Nat
    BY CliAssumption DEF CliInv, CliTypeOK
  <2>2. Len(plan) - done \in Nat /\ done \in Nat
    BY <2>1
  <2>3. ProcessesLeft \in Nat /\ StagesLeft \in Nat
    BY DEF ProcessesLeft, StagesLeft
  <2>. QED
    BY <2>1, <2>2, <2>3 DEF CliLeft
<1>2. ASSUME CliInv, ChildStep \/ RunStep \/ CopyStderr PROVE CliLeft' < CliLeft
  <2>1. /\ CliTypeOK /\ Len(plan) - done \in Nat /\ Len(outPipe) \in Nat
        /\ errPipe \in Nat /\ done \in Nat /\ Len(plan) \in Nat
        /\ ProcessesLeft \in Nat /\ StagesLeft \in Nat
    BY <1>1, <1>2
  <2>2. CASE ChildWrites
    <3>1. /\ done < Len(plan) /\ done' = done + 1 /\ plan' = plan
          /\ UNCHANGED <<child, cliPc, copier>>
      BY <2>2 DEF ChildWrites, childVars
    <3>2. Len(outPipe') + errPipe' = Len(outPipe) + errPipe + 1
      <4>1. CASE plan[done'] = "err"
        BY <2>1, <2>2, <4>1 DEF ChildWrites
      <4>2. CASE plan[done'] # "err"
        <5>1. outPipe' = Append(outPipe, done') /\ errPipe' = errPipe
          BY <2>2, <4>2 DEF ChildWrites
        <5>2. outPipe \in Seq(1..Len(plan)) /\ done' \in 1..Len(plan)
          BY <2>1, <3>1 DEF CliTypeOK
        <5>3. Len(outPipe') = Len(outPipe) + 1
          BY <5>1, <5>2, AppendProperties
        <5>. QED
          BY <2>1, <5>1, <5>3
      <4>. QED
        BY <4>1, <4>2
    <3>3. ProcessesLeft' = ProcessesLeft /\ StagesLeft' = StagesLeft
      BY <3>1 DEF ProcessesLeft, StagesLeft
    <3>4. Len(outPipe') \in Nat /\ errPipe' \in Nat
      <4>1. CliInv'
        BY <1>2, <2>2, ChildKeeps DEF ChildStep
      <4>. QED
        BY <4>1, <1>1, CliAssumption DEF CliInv, CliTypeOK
    <3>. QED
      BY <2>1, <3>1, <3>2, <3>3, <3>4 DEF CliLeft
  <2>3. CASE ScanLine
    <3>1. /\ outPipe # <<>> /\ outPipe' = Tail(outPipe)
          /\ UNCHANGED <<plan, done, errPipe, child, cliPc, copier>>
      BY <2>3 DEF ScanLine, childVars
    <3>2. Len(outPipe') = Len(outPipe) - 1
      BY <2>1, <3>1, EmptySeq, HeadTailProperties DEF CliTypeOK
    <3>3. ProcessesLeft' = ProcessesLeft /\ StagesLeft' = StagesLeft
      BY <3>1 DEF ProcessesLeft, StagesLeft
    <3>. QED
      BY <2>1, <3>1, <3>2, <3>3 DEF CliLeft
  <2>4. CASE CopyStderr
    <3>1. UNCHANGED <<plan, done, outPipe, child, cliPc>> /\ copier = "copying"
      BY <2>4 DEF CopyStderr, childVars
    <3>2. StagesLeft' = StagesLeft
      BY <3>1 DEF StagesLeft
    <3>3. \/ errPipe' = errPipe - 1 /\ copier' = copier
          \/ errPipe' = errPipe /\ copier' = "ended"
      BY <2>4 DEF CopyStderr
    <3>4. \/ errPipe' = errPipe - 1 /\ ProcessesLeft' = ProcessesLeft
          \/ errPipe' = errPipe /\ ProcessesLeft' = ProcessesLeft - 1
      BY <3>1, <3>3 DEF ProcessesLeft
    <3>. QED
      BY <2>1, <3>1, <3>2, <3>4 DEF CliLeft
  <2>5. CASE ChildExits \/ ScanFails \/ ScanEnds \/ AwaitCopy \/ Wait
    <3>1. UNCHANGED <<plan, done, outPipe, errPipe, copier>>
      BY <2>5 DEF ChildExits, ScanFails, ScanEnds, AwaitCopy, Wait, childVars, pipes
    <3>2. \/ child = "running" /\ child' # "running" /\ cliPc' = cliPc
          \/ /\ child = "running" \/ child' # "running"
             /\ StagesLeft' < StagesLeft
      BY <2>5 DEF ChildExits, ScanFails, ScanEnds, AwaitCopy, Wait, StagesLeft
    <3>3. \/ ProcessesLeft' = ProcessesLeft - 1 /\ StagesLeft' = StagesLeft
          \/ ProcessesLeft' <= ProcessesLeft /\ StagesLeft' < StagesLeft
      BY <3>1, <3>2 DEF ProcessesLeft, StagesLeft
    <3>4. ProcessesLeft' \in Nat /\ StagesLeft' \in Nat
      BY DEF ProcessesLeft, StagesLeft
    <3>. QED
      BY <2>1, <3>1, <3>3, <3>4 DEF CliLeft
  <2>. QED
    BY <1>2, <2>2, <2>3, <2>4, <2>5 DEF ChildStep, RunStep
<1>3. CliInv => CliLeft \in Nat
  BY <1>1
<1>4. CliInv' => (CliLeft \in Nat)'
  BY <1>3, PTL
<1>5. CliInv /\ CliInv' =>
        [ChildStep \/ RunStep \/ CopyStderr => CliLeft' \in Nat /\ CliLeft' < CliLeft]_cliVars
  BY <1>2, <1>4
<1>. QED
  BY <1>5, CliAlways, PTL

-----------------------------------------------------------------------------
(* ---- The log files                                                      *)
(* The files by their age, and what LogKeepsOrder says of them: w is the   *)
(* last line accepted, holes whether lines may be missing.                 *)
ByAge == [i \in Ages |-> Lines(i)]
InOrder(F, w, holes) ==
  /\ \A i \in Ages : \A n \in Range(F[i]) : n \in Nat /\ 1 <= n /\ n <= w
  /\ \A i \in Ages : \A a, b \in DOMAIN F[i] : a < b => F[i][a] < F[i][b]
  /\ \A i, j \in Ages : i < j =>
       \A m \in Range(F[i]), n \in Range(F[j]) : n < m
  /\ w > 0 => \E i \in Ages : w \in Range(F[i])
  /\ ~holes => \A i \in Ages : \A n \in Range(F[i]) : \A m \in n..w :
                 \E j \in Ages : m \in Range(F[j])

FileLists == [Ages -> Seq(Nat)]

LEMMA AgesFacts ==
  /\ MaxBackups \in Nat \ {0} /\ FileLines \in Nat \ {0} /\ MaxLines \in Nat
  /\ Ages \subseteq Nat /\ 0 \in Ages /\ 1 \in Ages /\ MaxBackups \in Ages
  /\ \A i \in Ages : i = 0 \/ i \in 1..MaxBackups
  /\ 1..MaxBackups \subseteq Ages
BY LogAssumption DEF Ages

(* A line more in the newest file.                                         *)
LEMMA AppendInOrder ==
  ASSUME NEW F \in FileLists, NEW w \in Nat, NEW holes, InOrder(F, w, holes),
         NEW G \in FileLists, G = [F EXCEPT ![0] = Append(F[0], w + 1)]
  PROVE  InOrder(G, w + 1, holes)
<1>1. /\ 0 \in Ages /\ Ages \subseteq Nat
      /\ G[0] = Append(F[0], w + 1) /\ \A i \in Ages \ {0} : G[i] = F[i]
      /\ \A i \in Ages : F[i] \in Seq(Nat)
  BY AgesFacts DEF FileLists
<1>2. Range(G[0]) = Range(F[0]) \cup {w + 1}
  BY <1>1, RangeFacts
<1>3. /\ Len(F[0]) \in Nat /\ DOMAIN F[0] = 1..Len(F[0])
      /\ DOMAIN G[0] = 1..(Len(F[0]) + 1)
      /\ \A a \in 1..Len(F[0]) : G[0][a] = F[0][a]
      /\ G[0][Len(F[0]) + 1] = w + 1
  BY <1>1
<1>4. \A i \in Ages : \A n \in Range(F[i]) : n \in Nat /\ 1 <= n /\ n <= w
  BY DEF InOrder
<1>5. ASSUME NEW i \in Ages, NEW n \in Range(G[i])
      PROVE  n \in Nat /\ 1 <= n /\ n <= w + 1
  <2>1. n \in Range(F[i]) \/ n = w + 1
    BY <1>1, <1>2, <1>5
  <2>. QED
    BY <1>4, <2>1
<1>6. ASSUME NEW i \in Ages, NEW a \in DOMAIN G[i], NEW b \in DOMAIN G[i], a < b
      PROVE  G[i][a] < G[i][b]
  <2>1. CASE i # 0
    BY <1>1, <1>6, <2>1 DEF InOrder
  <2>2. CASE i = 0
    <3>1. a \in 1..Len(F[0]) /\ G[0][a] = F[0][a] /\ G[0][a] \in Range(F[0])
      BY <1>3, <1>6, <2>2 DEF Range
    <3>2. G[0][a] \in Nat /\ G[0][a] <= w
      BY <1>1, <1>4, <3>1
    <3>3. CASE b \in 1..Len(F[0])
      BY <1>1, <1>3, <1>6, <2>2, <3>1, <3>3 DEF InOrder
    <3>4. CASE b = Len(F[0]) + 1
      BY <1>3, <2>2, <3>2, <3>4
    <3>. QED
      BY <1>3, <1>6, <2>2, <3>3, <3>4
  <2>. QED
    BY <2>1, <2>2
<1>7. ASSUME NEW i \in Ages, NEW j \in Ages, i < j,
             NEW m \in Range(G[i]), NEW n \in Range(G[j])
      PROVE  n < m
  <2>1. j # 0 /\ n \in Range(F[j]) /\ n \in Nat /\ n <= w
    BY <1>1, <1>4, <1>7
  <2>2. CASE m \in Range(F[i])
    BY <1>7, <2>1, <2>2 DEF InOrder
  <2>3. CASE m \notin Range(F[i])
    BY <1>1, <1>2, <1>7, <2>1, <2>3
  <2>. QED
    BY <2>2, <2>3
<1>8. \E i \in Ages : w + 1 \in Range(G[i])
  BY <1>1, <1>2
<1>9. ASSUME ~holes, NEW i \in Ages, NEW n \in Range(G[i]), NEW m \in n..(w + 1)
      PROVE  \E j \in Ages : m \in Range(G[j])
  <2>1. \A j \in Ages : Range(F[j]) \subseteq Range(G[j])
    BY <1>1, <1>2
  <2>2. CASE m = w + 1
    BY <1>8, <2>2
  <2>3. CASE m # w + 1
    <3>1. n \in Nat /\ m \in Nat /\ n <= m /\ m <= w
      BY <1>5, <1>9, <2>3
    <3>2. n \in Range(F[i])
      BY <1>1, <1>2, <1>9, <3>1
    <3>3. m \in n..w
      BY <3>1
    <3>4. \E j \in Ages : m \in Range(F[j])
      BY <1>9, <3>2, <3>3 DEF InOrder
    <3>. QED
      BY <2>1, <3>4
  <2>. QED
    BY <2>2, <2>3
<1>. QED
  BY <1>5, <1>6, <1>7, <1>8, <1>9 DEF InOrder

(* A file becomes the next older one, where there was none, or a hole is   *)
(* made.                                                                   *)
LEMMA MoveInOrder ==
  ASSUME NEW F \in FileLists, NEW w \in Nat, NEW holes, InOrder(F, w, holes),
         NEW k \in Ages, k + 1 \in Ages,
         NEW G \in FileLists, G = [F EXCEPT ![k + 1] = F[k], ![k] = <<>>],
         F[k + 1] = <<>> \/ (holes /\ (w > 0 => \E i \in Ages : w \in Range(G[i])))
  PROVE  InOrder(G, w, holes)
<1>0. PICK l \in Ages : l = k + 1
  OBVIOUS
<1>1. /\ Ages \subseteq Nat /\ k # l /\ G[l] = F[k] /\ G[k] = <<>>
      /\ \A i \in Ages \ {k, l} : G[i] = F[i]
  BY <1>0, AgesFacts DEF FileLists
<1>2. Range(G[k]) = {} /\ DOMAIN G[k] = {}
  BY <1>1, RangeOfEmpty
<1>3. \A i \in Ages : \A n \in Range(G[i]) : n \in Nat /\ 1 <= n /\ n <= w
  BY <1>1, <1>2 DEF InOrder
<1>4. \A i \in Ages : \A a, b \in DOMAIN G[i] : a < b => G[i][a] < G[i][b]
  BY <1>1, <1>2 DEF InOrder
<1>5. ASSUME NEW i \in Ages, NEW j \in Ages, i < j,
             NEW m \in Range(G[i]), NEW n \in Range(G[j])
      PROVE  n < m
  <2>1. i # k /\ j # k
    BY <1>2, <1>5
  <2>2. CASE i = l
    <3>0. k \in Nat /\ i \in Nat /\ j \in Nat /\ l \in Nat
      BY <1>1
    <3>1. k < j /\ j # l
      BY <1>0, <1>5, <2>2, <3>0
    <3>2. m \in Range(F[k])
      BY <1>1, <1>5, <2>2
    <3>3. n \in Range(F[j])
      BY <1>1, <1>5, <2>1, <3>1
    <3>. QED
      BY <3>1, <3>2, <3>3 DEF InOrder
  <2>3. CASE j = l
    <3>0. k \in Nat /\ i \in Nat /\ j \in Nat /\ l \in Nat
      BY <1>1
    <3>1. i < k /\ i # l
      BY <1>0, <1>5, <2>1, <2>3, <3>0
    <3>2. m \in Range(F[i])
      BY <1>1, <1>5, <2>1, <3>1
    <3>3. n \in Range(F[k])
      BY <1>1, <1>5, <2>3
    <3>. QED
      BY <3>1, <3>2, <3>3 DEF InOrder
  <2>4. CASE i # l /\ j # l
    BY <1>1, <1>5, <2>1, <2>4 DEF InOrder
  <2>. QED
    BY <2>2, <2>3, <2>4
<1>6. CASE F[l] = <<>>
  <2>1. \A i \in Ages : \A n \in Range(F[i]) : \E j \in Ages : n \in Range(G[j])
    <3>1. Range(F[l]) = {}
      BY <1>6, RangeOfEmpty
    <3>. QED
      BY <1>1, <3>1
  <2>2. \A i \in Ages : \A n \in Range(G[i]) : \E j \in Ages : n \in Range(F[j])
    BY <1>1, <1>2
  <2>3. w > 0 => \E i \in Ages : w \in Range(G[i])
    BY <2>1 DEF InOrder
  <2>4. ASSUME ~holes, NEW i \in Ages, NEW n \in Range(G[i]), NEW m \in n..w
        PROVE  \E j \in Ages : m \in Range(G[j])
    <3>1. PICK j \in Ages : n \in Range(F[j])
      BY <2>2, <2>4
    <3>2. \E h \in Ages : m \in Range(F[h])
      BY <2>4, <3>1 DEF InOrder
    <3>. QED
      BY <2>1, <3>2
  <2>. QED
    BY <1>3, <1>4, <1>5, <2>3, <2>4 DEF InOrder
<1>7. CASE F[l] # <<>>
  <2>1. holes /\ (w > 0 => \E i \in Ages : w \in Range(G[i]))
    BY <1>0, <1>7
  <2>. QED
    BY <1>3, <1>4, <1>5, <2>1 DEF InOrder
<1>. QED
  BY <1>6, <1>7

(* The oldest file goes, and the newest holds the last line.               *)
LEMMA DropInOrder ==
  ASSUME NEW F \in FileLists, NEW w \in Nat, NEW holes, InOrder(F, w, holes),
         NEW G \in FileLists, G = [F EXCEPT ![MaxBackups] = <<>>], F[0] # <<>>
  PROVE  InOrder(G, w, holes)
<1>1. /\ Ages \subseteq Nat /\ MaxBackups \in Ages /\ MaxBackups > 0 /\ 0 \in Ages
      /\ G[MaxBackups] = <<>> /\ \A i \in Ages \ {MaxBackups} : G[i] = F[i]
      /\ \A i \in Ages : i <= MaxBackups
  BY AgesFacts DEF FileLists, Ages
<1>2. Range(G[MaxBackups]) = {} /\ DOMAIN G[MaxBackups] = {}
  BY <1>1, RangeOfEmpty
<1>3. \A i \in Ages : \A n \in Range(F[i]) : n \in Nat /\ 1 <= n /\ n <= w
  BY DEF InOrder
<1>4. \A i \in Ages : Range(G[i]) \subseteq Range(F[i])
  BY <1>1, <1>2
<1>5. \A i \in Ages : \A a, b \in DOMAIN G[i] : a < b => G[i][a] < G[i][b]
  BY <1>1, <1>2 DEF InOrder
<1>6. \A i, j \in Ages : i < j => \A m \in Range(G[i]), n \in Range(G[j]) : n < m
  BY <1>4 DEF InOrder
<1>7. w \in Range(F[0])
  <2>1. PICK m \in Range(F[0]) : m \in Nat /\ 0 < m /\ m <= w
    <3>1. Range(F[0]) # {}
      BY <1>1, RangeFacts DEF FileLists
    <3>. QED
      BY <1>1, <1>3, <3>1
  <2>2. PICK i \in Ages : w \in Range(F[i])
    BY <2>1 DEF InOrder
  <2>3. i > 0 => w < m
    BY <1>1, <2>1, <2>2 DEF InOrder
  <2>. QED
    BY <1>1, <2>1, <2>2, <2>3
<1>8. w \in Range(G[0])
  BY <1>1, <1>7
<1>9. ASSUME ~holes, NEW i \in Ages, NEW n \in Range(G[i]), NEW m \in n..w
      PROVE  \E j \in Ages : m \in Range(G[j])
  <2>1. i # MaxBackups /\ n \in Range(F[i])
    BY <1>2, <1>4
  <2>2. PICK j \in Ages : m \in Range(F[j])
    BY <1>9, <2>1 DEF InOrder
  <2>3. j # MaxBackups
    <3> SUFFICES ASSUME j = MaxBackups PROVE FALSE
      OBVIOUS
    <3>1. i < j
      BY <1>1, <2>1
    <3>2. m < n
      BY <2>1, <2>2, <3>1 DEF InOrder
    <3>3. n \in Nat /\ m \in Nat
      BY <1>3, <2>1, <2>2
    <3>. QED
      BY <3>2, <3>3
  <2>. QED
    BY <1>1, <2>2, <2>3
<1>. QED
  BY <1>1, <1>3, <1>4, <1>5, <1>6, <1>8, <1>9 DEF InOrder

-----------------------------------------------------------------------------
(* The round of a rotation that is due: the slot behind it is empty.       *)
Vacant(i) == logPc = "shift" /\ i = shiftAt + 1
FirstHeld == \E i \in Ages : 1 \in Range(ByAge[i])

(* Without a fault so far: every backup is full, there is none without the *)
(* newer ones, and nothing is dropped before all are there.                *)
Steady ==
  /\ ~shiftFailed
  /\ \A i \in 1..MaxBackups : backups[i] # NoFile => Len(backups[i]) = FileLines
  /\ \A i, j \in 1..MaxBackups :
       i < j /\ backups[j] # NoFile /\ ~Vacant(i) => backups[i] # NoFile
  /\ written > 0 =>
       FirstHeld \/ \A i \in 1..MaxBackups : backups[i] # NoFile \/ Vacant(i)

(* LogKeepsOrder rests on where the rotation stands: the file that is open *)
(* is as long as size says, the one about to be moved is full, and a       *)
(* backup is only moved to a number that is free.                          *)
LogInv ==
  /\ LogTypeOK
  /\ InOrder(ByAge, written, shiftFailed)
  /\ current # NoFile => Len(current) <= FileLines
  /\ logPc = "shift" \/ logOpen => current # NoFile /\ size = Len(current)
  /\ logPc = "shift" => size = FileLines /\ shiftAt < MaxBackups
  /\ logPc = "shift" /\ ~shiftFailed => backups[shiftAt + 1] = NoFile
  /\ logPc = "open" => current = NoFile
  /\ logPc # "ready" => ~logOpen /\ written < MaxLines
  /\ logFaults = 0 => Steady

LEMMA NoFileIsNone == NoFile \notin Seq(1..MaxLines)
<1> SUFFICES ASSUME NoFile \in Seq(1..MaxLines) PROVE FALSE
  OBVIOUS
<1>1. NoFile[1] = 0 /\ 1 \in 1..Len(NoFile)
  BY DEF NoFile
<1>2. NoFile[1] \in 1..MaxLines
  BY <1>1, ElementOfSeq
<1>. QED
  BY <1>1, <1>2

FilesAre ==
  /\ ByAge \in FileLists
  /\ ByAge[0] = IF current = NoFile THEN <<>> ELSE current
  /\ \A i \in 1..MaxBackups :
       ByAge[i] = IF backups[i] = NoFile THEN <<>> ELSE backups[i]

LEMMA FilesTyped == LogTypeOK => FilesAre
<1> SUFFICES ASSUME LogTypeOK PROVE FilesAre
  OBVIOUS
<1>1. ByAge[0] = IF current = NoFile THEN <<>> ELSE current
  BY AgesFacts DEF ByAge, Lines
<1>2. ASSUME NEW i \in 1..MaxBackups
      PROVE  ByAge[i] = IF backups[i] = NoFile THEN <<>> ELSE backups[i]
  <2>1. i # 0 /\ i \in Ages
    BY AgesFacts
  <2>. QED
    BY <2>1 DEF ByAge, Lines
<1>3. ASSUME NEW s \in LogFiles
      PROVE  (IF s = NoFile THEN <<>> ELSE s) \in Seq(Nat)
  <2>1. 1..MaxLines \subseteq Nat
    BY AgesFacts
  <2>2. CASE s = NoFile
    BY <2>2
  <2>3. CASE s # NoFile
    <3>1. s \in Seq(1..MaxLines)
      BY <2>3 DEF LogFiles
    <3>2. s \in Seq(Nat)
      BY <2>1, <3>1, SeqMonotonic
    <3>. QED
      BY <2>3, <3>2
  <2>. QED
    BY <2>2, <2>3
<1>4. current \in LogFiles /\ \A i \in 1..MaxBackups : backups[i] \in LogFiles
  BY DEF LogTypeOK
<1>5. ASSUME NEW i \in Ages PROVE ByAge[i] \in Seq(Nat)
  <2>1. i = 0 \/ i \in 1..MaxBackups
    BY AgesFacts
  <2>. QED
    BY <1>1, <1>2, <1>3, <1>4, <2>1
<1>6. ByAge \in FileLists
  BY <1>5 DEF FileLists, ByAge
<1>. QED
  BY <1>1, <1>2, <1>6 DEF FilesAre

LEMMA LogInitInv == LogInit => LogInv
<1> SUFFICES ASSUME LogInit PROVE LogInv
  OBVIOUS
<1>1. LogTypeOK
  <2>1. <<>> \in LogFiles /\ NoFile \in LogFiles
    BY DEF LogFiles
  <2>2. current \in LogFiles /\ backups \in [1..MaxBackups -> LogFiles]
    BY <2>1 DEF LogInit
  <2>3. /\ 0 \in 0..FileLines /\ 0 \in 0..MaxBackups /\ 0 \in 0..MaxLines
        /\ 0 \in 0..MaxLogFaults
    BY LogAssumption
  <2>. QED
    BY <2>2, <2>3 DEF LogInit, LogTypeOK
<1>2. \A i \in Ages : ByAge[i] = <<>>
  <2>1. \A i \in 1..MaxBackups : backups[i] = NoFile
    BY DEF LogInit
  <2>2. current = <<>>
    BY DEF LogInit
  <2>. QED
    BY <1>1, <2>1, <2>2, AgesFacts, FilesTyped DEF FilesAre
<1>3. written = 0 /\ size = 0 /\ Len(<<>>) = 0 /\ <<>> # NoFile
  BY DEF LogInit, NoFile
<1>4. InOrder(ByAge, written, shiftFailed)
  <2>1. \A i \in Ages : Range(ByAge[i]) = {} /\ DOMAIN ByAge[i] = {}
    BY <1>2, RangeOfEmpty
  <2>2. InOrder(ByAge, 0, shiftFailed)
    BY <2>1 DEF InOrder
  <2>. QED
    BY <1>3, <2>2
<1>5. Steady
  BY <1>3 DEF LogInit, Steady
<1>. QED
  BY <1>1, <1>3, <1>4, <1>5, AgesFacts DEF LogInit, LogInv

(* What the invariant says of the directory before and after a step.       *)
LEMMA LogGoal == LogInv => LogKeepsOrder
<1> SUFFICES ASSUME LogInv PROVE LogKeepsOrder
  OBVIOUS
<1>1. /\ ByAge \in FileLists /\ \A i \in Ages : ByAge[i] = Lines(i)
      /\ InOrder(ByAge, written, shiftFailed) /\ written \in Nat
  <2>1. LogTypeOK /\ InOrder(ByAge, written, shiftFailed)
    BY DEF LogInv
  <2>. QED
    BY <2>1, FilesTyped DEF FilesAre, ByAge, LogTypeOK
<1>2. \A n : n \in Held <=> \E i \in Ages : n \in Range(ByAge[i])
  BY <1>1 DEF Held
<1>3. Held \subseteq 1..written
  BY <1>1, <1>2 DEF InOrder
<1>4. /\ \A i \in Ages : \A a, b \in DOMAIN Lines(i) : a < b => Lines(i)[a] < Lines(i)[b]
      /\ \A i, j \in Ages : i < j =>
           \A m \in Range(Lines(i)), n \in Range(Lines(j)) : n < m
      /\ written > 0 => written \in Held
  BY <1>1, <1>2 DEF InOrder
<1>5. ASSUME ~shiftFailed, NEW n \in Held PROVE n..written \subseteq Held
  <2>1. PICK i \in Ages : n \in Range(ByAge[i])
    BY <1>2
  <2>2. ASSUME NEW m \in n..written PROVE m \in Held
    BY <1>1, <1>2, <1>5, <2>1, <2>2 DEF InOrder
  <2>. QED
    BY <2>2
<1>6. ASSUME logFaults = 0, written > 0
      PROVE  \/ 1 \in Held
             \/ \E i \in Ages : \A j \in Ages \ {i} : Len(Lines(j)) = FileLines
  <2>1. Steady /\ LogTypeOK
    BY <1>6 DEF LogInv
  <2>2. CASE FirstHeld
    BY <1>2, <2>2 DEF FirstHeld
  <2>3. CASE ~FirstHeld
    <3>1. ASSUME NEW j \in 1..MaxBackups, ~Vacant(j) PROVE Len(Lines(j)) = FileLines
      <4>1. backups[j] # NoFile
        BY <1>6, <2>1, <2>3, <3>1 DEF Steady
      <4>2. j \in Ages /\ ByAge[j] = backups[j]
        BY <2>1, <3>1, <4>1, FilesTyped, AgesFacts DEF FilesAre
      <4>3. Len(backups[j]) = FileLines
        BY <2>1, <3>1, <4>1 DEF Steady
      <4>. QED
        BY <1>1, <4>2, <4>3
    <3>2. CASE logPc = "shift"
      <4>1. shiftAt + 1 \in Ages
        BY <2>1, <3>2, AgesFacts DEF LogInv, LogTypeOK, Ages
      <4>2. Len(Lines(0)) = FileLines
        <5>1. current # NoFile /\ Len(current) = FileLines
          BY <3>2 DEF LogInv
        <5>. QED
          BY <1>1, <2>1, <5>1, FilesTyped, AgesFacts DEF FilesAre
      <4>3. \A j \in Ages \ {shiftAt + 1} : Len(Lines(j)) = FileLines
        BY <3>1, <4>2, AgesFacts DEF Vacant
      <4>. QED
        BY <4>1, <4>3
    <3>3. CASE logPc # "shift"
      <4>1. \A j \in Ages \ {0} : Len(Lines(j)) = FileLines
        BY <3>1, <3>3, AgesFacts DEF Vacant
      <4>. QED
        BY <4>1, AgesFacts
    <3>. QED
      BY <3>2, <3>3
  <2>. QED
    BY <2>2, <2>3
<1>. QED
  BY <1>3, <1>4, <1>5, <1>6 DEF LogKeepsOrder

-----------------------------------------------------------------------------
(* A line is accepted: into the open file, or as the first of a fresh one. *)
LEMMA AcceptKeeps ==
  ASSUME LogInv, LogTypeOK', NEW file \in Seq(1..MaxLines), AcceptLine(file),
         file = IF current = NoFile THEN <<>> ELSE current,
         logPc # "shift", logPc' # "shift", UNCHANGED <<backups, shiftFailed, logFaults>>
  PROVE  /\ InOrder(ByAge, written, shiftFailed)'
         /\ logFaults' = 0 => Steady'
<1>1. LogTypeOK /\ InOrder(ByAge, written, shiftFailed) /\ written \in Nat
  BY DEF LogInv, LogTypeOK
<1>2. PICK F : F = ByAge
  OBVIOUS
<1>3. PICK G : G = ByAge'
  OBVIOUS
<1>4. FilesAre
  BY <1>1, FilesTyped
<1>5. FilesAre'
  BY FilesTyped, PTL
<1>6. /\ F \in FileLists /\ G \in FileLists
      /\ F[0] = file /\ G[0] = IF current' = NoFile THEN <<>> ELSE current'
      /\ \A i \in 1..MaxBackups : G[i] = F[i]
  BY <1>2, <1>3, <1>4, <1>5 DEF FilesAre
<1>7. current' = Append(file, written + 1) /\ written' = written + 1
  BY DEF AcceptLine
<1>8. current' # NoFile
  <2>1. current'[Len(file) + 1] = written + 1 /\ Len(file) \in Nat
    BY <1>1, <1>7, AppendProperties, AgesFacts
  <2>2. Len(current') = Len(file) + 1
    BY <1>7, <1>1
  <2>3. Len(NoFile) = 1 /\ NoFile[1] = 0
    BY DEF NoFile
  <2>. QED
    BY <1>1, <2>1, <2>2, <2>3
<1>9. G[0] = Append(F[0], written + 1)
  BY <1>6, <1>7, <1>8
<1>10. G = [F EXCEPT ![0] = Append(F[0], written + 1)]
  BY <1>6, <1>9, AgesFacts DEF FileLists
<1>11. InOrder(G, written + 1, shiftFailed)
  BY <1>1, <1>2, <1>6, <1>10, AppendInOrder
<1>12. InOrder(ByAge, written, shiftFailed)'
  BY <1>3, <1>7, <1>11
<1>13. ASSUME logFaults' = 0 PROVE Steady'
  <2>1. Steady
    BY <1>13 DEF LogInv
  <2>2. Range(G[0]) = Range(F[0]) \cup {written + 1}
    <3>1. F[0] \in Seq(Nat) /\ written + 1 \in Nat
      BY <1>1, <1>6, AgesFacts DEF FileLists
    <3>. QED
      BY <1>9, <3>1, RangeFacts
  <2>3. \A i \in Ages : Range(F[i]) \subseteq Range(G[i])
    BY <1>6, <2>2, AgesFacts
  <2>4. FirstHeld => FirstHeld'
    BY <1>2, <1>3, <2>3 DEF FirstHeld
  <2>5. written = 0 => FirstHeld'
    BY <1>3, <2>2, AgesFacts DEF FirstHeld
  <2>6. \A i : ~Vacant(i) /\ ~Vacant(i)'
    BY DEF Vacant
  <2>7. FirstHeld' \/ \A i \in 1..MaxBackups : backups'[i] # NoFile \/ Vacant(i)'
    BY <1>1, <2>1, <2>4, <2>5, <2>6 DEF Steady
  <2>. QED
    BY <2>1, <2>6, <2>7 DEF Steady
<1>. QED
  BY <1>12, <1>13

LEMMA LogWriteKeeps == LogInv /\ LogWrite => LogInv'
<1> SUFFICES ASSUME LogInv, LogWrite PROVE LogInv'
  OBVIOUS
<1>1. /\ logPc = "ready" /\ logOpen /\ written < MaxLines /\ size < FileLines
      /\ AcceptLine(current) /\ size' = size + 1
      /\ UNCHANGED <<backups, logPc, logOpen, shiftAt, shiftFailed, logFaults>>
  BY DEF LogWrite
<1>2. LogTypeOK /\ current # NoFile /\ size = Len(current)
  BY <1>1 DEF LogInv
<1>3. current \in Seq(1..MaxLines) /\ written \in Nat /\ MaxLines \in Nat
      /\ size \in Nat /\ FileLines \in Nat
  BY <1>2, AgesFacts DEF LogTypeOK, LogFiles
<1>4. written + 1 \in 1..MaxLines
  BY <1>1, <1>3
<1>5. /\ current' = Append(current, written + 1) /\ written' = written + 1
      /\ current' \in Seq(1..MaxLines) /\ Len(current') = Len(current) + 1
  BY <1>1, <1>3, <1>4, AppendProperties DEF AcceptLine
<1>6. current' # NoFile
  BY <1>5, NoFileIsNone
<1>7. LogTypeOK'
  BY <1>1, <1>2, <1>3, <1>4, <1>5 DEF LogTypeOK, LogFiles
<1>8. InOrder(ByAge, written, shiftFailed)' /\ (logFaults' = 0 => Steady')
  BY <1>1, <1>2, <1>3, <1>7, AcceptKeeps
<1>9. Len(current') <= FileLines
  BY <1>1, <1>2, <1>3, <1>5
<1>. QED
  BY <1>1, <1>2, <1>5, <1>6, <1>7, <1>8, <1>9 DEF LogInv

LEMMA OpenFreshKeeps == LogInv /\ OpenFresh => LogInv'
<1> SUFFICES ASSUME LogInv, OpenFresh PROVE LogInv'
  OBVIOUS
<1>1. /\ logPc = "open" /\ logPc' = "ready" /\ logOpen' = TRUE /\ size' = 1
      /\ AcceptLine(<<>>) /\ UNCHANGED <<backups, shiftAt, shiftFailed, logFaults>>
  BY DEF OpenFresh
<1>2. LogTypeOK /\ current = NoFile /\ written < MaxLines
  BY <1>1 DEF LogInv
<1>3. written \in Nat /\ MaxLines \in Nat /\ FileLines \in Nat \ {0}
  BY <1>2, AgesFacts DEF LogTypeOK
<1>4. written + 1 \in 1..MaxLines /\ <<>> \in Seq(1..MaxLines)
  BY <1>2, <1>3
<1>5. /\ current' = Append(<<>>, written + 1) /\ written' = written + 1
      /\ current' \in Seq(1..MaxLines) /\ Len(current') = 1
  BY <1>1, <1>4, AppendProperties DEF AcceptLine
<1>6. current' # NoFile
  BY <1>5, NoFileIsNone
<1>7. LogTypeOK'
  BY <1>1, <1>2, <1>3, <1>4, <1>5 DEF LogTypeOK, LogFiles
<1>8. InOrder(ByAge, written, shiftFailed)' /\ (logFaults' = 0 => Steady')
  BY <1>1, <1>2, <1>4, <1>7, AcceptKeeps
<1>9. Len(current') <= FileLines
  BY <1>3, <1>5
<1>. QED
  BY <1>1, <1>2, <1>5, <1>6, <1>7, <1>8, <1>9 DEF LogInv

(* The first round of a rotation, or none: the newest file is full, and    *)
(* the last number is made free.                                           *)
LEMMA RotateStartKeeps == LogInv /\ RotateStart => LogInv'
<1> SUFFICES ASSUME LogInv, RotateStart PROVE LogInv'
  OBVIOUS
<1>1. /\ logPc = "ready" /\ logOpen /\ written < MaxLines /\ size >= FileLines
      /\ logOpen' = FALSE /\ backups' = [backups EXCEPT ![MaxBackups] = NoFile]
      /\ shiftAt' = MaxBackups - 1 /\ logPc' = "shift"
      /\ UNCHANGED <<current, size, written, shiftFailed, logFaults>>
  BY DEF RotateStart
<1>2. LogTypeOK /\ current # NoFile /\ size = Len(current)
  BY <1>1 DEF LogInv
<1>3. /\ size \in 0..FileLines /\ FileLines \in Nat \ {0} /\ size = FileLines
      /\ MaxBackups \in 1..MaxBackups /\ MaxBackups \in Nat \ {0} /\ written \in Nat
      /\ shiftAt' \in 0..MaxBackups /\ shiftAt' + 1 = MaxBackups
      /\ shiftAt' < MaxBackups
  BY <1>1, <1>2, AgesFacts DEF LogTypeOK
<1>4. /\ backups \in [1..MaxBackups -> LogFiles] /\ backups'[MaxBackups] = NoFile
      /\ \A i \in 1..MaxBackups : i # MaxBackups => backups'[i] = backups[i]
      /\ backups' \in [1..MaxBackups -> LogFiles]
  BY <1>1, <1>2, <1>3 DEF LogTypeOK, LogFiles
<1>5. LogTypeOK'
  BY <1>1, <1>2, <1>3, <1>4 DEF LogTypeOK
<1>6. PICK F : F = ByAge
  OBVIOUS
<1>7. PICK G : G = ByAge'
  OBVIOUS
<1>8. FilesAre /\ FilesAre'
  BY <1>2, <1>5, FilesTyped, PTL
<1>9. /\ F \in FileLists /\ G \in FileLists /\ F[0] = current /\ G[0] = current
      /\ G[MaxBackups] = <<>>
      /\ \A i \in 1..MaxBackups : i # MaxBackups => G[i] = F[i]
  BY <1>1, <1>2, <1>3, <1>4, <1>6, <1>7, <1>8 DEF FilesAre
<1>10. G = [F EXCEPT ![MaxBackups] = <<>>]
  BY <1>3, <1>9, AgesFacts DEF FileLists
<1>11. F[0] # <<>>
  <2>1. Len(F[0]) = FileLines /\ Len(<<>>) = 0
    BY <1>2, <1>3, <1>9
  <2>. QED
    BY <1>3, <2>1
<1>12. InOrder(F, written, shiftFailed)
  BY <1>6 DEF LogInv
<1>13. InOrder(G, written, shiftFailed)
  BY <1>3, <1>9, <1>10, <1>11, <1>12, DropInOrder
<1>14. InOrder(ByAge, written, shiftFailed)'
  BY <1>1, <1>7, <1>13
<1>15. ASSUME logFaults = 0 PROVE Steady'
  <2>1. Steady
    BY <1>15 DEF LogInv
  <2>2. /\ \A i : ~Vacant(i)
        /\ \A i : Vacant(i)' <=> i = MaxBackups
    BY <1>1, <1>3 DEF Vacant
  <2>3. ASSUME NEW i \in 1..MaxBackups, NEW j \in 1..MaxBackups, i < j,
               backups'[j] # NoFile
        PROVE  backups'[i] # NoFile
    <3>1. j # MaxBackups /\ i # MaxBackups
      BY <1>3, <1>4, <2>3
    <3>. QED
      BY <1>4, <2>1, <2>2, <2>3, <3>1 DEF Steady
  <2>4. \A i \in 1..MaxBackups : backups'[i] # NoFile => Len(backups'[i]) = FileLines
    BY <1>4, <2>1 DEF Steady
  <2>5. CASE backups[MaxBackups] = NoFile
    <3>1. \A i \in 1..MaxBackups : backups'[i] = backups[i]
      BY <1>4, <2>5
    <3>2. \A i \in Ages : G[i] = F[i]
      BY <1>1, <1>6, <1>7, <1>8, <3>1, AgesFacts DEF FilesAre
    <3>3. FirstHeld => FirstHeld'
      BY <1>6, <1>7, <3>2 DEF FirstHeld
    <3>4. written > 0 => FirstHeld'
      BY <1>3, <2>1, <2>2, <2>5, <3>3 DEF Steady
    <3>. QED
      BY <1>1, <2>1, <2>3, <2>4, <3>4 DEF Steady
  <2>6. CASE backups[MaxBackups] # NoFile
    <3>1. \A i \in 1..MaxBackups : backups'[i] # NoFile \/ Vacant(i)'
      BY <1>3, <1>4, <2>1, <2>2, <2>6 DEF Steady
    <3>. QED
      BY <1>1, <2>1, <2>3, <2>4, <3>1 DEF Steady
  <2>. QED
    BY <2>5, <2>6
<1>16. backups'[shiftAt' + 1] = NoFile
  BY <1>3, <1>4
<1>. QED
  BY <1>1, <1>2, <1>3, <1>5, <1>14, <1>15, <1>16 DEF LogInv

(* One round of the loop.                                                  *)
LEMMA ShiftKeeps == LogInv /\ Shift => LogInv'
<1> SUFFICES ASSUME LogInv, Shift PROVE LogInv'
  OBVIOUS
<1>1. /\ logPc = "shift" /\ shiftAt >= 1 /\ shiftAt' = shiftAt - 1
      /\ backups' = IF backups[shiftAt] = NoFile THEN backups
                    ELSE [backups EXCEPT ![shiftAt + 1] = backups[shiftAt],
                                         ![shiftAt] = NoFile]
      /\ UNCHANGED <<current, logPc, logOpen, size, written, shiftFailed, logFaults>>
  BY DEF Shift
<1>2. /\ LogTypeOK /\ current # NoFile /\ size = Len(current) /\ size = FileLines
      /\ shiftAt < MaxBackups /\ (~shiftFailed => backups[shiftAt + 1] = NoFile)
      /\ ~logOpen /\ written < MaxLines
  BY <1>1 DEF LogInv
<1>3. PICK k, l : k = shiftAt /\ l = shiftAt + 1
  OBVIOUS
<1>4. /\ k \in 1..MaxBackups /\ l \in 1..MaxBackups /\ l = k + 1 /\ k # l
      /\ k \in Ages /\ l \in Ages /\ k # 0 /\ l # 0 /\ k \in Nat /\ k >= 1
      /\ shiftAt' \in 0..MaxBackups /\ shiftAt' + 1 = k /\ shiftAt' < MaxBackups
      /\ written \in Nat /\ FileLines \in Nat \ {0}
  BY <1>1, <1>2, <1>3, AgesFacts DEF LogTypeOK
<1>5. /\ backups \in [1..MaxBackups -> LogFiles]
      /\ backups[k] = NoFile => backups' = backups
      /\ backups[k] # NoFile =>
           /\ backups'[l] = backups[k] /\ backups'[k] = NoFile
           /\ \A i \in (1..MaxBackups) \ {k, l} : backups'[i] = backups[i]
      /\ backups' \in [1..MaxBackups -> LogFiles]
  BY <1>1, <1>2, <1>3, <1>4 DEF LogTypeOK, LogFiles
<1>6. LogTypeOK'
  BY <1>1, <1>2, <1>4, <1>5 DEF LogTypeOK
<1>7. PICK F : F = ByAge
  OBVIOUS
<1>8. PICK G : G = ByAge'
  OBVIOUS
<1>9. FilesAre /\ FilesAre'
  BY <1>2, <1>6, FilesTyped, PTL
<1>10. /\ F \in FileLists /\ G \in FileLists /\ F[0] = current /\ G[0] = current
       /\ \A i \in 1..MaxBackups :
            /\ F[i] = IF backups[i] = NoFile THEN <<>> ELSE backups[i]
            /\ G[i] = IF backups'[i] = NoFile THEN <<>> ELSE backups'[i]
  BY <1>1, <1>2, <1>7, <1>8, <1>9 DEF FilesAre
<1>11. InOrder(F, written, shiftFailed)
  BY <1>7 DEF LogInv
<1>12. backups'[k] = NoFile
  BY <1>5
<1>13. CASE backups[k] = NoFile
  <2>1. G = F
    <3>1. \A i \in Ages : G[i] = F[i]
      BY <1>5, <1>10, <1>13, AgesFacts
    <3>. QED
      BY <1>10, <3>1 DEF FileLists
  <2>2. InOrder(ByAge, written, shiftFailed)'
    BY <1>1, <1>8, <1>11, <2>1
  <2>3. ASSUME logFaults = 0 PROVE Steady'
    <3>1. Steady /\ backups' = backups /\ \A i : (Vacant(i) <=> i = l) /\ (Vacant(i)' <=> i = k)
      BY <1>1, <1>3, <1>4, <1>5, <1>13, <2>3 DEF LogInv, Vacant
    <3>2. ASSUME NEW i \in 1..MaxBackups, NEW j \in 1..MaxBackups, i < j,
                 backups[j] # NoFile, i # k
          PROVE  backups[i] # NoFile
      <4>1. i # l
        <5> SUFFICES ASSUME i = l PROVE FALSE
          OBVIOUS
        <5>1. k < j
          BY <1>4, <3>2
        <5>. QED
          BY <1>4, <1>13, <3>1, <3>2, <5>1 DEF Steady
      <4>. QED
        BY <3>1, <3>2, <4>1 DEF Steady
    <3>3. FirstHeld <=> FirstHeld'
      BY <1>7, <1>8, <2>1 DEF FirstHeld
    <3>4. written > 0 => FirstHeld'
      BY <1>4, <1>13, <3>1, <3>3 DEF Steady
    <3>. QED
      BY <1>1, <3>1, <3>2, <3>4 DEF Steady
  <2>. QED
    BY <1>1, <1>2, <1>3, <1>4, <1>6, <1>12, <2>2, <2>3 DEF LogInv
<1>14. CASE backups[k] # NoFile
  <2>1. G[l] = F[k] /\ G[k] = <<>> /\ \A i \in Ages \ {k, l} : G[i] = F[i]
    BY <1>4, <1>5, <1>10, <1>14, AgesFacts
  <2>2. G = [F EXCEPT ![k + 1] = F[k], ![k] = <<>>]
    BY <1>4, <1>10, <2>1 DEF FileLists
  <2>3. ~shiftFailed => F[k + 1] = <<>>
    BY <1>2, <1>3, <1>4, <1>10
  <2>4. written > 0 => \E i \in Ages : written \in Range(G[i])
    <3> SUFFICES ASSUME written > 0 PROVE written \in Range(G[0])
      BY AgesFacts
    <3>1. PICK i \in Ages : written \in Range(F[i])
      BY <1>11 DEF InOrder
    <3>2. PICK m : m \in Range(F[0])
      <4>1. F[0] \in Seq(Nat) /\ Len(F[0]) = FileLines
        BY <1>2, <1>10, AgesFacts DEF FileLists
      <4>2. 1 \in DOMAIN F[0]
        BY <1>4, <4>1
      <4>. QED
        BY <4>2 DEF Range
    <3>3. m \in Nat /\ m <= written /\ 0 \in Ages
      BY <1>11, <3>2, AgesFacts DEF InOrder
    <3>4. i > 0 => written < m
      BY <1>11, <3>1, <3>2, <3>3 DEF InOrder
    <3>5. i \in Nat
      BY AgesFacts
    <3>. QED
      BY <1>4, <1>10, <3>1, <3>3, <3>4, <3>5
  <2>5. InOrder(G, written, shiftFailed)
    BY <1>2, <1>4, <1>10, <1>11, <2>2, <2>3, <2>4, MoveInOrder DEF LogTypeOK
  <2>6. InOrder(ByAge, written, shiftFailed)'
    BY <1>1, <1>8, <2>5
  <2>7. ASSUME logFaults = 0 PROVE Steady'
    <3>1. Steady /\ \A i : (Vacant(i) <=> i = l) /\ (Vacant(i)' <=> i = k)
      BY <1>1, <1>3, <1>4, <2>7 DEF LogInv, Vacant
    <3>2. backups[l] = NoFile
      BY <1>2, <1>3, <3>1 DEF Steady
    <3>3. \A i \in 1..MaxBackups : backups'[i] # NoFile => Len(backups'[i]) = FileLines
      BY <1>4, <1>5, <1>14, <3>1 DEF Steady
    <3>4. ASSUME NEW i \in 1..MaxBackups, NEW j \in 1..MaxBackups, i < j,
                 backups'[j] # NoFile, i # k
          PROVE  backups'[i] # NoFile
      <4>1. CASE i = l
        BY <1>5, <1>14, <4>1
      <4>2. CASE i # l /\ j = l
        <5>1. i < k
          BY <1>4, <3>4, <4>2
        <5>2. backups[i] # NoFile
          BY <1>4, <1>14, <3>1, <4>2, <5>1 DEF Steady
        <5>. QED
          BY <1>5, <1>14, <3>4, <4>2, <5>2
      <4>3. CASE i # l /\ j # l
        <5>1. j # k
          BY <1>12, <3>4
        <5>2. backups[j] # NoFile
          BY <1>5, <1>14, <3>4, <4>3, <5>1
        <5>3. backups[i] # NoFile
          BY <3>1, <3>4, <4>3, <5>2 DEF Steady
        <5>. QED
          BY <1>5, <1>14, <3>4, <4>3, <5>3
      <4>. QED
        BY <4>1, <4>2, <4>3
    <3>5. FirstHeld => FirstHeld'
      <4> SUFFICES ASSUME FirstHeld PROVE FirstHeld'
        OBVIOUS
      <4>1. PICK i \in Ages : 1 \in Range(F[i])
        BY <1>7 DEF FirstHeld
      <4>2. i # l
        BY <1>4, <1>10, <3>2, <4>1, RangeOfEmpty
      <4>3. \E j \in Ages : 1 \in Range(G[j])
        BY <1>4, <2>1, <4>1, <4>2
      <4>. QED
        BY <1>8, <4>3 DEF FirstHeld
    <3>6. ASSUME \A i \in 1..MaxBackups : backups[i] # NoFile \/ Vacant(i)
          PROVE  \A i \in 1..MaxBackups : backups'[i] # NoFile \/ Vacant(i)'
      BY <1>4, <1>5, <1>14, <3>1, <3>6
    <3>7. written > 0 =>
            FirstHeld' \/ \A i \in 1..MaxBackups : backups'[i] # NoFile \/ Vacant(i)'
      BY <3>1, <3>5, <3>6 DEF Steady
    <3>. QED
      BY <1>1, <3>1, <3>3, <3>4, <3>7 DEF Steady
  <2>. QED
    BY <1>1, <1>2, <1>3, <1>4, <1>6, <1>12, <2>6, <2>7 DEF LogInv
<1>. QED
  BY <1>13, <1>14

(* The steps that leave the lines where they are.                          *)
LEMMA SameLines ==
  ASSUME LogInv, LogTypeOK', UNCHANGED <<backups, written>>,
         shiftFailed => shiftFailed',
         current' = current \/ (current = NoFile /\ current' = <<>>)
  PROVE  InOrder(ByAge, written, shiftFailed)'
<1>1. LogTypeOK /\ InOrder(ByAge, written, shiftFailed)
  BY DEF LogInv
<1>2. PICK F : F = ByAge
  OBVIOUS
<1>3. PICK G : G = ByAge'
  OBVIOUS
<1>4. FilesAre /\ FilesAre'
  BY <1>1, FilesTyped, PTL
<1>5. \A i \in Ages : G[i] = F[i]
  <2>1. <<>> # NoFile
    BY DEF NoFile
  <2>. QED
    BY <1>2, <1>3, <1>4, <2>1, AgesFacts DEF FilesAre
<1>6. G = F
  BY <1>2, <1>3, <1>4, <1>5 DEF FilesAre, FileLists
<1>7. InOrder(F, written, shiftFailed')
  <2>1. CASE shiftFailed'
    BY <1>1, <1>2, <2>1 DEF InOrder
  <2>2. CASE ~shiftFailed'
    BY <1>1, <1>2, <2>2 DEF InOrder
  <2>. QED
    BY <2>1, <2>2
<1>. QED
  BY <1>3, <1>6, <1>7

LEMMA LogFaultKeeps ==
  LogInv /\ (ShiftFails \/ RotateFails \/ LogRestart) => LogInv'
<1> SUFFICES ASSUME LogInv, ShiftFails \/ RotateFails \/ LogRestart PROVE LogInv'
  OBVIOUS
<1>1. LogTypeOK /\ MaxBackups \in Nat \ {0} /\ MaxLogFaults \in Nat
  BY LogAssumption DEF LogInv
<1>2. /\ logFaults \in 0..MaxLogFaults /\ logFaults' = logFaults + 1
      /\ logFaults < MaxLogFaults
  BY <1>1 DEF ShiftFails, RotateFails, LogRestart, LogFault, LogTypeOK
<1>3. logFaults' \in 0..MaxLogFaults /\ logFaults' # 0
  BY <1>1, <1>2
<1>4. CASE ShiftFails
  <2>1. /\ logPc = "shift" /\ shiftAt >= 1 /\ shiftFailed' = TRUE /\ shiftAt' = shiftAt - 1
        /\ UNCHANGED <<current, backups, logPc, logOpen, size, written>>
    BY <1>4 DEF ShiftFails
  <2>2. shiftAt \in 0..MaxBackups /\ shiftAt < MaxBackups
    BY <1>1, <2>1 DEF LogInv, LogTypeOK
  <2>3. shiftAt' \in 0..MaxBackups /\ shiftAt' < MaxBackups
    BY <1>1, <2>1, <2>2
  <2>4. LogTypeOK'
    BY <1>1, <1>3, <2>1, <2>3 DEF LogTypeOK
  <2>5. InOrder(ByAge, written, shiftFailed)'
    BY <2>1, <2>4, SameLines
  <2>. QED
    BY <1>3, <2>1, <2>3, <2>4, <2>5 DEF LogInv
<1>5. CASE RotateFails
  <2>1. /\ logPc \in {"shift", "open"} /\ logPc' = "ready"
        /\ UNCHANGED <<current, backups, logOpen, size, shiftAt, written, shiftFailed>>
    BY <1>5 DEF RotateFails
  <2>2. LogTypeOK'
    BY <1>1, <1>3, <2>1 DEF LogTypeOK
  <2>3. InOrder(ByAge, written, shiftFailed)'
    BY <2>1, <2>2, SameLines
  <2>. QED
    BY <1>3, <2>1, <2>2, <2>3 DEF LogInv
<1>6. CASE LogRestart
  <2>1. /\ current' = IF current = NoFile THEN <<>> ELSE current
        /\ size' = Len(current') /\ logOpen' = TRUE /\ shiftAt' = 0 /\ logPc' = "ready"
        /\ UNCHANGED <<backups, written, shiftFailed>>
    BY <1>6 DEF LogRestart
  <2>2. current' \in LogFiles /\ current' # NoFile
    <3>1. <<>> \in LogFiles /\ <<>> # NoFile
      BY DEF LogFiles, NoFile
    <3>. QED
      BY <1>1, <2>1, <3>1 DEF LogTypeOK
  <2>3. size' \in 0..FileLines
    <3>1. current # NoFile => current \in Seq(1..MaxLines) /\ Len(current) <= FileLines
      BY <1>1 DEF LogInv, LogTypeOK, LogFiles
    <3>2. FileLines \in Nat /\ Len(<<>>) = 0
      BY AgesFacts
    <3>. QED
      BY <2>1, <3>1, <3>2
  <2>4. LogTypeOK'
    BY <1>1, <1>3, <2>1, <2>2, <2>3 DEF LogTypeOK
  <2>5. InOrder(ByAge, written, shiftFailed)'
    BY <2>1, <2>4, SameLines
  <2>6. Len(current') <= FileLines
    BY <2>1, <2>3, AgesFacts
  <2>. QED
    BY <1>3, <2>1, <2>2, <2>4, <2>5, <2>6 DEF LogInv
<1>. QED
  BY <1>4, <1>5, <1>6

(* The newest file becomes the first backup.                               *)
LEMMA MoveCurrentKeeps == LogInv /\ MoveCurrent => LogInv'
<1> SUFFICES ASSUME LogInv, MoveCurrent PROVE LogInv'
  OBVIOUS
<1>1. /\ logPc = "shift" /\ shiftAt = 0 /\ logPc' = "open"
      /\ current # NoFile => current' = NoFile /\ backups' = [backups EXCEPT ![1] = current]
      /\ UNCHANGED <<logOpen, size, shiftAt, written, shiftFailed, logFaults>>
  BY DEF MoveCurrent
<1>2. /\ LogTypeOK /\ current # NoFile /\ Len(current) = FileLines
      /\ (~shiftFailed => backups[1] = NoFile) /\ ~logOpen /\ written < MaxLines
  <2>1. shiftAt + 1 = 1
    BY <1>1
  <2>. QED
    BY <1>1, <2>1 DEF LogInv
<1>3. 1 \in 1..MaxBackups /\ 0 \in Ages /\ 1 \in Ages /\ 0 + 1 = 1
  BY AgesFacts
<1>4. /\ current' = NoFile /\ backups \in [1..MaxBackups -> LogFiles]
      /\ backups'[1] = current /\ \A i \in (1..MaxBackups) \ {1} : backups'[i] = backups[i]
      /\ backups' \in [1..MaxBackups -> LogFiles] /\ current' \in LogFiles
  BY <1>1, <1>2, <1>3 DEF LogTypeOK, LogFiles
<1>5. LogTypeOK'
  BY <1>1, <1>2, <1>4 DEF LogTypeOK
<1>6. PICK F : F = ByAge
  OBVIOUS
<1>7. PICK G : G = ByAge'
  OBVIOUS
<1>8. FilesAre /\ FilesAre'
  BY <1>2, <1>5, FilesTyped, PTL
<1>9. /\ F \in FileLists /\ G \in FileLists /\ F[0] = current /\ G[0] = <<>>
      /\ \A i \in 1..MaxBackups :
            /\ F[i] = IF backups[i] = NoFile THEN <<>> ELSE backups[i]
            /\ G[i] = IF backups'[i] = NoFile THEN <<>> ELSE backups'[i]
  BY <1>2, <1>4, <1>6, <1>7, <1>8 DEF FilesAre
<1>10. InOrder(F, written, shiftFailed)
  BY <1>6 DEF LogInv
<1>11. G[1] = F[0] /\ \A i \in Ages \ {0, 1} : G[i] = F[i]
  BY <1>2, <1>3, <1>4, <1>9, AgesFacts
<1>0. PICK k : k = 0
  OBVIOUS
<1>12. k \in Ages /\ k + 1 \in Ages /\ G = [F EXCEPT ![k + 1] = F[k], ![k] = <<>>]
  <2>1. k + 1 = 1
    BY <1>0
  <2>2. G = [F EXCEPT ![1] = F[0], ![0] = <<>>]
    BY <1>3, <1>9, <1>11 DEF FileLists
  <2>. QED
    BY <1>0, <1>3, <2>1, <2>2
<1>13. ~shiftFailed => F[1] = <<>>
  BY <1>2, <1>3, <1>9
<1>14. written > 0 => \E i \in Ages : written \in Range(G[i])
  <2> SUFFICES ASSUME written > 0 PROVE written \in Range(F[0])
    BY <1>3, <1>11
  <2>1. PICK i \in Ages : written \in Range(F[i])
    BY <1>10 DEF InOrder
  <2>2. PICK m : m \in Range(F[0])
    <3>1. F[0] \in Seq(Nat) /\ Len(F[0]) = FileLines
      BY <1>2, <1>3, <1>9 DEF FileLists
    <3>2. 1 \in DOMAIN F[0]
      BY <3>1, AgesFacts
    <3>. QED
      BY <3>2 DEF Range
  <2>3. m \in Nat /\ m <= written /\ i \in Nat /\ written \in Nat
    BY <1>2, <1>3, <1>10, <2>2, AgesFacts DEF InOrder, LogTypeOK
  <2>4. i > 0 => written < m
    BY <1>3, <1>10, <2>1, <2>2 DEF InOrder
  <2>. QED
    BY <2>1, <2>3, <2>4
<1>15. InOrder(G, written, shiftFailed)
  <2>1. written \in Nat
    BY <1>2 DEF LogTypeOK
  <2>2. F[k + 1] = <<>> \/ (shiftFailed /\ (written > 0 => \E i \in Ages : written \in Range(G[i])))
    <3>1. k + 1 = 1
      BY <1>0
    <3>. QED
      BY <1>13, <1>14, <3>1
  <2>. QED
    BY <1>9, <1>10, <1>12, <2>1, <2>2, MoveInOrder
<1>16. InOrder(ByAge, written, shiftFailed)'
  BY <1>1, <1>7, <1>15
<1>17. ASSUME logFaults = 0 PROVE Steady'
  <2>1. Steady /\ \A i : (Vacant(i) <=> i = 1) /\ ~Vacant(i)'
    <3>1. shiftAt + 1 = 1
      BY <1>1
    <3>. QED
      BY <1>1, <1>17, <3>1 DEF LogInv, Vacant
  <2>2. backups[1] = NoFile
    BY <1>2, <2>1 DEF Steady
  <2>3. \A i \in 1..MaxBackups : backups'[i] # NoFile => Len(backups'[i]) = FileLines
    BY <1>2, <1>4, <2>1 DEF Steady
  <2>4. ASSUME NEW i \in 1..MaxBackups, NEW j \in 1..MaxBackups, i < j, backups'[j] # NoFile
        PROVE  backups'[i] # NoFile
    <3>1. CASE i = 1
      BY <1>2, <1>4, <3>1
    <3>2. CASE i # 1
      <4>1. j # 1 /\ backups[j] # NoFile
        BY <1>4, <2>4
      <4>. QED
        BY <1>4, <2>1, <2>4, <3>2, <4>1 DEF Steady
    <3>. QED
      BY <3>1, <3>2
  <2>5. FirstHeld => FirstHeld'
    <3> SUFFICES ASSUME FirstHeld PROVE FirstHeld'
      OBVIOUS
    <3>1. PICK i \in Ages : 1 \in Range(F[i])
      BY <1>6 DEF FirstHeld
    <3>2. i # 1
      BY <1>3, <1>9, <2>2, <3>1, RangeOfEmpty
    <3>3. \E j \in Ages : 1 \in Range(G[j])
      BY <1>3, <1>11, <3>1, <3>2
    <3>. QED
      BY <1>7, <3>3 DEF FirstHeld
  <2>6. ASSUME \A i \in 1..MaxBackups : backups[i] # NoFile \/ Vacant(i)
        PROVE  \A i \in 1..MaxBackups : backups'[i] # NoFile
    BY <1>2, <1>4, <2>1, <2>6
  <2>. QED
    BY <1>1, <2>1, <2>3, <2>4, <2>5, <2>6 DEF Steady
<1>. QED
  BY <1>1, <1>2, <1>4, <1>5, <1>16, <1>17 DEF LogInv

LEMMA LogStep == LogInv /\ [LogNext]_logVars => LogInv'
<1> SUFFICES ASSUME LogInv, [LogNext]_logVars PROVE LogInv'
  OBVIOUS
<1>1. CASE UNCHANGED logVars
  <2>1. UNCHANGED <<current, backups, logPc, logOpen, size, shiftAt, written,
                    shiftFailed, logFaults>>
    BY <1>1 DEF logVars
  <2>2. LogTypeOK'
    BY <2>1 DEF LogInv, LogTypeOK
  <2>3. InOrder(ByAge, written, shiftFailed)'
    BY <2>1, <2>2, SameLines
  <2>4. Steady => Steady'
    BY <2>1 DEF Steady, Vacant, FirstHeld, ByAge, Lines
  <2>. QED
    BY <2>1, <2>2, <2>3, <2>4 DEF LogInv
<1>. QED
  BY <1>1, LogWriteKeeps, RotateStartKeeps, ShiftKeeps, MoveCurrentKeeps, OpenFreshKeeps,
     LogFaultKeeps DEF LogNext

LEMMA LogAlways == LogSpec => []LogInv
BY LogInitInv, LogStep, PTL DEF LogSpec

(* Lines keep their order in and across the files, whatever fails during a *)
(* rotation, and the newest of them is never lost.                         *)
THEOREM LogAlwaysKeepsOrder == LogSpec => []LogKeepsOrder
BY LogAlways, LogGoal, PTL

-----------------------------------------------------------------------------
(* ---- A text cut into messages                                           *)
(* The least number of a set, and the greatest of one that has a bound.    *)
LEMMA LeastNumber ==
  ASSUME NEW T, T \subseteq Nat, T # {}
  PROVE  Min(T) \in T /\ \A y \in T : Min(T) <= y
<1>1. PICK x \in T : \A y \in T : ~ (<<y, x>> \in OpToRel(<,Nat))
  BY NatLessThanWellFounded, WFMin
<1>2. ASSUME NEW y \in T PROVE x <= y
  <2>1. ~ (<<y, x>> \in OpToRel(<,Nat))
    BY <1>1
  <2>2. ~ (y < x)
    BY <2>1 DEF OpToRel
  <2>. QED
    BY <2>2
<1>. QED
  BY <1>2 DEF Min

LEMMA GreatestNumber ==
  ASSUME NEW b \in Nat, NEW T, T \subseteq 0..b, T # {}
  PROVE  Max(T) \in T /\ \A y \in T : y <= Max(T)
<1> DEFINE B == {n \in Nat : \A x \in T : x <= n}
<1>1. B \subseteq Nat /\ b \in B
  OBVIOUS
<1>2. Min(B) \in B /\ \A n \in B : Min(B) <= n
  BY <1>1, LeastNumber
<1>3. PICK m \in B : \A n \in B : m <= n
  BY <1>2
<1>4. m \in T
  <2> SUFFICES ASSUME m \notin T PROVE FALSE
    OBVIOUS
  <2>1. PICK x \in T : TRUE
    OBVIOUS
  <2>2. x < m /\ m - 1 \in Nat
    BY <1>3, <2>1
  <2>3. m - 1 \in B
    BY <1>3, <2>2
  <2>. QED
    BY <1>3, <2>2, <2>3
<1>. QED
  BY <1>3, <1>4 DEF Max

LEMMA MoveHead ==
  ASSUME NEW S, NEW s \in Seq(S), NEW c \in Seq(S), c # <<>>
  PROVE  Append(s, Head(c)) \o Tail(c) = s \o c
  OBVIOUS

LEMMA AppendBehind ==
  ASSUME NEW S, NEW s \in Seq(S), NEW c \in Seq(S), NEW e \in S
  PROVE  s \o Append(c, e) = Append(s \o c, e)
  OBVIOUS

(* The pieces a text has been cut into: SplitKeepsText of a sequence.      *)
Keeps(all) ==
  /\ \A i \in DOMAIN all : IsMessage(all[i])
  /\ \A i, j \in DOMAIN all : i < j => all[i].to < all[j].from
  /\ \A i \in DOMAIN all : rest # Nothing => all[i].to < rest.from
  /\ \A k \in InkIn(text, Slice(1, Len(text))) :
       \/ \E i \in DOMAIN all : k \in Span(all[i])
       \/ k \in Span(rest)
       \/ splitPc = "failed" /\ \A i \in DOMAIN all : all[i].to < k

(* Of the loop: what is left begins and ends with ink, as long as there is *)
(* some; nothing is sent before the loop has ended, and then something is. *)
SplitInv ==
  /\ SplitTypeOK
  /\ Keeps(sent \o chunks)
  /\ rest # Nothing => {rest.from, rest.to} \subseteq InkIn(text, rest)
  /\ rest # Nothing => rest.to <= Len(text)
  /\ rest # Nothing => splitPc = "split"
  /\ splitPc = "idle" => chunks = <<>> /\ sent = <<>>
  /\ splitPc = "split" => sent = <<>> /\ (rest # Nothing \/ chunks # <<>>)
  /\ splitPc = "send" => chunks # <<>>

LEMMA TrimLeftKeepsInk ==
  ASSUME NEW b \in Nat, NEW t \in Seq(Characters), NEW s,
         s.from \in Nat, s.to \in 0..b, s.to <= Len(t)
  PROVE  LET r == TrimLeft(t, s) IN
         /\ r = Nothing => InkIn(t, s) = {}
         /\ r # Nothing =>
              /\ r.from \in InkIn(t, s) /\ r.to = s.to
              /\ \A k \in InkIn(t, s) : r.from <= k
<1> DEFINE I == InkIn(t, s)
<1>1. I \subseteq Nat
  BY DEF InkIn, Span
<1>2. CASE I = {}
  BY <1>2 DEF TrimLeft
<1>3. CASE I # {}
  <2>1. Min(I) \in I /\ \A k \in I : Min(I) <= k
    BY <1>1, <1>3, LeastNumber
  <2>2. TrimLeft(t, s) = [from |-> Min(I), to |-> s.to]
    BY <1>3 DEF TrimLeft, Slice
  <2>3. \E k \in I : TRUE
    BY <1>3
  <2>4. TrimLeft(t, s) # Nothing
    <3>1. Min(I) # 1 \/ s.to # 0
      BY <2>1 DEF InkIn, Span
    <3>. QED
      BY <2>2, <3>1 DEF Nothing, Slice
  <2>. QED
    BY <2>1, <2>2, <2>4
<1>. QED
  BY <1>2, <1>3

LEMMA TrimSpaceKeepsInk ==
  ASSUME NEW b \in Nat, NEW t \in Seq(Characters), NEW s,
         s.from \in Nat, s.to \in 0..b, s.to <= Len(t)
  PROVE  LET r == TrimSpace(t, s) IN
         /\ r = Nothing => InkIn(t, s) = {}
         /\ r # Nothing =>
              /\ r.from \in InkIn(t, s) /\ r.to \in InkIn(t, s)
              /\ \A k \in InkIn(t, s) : r.from <= k /\ k <= r.to
<1> DEFINE I == InkIn(t, s)
<1>1. I \subseteq Nat /\ I \subseteq 0..b
  BY DEF InkIn, Span
<1>2. CASE I = {}
  BY <1>2 DEF TrimSpace
<1>3. CASE I # {}
  <2>1. Min(I) \in I /\ \A k \in I : Min(I) <= k
    BY <1>1, <1>3, LeastNumber
  <2>2. Max(I) \in I /\ \A k \in I : k <= Max(I)
    BY <1>1, <1>3, GreatestNumber
  <2>3. TrimSpace(t, s) = [from |-> Min(I), to |-> Max(I)]
    BY <1>3 DEF TrimSpace, Slice
  <2>4. TrimSpace(t, s) # Nothing
    <3>1. Min(I) # 1 \/ Max(I) # 0
      BY <2>1, <2>2 DEF InkIn, Span
    <3>. QED
      BY <2>3, <3>1 DEF Nothing, Slice
  <2>. QED
    BY <2>1, <2>2, <2>3, <2>4
<1>. QED
  BY <1>2, <1>3

(* Where a slice that is too long is cut: within its first ChunkMax.       *)
LEMMA CutIsWithinLimit ==
  ASSUME NEW s \in Slices
  PROVE  PreferredSplit(s) \in s.from..Limit(s)
<1>1. ChunkMax \in Nat \ {0} /\ Window \in Nat /\ Floor \in Nat \ {0}
  BY SplitAssumption DEF Floor
<1>2. s.from \in Nat /\ Limit(s) \in Nat /\ s.from <= Limit(s)
  BY <1>1, SplitAssumption DEF Slices, Limit
<1> DEFINE W == (s.from + Floor)..Limit(s)
           lines == {k \in W : text[k] = "newline"}
           empty == {k \in lines : k > s.from + Floor /\ text[k - 1] = "newline"}
           blanks == {k \in W : text[k] \in Blank}
           places == IF empty # {} THEN empty
                     ELSE IF lines # {} THEN lines
                     ELSE IF blanks # {} THEN blanks
                     ELSE {Limit(s)}
<1>3. PreferredSplit(s) = Max(places)
  BY DEF PreferredSplit
<1>4. places # {} /\ places \subseteq W \cup {Limit(s)}
  OBVIOUS
<1>5. places \subseteq 0..Limit(s) /\ places \subseteq s.from..Limit(s)
  <2> HIDE DEF places
  <2>. QED
    BY <1>1, <1>2, <1>4
<1>6. Max(places) \in places
  <2> HIDE DEF places
  <2>. QED
    BY <1>2, <1>4, <1>5, GreatestNumber
<1>. QED
  BY <1>3, <1>5, <1>6

(* A chunk is added behind the others and the rest moves on behind it: all *)
(* that is between them, and all that is left out of the rest, is blank.   *)
LEMMA AddChunk ==
  ASSUME NEW all \in Seq(Slices), Keeps(all), splitPc = "split",
         UNCHANGED <<splitPc, text>>, rest # Nothing, NEW e \in Slices,
         IsMessage(e), e.from = rest.from, rest' \in Slices,
         rest' # Nothing => e.to < rest'.from,
         \A k \in InkIn(text, rest) : k \in Span(e) \/ k \in Span(rest')
  PROVE  Keeps(Append(all, e))'
<1> DEFINE ALL == Append(all, e)
<1>1. /\ Len(ALL) = Len(all) + 1 /\ Len(all) \in Nat
      /\ \A i \in 1..Len(all) : ALL[i] = all[i]
      /\ ALL[Len(all) + 1] = e
      /\ DOMAIN ALL = 1..(Len(all) + 1) /\ DOMAIN all = 1..Len(all)
  BY AppendProperties
<1>0. ASSUME NEW i \in DOMAIN all PROVE all[i].to \in Nat
  <2>1. all[i] \in Slices
    BY <1>0, <1>1, ElementOfSeq
  <2>. QED
    BY <2>1 DEF Slices
<1> HIDE DEF ALL
<1>2. \A i \in DOMAIN ALL : i \in DOMAIN all \/ (i = Len(all) + 1 /\ ALL[i] = e)
  BY <1>1
<1>3. \A i \in DOMAIN all : ALL[i] = all[i] /\ i \in DOMAIN ALL /\ i <= Len(all)
  BY <1>1
<1>4. \A s : IsMessage(s) => IsMessage(s)'
  BY DEF IsMessage
<1>5. \A i \in DOMAIN ALL : IsMessage(ALL[i])'
  BY <1>2, <1>3, <1>4 DEF Keeps
<1>6. ASSUME NEW i \in DOMAIN ALL, NEW j \in DOMAIN ALL, i < j PROVE ALL[i].to < ALL[j].from
  <2>1. i \in DOMAIN all
    BY <1>1, <1>6
  <2>2. CASE j \in DOMAIN all
    BY <1>3, <1>6, <2>1, <2>2 DEF Keeps
  <2>3. CASE j \notin DOMAIN all
    <3>1. ALL[j].from = rest.from
      BY <1>2, <2>3
    <3>. QED
      BY <1>3, <2>1, <3>1 DEF Keeps
  <2>. QED
    BY <2>2, <2>3
<1>7. ASSUME NEW i \in DOMAIN ALL, rest' # Nothing PROVE ALL[i].to < rest'.from
  <2>1. e.from <= e.to /\ e.from \in Nat /\ e.to \in Nat /\ rest'.from \in Nat
    <3>1. e.from \in Nat /\ e.to \in Nat /\ rest'.from \in Nat
      BY DEF Slices
    <3>. QED
      BY <3>1 DEF IsMessage, Length
  <2>2. CASE i \in DOMAIN all
    <3>1. all[i].to < rest.from /\ all[i].to \in Nat
      BY <1>0, <1>7, <2>2 DEF Keeps
    <3>. QED
      BY <1>3, <1>7, <2>1, <2>2, <3>1
  <2>. QED
    BY <1>2, <1>7, <2>2
<1>8. ASSUME NEW k \in InkIn(text, Slice(1, Len(text)))
      PROVE  (\E i \in DOMAIN ALL : k \in Span(ALL[i])) \/ k \in Span(rest')
  <2>1. CASE \E i \in DOMAIN all : k \in Span(all[i])
    BY <1>3, <2>1
  <2>2. CASE k \in Span(rest)
    <3>1. k \in InkIn(text, rest)
      BY <2>2, <1>8 DEF InkIn
    <3>. QED
      BY <1>1, <3>1
  <2>. QED
    BY <1>8, <2>1, <2>2 DEF Keeps
<1>9. Keeps(ALL)'
  BY <1>5, <1>6, <1>7, <1>8 DEF Keeps
<1>. QED
  BY <1>9 DEF ALL

LEMMA SplitInitInv == SplitInit => SplitInv
<1> SUFFICES ASSUME SplitInit PROVE SplitInv
  OBVIOUS
<1>1. SplitTypeOK
  BY SplitAssumption DEF SplitInit, SplitTypeOK, Nothing, Slice, Slices
<1>2. sent \o chunks = <<>> /\ DOMAIN (<<>>) = {}
  BY DEF SplitInit
<1>3. InkIn(text, Slice(1, Len(text))) = {}
  BY DEF SplitInit, InkIn, Span, Slice
<1>4. Keeps(<<>>)
  BY <1>2, <1>3 DEF Keeps
<1>. QED
  BY <1>1, <1>2, <1>4 DEF SplitInit, SplitInv

LEMMA ComposeKeeps == SplitInv /\ Compose => SplitInv'
<1> SUFFICES ASSUME SplitInv, Compose PROVE SplitInv'
  OBVIOUS
<1>0. PICK n \in 1..MaxText : \E u \in [1..n -> Characters] :
        text' = u /\ rest' = TrimSpace(u, Slice(1, n))
  BY DEF Compose
<1>1. PICK t \in [1..n -> Characters] : text' = t /\ rest' = TrimSpace(t, Slice(1, n))
  BY <1>0
<1>2. /\ MaxText \in Nat /\ n \in Nat /\ n <= MaxText
      /\ t \in Seq(Characters) /\ Len(t) = n
  BY <1>1, SplitAssumption
<1> DEFINE s == Slice(1, n)
           I == InkIn(t, s)
<1>3. s.from = 1 /\ s.to = n /\ s.from \in Nat /\ s.to \in 0..MaxText /\ s.to <= Len(t)
  BY <1>2 DEF Slice
<1>4. PICK r : r = rest'
  OBVIOUS
<1>5. /\ r = Nothing => I = {}
      /\ r # Nothing =>
           /\ r.from \in I /\ r.to \in I
           /\ \A k \in I : r.from <= k /\ k <= r.to
  <2>0. TrimSpace(t, s) = r
    BY <1>1, <1>4
  <2> HIDE DEF s
  <2>1. t \in Seq(Characters) /\ MaxText \in Nat
    BY <1>2
  <2>2. LET q == TrimSpace(t, s) IN
        /\ q = Nothing => InkIn(t, s) = {}
        /\ q # Nothing =>
             /\ q.from \in InkIn(t, s) /\ q.to \in InkIn(t, s)
             /\ \A k \in InkIn(t, s) : q.from <= k /\ k <= q.to
    BY <1>3, <2>1, TrimSpaceKeepsInk
  <2>. QED
    BY <2>0, <2>2
<1>6. I \subseteq 1..n
  BY DEF InkIn, Span, Slice
<1>7. chunks = <<>> /\ sent = <<>> /\ splitPc = "idle" /\ chunks' = <<>> /\ sent' = <<>>
      /\ splitPc' = IF r = Nothing THEN "sent" ELSE "split"
  BY <1>4 DEF SplitInv, Compose
<1>8. r \in Slices
  <2>1. CASE I = {}
    BY <1>1, <1>2, <1>4, <2>1, SplitAssumption DEF TrimSpace, Nothing, Slice, Slices
  <2>2. CASE I # {}
    <3>1. r = Slice(Min(I), Max(I)) /\ r = [from |-> Min(I), to |-> Max(I)]
      BY <1>1, <1>4, <2>2 DEF TrimSpace, Slice
    <3>2. r # Nothing
      BY <1>5, <2>2
    <3>. QED
      BY <1>2, <1>5, <1>6, <3>1, <3>2 DEF Slices
  <2>. QED
    BY <2>1, <2>2
<1>9. SplitTypeOK'
  BY <1>1, <1>2, <1>4, <1>7, <1>8 DEF SplitTypeOK
<1>10. sent' \o chunks' = <<>> /\ DOMAIN (<<>>) = {}
  BY <1>7
<1>11. ASSUME NEW k \in I PROVE k \in Span(r)
  BY <1>5, <1>6, <1>11 DEF Span
<1>12. Keeps(<<>>)'
  BY <1>1, <1>2, <1>4, <1>10, <1>11 DEF Keeps
<1>13. r # Nothing => {r.from, r.to} \subseteq InkIn(t, r)
  BY <1>5, <1>6 DEF InkIn, Span
<1>14. r # Nothing => r.to <= Len(t)
  BY <1>2, <1>5, <1>6
<1>. QED
  BY <1>1, <1>4, <1>7, <1>9, <1>10, <1>12, <1>13, <1>14 DEF SplitInv

(* What a round of the loop takes off the rest, and what it leaves.        *)
LEMMA SplitOneCuts ==
  ASSUME SplitInv, SplitOne
  PROVE  \E e \in Slices :
           /\ chunks' = Append(chunks, e)
           /\ IsMessage(e) /\ e.from = rest.from
           /\ rest' \in Slices
           /\ rest' # Nothing =>
                /\ e.to < rest'.from
                /\ {rest'.from, rest'.to} \subseteq InkIn(text, rest')
                /\ rest'.to <= Len(text)
           /\ \A k \in InkIn(text, rest) : k \in Span(e) \/ k \in Span(rest')
<1>1. /\ text \in Seq(Characters) /\ Len(text) \in Nat /\ Len(text) <= MaxText
      /\ MaxText \in Nat /\ ChunkMax \in Nat \ {0}
      /\ rest \in Slices /\ rest # Nothing
      /\ {rest.from, rest.to} \subseteq InkIn(text, rest) /\ rest.to <= Len(text)
  BY SplitAssumption DEF SplitInv, SplitTypeOK, SplitOne
<1>2. /\ rest.from \in 1..(MaxText + 1) /\ rest.to \in 0..MaxText
      /\ rest.from <= rest.to
  BY <1>1 DEF Slices, InkIn, Span
<1>3. Nothing \in Slices
  BY <1>1 DEF Nothing, Slice, Slices
<1>4. CASE Length(rest) <= ChunkMax
  <2>1. chunks' = Append(chunks, rest) /\ rest' = Nothing
    BY <1>4 DEF SplitOne
  <2>2. IsMessage(rest)
    BY <1>1, <1>2, <1>4 DEF IsMessage, Length
  <2>. QED
    BY <1>1, <1>3, <2>1, <2>2 DEF InkIn
<1>5. CASE ~ (Length(rest) <= ChunkMax)
  <2> DEFINE cut == PreferredSplit(rest)
  <2>1. CutAt(rest, cut)
    BY <1>5 DEF SplitOne
  <2>2. cut \in rest.from..Limit(rest)
    BY <1>1, CutIsWithinLimit
  <2>3. /\ Limit(rest) = rest.from + ChunkMax - 1 /\ Limit(rest) < rest.to
        /\ cut \in Nat /\ rest.from <= cut /\ cut <= Limit(rest) /\ cut < rest.to
    BY <1>1, <1>2, <1>5, <2>2 DEF Limit, Length
  <2> HIDE DEF cut
  <2> DEFINE s == Slice(rest.from, cut)
             u == Slice(cut + 1, rest.to)
  <2>4. /\ s.from = rest.from /\ s.to = cut
        /\ u.from = cut + 1 /\ u.to = rest.to
    BY DEF Slice
  <2> HIDE DEF s, u
  <2>5. /\ s.from \in Nat \ {0} /\ s.to \in 0..MaxText /\ s.to <= Len(text)
        /\ u.from \in Nat \ {0} /\ u.to \in 0..MaxText /\ u.to <= Len(text)
    BY <1>1, <1>2, <2>3, <2>4
  <2>6. rest.from \in InkIn(text, s) /\ rest.to \in InkIn(text, u)
    BY <1>1, <1>2, <2>3, <2>4 DEF InkIn, Span
  <2> DEFINE e == TrimSpace(text, s)
             r == TrimLeft(text, u)
  <2>7. LET q == TrimSpace(text, s) IN
         /\ q = Nothing => InkIn(text, s) = {}
         /\ q # Nothing =>
              /\ q.from \in InkIn(text, s) /\ q.to \in InkIn(text, s)
              /\ \A k \in InkIn(text, s) : q.from <= k /\ k <= q.to
    BY <1>1, <2>5, TrimSpaceKeepsInk
  <2>8. LET q == TrimLeft(text, u) IN
         /\ q = Nothing => InkIn(text, u) = {}
         /\ q # Nothing =>
              /\ q.from \in InkIn(text, u) /\ q.to = u.to
              /\ \A k \in InkIn(text, u) : q.from <= k
    BY <1>1, <2>5, TrimLeftKeepsInk
  <2>9. chunks' = Append(chunks, e) /\ rest' = r
    BY <2>1, <2>6, <2>7 DEF CutAt, s, u
  <2>10. /\ e.from \in InkIn(text, s) /\ e.to \in InkIn(text, s)
         /\ \A k \in InkIn(text, s) : e.from <= k /\ k <= e.to
    BY <2>6, <2>7
  <2>11. /\ r.from \in InkIn(text, u) /\ r.to = u.to
         /\ \A k \in InkIn(text, u) : r.from <= k
    BY <2>6, <2>8
  <2>12. \E a, b, c : e = [from |-> a, to |-> b] /\ r = [from |-> c, to |-> u.to]
    BY <2>6 DEF TrimSpace, TrimLeft, Slice
  <2>13. /\ \A k \in InkIn(text, s) : k \in Nat /\ rest.from <= k /\ k <= cut
         /\ \A k \in InkIn(text, u) : k \in Nat /\ cut < k /\ k <= rest.to
    BY <1>2, <2>3, <2>4, <2>5 DEF InkIn, Span
  <2> HIDE DEF e, r
  <2>14. /\ e.from = rest.from /\ e.from \in Nat /\ e.to \in Nat
         /\ e.from <= e.to /\ e.to <= cut /\ r.from \in Nat /\ cut < r.from
         /\ r.from <= r.to /\ r.to = rest.to
    BY <1>2, <2>3, <2>4, <2>6, <2>10, <2>11, <2>13
  <2>15. e \in Slices /\ r \in Slices
    BY <1>1, <1>2, <2>3, <2>4, <2>12, <2>14 DEF Slices
  <2>16. IsMessage(e)
    <3>1. Length(e) \in 1..ChunkMax
      BY <1>1, <1>2, <2>3, <2>14 DEF Length
    <3>2. {e.from, e.to} \subseteq InkIn(text, e)
      BY <2>10, <2>14 DEF InkIn, Span
    <3>. QED
      BY <3>1, <3>2 DEF IsMessage
  <2>17. {r.from, r.to} \subseteq InkIn(text, r)
    BY <2>4, <2>6, <2>11, <2>14 DEF InkIn, Span
  <2>18. ASSUME NEW k \in InkIn(text, rest) PROVE k \in Span(e) \/ k \in Span(r)
    <3>1. k \in Nat /\ rest.from <= k /\ k <= rest.to
      BY <1>2 DEF InkIn, Span
    <3>2. CASE k <= cut
      <4>1. k \in InkIn(text, s)
        BY <2>4, <3>1, <3>2, <2>18, <2>3, <1>2 DEF InkIn, Span
      <4>. QED
        BY <2>10, <2>14, <3>1, <4>1 DEF Span
    <3>3. CASE ~ (k <= cut)
      <4>1. k \in InkIn(text, u)
        BY <2>4, <3>1, <3>3, <2>18, <2>3, <1>2 DEF InkIn, Span
      <4>. QED
        BY <2>11, <2>14, <3>1, <4>1 DEF Span
    <3>. QED
      BY <3>2, <3>3
  <2>19. r.to <= Len(text)
    BY <1>1, <2>14
  <2>20. e.to < r.from
    BY <2>3, <2>14
  <2>21. /\ IsMessage(e) /\ e.from = rest.from
         /\ rest' \in Slices
         /\ rest' # Nothing =>
              /\ e.to < rest'.from
              /\ {rest'.from, rest'.to} \subseteq InkIn(text, rest')
              /\ rest'.to <= Len(text)
         /\ \A k \in InkIn(text, rest) : k \in Span(e) \/ k \in Span(rest')
    BY <2>9, <2>14, <2>15, <2>16, <2>17, <2>18, <2>19, <2>20
  <2>. QED
    BY <2>9, <2>15, <2>21
<1>. QED
  BY <1>4, <1>5

LEMMA SplitOneKeeps == SplitInv /\ SplitOne => SplitInv'
<1> SUFFICES ASSUME SplitInv, SplitOne PROVE SplitInv'
  OBVIOUS
<1>1. PICK e \in Slices :
        /\ chunks' = Append(chunks, e)
        /\ IsMessage(e) /\ e.from = rest.from
        /\ rest' \in Slices
        /\ rest' # Nothing =>
             /\ e.to < rest'.from
             /\ {rest'.from, rest'.to} \subseteq InkIn(text, rest')
             /\ rest'.to <= Len(text)
        /\ \A k \in InkIn(text, rest) : k \in Span(e) \/ k \in Span(rest')
  BY SplitOneCuts
<1>2. splitPc = "split" /\ rest # Nothing /\ UNCHANGED <<splitPc, text, sent>>
  BY DEF SplitOne
<1>3. sent \in Seq(Slices) /\ chunks \in Seq(Slices) /\ sent = <<>>
  BY <1>2 DEF SplitInv, SplitTypeOK
<1>4. PICK all \in Seq(Slices) : all = sent \o chunks
  BY <1>3, ConcatProperties
<1>5. sent' \o chunks' = Append(all, e)
  BY <1>1, <1>2, <1>3, <1>4, AppendBehind
<1>6. Keeps(all)
  BY <1>4 DEF SplitInv
<1>7. Keeps(Append(all, e))'
  BY <1>1, <1>2, <1>3, <1>6, AddChunk
<1>8. chunks' \in Seq(Slices) /\ chunks' # <<>>
  BY <1>1, <1>3, AppendProperties
<1>9. SplitTypeOK'
  <2>1. SplitTypeOK
    BY DEF SplitInv
  <2>. QED
    BY <1>1, <1>2, <1>8, <2>1 DEF SplitTypeOK
<1>10. Keeps(sent \o chunks)'
  BY <1>5, <1>7
<1>11. rest' # Nothing => {rest'.from, rest'.to} \subseteq InkIn(text, rest)'
  BY <1>1, <1>2
<1>. QED
  BY <1>1, <1>2, <1>3, <1>8, <1>9, <1>10, <1>11 DEF SplitInv

(* The sending: the messages are the same, or fewer from the end.          *)
LEMMA SendKeeps ==
  ASSUME SplitInv, SplitDone \/ SendChunk \/ SendChunkFails \/ NextText
  PROVE  SplitInv'
<1>1. SplitTypeOK /\ sent \in Seq(Slices) /\ chunks \in Seq(Slices)
  BY DEF SplitInv, SplitTypeOK
<1>2. PICK all \in Seq(Slices) : all = sent \o chunks
  BY <1>1, ConcatProperties
<1>3. Keeps(all)
  BY <1>2 DEF SplitInv
<1>4. \A s : UNCHANGED text /\ IsMessage(s) => IsMessage(s)'
  BY DEF IsMessage
<1>5. CASE SplitDone
  <2>1. splitPc' \in {"send"} /\ splitPc = "split" /\ rest = Nothing
        /\ UNCHANGED <<text, rest, chunks, sent>>
    BY <1>5 DEF SplitDone
  <2>2. Keeps(all)'
    BY <1>3, <1>4, <2>1 DEF Keeps
  <2>3. SplitTypeOK'
    BY <1>1, <2>1 DEF SplitTypeOK
  <2>. QED
    BY <1>2, <2>1, <2>2, <2>3 DEF SplitInv
<1>6. CASE SendChunk
  <2>1. /\ splitPc = "send" /\ splitPc' = IF Len(chunks) = 1 THEN "sent" ELSE "send"
        /\ chunks # <<>> /\ sent' = Append(sent, Head(chunks)) /\ chunks' = Tail(chunks)
        /\ UNCHANGED <<text, rest>>
    BY <1>6 DEF SendChunk, SplitInv
  <2>2. sent' \o chunks' = all
    BY <1>1, <1>2, <2>1, MoveHead
  <2>3. Keeps(all)'
    BY <1>3, <1>4, <2>1 DEF Keeps
  <2>4. sent' \in Seq(Slices) /\ chunks' \in Seq(Slices)
    BY <1>1, <2>1
  <2>5. SplitTypeOK'
    BY <1>1, <2>1, <2>4 DEF SplitTypeOK
  <2>6. splitPc' = "send" => chunks' # <<>>
    <3>1. Len(chunks) \in Nat \ {0} /\ Len(Tail(chunks)) = Len(chunks) - 1
      BY <1>1, <2>1, EmptySeq, HeadTailProperties
    <3>2. Tail(chunks) = <<>> => Len(chunks) = 1
      BY <3>1
    <3>. QED
      BY <2>1, <3>2
  <2>7. rest' = Nothing
    BY <2>1 DEF SplitInv
  <2>. QED
    BY <2>1, <2>2, <2>3, <2>5, <2>6, <2>7 DEF SplitInv
<1>7. CASE SendChunkFails
  <2>1. /\ splitPc = "send" /\ splitPc' = "failed" /\ chunks' = <<>>
        /\ UNCHANGED <<text, rest, sent>> /\ rest = Nothing
    BY <1>7 DEF SendChunkFails, SplitInv
  <2>2. /\ Len(sent) \in Nat /\ Len(chunks) \in Nat
        /\ DOMAIN all = 1..(Len(sent) + Len(chunks)) /\ DOMAIN sent = 1..Len(sent)
        /\ \A i \in DOMAIN sent : all[i] = sent[i] /\ i \in DOMAIN all
    BY <1>1, <1>2
  <2>3. sent' \o chunks' = sent
    BY <1>1, <2>1
  <2>4. ASSUME NEW k \in InkIn(text, Slice(1, Len(text)))
        PROVE  (\E i \in DOMAIN sent : k \in Span(sent[i])) \/ \A i \in DOMAIN sent : sent[i].to < k
    <3>1. k \notin Span(rest)
      BY <2>1 DEF Span, Nothing, Slice
    <3>2. PICK j \in DOMAIN all : k \in Span(all[j])
      BY <1>3, <2>1, <2>4, <3>1 DEF Keeps
    <3>3. CASE j \in DOMAIN sent
      BY <2>2, <3>2, <3>3
    <3>4. CASE j \notin DOMAIN sent
      <4> SUFFICES ASSUME NEW i \in DOMAIN sent PROVE sent[i].to < k
        OBVIOUS
      <4>1. i < j /\ all[i] = sent[i] /\ i \in DOMAIN all
        BY <2>2, <3>2, <3>4
      <4>2. all[i].to < all[j].from
        BY <1>3, <4>1 DEF Keeps
      <4>3. all[i] \in Slices /\ all[j] \in Slices
        BY <1>2, <4>1
      <4>4. all[i].to \in Nat /\ all[j].from \in Nat
        BY <4>3 DEF Slices
      <4>. QED
        BY <3>2, <4>1, <4>2, <4>4 DEF Span
    <3>. QED
      BY <3>3, <3>4
  <2>5. /\ \A i \in DOMAIN sent : IsMessage(sent[i])
        /\ \A i, j \in DOMAIN sent : i < j => sent[i].to < sent[j].from
    BY <1>3, <2>2 DEF Keeps
  <2>6. Keeps(sent)'
    BY <1>4, <2>1, <2>4, <2>5 DEF Keeps
  <2>7. SplitTypeOK'
    BY <1>1, <2>1 DEF SplitTypeOK
  <2>. QED
    BY <2>1, <2>3, <2>6, <2>7 DEF SplitInv
<1>8. CASE NextText
  <2>1. SplitInit'
    BY <1>8 DEF NextText, SplitInit
  <2>. QED
    BY <2>1, SplitInitInv, PTL
<1>. QED
  BY <1>5, <1>6, <1>7, <1>8

LEMMA SplitStep == SplitInv /\ [SplitNext]_splitVars => SplitInv'
<1> SUFFICES ASSUME SplitInv, [SplitNext]_splitVars PROVE SplitInv'
  OBVIOUS
<1>1. CASE UNCHANGED splitVars
  <2>1. UNCHANGED <<splitPc, text, rest, chunks, sent>>
    BY <1>1 DEF splitVars
  <2>2. SplitTypeOK' /\ Keeps(sent \o chunks)'
    BY <2>1 DEF SplitInv, SplitTypeOK, Keeps, IsMessage
  <2>. QED
    BY <2>1, <2>2 DEF SplitInv
<1>. QED
  BY <1>1, ComposeKeeps, SplitOneKeeps, SendKeeps DEF SplitNext

LEMMA SplitAlways == SplitSpec => []SplitInv
BY SplitInitInv, SplitStep, PTL DEF SplitSpec

(* However a long text is cut, its messages hold all of its ink, in order  *)
(* and once.                                                               *)
THEOREM SplitAlwaysKeepsText == SplitSpec => []SplitKeepsText
<1>1. SplitInv => SplitKeepsText
  BY DEF SplitInv, Keeps, SplitKeepsText
<1>. QED
  BY <1>1, SplitAlways, PTL
=============================================================================
