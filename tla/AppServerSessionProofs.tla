------------------------- MODULE AppServerSessionProofs -------------------------
(***************************************************************************)
(* Proofs for AppServerSession, for every capacity of the events channel   *)
(* and every number of attempts, deltas and steered messages.              *)
(***************************************************************************)
EXTENDS AppServerSession, Integers, FiniteSetTheorems, TLAPS

(* What a request's outcome does to its caller keeps the caller's types.   *)
LEMMA RunGetsType ==
  ASSUME TypeOK, NEW o \in Answers \cup Failures, RunGets(o)
  PROVE  /\ text' \in Nat /\ older' \in BOOLEAN
         /\ registered' \in BOOLEAN /\ offered' \in BOOLEAN
         /\ stage' \in Stages
         /\ result' \in Answers \cup Failures \cup {"cli", "none"}
         /\ pc' \in [Goroutines -> Pcs]
         /\ pc'["run"] \notin {"write", "await"}
         /\ pc'["steer"] = pc["steer"]
<1>1. text \in Nat /\ sent \in Nat /\ pc \in [Goroutines -> Pcs]
  BY DEF TypeOK
<1>2. "run" \in Goroutines /\ "steer" \in Goroutines
  BY DEF Goroutines
<1>3. \E l \in {"notify", "open", "wait", "unregister", "close"} : Goto("run", l)
  BY DEF RunGets, LatestReply, Leave
<1>4. /\ pc' \in [Goroutines -> Pcs]
      /\ pc'["run"] \notin {"write", "await"}
      /\ pc'["steer"] = pc["steer"]
  BY <1>1, <1>2, <1>3 DEF Goto, Pcs
<1>5. text' \in Nat /\ older' \in BOOLEAN
  <2>1. text' = text \/ text' \in 1..sent
    BY DEF RunGets, LatestReply, Leave, run
  <2>2. older' = older \/ older' = TRUE
    BY DEF RunGets, LatestReply, Leave, run
  <2>3. older \in BOOLEAN
    BY DEF TypeOK
  <2>4. text' \in Nat
    BY <1>1, <2>1
  <2>5. older' \in BOOLEAN
    BY <2>2, <2>3
  <2>. QED
    BY <2>4, <2>5
<1>6. registered' \in BOOLEAN
  BY DEF RunGets, LatestReply, Leave, run, TypeOK
<1>7. offered' \in BOOLEAN
  BY DEF RunGets, LatestReply, Leave, run, TypeOK
<1>8. stage' \in Stages
  BY DEF RunGets, LatestReply, Leave, run, TypeOK, Stages
<1>9. result' \in Answers \cup Failures \cup {"cli", "none"}
  BY DEF RunGets, LatestReply, Leave, run, TypeOK, Answers, Failures
<1>. QED
  BY <1>4, <1>5, <1>6, <1>7, <1>8, <1>9

LEMMA SteerGetsType ==
  ASSUME TypeOK, NEW o \in Answers \cup Failures, SteerGets(o)
  PROVE  /\ attempt' \in 0..MaxAttempts
         /\ steers' = steers
         /\ confirmed' \subseteq 0..MaxSteers
         /\ pc' \in [Goroutines -> Pcs]
         /\ pc'["steer"] \in {"idle", "open"}
         /\ pc'["run"] = pc["run"]
<1>1. /\ attempt \in 0..MaxAttempts /\ steers \in 0..MaxSteers
      /\ confirmed \subseteq 0..MaxSteers /\ pc \in [Goroutines -> Pcs]
      /\ MaxAttempts \in Nat
  BY SessionAssumption DEF TypeOK
<1>2. \E l \in {"idle", "open"} : Goto("steer", l)
  BY DEF SteerGets
<1>3. /\ pc' \in [Goroutines -> Pcs]
      /\ pc'["steer"] \in {"idle", "open"}
      /\ pc'["run"] = pc["run"]
  BY <1>1, <1>2 DEF Goto, Pcs, Goroutines
<1>4. attempt' \in 0..MaxAttempts
  BY <1>1 DEF SteerGets, steering
<1>5. steers' = steers
  BY DEF SteerGets, steering
<1>6. confirmed' \subseteq 0..MaxSteers
  <2>1. confirmed' = confirmed \/ confirmed' = confirmed \cup {steers}
    BY DEF SteerGets, steering
  <2>. QED
    BY <1>1, <2>1
<1>. QED
  BY <1>3, <1>4, <1>5, <1>6

LEMMA ReturnsType ==
  ASSUME TypeOK, NEW g \in Goroutines, NEW o \in Answers \cup Failures,
         pc[g] \in {"write", "await"}, Returns(g, o)
  PROVE  /\ text' \in Nat /\ older' \in BOOLEAN
         /\ registered' \in BOOLEAN /\ offered' \in BOOLEAN
         /\ stage' \in Stages
         /\ result' \in Answers \cup Failures \cup {"cli", "none"}
         /\ attempt' \in 0..MaxAttempts
         /\ steers' = steers
         /\ confirmed' \subseteq 0..MaxSteers
         /\ pc' \in [Goroutines -> Pcs]
         /\ pc'[g] \notin {"write", "await"}
         /\ \A h \in Goroutines \ {g} : pc'[h] = pc[h]
         /\ returned' = [returned EXCEPT ![rid[g]] = o]
         /\ returned' \in [Ids -> Answers \cup Failures \cup {"none"}]
         /\ rid[g] \in Ids
<1>1. rid[g] \in Ids
  BY DEF TypeOK, Ids
<1>2. returned' = [returned EXCEPT ![rid[g]] = o]
  BY DEF Returns
<1>3. returned' \in [Ids -> Answers \cup Failures \cup {"none"}]
  BY <1>2 DEF TypeOK
<1>4. CASE g = "run"
  <2>1. RunGets(o) /\ UNCHANGED steering
    BY <1>4 DEF Returns
  <2>. QED
    BY <2>1, <1>1, <1>2, <1>3, <1>4, RunGetsType DEF TypeOK, steering, Goroutines
<1>5. CASE g = "steer"
  <2>1. SteerGets(o) /\ UNCHANGED run
    BY <1>5 DEF Returns
  <2>. QED
    BY <2>1, <1>1, <1>2, <1>3, <1>5, SteerGetsType DEF TypeOK, run, Goroutines
<1>. QED
  BY <1>4, <1>5 DEF Goroutines

(* Requests: every variable keeps its type.                                *)
LEMMA RequestType ==
  ASSUME TypeOK, NEW g \in Goroutines, Request(g)
  PROVE  TypeOK'
<1>1. /\ MaxRequests \in Nat /\ MaxSteers \in Nat /\ nextID \in Nat
      /\ rid \in [Goroutines -> 0..MaxRequests] /\ pc \in [Goroutines -> Pcs]
      /\ steers \in 0..MaxSteers
  BY SessionAssumption DEF TypeOK, MaxRequests
<1> USE DEF remote, channels, run, steering, history
<1>2. CASE Open(g)
  <2>1. nextID + 1 \in Ids /\ nextID + 1 \in 0..MaxRequests /\ nextID + 1 # 0
    BY <1>1, <1>2 DEF Open, Ids
  <2>2. /\ pc' = [pc EXCEPT ![g] = "write"]
        /\ rid' = [rid EXCEPT ![g] = nextID + 1]
        /\ nextID' = nextID + 1
        /\ pending' = pending \cup {nextID + 1}
    BY <1>2 DEF Open, Goto
  <2>3. pc' \in [Goroutines -> Pcs] /\ rid' \in [Goroutines -> 0..MaxRequests]
    BY <1>1, <2>1, <2>2 DEF Pcs
  <2>4. \A h \in Goroutines : pc'[h] \in {"write", "await"} => rid'[h] # 0
    BY <1>1, <2>1, <2>2 DEF TypeOK
  <2>. QED
    BY <1>2, <2>1, <2>2, <2>3, <2>4 DEF Open, TypeOK
<1>3. CASE Write(g)
  <2>1. pc' = [pc EXCEPT ![g] = "await"] /\ pc[g] = "write"
    BY <1>3 DEF Write, Goto
  <2>2. pc' \in [Goroutines -> Pcs]
    BY <1>1, <2>1 DEF Pcs
  <2>3. \A h \in Goroutines : pc'[h] \in {"write", "await"} => rid[h] # 0
    BY <1>1, <2>1 DEF TypeOK
  <2>4. rid[g] \in Ids
    BY <2>1 DEF TypeOK, Ids
  <2>5. wire' \subseteq Requests
    <3>1. [id |-> rid[g], method |-> IF g = "run" THEN stage ELSE "steer",
           message |-> IF g = "run" THEN 0 ELSE steers] \in Requests
      BY <1>1, <2>4 DEF Requests, TypeOK
    <3>. QED
      BY <1>3, <3>1 DEF Write, TypeOK
  <2>. QED
    BY <1>3, <2>2, <2>3, <2>5 DEF Write, TypeOK
<1>4. CASE \E o \in Answers \cup Failures :
        /\ pc[g] \in {"write", "await"}
        /\ Returns(g, o)
        /\ pending' \subseteq pending
        /\ UNCHANGED <<remote, nextID, replyCh, events, reader, cancelled, rid,
                       dropped, answered>>
  <2>1. PICK o \in Answers \cup Failures :
          /\ pc[g] \in {"write", "await"}
          /\ Returns(g, o)
          /\ pending' \subseteq pending
          /\ UNCHANGED <<remote, nextID, replyCh, events, reader, cancelled, rid,
                         dropped, answered>>
    BY <1>4
  <2>2. /\ text' \in Nat /\ older' \in BOOLEAN
        /\ registered' \in BOOLEAN /\ offered' \in BOOLEAN
        /\ stage' \in Stages
        /\ result' \in Answers \cup Failures \cup {"cli", "none"}
        /\ attempt' \in 0..MaxAttempts
        /\ steers' = steers
        /\ confirmed' \subseteq 0..MaxSteers
        /\ pc' \in [Goroutines -> Pcs]
        /\ pc'[g] \notin {"write", "await"}
        /\ \A h \in Goroutines \ {g} : pc'[h] = pc[h]
        /\ returned' \in [Ids -> Answers \cup Failures \cup {"none"}]
    BY <2>1, ReturnsType
  <2>3. \A h \in Goroutines : pc'[h] \in {"write", "await"} => rid'[h] # 0
    BY <2>1, <2>2 DEF TypeOK
  <2>. QED
    BY <2>1, <2>2, <2>3 DEF TypeOK
<1>5. CASE WriteFails(g)
  BY <1>4, <1>5 DEF WriteFails, Failures
<1>6. CASE TakeReply(g)
  <2>1. replyCh[rid[g]] \in Answers \cup Failures
    <3>1. rid[g] \in Ids
      BY <1>6 DEF TakeReply, TypeOK, Ids
    <3>. QED
      BY <1>6, <3>1 DEF TakeReply, TypeOK
  <2>. QED
    BY <1>4, <1>6, <2>1 DEF TakeReply
<1>7. CASE SeeDone(g)
  BY <1>4, <1>7 DEF SeeDone, Failures
<1>8. CASE GiveUp(g)
  BY <1>4, <1>8 DEF GiveUp, Failures
<1>. QED
  BY <1>2, <1>3, <1>5, <1>6, <1>7, <1>8 DEF Request

(* A goroutine that goes to a place outside a request.                     *)
LEMMA GotoType ==
  ASSUME TypeOK, NEW g \in Goroutines, NEW l \in Pcs \ {"write", "await"},
         Goto(g, l), UNCHANGED rid
  PROVE  /\ pc' \in [Goroutines -> Pcs]
         /\ \A h \in Goroutines : pc'[h] \in {"write", "await"} => rid'[h] # 0
  BY DEF Goto, TypeOK

(* The run leaves with one of its outcomes.                                *)
LEMMA LeaveType ==
  ASSUME TypeOK, UNCHANGED rid,
         NEW o \in Answers \cup Failures, Leave(o)
  PROVE  /\ pc' \in [Goroutines -> Pcs]
         /\ \A h \in Goroutines : pc'[h] \in {"write", "await"} => rid'[h] # 0
         /\ result' \in Answers \cup Failures \cup {"cli", "none"}
         /\ UNCHANGED <<registered, offered, stage>>
<1>1. /\ Goto("run", "unregister") \/ Goto("run", "close")
      /\ "run" \in Goroutines
      /\ {"unregister", "close"} \subseteq Pcs \ {"write", "await"}
  BY DEF Leave, Goroutines, Pcs
<1>2. /\ pc' \in [Goroutines -> Pcs]
      /\ \A h \in Goroutines : pc'[h] \in {"write", "await"} => rid'[h] # 0
  BY <1>1, GotoType
<1>. QED
  BY <1>2 DEF Leave

LEMMA PrefixType ==
  ASSUME TypeOK, KeepsSome
  PROVE  inbound' \in Seq(Messages)
<1>1. PICK k \in 0..Len(inbound) : inbound' = SubSeq(inbound, 1, k)
  BY DEF KeepsSome
<1>. QED
  BY <1>1 DEF TypeOK

(* The agent's process.                                                    *)
LEMMA AgentType ==
  ASSUME TypeOK, AgentStep \/ Lose \/ Cancel
  PROVE  TypeOK'
<1> USE DEF remote, channels, run, steering, history
<1>1. ASSUME NEW r \in Requests, Serve(r) PROVE TypeOK'
  <2>1. PICK a \in Answers :
          LET reply == [id |-> r.id, says |-> a] IN
          /\ answered' = [answered EXCEPT ![r.id] = a]
          /\ taken' = IF r.method = "steer" /\ a = "ok"
                      THEN taken \cup {r.message} ELSE taken
          /\ \/ /\ turn' = "running"
                /\ inbound' = Append(Append(inbound, reply), [id |-> 0, says |-> "status"])
             \/ /\ inbound' = Append(inbound, reply)
                /\ UNCHANGED turn
    BY <1>1 DEF Serve
  <2>2. r.id \in Ids /\ r.message \in 0..MaxSteers
    BY DEF Requests
  <2>3. /\ [id |-> r.id, says |-> a] \in Messages
        /\ [id |-> 0, says |-> "status"] \in Messages
    BY <2>2 DEF Messages, Notes
  <2>4. inbound' \in Seq(Messages)
    <3> DEFINE reply == [id |-> r.id, says |-> a]
               note == [id |-> 0, says |-> "status"]
    <3>1. \/ inbound' = Append(Append(inbound, reply), note)
          \/ inbound' = Append(inbound, reply)
      BY <2>1
    <3>2. reply \in Messages /\ note \in Messages /\ inbound \in Seq(Messages)
      BY <2>3 DEF TypeOK
    <3> HIDE DEF reply, note
    <3>. QED
      BY <3>1, <3>2
  <2>5. answered' \in [Ids -> Answers \cup {"none"}]
    BY <2>1, <2>2 DEF TypeOK
  <2>6. taken' \subseteq 0..MaxSteers
    BY <2>1, <2>2 DEF TypeOK
  <2>7. turn' \in Ends \cup {"none", "running"}
    BY <2>1 DEF TypeOK
  <2>. QED
    BY <1>1, <2>4, <2>5, <2>6, <2>7 DEF Serve, TypeOK
<1>2. CASE Report
  <2>1. [id |-> 0, says |-> "delta"] \in Messages
    BY DEF Messages, Notes
  <2>2. inbound' \in Seq(Messages)
    BY <1>2, <2>1 DEF Report, TypeOK
  <2>3. sent' \in 0..MaxDeltas
    BY <1>2, SessionAssumption DEF Report, TypeOK
  <2>. QED
    BY <1>2, <2>2, <2>3 DEF Report, TypeOK
<1>3. CASE EndTurn
  <2>1. [id |-> 0, says |-> turn'] \in Messages
    BY <1>3 DEF EndTurn, Ends, Messages, Notes
  <2>2. inbound' \in Seq(Messages)
    BY <1>3, <2>1 DEF EndTurn, TypeOK
  <2>. QED
    BY <1>3, <2>2 DEF EndTurn, TypeOK
<1>4. CASE Lose
  BY <1>4, PrefixType DEF Lose, TypeOK
<1>5. CASE Cancel
  BY <1>5 DEF Cancel, TypeOK
<1>. QED
  BY <1>1, <1>2, <1>3, <1>4, <1>5 DEF AgentStep

(* The reader.                                                             *)
LEMMA ReaderType ==
  ASSUME TypeOK, ReaderStep
  PROVE  TypeOK'
<1> USE DEF remote, channels, run, steering, history
<1>1. ASSUME inbound # <<>>
      PROVE  Head(inbound) \in Messages /\ Tail(inbound) \in Seq(Messages)
  BY <1>1 DEF TypeOK
<1>2. CASE ReadReply
  <2>1. Head(inbound).id \in Ids /\ Head(inbound).says \in Answers
    BY <1>1, <1>2 DEF ReadReply, Messages
  <2>2. replyCh' \in [Ids -> Answers \cup Failures \cup {"none"}]
    BY <1>2, <2>1 DEF ReadReply, TypeOK
  <2>. QED
    BY <1>1, <1>2, <2>2 DEF ReadReply, TypeOK
<1>3. CASE ReadNote
  <2>1. Head(inbound).says \in Notes
    BY <1>1, <1>3 DEF ReadNote, Messages, Ids
  <2>2. events' \in Seq(Notes) /\ dropped' \subseteq Notes
    <3> DEFINE note == Head(inbound).says
    <3>1. \/ events' = Append(events, note) /\ dropped' = dropped
          \/ events' = events /\ dropped' = dropped \cup {note}
      BY <1>3 DEF ReadNote
    <3>2. note \in Notes /\ events \in Seq(Notes) /\ dropped \subseteq Notes
      BY <2>1 DEF TypeOK
    <3> HIDE DEF note
    <3>. QED
      BY <3>1, <3>2
  <2>. QED
    BY <1>1, <1>3, <2>2 DEF ReadNote, TypeOK
<1>4. CASE ReadFails
  <2>1. replyCh' \in [Ids -> Answers \cup Failures \cup {"none"}]
    BY <1>4 DEF ReadFails, TypeOK, Failures
  <2>. QED
    BY <1>4, <2>1 DEF ReadFails, TypeOK
<1>5. CASE CloseDone
  BY <1>5 DEF CloseDone, TypeOK
<1>. QED
  BY <1>2, <1>3, <1>4, <1>5 DEF ReaderStep

(* The run between its requests, and steering.                             *)
LEMMA CallersType ==
  ASSUME TypeOK,
         \/ Initialized \/ Consume \/ WaitEnds
         \/ Unregister \/ Close \/ Fallback
         \/ Steer \/ SteerStops
  PROVE  TypeOK'
<1> USE DEF remote, channels, run, steering, history
<1>0. /\ "run" \in Goroutines /\ "steer" \in Goroutines
      /\ {"open", "idle", "close", "fallback", "returned"}
           \subseteq Pcs \ {"write", "await"}
      /\ {"ok", "error", "unavailable", "cancelled"} \subseteq Answers \cup Failures
  BY DEF Goroutines, Pcs, Answers, Failures
<1>1. CASE Initialized
  <2>1. CASE Goto("run", "open") /\ stage' = "thread"
               /\ UNCHANGED <<registered, offered, result>>
    <3>1. /\ pc' \in [Goroutines -> Pcs]
          /\ \A h \in Goroutines : pc'[h] \in {"write", "await"} => rid'[h] # 0
      BY <1>0, <1>1, <2>1, GotoType DEF Initialized
    <3>2. stage' \in Stages
      BY <2>1 DEF Stages
    <3>. QED
      BY <1>1, <2>1, <3>1, <3>2 DEF Initialized, TypeOK
  <2>2. CASE Leave("unavailable")
    BY <1>0, <1>1, <2>2, LeaveType DEF Initialized, TypeOK
  <2>. QED
    BY <1>1, <2>1, <2>2 DEF Initialized
<1>2. CASE Consume
  <2>1. events' \in Seq(Notes)
    BY <1>2 DEF Consume, TypeOK
  <2>2. CASE UNCHANGED <<pc, older, registered, offered, stage, result>>
             /\ text' \in {text, text + 1}
    <3>1. text' \in Nat
      BY <2>2 DEF TypeOK
    <3>2. older' \in BOOLEAN
      BY <2>2 DEF TypeOK
    <3>. QED
      BY <1>2, <2>1, <2>2, <3>1, <3>2 DEF Consume, TypeOK
  <2>3. CASE (Leave("error") \/ Leave("ok")) /\ UNCHANGED <<text, older>>
    <3>1. /\ pc' \in [Goroutines -> Pcs]
          /\ \A h \in Goroutines : pc'[h] \in {"write", "await"} => rid'[h] # 0
          /\ result' \in Answers \cup Failures \cup {"cli", "none"}
          /\ UNCHANGED <<registered, offered, stage>>
      BY <1>0, <1>2, <2>3, LeaveType DEF Consume
    <3>2. older' \in BOOLEAN
      BY <2>3 DEF TypeOK
    <3>. QED
      BY <1>2, <2>1, <2>3, <3>1, <3>2 DEF Consume, TypeOK
  <2>4. CASE /\ Goto("run", "open") /\ stage' = "read"
             /\ UNCHANGED <<text, older, registered, offered, result>>
    <3>1. /\ pc' \in [Goroutines -> Pcs]
          /\ \A h \in Goroutines : pc'[h] \in {"write", "await"} => rid'[h] # 0
      BY <1>0, <1>2, <2>4, GotoType DEF Consume
    <3>2. stage' \in Stages
      BY <2>4 DEF Stages
    <3>. QED
      BY <1>2, <2>1, <2>4, <3>1, <3>2 DEF Consume, TypeOK
  <2>. QED
    BY <1>2, <2>2, <2>3, <2>4 DEF Consume
<1>3. CASE WaitEnds
  BY <1>0, <1>3, LeaveType DEF WaitEnds, TypeOK
<1>4. CASE Unregister
  <2>1. /\ pc' \in [Goroutines -> Pcs]
        /\ \A h \in Goroutines : pc'[h] \in {"write", "await"} => rid'[h] # 0
    BY <1>0, <1>4, GotoType DEF Unregister
  <2>2. older' \in BOOLEAN
    BY <1>4 DEF Unregister, TypeOK
  <2>. QED
    BY <1>4, <2>1, <2>2 DEF Unregister, TypeOK
<1>5. CASE Close
  <2>1. /\ pc' \in [Goroutines -> Pcs]
        /\ \A h \in Goroutines : pc'[h] \in {"write", "await"} => rid'[h] # 0
    BY <1>0, <1>5, GotoType DEF Close
  <2>2. inbound' \in Seq(Messages)
    BY <1>5, PrefixType DEF Close
  <2>3. older' \in BOOLEAN
    BY <1>5 DEF Close, TypeOK
  <2>. QED
    BY <1>5, <2>1, <2>2, <2>3 DEF Close, TypeOK
<1>6. CASE Fallback
  <2>1. /\ pc' \in [Goroutines -> Pcs]
        /\ \A h \in Goroutines : pc'[h] \in {"write", "await"} => rid'[h] # 0
    BY <1>0, <1>6, GotoType DEF Fallback
  <2>2. older' \in BOOLEAN
    BY <1>6 DEF Fallback, TypeOK
  <2>3. result' \in Answers \cup Failures \cup {"cli", "none"}
    BY <1>6 DEF Fallback, TypeOK
  <2>. QED
    BY <1>6, <2>1, <2>2, <2>3 DEF Fallback, TypeOK
<1>7. CASE Steer
  <2>1. steers' \in 0..MaxSteers /\ attempt' \in 0..MaxAttempts
    BY <1>7, SessionAssumption DEF Steer, TypeOK
  <2>2. /\ pc' \in [Goroutines -> Pcs]
        /\ \A h \in Goroutines : pc'[h] \in {"write", "await"} => rid'[h] # 0
    <3>1. CASE registered
      BY <1>0, <1>7, <3>1, GotoType DEF Steer
    <3>2. CASE ~registered
      BY <1>0, <1>7, <3>2, GotoType DEF Steer
    <3>. QED
      BY <3>1, <3>2
  <2>3. older' \in BOOLEAN
    BY <1>7 DEF Steer, TypeOK
  <2>. QED
    BY <1>7, <2>1, <2>2, <2>3 DEF Steer, TypeOK
<1>8. CASE SteerStops
  <2>1. /\ pc' \in [Goroutines -> Pcs]
        /\ \A h \in Goroutines : pc'[h] \in {"write", "await"} => rid'[h] # 0
    BY <1>0, <1>8, GotoType DEF SteerStops
  <2>2. older' \in BOOLEAN
    BY <1>8 DEF SteerStops, TypeOK
  <2>. QED
    BY <1>8, <2>1, <2>2 DEF SteerStops, TypeOK
<1>. QED
  BY <1>1, <1>2, <1>3, <1>4, <1>5, <1>6, <1>7, <1>8

LEMMA InitType == Init => TypeOK
<1> SUFFICES ASSUME Init PROVE TypeOK
  OBVIOUS
<1>1. MaxRequests \in Nat
  BY SessionAssumption DEF MaxRequests
<1>2. pc \in [Goroutines -> Pcs]
  BY DEF Init, Goroutines, Pcs
<1>3. \A g \in Goroutines : pc[g] \notin {"write", "await"}
  BY DEF Init
<1>4. rid \in [Goroutines -> 0..MaxRequests]
  BY <1>1 DEF Init
<1>5. /\ replyCh \in [Ids -> Answers \cup Failures \cup {"none"}]
      /\ answered \in [Ids -> Answers \cup {"none"}]
      /\ returned \in [Ids -> Answers \cup Failures \cup {"none"}]
  BY DEF Init
<1>6. inbound \in Seq(Messages) /\ events \in Seq(Notes)
  BY DEF Init
<1>7. /\ registered \in BOOLEAN /\ offered \in BOOLEAN /\ cancelled \in BOOLEAN
      /\ older \in BOOLEAN
  BY DEF Init
<1>8. /\ sent \in 0..MaxDeltas /\ nextID \in 0..MaxRequests
      /\ attempt \in 0..MaxAttempts /\ steers \in 0..MaxSteers /\ text \in Nat
  BY <1>1, SessionAssumption DEF Init
<1>9. /\ socket \in {"up", "lost", "closed"} /\ reader \in {"reading", "failed", "ended"}
      /\ turn \in Ends \cup {"none", "running"} /\ stage \in Stages
      /\ result \in Answers \cup Failures \cup {"cli", "none"}
  BY DEF Init, Stages
<1>10. /\ wire \subseteq Requests /\ pending \subseteq Ids /\ dropped \subseteq Notes
       /\ taken \subseteq 0..MaxSteers /\ confirmed \subseteq 0..MaxSteers
  BY DEF Init
<1>. QED
  BY <1>2, <1>3, <1>4, <1>5, <1>6, <1>7, <1>8, <1>9, <1>10 DEF TypeOK

LEMMA TypeStep == TypeOK /\ [Next]_vars => TypeOK'
<1> SUFFICES ASSUME TypeOK, [Next]_vars PROVE TypeOK'
  OBVIOUS
<1>1. CASE UNCHANGED vars
  BY <1>1 DEF vars, TypeOK
<1>2. CASE Request("run") \/ Request("steer")
  BY <1>2, RequestType DEF Goroutines
<1>3. CASE AgentStep \/ Lose \/ Cancel
  BY <1>3, AgentType
<1>4. CASE ReaderStep
  BY <1>4, ReaderType
<1>5. CASE \/ Initialized \/ Consume \/ WaitEnds \/ Unregister \/ Close
           \/ Fallback \/ Steer \/ SteerStops
  BY <1>5, CallersType
<1>. QED
  BY <1>1, <1>2, <1>3, <1>4, <1>5 DEF Next, RunStep, SteerStep, Quiescent

(* Every variable of a session has its type, and a goroutine in a request  *)
(* knows its number (app_server.go, request).                              *)
THEOREM TypeCorrect == Spec => []TypeOK
  BY InitType, TypeStep, PTL DEF Spec

-----------------------------------------------------------------------------
(* The numbers of the calls.  A call's number is new when it takes it, and *)
(* no two goroutines wait for the same one.                                *)
Numbered ==
  /\ pending \subseteq 1..nextID
  /\ \A g \in Goroutines : rid[g] <= nextID
  /\ rid["run"] # rid["steer"] \/ rid["run"] = 0
Fresh == \A i \in Ids : i > nextID =>
  replyCh[i] = "none" /\ answered[i] = "none" /\ returned[i] = "none"

(* A request on the socket is the only one of its number, and unanswered.  *)
OnTheWire == \A r \in wire :
  /\ r.id <= nextID
  /\ answered[r.id] = "none"
  /\ \A q \in wire : q.id = r.id => q = r

(* A reply, on the socket or in its channel, is the server's answer.       *)
FromServer == \A k \in 1..Len(inbound) : inbound[k].id # 0 =>
  inbound[k].id <= nextID /\ answered[inbound[k].id] = inbound[k].says
Delivered == \A i \in Ids : replyCh[i] \in {"none", "unavailable", answered[i]}

(* A goroutine in a call has not returned from it; before it writes the    *)
(* request nobody else has.                                                *)
Waiting == \A g \in Goroutines :
  pc[g] \in {"write", "await"} => returned[rid[g]] = "none"
Writing == \A g \in Goroutines : pc[g] = "write" =>
  answered[rid[g]] = "none" /\ \A r \in wire : r.id # rid[g]

RpcInv ==
  /\ TypeOK /\ Numbered /\ Fresh /\ OnTheWire /\ FromServer /\ Delivered
  /\ Waiting /\ Writing /\ ReaderNeverBlocks

LEMMA RpcInit == Init => RpcInv
<1> SUFFICES ASSUME Init PROVE RpcInv
  OBVIOUS
<1>1. Numbered
  BY DEF Init, Numbered, Goroutines
<1>2. Fresh /\ Delivered
  BY DEF Init, Fresh, Delivered
<1>3. OnTheWire /\ FromServer
  BY DEF Init, OnTheWire, FromServer
<1>4. Waiting /\ Writing /\ ReaderNeverBlocks
  BY DEF Init, Waiting, Writing, ReaderNeverBlocks
<1>. QED
  BY InitType, <1>1, <1>2, <1>3, <1>4 DEF RpcInv

(* What a goroutine in a call knows of its number.                         *)
LEMMA CallNumber ==
  ASSUME RpcInv, NEW g \in Goroutines, pc[g] \in {"write", "await"}
  PROVE  /\ rid[g] \in Ids /\ rid[g] <= nextID
         /\ \A h \in Goroutines \ {g} : rid[h] # rid[g]
<1>1. rid[g] \in Ids
  BY DEF RpcInv, TypeOK, Ids
<1>. QED
  BY <1>1 DEF RpcInv, Numbered, Goroutines, Ids

LEMMA RpcOpen ==
  ASSUME RpcInv, NEW g \in Goroutines, Open(g), TypeOK'
  PROVE  RpcInv'
<1> USE DEF remote, channels, run, steering, history
<1> DEFINE i == nextID + 1
<1>1. /\ i \in Ids /\ nextID \in Nat /\ i \in Nat /\ i > nextID
      /\ pending \subseteq Nat /\ rid \in [Goroutines -> Nat]
      /\ pc \in [Goroutines -> Pcs]
      /\ \A j \in Ids : j \in Nat
  BY SessionAssumption DEF Open, RpcInv, TypeOK, Ids, MaxRequests
<1>2. /\ nextID' = i /\ rid' = [rid EXCEPT ![g] = i]
      /\ pending' = pending \cup {i} /\ pc' = [pc EXCEPT ![g] = "write"]
      /\ UNCHANGED <<wire, inbound, replyCh, answered, returned>>
  BY DEF Open, Goto
<1>3. replyCh[i] = "none" /\ answered[i] = "none" /\ returned[i] = "none"
  BY <1>1 DEF RpcInv, Fresh
<1>4. Numbered'
  BY <1>1, <1>2 DEF RpcInv, Numbered, Goroutines
<1>5. Fresh'
  BY <1>1, <1>2 DEF RpcInv, Fresh
<1>6. \A r \in wire : r.id \in Nat /\ r.id <= nextID
  BY <1>1 DEF RpcInv, TypeOK, Requests, OnTheWire
<1>7. OnTheWire'
  BY <1>1, <1>2, <1>6 DEF RpcInv, OnTheWire
<1>8. FromServer'
  <2>1. ASSUME NEW k \in 1..Len(inbound), inbound[k].id # 0
        PROVE  /\ inbound[k].id <= i
               /\ answered[inbound[k].id] = inbound[k].says
    <3>1. inbound[k] \in Messages
      BY DEF RpcInv, TypeOK
    <3>2. inbound[k].id \in Nat
      BY <3>1, <1>1 DEF Messages
    <3>. QED
      BY <1>1, <2>1, <3>2 DEF RpcInv, FromServer
  <2>. QED
    BY <1>2, <2>1 DEF FromServer
<1>9. Delivered'
  BY <1>2 DEF RpcInv, Delivered
<1>10. Waiting'
  BY <1>1, <1>2, <1>3 DEF RpcInv, Waiting
<1>11. Writing'
  BY <1>1, <1>2, <1>3, <1>6 DEF RpcInv, Writing
<1>12. ReaderNeverBlocks'
  BY <1>2, <1>3 DEF RpcInv, ReaderNeverBlocks
<1>. QED
  BY <1>4, <1>5, <1>7, <1>8, <1>9, <1>10, <1>11, <1>12 DEF RpcInv

LEMMA RpcWrite ==
  ASSUME RpcInv, NEW g \in Goroutines, Write(g), TypeOK'
  PROVE  RpcInv'
<1> USE DEF remote, channels, run, steering, history
<1>1. PICK req \in [id : {rid[g]}, method : Stages \cup {"steer"},
                    message : 0..MaxSteers] :
        wire' = wire \cup {req} \/ wire' = wire
  <2> DEFINE req == [id |-> rid[g],
                     method |-> IF g = "run" THEN stage ELSE "steer",
                     message |-> IF g = "run" THEN 0 ELSE steers]
  <2>1. stage \in Stages /\ steers \in 0..MaxSteers /\ 0 \in 0..MaxSteers
    BY SessionAssumption DEF RpcInv, TypeOK
  <2>2. req \in [id : {rid[g]}, method : Stages \cup {"steer"},
                message : 0..MaxSteers]
    BY <2>1
  <2>3. wire' = wire \cup {req} \/ wire' = wire
    BY DEF Write
  <2>. QED
    BY <2>2, <2>3
<1>2. /\ pc[g] = "write" /\ pc' = [pc EXCEPT ![g] = "await"]
      /\ UNCHANGED <<inbound, nextID, pending, replyCh, rid, answered, returned>>
  BY DEF Write, Goto
<1>3. /\ req.id = rid[g] /\ rid[g] \in Ids /\ rid[g] <= nextID
      /\ \A h \in Goroutines \ {g} : rid[h] # rid[g]
  BY <1>2, CallNumber
<1>4. answered[rid[g]] = "none" /\ \A r \in wire : r.id # rid[g]
  BY <1>2 DEF RpcInv, Writing
<1>5. pc \in [Goroutines -> Pcs]
  BY DEF RpcInv, TypeOK
<1>6. Numbered' /\ Fresh' /\ FromServer' /\ Delivered' /\ ReaderNeverBlocks'
  BY <1>2 DEF RpcInv, Numbered, Fresh, FromServer, Delivered, ReaderNeverBlocks
<1>7. OnTheWire'
  <2>1. CASE wire' = wire
    BY <1>2, <2>1 DEF RpcInv, OnTheWire
  <2>2. CASE wire' = wire \cup {req}
    BY <1>2, <1>3, <1>4, <2>2 DEF RpcInv, OnTheWire
  <2>. QED
    BY <1>1, <2>1, <2>2
<1>8. Waiting'
  BY <1>2, <1>5 DEF RpcInv, Waiting
<1>9. Writing'
  <2>1. ASSUME NEW h \in Goroutines, pc'[h] = "write"
        PROVE  answered[rid[h]] = "none" /\ \A r \in wire' : r.id # rid[h]
    <3>1. h # g /\ pc[h] = "write"
      BY <1>2, <1>5, <2>1
    <3>. QED
      BY <1>1, <1>3, <3>1 DEF RpcInv, Writing
  <2>. QED
    BY <1>2, <2>1 DEF Writing
<1>. QED
  BY <1>6, <1>7, <1>8, <1>9 DEF RpcInv

(* A goroutine that returns from its call.                                 *)
LEMMA RpcReturn ==
  ASSUME RpcInv, NEW g \in Goroutines, NEW o \in Answers \cup Failures,
         pc[g] \in {"write", "await"}, Returns(g, o), pending' \subseteq pending,
         UNCHANGED <<wire, inbound, nextID, replyCh, rid, answered>>, TypeOK'
  PROVE  RpcInv'
<1>1. TypeOK
  BY DEF RpcInv
<1>2. /\ pc'[g] \notin {"write", "await"}
      /\ \A h \in Goroutines \ {g} : pc'[h] = pc[h]
      /\ returned' = [returned EXCEPT ![rid[g]] = o]
      /\ rid[g] \in Ids
  BY <1>1, ReturnsType
<1>3. /\ rid[g] <= nextID
      /\ \A h \in Goroutines \ {g} : rid[h] # rid[g]
  BY CallNumber
<1>4. nextID \in Nat /\ \A j \in Ids : j \in Nat
  BY SessionAssumption DEF RpcInv, TypeOK, Ids, MaxRequests
<1>5. returned \in [Ids -> Answers \cup Failures \cup {"none"}]
  BY <1>1 DEF TypeOK
<1>6. /\ Numbered' /\ OnTheWire' /\ FromServer' /\ Delivered'
      /\ ReaderNeverBlocks'
  <2>1. Numbered' /\ ReaderNeverBlocks'
    BY DEF RpcInv, Numbered, ReaderNeverBlocks
  <2>2. OnTheWire' /\ FromServer' /\ Delivered'
    BY DEF RpcInv, OnTheWire, FromServer, Delivered
  <2>. QED
    BY <2>1, <2>2
<1>7. Fresh'
  <2>1. ASSUME NEW i \in Ids, i > nextID PROVE returned'[i] = "none"
    <3>1. i # rid[g]
      BY <1>2, <1>3, <1>4, <2>1
    <3>. QED
      BY <1>2, <1>5, <2>1, <3>1 DEF RpcInv, Fresh
  <2>. QED
    BY <2>1 DEF RpcInv, Fresh
<1>8. Waiting'
  <2>1. ASSUME NEW h \in Goroutines, pc'[h] \in {"write", "await"}
        PROVE  returned'[rid[h]] = "none"
    <3>1. h # g /\ pc[h] \in {"write", "await"}
      BY <1>2, <2>1
    <3>2. rid[h] \in Ids /\ rid[h] # rid[g] /\ returned[rid[h]] = "none"
      BY <1>3, <3>1, CallNumber DEF RpcInv, Waiting
    <3>. QED
      BY <1>2, <1>5, <3>2
  <2>. QED
    BY <2>1 DEF Waiting
<1>9. Writing'
  <2>1. ASSUME NEW h \in Goroutines, pc'[h] = "write" PROVE pc[h] = "write"
    BY <1>2, <2>1
  <2>. QED
    BY <2>1 DEF RpcInv, Writing
<1>. QED
  BY <1>6, <1>7, <1>8, <1>9 DEF RpcInv

(* The server answers a request.                                           *)
LEMMA RpcServe ==
  ASSUME RpcInv, NEW r \in Requests, Serve(r), TypeOK'
  PROVE  RpcInv'
<1> USE DEF channels, run, steering
<1>1. PICK a \in Answers :
        /\ answered' = [answered EXCEPT ![r.id] = a]
        /\ \/ inbound' = Append(Append(inbound, [id |-> r.id, says |-> a]),
                                [id |-> 0, says |-> "status"])
           \/ inbound' = Append(inbound, [id |-> r.id, says |-> a])
  BY DEF Serve
<1>2. /\ r \in wire /\ wire' = wire \ {r}
      /\ UNCHANGED <<nextID, pending, replyCh, pc, rid, returned>>
  BY DEF Serve
<1>3. /\ r.id \in Ids /\ r.id <= nextID /\ answered[r.id] = "none"
      /\ \A q \in wire : q.id = r.id => q = r
  BY <1>2 DEF RpcInv, OnTheWire, Requests
<1>4. /\ answered \in [Ids -> Answers \cup {"none"}]
      /\ inbound \in Seq(Messages) /\ nextID \in Nat
      /\ wire \subseteq Requests
      /\ \A j \in Ids : j \in Nat /\ j # 0
  BY SessionAssumption DEF RpcInv, TypeOK, Ids, MaxRequests
<1>5. "none" \notin Answers
  BY DEF Answers
<1>6. Numbered' /\ Waiting' /\ ReaderNeverBlocks'
  BY <1>2 DEF RpcInv, Numbered, Waiting, ReaderNeverBlocks
<1>7. Fresh'
  <2>1. ASSUME NEW i \in Ids, i > nextID PROVE i # r.id
    BY <1>3, <1>4, <2>1
  <2>. QED
    BY <1>1, <1>2, <1>4, <2>1 DEF RpcInv, Fresh
<1>8. OnTheWire'
  <2>1. ASSUME NEW q \in wire' PROVE q \in wire /\ q.id # r.id /\ q.id \in Ids
    BY <1>2, <1>3, <1>4, <2>1 DEF Requests
  <2>. QED
    BY <1>1, <1>2, <1>4, <2>1 DEF RpcInv, OnTheWire
<1>9. FromServer'
  <2> DEFINE reply == [id |-> r.id, says |-> a]
             note == [id |-> 0, says |-> "status"]
             Honest(m) == m.id # 0 => m.id <= nextID /\ answered'[m.id] = m.says
  <2>1. reply \in Messages /\ note \in Messages
    BY <1>3 DEF Messages, Notes
  <2>2. Honest(reply) /\ Honest(note)
    BY <1>1, <1>3, <1>4
  <2>3. ASSUME NEW k \in 1..Len(inbound) PROVE Honest(inbound[k])
    <3>1. inbound[k] \in Messages
      BY <1>4
    <3>2. CASE inbound[k].id = 0
      BY <3>2
    <3>3. CASE inbound[k].id # 0
      <4>1. inbound[k].id \in Ids /\ inbound[k].says \in Answers
        BY <3>1, <3>3 DEF Messages
      <4>2. /\ inbound[k].id <= nextID
            /\ answered[inbound[k].id] = inbound[k].says
        BY <3>3 DEF RpcInv, FromServer
      <4>3. inbound[k].id # r.id
        BY <1>3, <1>5, <4>1, <4>2
      <4>. QED
        BY <1>1, <1>4, <4>1, <4>2, <4>3
    <3>. QED
      BY <3>2, <3>3
  <2> HIDE DEF reply, note, Honest
  <2>4. \/ inbound' = Append(Append(inbound, reply), note)
        \/ inbound' = Append(inbound, reply)
    BY <1>1 DEF reply, note
  <2>5. ASSUME NEW k \in 1..Len(inbound') PROVE Honest(inbound'[k])
    <3>1. \/ inbound'[k] = reply \/ inbound'[k] = note
          \/ k \in 1..Len(inbound) /\ inbound'[k] = inbound[k]
      <4>1. CASE inbound' = Append(inbound, reply)
        BY <1>4, <2>1, <2>5, <4>1
      <4>2. CASE inbound' = Append(Append(inbound, reply), note)
        <5>1. Append(inbound, reply) \in Seq(Messages)
          BY <1>4, <2>1
        <5>. QED
          BY <1>4, <2>1, <2>5, <4>2, <5>1
      <4>. QED
        BY <2>4, <4>1, <4>2
    <3>. QED
      BY <2>2, <2>3, <3>1
  <2>. QED
    BY <1>2, <2>5 DEF FromServer, Honest
<1>10. Delivered'
  <2>1. ASSUME NEW i \in Ids PROVE replyCh[i] \in {"none", "unavailable", answered'[i]}
    <3>1. CASE i = r.id
      BY <1>3, <3>1 DEF RpcInv, Delivered
    <3>2. CASE i # r.id
      BY <1>1, <1>4, <3>2 DEF RpcInv, Delivered
    <3>. QED
      BY <3>1, <3>2
  <2>. QED
    BY <1>2, <2>1 DEF Delivered
<1>11. Writing'
  <2>1. ASSUME NEW g \in Goroutines, pc[g] = "write"
        PROVE  answered'[rid[g]] = "none" /\ \A q \in wire : q.id # rid[g]
    <3>1. answered[rid[g]] = "none" /\ \A q \in wire : q.id # rid[g]
      BY <2>1 DEF RpcInv, Writing
    <3>2. rid[g] \in Ids
      BY <2>1, CallNumber
    <3>. QED
      BY <1>1, <1>2, <1>4, <3>1, <3>2
  <2>. QED
    BY <1>2, <2>1 DEF Writing
<1>. QED
  BY <1>6, <1>7, <1>8, <1>9, <1>10, <1>11 DEF RpcInv

(* Messages that are not replies, and the end of the connection.           *)
LEMMA RpcInbound ==
  ASSUME RpcInv, TypeOK',
         \/ inbound' = inbound
         \/ \E n \in Notes : inbound' = Append(inbound, [id |-> 0, says |-> n])
         \/ KeepsSome,
         UNCHANGED <<wire, nextID, pending, replyCh, rid, answered, returned>>,
         \A g \in Goroutines : pc'[g] \in {"write", "await"} => pc'[g] = pc[g]
  PROVE  RpcInv'
<1>1. inbound \in Seq(Messages)
  BY DEF RpcInv, TypeOK
<1>2. Numbered' /\ Fresh' /\ OnTheWire' /\ Delivered' /\ ReaderNeverBlocks'
  BY DEF RpcInv, Numbered, Fresh, OnTheWire, Delivered, ReaderNeverBlocks
<1>3. Waiting' /\ Writing'
  BY DEF RpcInv, Waiting, Writing
<1>4. FromServer'
  <2>1. CASE inbound' = inbound
    BY <2>1 DEF RpcInv, FromServer
  <2>2. ASSUME NEW n \in Notes, inbound' = Append(inbound, [id |-> 0, says |-> n])
        PROVE  FromServer'
    <3> DEFINE note == [id |-> 0, says |-> n]
    <3>1. note.id = 0 /\ note \in Messages /\ inbound' = Append(inbound, note)
      BY <2>2 DEF Messages
    <3> HIDE DEF note
    <3>2. \A k \in 1..Len(inbound') : inbound'[k].id # 0 =>
            k \in 1..Len(inbound) /\ inbound'[k] = inbound[k]
      BY <1>1, <3>1
    <3>. QED
      BY <3>2 DEF RpcInv, FromServer
  <2>3. CASE KeepsSome
    <3>1. PICK k \in 0..Len(inbound) : inbound' = SubSeq(inbound, 1, k)
      BY <2>3 DEF KeepsSome
    <3>2. \A j \in 1..Len(inbound') :
            j \in 1..Len(inbound) /\ inbound'[j] = inbound[j]
      BY <1>1, <3>1
    <3>. QED
      BY <3>2 DEF RpcInv, FromServer
  <2>. QED
    BY <2>1, <2>2, <2>3
<1>. QED
  BY <1>2, <1>3, <1>4 DEF RpcInv

LEMMA RpcReader ==
  ASSUME RpcInv, ReaderStep, TypeOK'
  PROVE  RpcInv'
<1> USE DEF remote, run, steering, history
<1>1. /\ inbound \in Seq(Messages) /\ nextID \in Nat
      /\ replyCh \in [Ids -> Answers \cup Failures \cup {"none"}]
      /\ pending \subseteq Ids
  BY SessionAssumption DEF RpcInv, TypeOK, MaxRequests
<1>2. ASSUME inbound # <<>>, inbound' = Tail(inbound),
             UNCHANGED <<nextID, answered>>
      PROVE  FromServer'
  <2>1. \A k \in 1..Len(inbound') :
          k + 1 \in 1..Len(inbound) /\ inbound'[k] = inbound[k + 1]
    BY <1>1, <1>2
  <2>. QED
    BY <1>2, <2>1 DEF RpcInv, FromServer
<1>3. ASSUME UNCHANGED <<wire, nextID, rid, pc, answered, returned>>,
             pending' \subseteq pending
      PROVE  Numbered' /\ OnTheWire' /\ Waiting' /\ Writing'
  <2>1. Numbered'
    BY <1>3 DEF RpcInv, Numbered
  <2>2. OnTheWire' /\ Waiting' /\ Writing'
    BY <1>3 DEF RpcInv, OnTheWire, Waiting, Writing
  <2>. QED
    BY <2>1, <2>2
<1>4. CASE ReadReply
  <2> DEFINE m == Head(inbound)
  <2>1. /\ m = inbound[1] /\ 1 \in 1..Len(inbound) /\ m.id # 0
        /\ m \in Messages
    BY <1>1, <1>4 DEF ReadReply
  <2>2. /\ m.id \in Ids /\ m.says \in Answers
        /\ m.id <= nextID /\ answered[m.id] = m.says
    BY <2>1 DEF RpcInv, FromServer, Messages
  <2>3. /\ inbound # <<>> /\ inbound' = Tail(inbound)
        /\ pending' = pending \ {m.id}
        /\ replyCh' = IF m.id \in pending
                      THEN [replyCh EXCEPT ![m.id] = m.says] ELSE replyCh
        /\ UNCHANGED <<wire, nextID, rid, pc, answered, returned>>
    BY <1>4 DEF ReadReply
  <2> HIDE DEF m
  <2>4. Numbered' /\ OnTheWire' /\ Waiting' /\ Writing' /\ FromServer'
    BY <1>2, <1>3, <2>3
  <2>5. Fresh'
    <3>1. ASSUME NEW i \in Ids, i > nextID PROVE replyCh'[i] = "none"
      <4>1. i # m.id
        BY <1>1, <2>2, <3>1 DEF Ids
      <4>. QED
        BY <1>1, <2>3, <3>1, <4>1 DEF RpcInv, Fresh
    <3>. QED
      BY <2>3, <3>1 DEF RpcInv, Fresh
  <2>6. Delivered'
    BY <1>1, <2>2, <2>3 DEF RpcInv, Delivered
  <2>7. ReaderNeverBlocks'
    BY <1>1, <2>3 DEF RpcInv, ReaderNeverBlocks
  <2>. QED
    BY <2>4, <2>5, <2>6, <2>7 DEF RpcInv
<1>5. CASE ReadNote
  <2>1. /\ inbound # <<>> /\ inbound' = Tail(inbound)
        /\ UNCHANGED <<wire, nextID, pending, replyCh, rid, pc, answered, returned>>
    BY <1>5 DEF ReadNote
  <2>2. Numbered' /\ OnTheWire' /\ Waiting' /\ Writing' /\ FromServer'
    BY <1>2, <1>3, <2>1
  <2>3. Fresh' /\ Delivered' /\ ReaderNeverBlocks'
    BY <2>1 DEF RpcInv, Fresh, Delivered, ReaderNeverBlocks
  <2>. QED
    BY <2>2, <2>3 DEF RpcInv
<1>6. CASE ReadFails
  <2>1. /\ pending' = {}
        /\ replyCh' = [i \in Ids |-> IF i \in pending THEN "unavailable"
                                                    ELSE replyCh[i]]
        /\ UNCHANGED <<wire, inbound, nextID, rid, pc, answered, returned>>
    BY <1>6 DEF ReadFails
  <2>2. Numbered' /\ OnTheWire' /\ Waiting' /\ Writing'
    BY <1>3, <2>1
  <2>3. FromServer' /\ ReaderNeverBlocks'
    BY <2>1 DEF RpcInv, FromServer, ReaderNeverBlocks
  <2>4. Fresh'
    <3>1. ASSUME NEW i \in Ids, i > nextID PROVE i \notin pending
      BY <1>1, <3>1 DEF RpcInv, Numbered, Ids
    <3>. QED
      BY <2>1, <3>1 DEF RpcInv, Fresh
  <2>5. Delivered'
    BY <2>1 DEF RpcInv, Delivered
  <2>. QED
    BY <2>2, <2>3, <2>4, <2>5 DEF RpcInv
<1>7. CASE CloseDone
  BY <1>7, RpcInbound DEF CloseDone
<1>. QED
  BY <1>4, <1>5, <1>6, <1>7 DEF ReaderStep

(* Every other step leaves the calls alone.                                *)
LEMMA RpcOther ==
  ASSUME RpcInv, TypeOK',
         \/ Initialized \/ Consume \/ WaitEnds
         \/ Unregister \/ Close \/ Fallback
         \/ Steer \/ SteerStops
         \/ Report \/ EndTurn \/ Lose \/ Cancel \/ UNCHANGED vars
  PROVE  RpcInv'
<1> USE DEF remote, channels, run, steering, history
<1>1. UNCHANGED <<wire, nextID, pending, replyCh, rid, answered, returned>>
  BY DEF Initialized, Consume, WaitEnds, Unregister, Close, Fallback, Steer,
         SteerStops, Report, EndTurn, Lose, Cancel, vars
<1>2. \/ inbound' = inbound
      \/ \E n \in Notes : inbound' = Append(inbound, [id |-> 0, says |-> n])
      \/ KeepsSome
  BY DEF Initialized, Consume, WaitEnds, Unregister, Close, Fallback, Steer,
         SteerStops, Report, EndTurn, Lose, Cancel, vars, Notes, Ends
<1>3. \/ pc' = pc
      \/ \E g \in Goroutines, l \in Pcs \ {"write", "await"} : Goto(g, l)
  BY DEF Initialized, Consume, WaitEnds, Unregister, Close, Fallback, Steer,
         SteerStops, Report, EndTurn, Lose, Cancel, vars, Leave, Goroutines, Pcs
<1>4. \A g \in Goroutines : pc'[g] \in {"write", "await"} => pc'[g] = pc[g]
  BY <1>3 DEF Goto, RpcInv, TypeOK
<1>. QED
  BY <1>1, <1>2, <1>4, RpcInbound

(* A request goroutine's step, by what it does to the calls.               *)
LEMMA RequestEffect ==
  ASSUME RpcInv, NEW g \in Goroutines,
         WriteFails(g) \/ TakeReply(g) \/ SeeDone(g) \/ GiveUp(g)
  PROVE  \E o \in Answers \cup Failures :
           /\ pc[g] \in {"write", "await"}
           /\ Returns(g, o)
           /\ o \in Failures \/ o = answered[rid[g]]
           /\ pc[g] = "write" => o = "write"
           /\ pending' \subseteq pending
           /\ UNCHANGED <<wire, inbound, taken, nextID, replyCh, rid, answered>>
<1> USE DEF remote, channels
<1>1. CASE WriteFails(g)
  BY <1>1 DEF WriteFails, Failures
<1>2. CASE TakeReply(g)
  <2>1. rid[g] \in Ids
    BY <1>2, CallNumber DEF TakeReply
  <2>2. /\ replyCh[rid[g]] \in Answers \cup Failures
        /\ replyCh[rid[g]] \in Failures \/ replyCh[rid[g]] = answered[rid[g]]
    BY <1>2, <2>1 DEF TakeReply, RpcInv, TypeOK, Delivered, Failures
  <2>. QED
    BY <1>2, <2>2 DEF TakeReply
<1>3. CASE SeeDone(g)
  BY <1>3 DEF SeeDone, Failures
<1>4. CASE GiveUp(g)
  BY <1>4 DEF GiveUp, Failures
<1>. QED
  BY <1>1, <1>2, <1>3, <1>4

LEMMA RpcStep == RpcInv /\ [Next]_vars => RpcInv'
<1> SUFFICES ASSUME RpcInv, [Next]_vars PROVE RpcInv'
  OBVIOUS
<1>1. TypeOK'
  BY TypeStep DEF RpcInv
<1>2. ASSUME NEW g \in Goroutines, Request(g) PROVE RpcInv'
  <2>1. CASE Open(g)
    BY <1>1, <2>1, RpcOpen
  <2>2. CASE Write(g)
    BY <1>1, <2>2, RpcWrite
  <2>3. CASE WriteFails(g) \/ TakeReply(g) \/ SeeDone(g) \/ GiveUp(g)
    BY <1>1, <2>3, RequestEffect, RpcReturn
  <2>. QED
    BY <1>2, <2>1, <2>2, <2>3 DEF Request
<1>3. ASSUME NEW r \in Requests, Serve(r) PROVE RpcInv'
  BY <1>1, <1>3, RpcServe
<1>4. CASE ReaderStep
  BY <1>1, <1>4, RpcReader
<1>5. CASE \/ Initialized \/ Consume \/ WaitEnds
           \/ Unregister \/ Close \/ Fallback
           \/ Steer \/ SteerStops
           \/ Report \/ EndTurn \/ Lose \/ Cancel \/ UNCHANGED vars
  BY <1>1, <1>5, RpcOther
<1>. QED
  BY <1>2, <1>3, <1>4, <1>5
     DEF Next, RunStep, SteerStep, AgentStep, Quiescent, Goroutines

(* The reader never blocks: the channel of a call in the map is empty      *)
(* (readLoop, failAllPending).                                             *)
THEOREM ReaderRuns == Spec => []ReaderNeverBlocks
<1>1. RpcInv => ReaderNeverBlocks
  BY DEF RpcInv
<1>. QED
  BY RpcInit, RpcStep, <1>1, PTL DEF Spec

(* Every call returns at most once, with the server's answer to it or with *)
(* a failure of the client (request, readLoop, failAllPending).            *)
THEOREM ImplementsRpc == Spec => RpcSpec
<1>1. Init => Rpc!Init
  BY DEF Init, Rpc!Init
<1>2. RpcInv /\ [Next]_vars => [Rpc!Next]_Rpc!vars
  <2> SUFFICES ASSUME RpcInv, [Next]_vars PROVE [Rpc!Next]_Rpc!vars
    OBVIOUS
  <2> USE DEF remote, channels, run, steering, history
  <2>1. ASSUME NEW g \in Goroutines, Open(g) PROVE Rpc!Call
    <3>1. /\ nextID \in Nat /\ nextID + 1 \in Ids
          /\ nextID' = nextID + 1 /\ UNCHANGED <<answered, returned>>
      BY <2>1, SessionAssumption DEF Open, RpcInv, TypeOK, Ids, MaxRequests
    <3>2. nextID + 1 \in Ids \ (1..nextID)
      BY <3>1
    <3>3. 1..(nextID + 1) = (1..nextID) \cup {nextID + 1}
      BY <3>1
    <3>. QED
      BY <3>1, <3>2, <3>3 DEF Rpc!Call
  <2>2. ASSUME NEW r \in Requests, Serve(r) PROVE Rpc!Answer
    <3>1. PICK a \in Answers : answered' = [answered EXCEPT ![r.id] = a]
      BY <2>2 DEF Serve
    <3>2. /\ r.id \in Ids /\ r.id <= nextID /\ answered[r.id] = "none"
          /\ UNCHANGED <<nextID, returned>>
      BY <2>2 DEF Serve, RpcInv, OnTheWire, Requests
    <3>3. nextID \in Nat /\ MaxRequests \in Nat
      BY SessionAssumption DEF RpcInv, TypeOK, MaxRequests
    <3>4. r.id \in 1..nextID
      BY <3>2, <3>3 DEF Ids
    <3>. QED
      BY <3>1, <3>2, <3>4 DEF Rpc!Answer
  <2>3. ASSUME NEW g \in Goroutines,
               WriteFails(g) \/ TakeReply(g) \/ SeeDone(g) \/ GiveUp(g)
        PROVE  Rpc!Return
    <3>1. PICK o \in Answers \cup Failures :
            /\ pc[g] \in {"write", "await"}
            /\ Returns(g, o)
            /\ o \in Failures \/ o = answered[rid[g]]
            /\ UNCHANGED <<nextID, answered>>
      BY <2>3, RequestEffect
    <3>2. /\ rid[g] \in Ids /\ rid[g] <= nextID
          /\ returned[rid[g]] = "none"
          /\ returned' = [returned EXCEPT ![rid[g]] = o]
      BY <3>1, CallNumber DEF Returns, RpcInv, Waiting
    <3>3. nextID \in Nat /\ MaxRequests \in Nat
      BY SessionAssumption DEF RpcInv, TypeOK, MaxRequests
    <3>4. rid[g] \in 1..nextID
      BY <3>2, <3>3 DEF Ids
    <3>5. \/ o \in Failures
          \/ answered[rid[g]] # "none" /\ o = answered[rid[g]]
      BY <3>1 DEF Answers, Failures
    <3>. QED
      BY <3>1, <3>2, <3>4, <3>5 DEF Rpc!Return
  <2>4. CASE \/ \E g \in Goroutines : Write(g)
             \/ ReaderStep \/ Initialized \/ Consume \/ WaitEnds
             \/ Unregister \/ Close \/ Fallback \/ Steer \/ SteerStops
             \/ Report \/ EndTurn \/ Lose \/ Cancel \/ UNCHANGED vars
    <3>1. UNCHANGED <<nextID, answered, returned>>
      BY <2>4 DEF Write, ReaderStep, ReadReply, ReadNote, ReadFails, CloseDone,
           Initialized, Consume, WaitEnds, Unregister, Close, Fallback, Steer,
           SteerStops, Report, EndTurn, Lose, Cancel, vars
    <3>. QED
      BY <3>1 DEF Rpc!vars
  <2>. QED
    BY <2>1, <2>2, <2>3, <2>4 DEF Next, RunStep, SteerStep, AgentStep, Request,
       Quiescent, Goroutines, Rpc!Next
<1>. QED
  BY RpcInit, RpcStep, <1>1, <1>2, PTL DEF Spec, RpcSpec, Rpc!Spec

-----------------------------------------------------------------------------
(* A steer request on the socket carries the message being steered, and    *)
(* the message of an accepted one is in the turn.                          *)
Carried == \A r \in wire :
  pc["steer"] = "await" /\ r.id = rid["steer"] =>
    r.method = "steer" /\ r.message = steers
Accepted ==
  pc["steer"] = "await" /\ answered[rid["steer"]] = "ok" => steers \in taken
SteerInv == Carried /\ Accepted /\ SteeredWasTaken

LEMMA SteerInit == Init => SteerInv
  BY DEF Init, SteerInv, Carried, Accepted, SteeredWasTaken, Goroutines

LEMMA SteerUntouched ==
  ASSUME SteerInv, UNCHANGED <<wire, answered, taken, confirmed>>,
         pc'["steer"] = "await" =>
           /\ pc["steer"] = "await"
           /\ steers' = steers /\ rid'["steer"] = rid["steer"]
  PROVE  SteerInv'
<1>1. Carried' /\ Accepted'
  BY DEF SteerInv, Carried, Accepted
<1>2. SteeredWasTaken'
  BY DEF SteerInv, SteeredWasTaken
<1>. QED
  BY <1>1, <1>2 DEF SteerInv

LEMMA SteerStepInv == RpcInv /\ SteerInv /\ [Next]_vars => SteerInv'
<1> SUFFICES ASSUME RpcInv, SteerInv, [Next]_vars PROVE SteerInv'
  OBVIOUS
<1> USE DEF remote, channels, run, steering, history
<1>0. /\ pc \in [Goroutines -> Pcs] /\ rid \in [Goroutines -> 0..MaxRequests]
      /\ "run" \in Goroutines /\ "steer" \in Goroutines
      /\ \A g \in Goroutines : g = "run" \/ g = "steer"
      /\ answered \in [Ids -> Answers \cup {"none"}]
  BY DEF RpcInv, TypeOK, Goroutines
<1>1. ASSUME NEW g \in Goroutines, Open(g) PROVE SteerInv'
  <2>1. /\ UNCHANGED <<wire, answered, taken, confirmed, steers>>
        /\ pc' = [pc EXCEPT ![g] = "write"]
        /\ rid' = [rid EXCEPT ![g] = nextID + 1]
    BY <1>1 DEF Open, Goto
  <2>2. pc'["steer"] = "await" => pc["steer"] = "await" /\ rid'["steer"] = rid["steer"]
    BY <1>0, <2>1
  <2>. QED
    BY <2>1, <2>2, SteerUntouched
<1>2. CASE Write("run")
  <2> DEFINE req == [id |-> rid["run"], method |-> stage, message |-> 0]
  <2>1. wire' \subseteq wire \cup {req} /\ req.id = rid["run"]
    BY <1>2 DEF Write
  <2> HIDE DEF req
  <2>2. pc["run"] = "write" /\ pc' = [pc EXCEPT !["run"] = "await"]
        /\ UNCHANGED <<answered, taken, confirmed, steers, rid>>
    BY <1>2 DEF Write, Goto
  <2>3. rid["steer"] # rid["run"]
    BY <1>0, <2>2, CallNumber
  <2>4. pc'["steer"] = pc["steer"]
    BY <1>0, <2>2
  <2>5. Carried'
    BY <2>1, <2>2, <2>3, <2>4 DEF SteerInv, Carried
  <2>6. Accepted' /\ SteeredWasTaken'
    BY <2>2, <2>4 DEF SteerInv, Accepted, SteeredWasTaken
  <2>. QED
    BY <2>5, <2>6 DEF SteerInv
<1>3. CASE Write("steer")
  <2>1. wire' \subseteq wire \cup {[id |-> rid["steer"], method |-> "steer",
                                  message |-> steers]}
    BY <1>3 DEF Write
  <2>2. pc["steer"] = "write"
        /\ UNCHANGED <<answered, taken, confirmed, steers, rid>>
    BY <1>3 DEF Write
  <2>3. /\ answered[rid["steer"]] = "none"
        /\ \A r \in wire : r.id # rid["steer"]
    BY <1>0, <2>2 DEF RpcInv, Writing
  <2>4. Carried'
    BY <2>1, <2>2, <2>3 DEF Carried
  <2>5. Accepted' /\ SteeredWasTaken'
    BY <2>2, <2>3 DEF SteerInv, Accepted, SteeredWasTaken
  <2>. QED
    BY <2>4, <2>5 DEF SteerInv
<1>4. ASSUME NEW r \in Requests, Serve(r) PROVE SteerInv'
  <2>1. PICK a \in Answers :
          /\ answered' = [answered EXCEPT ![r.id] = a]
          /\ taken' = IF r.method = "steer" /\ a = "ok"
                      THEN taken \cup {r.message} ELSE taken
    BY <1>4 DEF Serve
  <2>2. /\ r \in wire /\ wire' = wire \ {r}
        /\ UNCHANGED <<pc, rid, steers, confirmed>>
    BY <1>4 DEF Serve
  <2>3. taken \subseteq taken'
    BY <2>1
  <2>4. Carried'
    BY <2>2 DEF SteerInv, Carried
  <2>5. SteeredWasTaken'
    BY <2>2, <2>3 DEF SteerInv, SteeredWasTaken
  <2>6. ASSUME pc["steer"] = "await", answered'[rid["steer"]] = "ok"
        PROVE  steers \in taken'
    <3>1. rid["steer"] \in Ids /\ r.id \in Ids
      BY <1>0, <2>6, CallNumber DEF Requests
    <3>2. CASE r.id = rid["steer"]
      <4>1. a = "ok"
        BY <1>0, <2>1, <2>6, <3>1, <3>2
      <4>2. r.method = "steer" /\ r.message = steers
        BY <2>2, <2>6, <3>2 DEF SteerInv, Carried
      <4>. QED
        BY <2>1, <4>1, <4>2
    <3>3. CASE r.id # rid["steer"]
      <4>1. answered[rid["steer"]] = "ok"
        BY <1>0, <2>1, <2>6, <3>1, <3>3
      <4>. QED
        BY <2>3, <2>6, <4>1 DEF SteerInv, Accepted
    <3>. QED
      BY <3>2, <3>3
  <2>7. Accepted'
    BY <2>2, <2>6 DEF Accepted
  <2>. QED
    BY <2>4, <2>5, <2>7 DEF SteerInv
<1>5. ASSUME NEW g \in Goroutines,
             WriteFails(g) \/ TakeReply(g) \/ SeeDone(g) \/ GiveUp(g)
      PROVE  SteerInv'
  <2>1. PICK o \in Answers \cup Failures :
          /\ pc[g] \in {"write", "await"}
          /\ Returns(g, o)
          /\ o \in Failures \/ o = answered[rid[g]]
          /\ pc[g] = "write" => o = "write"
          /\ UNCHANGED <<wire, taken, rid, answered>>
    BY <1>5, RequestEffect
  <2>2. TypeOK
    BY DEF RpcInv
  <2>3. CASE g = "run"
    <3>1. RunGets(o) /\ UNCHANGED steering
      BY <2>1, <2>3 DEF Returns
    <3>2. pc'["steer"] = pc["steer"]
      BY <2>2, <3>1, RunGetsType
    <3>. QED
      BY <2>1, <3>1, <3>2, SteerUntouched
  <2>4. CASE g = "steer"
    <3>1. SteerGets(o)
      BY <2>1, <2>4 DEF Returns
    <3>2. pc'["steer"] # "await"
      BY <2>2, <3>1, SteerGetsType
    <3>3. Carried' /\ Accepted'
      BY <3>2 DEF Carried, Accepted
    <3>4. o = "ok" => steers \in taken
      <4>1. "ok" \notin Failures
        BY DEF Failures
      <4>. QED
        BY <2>1, <2>4, <4>1 DEF SteerInv, Accepted
    <3>5. confirmed' = confirmed \/ (o = "ok" /\ confirmed' = confirmed \cup {steers})
      BY <3>1 DEF SteerGets
    <3>6. SteeredWasTaken'
      BY <2>1, <3>4, <3>5 DEF SteerInv, SteeredWasTaken
    <3>. QED
      BY <3>3, <3>6 DEF SteerInv
  <2>. QED
    BY <1>0, <2>3, <2>4
<1>6. CASE \/ ReaderStep \/ Initialized \/ Consume \/ WaitEnds
           \/ Unregister \/ Close \/ Fallback
           \/ Report \/ EndTurn \/ Lose \/ Cancel \/ UNCHANGED vars
  <2>1. UNCHANGED <<wire, answered, taken, confirmed, steers, rid>>
    BY <1>6 DEF ReaderStep, ReadReply, ReadNote, ReadFails, CloseDone,
         Initialized, Consume, WaitEnds, Unregister, Close, Fallback,
         Report, EndTurn, Lose, Cancel, vars
  <2>2. pc' = pc \/ \E l \in Pcs : Goto("run", l)
    BY <1>6 DEF ReaderStep, ReadReply, ReadNote, ReadFails, CloseDone,
         Initialized, Consume, WaitEnds, Unregister, Close, Fallback,
         Report, EndTurn, Lose, Cancel, vars, Leave, Pcs
  <2>3. pc'["steer"] = pc["steer"]
    BY <1>0, <2>2 DEF Goto
  <2>. QED
    BY <2>1, <2>3, SteerUntouched
<1>7. CASE Steer \/ SteerStops
  <2>1. UNCHANGED <<wire, answered, taken, confirmed>>
    BY <1>7 DEF Steer, SteerStops
  <2>2. Goto("steer", "open") \/ Goto("steer", "idle")
    BY <1>7 DEF Steer, SteerStops
  <2>3. pc'["steer"] # "await"
    BY <1>0, <2>2 DEF Goto
  <2>. QED
    BY <2>1, <2>3, SteerUntouched
<1>. QED
  BY <1>0, <1>1, <1>2, <1>3, <1>4, <1>5, <1>6, <1>7
     DEF Next, RunStep, SteerStep, AgentStep, Request, Quiescent

(* A message reported as steered was taken in by the turn (SteerThread,    *)
(* turnSteer, request).                                                    *)
THEOREM SteeringIsTrue == Spec => []SteeredWasTaken
<1>1. SteerInv => SteeredWasTaken
  BY DEF SteerInv
<1>. QED
  BY RpcInit, RpcStep, SteerInit, SteerStepInv, <1>1, PTL DEF Spec

-----------------------------------------------------------------------------
(* Only a run that is over closes its session, after unregistering it.     *)
OpenInv ==
  /\ registered => pc["run"] \notin {"close", "fallback", "returned"}
  /\ socket = "closed" => pc["run"] \in {"fallback", "returned"}

LEMMA OpenStep == TypeOK /\ OpenInv /\ [Next]_vars => OpenInv'
<1> SUFFICES ASSUME TypeOK, OpenInv, [Next]_vars PROVE OpenInv'
  OBVIOUS
<1> USE DEF remote, channels, run, steering, history
<1>0. /\ pc \in [Goroutines -> Pcs]
      /\ "run" \in Goroutines /\ "steer" \in Goroutines
      /\ registered \in BOOLEAN
  BY DEF TypeOK, Goroutines
<1>1. ASSUME UNCHANGED <<registered, socket>>, pc'["run"] = pc["run"]
      PROVE  OpenInv'
  BY <1>1 DEF OpenInv
<1>2. ASSUME Leave("ok") \/ Leave("error") \/ Leave("unavailable") \/ Leave("cancelled"),
             UNCHANGED socket, pc["run"] \notin {"fallback", "returned"}
      PROVE  OpenInv'
  <2>1. /\ pc' = [pc EXCEPT !["run"] = IF registered THEN "unregister" ELSE "close"]
        /\ registered' = registered
    BY <1>2 DEF Leave, Goto
  <2>. QED
    BY <1>0, <1>2, <2>1 DEF OpenInv
<1>3. ASSUME NEW g \in Goroutines, Request(g) PROVE OpenInv'
  <2>1. UNCHANGED socket /\ pc[g] \notin {"close", "fallback", "returned"}
    BY <1>3 DEF Request, Open, Write, WriteFails, TakeReply, SeeDone, GiveUp
  <2>2. CASE Open(g) \/ Write(g)
    <3>1. /\ UNCHANGED registered
          /\ Goto(g, "write") \/ Goto(g, "await")
      BY <2>2 DEF Open, Write
    <3>2. pc'["run"] = pc["run"] \/ (g = "run" /\ pc'["run"] \in {"write", "await"})
      BY <1>0, <3>1 DEF Goto
    <3>. QED
      BY <2>1, <3>1, <3>2 DEF OpenInv
  <2>3. ASSUME NEW o, RunGets(o), g = "run" PROVE OpenInv'
    <3>1. \E l \in {"notify", "open", "wait", "unregister"} : Goto("run", l)
          \/ (Goto("run", "close") /\ registered' = FALSE)
      BY <1>0, <2>3 DEF RunGets, LatestReply, Leave
    <3>2. pc'["run"] \in {"notify", "open", "wait", "unregister"}
          \/ (pc'["run"] = "close" /\ registered' = FALSE)
      BY <1>0, <3>1 DEF Goto
    <3>. QED
      BY <2>1, <2>3, <3>2 DEF OpenInv
  <2>4. ASSUME NEW o, SteerGets(o), UNCHANGED run PROVE OpenInv'
    <3>1. Goto("steer", "idle") \/ Goto("steer", "open")
      BY <2>4 DEF SteerGets
    <3>2. pc'["run"] = pc["run"]
      BY <1>0, <3>1 DEF Goto
    <3>. QED
      BY <1>1, <2>1, <2>4, <3>2
  <2>. QED
    BY <1>3, <2>2, <2>3, <2>4
       DEF Request, WriteFails, TakeReply, SeeDone, GiveUp, Returns
<1>4. CASE Initialized
  <2>1. CASE Leave("unavailable")
    BY <1>2, <1>4, <2>1 DEF Initialized
  <2>2. CASE Goto("run", "open") /\ UNCHANGED registered
    <3>1. pc'["run"] = "open" /\ pc["run"] = "notify" /\ UNCHANGED socket
      BY <1>0, <1>4, <2>2 DEF Initialized, Goto
    <3>. QED
      BY <2>2, <3>1 DEF OpenInv
  <2>. QED
    BY <1>4, <2>1, <2>2 DEF Initialized
<1>5. CASE Consume
  <2>1. pc["run"] = "wait" /\ UNCHANGED socket
    BY <1>5 DEF Consume
  <2>2. CASE Leave("error") \/ Leave("ok")
    BY <1>2, <2>1, <2>2
  <2>3. CASE Goto("run", "open") /\ UNCHANGED registered
    <3>1. pc'["run"] = "open"
      BY <1>0, <2>3 DEF Goto
    <3>. QED
      BY <2>1, <2>3, <3>1 DEF OpenInv
  <2>4. CASE UNCHANGED <<pc, registered>>
    BY <1>1, <2>1, <2>4
  <2>. QED
    BY <1>5, <2>2, <2>3, <2>4 DEF Consume
<1>6. CASE WaitEnds
  BY <1>2, <1>6 DEF WaitEnds
<1>7. CASE Unregister
  <2>1. registered' = FALSE /\ pc["run"] = "unregister" /\ UNCHANGED socket
    BY <1>7 DEF Unregister
  <2>. QED
    BY <2>1 DEF OpenInv
<1>8. CASE Close
  <2>1. pc["run"] = "close" /\ Goto("run", "fallback") /\ UNCHANGED registered
    BY <1>8 DEF Close
  <2>2. pc'["run"] = "fallback"
    BY <1>0, <2>1 DEF Goto
  <2>. QED
    BY <2>1, <2>2 DEF OpenInv
<1>9. CASE Fallback
  <2>1. pc["run"] = "fallback" /\ Goto("run", "returned")
        /\ UNCHANGED <<registered, socket>>
    BY <1>9 DEF Fallback
  <2>2. pc'["run"] = "returned"
    BY <1>0, <2>1 DEF Goto
  <2>. QED
    BY <2>1, <2>2 DEF OpenInv
<1>10. CASE Lose
  BY <1>10 DEF Lose, OpenInv
<1>11. CASE Steer \/ SteerStops
  <2>1. UNCHANGED <<registered, socket>>
        /\ (Goto("steer", "open") \/ Goto("steer", "idle"))
    BY <1>11 DEF Steer, SteerStops
  <2>2. pc'["run"] = pc["run"]
    BY <1>0, <2>1 DEF Goto
  <2>. QED
    BY <1>1, <2>1, <2>2
<1>12. CASE ReaderStep \/ AgentStep \/ Cancel \/ UNCHANGED vars
  <2>1. UNCHANGED <<pc, registered, socket>>
    BY <1>12 DEF ReaderStep, ReadReply, ReadNote, ReadFails, CloseDone,
         AgentStep, Serve, Report, EndTurn, Cancel, vars
  <2>. QED
    BY <1>1, <2>1
<1>. QED
  BY <1>0, <1>3, <1>4, <1>5, <1>6, <1>7, <1>8, <1>9, <1>10, <1>11, <1>12
     DEF Next, RunStep, SteerStep, Quiescent

(* A session that can be looked up has not been closed (the order of the   *)
(* deferred calls of StartThread and ResumeThread).                        *)
THEOREM LookupIsOpen == Spec => []ActiveIsOpen
<1>1. Init => OpenInv
  BY DEF Init, OpenInv, Goroutines
<1>2. OpenInv => ActiveIsOpen
  BY DEF OpenInv, ActiveIsOpen
<1>. QED
  BY InitType, TypeStep, OpenStep, <1>1, <1>2, PTL DEF Spec

-----------------------------------------------------------------------------
(* The text of a turn.  What the run has read (t), what is queued for it   *)
(* (Q) and what is on the socket (P) add up to what the process has sent   *)
(* (s).  The sums are given by two functions: e[k] is the text after the   *)
(* first k notifications of the queue, b[k] the text after the first k     *)
(* messages of the socket too.  Behind the end of the turn nothing is left *)
(* to add.                                                                 *)
One(n) == IF n = "delta" THEN 1 ELSE 0

Tally(e, Q) == \A k \in 1..Len(Q) : e[k] = e[k - 1] + One(Q[k])
TallyIn(b, P) == \A k \in 1..Len(P) : b[k] = b[k - 1] + One(P[k].says)
All(f, lo, hi, s) == \A k \in lo..hi : f[k] = s
Settled(e, b, Q, P, s) == \A c \in 1..Len(Q) : Q[c] \in Ends =>
  All(e, c, Len(Q), s) /\ All(b, 0, Len(P), s)
SettledIn(b, P, s) == \A c \in 1..Len(P) : P[c].says \in Ends =>
  All(b, c, Len(P), s)

Reckons(e, b, t, Q, P, s, up) ==
  /\ e \in [Nat -> Nat] /\ b \in [Nat -> Nat]
  /\ e[0] = t /\ e[Len(Q)] = b[0]
  /\ up = "up" => b[Len(P)] = s
  /\ Tally(e, Q) /\ TallyIn(b, P)
  /\ Settled(e, b, Q, P, s) /\ SettledIn(b, P, s)

Shift(f) == [k \in Nat |-> f[k + 1]]
Put(f, n, v) == [f EXCEPT ![n] = v]

(* The sums move with the sequences: a head is taken, an element appended. *)
LEMMA Shifted ==
  ASSUME NEW f \in [Nat -> Nat]
  PROVE  /\ Shift(f) \in [Nat -> Nat]
         /\ \A k \in Nat : Shift(f)[k] = f[k + 1]
  BY DEF Shift

LEMMA ShiftAll ==
  ASSUME NEW f \in [Nat -> Nat], NEW lo \in Nat, NEW hi \in Nat, NEW s,
         All(f, lo + 1, hi + 1, s)
  PROVE  All(Shift(f), lo, hi, s)
<1> SUFFICES ASSUME NEW k \in lo..hi PROVE Shift(f)[k] = s
  BY DEF All
<1>1. k \in Nat /\ k + 1 \in (lo + 1)..(hi + 1)
  OBVIOUS
<1>2. f[k + 1] = s
  BY <1>1 DEF All
<1>. QED
  BY <1>1, <1>2, Shifted

LEMMA ShiftTally ==
  ASSUME NEW f \in [Nat -> Nat], NEW Q \in Seq(Notes), Q # <<>>, Tally(f, Q)
  PROVE  /\ Tally(Shift(f), Tail(Q)) /\ f[1] = f[0] + One(Head(Q))
<1> DEFINE R == Tail(Q)
<1>1. /\ Len(R) \in Nat /\ Len(Q) = Len(R) + 1
      /\ \A j \in 1..Len(R) : R[j] = Q[j + 1]
      /\ Q[1] = Head(Q)
  OBVIOUS
<1> HIDE DEF R
<1>2. ASSUME NEW k \in 1..Len(R)
      PROVE  Shift(f)[k] = Shift(f)[k - 1] + One(R[k])
  <2>1. /\ k \in Nat /\ k - 1 \in Nat /\ (k - 1) + 1 = k /\ (k + 1) - 1 = k
        /\ k + 1 \in 1..Len(Q) /\ R[k] = Q[k + 1]
    BY <1>1
  <2>2. f[k + 1] = f[(k + 1) - 1] + One(Q[k + 1])
    BY <2>1 DEF Tally
  <2>3. Shift(f)[k] = f[k + 1] /\ Shift(f)[k - 1] = f[(k - 1) + 1]
    BY <2>1, Shifted
  <2>. QED
    BY <2>1, <2>2, <2>3
<1>3. f[1] = f[0] + One(Head(Q))
  <2>1. 1 \in 1..Len(Q) /\ 1 - 1 = 0
    BY <1>1
  <2>2. f[1] = f[1 - 1] + One(Q[1])
    BY <2>1 DEF Tally
  <2>. QED
    BY <1>1, <2>1, <2>2
<1>4. Tally(Shift(f), R)
  BY <1>2 DEF Tally
<1>. QED
  BY <1>3, <1>4 DEF R

LEMMA ShiftTallyIn ==
  ASSUME NEW f \in [Nat -> Nat], NEW P \in Seq(Messages), P # <<>>, TallyIn(f, P)
  PROVE  /\ TallyIn(Shift(f), Tail(P)) /\ f[1] = f[0] + One(Head(P).says)
<1> DEFINE R == Tail(P)
<1>1. /\ Len(R) \in Nat /\ Len(P) = Len(R) + 1
      /\ \A j \in 1..Len(R) : R[j] = P[j + 1]
      /\ P[1] = Head(P)
  OBVIOUS
<1> HIDE DEF R
<1>2. ASSUME NEW k \in 1..Len(R)
      PROVE  Shift(f)[k] = Shift(f)[k - 1] + One(R[k].says)
  <2>1. /\ k \in Nat /\ k - 1 \in Nat /\ (k - 1) + 1 = k /\ (k + 1) - 1 = k
        /\ k + 1 \in 1..Len(P) /\ R[k] = P[k + 1]
    BY <1>1
  <2>2. f[k + 1] = f[(k + 1) - 1] + One(P[k + 1].says)
    BY <2>1 DEF TallyIn
  <2>3. Shift(f)[k] = f[k + 1] /\ Shift(f)[k - 1] = f[(k - 1) + 1]
    BY <2>1, Shifted
  <2>. QED
    BY <2>1, <2>2, <2>3
<1>3. f[1] = f[0] + One(Head(P).says)
  <2>1. 1 \in 1..Len(P) /\ 1 - 1 = 0
    BY <1>1
  <2>2. f[1] = f[1 - 1] + One(P[1].says)
    BY <2>1 DEF TallyIn
  <2>. QED
    BY <1>1, <2>1, <2>2
<1>4. TallyIn(Shift(f), R)
  BY <1>2 DEF TallyIn
<1>. QED
  BY <1>3, <1>4 DEF R

LEMMA PutAll ==
  ASSUME NEW f \in [Nat -> Nat], NEW lo \in Nat, NEW hi \in Nat, NEW s \in Nat,
         All(f, lo, hi, s), NEW n \in Nat, n = hi + 1
  PROVE  All(Put(f, n, s), lo, n, s)
<1> SUFFICES ASSUME NEW k \in lo..n PROVE Put(f, n, s)[k] = s
  BY DEF All
<1>1. k \in Nat /\ (k # n => k \in lo..hi)
  OBVIOUS
<1>2. Put(f, n, s)[n] = s /\ \A j \in Nat \ {n} : Put(f, n, s)[j] = f[j]
  BY DEF Put
<1>3. CASE k = n
  BY <1>2, <1>3
<1>4. CASE k # n
  <2>1. f[k] = s
    BY <1>1, <1>4 DEF All
  <2>. QED
    BY <1>1, <1>2, <1>4, <2>1
<1>. QED
  BY <1>3, <1>4

(* A place in a sequence that has grown by one.                            *)
LEMMA Places ==
  ASSUME NEW q \in Nat, NEW n, n = q + 1, NEW k \in 1..n
  PROVE  /\ k \in Nat /\ k - 1 \in Nat /\ k - 1 # n
         /\ (k = n => k - 1 = q)
         /\ (k # n => k \in 1..q)
<1>1. n \in Nat /\ k \in Nat /\ 1 <= k /\ k <= n
  OBVIOUS
<1>2. k - 1 \in Nat /\ k - 1 # n
  BY <1>1
<1>3. k = n => k - 1 = q
  OBVIOUS
<1>4. k # n => k \in 1..q
  BY <1>1
<1>. QED
  BY <1>1, <1>2, <1>3, <1>4

LEMMA PutTally ==
  ASSUME NEW f \in [Nat -> Nat], NEW Q \in Seq(Notes), NEW m \in Notes,
         Tally(f, Q), NEW v \in Nat, v = f[Len(Q)] + One(m),
         NEW n \in Nat, n = Len(Q) + 1
  PROVE  Tally(Put(f, n, v), Append(Q, m))
<1> DEFINE R == Append(Q, m)
           d == Put(f, n, v)
<1>1. Len(Q) \in Nat /\ Len(R) = n
  OBVIOUS
<1>2. R[n] = m /\ \A j \in 1..Len(Q) : R[j] = Q[j]
  OBVIOUS
<1>3. d[n] = v /\ \A k \in Nat \ {n} : d[k] = f[k]
  BY DEF Put
<1> HIDE DEF R, d
<1>4. ASSUME NEW k \in 1..Len(R) PROVE d[k] = d[k - 1] + One(R[k])
  <2>0. k \in 1..n
    BY <1>1
  <2>1. /\ k \in Nat /\ k - 1 \in Nat /\ k - 1 # n
        /\ (k = n => k - 1 = Len(Q))
        /\ (k # n => k \in 1..Len(Q))
    BY <1>1, <2>0, Places
  <2>2. d[k - 1] = f[k - 1]
    BY <1>3, <2>1
  <2>3. CASE k = n
    <3>1. d[k - 1] = f[Len(Q)] /\ d[k] = v /\ R[k] = m
      BY <1>2, <1>3, <2>1, <2>2, <2>3
    <3>. QED
      BY <3>1
  <2>4. CASE k # n
    <3>1. k \in 1..Len(Q)
      BY <2>1, <2>4
    <3>2. f[k] = f[k - 1] + One(Q[k])
      BY <3>1 DEF Tally
    <3>3. d[k] = f[k] /\ R[k] = Q[k]
      BY <1>2, <1>3, <2>1, <2>4, <3>1
    <3>. QED
      BY <2>2, <3>2, <3>3
  <2>. QED
    BY <2>3, <2>4
<1>5. Tally(d, R)
  BY <1>4 DEF Tally
<1>. QED
  BY <1>5 DEF R, d

LEMMA PutTallyIn ==
  ASSUME NEW f \in [Nat -> Nat], NEW P \in Seq(Messages), NEW m \in Messages,
         TallyIn(f, P), NEW v \in Nat, v = f[Len(P)] + One(m.says),
         NEW n \in Nat, n = Len(P) + 1
  PROVE  TallyIn(Put(f, n, v), Append(P, m))
<1> DEFINE R == Append(P, m)
           d == Put(f, n, v)
<1>1. Len(P) \in Nat /\ Len(R) = n
  OBVIOUS
<1>2. R[n] = m /\ \A j \in 1..Len(P) : R[j] = P[j]
  OBVIOUS
<1>3. d[n] = v /\ \A k \in Nat \ {n} : d[k] = f[k]
  BY DEF Put
<1> HIDE DEF R, d
<1>4. ASSUME NEW k \in 1..Len(R) PROVE d[k] = d[k - 1] + One(R[k].says)
  <2>0. k \in 1..n
    BY <1>1
  <2>1. /\ k \in Nat /\ k - 1 \in Nat /\ k - 1 # n
        /\ (k = n => k - 1 = Len(P))
        /\ (k # n => k \in 1..Len(P))
    BY <1>1, <2>0, Places
  <2>2. d[k - 1] = f[k - 1]
    BY <1>3, <2>1
  <2>3. CASE k = n
    <3>1. d[k - 1] = f[Len(P)] /\ d[k] = v /\ R[k] = m
      BY <1>2, <1>3, <2>1, <2>2, <2>3
    <3>. QED
      BY <3>1
  <2>4. CASE k # n
    <3>1. k \in 1..Len(P)
      BY <2>1, <2>4
    <3>2. f[k] = f[k - 1] + One(P[k].says)
      BY <3>1 DEF TallyIn
    <3>3. d[k] = f[k] /\ R[k] = P[k]
      BY <1>2, <1>3, <2>1, <2>4, <3>1
    <3>. QED
      BY <2>2, <3>2, <3>3
  <2>. QED
    BY <2>3, <2>4
<1>5. TallyIn(d, R)
  BY <1>4 DEF TallyIn
<1>. QED
  BY <1>5 DEF R, d

(* The connection ends and only a prefix of the messages stays readable.   *)
LEMMA ReckonsPrefix ==
  ASSUME NEW e, NEW b, NEW t, NEW Q \in Seq(Notes), NEW P \in Seq(Messages),
         NEW s, NEW up, Reckons(e, b, t, Q, P, s, up),
         NEW n \in 0..Len(P), NEW down, down # "up"
  PROVE  Reckons(e, b, t, Q, SubSeq(P, 1, n), s, down)
<1> DEFINE R == SubSeq(P, 1, n)
<1>1. /\ Len(R) = n /\ n \in Nat /\ n <= Len(P) /\ Len(P) \in Nat
      /\ \A j \in 1..n : R[j] = P[j]
  OBVIOUS
<1> HIDE DEF R
<1>2. \A lo, v : All(b, lo, Len(P), v) => All(b, lo, Len(R), v)
  BY <1>1 DEF All
<1>3. TallyIn(b, R)
  <2>1. ASSUME NEW k \in 1..Len(R) PROVE b[k] = b[k - 1] + One(R[k].says)
    <3>1. k \in 1..Len(P) /\ R[k] = P[k]
      BY <1>1
    <3>2. b[k] = b[k - 1] + One(P[k].says)
      BY <3>1 DEF Reckons, TallyIn
    <3>. QED
      BY <3>1, <3>2
  <2>. QED
    BY <2>1 DEF TallyIn
<1>4. Settled(e, b, Q, R, s)
  BY <1>2 DEF Reckons, Settled
<1>5. SettledIn(b, R, s)
  <2>1. ASSUME NEW c \in 1..Len(R), R[c].says \in Ends PROVE All(b, c, Len(R), s)
    <3>1. c \in 1..Len(P) /\ P[c].says \in Ends
      BY <1>1, <2>1
    <3>. QED
      BY <1>2, <3>1 DEF Reckons, SettledIn
  <2>. QED
    BY <2>1 DEF SettledIn
<1>6. Reckons(e, b, t, Q, R, s, down)
  BY <1>3, <1>4, <1>5 DEF Reckons
<1>. QED
  BY <1>6 DEF R

(* The first message is taken from the socket: what is known of the rest.  *)
LEMMA ReckonsTail ==
  ASSUME NEW e, NEW b, NEW t, NEW Q \in Seq(Notes), NEW P \in Seq(Messages),
         NEW s, NEW up, Reckons(e, b, t, Q, P, s, up), P # <<>>
  PROVE  /\ TallyIn(Shift(b), Tail(P)) /\ SettledIn(Shift(b), Tail(P), s)
         /\ up = "up" => Shift(b)[Len(Tail(P))] = s
         /\ \A v : All(b, 0, Len(P), v) => All(Shift(b), 0, Len(Tail(P)), v)
         /\ Shift(b) \in [Nat -> Nat] /\ Shift(b)[0] = b[1]
         /\ b[1] = b[0] + One(Head(P).says)
         /\ Head(P).says \in Ends => All(Shift(b), 0, Len(Tail(P)), s)
<1> DEFINE R == Tail(P)
<1>1. /\ Len(R) \in Nat /\ Len(P) = Len(R) + 1
      /\ \A j \in 1..Len(R) : R[j] = P[j + 1]
      /\ P[1] = Head(P)
  OBVIOUS
<1> HIDE DEF R
<1>2. b \in [Nat -> Nat] /\ TallyIn(b, P) /\ SettledIn(b, P, s)
  BY DEF Reckons
<1>3. /\ TallyIn(Shift(b), Tail(P)) /\ b[1] = b[0] + One(Head(P).says)
  BY <1>2, ShiftTallyIn
<1>4. /\ Shift(b) \in [Nat -> Nat] /\ Shift(b)[0] = b[0 + 1]
      /\ Shift(b)[Len(R)] = b[Len(R) + 1]
  BY <1>1, <1>2, Shifted
<1>5. SettledIn(Shift(b), R, s)
  <2>1. ASSUME NEW c \in 1..Len(R), R[c].says \in Ends
        PROVE  All(Shift(b), c, Len(R), s)
    <3>1. c \in Nat /\ c + 1 \in 1..Len(P) /\ P[c + 1].says \in Ends
      BY <1>1, <2>1
    <3>2. All(b, c + 1, Len(R) + 1, s)
      BY <1>1, <1>2, <3>1 DEF SettledIn
    <3>. QED
      BY <1>1, <1>2, <3>1, <3>2, ShiftAll
  <2>. QED
    BY <2>1 DEF SettledIn
<1>6. ASSUME NEW v, All(b, 0, Len(P), v) PROVE All(Shift(b), 0, Len(R), v)
  <2>1. All(b, 0 + 1, Len(R) + 1, v)
    BY <1>1, <1>6 DEF All
  <2>. QED
    BY <1>1, <1>2, <2>1, ShiftAll
<1>7. ASSUME Head(P).says \in Ends PROVE All(Shift(b), 0, Len(R), s)
  <2>1. 1 \in 1..Len(P) /\ P[1].says \in Ends
    BY <1>1, <1>7
  <2>2. All(b, 1, Len(P), s)
    BY <1>2, <2>1 DEF SettledIn
  <2>3. All(b, 0 + 1, Len(R) + 1, s)
    BY <1>1, <2>2
  <2>. QED
    BY <1>1, <1>2, <2>3, ShiftAll
<1>8. up = "up" => Shift(b)[Len(R)] = s
  BY <1>1, <1>4 DEF Reckons
<1>9. Shift(b)[0] = b[1]
  BY <1>4
<1>. QED
  BY <1>3, <1>4, <1>5, <1>6, <1>7, <1>8, <1>9 DEF R

(* It is taken and adds nothing: a reply, or a notification without text   *)
(* that is dropped.                                                        *)
LEMMA ReckonsSkip ==
  ASSUME NEW e, NEW b, NEW t, NEW Q \in Seq(Notes), NEW P \in Seq(Messages),
         NEW s, NEW up, Reckons(e, b, t, Q, P, s, up),
         P # <<>>, Head(P).says # "delta"
  PROVE  Reckons(e, Shift(b), t, Q, Tail(P), s, up)
<1>1. /\ TallyIn(Shift(b), Tail(P)) /\ SettledIn(Shift(b), Tail(P), s)
      /\ up = "up" => Shift(b)[Len(Tail(P))] = s
      /\ \A v : All(b, 0, Len(P), v) => All(Shift(b), 0, Len(Tail(P)), v)
      /\ Shift(b) \in [Nat -> Nat] /\ Shift(b)[0] = b[1]
      /\ b[1] = b[0] + One(Head(P).says)
      /\ Head(P).says \in Ends => All(Shift(b), 0, Len(Tail(P)), s)
  BY ReckonsTail
<1>2. Shift(b)[0] = b[0]
  BY <1>1 DEF One, Reckons
<1>3. Settled(e, Shift(b), Q, Tail(P), s)
  BY <1>1 DEF Reckons, Settled
<1>. QED
  BY <1>1, <1>2, <1>3 DEF Reckons

(* It is a notification and is queued for the run.                         *)
LEMMA ReckonsMove ==
  ASSUME NEW e, NEW b, NEW t, NEW Q \in Seq(Notes), NEW P \in Seq(Messages),
         NEW s \in Nat, NEW up, Reckons(e, b, t, Q, P, s, up), P # <<>>,
         Head(P).says \in Notes, NEW p \in Nat, p = Len(Q) + 1
  PROVE  Reckons(Put(e, p, b[1]), Shift(b), t, Append(Q, Head(P).says),
                 Tail(P), s, up)
<1> DEFINE n == Head(P).says
           f == Put(e, p, b[1])
           S == Append(Q, n)
           R == Tail(P)
           d == Shift(b)
<1>1. /\ TallyIn(d, R) /\ SettledIn(d, R, s)
      /\ up = "up" => d[Len(R)] = s
      /\ \A v : All(b, 0, Len(P), v) => All(d, 0, Len(R), v)
      /\ d \in [Nat -> Nat] /\ d[0] = b[1]
      /\ b[1] = b[0] + One(n)
      /\ n \in Ends => All(d, 0, Len(R), s)
  BY ReckonsTail
<1>2. /\ e \in [Nat -> Nat] /\ b \in [Nat -> Nat] /\ Tally(e, Q)
      /\ e[0] = t /\ e[Len(Q)] = b[0] /\ Settled(e, b, Q, P, s)
  BY DEF Reckons
<1>3. /\ Len(Q) \in Nat /\ Len(S) = p
      /\ \A j \in 1..Len(Q) : S[j] = Q[j]
      /\ S[p] = n
  OBVIOUS
<1>4. b[1] \in Nat /\ b[1] = e[Len(Q)] + One(n)
  BY <1>1, <1>2
<1>5. Tally(f, S)
  BY <1>1, <1>2, <1>4, PutTally
<1>6. f \in [Nat -> Nat] /\ f[p] = b[1] /\ f[0] = e[0]
  <2>1. 0 \in Nat \ {p}
    BY <1>3
  <2>. QED
    BY <1>2, <1>4, <2>1 DEF Put
<1>7. Len(P) \in Nat
  OBVIOUS
<1>8. ASSUME NEW c \in 1..Len(S), S[c] \in Ends
      PROVE  All(f, c, Len(S), s) /\ All(d, 0, Len(R), s)
  <2>1. CASE c = p
    <3>1. n \in Ends
      BY <1>3, <1>8, <2>1
    <3>2. All(d, 0, Len(R), s)
      BY <1>1, <3>1
    <3>3. Len(R) \in Nat
      OBVIOUS
    <3>4. d[0] = s
      BY <3>2, <3>3 DEF All
    <3>5. \A k \in c..Len(S) : k = p
      BY <1>3, <2>1
    <3>6. All(f, c, Len(S), s)
      BY <1>1, <1>6, <3>4, <3>5 DEF All
    <3>. QED
      BY <3>2, <3>6
  <2>2. CASE c # p
    <3>1. c \in 1..Len(Q) /\ c \in Nat /\ Q[c] \in Ends
      BY <1>3, <1>8, <2>2
    <3>2. All(e, c, Len(Q), s) /\ All(b, 0, Len(P), s)
      BY <1>2, <3>1 DEF Settled
    <3>3. b[1] = s
      <4>1. 1 \in 0..Len(P)
        OBVIOUS
      <4>. QED
        BY <3>2, <4>1 DEF All
    <3>4. All(f, c, p, s)
      BY <1>2, <1>3, <3>1, <3>2, <3>3, PutAll
    <3>. QED
      BY <1>1, <1>3, <3>2, <3>4
  <2>. QED
    BY <2>1, <2>2
<1>9. f[Len(S)] = d[0]
  BY <1>1, <1>3, <1>6
<1> HIDE DEF n, f, S, R, d
<1>10. Settled(f, d, S, R, s)
  BY <1>8 DEF Settled
<1>11. Reckons(f, d, t, S, R, s, up)
  BY <1>1, <1>2, <1>5, <1>6, <1>9, <1>10 DEF Reckons
<1>. QED
  BY <1>11 DEF n, f, S, R, d

(* The run takes the first notification of the queue.                      *)
LEMMA ReckonsTake ==
  ASSUME NEW e, NEW b, NEW t, NEW Q \in Seq(Notes), NEW P \in Seq(Messages),
         NEW s, NEW up, Reckons(e, b, t, Q, P, s, up), Q # <<>>
  PROVE  Reckons(Shift(e), b, t + One(Head(Q)), Tail(Q), P, s, up)
<1> DEFINE R == Tail(Q)
           d == Shift(e)
<1>1. /\ Len(R) \in Nat /\ Len(Q) = Len(R) + 1
      /\ \A j \in 1..Len(R) : R[j] = Q[j + 1]
      /\ Q[1] = Head(Q)
  OBVIOUS
<1>2. /\ e \in [Nat -> Nat] /\ Tally(e, Q) /\ Settled(e, b, Q, P, s)
      /\ e[0] = t /\ e[Len(Q)] = b[0]
  BY DEF Reckons
<1>3. Tally(d, R) /\ e[1] = e[0] + One(Head(Q))
  BY <1>2, ShiftTally
<1> HIDE DEF R
<1>4. d \in [Nat -> Nat] /\ d[0] = e[0 + 1] /\ d[Len(R)] = e[Len(R) + 1]
  BY <1>1, <1>2, Shifted
<1>5. d[0] = t + One(Head(Q)) /\ d[Len(R)] = b[0]
  BY <1>1, <1>2, <1>3, <1>4
<1>6. ASSUME NEW c \in 1..Len(R), R[c] \in Ends
      PROVE  All(d, c, Len(R), s) /\ All(b, 0, Len(P), s)
  <2>1. c \in Nat /\ c + 1 \in 1..Len(Q) /\ Q[c + 1] \in Ends
    BY <1>1, <1>6
  <2>2. All(e, c + 1, Len(Q), s) /\ All(b, 0, Len(P), s)
    BY <1>2, <2>1 DEF Settled
  <2>3. All(e, c + 1, Len(R) + 1, s)
    BY <1>1, <2>2
  <2>4. All(d, c, Len(R), s)
    BY <1>1, <1>2, <2>1, <2>3, ShiftAll
  <2>. QED
    BY <2>2, <2>4
<1> HIDE DEF d
<1>7. Settled(d, b, R, P, s)
  BY <1>6 DEF Settled
<1>8. Reckons(d, b, t + One(Head(Q)), R, P, s, up)
  BY <1>3, <1>4, <1>5, <1>7 DEF Reckons
<1>. QED
  BY <1>8 DEF R, d

(* The process says one thing more; a delta only before the end of the     *)
(* turn.                                                                   *)
LEMMA ReckonsAppend ==
  ASSUME NEW e, NEW b, NEW t, NEW Q \in Seq(Notes), NEW P \in Seq(Messages),
         NEW s \in Nat, Reckons(e, b, t, Q, P, s, "up"), NEW m \in Messages,
         m.says = "delta" =>
           /\ \A c \in 1..Len(Q) : Q[c] \notin Ends
           /\ \A c \in 1..Len(P) : P[c].says \notin Ends,
         NEW p \in Nat, p = Len(P) + 1
  PROVE  Reckons(e, Put(b, p, s + One(m.says)), t, Q,
                 Append(P, m), s + One(m.says), "up")
<1> DEFINE R == Append(P, m)
           z == s + One(m.says)
           d == Put(b, p, z)
<1>1. /\ Len(P) \in Nat /\ Len(R) = p
      /\ \A j \in 1..Len(P) : R[j] = P[j]
      /\ R[p] = m
  OBVIOUS
<1>2. /\ b \in [Nat -> Nat] /\ e \in [Nat -> Nat] /\ b[Len(P)] = s
      /\ TallyIn(b, P) /\ Settled(e, b, Q, P, s) /\ SettledIn(b, P, s)
  BY DEF Reckons
<1>3. z \in Nat /\ (m.says # "delta" => z = s)
  BY DEF One
<1>4. 0 \in Nat \ {p}
  BY <1>1
<1>5. TallyIn(d, R)
  BY <1>2, <1>3, PutTallyIn
<1>6. d \in [Nat -> Nat] /\ d[p] = z /\ d[0] = b[0]
  BY <1>2, <1>3, <1>4 DEF Put
<1>7. ASSUME NEW lo \in Nat, All(b, lo, Len(P), s), z = s
      PROVE  All(d, lo, p, s)
  BY <1>1, <1>2, <1>7, PutAll
<1> HIDE DEF R, z, d
<1>8. ASSUME NEW c \in 1..Len(Q), Q[c] \in Ends
      PROVE  All(e, c, Len(Q), z) /\ All(d, 0, Len(R), z)
  <2>1. z = s
    BY <1>3, <1>8
  <2>2. All(e, c, Len(Q), s) /\ All(b, 0, Len(P), s)
    BY <1>2, <1>8 DEF Settled
  <2>3. All(d, 0, p, s)
    BY <1>7, <2>1, <2>2
  <2>. QED
    BY <1>1, <2>1, <2>2, <2>3
<1>9. ASSUME NEW c \in 1..Len(R), R[c].says \in Ends
      PROVE  All(d, c, Len(R), z)
  <2>1. CASE c = p
    <3>1. \A k \in c..Len(R) : k = p
      BY <1>1, <2>1
    <3>. QED
      BY <1>6, <3>1 DEF All
  <2>2. CASE c # p
    <3>1. c \in 1..Len(P) /\ c \in Nat /\ P[c].says \in Ends
      BY <1>1, <1>9, <2>2
    <3>2. z = s
      BY <1>3, <3>1
    <3>3. All(b, c, Len(P), s)
      BY <1>2, <3>1 DEF SettledIn
    <3>4. All(d, c, p, s)
      BY <1>7, <3>1, <3>2, <3>3
    <3>. QED
      BY <1>1, <3>2, <3>4
  <2>. QED
    BY <2>1, <2>2
<1>10. Settled(e, d, Q, R, z) /\ SettledIn(d, R, z)
  BY <1>8, <1>9 DEF Settled, SettledIn
<1>11. e[0] = t /\ e[Len(Q)] = d[0] /\ d[Len(R)] = z /\ Tally(e, Q)
  BY <1>1, <1>6 DEF Reckons
<1>12. Reckons(e, d, t, Q, R, z, "up")
  BY <1>2, <1>5, <1>6, <1>10, <1>11 DEF Reckons
<1>. QED
  BY <1>12 DEF R, z, d

-----------------------------------------------------------------------------
(* A turn starts once: its request is on the socket at most once, before   *)
(* the turn runs, while the run waits for the answer or has given up.      *)
Over == {"unregister", "close", "fallback", "returned"}
TurnAsked == \A r \in wire : r.method = "turn" =>
  /\ turn = "none" /\ stage = "turn"
  /\ \/ pc["run"] = "await" /\ rid["run"] = r.id
     \/ pc["run"] \in Over
TurnOnce == \A r, q \in wire : r.method = "turn" /\ q.method = "turn" => r = q
TurnLater ==
  /\ stage \in {"initialize", "thread"} => turn = "none"
  /\ stage = "turn" /\ pc["run"] \in {"open", "write"} => turn = "none"
  /\ pc["run"] = "notify" => stage = "initialize"
  /\ pc["run"] = "wait" => stage = "turn"
TurnInv == TurnAsked /\ TurnOnce /\ TurnLater

(* A step that leaves the turn and the place of the run alone.             *)
LEMMA TurnUntouched ==
  ASSUME TurnInv, UNCHANGED <<wire, turn, stage>>, pc'["run"] = pc["run"],
         rid'["run"] = rid["run"] \/ pc["run"] # "await"
  PROVE  TurnInv'
<1>1. TurnAsked'
  BY DEF TurnInv, TurnAsked
<1>2. TurnOnce'
  BY DEF TurnInv, TurnOnce
<1>3. TurnLater'
  BY DEF TurnInv, TurnLater
<1>. QED
  BY <1>1, <1>2, <1>3 DEF TurnInv

(* A step after which the run is over.                                     *)
LEMMA TurnOver ==
  ASSUME TurnInv, UNCHANGED <<wire, turn, stage>>, pc'["run"] \in Over
  PROVE  TurnInv'
<1>1. TurnAsked'
  BY DEF TurnInv, TurnAsked
<1>2. TurnOnce'
  BY DEF TurnInv, TurnOnce
<1>3. TurnLater'
  BY DEF TurnInv, TurnLater, Over
<1>. QED
  BY <1>1, <1>2, <1>3 DEF TurnInv

(* No turn/start is on the socket before it is written or after its answer.*)
LEMMA NoTurnAsked ==
  ASSUME TurnInv, pc["run"] \notin Over \cup {"await"}
  PROVE  \A r \in wire : r.method # "turn"
  BY DEF TurnInv, TurnAsked

LEMMA LeaveOver ==
  ASSUME TypeOK, NEW o, Leave(o)
  PROVE  pc'["run"] \in Over /\ result' = o /\ UNCHANGED <<registered, offered, stage>>
<1>1. pc \in [Goroutines -> Pcs] /\ "run" \in Goroutines
  BY DEF TypeOK, Goroutines
<1>. QED
  BY <1>1 DEF Leave, Goto, Over

LEMMA TurnOpen ==
  ASSUME RpcInv, TurnInv, NEW g \in Goroutines, Open(g)
  PROVE  TurnInv'
<1> USE DEF remote, channels, run, steering, history
<1>0. /\ pc \in [Goroutines -> Pcs] /\ rid \in [Goroutines -> 0..MaxRequests]
      /\ "run" \in Goroutines
  BY DEF RpcInv, TypeOK, Goroutines
<1>1. /\ UNCHANGED <<wire, turn, stage>> /\ pc[g] = "open"
      /\ pc' = [pc EXCEPT ![g] = "write"] /\ rid' = [rid EXCEPT ![g] = nextID + 1]
  BY DEF Open, Goto
<1>2. CASE g = "run"
  <2>1. pc["run"] = "open" /\ pc'["run"] = "write"
    BY <1>0, <1>1, <1>2
  <2>2. \A r \in wire : r.method # "turn"
    BY <2>1, NoTurnAsked DEF Over
  <2>3. TurnAsked' /\ TurnOnce'
    BY <1>1, <2>2 DEF TurnAsked, TurnOnce
  <2>4. TurnLater'
    BY <1>1, <2>1 DEF TurnInv, TurnLater
  <2>. QED
    BY <2>3, <2>4 DEF TurnInv
<1>3. CASE g # "run"
  <2>1. pc'["run"] = pc["run"] /\ rid'["run"] = rid["run"]
    BY <1>0, <1>1, <1>3
  <2>. QED
    BY <1>1, <2>1, TurnUntouched
<1>. QED
  BY <1>2, <1>3

LEMMA TurnWrite ==
  ASSUME RpcInv, TurnInv, NEW g \in Goroutines, Write(g)
  PROVE  TurnInv'
<1> USE DEF remote, channels, run, steering, history
<1> DEFINE q == [id |-> rid[g], method |-> IF g = "run" THEN stage ELSE "steer",
                 message |-> IF g = "run" THEN 0 ELSE steers]
<1>0. /\ pc \in [Goroutines -> Pcs] /\ "run" \in Goroutines
      /\ g = "run" \/ g = "steer"
  BY DEF RpcInv, TypeOK, Goroutines
<1>1. /\ UNCHANGED <<turn, stage, rid>> /\ pc[g] = "write"
      /\ pc' = [pc EXCEPT ![g] = "await"]
      /\ wire' = wire \cup {q} \/ wire' = wire
  BY DEF Write, Goto
<1>2. /\ q.id = rid[g] /\ (g = "run" => q.method = stage)
      /\ (g = "steer" => q.method = "steer")
  OBVIOUS
<1> HIDE DEF q
<1>3. CASE g = "run"
  <2>1. pc["run"] = "write" /\ pc'["run"] = "await"
    BY <1>0, <1>1, <1>3
  <2>2. \A r \in wire : r.method # "turn"
    BY <2>1, NoTurnAsked DEF Over
  <2>3. \A r \in wire' : r.method = "turn" => r = q
    BY <1>1, <2>2
  <2>4. TurnOnce'
    BY <2>3 DEF TurnOnce
  <2>5. TurnAsked'
    BY <1>1, <1>2, <1>3, <2>1, <2>3 DEF TurnInv, TurnLater, TurnAsked
  <2>6. TurnLater'
    BY <1>1, <2>1 DEF TurnInv, TurnLater
  <2>. QED
    BY <2>4, <2>5, <2>6 DEF TurnInv
<1>4. CASE g = "steer"
  <2>1. pc'["run"] = pc["run"]
    BY <1>0, <1>1, <1>4
  <2>2. \A r \in wire' : r.method = "turn" => r \in wire
    BY <1>1, <1>2, <1>4
  <2>3. TurnAsked' /\ TurnOnce'
    BY <1>1, <2>1, <2>2 DEF TurnInv, TurnAsked, TurnOnce
  <2>4. TurnLater'
    BY <1>1, <2>1 DEF TurnInv, TurnLater
  <2>. QED
    BY <2>3, <2>4 DEF TurnInv
<1>. QED
  BY <1>0, <1>3, <1>4

(* A goroutine that returns from a request.                                *)
LEMMA TurnReturns ==
  ASSUME RpcInv, TurnInv, NEW g \in Goroutines,
         WriteFails(g) \/ TakeReply(g) \/ SeeDone(g) \/ GiveUp(g)
  PROVE  TurnInv'
<1> USE DEF remote, channels
<1>0. TypeOK /\ "run" \in Goroutines /\ "steer" \in Goroutines
      /\ pc \in [Goroutines -> Pcs] /\ (g = "run" \/ g = "steer")
  BY DEF RpcInv, TypeOK, Goroutines
<1>1. UNCHANGED <<wire, turn, rid>>
  BY DEF WriteFails, TakeReply, SeeDone, GiveUp
<1>2. PICK o \in Answers \cup Failures :
        /\ pc[g] \in {"write", "await"}
        /\ Returns(g, o)
        /\ o \in Failures \/ o = answered[rid[g]]
        /\ pc[g] = "write" => o = "write"
  BY RequestEffect
<1>3. CASE g = "steer"
  <2>1. SteerGets(o) /\ UNCHANGED run
    BY <1>2, <1>3 DEF Returns
  <2>2. pc'["run"] = pc["run"] /\ stage' = stage
    BY <1>0, <2>1, SteerGetsType DEF run
  <2>. QED
    BY <1>1, <2>2, TurnUntouched
<1>4. CASE g = "run"
  <2>1. RunGets(o)
    BY <1>2, <1>4 DEF Returns
  <2>2. pc["run"] \in {"write", "await"}
    BY <1>2, <1>4
  <2>3. CASE (\E x \in Answers \cup Failures : Leave(x)) /\ stage' = stage
    BY <1>0, <1>1, <2>3, LeaveOver, TurnOver
  <2>4. CASE stage = "initialize" /\ o = "ok" /\ Goto("run", "notify") /\ stage' = stage
    <3>1. pc'["run"] = "notify"
      BY <1>0, <2>4 DEF Goto
    <3>2. \A r \in wire : r.method # "turn"
      BY <2>4 DEF TurnInv, TurnAsked
    <3>3. TurnAsked' /\ TurnOnce'
      BY <1>1, <3>2 DEF TurnAsked, TurnOnce
    <3>4. TurnLater'
      BY <1>1, <2>4, <3>1 DEF TurnInv, TurnLater
    <3>. QED
      BY <3>3, <3>4 DEF TurnInv
  <2>5. CASE stage = "thread" /\ Goto("run", "open") /\ stage' = "turn"
    <3>1. pc'["run"] = "open"
      BY <1>0, <2>5 DEF Goto
    <3>2. \A r \in wire : r.method # "turn"
      BY <2>5 DEF TurnInv, TurnAsked
    <3>3. TurnAsked' /\ TurnOnce'
      BY <1>1, <3>2 DEF TurnAsked, TurnOnce
    <3>4. TurnLater'
      BY <1>1, <2>5, <3>1 DEF TurnInv, TurnLater
    <3>. QED
      BY <3>3, <3>4 DEF TurnInv
  <2>6. CASE stage = "turn" /\ o = "ok" /\ Goto("run", "wait") /\ stage' = stage
    <3>1. pc'["run"] = "wait"
      BY <1>0, <2>6 DEF Goto
    <3>2. ASSUME NEW r \in wire, r.method = "turn" PROVE FALSE
      <4>1. rid["run"] = r.id /\ pc["run"] = "await"
        BY <2>2, <3>2 DEF TurnInv, TurnAsked, Over
      <4>2. answered[r.id] = "none"
        BY <3>2 DEF RpcInv, OnTheWire
      <4>3. o \notin Failures
        BY <2>6 DEF Failures
      <4>4. o = answered[rid["run"]]
        BY <1>2, <1>4, <4>3
      <4>. QED
        BY <2>6, <4>1, <4>2, <4>4
    <3>3. TurnAsked' /\ TurnOnce'
      BY <1>1, <3>2 DEF TurnAsked, TurnOnce
    <3>4. TurnLater'
      BY <1>1, <2>6, <3>1 DEF TurnInv, TurnLater
    <3>. QED
      BY <3>3, <3>4 DEF TurnInv
  <2>7. o \in Answers \cup Failures /\ "unavailable" \in Answers \cup Failures
        /\ "ok" \in Answers \cup Failures
    BY DEF Answers, Failures
  <2>. QED
    BY <2>1, <2>3, <2>4, <2>5, <2>6, <2>7 DEF RunGets, LatestReply, run, Leave
<1>. QED
  BY <1>0, <1>3, <1>4

(* The process answers a request, and may start the turn.                  *)
LEMMA TurnServe ==
  ASSUME RpcInv, TurnInv, NEW r \in Requests, Serve(r)
  PROVE  TurnInv'
<1>1. /\ r \in wire /\ wire' = wire \ {r} /\ UNCHANGED <<stage, pc, rid>>
      /\ (turn' = "running" /\ r.method = "turn") \/ turn' = turn
  BY DEF Serve, run
<1>2. TurnOnce'
  BY <1>1 DEF TurnInv, TurnOnce
<1>3. CASE turn' = turn
  <2>1. TurnAsked'
    BY <1>1, <1>3 DEF TurnInv, TurnAsked
  <2>2. TurnLater'
    BY <1>1, <1>3 DEF TurnInv, TurnLater
  <2>. QED
    BY <1>2, <2>1, <2>2 DEF TurnInv
<1>4. CASE turn' = "running" /\ r.method = "turn"
  <2>1. /\ stage = "turn"
        /\ pc["run"] = "await" \/ pc["run"] \in Over
    BY <1>1, <1>4 DEF TurnInv, TurnAsked
  <2>2. \A q \in wire' : q.method # "turn"
    BY <1>1, <1>4 DEF TurnInv, TurnOnce
  <2>3. TurnAsked'
    BY <2>2 DEF TurnAsked
  <2>4. TurnLater'
    BY <1>1, <2>1 DEF TurnInv, TurnLater, Over
  <2>. QED
    BY <1>2, <2>3, <2>4 DEF TurnInv
<1>. QED
  BY <1>1, <1>3, <1>4

(* The run between its requests.                                           *)
LEMMA TurnRun ==
  ASSUME RpcInv, TurnInv,
         Initialized \/ Consume \/ WaitEnds \/ Unregister \/ Close \/ Fallback
  PROVE  TurnInv'
<1> USE DEF remote, channels, run, steering, history
<1>0. TypeOK /\ "run" \in Goroutines /\ pc \in [Goroutines -> Pcs]
  BY DEF RpcInv, TypeOK, Goroutines
<1>1. UNCHANGED <<wire, turn, rid>>
  BY DEF Initialized, Consume, WaitEnds, Unregister, Close, Fallback
<1>2. ASSUME NEW o, Leave(o) PROVE TurnInv'
  <2>1. pc'["run"] \in Over /\ stage' = stage
    BY <1>0, <1>2, LeaveOver
  <2>. QED
    BY <1>1, <2>1, TurnOver
<1>3. CASE Initialized
  <2>1. CASE stage' = "thread" /\ Goto("run", "open")
    <3>1. pc'["run"] = "open" /\ pc["run"] = "notify"
      BY <1>0, <1>3, <2>1 DEF Initialized, Goto
    <3>2. \A r \in wire : r.method # "turn"
      BY <3>1, NoTurnAsked DEF Over
    <3>3. TurnAsked' /\ TurnOnce'
      BY <1>1, <3>2 DEF TurnAsked, TurnOnce
    <3>4. TurnLater'
      BY <1>1, <2>1, <3>1 DEF TurnInv, TurnLater
    <3>. QED
      BY <3>3, <3>4 DEF TurnInv
  <2>. QED
    BY <1>2, <1>3, <2>1 DEF Initialized
<1>4. CASE Consume
  <2>1. CASE stage' = "read" /\ Goto("run", "open")
    <3>1. pc'["run"] = "open" /\ pc["run"] = "wait"
      BY <1>0, <1>4, <2>1 DEF Consume, Goto
    <3>2. \A r \in wire : r.method # "turn"
      BY <3>1, NoTurnAsked DEF Over
    <3>3. TurnAsked' /\ TurnOnce'
      BY <1>1, <3>2 DEF TurnAsked, TurnOnce
    <3>4. TurnLater'
      BY <1>1, <2>1, <3>1 DEF TurnInv, TurnLater
    <3>. QED
      BY <3>3, <3>4 DEF TurnInv
  <2>2. CASE UNCHANGED <<pc, stage>>
    BY <1>1, <2>2, TurnUntouched
  <2>. QED
    BY <1>2, <1>4, <2>1, <2>2 DEF Consume
<1>5. CASE WaitEnds
  BY <1>2, <1>5 DEF WaitEnds
<1>6. CASE Unregister \/ Close \/ Fallback
  <2>1. stage' = stage /\ \E l \in {"close", "fallback", "returned"} : Goto("run", l)
    BY <1>6 DEF Unregister, Close, Fallback
  <2>2. pc'["run"] \in Over
    BY <1>0, <2>1 DEF Goto, Over
  <2>. QED
    BY <1>1, <2>1, <2>2, TurnOver
<1>. QED
  BY <1>3, <1>4, <1>5, <1>6

LEMMA TurnRest ==
  ASSUME RpcInv, TurnInv,
         \/ ReaderStep \/ Report \/ EndTurn \/ Lose \/ Cancel
         \/ Steer \/ SteerStops \/ UNCHANGED vars
  PROVE  TurnInv'
<1> USE DEF remote, channels, run, steering, history
<1>1. CASE EndTurn
  <2>1. turn = "running" /\ UNCHANGED <<wire, stage, pc, rid>>
    BY <1>1 DEF EndTurn
  <2>2. \A r \in wire : r.method # "turn"
    BY <2>1 DEF TurnInv, TurnAsked
  <2>3. TurnAsked' /\ TurnOnce'
    BY <2>1, <2>2 DEF TurnAsked, TurnOnce
  <2>4. TurnLater'
    BY <2>1 DEF TurnInv, TurnLater
  <2>. QED
    BY <2>3, <2>4 DEF TurnInv
<1>2. CASE Steer \/ SteerStops
  <2>1. UNCHANGED <<wire, turn, stage, rid>>
        /\ \E l : Goto("steer", l)
    BY <1>2 DEF Steer, SteerStops
  <2>2. pc'["run"] = pc["run"]
    BY <2>1 DEF Goto, RpcInv, TypeOK, Goroutines
  <2>. QED
    BY <2>1, <2>2, TurnUntouched
<1>3. CASE ReaderStep \/ Report \/ Lose \/ Cancel \/ UNCHANGED vars
  <2>1. UNCHANGED <<wire, turn, stage, rid, pc>>
    BY <1>3 DEF ReaderStep, ReadReply, ReadNote, ReadFails, CloseDone,
         Report, Lose, Cancel, vars
  <2>. QED
    BY <2>1, TurnUntouched
<1>. QED
  BY <1>1, <1>2, <1>3

LEMMA TurnStep == RpcInv /\ TurnInv /\ [Next]_vars => TurnInv'
<1> SUFFICES ASSUME RpcInv, TurnInv, [Next]_vars PROVE TurnInv'
  OBVIOUS
<1>1. ASSUME NEW g \in Goroutines, Request(g) PROVE TurnInv'
  BY <1>1, TurnOpen, TurnWrite, TurnReturns DEF Request
<1>2. ASSUME NEW r \in Requests, Serve(r) PROVE TurnInv'
  BY <1>2, TurnServe
<1>. QED
  BY <1>1, <1>2, TurnRun, TurnRest
     DEF Next, RunStep, SteerStep, AgentStep, Quiescent, Goroutines

LEMMA TurnInit == Init => TurnInv
  BY DEF Init, TurnInv, TurnAsked, TurnOnce, TurnLater, Goroutines

-----------------------------------------------------------------------------
(* What is said of the turn is true: a notification of its end, on the     *)
(* socket or in the queue, names the way it ended; a thread/read is made   *)
(* after a turn that finished and brought no text to the run; and until a  *)
(* delta is dropped the text adds up.                                      *)
NotesTrue ==
  /\ \A k \in 1..Len(events) : events[k] \in Ends => turn = events[k]
  /\ \A k \in 1..Len(inbound) : inbound[k].says \in Ends => turn = inbound[k].says
WhenRead ==
  /\ stage = "read" =>
       turn \in Finished /\ ("delta" \in dropped \/ (sent = 0 /\ text = 0))
  /\ older => stage = "read"
WhenOver == result # "none" => pc["run"] \in Over
Counted == stage # "read" /\ "delta" \notin dropped =>
  \E e, b : Reckons(e, b, text, events, inbound, sent, socket)
ReplyInv == NotesTrue /\ WhenRead /\ WhenOver /\ ReplyComplete /\ Counted

LEMMA Kinds ==
  ASSUME RpcInv
  PROVE  /\ events \in Seq(Notes) /\ inbound \in Seq(Messages)
         /\ sent \in Nat /\ text \in Nat
         /\ pc \in [Goroutines -> Pcs] /\ "run" \in Goroutines /\ TypeOK
  BY SessionAssumption DEF RpcInv, TypeOK, Goroutines

(* A step that touches neither the turn nor what was said of it.           *)
LEMMA ReplyUntouched ==
  ASSUME ReplyInv,
         UNCHANGED <<turn, events, inbound, sent, text, older, stage, result, socket>>,
         dropped' = dropped,
         pc'["run"] = pc["run"] \/ result = "none" \/ pc'["run"] \in Over
  PROVE  ReplyInv'
<1>1. NotesTrue'
  BY DEF ReplyInv, NotesTrue
<1>2. WhenRead' /\ WhenOver' /\ ReplyComplete'
  BY DEF ReplyInv, WhenRead, WhenOver, ReplyComplete
<1>3. Counted'
  BY DEF ReplyInv, Counted
<1>. QED
  BY <1>1, <1>2, <1>3 DEF ReplyInv

LEMMA ReplyRequests ==
  ASSUME RpcInv, TurnInv, ReplyInv, NEW g \in Goroutines, Request(g)
  PROVE  ReplyInv'
<1> USE DEF remote, channels, run, steering, history
<1>0. /\ pc \in [Goroutines -> Pcs] /\ "run" \in Goroutines /\ "steer" \in Goroutines
      /\ g = "run" \/ g = "steer"
      /\ TypeOK /\ sent \in Nat
  BY Kinds DEF Goroutines
<1>1. UNCHANGED <<turn, events, inbound, sent, socket, dropped>>
      /\ pc[g] \in {"open", "write", "await"}
  BY DEF Request, Open, Write, WriteFails, TakeReply, SeeDone, GiveUp
<1>2. g = "run" => result = "none"
  BY <1>1 DEF ReplyInv, WhenOver, Over
<1>3. CASE Open(g) \/ Write(g)
  <2>1. UNCHANGED <<text, older, stage, result>> /\ \E l : Goto(g, l)
    BY <1>3 DEF Open, Write
  <2>2. g # "run" => pc'["run"] = pc["run"]
    BY <1>0, <2>1 DEF Goto
  <2>. QED
    BY <1>1, <1>2, <2>1, <2>2, ReplyUntouched
<1>4. CASE WriteFails(g) \/ TakeReply(g) \/ SeeDone(g) \/ GiveUp(g)
  <2>1. PICK o \in Answers \cup Failures : Returns(g, o)
    BY <1>4, RequestEffect
  <2>2. CASE g = "steer"
    <3>1. SteerGets(o) /\ UNCHANGED run
      BY <2>1, <2>2 DEF Returns
    <3>2. pc'["run"] = pc["run"]
      BY <1>0, <3>1, SteerGetsType
    <3>. QED
      BY <1>1, <3>1, <3>2, ReplyUntouched
  <2>3. CASE g = "run"
    <3>1. RunGets(o) /\ result = "none"
      BY <1>2, <2>1, <2>3 DEF Returns
    <3>2. NotesTrue'
      BY <1>1 DEF ReplyInv, NotesTrue
    <3>3. WhenOver'
      <4>1. ASSUME NEW x, Leave(x) PROVE WhenOver'
        BY <1>0, <4>1, LeaveOver DEF WhenOver
      <4>2. CASE result' = result
        BY <3>1, <4>2 DEF WhenOver
      <4>. QED
        BY <3>1, <4>1, <4>2 DEF RunGets, LatestReply
    <3>4. CASE stage = "read"
      <4>1. stage' = "read" /\ (text' = text \/ text' \in 1..sent)
        BY <3>1, <3>4 DEF RunGets, LatestReply, Leave
      <4>2. turn \in Finished /\ ("delta" \in dropped \/ (sent = 0 /\ text' = 0))
        BY <1>0, <3>4, <4>1 DEF ReplyInv, WhenRead
      <4>3. WhenRead' /\ ReplyComplete'
        BY <1>1, <4>1, <4>2 DEF WhenRead, ReplyComplete
      <4>4. Counted'
        BY <4>1 DEF Counted
      <4>. QED
        BY <3>2, <3>3, <4>3, <4>4 DEF ReplyInv
    <3>5. CASE stage # "read"
      <4>1. /\ text' = text /\ stage' # "read" /\ older' = older
            /\ result' # "ok"
        BY <3>1, <3>5 DEF RunGets, LatestReply, Leave
      <4>2. WhenRead' /\ ReplyComplete'
        BY <3>5, <4>1 DEF ReplyInv, WhenRead, ReplyComplete
      <4>3. Counted'
        BY <1>1, <3>5, <4>1 DEF ReplyInv, Counted
      <4>. QED
        BY <3>2, <3>3, <4>2, <4>3 DEF ReplyInv
    <3>. QED
      BY <3>4, <3>5
  <2>. QED
    BY <1>0, <2>2, <2>3
<1>. QED
  BY <1>3, <1>4 DEF Request

(* The process says something: the tally goes on, and the turn has not     *)
(* ended before a delta.                                                   *)
LEMMA ReplySays ==
  ASSUME RpcInv, ReplyInv, NEW m \in Messages, inbound' = Append(inbound, m),
         UNCHANGED <<events, text, older, stage, result, socket, dropped, pc>>,
         socket = "up", sent' = sent + One(m.says),
         turn' # turn => turn \notin Ends,
         m.says \in Ends => turn' = m.says,
         m.says = "delta" => turn \notin Ends
  PROVE  ReplyInv'
<1>1. /\ events \in Seq(Notes) /\ inbound \in Seq(Messages) /\ sent \in Nat
  BY Kinds
<1>2. turn \notin Ends => /\ \A k \in 1..Len(events) : events[k] \notin Ends
                          /\ \A k \in 1..Len(inbound) : inbound[k].says \notin Ends
  BY DEF ReplyInv, NotesTrue
<1>3. NotesTrue'
  <2>1. \A k \in 1..Len(events) : events[k] \in Ends => turn' = events[k]
    BY <1>2 DEF ReplyInv, NotesTrue
  <2>2. /\ Len(inbound) \in Nat /\ Len(inbound') = Len(inbound) + 1
        /\ \A k \in 1..Len(inbound) : inbound'[k] = inbound[k]
        /\ inbound'[Len(inbound) + 1] = m
    BY <1>1
  <2>3. ASSUME NEW k \in 1..Len(inbound'), inbound'[k].says \in Ends
        PROVE  turn' = inbound'[k].says
    <3>1. CASE k = Len(inbound) + 1
      BY <2>2, <2>3, <3>1
    <3>2. CASE k # Len(inbound) + 1
      <4>1. k \in 1..Len(inbound) /\ inbound'[k] = inbound[k]
        BY <2>2, <3>2
      <4>2. turn = inbound[k].says /\ turn' = turn
        BY <1>2, <2>3, <4>1 DEF ReplyInv, NotesTrue
      <4>. QED
        BY <4>1, <4>2
    <3>. QED
      BY <3>1, <3>2
  <2>. QED
    BY <2>1, <2>3 DEF NotesTrue
<1>4. (turn \in Finished) => turn' = turn /\ sent' = sent
  BY <1>1 DEF Ends, Finished, One
<1>5. WhenRead' /\ WhenOver' /\ ReplyComplete'
  BY <1>4 DEF ReplyInv, WhenRead, WhenOver, ReplyComplete
<1>6. Counted'
  <2>1. SUFFICES ASSUME stage # "read", "delta" \notin dropped
                 PROVE  \E e, b : Reckons(e, b, text, events, inbound', sent', "up")
    BY DEF Counted
  <2>2. PICK e, b : Reckons(e, b, text, events, inbound, sent, "up")
    BY <2>1 DEF ReplyInv, Counted
  <2>3. m.says = "delta" => /\ \A k \in 1..Len(events) : events[k] \notin Ends
                            /\ \A k \in 1..Len(inbound) : inbound[k].says \notin Ends
    BY <1>2
  <2>4. Len(inbound) + 1 \in Nat
    BY <1>1
  <2>5. Reckons(e, Put(b, Len(inbound) + 1, sent + One(m.says)), text, events,
                Append(inbound, m), sent + One(m.says), "up")
    BY <1>1, <2>2, <2>3, <2>4, ReckonsAppend
  <2>. QED
    BY <2>5
<1>. QED
  BY <1>3, <1>5, <1>6 DEF ReplyInv

(* Whatever is appended to a sequence, nothing said before changes.        *)
LEMMA NothingEnds ==
  ASSUME NEW P \in Seq(Messages), NEW m \in Messages, m.says \notin Ends,
         NEW v, \A k \in 1..Len(P) : P[k].says \in Ends => v = P[k].says
  PROVE  \A k \in 1..Len(Append(P, m)) :
           Append(P, m)[k].says \in Ends => v = Append(P, m)[k].says
<1> DEFINE R == Append(P, m)
<1>1. /\ Len(P) \in Nat /\ Len(R) = Len(P) + 1
      /\ \A k \in 1..Len(P) : R[k] = P[k]
      /\ R[Len(P) + 1] = m
  OBVIOUS
<1> HIDE DEF R
<1>2. ASSUME NEW k \in 1..Len(R), R[k].says \in Ends PROVE v = R[k].says
  <2>1. k # Len(P) + 1
    BY <1>1, <1>2
  <2>2. k \in 1..Len(P) /\ R[k] = P[k]
    BY <1>1, <2>1
  <2>. QED
    BY <1>2, <2>2
<1>3. \A k \in 1..Len(R) : R[k].says \in Ends => v = R[k].says
  BY <1>2
<1>. QED
  BY <1>3 DEF R

LEMMA NothingCounted ==
  ASSUME NEW e, NEW b, NEW t, NEW Q \in Seq(Notes), NEW P \in Seq(Messages),
         NEW s \in Nat, Reckons(e, b, t, Q, P, s, "up"), NEW m \in Messages,
         m.says # "delta"
  PROVE  \E d : Reckons(e, d, t, Q, Append(P, m), s, "up")
<1>1. Len(P) + 1 \in Nat
  OBVIOUS
<1>2. Reckons(e, Put(b, Len(P) + 1, s + One(m.says)), t, Q, Append(P, m),
              s + One(m.says), "up")
  BY <1>1, ReckonsAppend
<1>3. s + One(m.says) = s
  BY DEF One
<1>. QED
  BY <1>2, <1>3

(* The process answers a request.                                          *)
LEMMA ReplyServe ==
  ASSUME RpcInv, TurnInv, ReplyInv, NEW r \in Requests, Serve(r)
  PROVE  ReplyInv'
<1> USE DEF run, channels, steering
<1> DEFINE n == [id |-> 0, says |-> "status"]
<1>0. /\ events \in Seq(Notes) /\ inbound \in Seq(Messages) /\ sent \in Nat
  BY Kinds
<1>1. /\ UNCHANGED <<events, text, older, stage, result, socket, dropped, pc, sent>>
      /\ socket = "up" /\ r \in wire
  BY DEF Serve
<1>2. PICK a \in Answers :
        LET m == [id |-> r.id, says |-> a] IN
        \/ /\ r.method = "turn"
           /\ turn' = "running"
           /\ inbound' = Append(Append(inbound, m), n)
        \/ inbound' = Append(inbound, m) /\ UNCHANGED turn
  BY DEF Serve
<1> DEFINE m == [id |-> r.id, says |-> a]
<1>3. /\ m \in Messages /\ m.says \notin Ends /\ m.says # "delta"
      /\ n \in Messages /\ n.says \notin Ends /\ n.says # "delta"
  BY DEF Messages, Requests, Answers, Notes, Ends
<1>4. \/ /\ r.method = "turn"
         /\ turn' = "running"
         /\ inbound' = Append(Append(inbound, m), n)
      \/ inbound' = Append(inbound, m) /\ UNCHANGED turn
  BY <1>2
<1> HIDE DEF n, m
<1>5. turn' # turn => turn = "none"
  BY <1>1, <1>4 DEF TurnInv, TurnAsked
<1>6. /\ \A k \in 1..Len(events) : events[k] \in Ends => turn' = events[k]
      /\ \A k \in 1..Len(inbound) : inbound[k].says \in Ends => turn' = inbound[k].says
  BY <1>5 DEF ReplyInv, NotesTrue, Ends
<1>7. Append(inbound, m) \in Seq(Messages)
  BY <1>0, <1>3
<1>8. NotesTrue'
  <2>1. \A k \in 1..Len(Append(inbound, m)) :
          Append(inbound, m)[k].says \in Ends => turn' = Append(inbound, m)[k].says
    BY <1>0, <1>3, <1>6, NothingEnds
  <2>2. \A k \in 1..Len(Append(Append(inbound, m), n)) :
          Append(Append(inbound, m), n)[k].says \in Ends
            => turn' = Append(Append(inbound, m), n)[k].says
    BY <1>3, <1>7, <2>1, NothingEnds
  <2>3. \A k \in 1..Len(inbound') : inbound'[k].says \in Ends => turn' = inbound'[k].says
    BY <1>4, <2>1, <2>2
  <2>. QED
    BY <1>1, <1>6, <2>3 DEF NotesTrue
<1>9. WhenRead' /\ WhenOver' /\ ReplyComplete'
  BY <1>1, <1>5 DEF Finished, Ends, ReplyInv, WhenRead, WhenOver, ReplyComplete
<1>10. Counted'
  <2>1. SUFFICES ASSUME stage # "read", "delta" \notin dropped
                 PROVE  \E e, b : Reckons(e, b, text, events, inbound', sent, "up")
    BY <1>1 DEF Counted
  <2>2. PICK e, b : Reckons(e, b, text, events, inbound, sent, "up")
    BY <1>1, <2>1 DEF ReplyInv, Counted
  <2>3. PICK d : Reckons(e, d, text, events, Append(inbound, m), sent, "up")
    BY <1>0, <1>3, <2>2, NothingCounted
  <2>4. \E c : Reckons(e, c, text, events, Append(Append(inbound, m), n), sent, "up")
    BY <1>0, <1>3, <1>7, <2>3, NothingCounted
  <2>. QED
    BY <1>4, <2>3, <2>4
<1>. QED
  BY <1>8, <1>9, <1>10 DEF ReplyInv

(* The turn goes on, and ends.                                             *)
LEMMA ReplyTurn ==
  ASSUME RpcInv, ReplyInv, Report \/ EndTurn
  PROVE  ReplyInv'
<1> USE DEF run, channels, steering, history
<1>0. sent \in Nat
  BY Kinds
<1>1. /\ UNCHANGED <<events, text, older, stage, result, socket, dropped, pc>>
      /\ socket = "up" /\ turn = "running" /\ turn \notin Ends
  BY DEF Report, EndTurn, Ends
<1>2. CASE Report
  <2> DEFINE m == [id |-> 0, says |-> "delta"]
  <2>1. m \in Messages /\ m.says = "delta" /\ m.says \notin Ends
    BY DEF Messages, Notes, Ends
  <2>2. inbound' = Append(inbound, m) /\ sent' = sent + One(m.says) /\ turn' = turn
    BY <1>2 DEF Report, One
  <2> HIDE DEF m
  <2>. QED
    BY <1>1, <2>1, <2>2, ReplySays
<1>3. CASE EndTurn
  <2>0. PICK v : v = turn'
    OBVIOUS
  <2> DEFINE m == [id |-> 0, says |-> v]
  <2>1. m \in Messages /\ m.says = v /\ v \in Ends /\ v # "delta"
    BY <1>3, <2>0 DEF EndTurn, Messages, Notes, Ends
  <2>2. inbound' = Append(inbound, m) /\ sent' = sent
    BY <1>3, <2>0 DEF EndTurn
  <2>3. sent' = sent + One(m.says)
    BY <1>0, <2>1, <2>2 DEF One
  <2> HIDE DEF m
  <2>. QED
    BY <1>1, <2>0, <2>1, <2>2, <2>3, ReplySays
<1>. QED
  BY <1>2, <1>3

(* The connection ends, and with it some of the last messages.             *)
LEMMA ReplyEnds ==
  ASSUME RpcInv, ReplyInv, KeepsSome, socket' # "up",
         UNCHANGED <<turn, events, sent, text, older, stage, result, dropped>>,
         pc'["run"] = pc["run"] \/ pc'["run"] \in Over
  PROVE  ReplyInv'
<1>0. /\ events \in Seq(Notes) /\ inbound \in Seq(Messages)
  BY Kinds
<1>1. PICK n \in 0..Len(inbound) : inbound' = SubSeq(inbound, 1, n)
  BY DEF KeepsSome
<1>2. /\ Len(inbound') = n /\ n \in Nat /\ n <= Len(inbound) /\ Len(inbound) \in Nat
      /\ \A k \in 1..n : inbound'[k] = inbound[k]
  BY <1>0, <1>1
<1>3. NotesTrue'
  BY <1>2 DEF ReplyInv, NotesTrue
<1>4. WhenRead' /\ WhenOver' /\ ReplyComplete'
  BY DEF ReplyInv, WhenRead, WhenOver, ReplyComplete
<1>5. Counted'
  <2>1. SUFFICES ASSUME stage # "read", "delta" \notin dropped
                 PROVE  \E e, b : Reckons(e, b, text, events, inbound', sent, socket')
    BY DEF Counted
  <2>2. PICK e, b : Reckons(e, b, text, events, inbound, sent, socket)
    BY <2>1 DEF ReplyInv, Counted
  <2>3. PICK down : down = socket' /\ down # "up"
    OBVIOUS
  <2>4. Reckons(e, b, text, events, SubSeq(inbound, 1, n), sent, down)
    BY <1>0, <2>2, <2>3, ReckonsPrefix
  <2>. QED
    BY <1>1, <2>3, <2>4
<1>. QED
  BY <1>3, <1>4, <1>5 DEF ReplyInv

(* The reader takes a message.                                             *)
LEMMA ReplyRead ==
  ASSUME RpcInv, ReplyInv, ReadReply \/ ReadNote
  PROVE  ReplyInv'
<1> USE DEF run, steering
<1>0. /\ events \in Seq(Notes) /\ inbound \in Seq(Messages) /\ inbound # <<>>
      /\ Head(inbound) \in Messages /\ sent \in Nat
  BY Kinds DEF ReadReply, ReadNote
<1>1. /\ UNCHANGED <<turn, sent, text, older, stage, result, socket, pc>>
      /\ inbound' = Tail(inbound)
  BY DEF ReadReply, ReadNote
<1>2. /\ Len(inbound') \in Nat /\ Len(inbound) = Len(inbound') + 1
      /\ \A k \in 1..Len(inbound') : inbound'[k] = inbound[k + 1]
      /\ inbound[1] = Head(inbound)
  BY <1>0, <1>1
<1>3. \A k \in 1..Len(inbound') : inbound'[k].says \in Ends => turn = inbound'[k].says
  <2>1. \A k \in 1..Len(inbound') : k + 1 \in 1..Len(inbound)
    BY <1>2
  <2>. QED
    BY <1>2, <2>1 DEF ReplyInv, NotesTrue
<1>4. dropped \subseteq dropped'
  BY DEF ReadReply, ReadNote, history
<1>5. WhenRead' /\ WhenOver' /\ ReplyComplete'
  BY <1>1, <1>4 DEF ReplyInv, WhenRead, WhenOver, ReplyComplete
<1>6. CASE \/ ReadReply
           \/ ReadNote /\ events' = events /\ dropped' = dropped \cup {Head(inbound).says}
  <2>1. events' = events
    BY <1>6 DEF ReadReply
  <2>2. NotesTrue'
    BY <1>1, <1>3, <2>1 DEF ReplyInv, NotesTrue
  <2>3. Counted'
    <3>1. SUFFICES ASSUME stage # "read", "delta" \notin dropped'
                   PROVE  \E e, b : Reckons(e, b, text, events, Tail(inbound), sent, socket)
      BY <1>1, <2>1 DEF Counted
    <3>2. PICK e, b : Reckons(e, b, text, events, inbound, sent, socket)
      BY <1>4, <3>1 DEF ReplyInv, Counted
    <3>3. Head(inbound).says # "delta"
      <4>1. CASE ReadReply
        BY <1>0, <4>1 DEF ReadReply, Messages, Answers
      <4>. QED
        BY <1>6, <3>1, <4>1
    <3>4. Reckons(e, Shift(b), text, events, Tail(inbound), sent, socket)
      BY <1>0, <3>2, <3>3, ReckonsSkip
    <3>. QED
      BY <3>4
  <2>. QED
    BY <1>5, <2>2, <2>3 DEF ReplyInv
<1>7. CASE /\ Head(inbound).id = 0
           /\ events' = Append(events, Head(inbound).says) /\ dropped' = dropped
  <2>0. Head(inbound).says \in Notes
    BY <1>0, <1>7 DEF Messages, Ids
  <2>1. /\ Len(events) \in Nat /\ Len(events') = Len(events) + 1
        /\ \A k \in 1..Len(events) : events'[k] = events[k]
        /\ events'[Len(events) + 1] = Head(inbound).says
    BY <1>0, <1>7, <2>0
  <2>2. Head(inbound).says \in Ends => turn = Head(inbound).says
    <3>1. 1 \in 1..Len(inbound)
      BY <1>2
    <3>. QED
      BY <1>2, <3>1 DEF ReplyInv, NotesTrue
  <2>3. ASSUME NEW k \in 1..Len(events'), events'[k] \in Ends
        PROVE  turn = events'[k]
    <3>1. CASE k = Len(events) + 1
      BY <2>1, <2>2, <2>3, <3>1
    <3>2. CASE k # Len(events) + 1
      <4>1. k \in 1..Len(events) /\ events'[k] = events[k]
        BY <2>1, <3>2
      <4>. QED
        BY <2>3, <4>1 DEF ReplyInv, NotesTrue
    <3>. QED
      BY <3>1, <3>2
  <2>4. NotesTrue'
    BY <1>1, <1>3, <2>3 DEF NotesTrue
  <2>5. Counted'
    <3>1. SUFFICES ASSUME stage # "read", "delta" \notin dropped
                   PROVE  \E e, b : Reckons(e, b, text, events', Tail(inbound), sent, socket)
      BY <1>1, <1>7 DEF Counted
    <3>2. PICK e, b : Reckons(e, b, text, events, inbound, sent, socket)
      BY <3>1 DEF ReplyInv, Counted
    <3>3. PICK p \in Nat : p = Len(events) + 1
      BY <2>1
    <3>4. Reckons(Put(e, p, b[1]), Shift(b), text, Append(events, Head(inbound).says),
                  Tail(inbound), sent, socket)
      BY <1>0, <2>0, <3>2, <3>3, ReckonsMove
    <3>. QED
      BY <1>7, <3>4
  <2>. QED
    BY <1>5, <2>4, <2>5 DEF ReplyInv
<1>. QED
  BY <1>6, <1>7 DEF ReadNote

(* The run leaves without success, or with the outcome it has.             *)
LEMMA ReplyLeaves ==
  ASSUME RpcInv, ReplyInv, NEW o, Leave(o), o # "ok",
         UNCHANGED <<turn, events, inbound, sent, text, older, socket, dropped>>
  PROVE  ReplyInv'
<1>1. pc'["run"] \in Over /\ result' = o /\ stage' = stage
  BY Kinds, LeaveOver
<1>2. NotesTrue' /\ Counted'
  BY <1>1 DEF ReplyInv, NotesTrue, Counted
<1>3. WhenRead' /\ WhenOver' /\ ReplyComplete'
  BY <1>1 DEF ReplyInv, WhenRead, WhenOver, ReplyComplete
<1>. QED
  BY <1>2, <1>3 DEF ReplyInv

(* The next notification: at the end of the turn the text is whole.        *)
LEMMA ReplyConsume ==
  ASSUME RpcInv, TurnInv, ReplyInv, Consume
  PROVE  ReplyInv'
<1> USE DEF steering, history
<1>0. /\ events \in Seq(Notes) /\ inbound \in Seq(Messages) /\ events # <<>>
      /\ sent \in Nat /\ text \in Nat /\ TypeOK
      /\ pc \in [Goroutines -> Pcs] /\ "run" \in Goroutines
  BY Kinds DEF Consume
<1>1. /\ UNCHANGED <<turn, inbound, sent, socket, dropped>>
      /\ events' = Tail(events) /\ pc["run"] = "wait"
  BY DEF Consume, remote
<1>2. stage = "turn" /\ result = "none"
  BY <1>1 DEF TurnInv, TurnLater, ReplyInv, WhenOver, Over
<1>3. /\ Len(events') \in Nat /\ Len(events) = Len(events') + 1
      /\ \A k \in 1..Len(events') : events'[k] = events[k + 1]
      /\ events[1] = Head(events)
  BY <1>0, <1>1
<1>4. NotesTrue'
  <2>1. \A k \in 1..Len(events') : k + 1 \in 1..Len(events)
    BY <1>3
  <2>2. \A k \in 1..Len(events') : events'[k] \in Ends => turn = events'[k]
    BY <1>3, <2>1 DEF ReplyInv, NotesTrue
  <2>. QED
    BY <1>1, <2>2 DEF ReplyInv, NotesTrue
<1>5. ASSUME text' = text + One(Head(events)), stage' # "read" PROVE Counted'
  <2>1. SUFFICES ASSUME "delta" \notin dropped
                 PROVE  \E e, b : Reckons(e, b, text + One(Head(events)), Tail(events),
                                          inbound, sent, socket)
    BY <1>1, <1>5 DEF Counted
  <2>2. PICK e, b : Reckons(e, b, text, events, inbound, sent, socket)
    BY <1>2, <2>1 DEF ReplyInv, Counted
  <2>3. Reckons(Shift(e), b, text + One(Head(events)), Tail(events), inbound, sent, socket)
    BY <1>0, <2>2, ReckonsTake
  <2>. QED
    BY <2>3
<1>6. CASE Head(events) = "status" /\ UNCHANGED <<pc, run>>
  <2>1. text' = text + One(Head(events)) /\ UNCHANGED <<text, older, stage, result, pc>>
    BY <1>0, <1>6 DEF One, run
  <2>2. WhenRead' /\ WhenOver' /\ ReplyComplete'
    BY <1>1, <2>1 DEF ReplyInv, WhenRead, WhenOver, ReplyComplete
  <2>. QED
    BY <1>2, <1>4, <1>5, <2>1, <2>2 DEF ReplyInv
<1>7. CASE /\ Head(events) = "delta" /\ text' = text + 1
           /\ UNCHANGED <<pc, older, registered, offered, stage, result>>
  <2>1. text' = text + One(Head(events))
    BY <1>7 DEF One
  <2>2. WhenRead' /\ WhenOver' /\ ReplyComplete'
    BY <1>2, <1>7 DEF ReplyInv, WhenRead, WhenOver, ReplyComplete
  <2>. QED
    BY <1>2, <1>4, <1>5, <1>7, <2>1, <2>2 DEF ReplyInv
<1>8. ASSUME Head(events) \in Ends
      PROVE  turn = Head(events) /\ (text = sent \/ "delta" \in dropped)
  <2>1. 1 \in 1..Len(events) /\ events[1] \in Ends
    BY <1>3, <1>8
  <2>2. turn = Head(events)
    BY <1>3, <2>1 DEF ReplyInv, NotesTrue
  <2>3. ASSUME "delta" \notin dropped PROVE text = sent
    <3>1. PICK e, b : Reckons(e, b, text, events, inbound, sent, socket)
      BY <1>2, <2>3 DEF ReplyInv, Counted
    <3>2. All(e, 1, Len(events), sent)
      BY <2>1, <3>1 DEF Reckons, Settled
    <3>3. e[1] = sent
      BY <2>1, <3>2 DEF All
    <3>4. e[1] = e[0] + One(Head(events)) /\ e[0] = text
      BY <1>0, <3>1, ShiftTally DEF Reckons
    <3>5. One(Head(events)) = 0
      BY <1>8 DEF One, Ends
    <3>. QED
      BY <1>0, <3>3, <3>4, <3>5
  <2>. QED
    BY <2>2, <2>3
<1>9. ASSUME NEW o, Leave(o), Head(events) \in Ends, UNCHANGED <<text, older>>,
             o = "ok" => Head(events) \in Finished
      PROVE  ReplyInv'
  <2>1. pc'["run"] \in Over /\ result' = o /\ stage' = stage
    BY <1>0, <1>9, LeaveOver
  <2>2. text' = text + One(Head(events))
    BY <1>0, <1>9 DEF One, Ends
  <2>3. WhenRead' /\ WhenOver' /\ ReplyComplete'
    BY <1>1, <1>2, <1>8, <1>9, <2>1 DEF ReplyInv, WhenRead, WhenOver, ReplyComplete
  <2>. QED
    BY <1>2, <1>4, <1>5, <2>1, <2>2, <2>3 DEF ReplyInv
<1>10. CASE /\ Head(events) \in Finished /\ text = 0 /\ stage' = "read"
            /\ Goto("run", "open")
            /\ UNCHANGED <<text, older, registered, offered, result>>
  <2>1. Counted'
    BY <1>10 DEF Counted
  <2>2. WhenRead' /\ WhenOver' /\ ReplyComplete'
    BY <1>1, <1>2, <1>8, <1>10 DEF Ends, Finished, WhenRead, WhenOver, ReplyComplete
  <2>. QED
    BY <1>4, <2>1, <2>2 DEF ReplyInv
<1>. QED
  BY <1>6, <1>7, <1>9, <1>10 DEF Consume, Ends, Finished

LEMMA ReplyRun ==
  ASSUME RpcInv, TurnInv, ReplyInv,
         Initialized \/ WaitEnds \/ Unregister \/ Close \/ Fallback
  PROVE  ReplyInv'
<1> USE DEF remote, channels, steering, history
<1>0. TypeOK /\ "run" \in Goroutines /\ pc \in [Goroutines -> Pcs]
  BY Kinds
<1>1. UNCHANGED <<turn, events, sent, text, older, dropped>>
  BY DEF Initialized, WaitEnds, Unregister, Close, Fallback, run
<1>2. CASE Initialized
  <2>1. CASE stage' = "thread" /\ result' = result
    <3>1. stage # "read" /\ result = "none" /\ UNCHANGED <<inbound, socket>>
      BY <1>2 DEF Initialized, TurnInv, TurnLater, ReplyInv, WhenOver, Over
    <3>2. NotesTrue' /\ Counted'
      BY <1>1, <2>1, <3>1 DEF ReplyInv, NotesTrue, Counted
    <3>3. WhenRead' /\ WhenOver' /\ ReplyComplete'
      BY <1>1, <2>1, <3>1 DEF ReplyInv, WhenRead, WhenOver, ReplyComplete
    <3>. QED
      BY <3>2, <3>3 DEF ReplyInv
  <2>. QED
    BY <1>1, <1>2, <2>1, ReplyLeaves DEF Initialized
<1>3. CASE WaitEnds
  BY <1>1, <1>3, ReplyLeaves DEF WaitEnds
<1>4. CASE Unregister
  <2>1. /\ UNCHANGED <<inbound, socket, stage, result>>
        /\ Goto("run", "close")
    BY <1>4 DEF Unregister
  <2>2. pc'["run"] \in Over
    BY <1>0, <2>1 DEF Goto, Over
  <2>. QED
    BY <1>1, <2>1, <2>2, ReplyUntouched
<1>5. CASE Close
  <2>1. /\ UNCHANGED <<stage, result>> /\ KeepsSome /\ socket' # "up"
        /\ Goto("run", "fallback")
    BY <1>5 DEF Close, run
  <2>2. pc'["run"] \in Over
    BY <1>0, <2>1 DEF Goto, Over
  <2>. QED
    BY <1>1, <2>1, <2>2, ReplyEnds
<1>6. CASE Fallback
  <2>1. /\ UNCHANGED <<inbound, socket, stage>>
        /\ result' = (IF result = "unavailable" THEN "cli" ELSE result)
        /\ Goto("run", "returned")
    BY <1>6 DEF Fallback
  <2>2. pc'["run"] \in Over
    BY <1>0, <2>1 DEF Goto, Over
  <2>3. result' = "ok" => result = "ok"
    BY <2>1
  <2>4. NotesTrue' /\ Counted'
    BY <1>1, <2>1 DEF ReplyInv, NotesTrue, Counted
  <2>5. WhenRead' /\ WhenOver' /\ ReplyComplete'
    BY <1>1, <2>1, <2>2, <2>3 DEF ReplyInv, WhenRead, WhenOver, ReplyComplete
  <2>. QED
    BY <2>4, <2>5 DEF ReplyInv
<1>. QED
  BY <1>2, <1>3, <1>4, <1>5, <1>6

LEMMA ReplyRest ==
  ASSUME RpcInv, ReplyInv,
         \/ ReadFails \/ CloseDone \/ Lose \/ Cancel
         \/ Steer \/ SteerStops \/ UNCHANGED vars
  PROVE  ReplyInv'
<1> USE DEF remote, channels, run, steering, history
<1>1. CASE Lose
  <2>1. /\ UNCHANGED <<turn, events, sent, text, older, stage, result, dropped, pc>>
        /\ KeepsSome /\ socket' # "up"
    BY <1>1 DEF Lose
  <2>. QED
    BY <2>1, ReplyEnds
<1>2. CASE Steer \/ SteerStops
  <2>1. /\ UNCHANGED <<turn, events, inbound, sent, text, older, stage, result, socket, dropped>>
        /\ \E l : Goto("steer", l)
    BY <1>2 DEF Steer, SteerStops
  <2>2. pc'["run"] = pc["run"]
    BY <2>1 DEF Goto, RpcInv, TypeOK, Goroutines
  <2>. QED
    BY <2>1, <2>2, ReplyUntouched
<1>3. CASE ReadFails \/ CloseDone \/ Cancel \/ UNCHANGED vars
  <2>1. UNCHANGED <<turn, events, inbound, sent, text, older, stage, result, socket, dropped, pc>>
    BY <1>3 DEF ReadFails, CloseDone, Cancel, vars
  <2>. QED
    BY <2>1, ReplyUntouched
<1>. QED
  BY <1>1, <1>2, <1>3

LEMMA ReplyStep == RpcInv /\ TurnInv /\ ReplyInv /\ [Next]_vars => ReplyInv'
<1> SUFFICES ASSUME RpcInv, TurnInv, ReplyInv, [Next]_vars PROVE ReplyInv'
  OBVIOUS
<1>1. ASSUME NEW g \in Goroutines, Request(g) PROVE ReplyInv'
  BY <1>1, ReplyRequests
<1>2. ASSUME NEW r \in Requests, Serve(r) PROVE ReplyInv'
  BY <1>2, ReplyServe
<1>. QED
  BY <1>1, <1>2, ReplyTurn, ReplyRead, ReplyConsume, ReplyRun, ReplyRest
     DEF Next, RunStep, SteerStep, ReaderStep, AgentStep, Quiescent, Goroutines

LEMMA ReplyInit == Init => ReplyInv
<1> SUFFICES ASSUME Init PROVE ReplyInv
  OBVIOUS
<1>1. NotesTrue /\ WhenRead /\ WhenOver /\ ReplyComplete
  BY DEF Init, NotesTrue, WhenRead, WhenOver, ReplyComplete
<1>2. Counted
  <2> DEFINE z == [k \in Nat |-> 0]
  <2>1. z \in [Nat -> Nat] /\ z[0] = 0
    OBVIOUS
  <2>2. events = <<>> /\ inbound = <<>> /\ sent = 0 /\ text = 0
    BY DEF Init
  <2>3. Len(<<>>) = 0
    OBVIOUS
  <2> HIDE DEF z
  <2>4. Reckons(z, z, 0, <<>>, <<>>, 0, socket)
    BY <2>1, <2>3 DEF Reckons, Tally, TallyIn, Settled, SettledIn
  <2>. QED
    BY <2>2, <2>4 DEF Counted
<1>. QED
  BY <1>1, <1>2 DEF ReplyInv

(* A run that reports success had its turn end otherwise than by failing;  *)
(* unless the reader had to drop notifications, its reply is the whole     *)
(* text of the turn, and an older turn's only when this one said nothing   *)
(* (waitForTurnCompletion, threadReadLatestReply).                         *)
THEOREM ReplyIsWhole == Spec => []ReplyComplete
<1>1. ReplyInv => ReplyComplete
  BY DEF ReplyInv
<1>. QED
  BY RpcInit, RpcStep, TurnInit, TurnStep, ReplyInit, ReplyStep, <1>1, PTL DEF Spec

-----------------------------------------------------------------------------
(* Nobody waits in vain.  A call that is awaited is on its way: on the     *)
(* socket, in the answer to it while the call is still in the map, or in   *)
(* its channel; else the connection has ended, which the reader tells it.  *)
Lost == socket # "up"
OnItsWay(i) ==
  i \in pending /\ \/ \E r \in wire : r.id = i
                   \/ \E k \in 1..Len(inbound) : inbound[k].id = i
InMap == \A g \in Goroutines : pc[g] = "write" => Lost \/ rid[g] \in pending
CallsAnswered == \A g \in Goroutines : pc[g] = "await" =>
  Lost \/ replyCh[rid[g]] # "none" \/ OnItsWay(rid[g])

CallInv == InMap /\ CallsAnswered

(* A step that leaves the calls as they are, but may end the connection or *)
(* add to what is on the socket.                                           *)
LEMMA CallsUntouched ==
  ASSUME CallInv, UNCHANGED <<pending, rid>>,
         Lost => Lost',
         \/ Lost'
         \/ /\ wire \subseteq wire' /\ replyCh' = replyCh
            /\ \A k \in 1..Len(inbound) : k \in 1..Len(inbound') /\ inbound'[k] = inbound[k],
         \A g \in Goroutines : pc'[g] \in {"write", "await"} => pc'[g] = pc[g]
  PROVE  CallInv'
<1>1. InMap'
  BY DEF CallInv, InMap
<1>2. CallsAnswered'
  <2>1. ASSUME NEW g \in Goroutines, pc'[g] = "await", ~Lost'
        PROVE  (replyCh[rid[g]] # "none" \/ OnItsWay(rid[g]))'
    <3>1. replyCh[rid[g]] # "none" \/ OnItsWay(rid[g])
      BY <2>1 DEF CallInv, CallsAnswered
    <3>2. replyCh' = replyCh /\ wire \subseteq wire'
          /\ \A k \in 1..Len(inbound) : k \in 1..Len(inbound') /\ inbound'[k] = inbound[k]
      BY <2>1
    <3>3. OnItsWay(rid[g]) => OnItsWay(rid[g])'
      BY <3>2 DEF OnItsWay
    <3>. QED
      BY <3>1, <3>2, <3>3
  <2>. QED
    BY <2>1 DEF CallsAnswered
<1>. QED
  BY <1>1, <1>2 DEF CallInv

LEMMA CallsOpen ==
  ASSUME RpcInv, CallInv, NEW g \in Goroutines, Open(g)
  PROVE  CallInv'
<1>1. /\ pc \in [Goroutines -> Pcs] /\ rid \in [Goroutines -> 0..MaxRequests]
  BY DEF RpcInv, TypeOK
<1>2. /\ pc' = [pc EXCEPT ![g] = "write"] /\ rid' = [rid EXCEPT ![g] = nextID + 1]
      /\ pending' = pending \cup {nextID + 1}
      /\ UNCHANGED <<socket, wire, inbound, replyCh>>
  BY DEF Open, Goto, remote
<1>3. InMap'
  BY <1>1, <1>2 DEF CallInv, InMap, Lost
<1>4. ASSUME NEW h \in Goroutines, pc'[h] = "await", ~Lost'
      PROVE  (replyCh[rid[h]] # "none" \/ OnItsWay(rid[h]))'
  <2>1. h # g /\ pc[h] = "await" /\ rid'[h] = rid[h] /\ ~Lost
    BY <1>1, <1>2, <1>4 DEF Lost
  <2>2. replyCh[rid[h]] # "none" \/ OnItsWay(rid[h])
    BY <2>1 DEF CallInv, CallsAnswered
  <2>. QED
    BY <1>2, <2>1, <2>2 DEF OnItsWay
<1>5. CallsAnswered'
  BY <1>4 DEF CallsAnswered
<1>. QED
  BY <1>3, <1>5 DEF CallInv

LEMMA CallsWrite ==
  ASSUME RpcInv, CallInv, NEW g \in Goroutines, Write(g)
  PROVE  CallInv'
<1>1. pc \in [Goroutines -> Pcs]
  BY DEF RpcInv, TypeOK
<1>2. /\ pc[g] = "write" /\ pc' = [pc EXCEPT ![g] = "await"]
      /\ UNCHANGED <<socket, inbound, pending, replyCh, rid>>
  BY DEF Write, Goto, channels
<1>3. /\ wire \subseteq wire'
      /\ Lost \/ \E r \in wire' : r.id = rid[g]
  <2> DEFINE q == [id |-> rid[g], method |-> IF g = "run" THEN stage ELSE "steer",
                   message |-> IF g = "run" THEN 0 ELSE steers]
  <2>1. q.id = rid[g] /\ ((socket = "up" /\ wire' = wire \cup {q})
                          \/ (socket = "lost" /\ wire' = wire))
    BY DEF Write
  <2> HIDE DEF q
  <2>. QED
    BY <2>1 DEF Lost
<1>4. InMap'
  BY <1>1, <1>2 DEF CallInv, InMap, Lost
<1>5. ASSUME NEW h \in Goroutines, pc'[h] = "await", ~Lost'
      PROVE  (replyCh[rid[h]] # "none" \/ OnItsWay(rid[h]))'
  <2>0. ~Lost
    BY <1>2, <1>5 DEF Lost
  <2>1. CASE h = g
    <3>1. rid[g] \in pending /\ \E r \in wire' : r.id = rid[g]
      BY <1>2, <1>3, <2>0 DEF CallInv, InMap
    <3>. QED
      BY <1>2, <2>1, <3>1 DEF OnItsWay
  <2>2. CASE h # g
    <3>1. replyCh[rid[h]] # "none" \/ OnItsWay(rid[h])
      BY <1>1, <1>2, <1>5, <2>0, <2>2 DEF CallInv, CallsAnswered
    <3>. QED
      BY <1>2, <1>3, <3>1 DEF OnItsWay
  <2>. QED
    BY <2>1, <2>2
<1>6. CallsAnswered'
  BY <1>5 DEF CallsAnswered
<1>. QED
  BY <1>4, <1>6 DEF CallInv

(* A call that returns takes no other out of the map.                      *)
LEMMA CallsReturn ==
  ASSUME RpcInv, CallInv, NEW g \in Goroutines,
         WriteFails(g) \/ TakeReply(g) \/ SeeDone(g) \/ GiveUp(g)
  PROVE  CallInv'
<1>1. PICK o \in Answers \cup Failures : pc[g] \in {"write", "await"} /\ Returns(g, o)
  BY RequestEffect
<1>2. /\ pc'[g] \notin {"write", "await"}
      /\ \A h \in Goroutines \ {g} : pc'[h] = pc[h]
  BY <1>1, ReturnsType DEF RpcInv
<1>3. /\ pending \ {rid[g]} \subseteq pending'
      /\ UNCHANGED <<socket, wire, inbound, replyCh, rid>>
  BY DEF WriteFails, TakeReply, SeeDone, GiveUp, remote, channels
<1>4. ASSUME NEW h \in Goroutines, pc'[h] \in {"write", "await"}
      PROVE  pc[h] = pc'[h] /\ rid[h] # rid[g]
  BY <1>1, <1>2, <1>4, CallNumber
<1>5. InMap'
  BY <1>3, <1>4 DEF CallInv, InMap, Lost
<1>6. ASSUME NEW h \in Goroutines, pc'[h] = "await", ~Lost'
      PROVE  (replyCh[rid[h]] # "none" \/ OnItsWay(rid[h]))'
  <2>1. pc[h] = "await" /\ rid[h] # rid[g] /\ ~Lost
    BY <1>3, <1>4, <1>6 DEF Lost
  <2>2. replyCh[rid[h]] # "none" \/ OnItsWay(rid[h])
    BY <2>1 DEF CallInv, CallsAnswered
  <2>. QED
    BY <1>3, <2>1, <2>2 DEF OnItsWay
<1>7. CallsAnswered'
  BY <1>6 DEF CallsAnswered
<1>. QED
  BY <1>5, <1>7 DEF CallInv

(* What the process adds to the socket leaves there what was on it.        *)
LEMMA SocketGrows ==
  ASSUME RpcInv,
         \/ \E m \in Messages : inbound' = Append(inbound, m)
         \/ \E m, n \in Messages : inbound' = Append(Append(inbound, m), n)
  PROVE  \A k \in 1..Len(inbound) : k \in 1..Len(inbound') /\ inbound'[k] = inbound[k]
<1>0. inbound \in Seq(Messages)
  BY DEF RpcInv, TypeOK
<1>1. ASSUME NEW m \in Messages, inbound' = Append(inbound, m)
      PROVE  \A k \in 1..Len(inbound) : k \in 1..Len(inbound') /\ inbound'[k] = inbound[k]
  BY <1>0, <1>1
<1>2. ASSUME NEW m \in Messages, NEW n \in Messages, inbound' = Append(Append(inbound, m), n)
      PROVE  \A k \in 1..Len(inbound) : k \in 1..Len(inbound') /\ inbound'[k] = inbound[k]
  <2>1. Append(inbound, m) \in Seq(Messages) /\ Len(Append(inbound, m)) = Len(inbound) + 1
        /\ \A k \in 1..Len(inbound) : Append(inbound, m)[k] = inbound[k]
    BY <1>0
  <2>. QED
    BY <1>0, <1>2, <2>1
<1>. QED
  BY <1>1, <1>2

(* The effect of an answer on the socket.                                  *)
LEMMA ServeEffect ==
  ASSUME RpcInv, NEW r \in Requests, Serve(r)
  PROVE  \E a \in Answers :
           /\ answered' = [answered EXCEPT ![r.id] = a]
           /\ \A k \in 1..Len(inbound) : k \in 1..Len(inbound') /\ inbound'[k] = inbound[k]
           /\ \E k \in 1..Len(inbound') : inbound'[k].id = r.id
           /\ turn' = turn \/ turn' = "running"
           /\ r.method = "turn" /\ a = "ok" => turn' = "running"
<1>0. inbound \in Seq(Messages) /\ r.id \in Ids
  BY DEF RpcInv, TypeOK, Requests
<1>1. PICK a \in Answers :
        /\ answered' = [answered EXCEPT ![r.id] = a]
        /\ \/ /\ r.method = "turn" /\ a = "ok" /\ turn' = "running"
              /\ inbound' = Append(Append(inbound, [id |-> r.id, says |-> a]),
                                   [id |-> 0, says |-> "status"])
           \/ /\ r.method # "turn" \/ a # "ok"
              /\ inbound' = Append(inbound, [id |-> r.id, says |-> a])
              /\ UNCHANGED turn
  BY DEF Serve
<1> DEFINE reply == [id |-> r.id, says |-> a]
           note == [id |-> 0, says |-> "status"]
<1>2. reply \in Messages /\ note \in Messages /\ reply.id = r.id
  BY <1>0 DEF Messages, Notes
<1> HIDE DEF reply, note
<1>3. inbound' = Append(Append(inbound, reply), note) \/ inbound' = Append(inbound, reply)
  BY <1>1 DEF reply, note
<1>4. \A k \in 1..Len(inbound) : k \in 1..Len(inbound') /\ inbound'[k] = inbound[k]
  BY <1>2, <1>3, SocketGrows
<1>5. Len(inbound) + 1 \in 1..Len(inbound') /\ inbound'[Len(inbound) + 1] = reply
  <2>1. CASE inbound' = Append(inbound, reply)
    BY <1>0, <1>2, <2>1
  <2>2. CASE inbound' = Append(Append(inbound, reply), note)
    <3>1. /\ Append(inbound, reply) \in Seq(Messages)
          /\ Len(Append(inbound, reply)) = Len(inbound) + 1 /\ Len(inbound) \in Nat
          /\ Append(inbound, reply)[Len(inbound) + 1] = reply
      BY <1>0, <1>2
    <3>. QED
      BY <1>2, <2>2, <3>1
  <2>. QED
    BY <1>3, <2>1, <2>2
<1>. QED
  BY <1>1, <1>2, <1>4, <1>5

LEMMA CallsServe ==
  ASSUME RpcInv, CallInv, NEW r \in Requests, Serve(r)
  PROVE  CallInv'
<1>1. /\ \A k \in 1..Len(inbound) : k \in 1..Len(inbound') /\ inbound'[k] = inbound[k]
      /\ \E k \in 1..Len(inbound') : inbound'[k].id = r.id
  BY ServeEffect
<1>2. /\ wire' = wire \ {r}
      /\ UNCHANGED <<socket, pending, replyCh, pc, rid>>
  BY DEF Serve, channels
<1>3. InMap'
  BY <1>2 DEF CallInv, InMap, Lost
<1>4. ASSUME NEW g \in Goroutines, OnItsWay(rid[g]) PROVE OnItsWay(rid[g])'
  <2>1. CASE rid[g] = r.id
    BY <1>1, <1>2, <1>4, <2>1 DEF OnItsWay
  <2>2. CASE rid[g] # r.id
    BY <1>1, <1>2, <1>4, <2>2 DEF OnItsWay
  <2>. QED
    BY <2>1, <2>2
<1>5. CallsAnswered'
  BY <1>2, <1>4 DEF CallInv, CallsAnswered, Lost
<1>. QED
  BY <1>3, <1>5 DEF CallInv

LEMMA CallsReader ==
  ASSUME RpcInv, CallInv, ReaderStep
  PROVE  CallInv'
<1>1. /\ inbound \in Seq(Messages)
      /\ replyCh \in [Ids -> Answers \cup Failures \cup {"none"}]
      /\ "none" \notin Answers
  BY DEF RpcInv, TypeOK, Answers
<1>2. ASSUME inbound # <<>>, inbound' = Tail(inbound), wire' = wire, NEW i,
             i \in pending', OnItsWay(i), Head(inbound).id # i
      PROVE  OnItsWay(i)'
  <2>1. ASSUME NEW k \in 1..Len(inbound), inbound[k].id = i
        PROVE  \E l \in 1..Len(inbound') : inbound'[l].id = i
    <3>1. k # 1
      BY <1>1, <1>2, <2>1
    <3>2. k - 1 \in 1..Len(inbound') /\ inbound'[k - 1] = inbound[k]
      BY <1>1, <1>2, <3>1
    <3>. QED
      BY <2>1, <3>2
  <2>. QED
    BY <1>2, <2>1 DEF OnItsWay
<1>3. CASE ReadReply
  <2> DEFINE m == Head(inbound)
  <2>1. /\ inbound # <<>> /\ inbound' = Tail(inbound)
        /\ pending' = pending \ {m.id}
        /\ replyCh' = IF m.id \in pending THEN [replyCh EXCEPT ![m.id] = m.says] ELSE replyCh
        /\ UNCHANGED <<socket, wire, pc, rid>>
    BY <1>3 DEF ReadReply
  <2>2. m \in Messages /\ m.id # 0 /\ m = inbound[1] /\ 1 \in 1..Len(inbound)
    BY <1>1, <1>3 DEF ReadReply
  <2>3. m.id \in Ids /\ m.says \in Answers /\ answered[m.id] = m.says
    BY <2>2 DEF Messages, RpcInv, FromServer
  <2> HIDE DEF m
  <2>4. ASSUME NEW g \in Goroutines, pc[g] = "write" PROVE rid[g] # m.id
    BY <1>1, <2>3, <2>4 DEF RpcInv, Writing
  <2>5. InMap'
    BY <2>1, <2>4 DEF CallInv, InMap, Lost
  <2>6. ASSUME NEW g \in Goroutines, pc[g] = "await", ~Lost
        PROVE  (replyCh[rid[g]] # "none" \/ OnItsWay(rid[g]))'
    <3>1. rid[g] \in Ids
      BY <2>6, CallNumber
    <3>2. CASE rid[g] = m.id /\ m.id \in pending
      BY <1>1, <2>1, <2>3, <3>1, <3>2
    <3>3. CASE replyCh[rid[g]] # "none"
      <4>1. replyCh'[rid[g]] # "none"
        BY <1>1, <2>1, <2>3, <3>1, <3>3
      <4>. QED
        BY <2>1, <4>1
    <3>4. CASE OnItsWay(rid[g]) /\ rid[g] # m.id
      <4>1. rid[g] \in pending'
        BY <2>1, <3>4 DEF OnItsWay
      <4>2. OnItsWay(rid[g])'
        BY <1>2, <2>1, <3>4, <4>1 DEF m
      <4>. QED
        BY <4>2
    <3>. QED
      BY <2>6, <3>2, <3>3, <3>4 DEF CallInv, CallsAnswered, OnItsWay
  <2>7. CallsAnswered'
    BY <2>1, <2>6 DEF CallsAnswered, Lost
  <2>. QED
    BY <2>5, <2>7 DEF CallInv
<1>4. CASE ReadNote
  <2>1. /\ inbound # <<>> /\ inbound' = Tail(inbound) /\ Head(inbound).id = 0
        /\ UNCHANGED <<socket, wire, pending, replyCh, pc, rid>>
    BY <1>4 DEF ReadNote
  <2>2. InMap'
    BY <2>1 DEF CallInv, InMap, Lost
  <2>3. ASSUME NEW g \in Goroutines, pc[g] = "await", OnItsWay(rid[g])
        PROVE  OnItsWay(rid[g])'
    <3>1. rid[g] # 0
      BY <2>3 DEF RpcInv, TypeOK
    <3>2. rid[g] \in pending'
      BY <2>1, <2>3 DEF OnItsWay
    <3>3. OnItsWay(rid[g])'
      BY <1>2, <2>1, <2>3, <3>1, <3>2
    <3>. QED
      BY <3>3
  <2>4. CallsAnswered'
    BY <2>1, <2>3 DEF CallInv, CallsAnswered, Lost
  <2>. QED
    BY <2>2, <2>4 DEF CallInv
<1>5. CASE ReadFails
  <2>1. Lost /\ UNCHANGED socket
    BY <1>5 DEF ReadFails, Lost, remote
  <2>. QED
    BY <2>1 DEF CallInv, InMap, CallsAnswered, Lost
<1>6. CASE CloseDone
  BY <1>6, CallsUntouched DEF CloseDone, remote, Lost
<1>. QED
  BY <1>3, <1>4, <1>5, <1>6 DEF ReaderStep

LEMMA CallsOther ==
  ASSUME RpcInv, CallInv,
         \/ Initialized \/ Consume \/ WaitEnds
         \/ Unregister \/ Close \/ Fallback
         \/ Steer \/ SteerStops
         \/ Report \/ EndTurn \/ Lose \/ Cancel \/ UNCHANGED vars
  PROVE  CallInv'
<1> USE DEF remote, channels, run, steering, history
<1>1. UNCHANGED <<wire, pending, replyCh, rid>>
  BY DEF Initialized, Consume, WaitEnds, Unregister, Close, Fallback, Steer,
         SteerStops, Report, EndTurn, Lose, Cancel, vars
<1>2. Lost' \/ (UNCHANGED socket /\ (inbound' = inbound
        \/ \E n \in Notes : inbound' = Append(inbound, [id |-> 0, says |-> n])))
  BY DEF Initialized, Consume, WaitEnds, Unregister, Close, Fallback, Steer,
         SteerStops, Report, EndTurn, Lose, Cancel, vars, Notes, Ends, Lost
<1>3. \/ pc' = pc
      \/ \E g \in Goroutines, l \in Pcs \ {"write", "await"} : Goto(g, l)
  BY DEF Initialized, Consume, WaitEnds, Unregister, Close, Fallback, Steer,
         SteerStops, Report, EndTurn, Lose, Cancel, vars, Leave, Goroutines, Pcs
<1>4. \A g \in Goroutines : pc'[g] \in {"write", "await"} => pc'[g] = pc[g]
  BY <1>3 DEF Goto, RpcInv, TypeOK
<1>5. \A n \in Notes : [id |-> 0, says |-> n] \in Messages
  BY DEF Messages
<1>6. Lost' \/ \A k \in 1..Len(inbound) : k \in 1..Len(inbound') /\ inbound'[k] = inbound[k]
  BY <1>2, <1>5, SocketGrows
<1>7. Lost => Lost'
  BY <1>2 DEF Lost
<1>. QED
  BY <1>1, <1>4, <1>6, <1>7, CallsUntouched

LEMMA CallsStep == RpcInv /\ CallInv /\ [Next]_vars => CallInv'
<1> SUFFICES ASSUME RpcInv, CallInv, [Next]_vars PROVE CallInv'
  OBVIOUS
<1>1. ASSUME NEW g \in Goroutines, Request(g) PROVE CallInv'
  BY <1>1, CallsOpen, CallsWrite, CallsReturn DEF Request
<1>2. ASSUME NEW r \in Requests, Serve(r) PROVE CallInv'
  BY <1>2, CallsServe
<1>. QED
  BY <1>1, <1>2, CallsReader, CallsOther
     DEF Next, RunStep, SteerStep, AgentStep, Quiescent, Goroutines

(* The end of a turn that the run waits for is still to come, on its way,  *)
(* or was dropped; else the connection has ended.                          *)
EndOnItsWay ==
  \/ \E k \in 1..Len(events) : events[k] \in Ends
  \/ \E k \in 1..Len(inbound) : inbound[k].says \in Ends
  \/ dropped \cap Ends # {}
TurnsEnd == pc["run"] = "wait" => Lost \/ turn = "running" \/ EndOnItsWay

(* What TurnsEnd rests on: a run that waits has seen its turn/start        *)
(* accepted, so there is a turn, and its end is not taken before it.       *)
AskedAsIs == pc["run"] = "await" =>
  \A r \in wire : r.id = rid["run"] => r.method = stage
TurnBegun ==
  /\ pc["run"] = "wait" => turn # "none"
  /\ pc["run"] = "await" /\ stage = "turn" /\ answered[rid["run"]] = "ok" => turn # "none"
EndKept == turn \in Ends =>
  Lost \/ stage = "read" \/ pc["run"] \in Over \/ EndOnItsWay

EndInv == AskedAsIs /\ TurnBegun /\ EndKept

LEMMA TurnEnds == TypeOK /\ TurnInv /\ EndInv => TurnsEnd
  BY DEF TypeOK, TurnInv, TurnLater, EndInv, TurnBegun, EndKept, TurnsEnd, Ends, Over

(* A step that leaves the run where it is, and the turn.                   *)
LEMMA EndUntouched ==
  ASSUME EndInv, UNCHANGED <<stage, turn, answered>>,
         pc'["run"] = pc["run"], rid'["run"] = rid["run"],
         \A r \in wire' : r \in wire \/ r.id # rid["run"],
         Lost => Lost', EndOnItsWay => EndOnItsWay' \/ Lost'
  PROVE  EndInv'
<1>1. AskedAsIs'
  BY DEF EndInv, AskedAsIs
<1>2. TurnBegun'
  BY DEF EndInv, TurnBegun
<1>3. EndKept'
  BY DEF EndInv, EndKept
<1>. QED
  BY <1>1, <1>2, <1>3 DEF EndInv

(* A step of the run to a place where it waits for nothing.                *)
LEMMA EndMoves ==
  ASSUME EndInv, turn' = turn, pc'["run"] \notin {"wait", "await"},
         Lost => Lost',
         turn \in Ends =>
           /\ stage = "read" => stage' = "read"
           /\ pc["run"] \in Over => pc'["run"] \in Over
           /\ EndOnItsWay =>
                EndOnItsWay' \/ Lost' \/ stage' = "read" \/ pc'["run"] \in Over
  PROVE  EndInv'
<1>1. AskedAsIs' /\ TurnBegun'
  BY DEF AskedAsIs, TurnBegun
<1>2. EndKept'
  BY DEF EndInv, EndKept
<1>. QED
  BY <1>1, <1>2 DEF EndInv

LEMMA EndOpen ==
  ASSUME RpcInv, EndInv, NEW g \in Goroutines, Open(g)
  PROVE  EndInv'
<1> USE DEF remote, run, history
<1>0. /\ pc \in [Goroutines -> Pcs] /\ rid \in [Goroutines -> 0..MaxRequests]
      /\ "run" \in Goroutines
  BY DEF RpcInv, TypeOK, Goroutines
<1>1. /\ UNCHANGED <<wire, turn, stage, answered, socket, inbound, events, dropped>>
      /\ pc[g] = "open"
      /\ pc' = [pc EXCEPT ![g] = "write"] /\ rid' = [rid EXCEPT ![g] = nextID + 1]
  BY DEF Open, Goto
<1>2. (Lost <=> Lost') /\ (EndOnItsWay <=> EndOnItsWay')
  BY <1>1 DEF Lost, EndOnItsWay
<1>3. CASE g = "run"
  <2>1. pc["run"] = "open" /\ pc'["run"] = "write"
    BY <1>0, <1>1, <1>3
  <2>. QED
    BY <1>1, <1>2, <2>1, EndMoves DEF Over
<1>4. CASE g # "run"
  <2>1. pc'["run"] = pc["run"] /\ rid'["run"] = rid["run"]
    BY <1>0, <1>1, <1>4
  <2>. QED
    BY <1>1, <1>2, <2>1, EndUntouched
<1>. QED
  BY <1>3, <1>4

LEMMA EndWrite ==
  ASSUME RpcInv, EndInv, NEW g \in Goroutines, Write(g)
  PROVE  EndInv'
<1> USE DEF channels, run, history
<1> DEFINE q == [id |-> rid[g], method |-> IF g = "run" THEN stage ELSE "steer",
                 message |-> IF g = "run" THEN 0 ELSE steers]
<1>0. pc \in [Goroutines -> Pcs] /\ "run" \in Goroutines
  BY DEF RpcInv, TypeOK, Goroutines
<1>1. /\ UNCHANGED <<turn, stage, answered, socket, inbound, events, dropped, rid>>
      /\ pc[g] = "write" /\ pc' = [pc EXCEPT ![g] = "await"]
      /\ wire' = wire \cup {q} \/ wire' = wire
  BY DEF Write, Goto
<1>2. (Lost <=> Lost') /\ (EndOnItsWay <=> EndOnItsWay')
  BY <1>1 DEF Lost, EndOnItsWay
<1>3. q.id = rid[g] /\ (g = "run" => q.method = stage)
  OBVIOUS
<1> HIDE DEF q
<1>4. CASE g = "run"
  <2>1. /\ pc["run"] = "write" /\ pc'["run"] = "await"
        /\ answered[rid["run"]] = "none" /\ \A r \in wire : r.id # rid["run"]
    BY <1>0, <1>1, <1>4 DEF RpcInv, Writing
  <2>2. AskedAsIs'
    BY <1>1, <1>3, <1>4, <2>1 DEF AskedAsIs
  <2>3. TurnBegun'
    BY <1>1, <2>1 DEF TurnBegun
  <2>4. EndKept'
    BY <1>1, <1>2, <2>1 DEF EndInv, EndKept, Over
  <2>. QED
    BY <2>2, <2>3, <2>4 DEF EndInv
<1>5. CASE g # "run"
  <2>1. pc'["run"] = pc["run"] /\ q.id # rid["run"]
    BY <1>0, <1>1, <1>3, <1>5, CallNumber
  <2>. QED
    BY <1>1, <1>2, <2>1, EndUntouched
<1>. QED
  BY <1>4, <1>5

LEMMA EndReturns ==
  ASSUME RpcInv, TurnInv, EndInv, NEW g \in Goroutines,
         WriteFails(g) \/ TakeReply(g) \/ SeeDone(g) \/ GiveUp(g)
  PROVE  EndInv'
<1> USE DEF remote, channels
<1>0. TypeOK /\ "run" \in Goroutines /\ pc \in [Goroutines -> Pcs]
      /\ (g = "run" \/ g = "steer")
  BY DEF RpcInv, TypeOK, Goroutines
<1>1. UNCHANGED <<wire, turn, answered, socket, inbound, events, dropped, rid>>
  BY DEF WriteFails, TakeReply, SeeDone, GiveUp
<1>2. PICK o \in Answers \cup Failures :
        /\ pc[g] \in {"write", "await"}
        /\ Returns(g, o)
        /\ o \in Failures \/ o = answered[rid[g]]
        /\ pc[g] = "write" => o = "write"
  BY RequestEffect
<1>3. (Lost <=> Lost') /\ (EndOnItsWay <=> EndOnItsWay')
  BY <1>1 DEF Lost, EndOnItsWay
<1>4. CASE g = "steer"
  <2>1. SteerGets(o) /\ UNCHANGED run
    BY <1>2, <1>4 DEF Returns
  <2>2. pc'["run"] = pc["run"] /\ stage' = stage
    BY <1>0, <2>1, SteerGetsType DEF run
  <2>. QED
    BY <1>1, <1>3, <2>2, EndUntouched
<1>5. CASE g = "run"
  <2>1. RunGets(o)
    BY <1>2, <1>5 DEF Returns
  <2>2. pc["run"] \in {"write", "await"}
    BY <1>2, <1>5
  <2>3. CASE (\E x : Leave(x)) /\ stage' = stage
    <3>1. pc'["run"] \in Over
      BY <1>0, <2>3, LeaveOver
    <3>. QED
      BY <1>1, <1>3, <2>2, <2>3, <3>1, EndMoves DEF Over
  <2>4. CASE stage = "initialize" /\ Goto("run", "notify") /\ stage' = stage
    <3>1. pc'["run"] = "notify"
      BY <1>0, <2>4 DEF Goto
    <3>. QED
      BY <1>1, <1>3, <2>2, <2>4, <3>1, EndMoves DEF Over
  <2>5. CASE stage = "thread" /\ Goto("run", "open") /\ stage' = "turn"
    <3>1. pc'["run"] = "open"
      BY <1>0, <2>5 DEF Goto
    <3>. QED
      BY <1>1, <1>3, <2>2, <2>5, <3>1, EndMoves DEF Over
  <2>6. CASE stage = "turn" /\ o = "ok" /\ Goto("run", "wait") /\ stage' = stage
    <3>1. pc'["run"] = "wait"
      BY <1>0, <2>6 DEF Goto
    <3>2. o = answered[rid["run"]] /\ pc["run"] = "await"
      BY <1>2, <1>5, <2>6 DEF Failures
    <3>3. turn # "none"
      BY <2>6, <3>2 DEF EndInv, TurnBegun
    <3>4. AskedAsIs' /\ TurnBegun'
      BY <1>1, <3>1, <3>3 DEF AskedAsIs, TurnBegun
    <3>5. EndKept'
      BY <1>1, <1>3, <2>2, <2>6 DEF EndInv, EndKept, Over
    <3>. QED
      BY <3>4, <3>5 DEF EndInv
  <2>. QED
    BY <2>1, <2>3, <2>4, <2>5, <2>6 DEF RunGets, LatestReply, run, Leave
<1>. QED
  BY <1>0, <1>4, <1>5

LEMMA EndServe ==
  ASSUME RpcInv, EndInv, TurnInv, NEW r \in Requests, Serve(r)
  PROVE  EndInv'
<1>0. /\ inbound \in Seq(Messages) /\ r.id \in Ids
      /\ answered \in [Ids -> Answers \cup {"none"}]
  BY DEF RpcInv, TypeOK, Requests
<1>1. PICK a \in Answers :
        /\ answered' = [answered EXCEPT ![r.id] = a]
        /\ \A k \in 1..Len(inbound) : k \in 1..Len(inbound') /\ inbound'[k] = inbound[k]
        /\ turn' = turn \/ turn' = "running"
        /\ r.method = "turn" /\ a = "ok" => turn' = "running"
  BY ServeEffect
<1>2. /\ r \in wire /\ wire' = wire \ {r}
      /\ UNCHANGED <<socket, events, dropped, stage, pc, rid>>
  BY DEF Serve, channels, run
<1>3. EndOnItsWay => EndOnItsWay'
  BY <1>1, <1>2 DEF EndOnItsWay
<1>4. AskedAsIs'
  BY <1>2 DEF EndInv, AskedAsIs
<1>5. TurnBegun'
  <2>1. turn # "none" => turn' # "none"
    BY <1>1
  <2>2. ASSUME pc["run"] = "await", stage = "turn", answered'[rid["run"]] = "ok"
        PROVE  turn' # "none"
    <3>1. rid["run"] \in Ids
      BY <2>2, CallNumber DEF Goroutines
    <3>2. CASE rid["run"] = r.id
      <4>1. a = "ok" /\ r.method = "turn"
        BY <1>0, <1>1, <1>2, <2>2, <3>2 DEF EndInv, AskedAsIs
      <4>. QED
        BY <1>1, <4>1
    <3>3. CASE rid["run"] # r.id
      <4>1. answered[rid["run"]] = "ok"
        BY <1>0, <1>1, <2>2, <3>1, <3>3
      <4>. QED
        BY <2>1, <2>2, <4>1 DEF EndInv, TurnBegun
    <3>. QED
      BY <3>2, <3>3
  <2>. QED
    BY <1>2, <2>1, <2>2 DEF EndInv, TurnBegun
<1>6. EndKept'
  BY <1>1, <1>2, <1>3 DEF EndInv, EndKept, Ends, Lost
<1>. QED
  BY <1>4, <1>5, <1>6 DEF EndInv

(* The reader passes the end of the turn on.                               *)
LEMMA EndReader ==
  ASSUME RpcInv, EndInv, ReaderStep
  PROVE  EndInv'
<1> USE DEF remote, run, history
<1>0. /\ inbound \in Seq(Messages) /\ events \in Seq(Notes)
      /\ Answers \cap Ends = {}
  BY Kinds DEF Answers, Ends
<1>1. UNCHANGED <<stage, turn, answered, pc, rid, wire, socket>>
  BY DEF ReaderStep, ReadReply, ReadNote, ReadFails, CloseDone
<1>2. ASSUME inbound # <<>>, inbound' = Tail(inbound),
             NEW k \in 1..Len(inbound), k # 1
      PROVE  k - 1 \in 1..Len(inbound') /\ inbound'[k - 1] = inbound[k]
  BY <1>0, <1>2
<1>3. CASE ReadReply
  <2>1. /\ inbound # <<>> /\ inbound' = Tail(inbound) /\ UNCHANGED <<events, dropped>>
        /\ inbound[1].id # 0 /\ 1 \in 1..Len(inbound)
    BY <1>0, <1>3 DEF ReadReply
  <2>2. inbound[1] \in Messages
    BY <1>0, <2>1
  <2>3. inbound[1].says \notin Ends
    BY <1>0, <2>1, <2>2 DEF Messages
  <2>4. EndOnItsWay => EndOnItsWay'
    BY <1>2, <2>1, <2>3 DEF EndOnItsWay
  <2>. QED
    BY <1>1, <2>4, EndUntouched DEF Lost
<1>4. CASE ReadNote
  <2>1. /\ inbound # <<>> /\ inbound' = Tail(inbound) /\ 1 \in 1..Len(inbound)
        /\ Head(inbound) = inbound[1] /\ inbound[1].id = 0
        /\ \/ events' = Append(events, inbound[1].says) /\ dropped' = dropped
           \/ dropped' = dropped \cup {inbound[1].says} /\ events' = events
    BY <1>0, <1>4 DEF ReadNote
  <2>2. inbound[1] \in Messages
    BY <1>0, <2>1
  <2>3. inbound[1].says \in Notes
    BY <2>1, <2>2 DEF Messages, Ids
  <2>4. CASE events' = Append(events, inbound[1].says) /\ dropped' = dropped
    <3>1. /\ \A k \in 1..Len(events) : k \in 1..Len(events') /\ events'[k] = events[k]
          /\ Len(events) + 1 \in 1..Len(events')
          /\ events'[Len(events) + 1] = inbound[1].says
      BY <1>0, <2>3, <2>4
    <3>2. EndOnItsWay => EndOnItsWay'
      BY <1>2, <2>1, <2>4, <3>1 DEF EndOnItsWay
    <3>. QED
      BY <1>1, <3>2, EndUntouched DEF Lost
  <2>5. CASE dropped' = dropped \cup {inbound[1].says} /\ events' = events
    <3>2. EndOnItsWay => EndOnItsWay'
      BY <1>2, <2>1, <2>5 DEF EndOnItsWay
    <3>. QED
      BY <1>1, <3>2, EndUntouched DEF Lost
  <2>. QED
    BY <2>1, <2>4, <2>5
<1>5. CASE ReadFails \/ CloseDone
  <2>1. UNCHANGED <<events, inbound, dropped>>
    BY <1>5 DEF ReadFails, CloseDone
  <2>. QED
    BY <1>1, <2>1, EndUntouched DEF Lost, EndOnItsWay
<1>. QED
  BY <1>3, <1>4, <1>5 DEF ReaderStep

(* The run acts on the next notification, the end of the turn or another.  *)
LEMMA EndConsume ==
  ASSUME RpcInv, TurnInv, EndInv, Consume
  PROVE  EndInv'
<1> USE DEF remote, history
<1>0. /\ events \in Seq(Notes) /\ events # <<>> /\ TypeOK
      /\ pc \in [Goroutines -> Pcs] /\ "run" \in Goroutines
  BY Kinds DEF Consume
<1>1. /\ UNCHANGED <<turn, answered, rid, wire, socket, inbound, dropped>>
      /\ events' = Tail(events) /\ pc["run"] = "wait" /\ stage = "turn"
  BY DEF Consume, TurnInv, TurnLater
<1>2. CASE Head(events) \in {"status", "delta"} /\ UNCHANGED <<pc, stage>>
  <2>1. \A k \in 1..Len(events) :
          events[k] \in Ends => k - 1 \in 1..Len(events') /\ events'[k - 1] = events[k]
    BY <1>0, <1>1, <1>2 DEF Ends
  <2>2. EndOnItsWay => EndOnItsWay'
    BY <1>1, <2>1 DEF EndOnItsWay
  <2>. QED
    BY <1>1, <1>2, <2>2, EndUntouched DEF Lost
<1>3. ASSUME NEW o, Leave(o) PROVE EndInv'
  <2>1. pc'["run"] \in Over
    BY <1>0, <1>3, LeaveOver
  <2>. QED
    BY <1>1, <2>1, EndMoves DEF Over, Lost
<1>4. CASE stage' = "read" /\ Goto("run", "open")
  <2>1. pc'["run"] = "open"
    BY <1>0, <1>4 DEF Goto
  <2>. QED
    BY <1>1, <1>4, <2>1, EndMoves DEF Over, Lost
<1>. QED
  BY <1>2, <1>3, <1>4 DEF Consume, run

LEMMA EndRun ==
  ASSUME RpcInv, TurnInv, EndInv,
         Initialized \/ WaitEnds \/ Unregister \/ Close \/ Fallback
  PROVE  EndInv'
<1> USE DEF remote, channels, run, history
<1>0. TypeOK /\ "run" \in Goroutines /\ pc \in [Goroutines -> Pcs]
  BY DEF RpcInv, TypeOK, Goroutines
<1>1. UNCHANGED <<turn, events, dropped>>
      /\ (Lost' \/ UNCHANGED <<socket, inbound>>)
  BY DEF Initialized, WaitEnds, Unregister, Close, Fallback, Lost
<1>2. (Lost => Lost') /\ (EndOnItsWay => EndOnItsWay' \/ Lost')
  BY <1>1 DEF Lost, EndOnItsWay
<1>3. ASSUME NEW o, Leave(o), pc["run"] \notin Over PROVE EndInv'
  <2>1. pc'["run"] \in Over /\ stage' = stage
    BY <1>0, <1>3, LeaveOver
  <2>. QED
    BY <1>1, <1>2, <2>1, EndMoves DEF Over
<1>4. CASE Initialized
  <2>1. pc["run"] = "notify" /\ turn = "none" /\ stage = "initialize"
    BY <1>4 DEF Initialized, TurnInv, TurnLater
  <2>2. CASE stage' = "thread" /\ Goto("run", "open")
    <3>1. pc'["run"] = "open"
      BY <1>0, <2>2 DEF Goto
    <3>. QED
      BY <1>1, <1>2, <2>1, <3>1, EndMoves DEF Ends
  <2>. QED
    BY <1>3, <1>4, <2>1, <2>2 DEF Initialized, Over
<1>5. CASE WaitEnds
  BY <1>3, <1>5 DEF WaitEnds, Over
<1>6. CASE Unregister \/ Close \/ Fallback
  <2>1. stage' = stage /\ \E l \in {"close", "fallback", "returned"} : Goto("run", l)
    BY <1>6 DEF Unregister, Close, Fallback
  <2>2. pc'["run"] \in Over
    BY <1>0, <2>1 DEF Goto, Over
  <2>. QED
    BY <1>1, <1>2, <2>1, <2>2, EndMoves DEF Over
<1>. QED
  BY <1>4, <1>5, <1>6

LEMMA EndRest ==
  ASSUME RpcInv, EndInv,
         \/ Report \/ EndTurn \/ Lose \/ Cancel \/ Steer \/ SteerStops \/ UNCHANGED vars
  PROVE  EndInv'
<1> USE DEF remote, channels, run, steering, history
<1>0. inbound \in Seq(Messages)
  BY Kinds
<1>1. CASE EndTurn
  <2> DEFINE note == [id |-> 0, says |-> turn']
  <2>1. /\ UNCHANGED <<wire, stage, pc, rid, answered, socket, events, dropped>>
        /\ turn' \in Ends /\ inbound' = Append(inbound, note) /\ note.says = turn'
    BY <1>1 DEF EndTurn, Ends
  <2>2. note \in Messages
    BY <2>1 DEF Messages, Notes, Ends
  <2> HIDE DEF note
  <2>3. Len(inbound) + 1 \in 1..Len(inbound') /\ inbound'[Len(inbound) + 1] = note
    BY <1>0, <2>1, <2>2
  <2>4. EndOnItsWay'
    BY <2>1, <2>3 DEF EndOnItsWay
  <2>5. AskedAsIs'
    BY <2>1 DEF EndInv, AskedAsIs
  <2>6. TurnBegun'
    BY <2>1 DEF TurnBegun, Ends
  <2>. QED
    BY <2>4, <2>5, <2>6 DEF EndInv, EndKept
<1>2. CASE Report
  <2> DEFINE note == [id |-> 0, says |-> "delta"]
  <2>1. /\ UNCHANGED <<wire, stage, pc, rid, turn, answered, socket, events, dropped>>
        /\ inbound' = Append(inbound, note) /\ note \in Messages
    BY <1>2 DEF Report, Messages, Notes
  <2> HIDE DEF note
  <2>2. \A k \in 1..Len(inbound) : k \in 1..Len(inbound') /\ inbound'[k] = inbound[k]
    BY <1>0, <2>1
  <2>3. EndOnItsWay => EndOnItsWay'
    BY <2>1, <2>2 DEF EndOnItsWay
  <2>. QED
    BY <2>1, <2>3, EndUntouched DEF Lost
<1>3. CASE Lose
  <2>1. UNCHANGED <<wire, stage, pc, rid, turn, answered>> /\ Lost'
    BY <1>3 DEF Lose, Lost
  <2>. QED
    BY <2>1, EndUntouched
<1>4. CASE Steer \/ SteerStops
  <2>1. UNCHANGED <<wire, stage, rid, turn, answered, socket, events, inbound, dropped>>
        /\ \E l : Goto("steer", l)
    BY <1>4 DEF Steer, SteerStops
  <2>2. pc'["run"] = pc["run"]
    BY <2>1 DEF Goto, RpcInv, TypeOK, Goroutines
  <2>. QED
    BY <2>1, <2>2, EndUntouched DEF Lost, EndOnItsWay
<1>5. CASE Cancel \/ UNCHANGED vars
  <2>1. UNCHANGED <<wire, stage, pc, rid, turn, answered, socket, events, inbound, dropped>>
    BY <1>5 DEF Cancel, vars
  <2>. QED
    BY <2>1, EndUntouched DEF Lost, EndOnItsWay
<1>. QED
  BY <1>1, <1>2, <1>3, <1>4, <1>5

LEMMA EndStep == RpcInv /\ TurnInv /\ EndInv /\ [Next]_vars => EndInv'
<1> SUFFICES ASSUME RpcInv, TurnInv, EndInv, [Next]_vars PROVE EndInv'
  OBVIOUS
<1>1. ASSUME NEW g \in Goroutines, Request(g) PROVE EndInv'
  BY <1>1, EndOpen, EndWrite, EndReturns DEF Request
<1>2. ASSUME NEW r \in Requests, Serve(r) PROVE EndInv'
  BY <1>2, EndServe
<1>. QED
  BY <1>1, <1>2, EndReader, EndConsume, EndRun, EndRest
     DEF Next, RunStep, SteerStep, AgentStep, Quiescent, Goroutines

LEMMA EndInit == Init => EndInv
  BY DEF Init, EndInv, AskedAsIs, TurnBegun, EndKept, Ends, Goroutines

(* The requests there can be are enough: each goroutine has made no more   *)
(* than its place allows.                                                  *)
RunMade ==
  LET n == CASE stage = "initialize" -> 1 [] stage = "thread" -> 2
             [] stage = "turn" -> 3 [] stage = "read" -> 4
  IN  IF pc["run"] = "open" THEN n - 1 ELSE n
SteerMade ==
  IF steers = 0 THEN 0
  ELSE (steers - 1) * MaxAttempts + (IF pc["steer"] = "open" THEN attempt - 1 ELSE attempt)
RoomForMore ==
  /\ nextID <= RunMade + SteerMade
  /\ steers # 0 => attempt # 0
  /\ pc["steer"] # "idle" => steers # 0

(* A session of more messages, or more attempts, has room for more.        *)
LEMMA MoreRoom ==
  ASSUME NEW s \in Nat, NEW t \in Nat, NEW m \in Nat, s <= t
  PROVE  s * m \in Nat /\ s * m <= t * m
<1>1. t - s \in Nat /\ (t - s) * m \in Nat
  OBVIOUS
<1>2. t * m = s * m + (t - s) * m
  OBVIOUS
<1>. QED
  BY <1>1, <1>2

LEMMA SessionSize ==
  /\ MaxRequests \in Nat /\ MaxSteers \in Nat /\ MaxDeltas \in Nat
  /\ MaxAttempts \in Nat /\ MaxAttempts # 0
<1>1. MaxSteers * MaxAttempts \in Nat
  BY SessionAssumption, MoreRoom
<1>. QED
  BY <1>1, SessionAssumption DEF MaxRequests

RoomTyped ==
  /\ stage \in Stages /\ nextID \in Nat /\ steers \in Nat /\ attempt \in Nat
  /\ attempt <= MaxAttempts /\ steers <= MaxSteers
  /\ MaxSteers \in Nat /\ MaxAttempts \in Nat /\ MaxAttempts # 0
  /\ RunMade \in 0..4 /\ SteerMade \in Int

LEMMA RoomTypes == TypeOK => RoomTyped
<1> SUFFICES ASSUME TypeOK PROVE RoomTyped
  OBVIOUS
<1>1. /\ stage \in Stages /\ nextID \in Nat /\ steers \in Nat /\ attempt \in Nat
      /\ attempt <= MaxAttempts /\ steers <= MaxSteers
      /\ MaxSteers \in Nat /\ MaxAttempts \in Nat /\ MaxAttempts # 0
  BY SessionSize DEF TypeOK
<1>2. RunMade \in 0..4
  BY <1>1 DEF RunMade, Stages
<1>3. SteerMade \in Int
  <2>1. (steers - 1) * MaxAttempts \in Int
    BY <1>1
  <2>2. (IF pc["steer"] = "open" THEN attempt - 1 ELSE attempt) \in Int
    BY <1>1
  <2>. QED
    BY <2>1, <2>2 DEF SteerMade
<1>. QED
  BY <1>1, <1>2, <1>3 DEF RoomTyped

(* The requests the steering has made, for the message it is at.           *)
LEMMA SteersSoFar ==
  ASSUME TypeOK, RoomForMore, steers # 0
  PROVE  /\ (steers - 1) * MaxAttempts \in Nat
         /\ SteerMade = (steers - 1) * MaxAttempts
                        + (IF pc["steer"] = "open" THEN attempt - 1 ELSE attempt)
         /\ SteerMade <= steers * MaxAttempts
         /\ pc["steer"] = "open" => SteerMade < steers * MaxAttempts
<1> DEFINE p == (steers - 1) * MaxAttempts
<1>0. /\ steers - 1 \in Nat /\ MaxAttempts \in Nat /\ attempt \in Nat
      /\ attempt <= MaxAttempts /\ attempt # 0
  BY RoomTypes DEF RoomForMore, RoomTyped
<1>1. p \in Nat
  BY <1>0, MoreRoom
<1>2. steers * MaxAttempts = p + MaxAttempts
  BY RoomTypes DEF RoomTyped
<1>3. SteerMade = p + (IF pc["steer"] = "open" THEN attempt - 1 ELSE attempt)
  BY DEF SteerMade
<1> HIDE DEF p
<1>4. /\ SteerMade <= p + MaxAttempts
      /\ pc["steer"] = "open" => SteerMade < p + MaxAttempts
  BY <1>0, <1>1, <1>3
<1>. QED
  BY <1>1, <1>2, <1>3, <1>4 DEF p

(* A goroutine about to make a request has a number for it.                *)
RoomToOpen == \A g \in Goroutines : pc[g] = "open" => nextID < MaxRequests

LEMMA RoomEnough == TypeOK /\ RoomForMore => RoomToOpen
<1> SUFFICES ASSUME TypeOK, RoomForMore, NEW g \in Goroutines, pc[g] = "open"
             PROVE  nextID < MaxRequests
  BY DEF RoomToOpen
<1>1. /\ nextID \in Nat /\ RunMade \in 0..4 /\ SteerMade \in Int
      /\ steers \in Nat /\ MaxSteers \in Nat /\ MaxAttempts \in Nat
      /\ nextID <= RunMade + SteerMade
  BY RoomTypes DEF RoomForMore, RoomTyped
<1>2. steers * MaxAttempts \in Nat /\ steers * MaxAttempts <= MaxSteers * MaxAttempts
      /\ MaxSteers * MaxAttempts \in Nat
  BY MoreRoom, RoomTypes DEF RoomTyped
<1>3. SteerMade <= steers * MaxAttempts
  <2>1. CASE steers = 0
    BY <1>2, <2>1 DEF SteerMade
  <2>. QED
    BY <2>1, SteersSoFar
<1>4. CASE g = "run"
  <2>1. RunMade <= 3
    BY <1>4, RoomTypes DEF RoomTyped, RunMade, Stages
  <2>. QED
    BY <1>1, <1>2, <1>3, <2>1 DEF MaxRequests
<1>5. CASE g = "steer"
  <2>1. steers # 0
    BY <1>5 DEF RoomForMore
  <2>2. SteerMade < steers * MaxAttempts
    BY <1>5, <2>1, SteersSoFar
  <2>. QED
    BY <1>1, <1>2, <2>2 DEF MaxRequests
<1>. QED
  BY <1>4, <1>5 DEF Goroutines

(* A step that makes no request, and takes nobody further than it allows.  *)
LEMMA RoomKept ==
  ASSUME TypeOK, TypeOK', RoomForMore, nextID' = nextID,
         RunMade <= RunMade', SteerMade <= SteerMade',
         steers' # 0 => attempt' # 0,
         pc'["steer"] # "idle" => steers' # 0
  PROVE  RoomForMore'
<1>0. TypeOK' => RoomTyped'
  BY RoomTypes, PTL
<1>1. /\ RunMade \in Int /\ SteerMade \in Int /\ nextID \in Int
      /\ RunMade' \in Int /\ SteerMade' \in Int
  BY RoomTypes, <1>0 DEF RoomTyped
<1>2. \A n, a, b, c, d \in Int : n <= a + b /\ a <= c /\ b <= d => n <= c + d
  OBVIOUS
<1>3. nextID <= RunMade' + SteerMade'
  BY <1>1, <1>2 DEF RoomForMore
<1>. QED
  BY <1>3 DEF RoomForMore

LEMMA RoomOpen ==
  ASSUME TypeOK, TypeOK', RoomForMore, NEW g \in Goroutines, Open(g)
  PROVE  RoomForMore'
<1> USE DEF run, steering
<1>0. /\ pc \in [Goroutines -> Pcs] /\ "run" \in Goroutines /\ "steer" \in Goroutines
      /\ g = "run" \/ g = "steer"
      /\ RoomTyped
  BY RoomTypes DEF TypeOK, Goroutines
<1>1. /\ UNCHANGED <<stage, steers, attempt>> /\ nextID' = nextID + 1
      /\ pc[g] = "open" /\ pc' = [pc EXCEPT ![g] = "write"]
  BY DEF Open, Goto
<1>2. steers' # 0 => attempt' # 0
  BY <1>1 DEF RoomForMore
<1>3. CASE g = "run"
  <2>1. pc["run"] = "open" /\ pc'["run"] = "write" /\ pc'["steer"] = pc["steer"]
    BY <1>0, <1>1, <1>3
  <2>2. RunMade' = RunMade + 1
    BY <1>0, <1>1, <2>1 DEF RunMade, RoomTyped, Stages
  <2>3. SteerMade' = SteerMade
    BY <1>1, <2>1 DEF SteerMade
  <2>4. nextID' <= RunMade' + SteerMade'
    BY <1>0, <1>1, <2>2, <2>3 DEF RoomForMore, RoomTyped
  <2>. QED
    BY <1>1, <1>2, <2>1, <2>4 DEF RoomForMore
<1>4. CASE g = "steer"
  <2>1. /\ pc["steer"] = "open" /\ pc'["steer"] = "write" /\ pc'["run"] = pc["run"]
        /\ steers # 0
    BY <1>0, <1>1, <1>4 DEF RoomForMore
  <2>2. RunMade' = RunMade
    BY <1>0, <1>1, <2>1 DEF RunMade, RoomTyped, Stages
  <2>3. SteerMade' = (steers - 1) * MaxAttempts + attempt
    BY <1>1, <2>1 DEF SteerMade
  <2>4. SteerMade = (steers - 1) * MaxAttempts + (attempt - 1)
    BY <2>1 DEF SteerMade
  <2>5. (steers - 1) * MaxAttempts \in Int
    BY <1>0 DEF RoomTyped
  <2>6. SteerMade' = SteerMade + 1
    BY <1>0, <2>3, <2>4, <2>5 DEF RoomTyped
  <2>7. nextID' <= RunMade' + SteerMade'
    BY <1>0, <1>1, <2>2, <2>6 DEF RoomForMore, RoomTyped
  <2>. QED
    BY <1>1, <1>2, <2>1, <2>7 DEF RoomForMore
<1>. QED
  BY <1>0, <1>3, <1>4

(* The end of a request: the run gets to its next, the steering to its     *)
(* next attempt.                                                           *)
LEMMA RoomReturns ==
  ASSUME RpcInv, TypeOK', RoomForMore, NEW g \in Goroutines,
         WriteFails(g) \/ TakeReply(g) \/ SeeDone(g) \/ GiveUp(g)
  PROVE  RoomForMore'
<1> USE DEF remote, channels
<1>0. /\ TypeOK /\ pc \in [Goroutines -> Pcs] /\ "run" \in Goroutines
      /\ "steer" \in Goroutines /\ (g = "run" \/ g = "steer") /\ RoomTyped
  BY RoomTypes DEF RpcInv, TypeOK, Goroutines
<1>1. nextID' = nextID
  BY DEF WriteFails, TakeReply, SeeDone, GiveUp
<1>2. PICK o \in Answers \cup Failures : pc[g] \in {"write", "await"} /\ Returns(g, o)
  BY RequestEffect
<1>3. CASE g = "steer"
  <2>1. SteerGets(o) /\ stage' = stage /\ pc["steer"] # "open" /\ steers # 0
    BY <1>2, <1>3 DEF Returns, run, RoomForMore
  <2>2. steers' = steers /\ pc'["run"] = pc["run"]
    BY <1>0, <2>1, SteerGetsType
  <2>3. RunMade' = RunMade
    BY <1>0, <2>1, <2>2 DEF RunMade, RoomTyped, Stages
  <2>4. \/ pc'["steer"] = "idle" /\ attempt' = attempt
        \/ pc'["steer"] = "open" /\ attempt' = attempt + 1
    BY <1>0, <2>1 DEF SteerGets, steering, Goto
  <2>5. attempt' # 0 /\ SteerMade' = SteerMade
    <3>1. SteerMade = (steers - 1) * MaxAttempts + attempt
      BY <2>1 DEF SteerMade
    <3>2. /\ attempt' # 0
          /\ attempt = IF pc'["steer"] = "open" THEN attempt' - 1 ELSE attempt'
      BY <1>0, <2>1, <2>4 DEF RoomTyped, RoomForMore
    <3>3. SteerMade' = (steers - 1) * MaxAttempts + attempt
      BY <2>1, <2>2, <3>2 DEF SteerMade
    <3>. QED
      BY <3>1, <3>2, <3>3
  <2>. QED
    BY <1>0, <1>1, <2>1, <2>2, <2>3, <2>5, RoomKept DEF RoomTyped
<1>4. CASE g = "run"
  <2>1. RunGets(o) /\ UNCHANGED steering /\ pc["run"] # "open"
    BY <1>2, <1>4 DEF Returns
  <2>2. pc'["steer"] = pc["steer"]
    BY <1>0, <2>1, RunGetsType
  <2>3. SteerMade' = SteerMade
    BY <2>1, <2>2 DEF SteerMade, steering
  <2>4. \/ stage' = stage /\ pc'["run"] # "open"
        \/ stage = "thread" /\ stage' = "turn"
    BY <1>0, <2>1 DEF RunGets, LatestReply, Leave, Goto, run
  <2>5. RunMade <= RunMade'
    BY <1>0, <2>1, <2>4 DEF RunMade, RoomTyped, Stages
  <2>. QED
    BY <1>0, <1>1, <2>1, <2>2, <2>3, <2>5, RoomKept DEF RoomTyped, RoomForMore, steering
<1>. QED
  BY <1>0, <1>3, <1>4

(* The next message, if the session can be looked up; or the context ends  *)
(* the attempts.                                                           *)
LEMMA RoomSteer ==
  ASSUME TypeOK, TypeOK', RoomForMore, Steer \/ SteerStops
  PROVE  RoomForMore'
<1> USE DEF channels, run
<1>0. pc \in [Goroutines -> Pcs] /\ "steer" \in Goroutines /\ RoomTyped
  BY RoomTypes DEF TypeOK, Goroutines
<1>1. /\ UNCHANGED <<nextID, stage>>
      /\ \E l \in {"open", "idle"} : Goto("steer", l)
  BY DEF Steer, SteerStops
<1>2. pc'["run"] = pc["run"]
  BY <1>0, <1>1 DEF Goto, Goroutines
<1>3. RunMade' = RunMade
  BY <1>1, <1>2 DEF RunMade
<1>4. CASE Steer
  <2>1. steers' = steers + 1 /\ attempt' = 1
    BY <1>4 DEF Steer
  <2>2. steers' # 0 /\ steers' - 1 = steers
    BY <1>0, <2>1 DEF RoomTyped
  <2>3. SteerMade <= steers * MaxAttempts /\ steers * MaxAttempts \in Nat
    <3>1. CASE steers = 0
      <4>1. steers * MaxAttempts = 0 /\ SteerMade = 0
        BY <1>0, <3>1 DEF RoomTyped, SteerMade
      <4>. QED
        BY <4>1
    <3>2. CASE steers # 0
      BY <1>0, <3>2, SteersSoFar, MoreRoom DEF RoomTyped
    <3>. QED
      BY <3>1, <3>2
  <2>4. SteerMade' = steers * MaxAttempts + (IF pc'["steer"] = "open" THEN 0 ELSE 1)
    BY <2>1, <2>2 DEF SteerMade
  <2>5. SteerMade <= SteerMade'
    BY <1>0, <2>3, <2>4 DEF RoomTyped
  <2>. QED
    BY <1>0, <1>1, <1>3, <2>1, <2>2, <2>5, RoomKept DEF RoomTyped
<1>5. CASE SteerStops
  <2>1. /\ UNCHANGED <<steers, attempt>> /\ pc["steer"] = "open"
        /\ Goto("steer", "idle")
    BY <1>5 DEF SteerStops, steering
  <2>2. pc'["steer"] = "idle" /\ steers # 0
    BY <1>0, <2>1 DEF Goto, RoomForMore
  <2>3. /\ SteerMade = (steers - 1) * MaxAttempts + (attempt - 1)
        /\ SteerMade' = (steers - 1) * MaxAttempts + attempt
    BY <2>1, <2>2 DEF SteerMade
  <2>4. (steers - 1) * MaxAttempts \in Int
    BY <1>0 DEF RoomTyped
  <2>5. SteerMade <= SteerMade'
    BY <1>0, <2>3, <2>4 DEF RoomTyped
  <2>. QED
    BY <1>0, <1>1, <1>3, <2>1, <2>2, <2>5, RoomKept DEF RoomTyped, RoomForMore
<1>. QED
  BY <1>4, <1>5

LEMMA RoomRest ==
  ASSUME TypeOK, TypeOK', TurnInv, RoomForMore,
         \/ \E g \in Goroutines : Write(g)
         \/ Initialized \/ Consume \/ WaitEnds \/ Unregister \/ Close \/ Fallback
         \/ ReaderStep \/ AgentStep \/ Lose \/ Cancel \/ UNCHANGED vars
  PROVE  RoomForMore'
<1> USE DEF remote, channels, run, steering, history
<1>0. pc \in [Goroutines -> Pcs] /\ "run" \in Goroutines /\ RoomTyped
  BY RoomTypes DEF TypeOK, Goroutines
<1>1. UNCHANGED <<nextID, steers, attempt>>
  BY DEF Write, Initialized, Consume, WaitEnds, Unregister, Close, Fallback, ReaderStep,
         ReadReply, ReadNote, ReadFails, CloseDone, AgentStep, Serve, Report, EndTurn,
         Lose, Cancel, vars
<1>2. ASSUME RunMade <= RunMade', pc'["steer"] = "open" <=> pc["steer"] = "open",
             pc'["steer"] # "idle" => pc["steer"] # "idle"
      PROVE  RoomForMore'
  <2>1. SteerMade' = SteerMade
    BY <1>1, <1>2 DEF SteerMade
  <2>. QED
    BY <1>0, <1>1, <1>2, <2>1, RoomKept DEF RoomTyped, RoomForMore
<1>3. ASSUME NEW o, Leave(o), pc["run"] # "open" PROVE RoomForMore'
  <2>1. pc'["run"] \in Over /\ stage' = stage /\ pc'["steer"] = pc["steer"]
    BY <1>0, <1>3, LeaveOver DEF Leave, Goto
  <2>2. RunMade <= RunMade'
    BY <1>0, <1>3, <2>1 DEF RunMade, RoomTyped, Stages, Over
  <2>. QED
    BY <1>2, <2>1, <2>2
<1>4. ASSUME NEW g \in Goroutines, Write(g) PROVE RoomForMore'
  <2>1. /\ pc[g] = "write" /\ pc' = [pc EXCEPT ![g] = "await"] /\ stage' = stage
    BY <1>4 DEF Write, Goto
  <2>2. RunMade' = RunMade
    BY <1>0, <2>1 DEF RunMade, RoomTyped, Stages, Goroutines
  <2>3. RunMade <= RunMade'
    BY <1>0, <2>2 DEF RoomTyped
  <2>. QED
    BY <1>0, <1>2, <2>1, <2>3
<1>5. CASE Initialized
  <2>1. pc["run"] = "notify" /\ stage = "initialize"
    BY <1>5 DEF Initialized, TurnInv, TurnLater
  <2>2. CASE stage' = "thread" /\ Goto("run", "open")
    <3>1. pc'["run"] = "open" /\ pc'["steer"] = pc["steer"]
      BY <1>0, <2>2 DEF Goto
    <3>2. RunMade <= RunMade'
      BY <2>1, <2>2, <3>1 DEF RunMade
    <3>. QED
      BY <1>2, <3>1, <3>2
  <2>. QED
    BY <1>3, <1>5, <2>1, <2>2 DEF Initialized
<1>6. CASE Consume
  <2>1. pc["run"] = "wait" /\ stage = "turn"
    BY <1>6 DEF Consume, TurnInv, TurnLater
  <2>2. CASE stage' = "read" /\ Goto("run", "open")
    <3>1. pc'["run"] = "open" /\ pc'["steer"] = pc["steer"]
      BY <1>0, <2>2 DEF Goto
    <3>2. RunMade <= RunMade'
      BY <2>1, <2>2, <3>1 DEF RunMade
    <3>. QED
      BY <1>2, <3>1, <3>2
  <2>3. CASE UNCHANGED <<pc, stage>>
    <3>1. RunMade' = RunMade
      BY <2>3 DEF RunMade
    <3>. QED
      BY <1>0, <1>2, <2>3, <3>1 DEF RoomTyped
  <2>. QED
    BY <1>3, <1>6, <2>1, <2>2, <2>3 DEF Consume
<1>7. CASE WaitEnds
  BY <1>3, <1>7 DEF WaitEnds
<1>8. CASE Unregister \/ Close \/ Fallback
  <2>1. /\ stage' = stage /\ pc["run"] # "open"
        /\ \E l \in {"close", "fallback", "returned"} : Goto("run", l)
    BY <1>8 DEF Unregister, Close, Fallback
  <2>2. pc'["run"] # "open" /\ pc'["steer"] = pc["steer"]
    BY <1>0, <2>1 DEF Goto
  <2>3. RunMade' = RunMade
    BY <1>0, <2>1, <2>2 DEF RunMade, RoomTyped, Stages
  <2>. QED
    BY <1>0, <1>2, <2>2, <2>3 DEF RoomTyped
<1>9. CASE ReaderStep \/ AgentStep \/ Lose \/ Cancel \/ UNCHANGED vars
  <2>1. UNCHANGED <<pc, stage>>
    BY <1>9 DEF ReaderStep, ReadReply, ReadNote, ReadFails, CloseDone, AgentStep, Serve,
         Report, EndTurn, Lose, Cancel, vars
  <2>2. RunMade' = RunMade
    BY <2>1 DEF RunMade
  <2>. QED
    BY <1>0, <1>2, <2>1, <2>2 DEF RoomTyped
<1>. QED
  BY <1>4, <1>5, <1>6, <1>7, <1>8, <1>9

LEMMA RoomStep == RpcInv /\ TurnInv /\ RoomForMore /\ [Next]_vars => RoomForMore'
<1> SUFFICES ASSUME RpcInv, TurnInv, RoomForMore, [Next]_vars PROVE RoomForMore'
  OBVIOUS
<1>1. TypeOK /\ TypeOK'
  BY TypeStep DEF RpcInv
<1>2. ASSUME NEW g \in Goroutines, Request(g) PROVE RoomForMore'
  <2>1. CASE Open(g)
    BY <1>1, <2>1, RoomOpen
  <2>2. CASE Write(g)
    BY <1>1, <2>2, RoomRest
  <2>3. CASE WriteFails(g) \/ TakeReply(g) \/ SeeDone(g) \/ GiveUp(g)
    BY <1>1, <2>3, RoomReturns
  <2>. QED
    BY <1>2, <2>1, <2>2, <2>3 DEF Request
<1>. QED
  BY <1>1, <1>2, RoomSteer, RoomRest
     DEF Next, RunStep, SteerStep, Quiescent, Goroutines

LEMMA RoomInit == Init => RoomForMore
<1> SUFFICES ASSUME Init PROVE RoomForMore
  OBVIOUS
<1>1. /\ nextID = 0 /\ steers = 0 /\ stage = "initialize" /\ pc["run"] = "open"
      /\ pc["steer"] = "idle"
  BY DEF Init, Goroutines
<1>2. RunMade = 0 /\ SteerMade = 0
  BY <1>1 DEF RunMade, SteerMade
<1>. QED
  BY <1>1, <1>2 DEF RoomForMore

(* No goroutine of a session waits in vain: a call that is awaited is on   *)
(* its way, and so is the end of the turn the run waits for, unless the    *)
(* connection has ended or the end was dropped (app_server.go, request,    *)
(* readLoop, failAllPending and waitForTurnCompletion).                    *)
THEOREM NobodyWaitsInVain == Spec => [](CallsAnswered /\ TurnsEnd)
<1>1. Init => CallInv
  BY DEF Init, CallInv, InMap, CallsAnswered, Goroutines
<1>2. RpcInv /\ TurnInv /\ CallInv /\ EndInv => CallsAnswered /\ TurnsEnd
  BY TurnEnds DEF RpcInv, CallInv
<1>. QED
  BY RpcInit, RpcStep, TurnInit, TurnStep, <1>1, CallsStep, EndInit, EndStep, <1>2, PTL
     DEF Spec

(* Where the two goroutines that make requests can be.                     *)
Placed ==
  /\ pc["run"] # "idle"
  /\ pc["steer"] \in {"idle", "open", "write", "await"}

LEMMA PlacedStep == TypeOK /\ Placed /\ [Next]_vars => Placed'
<1> SUFFICES ASSUME TypeOK, Placed, [Next]_vars PROVE Placed'
  OBVIOUS
<1> USE DEF Placed
<1>0. pc \in [Goroutines -> Pcs] /\ "run" \in Goroutines /\ "steer" \in Goroutines
  BY DEF TypeOK, Goroutines
<1>1. ASSUME NEW l, l # "idle", Goto("run", l) PROVE Placed'
  BY <1>0, <1>1 DEF Goto
<1>2. ASSUME NEW l, l \in {"idle", "open", "write", "await"}, Goto("steer", l)
      PROVE  Placed'
  BY <1>0, <1>2 DEF Goto
<1>3. ASSUME NEW g \in Goroutines, NEW o, Returns(g, o) PROVE Placed'
  <2>1. CASE RunGets(o)
    <3>1. \E l \in {"notify", "open", "wait", "unregister", "close"} : Goto("run", l)
      BY <2>1 DEF RunGets, LatestReply, Leave
    <3>. QED
      BY <1>1, <3>1
  <2>2. CASE SteerGets(o)
    <3>1. \E l \in {"idle", "open"} : Goto("steer", l)
      BY <2>2 DEF SteerGets
    <3>. QED
      BY <1>2, <3>1
  <2>. QED
    BY <1>3, <2>1, <2>2 DEF Returns
<1>4. ASSUME NEW g \in Goroutines, Request(g) PROVE Placed'
  <2>1. CASE Open(g) \/ Write(g)
    <3>1. \E l \in {"write", "await"} : Goto(g, l)
      BY <2>1 DEF Open, Write
    <3>. QED
      BY <1>1, <1>2, <3>1 DEF Goroutines
  <2>2. CASE WriteFails(g) \/ TakeReply(g) \/ SeeDone(g) \/ GiveUp(g)
    BY <1>3, <2>2 DEF WriteFails, TakeReply, SeeDone, GiveUp
  <2>. QED
    BY <1>4, <2>1, <2>2 DEF Request
<1>5. CASE Initialized \/ Consume \/ WaitEnds \/ Unregister \/ Close \/ Fallback
  <2>1. \/ pc' = pc
        \/ \E l \in {"open", "unregister", "close", "fallback", "returned"} : Goto("run", l)
    BY <1>5 DEF Initialized, Consume, WaitEnds, Unregister, Close, Fallback, Leave
  <2>. QED
    BY <1>1, <2>1
<1>6. CASE Steer \/ SteerStops
  <2>1. \E l \in {"open", "idle"} : Goto("steer", l)
    BY <1>6 DEF Steer, SteerStops
  <2>. QED
    BY <1>2, <2>1
<1>7. CASE ReaderStep \/ AgentStep \/ Lose \/ Cancel \/ UNCHANGED vars
  <2>1. pc' = pc
    BY <1>7 DEF ReaderStep, ReadReply, ReadNote, ReadFails, CloseDone, AgentStep, Serve,
         Report, EndTurn, Lose, Cancel, vars
  <2>. QED
    BY <2>1
<1>. QED
  BY <1>0, <1>4, <1>5, <1>6, <1>7 DEF Next, RunStep, SteerStep, Quiescent

(* What can move a session on: a goroutine whose next step waits for       *)
(* nothing, or for something that is there; the reader; or the process,    *)
(* while it has a request to answer or a turn to end.                      *)
CanGoOn(g) ==
  \/ pc[g] \in {"write", "notify", "unregister", "close", "fallback"}
  \/ pc[g] = "open" /\ nextID < MaxRequests
  \/ pc[g] = "await" /\ (replyCh[rid[g]] # "none" \/ reader = "ended" \/ cancelled)
  \/ pc[g] = "wait" /\ (events # <<>> \/ reader = "ended" \/ cancelled)
ReaderCanGoOn ==
  \/ reader = "reading" /\ (inbound # <<>> \/ socket # "up")
  \/ reader = "failed"
AgentCanGoOn == socket = "up" /\ (wire # {} \/ turn = "running")
SomethingCanGoOn ==
  (\E g \in Goroutines : CanGoOn(g)) \/ ReaderCanGoOn \/ AgentCanGoOn

(* The session is through, or something can go on, or the end of the turn, *)
(* which the run alone still waits for, was dropped.                       *)
NotStuck ==
  \/ pc["run"] = "returned" /\ pc["steer"] = "idle"
  \/ SomethingCanGoOn
  \/ pc["run"] = "wait" /\ pc["steer"] = "idle" /\ dropped \cap Ends # {}

LEMMA GoOn ==
  TypeOK /\ Placed /\ CallsAnswered /\ TurnsEnd /\ RoomToOpen => NotStuck
<1> SUFFICES ASSUME TypeOK, Placed, CallsAnswered, TurnsEnd, RoomToOpen,
                    ~SomethingCanGoOn
             PROVE  \/ pc["run"] = "returned" /\ pc["steer"] = "idle"
                    \/ pc["run"] = "wait" /\ pc["steer"] = "idle" /\ dropped \cap Ends # {}
  BY DEF NotStuck
<1>0. /\ reader \in {"reading", "failed", "ended"} /\ inbound \in Seq(Messages)
      /\ events \in Seq(Notes) /\ pc \in [Goroutines -> Pcs]
  BY DEF TypeOK
<1>1. ASSUME NEW g \in Goroutines, pc[g] \notin {"returned", "idle"}
      PROVE  g = "run" /\ pc[g] = "wait" /\ dropped \cap Ends # {}
  <2>0. ~CanGoOn(g) /\ ~ReaderCanGoOn /\ ~AgentCanGoOn
    BY DEF SomethingCanGoOn
  <2>1. pc[g] \in {"await", "wait"} /\ ~cancelled
    BY <1>0, <1>1, <2>0 DEF CanGoOn, Pcs, RoomToOpen
  <2>2. reader = "reading" /\ inbound = <<>> /\ socket = "up"
    BY <1>0, <2>0, <2>1 DEF CanGoOn, ReaderCanGoOn
  <2>3. wire = {} /\ turn # "running"
    BY <2>0, <2>2 DEF AgentCanGoOn
  <2>4. pc[g] # "await"
    <3>1. SUFFICES ASSUME pc[g] = "await" PROVE FALSE
      OBVIOUS
    <3>2. OnItsWay(rid[g])
      BY <2>0, <2>2, <3>1 DEF CanGoOn, CallsAnswered, Lost
    <3>. QED
      BY <2>2, <2>3, <3>2 DEF OnItsWay
  <2>5. g = "run" /\ pc[g] = "wait" /\ events = <<>>
    BY <2>0, <2>1, <2>4 DEF Placed, Goroutines, CanGoOn
  <2>6. EndOnItsWay
    BY <2>2, <2>3, <2>5 DEF TurnsEnd, Lost
  <2>. QED
    BY <2>2, <2>5, <2>6 DEF EndOnItsWay
<1>2. pc["steer"] = "idle"
  BY <1>1 DEF Placed, Goroutines
<1>. QED
  BY <1>1, <1>2 DEF Placed, Goroutines

(* A session is never stuck: until the run has returned and the steering   *)
(* is idle something in it can go on, unless the run waits for an end of   *)
(* the turn that was dropped for want of room (app_server.go; the part of  *)
(* RunReturns and SteerReturns that no fairness is needed for).            *)
THEOREM SessionIsNeverStuck == Spec => []NotStuck
<1>1. Init => Placed
  BY DEF Init, Placed, Goroutines
<1>2. RpcInv => TypeOK
  BY DEF RpcInv
<1>. QED
  BY RpcInit, RpcStep, TurnInit, TurnStep, RoomInit, RoomStep, RoomEnough, <1>1,
     PlacedStep, <1>2, NobodyWaitsInVain, GoOn, PTL DEF Spec

-----------------------------------------------------------------------------
(* What is left to do in a session: for the callers, for what is on its    *)
(* way between them and the process, and for the process and the reader.   *)
PlaceLeft(g) ==
  CASE pc[g] = "write" -> 12 [] pc[g] = "await" -> 6
    [] pc[g] \in {"wait", "notify"} -> 5 [] pc[g] = "open" -> 4
    [] pc[g] = "unregister" -> 3 [] pc[g] = "close" -> 2 [] pc[g] = "fallback" -> 1
    [] OTHER -> 0
CallersLeft ==
  9 * (MaxRequests - nextID) + 5 * (MaxSteers - steers)
  + PlaceLeft("run") + PlaceLeft("steer")
TrafficLeft == 5 * Cardinality(wire) + 2 * Len(inbound) + Len(events)
TurnLeft == CASE turn = "none" -> 4 [] turn = "running" -> 3 [] OTHER -> 0
SocketLeft == CASE socket = "up" -> 2 [] socket = "lost" -> 1 [] OTHER -> 0
ReaderLeft == CASE reader = "reading" -> 2 [] reader = "failed" -> 1 [] OTHER -> 0
OthersLeft ==
  3 * (MaxDeltas - sent) + TurnLeft + SocketLeft + ReaderLeft
  + (IF cancelled THEN 0 ELSE 1)
WireFinite == IsFiniteSet(wire)
Left == CallersLeft + TrafficLeft + OthersLeft

LeftTyped == CallersLeft \in Nat /\ TrafficLeft \in Nat /\ OthersLeft \in Nat

LEMMA LeftTypes == TypeOK /\ WireFinite => LeftTyped
<1> SUFFICES ASSUME TypeOK, WireFinite
             PROVE  CallersLeft \in Nat /\ TrafficLeft \in Nat /\ OthersLeft \in Nat
  BY DEF LeftTyped
<1>1. CallersLeft \in Nat
  <2>1. MaxSteers \in Nat /\ MaxRequests \in Nat
    BY SessionSize
  <2>2. MaxRequests - nextID \in Nat /\ MaxSteers - steers \in Nat
    BY <2>1 DEF TypeOK
  <2>3. PlaceLeft("run") \in Nat /\ PlaceLeft("steer") \in Nat
    BY DEF PlaceLeft
  <2>. QED
    BY <2>2, <2>3 DEF CallersLeft
<1>2. TrafficLeft \in Nat
  <2>1. Cardinality(wire) \in Nat /\ Len(inbound) \in Nat /\ Len(events) \in Nat
    BY FS_CardinalityType DEF TypeOK, WireFinite
  <2>. QED
    BY <2>1 DEF TrafficLeft
<1>3. OthersLeft \in Nat
  <2>1. MaxDeltas - sent \in Nat
    BY SessionAssumption DEF TypeOK
  <2>2. TurnLeft \in Nat /\ SocketLeft \in Nat /\ ReaderLeft \in Nat
    BY DEF TurnLeft, SocketLeft, ReaderLeft
  <2>. QED
    BY <2>1, <2>2 DEF OthersLeft
<1>. QED
  BY <1>1, <1>2, <1>3

(* A step that leaves one of the three as it is.                           *)
LEMMA CallersSame ==
  UNCHANGED <<nextID, steers, pc>> => CallersLeft' = CallersLeft
  BY DEF CallersLeft, PlaceLeft

LEMMA TrafficSame ==
  UNCHANGED <<wire, inbound, events>> => TrafficLeft' = TrafficLeft
  BY DEF TrafficLeft

LEMMA OthersSame ==
  UNCHANGED <<sent, turn, socket, reader, cancelled>> => OthersLeft' = OthersLeft
  BY DEF OthersLeft, TurnLeft, SocketLeft, ReaderLeft

(* The callers: one of them moves to another place.                        *)
LEMMA CallersMove ==
  ASSUME TypeOK, UNCHANGED <<nextID, steers>>, NEW g \in Goroutines, NEW l, Goto(g, l),
         PlaceLeft(g)' < PlaceLeft(g)
  PROVE  CallersLeft' < CallersLeft
<1>1. PlaceLeft("run") \in Nat /\ PlaceLeft("steer") \in Nat
      /\ PlaceLeft("run")' \in Nat /\ PlaceLeft("steer")' \in Nat
  BY DEF PlaceLeft
<1>2. \A h \in Goroutines \ {g} : pc'[h] = pc[h]
  BY DEF Goto, TypeOK
<1>3. \A h \in Goroutines \ {g} : PlaceLeft(h)' = PlaceLeft(h)
  BY <1>2 DEF PlaceLeft
<1> DEFINE c == 9 * (MaxRequests - nextID) + 5 * (MaxSteers - steers)
<1>4. c \in Int
  BY SessionSize DEF TypeOK
<1>5. /\ CallersLeft = c + PlaceLeft("run") + PlaceLeft("steer")
      /\ CallersLeft' = c + PlaceLeft("run")' + PlaceLeft("steer")'
  BY DEF CallersLeft
<1> HIDE DEF c
<1>6. CASE g = "run"
  BY <1>1, <1>3, <1>4, <1>5, <1>6 DEF Goroutines
<1>7. CASE g = "steer"
  BY <1>1, <1>3, <1>4, <1>5, <1>7 DEF Goroutines
<1>. QED
  BY <1>6, <1>7 DEF Goroutines

(* The three together.                                                     *)
LEMMA LeftFalls ==
  ASSUME TypeOK, TypeOK', WireFinite, WireFinite',
         CallersLeft' + TrafficLeft' + OthersLeft' < CallersLeft + TrafficLeft + OthersLeft
  PROVE  Left' \in Nat /\ Left' < Left
<1>1. TypeOK' /\ WireFinite' => LeftTyped'
  BY LeftTypes, PTL
<1>2. Left' \in Nat
  BY <1>1 DEF Left, LeftTyped
<1>. QED
  BY <1>2 DEF Left

(* None of the three grows, and one falls.                                 *)
LEMMA LeftSinks ==
  ASSUME TypeOK, TypeOK', WireFinite, WireFinite',
         CallersLeft' < CallersLeft \/ CallersLeft' = CallersLeft,
         TrafficLeft' < TrafficLeft \/ TrafficLeft' = TrafficLeft,
         OthersLeft' < OthersLeft \/ OthersLeft' = OthersLeft,
         \/ CallersLeft' < CallersLeft \/ TrafficLeft' < TrafficLeft
         \/ OthersLeft' < OthersLeft
  PROVE  Left' \in Nat /\ Left' < Left
<1>1. LeftTyped /\ LeftTyped'
  BY LeftTypes, PTL
<1>2. /\ CallersLeft \in Int /\ TrafficLeft \in Int /\ OthersLeft \in Int
      /\ CallersLeft' \in Int /\ TrafficLeft' \in Int /\ OthersLeft' \in Int
  BY <1>1 DEF LeftTyped
<1>3. \A a, b, c, x, y, z \in Int :
        (x < a \/ x = a) /\ (y < b \/ y = b) /\ (z < c \/ z = c)
        /\ (x < a \/ y < b \/ z < c) => x + y + z < a + b + c
  OBVIOUS
<1>4. CallersLeft' + TrafficLeft' + OthersLeft' < CallersLeft + TrafficLeft + OthersLeft
  BY <1>2, <1>3
<1>. QED
  BY <1>4, LeftFalls

(* The steps by which the callers get on.                                  *)
LEMMA LeftOpen ==
  ASSUME TypeOK, NEW g \in Goroutines, Open(g)
  PROVE  CallersLeft' = CallersLeft - 1
<1>0. /\ pc \in [Goroutines -> Pcs] /\ (g = "run" \/ g = "steer")
      /\ "run" \in Goroutines /\ "steer" \in Goroutines
      /\ nextID \in Int /\ steers \in Int
      /\ MaxRequests \in Int /\ MaxSteers \in Int
  BY SessionSize DEF TypeOK, Goroutines
<1>1. /\ nextID' = nextID + 1 /\ steers' = steers /\ pc[g] = "open"
      /\ pc' = [pc EXCEPT ![g] = "write"]
  BY DEF Open, Goto, steering
<1>7. pc'[g] = "write" /\ \A h \in Goroutines \ {g} : pc'[h] = pc[h]
  BY <1>0, <1>1
<1>8. PlaceLeft(g)' = 12 /\ PlaceLeft(g) = 4
  BY <1>1, <1>7 DEF PlaceLeft
<1>9. \A h \in Goroutines \ {g} : PlaceLeft(h)' = PlaceLeft(h)
  BY <1>7 DEF PlaceLeft
<1>10. PlaceLeft("run") \in Int /\ PlaceLeft("steer") \in Int
  BY DEF PlaceLeft
<1>2. /\ PlaceLeft(g)' = 12 /\ PlaceLeft(g) = 4
      /\ \A h \in Goroutines \ {g} : PlaceLeft(h)' = PlaceLeft(h)
      /\ \A h \in Goroutines : PlaceLeft(h) \in Int
  BY <1>8, <1>9, <1>10 DEF Goroutines
<1>3. CASE g = "run"
  BY <1>0, <1>1, <1>2, <1>3 DEF CallersLeft, Goroutines
<1>4. CASE g = "steer"
  BY <1>0, <1>1, <1>2, <1>4 DEF CallersLeft, Goroutines
<1>. QED
  BY <1>0, <1>3, <1>4

LEMMA LeftWrite ==
  ASSUME TypeOK, NEW g \in Goroutines, Write(g)
  PROVE  CallersLeft' = CallersLeft - 6
<1>0. /\ pc \in [Goroutines -> Pcs] /\ (g = "run" \/ g = "steer")
      /\ "run" \in Goroutines /\ "steer" \in Goroutines
  BY DEF TypeOK, Goroutines
<1>1. /\ UNCHANGED <<nextID, steers>> /\ pc[g] = "write"
      /\ pc' = [pc EXCEPT ![g] = "await"]
  BY DEF Write, Goto, steering, channels
<1>7. pc'[g] = "await" /\ \A h \in Goroutines \ {g} : pc'[h] = pc[h]
  BY <1>0, <1>1
<1>8. PlaceLeft(g)' = 6 /\ PlaceLeft(g) = 12
  BY <1>1, <1>7 DEF PlaceLeft
<1>9. \A h \in Goroutines \ {g} : PlaceLeft(h)' = PlaceLeft(h)
  BY <1>7 DEF PlaceLeft
<1>10. PlaceLeft("run") \in Int /\ PlaceLeft("steer") \in Int
  BY DEF PlaceLeft
<1>2. /\ PlaceLeft(g)' = 6 /\ PlaceLeft(g) = 12
      /\ \A h \in Goroutines \ {g} : PlaceLeft(h)' = PlaceLeft(h)
      /\ \A h \in Goroutines : PlaceLeft(h) \in Int
  BY <1>8, <1>9, <1>10 DEF Goroutines
<1> DEFINE c == 9 * (MaxRequests - nextID) + 5 * (MaxSteers - steers)
<1>5. /\ CallersLeft = c + PlaceLeft("run") + PlaceLeft("steer")
      /\ CallersLeft' = c + PlaceLeft("run")' + PlaceLeft("steer")'
  BY <1>1 DEF CallersLeft
<1>6. c \in Int
  BY SessionSize DEF TypeOK
<1> HIDE DEF c
<1>3. CASE g = "run"
  BY <1>0, <1>2, <1>3, <1>5, <1>6 DEF Goroutines
<1>4. CASE g = "steer"
  BY <1>0, <1>2, <1>4, <1>5, <1>6 DEF Goroutines
<1>. QED
  BY <1>0, <1>3, <1>4

LEMMA LeftReturns ==
  ASSUME RpcInv, NEW g \in Goroutines,
         WriteFails(g) \/ TakeReply(g) \/ SeeDone(g) \/ GiveUp(g)
  PROVE  CallersLeft' < CallersLeft
<1>0. TypeOK /\ pc \in [Goroutines -> Pcs] /\ "run" \in Goroutines /\ "steer" \in Goroutines
  BY DEF RpcInv, TypeOK, Goroutines
<1>1. nextID' = nextID
  BY DEF WriteFails, TakeReply, SeeDone, GiveUp, channels
<1>2. PICK o \in Answers \cup Failures : pc[g] \in {"write", "await"} /\ Returns(g, o)
  BY RequestEffect
<1>3. steers' = steers
  BY <1>2 DEF Returns, SteerGets, steering
<1>4. \E l \in {"idle", "open", "notify", "wait", "unregister", "close"} : Goto(g, l)
  BY <1>2 DEF Returns, RunGets, LatestReply, SteerGets, Leave
<1>5. PlaceLeft(g)' < PlaceLeft(g)
  BY <1>0, <1>2, <1>4 DEF Goto, PlaceLeft
<1>. QED
  BY <1>0, <1>1, <1>3, <1>4, <1>5, CallersMove

LEMMA LeftRun ==
  ASSUME TypeOK, Initialized \/ WaitEnds \/ Unregister \/ Close \/ Fallback
  PROVE  CallersLeft' < CallersLeft
<1>0. pc \in [Goroutines -> Pcs] /\ "run" \in Goroutines
  BY DEF TypeOK, Goroutines
<1>1. UNCHANGED <<nextID, steers>>
  BY DEF Initialized, WaitEnds, Unregister, Close, Fallback, channels, steering
<1>2. \E l : Goto("run", l)
  BY DEF Initialized, WaitEnds, Unregister, Close, Fallback, Leave
<1>3. PlaceLeft("run")' < PlaceLeft("run")
  <2>1. CASE Initialized \/ WaitEnds
    <3>1. /\ pc["run"] \in {"notify", "wait"}
          /\ \E l \in {"open", "unregister", "close"} : Goto("run", l)
      BY <2>1 DEF Initialized, WaitEnds, Leave
    <3>2. pc'["run"] \in {"open", "unregister", "close"}
      BY <1>0, <3>1 DEF Goto
    <3>. QED
      BY <3>1, <3>2 DEF PlaceLeft
  <2>2. CASE Unregister
    <3>1. pc["run"] = "unregister" /\ pc'["run"] = "close"
      BY <1>0, <2>2 DEF Unregister, Goto
    <3>. QED
      BY <3>1 DEF PlaceLeft
  <2>3. CASE Close
    <3>1. pc["run"] = "close" /\ pc'["run"] = "fallback"
      BY <1>0, <2>3 DEF Close, Goto
    <3>. QED
      BY <3>1 DEF PlaceLeft
  <2>4. CASE Fallback
    <3>1. pc["run"] = "fallback" /\ pc'["run"] = "returned"
      BY <1>0, <2>4 DEF Fallback, Goto
    <3>. QED
      BY <3>1 DEF PlaceLeft
  <2>. QED
    BY <2>1, <2>2, <2>3, <2>4
<1>. QED
  BY <1>0, <1>1, <1>2, <1>3, CallersMove

LEMMA LeftSteer ==
  ASSUME TypeOK, Placed, Steer \/ SteerStops
  PROVE  CallersLeft' < CallersLeft
<1>0. pc \in [Goroutines -> Pcs] /\ "steer" \in Goroutines /\ "run" \in Goroutines
  BY DEF TypeOK, Goroutines
<1>1. CASE SteerStops
  <2>1. UNCHANGED <<nextID, steers>> /\ Goto("steer", "idle") /\ pc["steer"] = "open"
    BY <1>1 DEF SteerStops, channels, steering
  <2>2. PlaceLeft("steer")' < PlaceLeft("steer")
    BY <1>0, <2>1 DEF Goto, PlaceLeft
  <2>. QED
    BY <1>0, <2>1, <2>2, CallersMove
<1>2. CASE Steer
  <2>1. /\ nextID' = nextID /\ steers' = steers + 1 /\ pc["steer"] = "idle"
        /\ \E l \in {"open", "idle"} : Goto("steer", l)
    BY <1>2 DEF Steer, channels
  <2>2. /\ PlaceLeft("steer")' <= 4 /\ PlaceLeft("steer") = 0
        /\ PlaceLeft("run")' = PlaceLeft("run") /\ PlaceLeft("run") \in Int
        /\ PlaceLeft("steer")' \in Int
    BY <1>0, <2>1 DEF Goto, PlaceLeft
  <2>3. MaxRequests \in Int /\ MaxSteers \in Int /\ nextID \in Int /\ steers \in Int
    BY SessionSize DEF TypeOK
  <2>. QED
    BY <2>1, <2>2, <2>3 DEF CallersLeft
<1>. QED
  BY <1>1, <1>2

(* Writes and answers; a request on the socket is the only one of its      *)
(* number.                                                                 *)
LEMMA WireWrite ==
  ASSUME RpcInv, WireFinite, NEW g \in Goroutines, Write(g)
  PROVE  WireFinite' /\ Cardinality(wire') <= Cardinality(wire) + 1
<1> DEFINE q == [id |-> rid[g], method |-> IF g = "run" THEN stage ELSE "steer",
                 message |-> IF g = "run" THEN 0 ELSE steers]
<1>1. wire' = wire \cup {q} \/ wire' = wire
  BY DEF Write
<1> HIDE DEF q
<1>2. IsFiniteSet(wire) /\ Cardinality(wire) \in Nat
  BY FS_CardinalityType DEF WireFinite
<1>3. /\ IsFiniteSet(wire \cup {q})
      /\ Cardinality(wire \cup {q}) \in {Cardinality(wire), Cardinality(wire) + 1}
  BY <1>2, FS_AddElement
<1>. QED
  BY <1>1, <1>2, <1>3 DEF WireFinite

LEMMA WireServe ==
  ASSUME WireFinite, NEW r \in Requests, Serve(r)
  PROVE  WireFinite' /\ Cardinality(wire') = Cardinality(wire) - 1
<1>1. r \in wire /\ wire' = wire \ {r}
  BY DEF Serve
<1>. QED
  BY <1>1, FS_RemoveElement DEF WireFinite

LEMMA WireSame == wire' = wire /\ WireFinite => WireFinite'
  BY DEF WireFinite

LEMMA TrafficTypes ==
  ASSUME RpcInv, WireFinite
  PROVE  /\ inbound \in Seq(Messages) /\ events \in Seq(Notes)
         /\ Cardinality(wire) \in Nat /\ Len(inbound) \in Nat /\ Len(events) \in Nat
  BY FS_CardinalityType DEF RpcInv, TypeOK, WireFinite

LEMMA LeftServe ==
  ASSUME RpcInv, TurnInv, WireFinite, NEW r \in Requests, Serve(r)
  PROVE  /\ TrafficLeft' < TrafficLeft
         /\ OthersLeft' < OthersLeft \/ OthersLeft' = OthersLeft
<1>0. /\ inbound \in Seq(Messages) /\ Cardinality(wire) \in Nat
      /\ Len(inbound) \in Nat /\ Len(events) \in Nat /\ r.id \in Ids
  BY TrafficTypes DEF Requests
<1>1. PICK a \in Answers :
        \/ /\ r.method = "turn" /\ turn' = "running"
           /\ inbound' = Append(Append(inbound, [id |-> r.id, says |-> a]),
                                [id |-> 0, says |-> "status"])
        \/ /\ inbound' = Append(inbound, [id |-> r.id, says |-> a])
           /\ turn' = turn
  BY DEF Serve
<1>2. /\ r \in wire /\ UNCHANGED <<events, sent, socket, reader, cancelled>>
  BY DEF Serve, channels
<1> DEFINE reply == [id |-> r.id, says |-> a]
           note == [id |-> 0, says |-> "status"]
<1>3. reply \in Messages /\ note \in Messages
  BY <1>0 DEF Messages, Notes
<1> HIDE DEF reply, note
<1>4. inbound' = Append(Append(inbound, reply), note) \/ inbound' = Append(inbound, reply)
  BY <1>1 DEF reply, note
<1>5. Len(inbound') \in Nat /\ Len(inbound') <= Len(inbound) + 2
  <2>1. Append(inbound, reply) \in Seq(Messages) /\ Len(Append(inbound, reply)) = Len(inbound) + 1
    BY <1>0, <1>3
  <2>2. Len(Append(Append(inbound, reply), note)) = Len(inbound) + 2
    BY <1>0, <1>3, <2>1
  <2>. QED
    BY <1>0, <1>4, <2>1, <2>2
<1>6. TrafficLeft' < TrafficLeft
  <2>1. Cardinality(wire') = Cardinality(wire) - 1
    BY WireServe
  <2>2. TrafficLeft' = 5 * (Cardinality(wire) - 1) + 2 * Len(inbound') + Len(events)
    BY <1>2, <2>1 DEF TrafficLeft
  <2>3. TrafficLeft = 5 * Cardinality(wire) + 2 * Len(inbound) + Len(events)
    BY DEF TrafficLeft
  <2>4. \A w, i, j, e \in Nat :
          j <= i + 2 => 5 * (w - 1) + 2 * j + e < 5 * w + 2 * i + e
    OBVIOUS
  <2>. QED
    BY <1>0, <1>5, <2>2, <2>3, <2>4
<1>7. TurnLeft' \in Nat /\ TurnLeft \in Nat /\ TurnLeft' <= TurnLeft
  <2>1. r.method = "turn" => turn = "none"
    BY <1>2 DEF TurnInv, TurnAsked
  <2>. QED
    BY <1>1, <2>1 DEF TurnLeft
<1>8. OthersLeft' < OthersLeft \/ OthersLeft' = OthersLeft
  <2>1. /\ SocketLeft' = SocketLeft /\ ReaderLeft' = ReaderLeft
        /\ SocketLeft \in Nat /\ ReaderLeft \in Nat
    BY <1>2 DEF SocketLeft, ReaderLeft
  <2>2. MaxDeltas - sent \in Nat
    BY SessionAssumption DEF RpcInv, TypeOK
  <2>. QED
    BY <1>2, <1>7, <2>1, <2>2 DEF OthersLeft
<1>. QED
  BY <1>6, <1>8

(* A running turn goes on or ends, with a notification.                    *)
LEMMA LeftTurn ==
  ASSUME RpcInv, WireFinite, Report \/ EndTurn
  PROVE  TrafficLeft' = TrafficLeft + 2 /\ OthersLeft' = OthersLeft - 3
<1>0. /\ inbound \in Seq(Messages) /\ Cardinality(wire) \in Nat
      /\ Len(inbound) \in Nat /\ Len(events) \in Nat
      /\ MaxDeltas \in Nat /\ sent \in Nat
  BY TrafficTypes, SessionAssumption DEF RpcInv, TypeOK
<1>1. /\ UNCHANGED <<wire, events, socket, reader, cancelled>>
      /\ \E n \in Notes : inbound' = Append(inbound, [id |-> 0, says |-> n])
      /\ \/ turn' = turn /\ sent' = sent + 1
         \/ turn = "running" /\ turn' \in Ends /\ sent' = sent
  BY DEF Report, EndTurn, channels, Notes, Ends
<1>2. Len(inbound') = Len(inbound) + 1
  <2>1. \A n \in Notes : [id |-> 0, says |-> n] \in Messages
    BY DEF Messages
  <2>. QED
    BY <1>0, <1>1, <2>1
<1>3. TrafficLeft' = TrafficLeft + 2
  <2>1. TrafficLeft' = 5 * Cardinality(wire) + 2 * (Len(inbound) + 1) + Len(events)
    BY <1>1, <1>2 DEF TrafficLeft
  <2>2. TrafficLeft = 5 * Cardinality(wire) + 2 * Len(inbound) + Len(events)
    BY DEF TrafficLeft
  <2>3. \A w, i, e \in Nat : 5 * w + 2 * (i + 1) + e = 5 * w + 2 * i + e + 2
    OBVIOUS
  <2>. QED
    BY <1>0, <2>1, <2>2, <2>3
<1>4. /\ SocketLeft' = SocketLeft /\ ReaderLeft' = ReaderLeft
      /\ SocketLeft \in Nat /\ ReaderLeft \in Nat /\ TurnLeft \in Nat /\ TurnLeft' \in Nat
  BY <1>1 DEF SocketLeft, ReaderLeft, TurnLeft
<1>5. CASE turn' = turn /\ sent' = sent + 1
  <2>1. TurnLeft' = TurnLeft
    BY <1>5 DEF TurnLeft
  <2>2. OthersLeft' = 3 * (MaxDeltas - (sent + 1)) + TurnLeft + SocketLeft + ReaderLeft
                      + (IF cancelled THEN 0 ELSE 1)
    BY <1>1, <1>4, <1>5, <2>1 DEF OthersLeft
  <2>. QED
    BY <1>0, <1>3, <1>4, <2>2 DEF OthersLeft
<1>6. CASE turn = "running" /\ turn' \in Ends /\ sent' = sent
  <2>1. TurnLeft' = 0 /\ TurnLeft = 3
    BY <1>6 DEF TurnLeft, Ends
  <2>2. OthersLeft' = 3 * (MaxDeltas - sent) + 0 + SocketLeft + ReaderLeft
                      + (IF cancelled THEN 0 ELSE 1)
    BY <1>1, <1>4, <1>6, <2>1 DEF OthersLeft
  <2>. QED
    BY <1>0, <1>3, <1>4, <2>1, <2>2 DEF OthersLeft
<1>. QED
  BY <1>1, <1>5, <1>6

(* The connection ends, from either side.                                  *)
LEMMA LeftEnds ==
  ASSUME RpcInv, WireFinite, Lose \/ Close
  PROVE  /\ TrafficLeft' < TrafficLeft \/ TrafficLeft' = TrafficLeft
         /\ OthersLeft' < OthersLeft \/ OthersLeft' = OthersLeft
         /\ Lose => OthersLeft' < OthersLeft
<1>0. /\ inbound \in Seq(Messages) /\ Cardinality(wire) \in Nat
      /\ Len(inbound) \in Nat /\ Len(events) \in Nat
      /\ MaxDeltas \in Nat /\ sent \in Nat
  BY TrafficTypes, SessionAssumption DEF RpcInv, TypeOK
<1>1. /\ UNCHANGED <<wire, events, turn, sent, reader, cancelled>> /\ KeepsSome
  BY DEF Lose, Close, channels
<1>2. Len(inbound') \in Nat /\ Len(inbound') <= Len(inbound)
  <2>1. PICK k \in 0..Len(inbound) : inbound' = SubSeq(inbound, 1, k)
    BY <1>1 DEF KeepsSome
  <2>. QED
    BY <1>0, <2>1
<1>3. TrafficLeft' < TrafficLeft \/ TrafficLeft' = TrafficLeft
  <2>1. TrafficLeft' = 5 * Cardinality(wire) + 2 * Len(inbound') + Len(events)
    BY <1>1 DEF TrafficLeft
  <2>2. TrafficLeft = 5 * Cardinality(wire) + 2 * Len(inbound) + Len(events)
    BY DEF TrafficLeft
  <2>3. \A w, i, j, e \in Nat : j <= i =>
          \/ 5 * w + 2 * j + e < 5 * w + 2 * i + e
          \/ 5 * w + 2 * j + e = 5 * w + 2 * i + e
    OBVIOUS
  <2>. QED
    BY <1>0, <1>2, <2>1, <2>2, <2>3
<1>4. /\ TurnLeft' = TurnLeft /\ ReaderLeft' = ReaderLeft
      /\ SocketLeft \in Nat /\ SocketLeft' \in Nat /\ ReaderLeft \in Nat /\ TurnLeft \in Nat
  BY <1>1 DEF SocketLeft, ReaderLeft, TurnLeft
<1>5. SocketLeft' <= SocketLeft /\ (Lose => SocketLeft' < SocketLeft)
  BY DEF SocketLeft, Lose, Close, RpcInv, TypeOK
<1>6. 3 * (MaxDeltas - sent) \in Int
  BY <1>0
<1>7. /\ OthersLeft' < OthersLeft \/ OthersLeft' = OthersLeft
      /\ (Lose => OthersLeft' < OthersLeft)
  BY <1>1, <1>4, <1>5, <1>6 DEF OthersLeft
<1>. QED
  BY <1>3, <1>7

(* The reader passes something on, or gets on with its own end.            *)
LEMMA LeftReader ==
  ASSUME RpcInv, WireFinite, ReaderStep
  PROVE  \/ TrafficLeft' < TrafficLeft /\ OthersLeft' = OthersLeft
         \/ TrafficLeft' = TrafficLeft /\ OthersLeft' < OthersLeft
<1>0. /\ inbound \in Seq(Messages) /\ events \in Seq(Notes) /\ Cardinality(wire) \in Nat
      /\ Len(inbound) \in Nat /\ Len(events) \in Nat
      /\ MaxDeltas \in Nat /\ sent \in Nat
  BY TrafficTypes, SessionAssumption DEF RpcInv, TypeOK
<1>1. CASE ReadReply \/ ReadNote
  <2>1. /\ UNCHANGED <<wire, sent, turn, socket, reader, cancelled>>
        /\ inbound # <<>> /\ inbound' = Tail(inbound)
    BY <1>1 DEF ReadReply, ReadNote
  <2>2. Len(inbound') = Len(inbound) - 1
    BY <1>0, <2>1
  <2>3. Len(events') \in Nat /\ Len(events') <= Len(events) + 1
    <3>1. CASE events' = events
      BY <1>0, <3>1
    <3>2. CASE ReadNote /\ events' = Append(events, Head(inbound).says)
      <4>1. Head(inbound) \in Messages /\ Head(inbound).id = 0
        BY <1>0, <2>1, <3>2 DEF ReadNote
      <4>2. Head(inbound).says \in Notes
        BY <4>1 DEF Messages, Ids
      <4>. QED
        BY <1>0, <3>2, <4>2
    <3>. QED
      BY <1>1, <3>1, <3>2 DEF ReadReply, ReadNote
  <2>4. TrafficLeft' < TrafficLeft
    <3>1. TrafficLeft' = 5 * Cardinality(wire) + 2 * (Len(inbound) - 1) + Len(events')
      BY <2>1, <2>2 DEF TrafficLeft
    <3>2. TrafficLeft = 5 * Cardinality(wire) + 2 * Len(inbound) + Len(events)
      BY DEF TrafficLeft
    <3>3. \A w, i, e, f \in Nat :
            f <= e + 1 => 5 * w + 2 * (i - 1) + f < 5 * w + 2 * i + e
      OBVIOUS
    <3>. QED
      BY <1>0, <2>3, <3>1, <3>2, <3>3
  <2>5. OthersLeft' = OthersLeft
    BY <2>1, OthersSame
  <2>. QED
    BY <2>4, <2>5
<1>2. CASE ReadFails \/ CloseDone
  <2>1. /\ UNCHANGED <<wire, inbound, events, sent, turn, socket, cancelled>>
        /\ \/ reader = "reading" /\ reader' = "failed"
           \/ reader = "failed" /\ reader' = "ended"
    BY <1>2 DEF ReadFails, CloseDone, remote
  <2>2. TrafficLeft' = TrafficLeft
    BY <2>1, TrafficSame
  <2>3. /\ TurnLeft' = TurnLeft /\ SocketLeft' = SocketLeft /\ ReaderLeft' < ReaderLeft
        /\ TurnLeft \in Nat /\ SocketLeft \in Nat /\ ReaderLeft \in Nat /\ ReaderLeft' \in Nat
    BY <2>1 DEF TurnLeft, SocketLeft, ReaderLeft
  <2>4. OthersLeft' < OthersLeft
    <3>1. OthersLeft' = 3 * (MaxDeltas - sent) + TurnLeft + SocketLeft + ReaderLeft'
                        + (IF cancelled THEN 0 ELSE 1)
      BY <2>1, <2>3 DEF OthersLeft
    <3>2. 3 * (MaxDeltas - sent) \in Int
      BY <1>0
    <3>. QED
      BY <2>3, <3>1, <3>2 DEF OthersLeft
  <2>. QED
    BY <2>2, <2>4
<1>. QED
  BY <1>1, <1>2 DEF ReaderStep

LEMMA LeftConsume ==
  ASSUME RpcInv, WireFinite, Consume
  PROVE  /\ TrafficLeft' < TrafficLeft
         /\ CallersLeft' < CallersLeft \/ CallersLeft' = CallersLeft
<1>0. /\ events \in Seq(Notes) /\ Cardinality(wire) \in Nat /\ TypeOK
      /\ Len(inbound) \in Nat /\ Len(events) \in Nat
      /\ pc \in [Goroutines -> Pcs] /\ "run" \in Goroutines
  BY TrafficTypes DEF RpcInv, TypeOK, Goroutines
<1>1. /\ UNCHANGED <<wire, inbound, nextID, steers>> /\ pc["run"] = "wait"
      /\ events # <<>> /\ events' = Tail(events)
      /\ \/ pc' = pc
         \/ \E l \in {"open", "unregister", "close"} : Goto("run", l)
  BY DEF Consume, remote, steering, Leave
<1>2. Len(events') = Len(events) - 1
  BY <1>0, <1>1
<1>3. TrafficLeft' < TrafficLeft
  BY <1>0, <1>1, <1>2 DEF TrafficLeft
<1>4. CASE pc' = pc
  <2>1. CallersLeft' = CallersLeft
    BY <1>1, <1>4, CallersSame
  <2>. QED
    BY <1>3, <2>1
<1>5. CASE \E l \in {"open", "unregister", "close"} : Goto("run", l)
  <2>1. pc'["run"] \in {"open", "unregister", "close"}
    BY <1>0, <1>5 DEF Goto
  <2>2. PlaceLeft("run")' < PlaceLeft("run")
    BY <1>1, <2>1 DEF PlaceLeft
  <2>3. CallersLeft' < CallersLeft
    BY <1>0, <1>1, <1>5, <2>2, CallersMove
  <2>. QED
    BY <1>3, <2>3
<1>. QED
  BY <1>1, <1>4, <1>5

LEMMA LeftCancel ==
  ASSUME RpcInv, Cancel
  PROVE  OthersLeft' < OthersLeft
<1>0. MaxDeltas \in Nat /\ sent \in Nat
  BY SessionAssumption DEF RpcInv, TypeOK
<1>1. ~cancelled /\ cancelled' /\ UNCHANGED <<sent, turn, socket, reader>>
  BY DEF Cancel, remote, channels
<1>2. /\ TurnLeft' = TurnLeft /\ SocketLeft' = SocketLeft /\ ReaderLeft' = ReaderLeft
      /\ TurnLeft \in Nat /\ SocketLeft \in Nat /\ ReaderLeft \in Nat
  BY <1>1 DEF TurnLeft, SocketLeft, ReaderLeft
<1>3. /\ OthersLeft = 3 * (MaxDeltas - sent) + TurnLeft + SocketLeft + ReaderLeft + 1
      /\ OthersLeft' = 3 * (MaxDeltas - sent) + TurnLeft + SocketLeft + ReaderLeft + 0
  BY <1>1, <1>2 DEF OthersLeft
<1>. QED
  BY <1>0, <1>2, <1>3

(* Every step of the session.                                              *)
LEMMA StepLeavesLess ==
  RpcInv /\ TurnInv /\ Placed /\ WireFinite /\ [Next]_vars =>
    WireFinite' /\ [Left' \in Nat /\ Left' < Left]_vars
<1> SUFFICES ASSUME RpcInv, TurnInv, Placed, WireFinite, [Next]_vars
             PROVE  WireFinite' /\ (UNCHANGED vars \/ (Left' \in Nat /\ Left' < Left))
  OBVIOUS
<1>0. TypeOK /\ TypeOK' /\ "run" \in Goroutines /\ "steer" \in Goroutines
  BY TypeStep DEF RpcInv, Goroutines
<1>1. CASE UNCHANGED vars
  BY <1>1, WireSame DEF vars
<1>2. ASSUME wire' = wire,
             CallersLeft' < CallersLeft \/ CallersLeft' = CallersLeft,
             TrafficLeft' < TrafficLeft \/ TrafficLeft' = TrafficLeft,
             OthersLeft' < OthersLeft \/ OthersLeft' = OthersLeft,
             \/ CallersLeft' < CallersLeft \/ TrafficLeft' < TrafficLeft
             \/ OthersLeft' < OthersLeft
      PROVE  WireFinite' /\ Left' \in Nat /\ Left' < Left
  BY <1>0, <1>2, WireSame, LeftSinks
<1>3. /\ CallersLeft \in Nat /\ TrafficLeft \in Nat /\ OthersLeft \in Nat
  BY <1>0, LeftTypes DEF LeftTyped
<1>4. ASSUME NEW g \in Goroutines, Request(g)
      PROVE  WireFinite' /\ Left' \in Nat /\ Left' < Left
  <2>1. CASE Open(g)
    <3>1. UNCHANGED <<wire, inbound, events, sent, turn, socket, reader, cancelled>>
      BY <2>1 DEF Open, remote
    <3>2. CallersLeft' < CallersLeft
      BY <1>0, <1>3, <2>1, LeftOpen
    <3>. QED
      BY <1>2, <3>1, <3>2, TrafficSame, OthersSame
  <2>2. CASE Write(g)
    <3>1. UNCHANGED <<inbound, events, sent, turn, socket, reader, cancelled>>
      BY <2>2 DEF Write, channels
    <3>2. OthersLeft' = OthersLeft /\ CallersLeft' = CallersLeft - 6
      BY <1>0, <2>2, <3>1, OthersSame, LeftWrite
    <3>3. WireFinite' /\ Cardinality(wire') <= Cardinality(wire) + 1
      BY <2>2, WireWrite
    <3>4. Cardinality(wire') \in Nat
      BY <3>3, FS_CardinalityType DEF WireFinite
    <3>5. TrafficLeft' = 5 * Cardinality(wire') + 2 * Len(inbound) + Len(events)
      BY <3>1 DEF TrafficLeft
    <3>6. TrafficLeft = 5 * Cardinality(wire) + 2 * Len(inbound) + Len(events)
      BY DEF TrafficLeft
    <3>7. CallersLeft' + TrafficLeft' + OthersLeft' < CallersLeft + TrafficLeft + OthersLeft
      <4>1. \A c, o, w, x, i, e \in Nat : x <= w + 1 =>
              (c - 6) + (5 * x + 2 * i + e) + o < c + (5 * w + 2 * i + e) + o
        OBVIOUS
      <4>. QED
        BY <1>3, <3>2, <3>3, <3>4, <3>5, <3>6, <4>1, TrafficTypes
    <3>. QED
      BY <1>0, <3>3, <3>7, LeftFalls
  <2>3. CASE WriteFails(g) \/ TakeReply(g) \/ SeeDone(g) \/ GiveUp(g)
    <3>1. UNCHANGED <<wire, inbound, events, sent, turn, socket, reader, cancelled>>
      BY <2>3 DEF WriteFails, TakeReply, SeeDone, GiveUp, remote, channels
    <3>2. CallersLeft' < CallersLeft
      BY <2>3, LeftReturns
    <3>. QED
      BY <1>2, <3>1, <3>2, TrafficSame, OthersSame
  <2>. QED
    BY <1>4, <2>1, <2>2, <2>3 DEF Request
<1>5. CASE Initialized \/ WaitEnds \/ Unregister \/ Fallback \/ Steer \/ SteerStops
  <2>1. UNCHANGED <<wire, inbound, events, sent, turn, socket, reader, cancelled>>
    BY <1>5 DEF Initialized, WaitEnds, Unregister, Fallback, Steer, SteerStops,
         remote, channels
  <2>2. CallersLeft' < CallersLeft
    BY <1>0, <1>5, LeftRun, LeftSteer
  <2>. QED
    BY <1>2, <2>1, <2>2, TrafficSame, OthersSame
<1>6. CASE Close
  <2>1. wire' = wire
    BY <1>6 DEF Close
  <2>. QED
    BY <1>0, <1>2, <1>6, <2>1, LeftRun, LeftEnds
<1>7. CASE Lose
  <2>1. UNCHANGED <<wire, nextID, steers, pc>>
    BY <1>7 DEF Lose, channels, steering
  <2>. QED
    BY <1>2, <1>7, <2>1, LeftEnds, CallersSame
<1>8. CASE Cancel
  <2>1. UNCHANGED <<wire, inbound, events, nextID, steers, pc>>
    BY <1>8 DEF Cancel, remote, channels, steering
  <2>. QED
    BY <1>2, <1>8, <2>1, LeftCancel, CallersSame, TrafficSame
<1>9. CASE ReaderStep
  <2>1. UNCHANGED <<wire, nextID, steers, pc>>
    BY <1>9 DEF ReaderStep, ReadReply, ReadNote, ReadFails, CloseDone, remote, steering
  <2>. QED
    BY <1>2, <1>9, <2>1, LeftReader, CallersSame
<1>10. CASE Consume
  <2>1. UNCHANGED <<wire, sent, turn, socket, reader, cancelled>>
    BY <1>10 DEF Consume, remote
  <2>. QED
    BY <1>2, <1>10, <2>1, LeftConsume, OthersSame
<1>11. CASE Report \/ EndTurn
  <2>1. UNCHANGED <<wire, nextID, steers, pc>>
    BY <1>11 DEF Report, EndTurn, channels, steering
  <2>2. CallersLeft' = CallersLeft
    BY <2>1, CallersSame
  <2>3. CallersLeft' + TrafficLeft' + OthersLeft' < CallersLeft + TrafficLeft + OthersLeft
    BY <1>3, <1>11, <2>2, LeftTurn
  <2>4. WireFinite'
    BY <2>1, WireSame
  <2>. QED
    BY <1>0, <2>3, <2>4, LeftFalls
<1>12. ASSUME NEW r \in Requests, Serve(r)
       PROVE  WireFinite' /\ Left' \in Nat /\ Left' < Left
  <2>1. UNCHANGED <<nextID, steers, pc>>
    BY <1>12 DEF Serve, channels, steering
  <2>2. WireFinite'
    BY <1>12, WireServe
  <2>3. CallersLeft' = CallersLeft
    BY <2>1, CallersSame
  <2>. QED
    BY <1>0, <1>12, <2>2, <2>3, LeftServe, LeftSinks
<1>. QED
  BY <1>0, <1>1, <1>4, <1>5, <1>6, <1>7, <1>8, <1>9, <1>10, <1>11, <1>12
     DEF Next, RunStep, SteerStep, AgentStep, Quiescent

(* A session never goes round in a circle: whatever the steering tries     *)
(* again, the process says and the connection does, each step leaves less  *)
(* to do.  With NotStuck this is why a run returns and steering does, for  *)
(* any number of messages, attempts and deltas.                            *)
THEOREM EveryStepLeavesLess ==
  Spec => [][Left' \in Nat /\ Left' < Left]_vars
<1>1. Init => Placed
  BY DEF Init, Placed, Goroutines
<1>2. Init => WireFinite
  BY FS_EmptySet DEF Init, WireFinite
<1>3. RpcInv => TypeOK
  BY DEF RpcInv
<1>. QED
  BY RpcInit, RpcStep, TurnInit, TurnStep, <1>1, PlacedStep, <1>2, <1>3, StepLeavesLess, PTL
     DEF Spec
=============================================================================
