---------------------------- MODULE TopicFilesProofs ----------------------------
(***************************************************************************)
(* Proofs about TopicFiles, for every finite set of topics and all bounds. *)
(***************************************************************************)
EXTENDS TopicFiles, FiniteSetTheorems, TLAPS

USE FilesAssumption

Working == {t \in Topics : pc[t] # "idle"}

(* AwakeWhileWorking is not inductive: a worker that rests must know       *)
(* whether it is the last one, which is what the reference count tells.    *)
AwakeInv ==
  /\ DOMAIN pc = Actors
  /\ refCount = Cardinality(Working)
  /\ inhibitor = "off" <=> refCount = 0

LEMMA WorkingFinite == IsFiniteSet(Working) /\ Cardinality(Working) \in Nat
  BY FS_Subset, FS_CardinalityType DEF Working

LEMMA AwakeFromCount == AwakeInv => AwakeWhileWorking
<1> SUFFICES ASSUME AwakeInv PROVE AwakeWhileWorking
  OBVIOUS
<1>1. Cardinality(Working) = 0 <=> Working = {}
  BY WorkingFinite, FS_EmptySet
<1>2. Working = {} <=> \A t \in Topics : pc[t] = "idle"
  BY DEF Working
<1>. QED
  BY <1>1, <1>2 DEF AwakeInv, AwakeWhileWorking

(* Steps of the poll goroutine, and of a worker that stays at work.        *)
LEMMA StaysAtWork ==
  ASSUME AwakeInv, UNCHANGED lockVars,
         NEW a \in Actors, NEW l, pc' = [pc EXCEPT ![a] = l],
         a \in Topics => pc[a] # "idle" /\ l # "idle"
  PROVE  AwakeInv'
<1>1. DOMAIN pc' = Actors
  BY DEF AwakeInv
<1>2. Working' = Working
  BY DEF AwakeInv, Working, Actors
<1>. QED
  BY <1>1, <1>2 DEF AwakeInv, lockVars

(* Acquire for a worker that goes to work.                                 *)
LEMMA GoesToWork ==
  ASSUME AwakeInv, Acquire, NEW t \in Topics, pc[t] = "idle",
         pc' = [pc EXCEPT ![t] = "prepare"]
  PROVE  AwakeInv'
<1>1. DOMAIN pc' = Actors
  BY DEF AwakeInv
<1>2. Working' = Working \cup {t} /\ t \notin Working
  BY DEF AwakeInv, Working, Actors
<1>3. Cardinality(Working') = Cardinality(Working) + 1
  BY <1>2, WorkingFinite, FS_AddElement
<1>4. refCount \in Nat /\ refCount' = refCount + 1
  BY WorkingFinite DEF AwakeInv, Acquire
<1>5. inhibitor' # "off"
  BY DEF AwakeInv, Acquire
<1>. QED
  BY <1>1, <1>3, <1>4, <1>5 DEF AwakeInv

(* Release for a worker that rests, however its run ends.                  *)
LEMMA GoesToRest ==
  ASSUME AwakeInv, Release, NEW t \in Topics, pc[t] # "idle",
         pc' = [pc EXCEPT ![t] = "idle"]
  PROVE  AwakeInv'
<1>1. DOMAIN pc' = Actors
  BY DEF AwakeInv
<1>2. Working' = Working \ {t} /\ t \in Working
  BY DEF AwakeInv, Working, Actors
<1>3. Cardinality(Working') = Cardinality(Working) - 1
  BY <1>2, WorkingFinite, FS_RemoveElement
<1>4. Cardinality(Working) # 0
  BY <1>2, WorkingFinite, FS_EmptySet
<1>5. refCount \in Nat /\ refCount > 0 /\ refCount' = refCount - 1
  BY <1>4, WorkingFinite DEF AwakeInv, Release
<1>6. inhibitor' = "off" <=> refCount' = 0
  BY <1>5 DEF AwakeInv, Release
<1>. QED
  BY <1>1, <1>3, <1>5, <1>6 DEF AwakeInv

LEMMA AwakeStep == AwakeInv /\ [FilesNext]_filesVars => AwakeInv'
<1> SUFFICES ASSUME AwakeInv, [FilesNext]_filesVars PROVE AwakeInv'
  OBVIOUS
<1>1. Poller \in Actors /\ Poller \notin Topics /\ \A t \in Topics : t \in Actors
  BY DEF Actors
<1>2. ASSUME UNCHANGED <<lockVars, pc>> PROVE AwakeInv'
  BY <1>2 DEF AwakeInv, Working, lockVars
<1>3. ASSUME NEW a \in Actors, Locate(a) PROVE AwakeInv'
  <2>1. a \in Topics => pc[a] # "idle"
    BY <1>1, <1>3 DEF Locate, ToPrepare
  <2>. QED
    BY <1>3, <2>1, StaysAtWork DEF Locate, Goto
<1>4. ASSUME NEW a \in Actors, MakeDir(a) PROVE AwakeInv'
  <2>1. pc[a] = "mkdir" /\ UNCHANGED lockVars
    BY <1>4 DEF MakeDir
  <2>2. \E l \in {"fetch", "steer", "prepare"} : pc' = [pc EXCEPT ![a] = l]
    BY <1>4 DEF MakeDir, Prepared, Goto
  <2>. QED
    BY <2>1, <2>2, StaysAtWork
<1>5. ASSUME NEW a \in Actors, Fetch(a) PROVE AwakeInv'
  <2>1. pc[a] = "fetch" /\ UNCHANGED lockVars
    BY <1>5 DEF Fetch
  <2>2. \E l \in {"steer", "prepare"} : pc' = [pc EXCEPT ![a] = l]
    BY <1>5 DEF Fetch, Prepared, Goto
  <2>. QED
    BY <2>1, <2>2, StaysAtWork
<1>6. ASSUME NEW t \in Topics, TakeJob(t) PROVE AwakeInv'
  BY <1>6, GoesToWork DEF TakeJob, Goto
<1>7. ASSUME NEW t \in Topics, Snapshot(t) PROVE AwakeInv'
  BY <1>1, <1>7, StaysAtWork DEF Snapshot, Goto
<1>8. ASSUME NEW t \in Topics, AgentWrites(t) PROVE AwakeInv'
  BY <1>2, <1>8 DEF AgentWrites, actors
<1>9. ASSUME NEW t \in Topics, ExecuteReturns(t) PROVE AwakeInv'
  BY <1>1, <1>9, StaysAtWork DEF ExecuteReturns, Goto
<1>10. ASSUME NEW t \in Topics, Collect(t) PROVE AwakeInv'
  BY <1>1, <1>10, StaysAtWork DEF Collect, Goto
<1>11. ASSUME NEW t \in Topics, TakeFollowUps(t) PROVE AwakeInv'
  <2>1. pc[t] = "take" /\ UNCHANGED lockVars
    BY <1>11 DEF TakeFollowUps
  <2>2. \E l \in {"deliver", "prepare"} : pc' = [pc EXCEPT ![t] = l]
    BY <1>11 DEF TakeFollowUps, Goto
  <2>. QED
    BY <1>1, <2>1, <2>2, StaysAtWork
<1>12. ASSUME NEW t \in Topics, Deliver(t) PROVE AwakeInv'
  BY <1>12, GoesToRest DEF Deliver, WorkerRests, Goto
<1>13. ASSUME NEW t \in Topics, WorkerFails(t) PROVE AwakeInv'
  <2>1. pc[t] # "idle"
    BY <1>1, <1>13 DEF WorkerFails, NoName, ToPrepare
  <2>. QED
    BY <1>13, <2>1, GoesToRest DEF WorkerFails, WorkerRests, Goto
<1>14. ASSUME NEW t \in Topics, Arrive(t) PROVE AwakeInv'
  <2>1. UNCHANGED lockVars
    BY <1>14 DEF Arrive
  <2>2. UNCHANGED pc \/ pc' = [pc EXCEPT ![Poller] = "locate"]
    BY <1>14 DEF Arrive, Goto
  <2>. QED
    BY <1>1, <1>2, <2>1, <2>2, StaysAtWork
<1>15. CASE PrepareFails
  BY <1>1, <1>15, StaysAtWork DEF PrepareFails, Goto
<1>16. CASE Steer
  BY <1>1, <1>16, StaysAtWork DEF Steer, PollerRests, Goto
<1>17. CASE SteerFails
  BY <1>1, <1>17, StaysAtWork DEF SteerFails, PollerRests, Goto
<1>18. CASE UNCHANGED filesVars
  BY <1>2, <1>18 DEF filesVars, actors
<1>19. CASE FetchBreaksOff
  BY <1>1, <1>19, StaysAtWork DEF FetchBreaksOff, Goto
<1>. QED
  BY <1>3, <1>4, <1>5, <1>6, <1>7, <1>8, <1>9, <1>10, <1>11, <1>12, <1>13,
     <1>14, <1>15, <1>16, <1>17, <1>18, <1>19 DEF FilesNext

LEMMA AwakeInit == FilesInit => AwakeInv
<1> SUFFICES ASSUME FilesInit PROVE AwakeInv
  OBVIOUS
<1>1. refCount = 0 /\ inhibitor = "off" /\ pc = [a \in Actors |-> "idle"]
  BY DEF FilesInit, WakeInit
<1>2. Working = {}
  BY <1>1 DEF Working, Actors
<1>. QED
  BY <1>1, <1>2, FS_EmptySet DEF AwakeInv

(* The machine is kept awake exactly while a worker is at work.            *)
THEOREM AlwaysAwakeWhileWorking == FilesSpec => []AwakeWhileWorking
  BY AwakeInit, AwakeStep, AwakeFromCount, PTL DEF FilesSpec

-----------------------------------------------------------------------------
(* ---- Which message belongs to whom                                      *)
Entries(s) == {s[i] : i \in DOMAIN s}
Pending(t) == Entries(batch[t]) \cup Entries(followUps[t]) \cup ({jobs[t]} \ {0})
Of(m, t) == m \in DOMAIN topicOf /\ topicOf[m] = t

(* A topic's worker and queues hold messages of that topic, and the one    *)
(* the poll goroutine is at work on is in nobody else's hands.             *)
OwnTypes ==
  /\ topicOf \in Seq(Topics) /\ Len(topicOf) <= MaxMessages
  /\ pc \in [Actors -> Places]
  /\ message \in [Actors -> Nat]
  /\ target \in [Actors -> Nat]
  /\ prepared \in [Messages -> Nat]
  /\ row \in [Topics -> Nat]
  /\ batch \in [Topics -> Seq(Nat)]
  /\ followUps \in [Topics -> Seq(Nat)]
  /\ jobs \in [Topics -> Nat]
OwnInv ==
  /\ OwnTypes
  /\ \A t \in Topics : \A m \in Pending(t) : Of(m, t)
  /\ \A t \in Topics : pc[t] # "idle" => batch[t] # <<>>
  /\ \A t \in Topics : pc[t] \in {"mkdir", "fetch"} => Of(message[t], t)
  /\ pc[Poller] # "idle" =>
       /\ message[Poller] \in DOMAIN topicOf
       /\ \A t \in Topics : message[Poller] \notin Pending(t)

LEMMA EntriesFacts ==
  /\ Entries(<<>>) = {}
  /\ \A x \in Nat : <<x>> \in Seq(Nat) /\ <<x>> # <<>> /\ Entries(<<x>>) = {x}
  /\ \A s \in Seq(Nat), x \in Nat :
       Append(s, x) \in Seq(Nat) /\ Entries(Append(s, x)) = Entries(s) \cup {x}
<1>1. Entries(<<>>) = {}
  BY DEF Entries
<1>2. ASSUME NEW x \in Nat
      PROVE  <<x>> \in Seq(Nat) /\ <<x>> # <<>> /\ Entries(<<x>>) = {x}
  BY DEF Entries
<1>3. ASSUME NEW s \in Seq(Nat), NEW x \in Nat
      PROVE  Append(s, x) \in Seq(Nat) /\ Entries(Append(s, x)) = Entries(s) \cup {x}
  <2>1. /\ Append(s, x) \in Seq(Nat)
        /\ DOMAIN Append(s, x) = DOMAIN s \cup {Len(s) + 1}
        /\ \A i \in DOMAIN s : Append(s, x)[i] = s[i]
        /\ Append(s, x)[Len(s) + 1] = x
    OBVIOUS
  <2>. QED
    BY <2>1 DEF Entries
<1>. QED
  BY <1>1, <1>2, <1>3

LEMMA LatestIsPending ==
  ASSUME OwnInv, NEW t \in Topics, pc[t] # "idle"
  PROVE  Latest(t) \in Pending(t) /\ Of(Latest(t), t)
<1>1. batch[t] \in Seq(Nat) /\ batch[t] # <<>>
  BY DEF OwnInv, OwnTypes
<1>2. Len(batch[t]) \in DOMAIN batch[t]
  BY <1>1
<1>. QED
  BY <1>2 DEF Latest, Pending, Entries, OwnInv

(* A step of one actor that leaves the batches and queues as they are.     *)
LEMMA OwnMove ==
  ASSUME OwnInv, UNCHANGED <<topicOf, batch, followUps, jobs>>,
         NEW a \in Actors, NEW l \in Places, pc' = [pc EXCEPT ![a] = l],
         NEW m \in Nat, message' = [message EXCEPT ![a] = m],
         target' \in [Actors -> Nat], prepared' \in [Messages -> Nat],
         row' \in [Topics -> Nat],
         a \in Topics => /\ pc[a] # "idle" \/ l = "idle"
                         /\ l \in {"mkdir", "fetch"} => Of(m, a),
         a = Poller => l = "idle" \/ (pc[a] # "idle" /\ m = message[a])
  PROVE  OwnInv'
<1>1. OwnTypes'
  BY DEF OwnInv, OwnTypes
<1>2. \A t \in Topics : Pending(t)' = Pending(t) /\ \A k : Of(k, t)' = Of(k, t)
  BY DEF Pending, Entries, Of
<1>3. pc \in [Actors -> Places] /\ message \in [Actors -> Nat]
  BY DEF OwnInv, OwnTypes
<1>4. Poller \in Actors /\ Poller \notin Topics /\ \A t \in Topics : t \in Actors
  BY DEF Actors
<1>5. \A t \in Topics : \A k \in Pending(t)' : Of(k, t)'
  BY <1>2 DEF OwnInv
<1>6. \A t \in Topics : pc'[t] # "idle" => batch'[t] # <<>>
  <2>1. \A t \in Topics : pc'[t] # "idle" => pc[t] # "idle"
    BY <1>3, <1>4
  <2>. QED
    BY <2>1 DEF OwnInv
<1>7. ASSUME NEW t \in Topics, pc'[t] \in {"mkdir", "fetch"}
      PROVE  Of(message[t], t)'
  <2>1. CASE t = a
    <3>1. pc'[t] = l /\ message'[t] = m
      BY <1>3, <1>4, <2>1
    <3>2. Of(m, t)
      BY <1>7, <2>1, <3>1
    <3>. QED
      BY <3>1, <3>2 DEF Of
  <2>2. CASE t # a
    <3>1. pc'[t] = pc[t] /\ message'[t] = message[t]
      BY <1>3, <1>4, <2>2
    <3>2. Of(message[t], t)
      BY <1>7, <3>1 DEF OwnInv
    <3>. QED
      BY <3>1, <3>2 DEF Of
  <2>. QED
    BY <2>1, <2>2
<1>8. pc'[Poller] # "idle" =>
        /\ message'[Poller] \in DOMAIN topicOf'
        /\ \A t \in Topics : message'[Poller] \notin Pending(t)'
  <2>1. pc'[Poller] # "idle" => pc[Poller] # "idle" /\ message'[Poller] = message[Poller]
    BY <1>3, <1>4
  <2>. QED
    BY <1>2, <2>1 DEF OwnInv
<1>. QED
  BY <1>1, <1>5, <1>6, <1>7, <1>8 DEF OwnInv

(* Where a prepared message's directory goes.                              *)
LEMMA PreparedTypes ==
  ASSUME OwnInv, NEW a \in Actors, Prepared(a)
  PROVE  /\ target' \in [Actors -> Nat]
         /\ prepared' \in [Messages -> Nat]
         /\ \E l \in {"steer", "prepare"}, m \in Nat :
              /\ pc' = [pc EXCEPT ![a] = l]
              /\ message' = [message EXCEPT ![a] = m]
              /\ a = Poller => m = message[a]
<1>1. /\ target \in [Actors -> Nat] /\ message \in [Actors -> Nat]
      /\ prepared \in [Messages -> Nat]
  BY DEF OwnInv, OwnTypes
<1>2. target' \in [Actors -> Nat] /\ prepared' \in [Messages -> Nat]
  BY <1>1 DEF Prepared
<1>3. CASE a = Poller
  <2>1. message' = [message EXCEPT ![a] = message[a]]
    BY <1>1, <1>3 DEF Prepared
  <2>. QED
    BY <1>1, <1>2, <1>3, <2>1 DEF Prepared, Goto
<1>4. CASE a # Poller
  BY <1>2, <1>4 DEF Prepared, Goto
<1>. QED
  BY <1>3, <1>4

(* What a worker prepares is of its batch.                                 *)
LEMMA ToPrepareIsOwn ==
  ASSUME OwnInv, NEW a \in Actors, NEW m \in ToPrepare(a)
  PROVE  /\ m \in Nat /\ m \in DOMAIN topicOf
         /\ a \in Topics => Of(m, a) /\ pc[a] = "prepare"
         /\ a = Poller => m = message[a] /\ pc[a] = "locate"
<1>1. CASE a = Poller
  <2>1. m = message[a] /\ pc[a] = "locate"
    BY <1>1 DEF ToPrepare
  <2>. QED
    BY <1>1, <2>1 DEF OwnInv, OwnTypes
<1>2. CASE a # Poller
  <2>1. a \in Topics
    BY <1>2 DEF Actors
  <2>2. pc[a] = "prepare" /\ m \in Entries(batch[a])
    BY <1>2 DEF ToPrepare, Unprepared, Entries
  <2>3. Of(m, a)
    BY <2>1, <2>2 DEF OwnInv, Pending
  <2>4. topicOf \in Seq(Topics)
    BY DEF OwnInv, OwnTypes
  <2>5. m \in DOMAIN topicOf
    BY <2>3 DEF Of
  <2>6. m \in Nat
    BY <2>4, <2>5
  <2>. QED
    BY <1>2, <2>1, <2>2, <2>3, <2>5, <2>6
<1>. QED
  BY <1>1, <1>2

(* A worker that rests forgets its batch, and its follow-ups if it fails.  *)
LEMMA OwnRest ==
  ASSUME OwnInv, NEW t \in Topics, NEW seen, WorkerRests(t, seen),
         UNCHANGED <<topicOf, prepared, row, jobs>>,
         followUps' = followUps \/ followUps' = [followUps EXCEPT ![t] = <<>>]
  PROVE  OwnInv'
<1>1. OwnTypes
  BY DEF OwnInv
<1>2. t \in Actors /\ t # Poller /\ Poller \in Actors
  BY DEF Actors
<1>3. /\ batch' = [batch EXCEPT ![t] = <<>>]
      /\ message' = [message EXCEPT ![t] = 0]
      /\ target' = [target EXCEPT ![t] = 0]
      /\ pc' = [pc EXCEPT ![t] = "idle"]
  BY DEF WorkerRests, Goto
<1>4. OwnTypes'
  <2>1. <<>> \in Seq(Nat)
    OBVIOUS
  <2>2. batch' \in [Topics -> Seq(Nat)]
    BY <1>1, <1>3, <2>1 DEF OwnTypes
  <2>3. followUps' \in [Topics -> Seq(Nat)]
    BY <1>1, <2>1 DEF OwnTypes
  <2>4. pc' \in [Actors -> Places]
    BY <1>1, <1>3 DEF OwnTypes, Places
  <2>5. message' \in [Actors -> Nat] /\ target' \in [Actors -> Nat]
    BY <1>1, <1>3 DEF OwnTypes
  <2>. QED
    BY <1>1, <2>2, <2>3, <2>4, <2>5 DEF OwnTypes
<1>5. ASSUME NEW u \in Topics PROVE Pending(u)' \subseteq Pending(u)
  <2>1. batch'[u] = batch[u] \/ batch'[u] = <<>>
    BY <1>1, <1>3 DEF OwnTypes
  <2>2. followUps'[u] = followUps[u] \/ followUps'[u] = <<>>
    BY <1>1 DEF OwnTypes
  <2>. QED
    BY <2>1, <2>2, EntriesFacts DEF Pending
<1>6. \A u \in Topics : \A m \in Pending(u)' : Of(m, u)'
  BY <1>5 DEF OwnInv, Of
<1>7. \A u \in Topics : u # t => pc'[u] = pc[u] /\ batch'[u] = batch[u]
                                 /\ message'[u] = message[u]
  BY <1>1, <1>2, <1>3 DEF OwnTypes, Actors
<1>8. pc'[t] = "idle" /\ pc'[Poller] = pc[Poller] /\ message'[Poller] = message[Poller]
  BY <1>1, <1>2, <1>3 DEF OwnTypes
<1>9. \A u \in Topics : pc'[u] # "idle" => batch'[u] # <<>>
  BY <1>7, <1>8 DEF OwnInv
<1>10. \A u \in Topics : pc'[u] \in {"mkdir", "fetch"} => Of(message[u], u)'
  BY <1>7, <1>8 DEF OwnInv, Of
<1>. QED
  BY <1>4, <1>5, <1>6, <1>8, <1>9, <1>10 DEF OwnInv

(* A worker takes its next batch, from what is pending for its topic.      *)
LEMMA OwnTake ==
  ASSUME OwnInv, NEW t \in Topics,
         UNCHANGED <<topicOf, prepared, row, message, target>>,
         NEW b \in Seq(Nat), b # <<>>, batch' = [batch EXCEPT ![t] = b],
         Entries(b) \subseteq Pending(t),
         jobs' \in [Topics -> Nat], followUps' \in [Topics -> Seq(Nat)],
         \A u \in Topics :
           Entries(followUps'[u]) \cup ({jobs'[u]} \ {0}) \subseteq Pending(u),
         pc' = [pc EXCEPT ![t] = "prepare"]
  PROVE  OwnInv'
<1>1. OwnTypes /\ OwnTypes'
  BY DEF OwnInv, OwnTypes, Places
<1>2. t \in Actors /\ t # Poller /\ Poller \in Actors
  BY DEF Actors
<1>3. ASSUME NEW u \in Topics PROVE Pending(u)' \subseteq Pending(u)
  <2>1. batch'[u] = batch[u] \/ (u = t /\ batch'[u] = b)
    BY <1>1 DEF OwnTypes
  <2>2. Entries(batch'[u]) \subseteq Pending(u)
    BY <2>1 DEF Pending
  <2>. QED
    BY <2>2 DEF Pending, Entries
<1>4. \A u \in Topics : \A m \in Pending(u)' : Of(m, u)'
  BY <1>3 DEF OwnInv, Of
<1>5. \A u \in Topics : u # t => pc'[u] = pc[u] /\ batch'[u] = batch[u]
  BY <1>1, <1>2 DEF OwnTypes, Actors
<1>6. /\ pc'[t] = "prepare" /\ batch'[t] # <<>>
      /\ pc'[Poller] = pc[Poller] /\ message'[Poller] = message[Poller]
  BY <1>1, <1>2 DEF OwnTypes
<1>7. \A u \in Topics : pc'[u] # "idle" => batch'[u] # <<>>
  BY <1>5, <1>6 DEF OwnInv
<1>8. \A u \in Topics : pc'[u] \in {"mkdir", "fetch"} => Of(message[u], u)'
  BY <1>5, <1>6 DEF OwnInv, Of
<1>. QED
  BY <1>1, <1>3, <1>4, <1>6, <1>7, <1>8 DEF OwnInv

(* A new message is a job, a follow-up, or the poll goroutine's.           *)
LEMMA OwnArrive ==
  ASSUME OwnInv, NEW t \in Topics, Arrive(t)
  PROVE  OwnInv'
<1>1. OwnTypes
  BY DEF OwnInv
<1>. PICK m \in Nat : m = Len(topicOf) + 1
  BY <1>1 DEF OwnTypes
<1>2. t \in Actors /\ t # Poller /\ Poller \in Actors
  BY DEF Actors
<1>3. /\ topicOf' = Append(topicOf, t) /\ m <= MaxMessages
      /\ pc[Poller] = "idle"
      /\ UNCHANGED <<prepared, row, target, batch>>
  BY DEF Arrive, disk, work
<1>4. /\ topicOf' \in Seq(Topics) /\ Len(topicOf') <= MaxMessages
      /\ m \notin DOMAIN topicOf /\ m # 0
      /\ DOMAIN topicOf' = DOMAIN topicOf \cup {m}
      /\ topicOf'[m] = t /\ \A k \in DOMAIN topicOf : topicOf'[k] = topicOf[k]
  <2>1. topicOf \in Seq(Topics)
    BY <1>1 DEF OwnTypes
  <2>. QED
    BY <1>3, <2>1
<1>5. \A u \in Topics : \A k : Of(k, u) => Of(k, u)'
  BY <1>4 DEF Of
<1>6. Of(m, t)'
  BY <1>4 DEF Of
<1>7. \A u \in Topics : m \notin Pending(u)
  BY <1>4 DEF OwnInv, Of
<1>8. CASE jobs' = [jobs EXCEPT ![t] = m] /\ UNCHANGED <<pc, message, followUps>>
  <2>1. OwnTypes'
    BY <1>1, <1>3, <1>4, <1>8 DEF OwnTypes
  <2>2. ASSUME NEW u \in Topics
        PROVE  Pending(u)' \subseteq Pending(u) \cup (IF u = t THEN {m} ELSE {})
    BY <1>1, <1>3, <1>8 DEF Pending, Entries, OwnTypes
  <2>3. \A u \in Topics : \A k \in Pending(u)' : Of(k, u)'
    BY <1>5, <1>6, <2>2 DEF OwnInv
  <2>4. \A u \in Topics : pc'[u] \in {"mkdir", "fetch"} => Of(message[u], u)'
    BY <1>4, <1>8 DEF OwnInv, Of
  <2>. QED
    BY <1>3, <1>8, <2>1, <2>3, <2>4 DEF OwnInv
<1>9. CASE /\ followUps' = [followUps EXCEPT ![t] = Append(@, m)]
           /\ UNCHANGED <<pc, message, jobs>>
  <2>1. /\ Append(followUps[t], m) \in Seq(Nat)
        /\ Entries(Append(followUps[t], m)) = Entries(followUps[t]) \cup {m}
    BY <1>1, <1>4, EntriesFacts DEF OwnTypes
  <2>2. OwnTypes'
    BY <1>1, <1>3, <1>4, <1>9, <2>1 DEF OwnTypes
  <2>3. ASSUME NEW u \in Topics
        PROVE  Pending(u)' \subseteq Pending(u) \cup (IF u = t THEN {m} ELSE {})
    <3>1. Entries(followUps'[u]) \subseteq
            Entries(followUps[u]) \cup (IF u = t THEN {m} ELSE {})
      BY <1>1, <1>9, <2>1 DEF OwnTypes
    <3>2. batch'[u] = batch[u] /\ jobs'[u] = jobs[u]
      BY <1>3, <1>9
    <3>. QED
      BY <3>1, <3>2 DEF Pending
  <2>4. \A u \in Topics : \A k \in Pending(u)' : Of(k, u)'
    BY <1>5, <1>6, <2>3 DEF OwnInv
  <2>5. \A u \in Topics : pc'[u] \in {"mkdir", "fetch"} => Of(message[u], u)'
    BY <1>4, <1>9 DEF OwnInv, Of
  <2>. QED
    BY <1>3, <1>9, <2>2, <2>4, <2>5 DEF OwnInv
<1>10. CASE /\ message' = [message EXCEPT ![Poller] = m]
            /\ pc' = [pc EXCEPT ![Poller] = "locate"]
            /\ UNCHANGED <<followUps, jobs>>
  <2>1. OwnTypes'
    BY <1>1, <1>3, <1>4, <1>10 DEF OwnTypes, Places
  <2>2. \A u \in Topics : Pending(u)' = Pending(u)
    BY <1>3, <1>10 DEF Pending, Entries
  <2>3. \A u \in Topics : \A k \in Pending(u)' : Of(k, u)'
    BY <1>5, <2>2 DEF OwnInv
  <2>4. \A u \in Topics : pc'[u] = pc[u] /\ message'[u] = message[u]
    BY <1>1, <1>2, <1>10 DEF OwnTypes, Actors
  <2>5. \A u \in Topics : pc'[u] \in {"mkdir", "fetch"} => Of(message[u], u)'
    BY <1>4, <2>4 DEF OwnInv, Of
  <2>6. message'[Poller] = m
    BY <1>1, <1>2, <1>10 DEF OwnTypes
  <2>7. \A u \in Topics : pc'[u] # "idle" => batch'[u] # <<>>
    BY <1>3, <2>4 DEF OwnInv
  <2>. QED
    BY <1>4, <1>7, <2>1, <2>2, <2>3, <2>5, <2>6, <2>7 DEF OwnInv
<1>. QED
  BY <1>8, <1>9, <1>10 DEF Arrive, Goto, queues

(* A message that could not be steered goes to the follow-ups.             *)
LEMMA OwnSteerFails ==
  ASSUME OwnInv, SteerFails
  PROVE  OwnInv'
<1> DEFINE m == message[Poller]
           t == topicOf[m]
<1>1. OwnTypes
  BY DEF OwnInv
<1>2. Poller \in Actors /\ \A u \in Topics : u \in Actors /\ u # Poller
  BY DEF Actors
<1>3. /\ pc[Poller] = "steer"
      /\ followUps' = [followUps EXCEPT ![t] = Append(@, m)]
      /\ message' = [message EXCEPT ![Poller] = 0]
      /\ target' = [target EXCEPT ![Poller] = 0]
      /\ pc' = [pc EXCEPT ![Poller] = "idle"]
      /\ UNCHANGED <<row, topicOf, prepared, batch, jobs>>
  BY DEF SteerFails, PollerRests, Goto, disk, mail, work
<1>4. m \in Nat /\ m \in DOMAIN topicOf /\ t \in Topics /\ Of(m, t)
  BY <1>1, <1>2, <1>3 DEF OwnInv, OwnTypes, Of
<1> HIDE DEF m, t
<1>5. /\ Append(followUps[t], m) \in Seq(Nat)
      /\ Entries(Append(followUps[t], m)) = Entries(followUps[t]) \cup {m}
  BY <1>1, <1>4, EntriesFacts DEF OwnTypes
<1>6. OwnTypes'
  BY <1>1, <1>3, <1>4, <1>5 DEF OwnTypes, Places
<1>7. ASSUME NEW u \in Topics
      PROVE  Pending(u)' \subseteq Pending(u) \cup (IF u = t THEN {m} ELSE {})
  <2>1. Entries(followUps'[u]) \subseteq
          Entries(followUps[u]) \cup (IF u = t THEN {m} ELSE {})
    BY <1>1, <1>3, <1>5 DEF OwnTypes
  <2>. QED
    BY <1>3, <2>1 DEF Pending
<1>8. \A u \in Topics : \A k \in Pending(u)' : Of(k, u)'
  BY <1>3, <1>4, <1>7 DEF OwnInv, Of
<1>9. \A u \in Topics : pc'[u] = pc[u] /\ message'[u] = message[u]
  BY <1>1, <1>2, <1>3 DEF OwnTypes
<1>10. \A u \in Topics : pc'[u] \in {"mkdir", "fetch"} => Of(message[u], u)'
  BY <1>3, <1>9 DEF OwnInv, Of
<1>11. \A u \in Topics : pc'[u] # "idle" => batch'[u] # <<>>
  BY <1>3, <1>9 DEF OwnInv
<1>12. pc'[Poller] = "idle"
  BY <1>1, <1>2, <1>3 DEF OwnTypes
<1>. QED
  BY <1>6, <1>8, <1>10, <1>11, <1>12 DEF OwnInv

LEMMA OwnStep == OwnInv /\ [FilesNext]_filesVars => OwnInv'
<1> SUFFICES ASSUME OwnInv, [FilesNext]_filesVars PROVE OwnInv'
  OBVIOUS
<1>1. OwnTypes
  BY DEF OwnInv
<1>2. Poller \in Actors /\ Poller \notin Topics /\ \A t \in Topics : t \in Actors
  BY DEF Actors
<1>3. ASSUME NEW a \in Actors, Locate(a) PROVE OwnInv'
  <2>1. PICK m \in ToPrepare(a), d \in Nat :
          message' = [message EXCEPT ![a] = m] /\ target' = [target EXCEPT ![a] = d]
    <3>1. PICK m \in ToPrepare(a) :
            \E d \in IF row[topicOf[m]] # 0 THEN {row[topicOf[m]]} ELSE FirstFree :
              message' = [message EXCEPT ![a] = m] /\ target' = [target EXCEPT ![a] = d]
      BY <1>3 DEF Locate
    <3>2. topicOf[m] \in Topics
      BY <1>1, ToPrepareIsOwn DEF OwnTypes
    <3>3. FirstFree \subseteq Nat /\ row[topicOf[m]] \in Nat
      BY <1>1, <3>2 DEF FirstFree, Free, Dirs, OwnTypes
    <3>. QED
      BY <3>1, <3>3
  <2>2. target' \in [Actors -> Nat]
    BY <1>1, <2>1 DEF OwnTypes
  <2>3. /\ UNCHANGED <<topicOf, prepared, row, batch, followUps, jobs>>
        /\ pc' = [pc EXCEPT ![a] = "mkdir"]
    BY <1>3 DEF Locate, Goto, disk, mail, work, queues
  <2>4. m \in Nat /\ (a \in Topics => Of(m, a) /\ pc[a] = "prepare")
                  /\ (a = Poller => m = message[a] /\ pc[a] = "locate")
    BY <2>1, ToPrepareIsOwn
  <2>. QED
    BY <1>1, <2>1, <2>2, <2>3, <2>4, OwnMove DEF Places, OwnTypes
<1>4. ASSUME NEW a \in Actors, MakeDir(a) PROVE OwnInv'
  <2>1. pc[a] = "mkdir" /\ UNCHANGED <<topicOf, row, batch, followUps, jobs>>
    BY <1>4 DEF MakeDir, mail, work, queues
  <2>2. CASE message[a] \in toFetch
    <3>1. /\ UNCHANGED <<prepared, target>>
          /\ pc' = [pc EXCEPT ![a] = "fetch"]
          /\ message' = [message EXCEPT ![a] = message[a]]
      BY <1>1, <1>4, <2>2 DEF MakeDir, Goto, OwnTypes
    <3>2. message[a] \in Nat /\ (a \in Topics => Of(message[a], a))
      BY <1>1, <2>1 DEF OwnInv, OwnTypes
    <3>. QED
      BY <1>1, <1>2, <2>1, <3>1, <3>2, OwnMove DEF Places, OwnTypes
  <2>3. CASE message[a] \notin toFetch
    <3>1. Prepared(a)
      BY <1>4, <2>3 DEF MakeDir
    <3>. QED
      BY <1>1, <1>2, <2>1, <3>1, PreparedTypes, OwnMove DEF Places, OwnTypes
  <2>. QED
    BY <2>2, <2>3
<1>5. ASSUME NEW a \in Actors, Fetch(a) PROVE OwnInv'
  <2>1. /\ pc[a] = "fetch" /\ Prepared(a)
        /\ UNCHANGED <<topicOf, row, batch, followUps, jobs>>
    BY <1>5 DEF Fetch, disk, queues
  <2>. QED
    BY <1>1, <1>2, <2>1, PreparedTypes, OwnMove DEF Places, OwnTypes
<1>6. ASSUME NEW t \in Topics, TakeJob(t) PROVE OwnInv'
  <2>1. /\ UNCHANGED <<topicOf, prepared, row, message, target, followUps>>
        /\ jobs[t] # 0 /\ batch' = [batch EXCEPT ![t] = <<jobs[t]>>]
        /\ jobs' = [jobs EXCEPT ![t] = 0] /\ pc' = [pc EXCEPT ![t] = "prepare"]
    BY <1>6 DEF TakeJob, Goto, disk, mail
  <2>2. jobs[t] \in Nat /\ jobs' \in [Topics -> Nat]
    BY <1>1, <2>1 DEF OwnTypes
  <2>3. /\ <<jobs[t]>> \in Seq(Nat) /\ <<jobs[t]>> # <<>>
        /\ Entries(<<jobs[t]>>) = {jobs[t]}
    BY <2>2, EntriesFacts
  <2>4. \A u \in Topics :
          Entries(followUps'[u]) \cup ({jobs'[u]} \ {0}) \subseteq Pending(u)
    BY <1>1, <2>1 DEF Pending, OwnTypes
  <2>5. Entries(<<jobs[t]>>) \subseteq Pending(t)
    BY <2>1, <2>3 DEF Pending
  <2>. QED
    BY <1>1, <2>1, <2>2, <2>3, <2>4, <2>5, OwnTake DEF OwnTypes
<1>7. ASSUME NEW t \in Topics, NEW l \in Places \ {"idle", "mkdir", "fetch"}, pc[t] # "idle",
             pc' = [pc EXCEPT ![t] = l], row' \in [Topics -> Nat],
             UNCHANGED <<topicOf, prepared, message, target, batch, followUps, jobs>>
      PROVE  OwnInv'
  <2>1. message' = [message EXCEPT ![t] = message[t]] /\ message[t] \in Nat
    BY <1>1, <1>2, <1>7 DEF OwnTypes
  <2>. QED
    BY <1>1, <1>2, <1>7, <2>1, OwnMove DEF OwnTypes
<1>8. ASSUME NEW t \in Topics, Snapshot(t) PROVE OwnInv'
  BY <1>1, <1>7, <1>8 DEF Snapshot, Goto, disk, mail, queues, Places, OwnTypes
<1>9. ASSUME UNCHANGED <<topicOf, pc, message, target, prepared, row, batch, followUps, jobs>>
      PROVE  OwnInv'
  <2>1. OwnTypes'
    BY <1>1, <1>9 DEF OwnTypes
  <2>2. \A u \in Topics : Pending(u)' = Pending(u) /\ \A m : Of(m, u)' = Of(m, u)
    BY <1>9 DEF Pending, Entries, Of
  <2>3. \A u \in Topics : pc'[u] \in {"mkdir", "fetch"} => Of(message[u], u)'
    BY <1>9 DEF OwnInv, Of
  <2>. QED
    BY <1>9, <2>1, <2>2, <2>3 DEF OwnInv
<1>20. ASSUME NEW t \in Topics, AgentWrites(t) PROVE OwnInv'
  BY <1>9, <1>20 DEF AgentWrites, mail, actors, queues
<1>10. ASSUME NEW t \in Topics, ExecuteReturns(t) PROVE OwnInv'
  <2>1. pc[t] = "turn" /\ pc' = [pc EXCEPT ![t] = "collect"]
        /\ UNCHANGED <<topicOf, prepared, message, target, batch, followUps, jobs>>
    BY <1>10 DEF ExecuteReturns, Goto, mail, work, queues
  <2>2. RunDir(t) \in Nat
    <3>1. Latest(t) \in DOMAIN topicOf
      BY <2>1, LatestIsPending DEF Of
    <3>2. DOMAIN topicOf = 1..Len(topicOf) /\ Len(topicOf) \in Nat
      BY <1>1 DEF OwnTypes
    <3>. QED
      BY <1>1, <3>1, <3>2 DEF RunDir, OwnTypes, Messages
  <2>3. row' \in [Topics -> Nat]
    BY <1>1, <1>10, <2>2 DEF ExecuteReturns, OwnTypes
  <2>. QED
    BY <1>7, <2>1, <2>3 DEF Places
<1>11. ASSUME NEW t \in Topics, Collect(t) PROVE OwnInv'
  BY <1>1, <1>7, <1>11 DEF Collect, Goto, disk, mail, queues, Places, OwnTypes
<1>12. ASSUME NEW t \in Topics, TakeFollowUps(t) PROVE OwnInv'
  <2>1. pc[t] = "take" /\ UNCHANGED <<topicOf, prepared, row, message, target, jobs>>
    BY <1>12 DEF TakeFollowUps, disk, mail
  <2>2. CASE followUps[t] = <<>>
    <3>1. pc' = [pc EXCEPT ![t] = "deliver"] /\ UNCHANGED <<batch, followUps>>
      BY <1>12, <2>2 DEF TakeFollowUps, Goto
    <3>. QED
      BY <1>1, <1>7, <2>1, <3>1 DEF Places, OwnTypes
  <2>3. CASE followUps[t] # <<>>
    <3>1. /\ batch' = [batch EXCEPT ![t] = followUps[t]]
          /\ followUps' = [followUps EXCEPT ![t] = <<>>]
          /\ pc' = [pc EXCEPT ![t] = "prepare"]
      BY <1>12, <2>3 DEF TakeFollowUps, Goto
    <3>2. followUps[t] \in Seq(Nat) /\ Entries(followUps[t]) \subseteq Pending(t)
      BY <1>1 DEF OwnTypes, Pending
    <3>3. followUps' \in [Topics -> Seq(Nat)]
      <4>1. <<>> \in Seq(Nat)
        OBVIOUS
      <4>. QED
        BY <1>1, <3>1, <4>1 DEF OwnTypes
    <3>4. ASSUME NEW u \in Topics
          PROVE  Entries(followUps'[u]) \cup ({jobs'[u]} \ {0}) \subseteq Pending(u)
      <4>1. followUps'[u] = followUps[u] \/ followUps'[u] = <<>>
        BY <1>1, <3>1 DEF OwnTypes
      <4>. QED
        BY <2>1, <4>1, EntriesFacts DEF Pending
    <3>. QED
      BY <1>1, <2>1, <2>3, <3>1, <3>2, <3>3, <3>4, OwnTake DEF OwnTypes
  <2>. QED
    BY <2>2, <2>3
<1>13. ASSUME NEW t \in Topics, Deliver(t) PROVE OwnInv'
  BY <1>13, OwnRest DEF Deliver, disk, mail, queues
<1>14. ASSUME NEW t \in Topics, WorkerFails(t) PROVE OwnInv'
  <2>1. PICK seen : WorkerRests(t, seen)
    BY <1>14 DEF WorkerFails
  <2>. QED
    BY <1>14, <2>1, OwnRest DEF WorkerFails, mail
<1>15. ASSUME NEW t \in Topics, Arrive(t) PROVE OwnInv'
  BY <1>15, OwnArrive
<1>16. CASE PrepareFails \/ FetchBreaksOff
  <2>1. pc[Poller] # "idle"
    BY <1>2, <1>16 DEF PrepareFails, FetchBreaksOff, NoName, ToPrepare
  <2>2. /\ pc' = [pc EXCEPT ![Poller] = "steer"]
        /\ target' = [target EXCEPT ![Poller] = 0]
        /\ UNCHANGED <<topicOf, prepared, row, message, batch, followUps, jobs>>
    BY <1>16 DEF PrepareFails, FetchBreaksOff, Goto, disk, mail, work, queues
  <2>3. message' = [message EXCEPT ![Poller] = message[Poller]] /\ message[Poller] \in Nat
    BY <1>1, <1>2, <2>2 DEF OwnTypes
  <2>4. target' \in [Actors -> Nat]
    BY <1>1, <2>2 DEF OwnTypes
  <2>. QED
    BY <1>1, <1>2, <2>1, <2>2, <2>3, <2>4, OwnMove DEF OwnTypes, Places
<1>17. CASE Steer
  <2>1. /\ pc' = [pc EXCEPT ![Poller] = "idle"]
        /\ message' = [message EXCEPT ![Poller] = 0]
        /\ target' = [target EXCEPT ![Poller] = 0]
        /\ UNCHANGED <<topicOf, prepared, row, batch, followUps, jobs>>
    BY <1>17 DEF Steer, PollerRests, Goto, disk, mail, work, queues
  <2>2. target' \in [Actors -> Nat]
    BY <1>1, <2>1 DEF OwnTypes
  <2>. QED
    BY <1>1, <1>2, <2>1, <2>2, OwnMove DEF OwnTypes, Places
<1>18. CASE SteerFails
  BY <1>18, OwnSteerFails
<1>19. CASE UNCHANGED filesVars
  BY <1>19 DEF filesVars, disk, mail, actors, work, queues, OwnInv, OwnTypes,
     Pending, Entries, Of
<1>. QED
  BY <1>3, <1>4, <1>5, <1>6, <1>8, <1>10, <1>11, <1>12, <1>13, <1>14,
     <1>15, <1>16, <1>17, <1>18, <1>19, <1>20 DEF FilesNext

LEMMA OwnInit == FilesInit => OwnInv
<1> SUFFICES ASSUME FilesInit PROVE OwnInv
  OBVIOUS
<1>1. <<>> \in Seq(Nat) /\ <<>> \in Seq(Topics) /\ Len(<<>>) = 0
  OBVIOUS
<1>2. OwnTypes
  BY <1>1 DEF FilesInit, OwnTypes, Places
<1>3. \A t \in Topics : Pending(t) = {}
  BY EntriesFacts DEF FilesInit, Pending
<1>4. pc[Poller] = "idle" /\ \A t \in Topics : pc[t] = "idle"
  BY DEF FilesInit, Actors
<1>. QED
  BY <1>2, <1>3, <1>4 DEF OwnInv

-----------------------------------------------------------------------------
(* ---- What goes back to the chat                                         *)
AtTurn(t) == pc[t] \in {"turn", "collect"}
NotOwn(f, t) ==
  /\ f[2] \in DOMAIN topicOf \cup {Output}
  /\ Of(f[2], t) => f[2] \in byPoller

(* While a turn is on, what the agent has made is still to be found, and   *)
(* what has changed since the snapshot is not the topic's own attachment.  *)
FileInv ==
  /\ DOMAIN changed = Topics /\ DOMAIN collected = Topics
  /\ DOMAIN skipped = Topics /\ DOMAIN made = Topics /\ DOMAIN named = Topics
  /\ \A t \in Topics : \A f \in made[t] :
       f \in collected[t] \cup skipped[t] \/ (AtTurn(t) /\ f \in Found(t))
  /\ \A t \in Topics : \A f \in (collected[t] \cup skipped[t]) \ named[t] : NotOwn(f, t)
  /\ \A t \in Topics : AtTurn(t) => \A f \in changed[t] : NotOwn(f, t)

LEMMA FileGoals == OwnInv /\ FileInv => GeneratedIsReturned /\ OwnAttachmentsStay
  BY DEF FileInv, AtTurn, GeneratedIsReturned, OwnAttachmentsStay, NotOwn, Of

(* A message's topic does not change, and Output is no message.            *)
LEMMA NotOwnStays ==
  ASSUME OwnInv, OwnInv', byPoller \subseteq byPoller',
         \A k \in DOMAIN topicOf : k \in DOMAIN topicOf' /\ topicOf'[k] = topicOf[k],
         NEW t \in Topics, NEW f, NotOwn(f, t)
  PROVE  NotOwn(f, t)'
<1>1. topicOf' \in Seq(Topics)
  BY DEF OwnInv, OwnTypes
<1>2. Output \notin DOMAIN topicOf'
  BY <1>1 DEF Output
<1>. QED
  BY <1>2 DEF NotOwn, Of, Output

(* Steps that leave what is collected as it is, and end or begin no turn.  *)
LEMMA FileKept ==
  ASSUME OwnInv, OwnInv', FileInv, byPoller \subseteq byPoller',
         \A k \in DOMAIN topicOf : k \in DOMAIN topicOf' /\ topicOf'[k] = topicOf[k],
         UNCHANGED <<collected, skipped, made, named>>, DOMAIN changed' = Topics,
         \A t \in Topics : AtTurn(t)' <=> AtTurn(t),
         \A t \in Topics : AtTurn(t) =>
           /\ RunDir(t)' = RunDir(t)
           /\ changed[t] \subseteq changed'[t]
           /\ \A f \in changed'[t] \ changed[t] : NotOwn(f, t)'
  PROVE  FileInv'
<1>1. \A t \in Topics : \A f : NotOwn(f, t) => NotOwn(f, t)'
  BY NotOwnStays
<1>2. ASSUME NEW t \in Topics, NEW f \in made'[t]
      PROVE  f \in collected'[t] \cup skipped'[t] \/ (AtTurn(t)' /\ f \in Found(t)')
  BY <1>2 DEF FileInv, Found
<1>3. \A t \in Topics : \A f \in (collected'[t] \cup skipped'[t]) \ named'[t] : NotOwn(f, t)'
  BY <1>1 DEF FileInv
<1>4. \A t \in Topics : AtTurn(t)' => \A f \in changed'[t] : NotOwn(f, t)'
  BY <1>1 DEF FileInv
<1>. QED
  BY <1>2, <1>3, <1>4 DEF FileInv

(* Nobody prepares the message of somebody else's turn.                    *)
LEMMA RunDirStays ==
  ASSUME OwnInv, NEW a \in Actors, pc[a] \in {"mkdir", "fetch"}, Prepared(a),
         UNCHANGED batch, NEW t \in Topics, AtTurn(t)
  PROVE  RunDir(t)' = RunDir(t)
<1>1. OwnTypes /\ a # t
  BY DEF OwnInv, AtTurn
<1>2. Latest(t) \in Pending(t) /\ Of(Latest(t), t)
  BY LatestIsPending DEF AtTurn
<1>3. message[a] # Latest(t)
  <2>1. CASE a = Poller
    BY <1>2, <2>1 DEF OwnInv
  <2>2. CASE a \in Topics
    BY <1>1, <1>2, <2>2 DEF OwnInv, Of
  <2>. QED
    BY <2>1, <2>2 DEF Actors
<1>4. prepared' = [prepared EXCEPT ![message[a]] = target[a]]
  BY DEF Prepared
<1>5. prepared'[Latest(t)] = prepared[Latest(t)]
  BY <1>1, <1>3, <1>4 DEF OwnTypes
<1>. QED
  BY <1>5 DEF RunDir, Latest

LEMMA FileStep ==
  OwnInv /\ OwnInv' /\ FileInv /\ [FilesNext]_filesVars => FileInv'
<1> SUFFICES ASSUME OwnInv, OwnInv', FileInv, [FilesNext]_filesVars PROVE FileInv'
  OBVIOUS
<1>1. OwnTypes
  BY DEF OwnInv
<1>2. Poller \in Actors /\ Poller \notin Topics /\ \A t \in Topics : t \in Actors
  BY DEF Actors
<1>3. ASSUME UNCHANGED <<topicOf, changed, collected, skipped, made, named, byPoller>>,
             \A t \in Topics : AtTurn(t)' <=> AtTurn(t),
             \A t \in Topics : AtTurn(t) => RunDir(t)' = RunDir(t)
      PROVE  FileInv'
  <2>1. DOMAIN changed' = Topics /\ \A t \in Topics : changed[t] \subseteq changed'[t]
    BY <1>3 DEF FileInv
  <2>2. \A t \in Topics : changed'[t] \ changed[t] = {}
    BY <1>3
  <2>. QED
    BY <1>3, <2>1, <2>2, FileKept
<1>4. ASSUME NEW a \in Actors, NEW l \in Places, pc' = [pc EXCEPT ![a] = l],
             a \in Topics => (pc[a] \in {"turn", "collect"} <=> l \in {"turn", "collect"})
      PROVE  \A t \in Topics : AtTurn(t)' <=> AtTurn(t)
  BY <1>1, <1>2, <1>4 DEF OwnTypes, AtTurn
<1>5. ASSUME UNCHANGED <<batch, prepared>>
      PROVE  \A t \in Topics : RunDir(t)' = RunDir(t)
  BY <1>5 DEF RunDir, Latest
<1>6. ASSUME NEW a \in Actors, Locate(a) PROVE FileInv'
  <2>1. pc' = [pc EXCEPT ![a] = "mkdir"] /\ (a \in Topics => pc[a] = "prepare")
    BY <1>2, <1>6 DEF Locate, Goto, ToPrepare
  <2>2. UNCHANGED <<topicOf, batch, prepared, changed, collected, skipped, made, named, byPoller>>
    BY <1>6 DEF Locate, mail, work
  <2>3. \A t \in Topics : AtTurn(t)' <=> AtTurn(t)
    BY <1>4, <2>1 DEF Places
  <2>. QED
    BY <1>3, <1>5, <2>2, <2>3
<1>7. ASSUME NEW a \in Actors, MakeDir(a) PROVE FileInv'
  <2>1. pc[a] = "mkdir"
        /\ UNCHANGED <<topicOf, batch, changed, collected, skipped, made, named, byPoller>>
    BY <1>7 DEF MakeDir, mail, work, notes
  <2>2. (UNCHANGED prepared /\ Goto(a, "fetch")) \/ Prepared(a)
    BY <1>7 DEF MakeDir
  <2>3. \E l \in {"fetch", "steer", "prepare"} : pc' = [pc EXCEPT ![a] = l]
    BY <2>2 DEF Prepared, Goto
  <2>4. \A t \in Topics : AtTurn(t)' <=> AtTurn(t)
    BY <1>4, <2>1, <2>3 DEF Places
  <2>5. \A t \in Topics : AtTurn(t) => RunDir(t)' = RunDir(t)
    BY <1>5, <2>1, <2>2, RunDirStays
  <2>. QED
    BY <1>3, <2>1, <2>4, <2>5
<1>8. ASSUME NEW a \in Actors, Fetch(a) \/ (a = Poller /\ FetchBreaksOff) PROVE FileInv'
  <2>1. /\ pc[a] = "fetch" /\ ((UNCHANGED prepared /\ Goto(a, "steer")) \/ Prepared(a))
        /\ UNCHANGED <<topicOf, batch, collected, skipped, made, named>>
        /\ Touch(<<target[a], message[a]>>)
        /\ byPoller' = IF a = Poller THEN byPoller \cup {message[a]} ELSE byPoller
    BY <1>8 DEF Fetch, FetchBreaksOff, mail
  <2>2. \E l \in {"steer", "prepare"} : pc' = [pc EXCEPT ![a] = l]
    BY <2>1 DEF Prepared, Goto
  <2>3. \A t \in Topics : AtTurn(t)' <=> AtTurn(t)
    BY <1>4, <2>1, <2>2 DEF Places
  <2>4. \A t \in Topics : AtTurn(t) => RunDir(t)' = RunDir(t)
    BY <1>5, <2>1, RunDirStays
  <2>5. message[a] \in DOMAIN topicOf /\ (a \in Topics => Of(message[a], a))
    BY <1>2, <2>1 DEF OwnInv, Actors, Of
  <2>6. ASSUME NEW t \in Topics, AtTurn(t), NEW f \in changed'[t] \ changed[t]
        PROVE  NotOwn(f, t)'
    <3>1. f = <<target[a], message[a]>>
      BY <2>1, <2>6 DEF Touch, Touched
    <3>2. f[2] = message[a]
      BY <3>1
    <3>3. a = Poller \/ (a \in Topics /\ a # t)
      BY <2>1, <2>6 DEF AtTurn, Actors
    <3>4. Of(f[2], t) => f[2] \in byPoller'
      BY <2>1, <2>5, <3>2, <3>3 DEF Of
    <3>. QED
      BY <2>1, <2>5, <3>2, <3>4 DEF NotOwn, Of
  <2>7. DOMAIN changed' = Topics /\ \A t \in Topics : changed[t] \subseteq changed'[t]
    BY <2>1 DEF Touch, Touched
  <2>8. byPoller \subseteq byPoller'
    BY <2>1
  <2>. QED
    BY <2>1, <2>3, <2>4, <2>6, <2>7, <2>8, FileKept
<1>9. ASSUME NEW t \in Topics, TakeJob(t) PROVE FileInv'
  <2>1. /\ pc[t] = "idle" /\ pc' = [pc EXCEPT ![t] = "prepare"]
        /\ batch' = [batch EXCEPT ![t] = <<jobs[t]>>]
        /\ UNCHANGED <<topicOf, prepared, changed, collected, skipped, made, named, byPoller>>
    BY <1>9 DEF TakeJob, Goto, mail, notes
  <2>2. \A u \in Topics : AtTurn(u)' <=> AtTurn(u)
    BY <1>2, <1>4, <2>1 DEF Places
  <2>3. \A u \in Topics : AtTurn(u) => RunDir(u)' = RunDir(u)
    BY <1>1, <2>1 DEF AtTurn, RunDir, Latest, OwnTypes
  <2>. QED
    BY <1>3, <2>1, <2>2, <2>3
<1>10. ASSUME UNCHANGED <<topicOf, byPoller>>
       PROVE  \A t \in Topics : \A f : NotOwn(f, t)' <=> NotOwn(f, t)
  BY <1>10 DEF NotOwn, Of
<1>11. ASSUME NEW t \in Topics, Snapshot(t) PROVE FileInv'
  <2>1. /\ pc[t] = "prepare" /\ pc' = [pc EXCEPT ![t] = "turn"]
        /\ changed' = [changed EXCEPT ![t] = {}]
        /\ UNCHANGED <<topicOf, batch, prepared, collected, skipped, made, named, byPoller>>
    BY <1>11 DEF Snapshot, Goto, mail, notes
  <2>2. \A u \in Topics : u # t => (AtTurn(u)' <=> AtTurn(u)) /\ changed'[u] = changed[u]
    BY <1>1, <1>2, <2>1 DEF AtTurn, OwnTypes, FileInv
  <2>3. changed'[t] = {} /\ DOMAIN changed' = Topics /\ ~AtTurn(t)
    BY <2>1 DEF FileInv, AtTurn
  <2>4. \A u \in Topics : u # t => Found(u)' = Found(u)
    BY <1>5, <2>1, <2>2 DEF Found
  <2>5. \A u \in Topics : \A f \in made'[u] :
          f \in collected'[u] \cup skipped'[u] \/ (AtTurn(u)' /\ f \in Found(u)')
    BY <2>1, <2>2, <2>3, <2>4 DEF FileInv
  <2>6. \A u \in Topics : AtTurn(u)' => \A f \in changed'[u] : NotOwn(f, u)'
    BY <1>10, <2>1, <2>2, <2>3 DEF FileInv
  <2>. QED
    BY <1>10, <2>1, <2>3, <2>5, <2>6 DEF FileInv
<1>12. ASSUME NEW t \in Topics, AgentWrites(t) PROVE FileInv'
  <2>0. PICK g : g = <<RunDir(t), Output>>
    OBVIOUS
  <2>1. /\ pc[t] = "turn" /\ Touch(g)
        /\ made' = [made EXCEPT ![t] = @ \cup {g}]
        /\ UNCHANGED <<topicOf, pc, batch, prepared, collected, skipped, named, byPoller>>
    BY <2>0, <1>12 DEF AgentWrites, mail, actors, notes
  <2>2. g[1] = RunDir(t) /\ g[2] = Output
    BY <2>0
  <2>3. RunDir(t)' = RunDir(t) /\ \A u \in Topics : RunDir(u)' = RunDir(u)
    BY <1>5, <2>1
  <2>4. /\ DOMAIN changed' = Topics
        /\ \A u \in Topics : /\ changed[u] \subseteq changed'[u]
                             /\ changed'[u] \subseteq changed[u] \cup {g}
        /\ g \in changed'[t]
    BY <2>1, <2>2 DEF Touch, Touched, Watched
  <2>5. \A u \in Topics : AtTurn(u)' <=> AtTurn(u)
    BY <2>1 DEF AtTurn
  <2>6. DOMAIN made' = Topics /\ \A u \in Topics :
          made'[u] \subseteq made[u] \cup (IF u = t THEN {g} ELSE {})
    BY <2>1 DEF FileInv
  <2>7. g \in Found(t)' /\ AtTurn(t)'
    BY <2>1, <2>2, <2>3, <2>4, <2>5 DEF Found, AtTurn
  <2>8. \A u \in Topics : Found(u) \subseteq Found(u)'
    BY <2>3, <2>4 DEF Found
  <2>9. ASSUME NEW u \in Topics, NEW f \in made'[u]
        PROVE  f \in collected'[u] \cup skipped'[u] \/ (AtTurn(u)' /\ f \in Found(u)')
    <3>1. CASE f \in made[u]
      BY <2>1, <2>5, <2>8, <3>1 DEF FileInv
    <3>2. CASE f \notin made[u]
      BY <2>6, <2>7, <2>9, <3>2
    <3>. QED
      BY <3>1, <3>2
  <2>10. \A u \in Topics : NotOwn(g, u)'
    <3>1. topicOf' \in Seq(Topics)
      BY DEF OwnInv, OwnTypes
    <3>2. Output \notin DOMAIN topicOf'
      BY <3>1 DEF Output
    <3>. QED
      BY <2>2, <3>2 DEF NotOwn, Of
  <2>11. \A u \in Topics : AtTurn(u)' => \A f \in changed'[u] : NotOwn(f, u)'
    BY <1>10, <2>1, <2>4, <2>5, <2>10 DEF FileInv
  <2>12. \A u \in Topics : \A f \in (collected'[u] \cup skipped'[u]) \ named'[u] : NotOwn(f, u)'
    BY <1>10, <2>1 DEF FileInv
  <2>. QED
    BY <2>1, <2>4, <2>6, <2>9, <2>11, <2>12 DEF FileInv
<1>13. ASSUME NEW t \in Topics, ExecuteReturns(t) PROVE FileInv'
  <2>1. /\ pc[t] = "turn" /\ pc' = [pc EXCEPT ![t] = "collect"]
        /\ UNCHANGED <<topicOf, batch, prepared, changed, collected, skipped, made, named, byPoller>>
    BY <1>13 DEF ExecuteReturns, Goto, mail, work, notes
  <2>2. \A u \in Topics : AtTurn(u)' <=> AtTurn(u)
    BY <1>2, <1>4, <2>1 DEF Places
  <2>. QED
    BY <1>3, <1>5, <2>1, <2>2
<1>14. ASSUME NEW t \in Topics, Collect(t) PROVE FileInv'
  <2>1. PICK links \in Links(t) :
          /\ collected' = [collected EXCEPT ![t] = @ \cup Artifacts(t) \cup links]
          /\ named' = [named EXCEPT ![t] = @ \cup links]
    BY <1>14 DEF Collect
  <2>2. /\ pc[t] = "collect" /\ pc' = [pc EXCEPT ![t] = "take"]
        /\ skipped' = [skipped EXCEPT ![t] = @ \cup (Found(t) \ Artifacts(t))]
        /\ changed' = [changed EXCEPT ![t] = {}]
        /\ UNCHANGED <<topicOf, batch, prepared, made, byPoller>>
    BY <1>14 DEF Collect, Goto, mail, notes
  <2>3. /\ DOMAIN collected' = Topics /\ DOMAIN skipped' = Topics
        /\ DOMAIN changed' = Topics /\ DOMAIN made' = Topics /\ DOMAIN named' = Topics
        /\ collected'[t] = collected[t] \cup Artifacts(t) \cup links
        /\ named'[t] = named[t] \cup links
        /\ skipped'[t] = skipped[t] \cup (Found(t) \ Artifacts(t))
    BY <2>1, <2>2 DEF FileInv
  <2>4. \A u \in Topics : u # t =>
          /\ collected'[u] = collected[u] /\ skipped'[u] = skipped[u] /\ named'[u] = named[u]
          /\ changed'[u] = changed[u] /\ (AtTurn(u)' <=> AtTurn(u))
    BY <1>1, <1>2, <2>1, <2>2 DEF FileInv, AtTurn, OwnTypes
  <2>5. AtTurn(t) /\ ~AtTurn(t)'
    BY <1>1, <1>2, <2>2 DEF AtTurn, OwnTypes
  <2>6. \A u \in Topics : u # t => Found(u)' = Found(u)
    BY <1>5, <2>2, <2>4 DEF Found
  <2>7. ASSUME NEW u \in Topics, NEW f \in made'[u]
        PROVE  f \in collected'[u] \cup skipped'[u] \/ (AtTurn(u)' /\ f \in Found(u)')
    <3>1. f \in collected[u] \cup skipped[u] \/ (AtTurn(u) /\ f \in Found(u))
      BY <2>2, <2>7 DEF FileInv
    <3>. QED
      BY <2>3, <2>4, <2>6, <3>1
  <2>9. \A f \in Found(t) : NotOwn(f, t)
    BY <2>5 DEF FileInv, Found
  <2>10. Artifacts(t) \subseteq Found(t)
    BY DEF Artifacts
  <2>12. \A f \in (collected'[t] \cup skipped'[t]) \ named'[t] : NotOwn(f, t)
    BY <2>3, <2>9, <2>10 DEF FileInv
  <2>13. \A u \in Topics : \A f \in (collected'[u] \cup skipped'[u]) \ named'[u] : NotOwn(f, u)'
    BY <1>10, <2>2, <2>4, <2>12 DEF FileInv
  <2>14. \A u \in Topics : AtTurn(u)' => \A f \in changed'[u] : NotOwn(f, u)'
    BY <1>10, <2>2, <2>4, <2>5 DEF FileInv
  <2>. QED
    BY <2>3, <2>7, <2>13, <2>14 DEF FileInv
<1>15. ASSUME NEW t \in Topics, TakeFollowUps(t) PROVE FileInv'
  <2>1. /\ pc[t] = "take"
        /\ UNCHANGED <<topicOf, prepared, changed, collected, skipped, made, named, byPoller>>
    BY <1>15 DEF TakeFollowUps, mail, notes
  <2>2. \E l \in {"deliver", "prepare"} : pc' = [pc EXCEPT ![t] = l]
    BY <1>15 DEF TakeFollowUps, Goto
  <2>3. \A u \in Topics : AtTurn(u)' <=> AtTurn(u)
    BY <1>2, <1>4, <2>1, <2>2 DEF Places
  <2>4. UNCHANGED batch \/ batch' = [batch EXCEPT ![t] = followUps[t]]
    BY <1>15 DEF TakeFollowUps
  <2>5. \A u \in Topics : AtTurn(u) => batch'[u] = batch[u]
    BY <1>1, <2>1, <2>4 DEF AtTurn, OwnTypes
  <2>6. \A u \in Topics : AtTurn(u) => RunDir(u)' = RunDir(u)
    BY <2>1, <2>5 DEF RunDir, Latest
  <2>. QED
    BY <1>3, <2>1, <2>3, <2>6
<1>16. ASSUME NEW t \in Topics, NEW seen, WorkerRests(t, seen),
              DOMAIN seen = Topics,
              \A u \in Topics \ {t} : changed[u] \subseteq seen[u],
              \A u \in Topics \ {t} : AtTurn(u) =>
                \A f \in seen[u] \ changed[u] : NotOwn(f, u),
              UNCHANGED <<topicOf, prepared, byPoller>>
       PROVE  FileInv'
  <2>1. /\ pc' = [pc EXCEPT ![t] = "idle"] /\ batch' = [batch EXCEPT ![t] = <<>>]
        /\ changed' = [seen EXCEPT ![t] = {}]
        /\ collected' = [collected EXCEPT ![t] = {}]
        /\ skipped' = [skipped EXCEPT ![t] = {}]
        /\ made' = [made EXCEPT ![t] = {}]
        /\ named' = [named EXCEPT ![t] = {}]
    BY <1>16 DEF WorkerRests, Clear, Goto
  <2>2. /\ DOMAIN changed' = Topics /\ DOMAIN collected' = Topics
        /\ DOMAIN skipped' = Topics /\ DOMAIN made' = Topics /\ DOMAIN named' = Topics
        /\ changed'[t] = {} /\ collected'[t] = {} /\ skipped'[t] = {} /\ made'[t] = {}
    BY <1>16, <2>1 DEF FileInv
  <2>3. \A u \in Topics : u # t =>
          /\ collected'[u] = collected[u] /\ skipped'[u] = skipped[u]
          /\ changed'[u] = seen[u] /\ made'[u] = made[u] /\ named'[u] = named[u]
    BY <1>16, <2>1 DEF FileInv
  <2>4. \A u \in Topics : u # t => (AtTurn(u)' <=> AtTurn(u)) /\ Found(u) \subseteq Found(u)'
    <3>1. \A u \in Topics : u # t => pc'[u] = pc[u] /\ batch'[u] = batch[u]
      BY <1>1, <1>2, <2>1 DEF OwnTypes
    <3>. QED
      BY <1>16, <2>3, <3>1 DEF AtTurn, Found, RunDir, Latest
  <2>5. \A u \in Topics : \A f \in made'[u] :
          f \in collected'[u] \cup skipped'[u] \/ (AtTurn(u)' /\ f \in Found(u)')
    BY <2>2, <2>3, <2>4 DEF FileInv
  <2>6. \A u \in Topics : \A f \in (collected'[u] \cup skipped'[u]) \ named'[u] : NotOwn(f, u)'
    BY <1>10, <1>16, <2>2, <2>3 DEF FileInv
  <2>7. \A u \in Topics : AtTurn(u)' => \A f \in changed'[u] : NotOwn(f, u)'
    BY <1>10, <1>16, <2>2, <2>3, <2>4 DEF FileInv
  <2>. QED
    BY <2>2, <2>5, <2>6, <2>7 DEF FileInv
<1>17. ASSUME NEW t \in Topics, Deliver(t) PROVE FileInv'
  <2>1. WorkerRests(t, changed) /\ UNCHANGED <<topicOf, prepared, byPoller>>
    BY <1>17 DEF Deliver, mail, notes
  <2>2. DOMAIN changed = Topics
    BY DEF FileInv
  <2>. QED
    BY <1>16, <2>1, <2>2
<1>18. ASSUME NEW t \in Topics, WorkerFails(t) PROVE FileInv'
  <2>1. UNCHANGED <<topicOf, prepared, byPoller>> /\ DOMAIN changed = Topics
    BY <1>18 DEF WorkerFails, mail, notes, FileInv
  <2>2. CASE WorkerRests(t, changed)
    BY <1>16, <2>1, <2>2
  <2>3. CASE pc[t] = "fetch" /\ WorkerRests(t, Touched(<<target[t], message[t]>>))
    <3> DEFINE g == <<target[t], message[t]>>
    <3>1. Of(message[t], t)
      BY <2>3 DEF OwnInv
    <3>2. \A u \in Topics \ {t} : NotOwn(g, u)
      BY <3>1 DEF NotOwn, Of
    <3>3. /\ DOMAIN Touched(g) = Topics
          /\ \A u \in Topics : /\ changed[u] \subseteq Touched(g)[u]
                               /\ Touched(g)[u] \ changed[u] \subseteq {g}
      BY DEF Touched
    <3>. QED
      BY <1>16, <2>1, <2>3, <3>2, <3>3
  <2>. QED
    BY <1>18, <2>2, <2>3 DEF WorkerFails
<1>19. ASSUME NEW t \in Topics, Arrive(t) PROVE FileInv'
  <2>1. /\ topicOf' = Append(topicOf, t)
        /\ UNCHANGED <<prepared, batch, changed, collected, skipped, made, named, byPoller>>
    BY <1>19 DEF Arrive, work, notes
  <2>2. \A k \in DOMAIN topicOf : k \in DOMAIN topicOf' /\ topicOf'[k] = topicOf[k]
    <3>1. topicOf \in Seq(Topics)
      BY <1>1 DEF OwnTypes
    <3>. QED
      BY <2>1, <3>1
  <2>3. UNCHANGED pc \/ pc' = [pc EXCEPT ![Poller] = "locate"]
    BY <1>19 DEF Arrive, Goto
  <2>4. \A u \in Topics : AtTurn(u)' <=> AtTurn(u)
    BY <1>1, <1>2, <2>3 DEF AtTurn, OwnTypes
  <2>5. \A u \in Topics : RunDir(u)' = RunDir(u)
    BY <1>5, <2>1
  <2>6. DOMAIN changed' = Topics /\ \A u \in Topics : changed[u] \subseteq changed'[u]
                                    /\ changed'[u] \ changed[u] = {}
    BY <2>1 DEF FileInv
  <2>. QED
    BY <2>1, <2>2, <2>4, <2>5, <2>6, FileKept
<1>20. ASSUME NEW l \in Places, pc' = [pc EXCEPT ![Poller] = l],
              UNCHANGED <<topicOf, prepared, batch, changed, collected, skipped, made, named, byPoller>>
       PROVE  FileInv'
  <2>1. \A t \in Topics : AtTurn(t)' <=> AtTurn(t)
    BY <1>2, <1>4, <1>20
  <2>. QED
    BY <1>3, <1>5, <1>20, <2>1
<1>21. CASE PrepareFails
  BY <1>20, <1>21 DEF PrepareFails, Goto, mail, work, notes, Places
<1>22. CASE Steer
  BY <1>20, <1>22 DEF Steer, PollerRests, Goto, mail, work, notes, Places
<1>23. CASE SteerFails
  BY <1>20, <1>23 DEF SteerFails, PollerRests, Goto, mail, work, notes, Places
<1>24. CASE UNCHANGED filesVars
  <2>1. UNCHANGED <<topicOf, pc, batch, prepared, changed, collected, skipped, made, named, byPoller>>
    BY <1>24 DEF filesVars, mail, actors, work, notes
  <2>2. \A t \in Topics : AtTurn(t)' <=> AtTurn(t)
    BY <2>1 DEF AtTurn
  <2>. QED
    BY <1>3, <1>5, <2>1, <2>2
<1>. QED
  BY <1>2, <1>6, <1>7, <1>8, <1>9, <1>11, <1>12, <1>13, <1>14, <1>15, <1>17,
     <1>18, <1>19, <1>21, <1>22, <1>23, <1>24 DEF FilesNext

LEMMA FilesAlways == FilesSpec => [](OwnInv /\ FileInv)
<1>1. FilesInit => FileInv
  BY DEF FilesInit, FileInv
<1>. QED
  BY <1>1, OwnInit, OwnStep, FileStep, PTL DEF FilesSpec

(* What an agent made in any run of a job goes back with the reply.        *)
THEOREM GeneratedAlwaysReturned == FilesSpec => []GeneratedIsReturned
  BY FilesAlways, FileGoals, PTL

(* A user's own attachment is not sent back unless the poll goroutine had  *)
(* its file written during a run, or a reply names it.                     *)
THEOREM OwnAttachmentsAlwaysStay == FilesSpec => []OwnAttachmentsStay
  BY FilesAlways, FileGoals, PTL

-----------------------------------------------------------------------------
(* ---- Topics of one title keep apart on disk                             *)
(* A topic has a directory: its row or one of its messages does, or the    *)
(* directory has been made for a message that is being prepared.           *)
Holds(t, d) ==
  \/ row[t] = d
  \/ \E m \in DOMAIN topicOf : topicOf[m] = t /\ prepared[m] = d
  \/ \E a \in Actors : pc[a] = "fetch" /\ Of(message[a], t) /\ target[a] = d

(* An actor has chosen a directory for it that may not be there yet.       *)
Chooses(a, t, d) == pc[a] = "mkdir" /\ Of(message[a], t) /\ target[a] = d
Uses(t, d) == Holds(t, d) \/ \E a \in Actors : Chooses(a, t, d)

Numbers == Nat \ {0}

(* DirectoryPerTopic is not inductive: a directory is used long before a   *)
(* message has it, and a name is only avoided once its directory exists.   *)
DirInv ==
  /\ \A m \in Messages : m \notin DOMAIN topicOf => prepared[m] = 0
  /\ \A t \in Topics, d \in Numbers : Holds(t, d) => d \in dirs
  /\ \A t, u \in Topics, d \in Numbers :
       Uses(t, d) /\ Uses(u, d) => t = u \/ d \in raced

(* A message that has come is one of the bounded many, and has a topic.    *)
LEMMA MessagesKnown ==
  ASSUME OwnTypes, NEW m \in DOMAIN topicOf
  PROVE  m \in Messages /\ topicOf[m] \in Topics
<1>1. topicOf \in Seq(Topics) /\ Len(topicOf) <= MaxMessages /\ MaxMessages \in Nat
  BY FilesAssumption DEF OwnTypes
<1>2. m \in Nat /\ 1 <= m /\ m <= Len(topicOf) /\ Len(topicOf) \in Nat
  BY <1>1
<1>. QED
  BY <1>1, <1>2 DEF Messages

(* A prepared message is one of the ways to use a directory.               *)
LEMMA DirGoal == OwnInv /\ DirInv => DirectoryPerTopic
<1> SUFFICES ASSUME OwnInv, DirInv, NEW m \in DOMAIN topicOf, NEW k \in DOMAIN topicOf,
                    topicOf[m] # topicOf[k], prepared[m] = prepared[k]
             PROVE  prepared[m] \in raced \cup {0}
  BY DEF DirectoryPerTopic
<1>1. topicOf[m] \in Topics /\ topicOf[k] \in Topics /\ m \in Messages
  BY MessagesKnown DEF OwnInv
<1>2. prepared[m] \in Nat
  BY <1>1 DEF OwnInv, OwnTypes
<1>3. Uses(topicOf[m], prepared[m]) /\ Uses(topicOf[k], prepared[m])
  BY DEF Uses, Holds
<1>. QED
  BY <1>1, <1>2, <1>3 DEF DirInv, Numbers

(* Steps that give no topic a directory it did not use before.             *)
LEMMA DirShrinks ==
  ASSUME DirInv, raced \subseteq raced',
         \A m \in Messages : m \notin DOMAIN topicOf' => prepared'[m] = 0,
         \A t \in Topics, d \in Numbers : Holds(t, d)' => d \in dirs',
         \A t \in Topics, d \in Numbers : Uses(t, d)' => Uses(t, d)
  PROVE  DirInv'
<1>1. \A t, u \in Topics, d \in Numbers :
        Uses(t, d)' /\ Uses(u, d)' => t = u \/ d \in raced'
  BY DEF DirInv
<1>. QED
  BY <1>1 DEF DirInv

(* A step of one actor that is not on its way to a directory after it.     *)
LEMMA DirMove ==
  ASSUME OwnInv, DirInv, UNCHANGED <<topicOf, prepared, dirs, raced>>, NEW a \in Actors,
         pc'[a] \notin {"mkdir", "fetch"},
         \A b \in Actors \ {a} :
           pc'[b] = pc[b] /\ message'[b] = message[b] /\ target'[b] = target[b],
         \A t \in Topics :
           \/ row'[t] = row[t]
           \/ \E m \in DOMAIN topicOf : topicOf[m] = t /\ row'[t] = prepared[m]
  PROVE  DirInv'
<1>1. ASSUME NEW t \in Topics, NEW d \in Numbers, Holds(t, d)' PROVE Holds(t, d)
  <2>1. CASE row'[t] = d
    BY <2>1 DEF Holds
  <2>2. CASE \E m \in DOMAIN topicOf' : topicOf'[m] = t /\ prepared'[m] = d
    BY <2>2 DEF Holds
  <2>3. CASE \E b \in Actors : pc'[b] = "fetch" /\ Of(message[b], t)' /\ target'[b] = d
    <3>1. PICK b \in Actors : pc'[b] = "fetch" /\ Of(message[b], t)' /\ target'[b] = d
      BY <2>3
    <3>2. b # a
      BY <3>1
    <3>. QED
      BY <3>1, <3>2 DEF Holds, Of
  <2>. QED
    BY <1>1, <2>1, <2>2, <2>3 DEF Holds
<1>2. ASSUME NEW t \in Topics, NEW d \in Numbers, Uses(t, d)' PROVE Uses(t, d)
  <2>1. CASE \E b \in Actors : Chooses(b, t, d)'
    <3>1. PICK b \in Actors : Chooses(b, t, d)'
      BY <2>1
    <3>2. b # a
      BY <3>1 DEF Chooses
    <3>. QED
      BY <3>1, <3>2 DEF Chooses, Uses, Of
  <2>. QED
    BY <1>1, <1>2, <2>1 DEF Uses
<1>3. \A t \in Topics, d \in Numbers : Holds(t, d)' => d \in dirs'
  BY <1>1 DEF DirInv
<1>4. \A m \in Messages : m \notin DOMAIN topicOf' => prepared'[m] = 0
  BY DEF DirInv
<1>. QED
  BY <1>2, <1>3, <1>4, DirShrinks

(* The message of an actor is prepared: its topic uses the directory       *)
(* already, and the directory has been made.                               *)
LEMMA DirPrepared ==
  ASSUME OwnInv, DirInv, NEW a \in Actors, pc[a] \in {"mkdir", "fetch"}, Prepared(a),
         UNCHANGED <<topicOf, row, raced>>, dirs \subseteq dirs',
         target[a] \in dirs' \cup {0}
  PROVE  DirInv'
<1>1. OwnTypes
  BY DEF OwnInv
<1>2. /\ prepared' = [prepared EXCEPT ![message[a]] = target[a]]
      /\ pc'[a] \notin {"mkdir", "fetch"}
      /\ \A b \in Actors \ {a} :
           pc'[b] = pc[b] /\ message'[b] = message[b] /\ target'[b] = target[b]
  BY <1>1 DEF Prepared, Goto, OwnTypes
<1>3. message[a] \in DOMAIN topicOf /\ message[a] \in Messages
  <2>1. message[a] \in DOMAIN topicOf
    BY DEF OwnInv, Of, Actors
  <2>. QED
    BY <1>1, <2>1, MessagesKnown
<1>4. /\ prepared'[message[a]] = target[a]
      /\ \A m \in Messages \ {message[a]} : prepared'[m] = prepared[m]
  BY <1>1, <1>2, <1>3 DEF OwnTypes
<1>5. Uses(topicOf[message[a]], target[a])
  BY <1>3 DEF Uses, Holds, Chooses, Of
<1>6. ASSUME NEW t \in Topics, NEW d \in Numbers, Holds(t, d)'
      PROVE  Holds(t, d) \/ (t = topicOf[message[a]] /\ d = target[a])
  <2>1. CASE row'[t] = d
    BY <2>1 DEF Holds
  <2>2. CASE \E m \in DOMAIN topicOf : topicOf[m] = t /\ prepared'[m] = d
    <3>1. PICK m \in DOMAIN topicOf : topicOf[m] = t /\ prepared'[m] = d
      BY <2>2
    <3>2. m \in Messages
      BY <1>1, <3>1, MessagesKnown
    <3>3. CASE m = message[a]
      BY <1>4, <3>1, <3>3
    <3>4. CASE m # message[a]
      BY <1>4, <3>1, <3>2, <3>4 DEF Holds
    <3>. QED
      BY <3>3, <3>4
  <2>3. CASE \E b \in Actors : pc'[b] = "fetch" /\ Of(message[b], t)' /\ target'[b] = d
    <3>1. PICK b \in Actors : pc'[b] = "fetch" /\ Of(message[b], t)' /\ target'[b] = d
      BY <2>3
    <3>2. b # a
      BY <1>2, <3>1
    <3>. QED
      BY <1>2, <3>1, <3>2 DEF Holds, Of
  <2>. QED
    BY <1>6, <2>1, <2>2, <2>3 DEF Holds
<1>7. ASSUME NEW t \in Topics, NEW d \in Numbers, Uses(t, d)' PROVE Uses(t, d)
  <2>1. CASE \E b \in Actors : Chooses(b, t, d)'
    <3>1. PICK b \in Actors : Chooses(b, t, d)'
      BY <2>1
    <3>2. b # a
      BY <1>2, <3>1 DEF Chooses
    <3>. QED
      BY <1>2, <3>1, <3>2 DEF Chooses, Uses, Of
  <2>. QED
    BY <1>5, <1>6, <1>7, <2>1 DEF Uses
<1>8. \A t \in Topics, d \in Numbers : Holds(t, d)' => d \in dirs'
  BY <1>6 DEF DirInv, Numbers
<1>9. \A m \in Messages : m \notin DOMAIN topicOf' => prepared'[m] = 0
  BY <1>3, <1>4 DEF DirInv
<1>. QED
  BY <1>7, <1>8, <1>9, DirShrinks

(* A directory is chosen: the row's, which the topic uses, or one that is  *)
(* not there, which only somebody who has chosen it as well can use.       *)
LEMMA DirLocate ==
  ASSUME OwnInv, DirInv, NEW a \in Actors, Locate(a)
  PROVE  DirInv'
<1>1. OwnTypes
  BY DEF OwnInv
<1>2. PICK m \in ToPrepare(a) :
        \E d \in IF row[topicOf[m]] # 0 THEN {row[topicOf[m]]} ELSE FirstFree :
          /\ message' = [message EXCEPT ![a] = m]
          /\ target' = [target EXCEPT ![a] = d]
          /\ raced' = IF \E b \in Actors \ {a} : pc[b] = "mkdir" /\ target[b] = d
                      THEN raced \cup {d} ELSE raced
  BY DEF Locate
<1>3. PICK d \in IF row[topicOf[m]] # 0 THEN {row[topicOf[m]]} ELSE FirstFree :
        /\ message' = [message EXCEPT ![a] = m]
        /\ target' = [target EXCEPT ![a] = d]
        /\ raced' = IF \E b \in Actors \ {a} : pc[b] = "mkdir" /\ target[b] = d
                    THEN raced \cup {d} ELSE raced
  BY <1>2
<1>4. /\ pc' = [pc EXCEPT ![a] = "mkdir"]
      /\ UNCHANGED <<dirs, row, topicOf, prepared>>
  BY DEF Locate, Goto, disk, mail
<1>5. m \in DOMAIN topicOf /\ topicOf[m] \in Topics /\ pc[a] \notin {"mkdir", "fetch"}
  <2>1. m \in DOMAIN topicOf
    BY ToPrepareIsOwn
  <2>2. pc[a] \notin {"mkdir", "fetch"}
    BY DEF ToPrepare, Locate
  <2>. QED
    BY <1>1, <2>1, <2>2 DEF OwnTypes
<1>6. Uses(topicOf[m], d) \/ (d \in Numbers /\ d \notin dirs)
  <2>1. CASE row[topicOf[m]] # 0
    BY <1>3, <2>1 DEF Uses, Holds
  <2>2. CASE row[topicOf[m]] = 0
    BY <1>3, <2>2 DEF FirstFree, Free, Dirs, Numbers
  <2>. QED
    BY <2>1, <2>2
<1>7. /\ pc'[a] = "mkdir" /\ message'[a] = m /\ target'[a] = d
      /\ \A b \in Actors \ {a} :
           pc'[b] = pc[b] /\ message'[b] = message[b] /\ target'[b] = target[b]
  BY <1>1, <1>3, <1>4 DEF OwnTypes
<1>8. ASSUME NEW t \in Topics, NEW e \in Numbers, Holds(t, e)' PROVE Holds(t, e)
  <2>1. CASE \E b \in Actors : pc'[b] = "fetch" /\ Of(message[b], t)' /\ target'[b] = e
    <3>1. PICK b \in Actors : pc'[b] = "fetch" /\ Of(message[b], t)' /\ target'[b] = e
      BY <2>1
    <3>2. b # a
      BY <1>7, <3>1
    <3>. QED
      BY <1>4, <1>7, <3>1, <3>2 DEF Holds, Of
  <2>. QED
    BY <1>4, <1>8, <2>1 DEF Holds
<1>9. ASSUME NEW t \in Topics, NEW e \in Numbers, Uses(t, e)'
      PROVE  Uses(t, e) \/ (t = topicOf[m] /\ e = d)
  <2>1. CASE \E b \in Actors : Chooses(b, t, e)'
    <3>1. PICK b \in Actors : Chooses(b, t, e)'
      BY <2>1
    <3>2. CASE b = a
      BY <1>4, <1>7, <3>1, <3>2 DEF Chooses, Of
    <3>3. CASE b # a
      BY <1>4, <1>7, <3>1, <3>3 DEF Chooses, Uses, Of
    <3>. QED
      BY <3>2, <3>3
  <2>. QED
    BY <1>8, <1>9, <2>1 DEF Uses
<1>10. ASSUME NEW u \in Topics, d \in Numbers, Uses(u, d), u # topicOf[m]
       PROVE  d \in raced'
  <2>1. CASE Uses(topicOf[m], d)
    BY <1>3, <1>5, <1>10, <2>1 DEF DirInv
  <2>2. CASE d \notin dirs
    <3>1. ~Holds(u, d)
      BY <1>10, <2>2 DEF DirInv
    <3>2. PICK b \in Actors : Chooses(b, u, d)
      BY <1>10, <3>1 DEF Uses
    <3>3. b # a /\ pc[b] = "mkdir" /\ target[b] = d
      BY <1>5, <3>2 DEF Chooses
    <3>. QED
      BY <1>3, <3>3
  <2>. QED
    BY <1>6, <2>1, <2>2
<1>11. raced \subseteq raced'
  BY <1>3
<1>12. ASSUME NEW t \in Topics, NEW u \in Topics, NEW e \in Numbers,
              Uses(t, e)', Uses(u, e)', t # u
       PROVE  e \in raced'
  <2>1. CASE Uses(t, e) /\ Uses(u, e)
    BY <1>11, <1>12, <2>1 DEF DirInv
  <2>2. CASE ~(Uses(t, e) /\ Uses(u, e))
    BY <1>9, <1>10, <1>12, <2>2
  <2>. QED
    BY <2>1, <2>2
<1>13. \A t \in Topics, e \in Numbers : Holds(t, e)' => e \in dirs'
  BY <1>4, <1>8 DEF DirInv
<1>14. \A k \in Messages : k \notin DOMAIN topicOf' => prepared'[k] = 0
  BY <1>4 DEF DirInv
<1>. QED
  BY <1>12, <1>13, <1>14 DEF DirInv

(* A message that comes has no directory.                                  *)
LEMMA DirArrive ==
  ASSUME OwnInv, DirInv, NEW t \in Topics, Arrive(t)
  PROVE  DirInv'
<1>1. OwnTypes
  BY DEF OwnInv
<1>2. PICK n \in Nat : n = Len(topicOf) + 1
  BY <1>1 DEF OwnTypes
<1>3. /\ topicOf' = Append(topicOf, t) /\ n <= MaxMessages
      /\ UNCHANGED <<dirs, row, prepared, target, raced>>
      /\ pc[Poller] = "idle"
      /\ \/ UNCHANGED <<pc, message>>
         \/ pc' = [pc EXCEPT ![Poller] = "locate"]
            /\ message' = [message EXCEPT ![Poller] = n]
  BY <1>2 DEF Arrive, Goto, disk, notes
<1>4. /\ n \in Messages /\ n \notin DOMAIN topicOf
      /\ DOMAIN topicOf' = DOMAIN topicOf \cup {n}
      /\ \A k \in DOMAIN topicOf : topicOf'[k] = topicOf[k]
  <2>1. topicOf \in Seq(Topics)
    BY <1>1 DEF OwnTypes
  <2>. QED
    BY <1>2, <1>3, <2>1 DEF Messages
<1>5. prepared[n] = 0
  BY <1>4 DEF DirInv
<1>6. \A b \in Actors : pc'[b] \in {"mkdir", "fetch"} =>
        pc'[b] = pc[b] /\ message'[b] = message[b] /\ message[b] \in DOMAIN topicOf
  <2>1. \A b \in Actors : pc'[b] \in {"mkdir", "fetch"} =>
          pc'[b] = pc[b] /\ message'[b] = message[b]
    BY <1>1, <1>3 DEF OwnTypes
  <2>2. \A b \in Actors : pc[b] \in {"mkdir", "fetch"} => message[b] \in DOMAIN topicOf
    BY DEF OwnInv, Of, Actors
  <2>. QED
    BY <2>1, <2>2
<1>7. ASSUME NEW u \in Topics, NEW d \in Numbers, Holds(u, d)' PROVE Holds(u, d)
  <2>1. CASE \E k \in DOMAIN topicOf' : topicOf'[k] = u /\ prepared'[k] = d
    <3>1. PICK k \in DOMAIN topicOf' : topicOf'[k] = u /\ prepared'[k] = d
      BY <2>1
    <3>2. k # n
      BY <1>3, <1>5, <3>1 DEF Numbers
    <3>. QED
      BY <1>3, <1>4, <3>1, <3>2 DEF Holds
  <2>2. CASE \E b \in Actors : pc'[b] = "fetch" /\ Of(message[b], u)' /\ target'[b] = d
    BY <1>3, <1>4, <1>6, <2>2 DEF Holds, Of
  <2>. QED
    BY <1>3, <1>7, <2>1, <2>2 DEF Holds
<1>8. ASSUME NEW u \in Topics, NEW d \in Numbers, Uses(u, d)' PROVE Uses(u, d)
  <2>1. CASE \E b \in Actors : Chooses(b, u, d)'
    BY <1>3, <1>4, <1>6, <2>1 DEF Chooses, Uses, Of
  <2>. QED
    BY <1>7, <1>8, <2>1 DEF Uses
<1>9. \A u \in Topics, d \in Numbers : Holds(u, d)' => d \in dirs'
  BY <1>3, <1>7 DEF DirInv
<1>10. \A k \in Messages : k \notin DOMAIN topicOf' => prepared'[k] = 0
  BY <1>3, <1>4 DEF DirInv
<1>. QED
  BY <1>3, <1>8, <1>9, <1>10, DirShrinks

(* Every step keeps topics apart.                                          *)
LEMMA DirStep == OwnInv /\ DirInv /\ [FilesNext]_filesVars => DirInv'
<1> SUFFICES ASSUME OwnInv, DirInv, [FilesNext]_filesVars PROVE DirInv'
  OBVIOUS
<1>1. OwnTypes
  BY DEF OwnInv
<1>2. Poller \in Actors /\ \A t \in Topics : t \in Actors
  BY DEF Actors
<1>3. ASSUME NEW a \in Actors, NEW l \in Places \ {"mkdir", "fetch"},
             pc' = [pc EXCEPT ![a] = l],
             \A b \in Actors \ {a} : message'[b] = message[b] /\ target'[b] = target[b],
             UNCHANGED <<topicOf, prepared, dirs, raced, row>>
      PROVE  DirInv'
  <2>1. pc'[a] = l /\ \A b \in Actors \ {a} : pc'[b] = pc[b]
    BY <1>1, <1>3 DEF OwnTypes
  <2>. QED
    BY <1>3, <2>1, DirMove
<1>4. ASSUME NEW a \in Actors, MakeDir(a) PROVE DirInv'
  <2>1. /\ pc[a] = "mkdir" /\ dirs' = dirs \cup {target[a]}
        /\ UNCHANGED <<topicOf, row, raced>>
    BY <1>4 DEF MakeDir, mail, notes
  <2>2. CASE Prepared(a)
    BY <2>1, <2>2, DirPrepared
  <2>3. CASE Goto(a, "fetch") /\ UNCHANGED <<prepared, message, target>>
    <3>1. /\ \A b \in Actors \ {a} : pc'[b] = pc[b]
          /\ pc'[a] = "fetch"
      BY <1>1, <2>3 DEF Goto, OwnTypes
    <3>2. ASSUME NEW t \in Topics, NEW d \in Numbers, Holds(t, d)'
          PROVE  Holds(t, d) \/ (Chooses(a, t, d) /\ d = target[a])
      BY <2>1, <2>3, <3>1, <3>2 DEF Holds, Chooses, Of
    <3>3. ASSUME NEW t \in Topics, NEW d \in Numbers, Uses(t, d)' PROVE Uses(t, d)
      BY <2>1, <2>3, <3>1, <3>2, <3>3 DEF Uses, Chooses, Of
    <3>4. \A t \in Topics, d \in Numbers : Holds(t, d)' => d \in dirs'
      BY <2>1, <3>2 DEF DirInv
    <3>5. \A m \in Messages : m \notin DOMAIN topicOf' => prepared'[m] = 0
      BY <2>1, <2>3 DEF DirInv
    <3>. QED
      BY <2>1, <3>3, <3>4, <3>5, DirShrinks
  <2>. QED
    BY <1>4, <2>2, <2>3 DEF MakeDir
<1>5. ASSUME NEW a \in Actors, Fetch(a) PROVE DirInv'
  <2>1. pc[a] = "fetch" /\ Prepared(a) /\ UNCHANGED <<topicOf, row, raced, dirs>>
    BY <1>5 DEF Fetch, disk
  <2>2. target[a] \in dirs' \cup {0}
    <3>1. PICK t \in Topics : Of(message[a], t)
      BY <1>1, <2>1 DEF OwnInv, OwnTypes, Of, Actors
    <3>2. Holds(t, target[a]) /\ target[a] \in Nat
      BY <1>1, <2>1, <3>1 DEF Holds, OwnTypes
    <3>. QED
      BY <2>1, <3>2 DEF DirInv, Numbers
  <2>. QED
    BY <2>1, <2>2, DirPrepared
<1>6. ASSUME NEW t \in Topics, ExecuteReturns(t) PROVE DirInv'
  <2>1. /\ pc[t] = "turn" /\ pc' = [pc EXCEPT ![t] = "collect"]
        /\ UNCHANGED <<topicOf, prepared, dirs, raced, message, target>>
        /\ row' = [row EXCEPT ![t] = RunDir(t)] \/ UNCHANGED row
    BY <1>6 DEF ExecuteReturns, Goto, mail, notes
  <2>2. pc'[t] = "collect" /\ \A b \in Actors \ {t} : pc'[b] = pc[b]
    BY <1>1, <1>2, <2>1 DEF OwnTypes
  <2>3. Of(Latest(t), t) /\ RunDir(t) = prepared[Latest(t)]
    BY <2>1, LatestIsPending DEF RunDir
  <2>4. \A u \in Topics : row'[u] = row[u] \/ (u = t /\ row'[u] = prepared[Latest(t)])
    BY <1>1, <2>1, <2>3 DEF OwnTypes
  <2>5. \A u \in Topics :
          \/ row'[u] = row[u]
          \/ \E m \in DOMAIN topicOf : topicOf[m] = u /\ row'[u] = prepared[m]
    BY <2>3, <2>4 DEF Of
  <2>. QED
    BY <1>2, <2>1, <2>2, <2>5, DirMove
<1>7. ASSUME NEW t \in Topics, AgentWrites(t) PROVE DirInv'
  <2>1. /\ pc' = [pc EXCEPT ![t] = "turn"]
        /\ UNCHANGED <<topicOf, prepared, dirs, raced, row, message, target>>
    BY <1>1, <1>7 DEF AgentWrites, actors, mail, notes, OwnTypes
  <2>. QED
    BY <1>2, <1>3, <2>1 DEF Places
<1>8. ASSUME NEW t \in Topics,
             TakeJob(t) \/ Snapshot(t) \/ Collect(t) \/ TakeFollowUps(t)
      PROVE  DirInv'
  <2>1. /\ UNCHANGED <<topicOf, prepared, dirs, raced, row, message, target>>
        /\ \E l \in {"prepare", "turn", "take", "deliver"} : pc' = [pc EXCEPT ![t] = l]
    BY <1>8 DEF TakeJob, Snapshot, Collect, TakeFollowUps, Goto, disk, mail, notes
  <2>. QED
    BY <1>2, <1>3, <2>1 DEF Places
<1>9. ASSUME NEW t \in Topics, Deliver(t) \/ WorkerFails(t) PROVE DirInv'
  <2>1. /\ UNCHANGED <<topicOf, prepared, dirs, raced, row>>
        /\ \E seen : WorkerRests(t, seen)
    BY <1>9 DEF Deliver, WorkerFails, disk, mail, notes
  <2>2. /\ pc' = [pc EXCEPT ![t] = "idle"]
        /\ \A b \in Actors \ {t} : message'[b] = message[b] /\ target'[b] = target[b]
    BY <1>1, <2>1 DEF WorkerRests, Goto, OwnTypes
  <2>. QED
    BY <1>2, <1>3, <2>1, <2>2 DEF Places
<1>10. ASSUME PrepareFails \/ FetchBreaksOff \/ Steer \/ SteerFails PROVE DirInv'
  <2>1. /\ UNCHANGED <<topicOf, prepared, dirs, raced, row>>
        /\ \A b \in Actors \ {Poller} : message'[b] = message[b] /\ target'[b] = target[b]
        /\ \E l \in {"steer", "idle"} : pc' = [pc EXCEPT ![Poller] = l]
    <3>1. CASE PrepareFails \/ FetchBreaksOff
      BY <1>1, <3>1 DEF PrepareFails, FetchBreaksOff, Goto, disk, mail, notes, OwnTypes
    <3>2. CASE Steer \/ SteerFails
      BY <1>1, <3>2 DEF Steer, SteerFails, PollerRests, Goto, disk, mail, notes, OwnTypes
    <3>. QED
      BY <1>10, <3>1, <3>2
  <2>. QED
    BY <1>2, <1>3, <2>1 DEF Places
<1>11. CASE UNCHANGED filesVars
  <2>1. UNCHANGED <<topicOf, prepared, dirs, raced, row, pc, message, target>>
    BY <1>11 DEF filesVars, disk, mail, actors, notes
  <2>. QED
    BY <2>1 DEF DirInv, Uses, Holds, Chooses, Of
<1>. QED
  BY <1>4, <1>5, <1>6, <1>7, <1>8, <1>9, <1>10, <1>11, DirLocate, DirArrive
     DEF FilesNext

(* Topics of one title never share a directory, unless two goroutines had  *)
(* chose it before either had made it.                                     *)
THEOREM DirectoriesStayApart == FilesSpec => []DirectoryPerTopic
<1>1. FilesInit => DirInv
  BY DEF FilesInit, DirInv, Uses, Holds, Chooses, Numbers
<1>. QED
  BY <1>1, OwnInit, OwnStep, DirStep, DirGoal, PTL DEF FilesSpec

-----------------------------------------------------------------------------
(* ---- Types                                                              *)

(* The types are not inductive: what an agent writes is in a directory     *)
(* there is only because a turn begins with every message prepared, and    *)
(* what is fetched because a place was chosen before.                      *)
DiskKinds ==
  /\ dirs \in SUBSET Dirs /\ files \in SUBSET Files /\ raced \in SUBSET Dirs
  /\ row \in [Topics -> Dirs \cup {0}]
MailKinds ==
  /\ toFetch \in SUBSET DOMAIN topicOf /\ byPoller \in SUBSET DOMAIN topicOf
  /\ pollTurn \in DOMAIN topicOf \cup {0}
  /\ prepared \in [Messages -> Dirs \cup {0}]
ActorKinds ==
  /\ message \in [Actors -> DOMAIN topicOf \cup {0}]
  /\ target \in [Actors -> Dirs \cup {0}]
  /\ \A a \in Actors : pc[a] \in {"mkdir", "fetch"} => target[a] \in Dirs
WorkKinds ==
  /\ busy \in [Topics -> BOOLEAN]
  /\ changed \in [Topics -> SUBSET Files] /\ collected \in [Topics -> SUBSET Files]
  /\ skipped \in [Topics -> SUBSET Files] /\ made \in [Topics -> SUBSET Files]
  /\ named \in [Topics -> SUBSET Files]
TurnKinds == \A t \in Topics : AtTurn(t) => RunDir(t) \in Dirs
LockKinds == inhibitor \in {"off", "on", "failed"}
KindInv == DiskKinds /\ MailKinds /\ ActorKinds /\ WorkKinds /\ TurnKinds /\ LockKinds

LEMMA ArrivedFacts ==
  ASSUME OwnInv
  PROVE  /\ DOMAIN topicOf \subseteq Messages /\ DOMAIN topicOf \subseteq Nat
         /\ 0 \notin DOMAIN topicOf
         /\ \A d \in Dirs, m \in DOMAIN topicOf \cup {0} : <<d, m>> \in Files
         /\ 0 \notin Dirs /\ Dirs \subseteq Nat
<1>1. \A m \in DOMAIN topicOf : m \in Messages
  BY MessagesKnown DEF OwnInv
<1>2. Messages \subseteq Nat /\ 0 \notin Messages /\ \A m \in Messages : m \in 0..MaxMessages
  BY DEF Messages
<1>3. 0 \in 0..MaxMessages
  OBVIOUS
<1>4. \A m \in DOMAIN topicOf \cup {0} : m \in 0..MaxMessages
  BY <1>1, <1>2, <1>3
<1>5. \A d \in Dirs, m \in DOMAIN topicOf \cup {0} : <<d, m>> \in Files
  BY <1>4 DEF Files
<1>6. 0 \notin Dirs /\ Dirs \subseteq Nat
  BY DEF Dirs
<1>. QED
  BY <1>1, <1>2, <1>5, <1>6

(* What OwnInv says of a batch and of the queues bounds what is in them.   *)
LEMMA TypesFromKinds == OwnInv /\ AwakeInv /\ KindInv => FilesTypeOK
<1> SUFFICES ASSUME OwnInv, AwakeInv, KindInv PROVE FilesTypeOK
  OBVIOUS
<1>1. OwnTypes /\ \A t \in Topics : Pending(t) \subseteq DOMAIN topicOf
  BY DEF OwnInv, Of
<1>2. \A D : \A s \in Seq(Nat) : Entries(s) \subseteq D => s \in Seq(D)
  BY DEF Entries
<1>3. batch \in [Topics -> Seq(DOMAIN topicOf)] /\ followUps \in [Topics -> Seq(DOMAIN topicOf)]
  <2>1. ASSUME NEW t \in Topics
        PROVE  batch[t] \in Seq(DOMAIN topicOf) /\ followUps[t] \in Seq(DOMAIN topicOf)
    <3>1. batch[t] \in Seq(Nat) /\ followUps[t] \in Seq(Nat)
      BY <1>1 DEF OwnTypes
    <3>2. Entries(batch[t]) \subseteq DOMAIN topicOf /\ Entries(followUps[t]) \subseteq DOMAIN topicOf
      BY <1>1 DEF Pending
    <3>. QED
      BY <1>2, <3>1, <3>2
  <2>. QED
    BY <1>1, <2>1 DEF OwnTypes
<1>4. jobs \in [Topics -> DOMAIN topicOf \cup {0}]
  BY <1>1 DEF OwnTypes, Pending
<1>5. refCount \in Nat
  BY WorkingFinite DEF AwakeInv
<1>. QED
  BY <1>1, <1>3, <1>4, <1>5
     DEF KindInv, DiskKinds, MailKinds, ActorKinds, WorkKinds, LockKinds, OwnTypes, FilesTypeOK

LEMMA KindInit == FilesInit => KindInv
<1> SUFFICES ASSUME FilesInit PROVE KindInv
  OBVIOUS
<1>1. DiskKinds
  BY DEF FilesInit, DiskKinds
<1>2. MailKinds
  BY DEF FilesInit, MailKinds
<1>3. ActorKinds
  BY DEF FilesInit, ActorKinds
<1>4. WorkKinds
  BY DEF FilesInit, WorkKinds
<1>5. TurnKinds /\ LockKinds
  BY DEF FilesInit, TurnKinds, AtTurn, Actors, LockKinds, WakeInit
<1>. QED
  BY <1>1, <1>2, <1>3, <1>4, <1>5 DEF KindInv

(* Turns go on where they are when no message is prepared.                 *)
LEMMA TurnsStay ==
  ASSUME TurnKinds, UNCHANGED prepared,
         \A t \in Topics : AtTurn(t)' => AtTurn(t) /\ batch'[t] = batch[t]
  PROVE  TurnKinds'
<1> SUFFICES ASSUME NEW t \in Topics, AtTurn(t)' PROVE RunDir(t)' \in Dirs
  BY DEF TurnKinds
<1>1. AtTurn(t) /\ batch'[t] = batch[t]
  OBVIOUS
<1>2. RunDir(t)' = RunDir(t)
  BY <1>1 DEF RunDir, Latest
<1>. QED
  BY <1>1, <1>2 DEF TurnKinds

(* An actor goes on, to a place where it has a directory or needs none.    *)
LEMMA ActorMoves ==
  ASSUME OwnInv, ActorKinds, UNCHANGED topicOf,
         NEW a \in Actors, NEW l, pc' = [pc EXCEPT ![a] = l],
         NEW m \in DOMAIN topicOf \cup {0}, message' = [message EXCEPT ![a] = m],
         NEW d \in Dirs \cup {0}, target' = [target EXCEPT ![a] = d],
         l \in {"mkdir", "fetch"} => d \in Dirs
  PROVE  ActorKinds'
<1>1. pc \in [Actors -> Places]
  BY DEF OwnInv, OwnTypes
<1>2. message' \in [Actors -> DOMAIN topicOf' \cup {0}] /\ target' \in [Actors -> Dirs \cup {0}]
  BY DEF ActorKinds
<1>3. ASSUME NEW b \in Actors, pc'[b] \in {"mkdir", "fetch"} PROVE target'[b] \in Dirs
  <2>1. CASE b = a
    BY <1>1, <1>3, <2>1 DEF ActorKinds
  <2>2. CASE b # a
    BY <1>1, <1>3, <2>2 DEF ActorKinds
  <2>. QED
    BY <2>1, <2>2
<1>. QED
  BY <1>2, <1>3 DEF ActorKinds

LEMMA TouchKinds ==
  ASSUME WorkKinds, NEW f \in Files
  PROVE  /\ Touched(f) \in [Topics -> SUBSET Files]
         /\ Touch(f) => changed' \in [Topics -> SUBSET Files]
<1>1. \A t \in Topics : changed[t] \cup {f} \in SUBSET Files /\ changed[t] \in SUBSET Files
  BY DEF WorkKinds
<1>. QED
  BY <1>1 DEF Touch, Touched

(* A message is prepared in the directory its actor has chosen.            *)
LEMMA PreparedKinds ==
  ASSUME OwnInv, KindInv, NEW a \in Actors, pc[a] \in {"mkdir", "fetch"}, Prepared(a),
         UNCHANGED <<topicOf, batch>>
  PROVE  ActorKinds' /\ TurnKinds' /\ prepared' \in [Messages -> Dirs \cup {0}]
<1>1. target[a] \in Dirs /\ OwnTypes
  BY DEF KindInv, ActorKinds, OwnInv
<1>2. prepared' \in [Messages -> Dirs \cup {0}]
  BY <1>1 DEF Prepared, KindInv, MailKinds
<1>3. PICK l \in {"steer", "prepare"}, m \in DOMAIN topicOf \cup {0} :
        pc' = [pc EXCEPT ![a] = l] /\ message' = [message EXCEPT ![a] = m]
  <2>1. CASE a = Poller
    <3>1. message' = [message EXCEPT ![a] = message[a]] /\ pc' = [pc EXCEPT ![a] = "steer"]
      BY <1>1, <2>1 DEF Prepared, Goto, OwnTypes
    <3>2. message[a] \in DOMAIN topicOf \cup {0}
      BY DEF KindInv, ActorKinds
    <3>. QED
      BY <3>1, <3>2
  <2>2. CASE a # Poller
    BY <2>2 DEF Prepared, Goto
  <2>. QED
    BY <2>1, <2>2
<1>4. ActorKinds'
  <2>1. target' = [target EXCEPT ![a] = 0] /\ 0 \in Dirs \cup {0}
    BY DEF Prepared
  <2>2. l \notin {"mkdir", "fetch"}
    BY <1>3
  <2>. QED
    BY <1>3, <2>1, <2>2, ActorMoves DEF KindInv
<1>5. TurnKinds'
  <2> SUFFICES ASSUME NEW t \in Topics, AtTurn(t)' PROVE RunDir(t)' \in Dirs
    BY DEF TurnKinds
  <2>1. AtTurn(t)
    <3>1. t \in Actors /\ pc \in [Actors -> Places]
      BY <1>1 DEF Actors, OwnTypes
    <3>2. t # a
      BY <1>3, <3>1 DEF AtTurn
    <3>. QED
      BY <1>3, <3>1, <3>2 DEF AtTurn
  <2>. QED
    BY <2>1, RunDirStays DEF KindInv, TurnKinds
<1>. QED
  BY <1>2, <1>4, <1>5

(* A worker that rests has nothing left of its job.                        *)
LEMMA RestKinds ==
  ASSUME OwnInv, KindInv, NEW t \in Topics,
         NEW seen \in [Topics -> SUBSET Files], WorkerRests(t, seen),
         UNCHANGED <<dirs, row, mail, prepared, pollTurn, notes>>,
         files' \in SUBSET Files, busy' \in [Topics -> BOOLEAN]
  PROVE  KindInv'
<1>1. UNCHANGED <<dirs, row, topicOf, toFetch, prepared, pollTurn, byPoller, raced>>
  BY DEF mail, notes
<1>2. OwnTypes /\ t \in Actors
  BY DEF OwnInv, Actors
<1>3. /\ pc' = [pc EXCEPT ![t] = "idle"] /\ message' = [message EXCEPT ![t] = 0]
      /\ target' = [target EXCEPT ![t] = 0] /\ batch' = [batch EXCEPT ![t] = <<>>]
  BY DEF WorkerRests, Goto
<1>4. DiskKinds' /\ MailKinds'
  BY <1>1 DEF KindInv, DiskKinds, MailKinds
<1>5. ActorKinds'
  <2>1. 0 \in DOMAIN topicOf \cup {0} /\ 0 \in Dirs \cup {0} /\ "idle" \notin {"mkdir", "fetch"}
    OBVIOUS
  <2>. QED
    BY <1>1, <1>2, <1>3, <2>1, ActorMoves DEF KindInv
<1>6. WorkKinds'
  BY DEF WorkerRests, Clear, KindInv, WorkKinds
<1>7. TurnKinds'
  <2>1. \A u \in Topics : AtTurn(u)' => AtTurn(u) /\ batch'[u] = batch[u]
    BY <1>2, <1>3 DEF AtTurn, OwnTypes, Actors
  <2>. QED
    BY <1>1, <2>1, TurnsStay DEF KindInv
<1>8. LockKinds'
  BY DEF WorkerRests, Release, KindInv, LockKinds
<1>. QED
  BY <1>4, <1>5, <1>6, <1>7, <1>8 DEF KindInv

(* A message that comes is of a known topic; what was known stays known.   *)
LEMMA ArriveKinds ==
  ASSUME OwnInv, KindInv, NEW t \in Topics, Arrive(t)
  PROVE  KindInv'
<1>0. PICK m : m = Len(topicOf) + 1
  OBVIOUS
<1>1. /\ pc[Poller] = "idle" /\ m <= MaxMessages /\ topicOf' = Append(topicOf, t)
      /\ toFetch' \in {toFetch, toFetch \cup ({m} \cap Media)}
      /\ UNCHANGED <<inhibitor, dirs, files, row, prepared, target, batch, changed, collected,
                     skipped, made, named, byPoller, raced>>
  BY <1>0 DEF Arrive, lockVars, disk, work, notes
<1>2. OwnTypes /\ topicOf \in Seq(Topics) /\ t \in Actors /\ Poller \in Actors
      /\ \A u \in Topics : u \in Actors /\ u # Poller
  BY DEF OwnInv, OwnTypes, Actors
<1>3. DOMAIN topicOf' = DOMAIN topicOf \cup {m}
  BY <1>0, <1>1, <1>2
<1>4. /\ pc' = pc \/ pc' = [pc EXCEPT ![Poller] = "locate"]
      /\ message' = message \/ message' = [message EXCEPT ![Poller] = m]
      /\ busy' = busy \/ busy' = [busy EXCEPT ![t] = TRUE]
      /\ pollTurn' = pollTurn \/ (pollTurn' = Latest(t) /\ pc[t] = "turn")
  BY <1>0 DEF Arrive, Goto, queues
<1>5. DiskKinds' /\ LockKinds'
  BY <1>1 DEF KindInv, DiskKinds, LockKinds
<1>6. MailKinds'
  <2>1. pc[t] = "turn" => Latest(t) \in DOMAIN topicOf
    BY LatestIsPending DEF Of
  <2>. QED
    BY <1>1, <1>3, <1>4, <2>1 DEF KindInv, MailKinds
<1>7. ActorKinds'
  <2>1. message' \in [Actors -> DOMAIN topicOf' \cup {0}]
    BY <1>2, <1>3, <1>4 DEF KindInv, ActorKinds
  <2>2. \A a \in Actors : pc'[a] \in {"mkdir", "fetch"} => pc[a] \in {"mkdir", "fetch"}
    BY <1>2, <1>4 DEF OwnTypes
  <2>. QED
    BY <1>1, <2>1, <2>2 DEF KindInv, ActorKinds
<1>8. WorkKinds'
  BY <1>1, <1>4 DEF KindInv, WorkKinds
<1>9. TurnKinds'
  <2>1. \A u \in Topics : AtTurn(u)' => AtTurn(u) /\ batch'[u] = batch[u]
    BY <1>1, <1>2, <1>4 DEF AtTurn, OwnTypes
  <2>. QED
    BY <1>1, <2>1, TurnsStay DEF KindInv
<1>. QED
  BY <1>5, <1>6, <1>7, <1>8, <1>9 DEF KindInv

LEMMA KindStep == OwnInv /\ KindInv /\ [FilesNext]_filesVars => KindInv'
<1> SUFFICES ASSUME OwnInv, KindInv, [FilesNext]_filesVars PROVE KindInv'
  OBVIOUS
<1>1. /\ OwnTypes /\ DiskKinds /\ MailKinds /\ ActorKinds /\ WorkKinds /\ TurnKinds /\ LockKinds
  BY DEF OwnInv, KindInv
<1>2. Poller \in Actors /\ Poller \notin Topics /\ \A t \in Topics : t \in Actors
  BY DEF Actors
<1>3. /\ pc \in [Actors -> Places]
      /\ \A a \in Actors : message[a] \in DOMAIN topicOf \cup {0} /\ target[a] \in Dirs \cup {0}
      /\ 0 \in DOMAIN topicOf \cup {0} /\ 0 \in Dirs \cup {0}
  BY <1>1 DEF OwnTypes, ActorKinds
<1>4. ASSUME NEW a \in Actors, pc[a] \in {"mkdir", "fetch"}
      PROVE  message[a] \in DOMAIN topicOf /\ target[a] \in Dirs
             /\ <<target[a], message[a]>> \in Files
  <2>1. message[a] \in DOMAIN topicOf
    BY <1>2, <1>4 DEF OwnInv, Of, Actors
  <2>2. target[a] \in Dirs
    BY <1>1, <1>4 DEF ActorKinds
  <2>. QED
    BY <2>1, <2>2, ArrivedFacts
<1>5. ASSUME NEW a \in Actors, Locate(a) PROVE KindInv'
  <2>1. /\ UNCHANGED <<lockVars, dirs, files, row, topicOf, toFetch, prepared, batch, changed,
                       collected, skipped, made, named, busy, pollTurn, byPoller>>
        /\ pc' = [pc EXCEPT ![a] = "mkdir"]
    BY <1>5 DEF Locate, Goto, disk, mail, work, queues
  <2>2. PICK m \in ToPrepare(a) :
          \E d \in IF row[topicOf[m]] # 0 THEN {row[topicOf[m]]} ELSE FirstFree :
            /\ message' = [message EXCEPT ![a] = m]
            /\ target' = [target EXCEPT ![a] = d]
            /\ raced' \in {raced, raced \cup {d}}
    BY <1>5 DEF Locate
  <2>3. m \in DOMAIN topicOf /\ topicOf[m] \in Topics
    BY <1>1, ToPrepareIsOwn DEF OwnTypes
  <2>4. row[topicOf[m]] \in Dirs \cup {0} /\ FirstFree \subseteq Dirs
    BY <1>1, <2>3 DEF DiskKinds, FirstFree, Free
  <2>5. PICK d \in Dirs : /\ message' = [message EXCEPT ![a] = m]
                          /\ target' = [target EXCEPT ![a] = d]
                          /\ raced' \in {raced, raced \cup {d}}
    BY <2>2, <2>4
  <2>6. ActorKinds'
    BY <1>1, <2>1, <2>3, <2>5, ActorMoves
  <2>7. DiskKinds' /\ MailKinds' /\ WorkKinds' /\ LockKinds'
    BY <1>1, <2>1, <2>5 DEF DiskKinds, MailKinds, WorkKinds, LockKinds, lockVars
  <2>8. \A t \in Topics : AtTurn(t)' => AtTurn(t) /\ batch'[t] = batch[t]
    BY <1>2, <1>3, <2>1 DEF AtTurn
  <2>. QED
    BY <1>1, <2>1, <2>6, <2>7, <2>8, TurnsStay DEF KindInv
<1>6. ASSUME NEW a \in Actors, MakeDir(a) PROVE KindInv'
  <2>1. /\ pc[a] = "mkdir" /\ dirs' = dirs \cup {target[a]}
        /\ UNCHANGED <<lockVars, files, row, topicOf, toFetch, batch, changed, collected,
                       skipped, made, named, busy, pollTurn, byPoller, raced>>
    BY <1>6 DEF MakeDir, mail, work, queues, notes
  <2>2. DiskKinds' /\ WorkKinds' /\ LockKinds'
    BY <1>1, <1>4, <2>1 DEF DiskKinds, WorkKinds, LockKinds, lockVars
  <2>3. ActorKinds' /\ TurnKinds' /\ prepared' \in [Messages -> Dirs \cup {0}]
    <3>1. CASE message[a] \in toFetch
      <4>1. UNCHANGED <<prepared, message, target>> /\ pc' = [pc EXCEPT ![a] = "fetch"]
        BY <1>6, <3>1 DEF MakeDir, Goto
      <4>2. /\ message' = [message EXCEPT ![a] = message[a]]
            /\ target' = [target EXCEPT ![a] = target[a]]
        BY <1>1, <4>1 DEF ActorKinds
      <4>3. ActorKinds'
        BY <1>1, <1>3, <1>4, <2>1, <4>1, <4>2, ActorMoves
      <4>4. \A t \in Topics : AtTurn(t)' => AtTurn(t) /\ batch'[t] = batch[t]
        BY <1>2, <1>3, <2>1, <4>1 DEF AtTurn
      <4>5. TurnKinds'
        BY <1>1, <4>1, <4>4, TurnsStay
      <4>. QED
        BY <1>1, <4>1, <4>3, <4>5 DEF MailKinds
    <3>2. CASE message[a] \notin toFetch
      <4>1. Prepared(a)
        BY <1>6, <3>2 DEF MakeDir
      <4>. QED
        BY <2>1, <4>1, PreparedKinds
    <3>. QED
      BY <3>1, <3>2
  <2>4. MailKinds'
    BY <1>1, <2>1, <2>3 DEF MailKinds
  <2>. QED
    BY <2>2, <2>3, <2>4 DEF KindInv
<1>7. ASSUME NEW a \in Actors, Fetch(a) PROVE KindInv'
  <2>1. /\ pc[a] = "fetch" /\ Prepared(a) /\ Touch(<<target[a], message[a]>>)
        /\ toFetch' = toFetch \ {message[a]}
        /\ byPoller' = IF a = Poller THEN byPoller \cup {message[a]} ELSE byPoller
        /\ files' = files \cup {<<target[a], message[a]>>}
        /\ UNCHANGED <<lockVars, dirs, row, topicOf, batch, collected, skipped, made, named,
                       busy, pollTurn, raced>>
    BY <1>7 DEF Fetch, Touch, queues
  <2>2. DiskKinds' /\ LockKinds'
    BY <1>1, <1>4, <2>1 DEF DiskKinds, LockKinds, lockVars
  <2>3. changed' \in [Topics -> SUBSET Files]
    BY <1>1, <1>4, <2>1, TouchKinds
  <2>4. WorkKinds'
    BY <1>1, <2>1, <2>3 DEF WorkKinds
  <2>5. ActorKinds' /\ TurnKinds' /\ prepared' \in [Messages -> Dirs \cup {0}]
    BY <2>1, PreparedKinds
  <2>6. MailKinds'
    BY <1>1, <1>4, <2>1, <2>5 DEF MailKinds
  <2>. QED
    BY <2>2, <2>4, <2>5, <2>6 DEF KindInv
<1>8. ASSUME NEW t \in Topics, TakeJob(t) PROVE KindInv'
  <2>1. /\ Acquire /\ pc[t] = "idle" /\ pc' = [pc EXCEPT ![t] = "prepare"]
        /\ batch' = [batch EXCEPT ![t] = <<jobs[t]>>]
        /\ UNCHANGED <<dirs, files, row, topicOf, toFetch, prepared, message, target, changed,
                       collected, skipped, made, named, busy, pollTurn, byPoller, raced>>
    BY <1>8 DEF TakeJob, Goto, disk, mail, notes
  <2>2. LockKinds'
    BY <1>1, <2>1 DEF Acquire, LockKinds
  <2>3. DiskKinds' /\ MailKinds' /\ WorkKinds'
    BY <1>1, <2>1 DEF DiskKinds, MailKinds, WorkKinds
  <2>4. ActorKinds'
    BY <1>1, <1>3, <2>1 DEF ActorKinds
  <2>5. \A u \in Topics : AtTurn(u)' => AtTurn(u) /\ batch'[u] = batch[u]
    BY <1>1, <1>2, <1>3, <2>1 DEF AtTurn, OwnTypes
  <2>. QED
    BY <1>1, <2>1, <2>2, <2>3, <2>4, <2>5, TurnsStay DEF KindInv
<1>9. ASSUME NEW t \in Topics, Snapshot(t) PROVE KindInv'
  <2>1. /\ pc[t] = "prepare" /\ Unprepared(t) = {} /\ pc' = [pc EXCEPT ![t] = "turn"]
        /\ changed' = [changed EXCEPT ![t] = {}]
        /\ UNCHANGED <<lockVars, dirs, files, row, topicOf, toFetch, prepared, message, target,
                       batch, collected, skipped, made, named, busy, pollTurn, byPoller, raced>>
    BY <1>9 DEF Snapshot, Goto, disk, mail, queues, notes
  <2>2. DiskKinds' /\ MailKinds' /\ LockKinds' /\ WorkKinds'
    BY <1>1, <2>1 DEF DiskKinds, MailKinds, WorkKinds, LockKinds, lockVars
  <2>3. ActorKinds'
    BY <1>1, <1>3, <2>1 DEF ActorKinds
  <2>4. RunDir(t) \in Dirs
    <3>1. Latest(t) \in DOMAIN topicOf
      BY <2>1, LatestIsPending DEF Of
    <3>2. Len(batch[t]) \in DOMAIN batch[t]
      <4>1. batch[t] \in Seq(Nat) /\ batch[t] # <<>>
        BY <1>1, <2>1 DEF OwnInv, OwnTypes
      <4>. QED
        BY <4>1
    <3>3. RunDir(t) # 0
      BY <2>1, <3>2 DEF Unprepared, RunDir, Latest
    <3>4. RunDir(t) \in Dirs \cup {0}
      BY <1>1, <3>1, ArrivedFacts DEF RunDir, MailKinds
    <3>. QED
      BY <3>3, <3>4
  <2>5. TurnKinds'
    <3> SUFFICES ASSUME NEW u \in Topics, AtTurn(u)' PROVE RunDir(u)' \in Dirs
      BY DEF TurnKinds
    <3>1. RunDir(u)' = RunDir(u)
      BY <2>1 DEF RunDir, Latest
    <3>2. u = t \/ AtTurn(u)
      BY <1>2, <1>3, <2>1 DEF AtTurn
    <3>. QED
      BY <1>1, <2>4, <3>1, <3>2 DEF TurnKinds
  <2>. QED
    BY <2>2, <2>3, <2>5 DEF KindInv
<1>10. ASSUME NEW t \in Topics, AgentWrites(t) PROVE KindInv'
  <2>1. /\ pc[t] = "turn" /\ files' = files \cup {<<RunDir(t), Output>>}
        /\ Touch(<<RunDir(t), Output>>) /\ made' = [made EXCEPT ![t] = @ \cup {<<RunDir(t), Output>>}]
        /\ UNCHANGED <<lockVars, dirs, row, topicOf, toFetch, prepared, pc, message, target,
                       batch, collected, skipped, named, busy, pollTurn, byPoller, raced>>
    BY <1>10 DEF AgentWrites, Touch, mail, actors, queues, notes
  <2>2. RunDir(t) \in Dirs
    BY <1>1, <2>1 DEF TurnKinds, AtTurn
  <2>3. <<RunDir(t), Output>> \in Files
    BY <2>2, ArrivedFacts DEF Output
  <2>4. changed' \in [Topics -> SUBSET Files]
    BY <1>1, <2>1, <2>3, TouchKinds
  <2>5. WorkKinds'
    BY <1>1, <2>1, <2>3, <2>4 DEF WorkKinds
  <2>6. DiskKinds' /\ MailKinds' /\ LockKinds' /\ ActorKinds'
    BY <1>1, <2>1, <2>3 DEF DiskKinds, MailKinds, LockKinds, ActorKinds, lockVars
  <2>7. \A u \in Topics : AtTurn(u)' => AtTurn(u) /\ batch'[u] = batch[u]
    BY <2>1 DEF AtTurn
  <2>. QED
    BY <1>1, <2>1, <2>5, <2>6, <2>7, TurnsStay DEF KindInv
<1>11. ASSUME NEW t \in Topics, ExecuteReturns(t) PROVE KindInv'
  <2>1. /\ pc[t] = "turn" /\ pc' = [pc EXCEPT ![t] = "collect"]
        /\ row' = [row EXCEPT ![t] = RunDir(t)] \/ row' = row
        /\ UNCHANGED <<lockVars, dirs, files, topicOf, toFetch, prepared, message, target,
                       batch, changed, collected, skipped, made, named, busy, pollTurn, byPoller, raced>>
    BY <1>11 DEF ExecuteReturns, Goto, mail, work, queues, notes
  <2>2. RunDir(t) \in Dirs
    BY <1>1, <2>1 DEF TurnKinds, AtTurn
  <2>3. DiskKinds' /\ MailKinds' /\ LockKinds' /\ WorkKinds'
    BY <1>1, <2>1, <2>2 DEF DiskKinds, MailKinds, LockKinds, WorkKinds, lockVars
  <2>4. ActorKinds'
    BY <1>1, <1>3, <2>1 DEF ActorKinds
  <2>5. \A u \in Topics : AtTurn(u)' => AtTurn(u) /\ batch'[u] = batch[u]
    BY <1>2, <1>3, <2>1 DEF AtTurn
  <2>. QED
    BY <1>1, <2>1, <2>3, <2>4, <2>5, TurnsStay DEF KindInv
<1>12. ASSUME NEW t \in Topics, Collect(t) PROVE KindInv'
  <2>1. /\ pc[t] = "collect" /\ pc' = [pc EXCEPT ![t] = "take"]
        /\ skipped' = [skipped EXCEPT ![t] = @ \cup (Found(t) \ Artifacts(t))]
        /\ changed' = [changed EXCEPT ![t] = {}]
        /\ UNCHANGED <<lockVars, dirs, files, row, topicOf, toFetch, prepared, message, target,
                       batch, made, busy, pollTurn, byPoller, raced>>
    BY <1>12 DEF Collect, Goto, disk, mail, queues, notes
  <2>2. PICK links \in Links(t) :
          /\ collected' = [collected EXCEPT ![t] = @ \cup Artifacts(t) \cup links]
          /\ named' = [named EXCEPT ![t] = @ \cup links]
    BY <1>12 DEF Collect
  <2>3. Artifacts(t) \subseteq Files /\ Found(t) \subseteq Files
    BY <1>1 DEF Artifacts, Found, WorkKinds
  <2>4. links \subseteq Files
    BY <1>1 DEF Links, Nameable, DiskKinds
  <2>5. WorkKinds'
    BY <1>1, <2>1, <2>2, <2>3, <2>4 DEF WorkKinds
  <2>6. DiskKinds' /\ MailKinds' /\ LockKinds'
    BY <1>1, <2>1 DEF DiskKinds, MailKinds, LockKinds, lockVars
  <2>7. ActorKinds'
    BY <1>1, <1>3, <2>1 DEF ActorKinds
  <2>8. \A u \in Topics : AtTurn(u)' => AtTurn(u) /\ batch'[u] = batch[u]
    BY <1>2, <1>3, <2>1 DEF AtTurn
  <2>. QED
    BY <1>1, <2>1, <2>5, <2>6, <2>7, <2>8, TurnsStay DEF KindInv
<1>13. ASSUME NEW t \in Topics, TakeFollowUps(t) PROVE KindInv'
  <2>1. /\ pc[t] = "take" /\ \E l \in {"deliver", "prepare"} : pc' = [pc EXCEPT ![t] = l]
        /\ busy' = [busy EXCEPT ![t] = FALSE] \/ busy' = busy
        /\ batch' = batch \/ batch' = [batch EXCEPT ![t] = followUps[t]]
        /\ UNCHANGED <<lockVars, dirs, files, row, topicOf, toFetch, prepared, message, target,
                       changed, collected, skipped, made, named, pollTurn, byPoller, raced>>
    BY <1>13 DEF TakeFollowUps, Goto, disk, mail, notes
  <2>2. DiskKinds' /\ MailKinds' /\ LockKinds' /\ WorkKinds'
    BY <1>1, <2>1 DEF DiskKinds, MailKinds, LockKinds, WorkKinds, lockVars
  <2>3. ActorKinds'
    BY <1>1, <1>3, <2>1 DEF ActorKinds
  <2>4. \A u \in Topics : AtTurn(u)' => AtTurn(u) /\ batch'[u] = batch[u]
    BY <1>1, <1>2, <1>3, <2>1 DEF AtTurn, OwnTypes
  <2>. QED
    BY <1>1, <2>1, <2>2, <2>3, <2>4, TurnsStay DEF KindInv
<1>14. ASSUME NEW t \in Topics, Deliver(t) \/ WorkerFails(t) PROVE KindInv'
  <2>1. UNCHANGED <<dirs, row, mail, prepared, pollTurn, notes>>
    BY <1>14 DEF Deliver, WorkerFails, disk
  <2>2. busy' \in [Topics -> BOOLEAN]
    BY <1>1, <1>14 DEF Deliver, WorkerFails, queues, WorkKinds
  <2>3. CASE WorkerRests(t, changed) /\ UNCHANGED files
    BY <1>1, <2>1, <2>2, <2>3, RestKinds DEF WorkKinds, DiskKinds
  <2>4. CASE /\ pc[t] = "fetch" /\ files' = files \cup {<<target[t], message[t]>>}
             /\ WorkerRests(t, Touched(<<target[t], message[t]>>))
    <3>1. <<target[t], message[t]>> \in Files
      BY <1>2, <1>4, <2>4
    <3>2. Touched(<<target[t], message[t]>>) \in [Topics -> SUBSET Files]
      BY <1>1, <3>1, TouchKinds
    <3>3. files' \in SUBSET Files
      BY <1>1, <2>4, <3>1 DEF DiskKinds
    <3>. QED
      BY <2>1, <2>2, <2>4, <3>2, <3>3, RestKinds
  <2>. QED
    BY <1>14, <2>3, <2>4 DEF Deliver, WorkerFails, disk
<1>15. ASSUME pc[Poller] # "idle", NEW l \in {"steer", "idle"}, pc' = [pc EXCEPT ![Poller] = l],
              message' = [message EXCEPT ![Poller] = 0] \/ message' = message,
              target' = [target EXCEPT ![Poller] = 0],
              files' \in SUBSET Files,
              UNCHANGED <<lockVars, dirs, row, topicOf, toFetch, prepared, batch,
                          collected, skipped, made, named, busy, raced>>,
              changed' \in [Topics -> SUBSET Files], byPoller' \in SUBSET DOMAIN topicOf,
              pollTurn' \in {0, pollTurn}
      PROVE  KindInv'
  <2>1. DiskKinds' /\ MailKinds' /\ LockKinds' /\ WorkKinds'
    BY <1>1, <1>15 DEF DiskKinds, MailKinds, LockKinds, WorkKinds, lockVars
  <2>2. PICK m \in DOMAIN topicOf \cup {0} : message' = [message EXCEPT ![Poller] = m]
    <3>1. message = [message EXCEPT ![Poller] = message[Poller]]
      BY <1>1 DEF ActorKinds
    <3>. QED
      BY <1>2, <1>3, <1>15, <3>1
  <2>3. ActorKinds'
    <3>1. l \notin {"mkdir", "fetch"}
      BY <1>15
    <3>. QED
      BY <1>1, <1>2, <1>3, <1>15, <2>2, <3>1, ActorMoves
  <2>4. \A u \in Topics : AtTurn(u)' => AtTurn(u) /\ batch'[u] = batch[u]
    BY <1>2, <1>3, <1>15 DEF AtTurn
  <2>. QED
    BY <1>1, <1>15, <2>1, <2>3, <2>4, TurnsStay DEF KindInv
<1>16. CASE PrepareFails
  <2>1. pc[Poller] # "idle"
    BY <1>2, <1>16 DEF PrepareFails, NoName, ToPrepare
  <2>. QED
    BY <1>1, <1>15, <1>16, <2>1
       DEF PrepareFails, Goto, disk, mail, work, queues, notes, WorkKinds, MailKinds, DiskKinds
<1>17. CASE FetchBreaksOff
  <2>1. /\ pc[Poller] = "fetch" /\ Touch(<<target[Poller], message[Poller]>>)
        /\ byPoller' = byPoller \cup {message[Poller]}
        /\ pc' = [pc EXCEPT ![Poller] = "steer"] /\ target' = [target EXCEPT ![Poller] = 0]
        /\ files' = files \cup {<<target[Poller], message[Poller]>>}
        /\ UNCHANGED <<lockVars, dirs, row, topicOf, toFetch, prepared, message, batch,
                       collected, skipped, made, named, busy, pollTurn, raced>>
    BY <1>17 DEF FetchBreaksOff, Touch, Goto, mail, queues
  <2>2. changed' \in [Topics -> SUBSET Files] /\ byPoller' \in SUBSET DOMAIN topicOf
    BY <1>1, <1>2, <1>4, <2>1, TouchKinds DEF MailKinds
  <2>3. files' \in SUBSET Files
    BY <1>1, <1>2, <1>4, <2>1 DEF DiskKinds
  <2>. QED
    BY <1>15, <2>1, <2>2, <2>3
<1>18. CASE Steer \/ SteerFails
  <2>1. /\ pc[Poller] = "steer" /\ pc' = [pc EXCEPT ![Poller] = "idle"]
        /\ message' = [message EXCEPT ![Poller] = 0] /\ target' = [target EXCEPT ![Poller] = 0]
        /\ pollTurn' = 0
        /\ UNCHANGED <<lockVars, dirs, files, row, topicOf, toFetch, prepared, batch, changed,
                       collected, skipped, made, named, busy, byPoller, raced>>
    BY <1>18 DEF Steer, SteerFails, PollerRests, Goto, disk, mail, work, queues, notes
  <2>. QED
    BY <1>1, <1>15, <2>1 DEF WorkKinds, MailKinds, DiskKinds
<1>19. CASE UNCHANGED filesVars
  <2>1. UNCHANGED <<inhibitor, dirs, files, row, topicOf, toFetch, prepared, pc, message, target,
                    batch, changed, collected, skipped, made, named, busy, pollTurn, byPoller, raced>>
    BY <1>19 DEF filesVars, lockVars, disk, mail, actors, work, queues, notes
  <2>. QED
    BY <2>1 DEF KindInv, DiskKinds, MailKinds, LockKinds, WorkKinds, ActorKinds, TurnKinds,
                AtTurn, RunDir, Latest
<1>. QED
  BY <1>5, <1>6, <1>7, <1>8, <1>9, <1>10, <1>11, <1>12, <1>13, <1>14, <1>16, <1>17, <1>18,
     <1>19, ArriveKinds DEF FilesNext

(* Types: the files, messages and directories a worker and the poll        *)
(* goroutine deal in are always some that are there.                       *)
THEOREM FilesTypeCorrect == FilesSpec => []FilesTypeOK
  BY OwnInit, AwakeInit, KindInit, OwnStep, AwakeStep, KindStep, TypesFromKinds, PTL
     DEF FilesSpec
=============================================================================
