--------------------------- MODULE UpdatePollerProofs ---------------------------
(***************************************************************************)
(* Proofs about UpdatePoller, for every number of updates, answer size and *)
(* number of faults.                                                       *)
(***************************************************************************)
EXTENDS UpdatePoller, FiniteSetTheorems, TLAPS

USE PollerAssumption

(* Types.                                                                  *)
THEOREM TypeCorrect == Spec => []TypeOK
<1>1. Init => TypeOK
  <2> SUFFICES ASSUME Init PROVE TypeOK
    OBVIOUS
  <2>1. saveFailed \in BOOLEAN
    BY DEF Init
  <2>. QED
    BY <2>1 DEF Init, TypeOK, Pcs, Cursors
<1>2. TypeOK /\ [Next]_vars => TypeOK'
  <2> SUFFICES ASSUME TypeOK, [Next]_vars PROVE TypeOK'
    OBVIOUS
  <2> USE DEF TypeOK, Pcs, Cursors, Updates, memory, Fault, Forget, Larger
  <2>1. CASE Post
    BY <2>1 DEF Post
  <2>2. CASE Start
    BY <2>2 DEF Start
  <2>3. CASE Poll
    <3>1. held' \in 1..(MaxUpdates + 1)
      BY <2>3 DEF Poll, Oldest
    <3>2. nextOffset' \in Cursors
      BY <2>3 DEF Poll, Answer
    <3>3. messages' \subseteq Updates
      BY <2>3 DEF Poll, Answer
    <3>. QED
      BY <2>3, <3>1, <3>2, <3>3 DEF Poll
  <2>4. CASE PollAnswerLost
    BY <2>4 DEF PollAnswerLost, Oldest
  <2>5. CASE Handle
    BY <2>5 DEF Handle
  <2>6. CASE Save
    <3>1. /\ pc' = "handle"
          /\ stored' \in {stored, offset}
          /\ lastSavedOffset' \in {lastSavedOffset, offset}
          /\ UNCHANGED <<posted, held, offset, nextOffset, messages, handled,
                         fresh, faults>>
      BY <2>6 DEF Save
    <3>2. saveFailed' = FALSE \/ UNCHANGED saveFailed
      BY <2>6 DEF Save
    <3>3. saveFailed' \in BOOLEAN
      BY <3>2
    <3>. QED
      BY <3>1, <3>3
  <2>7. CASE SaveFails
    BY <2>7 DEF SaveFails
  <2>8. CASE EndBatch
    BY <2>8 DEF EndBatch
  <2>9. CASE Flush
    BY <2>9 DEF Flush
  <2>10. CASE HandlerFails \/ Crash
    <3>1. Forget /\ faults' \in 0..MaxFaults
      BY <2>10 DEF HandlerFails, Crash
    <3>2. saveFailed' \in BOOLEAN
      BY <3>1
    <3>. QED
      BY <3>1, <3>2
  <2>11. CASE UNCHANGED vars
    BY <2>11 DEF vars
  <2>. QED
    BY <2>1, <2>2, <2>3, <2>4, <2>5, <2>6, <2>7, <2>8, <2>9, <2>10, <2>11
       DEF Next, RunStep
<1>. QED
  BY <1>1, <1>2, PTL DEF Spec

(* The cursors and what they stand for.  NoUpdateSkipped alone is not      *)
(* inductive: the saved cursor is a copy of the one in memory, which moves *)
(* past an answer only when nothing of it is left to handle.               *)
CursorInv ==
  /\ NoUpdateSkipped
  /\ DoneBelow(offset)
  /\ \A u \in Updates : u < nextOffset => u \in handled \cup Silent \cup messages
  /\ \A u \in messages : offset <= u /\ u < nextOffset
  /\ pc = "down" => messages = {} /\ lastSavedOffset = 0
  /\ pc # "down" => /\ stored <= offset
                    /\ lastSavedOffset <= offset
                    /\ \A u \in fresh : u < offset
                    /\ ~saveFailed /\ pc # "save" => \A u \in fresh : u < stored
  /\ pc = "save" =>
       /\ lastSavedOffset < offset
       /\ ~saveFailed => \A u \in fresh : u < stored \/ u + 1 = offset

(* Every step of the loop, its crash included, keeps the cursor invariant. *)
LEMMA CursorStep == TypeOK /\ CursorInv /\ [Next]_vars => CursorInv'
<1> SUFFICES ASSUME TypeOK, CursorInv, [Next]_vars PROVE CursorInv'
  OBVIOUS
<1>1. /\ held \in Nat /\ stored \in Nat /\ offset \in Nat /\ posted \in Nat
      /\ lastSavedOffset \in Nat /\ nextOffset \in Nat /\ Updates \subseteq Nat
      /\ messages \subseteq Updates /\ fresh \subseteq Updates
  BY DEF TypeOK, Cursors, Updates
<1> USE <1>1 DEF CursorInv, NoUpdateSkipped, DoneBelow, memory, Larger
<1>2. CASE Post
  BY <1>2 DEF Post
<1>3. CASE Start
  BY <1>3 DEF Start
<1>4. CASE Poll
  <2>1. /\ pc = "poll" /\ pc' = "handle" /\ held' = Oldest
        /\ lastSavedOffset' = offset /\ messages' = Answer \ Silent
        /\ UNCHANGED <<stored, offset, handled, fresh, saveFailed>>
    BY <1>4 DEF Poll
  <2>2. DoneBelow(held)'
    BY <2>1 DEF Oldest
  <2>3. \A u \in Updates : u < nextOffset' => u < Oldest \/ u \in Answer
    BY <1>4 DEF Poll, Answer, Oldest
  <2>4. \A u \in messages' : offset <= u /\ u < nextOffset'
    BY <1>4 DEF Poll, Answer, Oldest
  <2>5. \A u \in Updates : u < Oldest => u \in handled \cup Silent
    BY DEF Oldest
  <2>. QED
    BY <2>1, <2>2, <2>3, <2>4, <2>5
<1>5. CASE PollAnswerLost
  BY <1>5 DEF PollAnswerLost, Oldest, Fault
<1>6. CASE Handle
  <2>1. PICK u \in messages :
          /\ \A v \in messages : u <= v
          /\ messages' = messages \ {u}
          /\ handled' = handled \cup {u}
          /\ fresh' = fresh \cup {u}
          /\ offset' = Larger(offset, u + 1)
    BY <1>6 DEF Handle
  <2>2. /\ pc = "handle" /\ pc' = "save"
        /\ UNCHANGED <<held, stored, lastSavedOffset, nextOffset, saveFailed>>
    BY <1>6 DEF Handle
  <2>3. offset' = u + 1 /\ u \in Nat /\ offset <= u /\ u < nextOffset
    BY <2>1
  <2>4. \A v \in messages' : u + 1 <= v
    BY <2>1
  <2>5. DoneBelow(offset)'
    BY <2>1, <2>3
  <2>. QED
    BY <2>1, <2>2, <2>3, <2>4, <2>5
<1>7. CASE Save
  BY <1>7 DEF Save
<1>8. CASE SaveFails
  BY <1>8 DEF SaveFails, Fault
<1>9. CASE EndBatch
  BY <1>9 DEF EndBatch
<1>10. CASE Flush
  BY <1>10 DEF Flush
<1>11. CASE HandlerFails \/ Crash
  BY <1>11 DEF HandlerFails, Crash, Forget, Fault
<1>12. CASE UNCHANGED vars
  BY <1>12 DEF vars
<1>. QED
  BY <1>2, <1>3, <1>4, <1>5, <1>6, <1>7, <1>8, <1>9, <1>10, <1>11, <1>12
     DEF Next, RunStep

(* The cursor invariant holds of every run, restarts included.             *)
THEOREM CursorCorrect == Spec => []CursorInv
<1>1. Init => CursorInv
  BY DEF Init, CursorInv, NoUpdateSkipped, DoneBelow, Updates
<1>. QED
  BY <1>1, TypeCorrect, CursorStep, PTL DEF Spec

(* No update is skipped by the cursor Telegram and the database hold.      *)
THEOREM NothingSkipped == Spec => []NoUpdateSkipped
  BY CursorCorrect, PTL DEF CursorInv

(* One life of the process hands an update to the handler once.            *)
THEOREM HandledOncePerLife == Spec => []OncePerLife
<1>1. TypeOK /\ CursorInv => OncePerLife
  BY DEF TypeOK, CursorInv, OncePerLife, Cursors, Updates
<1>. QED
  BY <1>1, TypeCorrect, CursorCorrect, PTL

(* A crash costs at most one repeated update unless a save was refused.    *)
THEOREM AtMostOneRedelivered == Spec => []RedeliveryBound
<1>1. TypeOK /\ CursorInv => RedeliveryBound
  <2> SUFFICES ASSUME TypeOK, CursorInv, pc # "down", ~saveFailed
               PROVE  Cardinality({u \in fresh : u >= stored}) <= 1
    BY DEF RedeliveryBound
  <2> DEFINE S == {u \in fresh : u >= stored}
  <2>1. stored \in Nat /\ offset \in Nat /\ \A u \in fresh : u \in Nat
    BY DEF TypeOK, Cursors, Updates
  <2>2. \A u \in S : u = offset - 1
    BY <2>1 DEF CursorInv
  <2>3. S = {} \/ S = {offset - 1}
    BY <2>2
  <2>4. Cardinality({}) = 0 /\ Cardinality({offset - 1}) = 1
    BY FS_EmptySet, FS_Singleton
  <2>. QED
    BY <2>3, <2>4
<1>. QED
  BY <1>1, TypeCorrect, CursorCorrect, PTL

(* The durable cursor only moves forward, across restarts too.             *)
THEOREM CursorOnlyGrows == Spec => CursorMonotone
<1>1. TypeOK /\ CursorInv /\ [Next]_vars => [stored' >= stored]_vars
  <2> SUFFICES ASSUME TypeOK, CursorInv, [Next]_vars
               PROVE  stored' >= stored \/ UNCHANGED vars
    OBVIOUS
  <2>1. stored \in Nat /\ offset \in Nat
    BY DEF TypeOK, Cursors
  <2>2. CASE Save \/ Flush
    BY <2>1, <2>2 DEF Save, Flush, CursorInv
  <2>3. Save \/ Flush \/ UNCHANGED stored
    BY DEF Next, RunStep, Post, Start, Poll, PollAnswerLost, Handle, SaveFails,
           EndBatch, HandlerFails, Crash, Forget, vars
  <2>. QED
    BY <2>1, <2>2, <2>3
<1>. QED
  BY <1>1, TypeCorrect, CursorCorrect, PTL DEF Spec, CursorMonotone
=============================================================================
