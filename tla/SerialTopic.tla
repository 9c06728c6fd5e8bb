------------------------------ MODULE SerialTopic ------------------------------
(***************************************************************************)
(* What a topic promises its user, without its goroutines, lock, channel,  *)
(* trackers or turns (docs/architecture.md, Topic Concurrency): messages   *)
(* wait in the topic, one batch of waiting messages runs at a time, and a  *)
(* message leaves the waiting set exactly once, by being run, by being     *)
(* absorbed into the run that is on (steering), or by being given back to  *)
(* the user when that run fails.                                           *)
(***************************************************************************)
EXTENDS Naturals

CONSTANT MaxMsgs
VARIABLES arrived, waiting, running
vars == <<arrived, waiting, running>>

Init == arrived = 0 /\ waiting = {} /\ running = {}

(* The next message of the user.                                           *)
Arrive ==
  /\ arrived < MaxMsgs
  /\ arrived' = arrived + 1
  /\ waiting' = waiting \cup {arrived + 1}
  /\ UNCHANGED running

(* A batch starts when nothing runs.                                       *)
Start ==
  /\ running = {}
  /\ \E B \in (SUBSET waiting) \ {{}} :
       /\ running' = B
       /\ waiting' = waiting \ B
  /\ UNCHANGED arrived

(* The run that is on takes one more message in.                           *)
Absorb ==
  /\ running # {}
  /\ \E m \in waiting : waiting' = waiting \ {m}
  /\ UNCHANGED <<arrived, running>>

(* The run hands over to the next batch.                                   *)
Continue ==
  /\ running # {}
  /\ \E B \in (SUBSET waiting) \ {{}} :
       /\ running' = B
       /\ waiting' = waiting \ B
  /\ UNCHANGED arrived

(* The run ends; a failed one gives some waiting messages back.            *)
End ==
  /\ running # {}
  /\ running' = {}
  /\ \E R \in SUBSET waiting : waiting' = waiting \ R
  /\ UNCHANGED arrived

Next == Arrive \/ Start \/ Absorb \/ Continue \/ End

Spec == Init /\ [][Next]_vars
=============================================================================
