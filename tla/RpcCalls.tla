-------------------------------- MODULE RpcCalls --------------------------------
(***************************************************************************)
(* What a JSON-RPC session promises the goroutines that share it: a call   *)
(* returns at most once, with the answer the server gave to that very call *)
(* or with an error of the client's own making.                            *)
(***************************************************************************)
EXTENDS Naturals

CONSTANTS
  Ids,        \* calls
  Answers,    \* what a server may answer
  Failures    \* what a client may report instead

VARIABLES
  called,     \* calls made
  answered,   \* the server's answer, "none" before
  returned    \* what the caller was told, "none" before
vars == <<called, answered, returned>>

Init ==
  /\ called = {}
  /\ answered = [i \in Ids |-> "none"]
  /\ returned = [i \in Ids |-> "none"]

Call ==
  /\ \E i \in Ids \ called : called' = called \cup {i}
  /\ UNCHANGED <<answered, returned>>

Answer ==
  /\ \E i \in called, a \in Answers :
       /\ answered[i] = "none"
       /\ answered' = [answered EXCEPT ![i] = a]
  /\ UNCHANGED <<called, returned>>

Return ==
  /\ \E i \in called :
       /\ returned[i] = "none"
       /\ \/ answered[i] # "none" /\ returned' = [returned EXCEPT ![i] = answered[i]]
          \/ \E f \in Failures : returned' = [returned EXCEPT ![i] = f]
  /\ UNCHANGED <<called, answered>>

Next == Call \/ Answer \/ Return

Spec == Init /\ [][Next]_vars
=============================================================================
