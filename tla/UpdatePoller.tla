------------------------------ MODULE UpdatePoller ------------------------------
(***************************************************************************)
(* The Telegram long-poll loop and its durable cursor                      *)
(* (internal/telegram/bot.go: Run, getUpdates, loadStoredOffset,           *)
(* saveStoredOffset; internal/store/sqlite.go: the telegram_update_offset  *)
(* row of bridge_state).                                                   *)
(*                                                                         *)
(* Updates are numbered as Telegram numbers them.  The process may die     *)
(* between any two steps and is started again by its service manager.      *)
(***************************************************************************)
EXTENDS Naturals, FiniteSets

CONSTANTS
  MaxUpdates,   \* bound: updates Telegram ever sends
  Limit,        \* updates in one getUpdates answer
  Silent,       \* updates that normalise to nothing the bridge handles
  MaxFaults     \* bound: crashes, failed saves, handler errors, lost answers

ASSUME PollerAssumption ==
  /\ MaxUpdates \in Nat
  /\ Limit \in Nat \ {0}
  /\ Silent \subseteq 1..MaxUpdates
  /\ MaxFaults \in Nat

Updates == 1..MaxUpdates

VARIABLES
  \* ---- Telegram's side
  posted,      \* updates 1..posted exist
  held,        \* the first update the server has not been told to forget
  \* ---- the database
  stored,      \* telegram_update_offset, 0 when there is no row
  \* ---- Bot.Run
  pc, offset, lastSavedOffset, nextOffset,
  messages,    \* the normalised updates of the answer still to be handled
  \* ---- history
  handled,     \* updates the handler returned without error for
  fresh,       \* those of this life of the process
  saveFailed,  \* the last attempt of this life to save failed
  faults

memory == <<pc, offset, lastSavedOffset, nextOffset, messages>>
vars == <<posted, held, stored, pc, offset, lastSavedOffset, nextOffset,
          messages, handled, fresh, saveFailed, faults>>

Pcs == {"down", "poll", "handle", "save", "flush"}
Larger(a, b) == IF a >= b THEN a ELSE b

Init ==
  /\ posted = 0
  /\ held = 1
  /\ stored = 0
  /\ pc = "down"
  /\ offset = 0
  /\ lastSavedOffset = 0
  /\ nextOffset = 0
  /\ messages = {}
  /\ handled = {}
  /\ fresh = {}
  /\ saveFailed = FALSE
  /\ faults = 0

Fault == faults < MaxFaults /\ faults' = faults + 1

(* The process ends and forgets; the database and Telegram do not.         *)
Forget ==
  /\ pc' = "down"
  /\ offset' = 0
  /\ lastSavedOffset' = 0
  /\ nextOffset' = 0
  /\ messages' = {}
  /\ UNCHANGED <<posted, held, stored, handled, fresh, saveFailed>>

-----------------------------------------------------------------------------
(* A user does something.                                                  *)
Post ==
  /\ posted < MaxUpdates
  /\ posted' = posted + 1
  /\ UNCHANGED <<held, stored, memory, handled, fresh, saveFailed, faults>>

(* Slip: the stored cursor is not loaded.                                  *)
StartForgets ==
  /\ pc = "down"
  /\ pc' = "poll"
  /\ fresh' = {}
  /\ saveFailed' = FALSE
  /\ UNCHANGED <<posted, held, stored, offset, lastSavedOffset, nextOffset,
                 messages, handled, faults>>

(* Run: loadStoredOffset.  (When it fails Run returns: the process stays   *)
(* down until the next start.)                                             *)
Start ==
  /\ pc = "down"
  /\ pc' = "poll"
  /\ offset' = stored
  /\ fresh' = {}
  /\ saveFailed' = FALSE
  /\ UNCHANGED <<posted, held, stored, lastSavedOffset, nextOffset, messages,
                 handled, faults>>

(* getUpdates(offset): Telegram forgets every update below offset and      *)
(* answers with the first Limit of the others; lastSavedOffset restarts    *)
(* from the cursor in memory.  nextOffset skips what normalises to nothing.*)
Oldest == Larger(held, offset)
Answer == {u \in Updates : u >= Oldest /\ u <= posted /\ u < Oldest + Limit}

(* Slip: an answer with nothing to handle still moves past a whole page.   *)
PollSkipsPage ==
  /\ pc = "poll"
  /\ pc' = "handle"
  /\ held' = Oldest
  /\ lastSavedOffset' = offset
  /\ messages' = Answer \ Silent
  /\ nextOffset' = Oldest + Limit
  /\ UNCHANGED <<posted, stored, offset, handled, fresh, saveFailed, faults>>

Poll ==
  /\ pc = "poll"
  /\ pc' = "handle"
  /\ held' = Oldest
  /\ lastSavedOffset' = offset
  /\ messages' = Answer \ Silent
  /\ \/ Answer = {} /\ nextOffset' = offset
     \/ \E u \in Answer :
          /\ \A v \in Answer : v <= u
          /\ nextOffset' = u + 1
  /\ UNCHANGED <<posted, stored, offset, handled, fresh, saveFailed, faults>>

(* The request arrived but its answer did not: Run sleeps and asks again.  *)
PollAnswerLost ==
  /\ pc = "poll"
  /\ held' = Oldest
  /\ Fault
  /\ UNCHANGED <<posted, stored, memory, handled, fresh, saveFailed>>

(* The handler accepts the next message and the cursor moves past it.      *)
Handle ==
  /\ pc = "handle"
  /\ \E u \in messages :
       /\ \A v \in messages : u <= v
       /\ messages' = messages \ {u}
       /\ handled' = handled \cup {u}
       /\ fresh' = fresh \cup {u}
       /\ offset' = Larger(offset, u + 1)
  /\ pc' = "save"
  /\ UNCHANGED <<posted, held, stored, lastSavedOffset, nextOffset, saveFailed,
                 faults>>

(* The handler returns an error, and Run with it.                          *)
HandlerFails ==
  /\ pc = "handle"
  /\ messages # {}
  /\ Fault
  /\ Forget

(* Slips: the cursor is not saved after each message, or saved past the    *)
(* messages still to be handled.                                           *)
SaveAtEndOnly ==
  /\ pc = "save"
  /\ pc' = "handle"
  /\ UNCHANGED <<posted, held, stored, offset, lastSavedOffset, nextOffset,
                 messages, handled, fresh, saveFailed, faults>>

SaveBatchEnd ==
  /\ pc = "save"
  /\ pc' = "handle"
  /\ stored' = nextOffset
  /\ lastSavedOffset' = nextOffset
  /\ saveFailed' = FALSE
  /\ UNCHANGED <<posted, held, offset, nextOffset, messages, handled, fresh,
                 faults>>

(* saveStoredOffset after a message.  A failure is ignored.                *)
Save ==
  /\ pc = "save"
  /\ pc' = "handle"
  /\ IF offset > lastSavedOffset
     THEN /\ stored' = offset
          /\ lastSavedOffset' = offset
          /\ saveFailed' = FALSE
     ELSE UNCHANGED <<stored, lastSavedOffset, saveFailed>>
  /\ UNCHANGED <<posted, held, offset, nextOffset, messages, handled, fresh,
                 faults>>

SaveFails ==
  /\ pc \in {"save", "flush"}
  /\ offset > lastSavedOffset
  /\ pc' = IF pc = "save" THEN "handle" ELSE "poll"
  /\ saveFailed' = TRUE
  /\ Fault
  /\ UNCHANGED <<posted, held, stored, offset, lastSavedOffset, nextOffset,
                 messages, handled, fresh>>

(* Slip: the cursor goes back to where the answer ended.                   *)
EndBatchAssigns ==
  /\ pc = "handle"
  /\ messages = {}
  /\ offset' = held
  /\ pc' = "flush"
  /\ UNCHANGED <<posted, held, stored, lastSavedOffset, nextOffset, messages,
                 handled, fresh, saveFailed, faults>>

(* Slip: the cursor moves with handled messages only.                      *)
EndBatchKeepsOffset ==
  /\ pc = "handle"
  /\ messages = {}
  /\ pc' = "flush"
  /\ UNCHANGED <<posted, held, stored, offset, lastSavedOffset, nextOffset,
                 messages, handled, fresh, saveFailed, faults>>

(* All messages are handled: the cursor also moves past silent updates.    *)
EndBatch ==
  /\ pc = "handle"
  /\ messages = {}
  /\ offset' = Larger(offset, nextOffset)
  /\ pc' = "flush"
  /\ UNCHANGED <<posted, held, stored, lastSavedOffset, nextOffset, messages,
                 handled, fresh, saveFailed, faults>>

(* The save at the end of an iteration, when something is left to save.    *)
Flush ==
  /\ pc = "flush"
  /\ pc' = "poll"
  /\ IF offset > lastSavedOffset
     THEN stored' = offset /\ saveFailed' = FALSE
     ELSE UNCHANGED <<stored, saveFailed>>
  /\ UNCHANGED <<posted, held, offset, lastSavedOffset, nextOffset, messages,
                 handled, fresh, faults>>

(* The process is killed.                                                  *)
Crash ==
  /\ pc # "down"
  /\ Fault
  /\ Forget

RunStep == Start \/ Poll \/ Handle \/ Save \/ EndBatch \/ Flush

Next ==
  \/ Post \/ RunStep
  \/ PollAnswerLost \/ HandlerFails \/ SaveFails \/ Crash

Spec == Init /\ [][Next]_vars

(* The loop keeps running and the service manager restarts the process     *)
(* (Restart=always); users owe nothing.                                    *)
FairSpec == Spec /\ WF_vars(RunStep)

-----------------------------------------------------------------------------
(* Types; a cursor is never past the update Telegram sends next.           *)
Cursors == 0..(MaxUpdates + 1)
TypeOK ==
  /\ posted \in 0..MaxUpdates
  /\ held \in 1..(MaxUpdates + 1)
  /\ stored \in Cursors
  /\ pc \in Pcs
  /\ offset \in Cursors
  /\ lastSavedOffset \in Cursors
  /\ nextOffset \in Cursors
  /\ messages \subseteq Updates
  /\ handled \subseteq Updates
  /\ fresh \subseteq Updates
  /\ saveFailed \in BOOLEAN
  /\ faults \in 0..MaxFaults

(* Everything below n needs no further handling.                           *)
DoneBelow(n) == \A u \in Updates : u < n => u \in handled \cup Silent

(* No update is skipped, whatever fails and whenever the process dies: the *)
(* durable cursor and Telegram's own memory never pass an update that was  *)
(* not handled.                                                            *)
NoUpdateSkipped == DoneBelow(stored) /\ DoneBelow(held)

(* Between two starts the handler sees an update at most once.             *)
OncePerLife == messages \cap fresh = {}

(* Unless the database refused the last save, a crash makes Telegram       *)
(* deliver at most one update a second time.                               *)
RedeliveryBound ==
  pc # "down" /\ ~saveFailed => Cardinality({u \in fresh : u >= stored}) <= 1

(* The durable cursor never moves back, across restarts included.          *)
CursorMonotone == [][stored' >= stored]_vars

(* Every update the bridge cares about is handled in the end.              *)
EveryUpdateHandled ==
  \A u \in Updates \ Silent : (posted >= u) ~> (u \in handled)

(* bot.go:191 says of a failed save "We'll keep processing with the        *)
(* in-memory offset and retry next loop": an iteration that ends with an   *)
(* unsaved cursor knows that it has something to save.                     *)
UnsavedIsRetried == pc = "flush" /\ offset > stored => offset > lastSavedOffset
=============================================================================
