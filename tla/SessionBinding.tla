----------------------------- MODULE SessionBinding -----------------------------
(***************************************************************************)
(* The binding of one topic to a session of a coding agent: its row in     *)
(* topic_bindings, the provider preference, the backends' sessions and the *)
(* router's memory of who owns them (internal/app/async.go executeUpdate,  *)
(* internal/app/app.go and topic_settings.go commands,                     *)
(* internal/codex/provider_router.go, internal/store/sqlite.go).           *)
(*                                                                         *)
(* Two goroutines read and write the row without a common lock: the        *)
(* topic's worker, which runs messages, and the poll goroutine, which runs *)
(* commands.  Each call of the store, of the router and of a backend is    *)
(* one action, so everything read before a call may be stale after it.     *)
(* The process may die at any point; the row, the preference and the       *)
(* backends survive.                                                       *)
(***************************************************************************)
EXTENDS Naturals

CONSTANTS
  MaxSessions,       \* bound: sessions the backends ever create
  DefaultProvider    \* the provider of a topic that chose none

Providers == {"codex", "gemini"}

ASSUME BindingAssumption ==
  /\ MaxSessions \in Nat
  /\ DefaultProvider \in Providers

Sessions == 1..MaxSessions
Goroutines == {"worker", "poller"}

(* A row as LookupBinding returns it; session 0 is "not found".            *)
Rows == [session : 0..MaxSessions, provider : Providers,
         status : {"live", "archived"}]
NoRow == [session |-> 0, provider |-> DefaultProvider, status |-> "live"]

VARIABLES
  \* ---- the database
  row,          \* topic_bindings
  pref,         \* topic_preferences.provider, or "unset"
  \* ---- the backends
  owner,        \* the provider that holds a session, or "none"
  \* ---- the process
  remembered,   \* ProviderRouter.sessionProviders, "none" when absent
  pc,
  copy,         \* the binding a goroutine looked up
  settings,     \* the provider executeUpdate compared the binding with
  use,          \* the provider of the run request
  result,       \* the row to be saved
  \* ---- history
  ended,        \* sessions archived by a command
  settled       \* those no run was holding at that moment

durable == <<row, pref, owner>>
local   == <<copy, settings, use, result>>
history == <<ended, settled>>
vars == <<row, pref, owner, remembered, pc, copy, settings, use, result,
          ended, settled>>

WorkerPcs == {"idle", "settings", "reread", "call", "save"}
PollerPcs == {"idle", "archiveRow", "remember", "archiveThread",
              "switchLookup", "switchRow", "reread", "call", "save"}

Init ==
  /\ row = NoRow
  /\ pref = "unset"
  /\ owner = [s \in Sessions |-> "none"]
  /\ remembered = [s \in Sessions |-> "none"]
  /\ pc = [g \in Goroutines |-> "idle"]
  /\ copy = [g \in Goroutines |-> NoRow]
  /\ settings = DefaultProvider
  /\ use = [g \in Goroutines |-> DefaultProvider]
  /\ result = [g \in Goroutines |-> NoRow]
  /\ ended = {}
  /\ settled = {}

Goto(g, label) == pc' = [pc EXCEPT ![g] = label]

(* The goroutine's handler returns and its locals are gone.                *)
Return(g) ==
  /\ Goto(g, "idle")
  /\ copy' = [copy EXCEPT ![g] = NoRow]
  /\ use' = [use EXCEPT ![g] = DefaultProvider]
  /\ result' = [result EXCEPT ![g] = NoRow]
  /\ settings' = IF g = "worker" THEN DefaultProvider ELSE settings

(* topicSettings: the topic's choice, or the default.                      *)
Chosen == IF pref = "unset" THEN DefaultProvider ELSE pref

(* providerForSession.                                                     *)
ProviderFor(s) == IF remembered[s] = "none" THEN DefaultProvider
                                            ELSE remembered[s]

(* StartThread of the router: a new Codex thread may fall back to Gemini.  *)
Runners(p) == IF p = "codex" THEN {"codex", "gemini"} ELSE {p}

-----------------------------------------------------------------------------
(* The worker: executeUpdate.                                              *)

(* Slip: an archived binding is used like a live one.                      *)
LookupIgnoresArchive ==
  /\ pc["worker"] = "idle"
  /\ copy' = [copy EXCEPT !["worker"] = row]
  /\ Goto("worker", "settings")
  /\ UNCHANGED <<durable, remembered, settings, use, result, history>>

(* A message runs: its binding is looked up; an archived one is as none.   *)
Lookup ==
  /\ pc["worker"] = "idle"
  /\ copy' = [copy EXCEPT !["worker"] =
                IF row.status = "archived" THEN NoRow ELSE row]
  /\ Goto("worker", "settings")
  /\ UNCHANGED <<durable, remembered, settings, use, result, history>>

(* Slip: the binding's provider is not compared with the topic's.          *)
SettingsUnchecked ==
  /\ pc["worker"] = "settings"
  /\ settings' = Chosen
  /\ Goto("worker", "reread")
  /\ UNCHANGED <<durable, remembered, copy, use, result, history>>

(* The topic's provider is read; a binding of the other provider is        *)
(* dropped in favour of a fresh thread.                                    *)
Settings ==
  /\ pc["worker"] = "settings"
  /\ settings' = Chosen
  /\ copy' = [copy EXCEPT !["worker"] =
                IF @.provider = Chosen THEN @ ELSE NoRow]
  /\ Goto("worker", "reread")
  /\ UNCHANGED <<durable, remembered, use, result, history>>

(* createThread and continueThread read the settings for themselves.       *)
Reread(g) ==
  /\ pc[g] = "reread"
  /\ use' = [use EXCEPT ![g] = Chosen]
  /\ Goto(g, "call")
  /\ UNCHANGED <<durable, remembered, copy, settings, result, history>>

(* Slip: the row records the provider that was asked, not the one that ran.*)
StartRecordsRequested(g) ==
  /\ pc[g] = "call"
  /\ copy[g].session = 0
  /\ \E s \in Sessions, p \in Runners(use[g]) :
       /\ \A t \in Sessions : owner[t] = "none" <=> t >= s
       /\ owner' = [owner EXCEPT ![s] = p]
       /\ remembered' = [remembered EXCEPT ![s] = p]
       /\ result' = [result EXCEPT ![g] =
                       [session |-> s, provider |-> use[g], status |-> "live"]]
  /\ Goto(g, "save")
  /\ UNCHANGED <<row, pref, copy, settings, use, history>>

(* StartThread succeeds; the router remembers who created the session.     *)
Start(g) ==
  /\ pc[g] = "call"
  /\ copy[g].session = 0
  /\ \E s \in Sessions, p \in Runners(use[g]) :
       /\ \A t \in Sessions : owner[t] = "none" <=> t >= s
       /\ owner' = [owner EXCEPT ![s] = p]
       /\ remembered' = [remembered EXCEPT ![s] = p]
       /\ result' = [result EXCEPT ![g] =
                       [session |-> s, provider |-> p, status |-> "live"]]
  /\ Goto(g, "save")
  /\ UNCHANGED <<row, pref, copy, settings, use, history>>

(* ResumeThread succeeds: only the backend that holds the session can.     *)
(* The row to be saved is the one looked up before the run, with the id    *)
(* the backend answers with: backends answer with the one they were asked  *)
(* for.                                                                    *)
Resume ==
  LET s == copy["worker"].session
      p == use["worker"]
  IN
  /\ pc["worker"] = "call"
  /\ s # 0
  /\ owner[s] = p
  /\ remembered' = [remembered EXCEPT ![s] = p]
  /\ result' = [result EXCEPT !["worker"] = [copy["worker"] EXCEPT !.provider = p]]
  /\ Goto("worker", "save")
  /\ UNCHANGED <<durable, copy, settings, use, history>>

(* SaveBinding, an upsert of the whole row; the goroutine is done.         *)
Save(g) ==
  /\ pc[g] = "save"
  /\ row' = result[g]
  /\ Return(g)
  /\ UNCHANGED <<pref, owner, remembered, history>>

(* A call of the store or of a backend fails and the handler returns.      *)
Fail(g) ==
  /\ pc[g] \notin {"idle", "remember", "archiveThread"}
  /\ Return(g)
  /\ UNCHANGED <<durable, remembered, history>>

-----------------------------------------------------------------------------
(* The poll goroutine: commands and topic edits.                           *)

(* /archive, /delete, /new and a live binding.                             *)
ArchiveLookup ==
  /\ pc["poller"] = "idle"
  /\ row.session # 0 /\ row.status = "live"
  /\ copy' = [copy EXCEPT !["poller"] = row]
  /\ Goto("poller", "archiveRow")
  /\ UNCHANGED <<durable, remembered, settings, use, result, history>>

(* /new with a prompt and nothing to archive: startThread.  (/archive and  *)
(* /new without a prompt only answer.)                                     *)
NewPrompt ==
  /\ pc["poller"] = "idle"
  /\ row.session = 0 \/ row.status = "archived"
  /\ Goto("poller", "reread")
  /\ UNCHANGED <<durable, remembered, local, history>>

(* ArchiveBinding stamps whatever the row holds by now.                    *)
Stamp ==
  /\ row' = [row EXCEPT !.status = "archived"]
  /\ ended' = ended \cup {row.session}
  /\ settled' = IF row.session \in {copy["worker"].session, 0}
                THEN settled ELSE settled \cup {row.session}

ArchiveRow ==
  /\ pc["poller"] = "archiveRow"
  /\ Stamp
  /\ Goto("poller", "remember")
  /\ UNCHANGED <<pref, owner, remembered, local>>

(* Slip: the router is not told what the row says about the session.       *)
RememberSkipped ==
  /\ pc["poller"] = "remember"
  /\ Goto("poller", "archiveThread")
  /\ UNCHANGED <<durable, remembered, local, history>>

(* RememberSessionProvider with the row looked up before.                  *)
Remember ==
  /\ pc["poller"] = "remember"
  /\ remembered' = [remembered EXCEPT ![copy["poller"].session] =
                      copy["poller"].provider]
  /\ Goto("poller", "archiveThread")
  /\ UNCHANGED <<durable, local, history>>

(* ArchiveThread goes to ProviderFor(session); an error is only logged.    *)
(* /new with a prompt goes on to startThread, the other commands are done. *)
ArchiveThread ==
  /\ pc["poller"] = "archiveThread"
  /\ copy' = [copy EXCEPT !["poller"] = NoRow]
  /\ \/ Goto("poller", "idle")
     \/ Goto("poller", "reread")
  /\ UNCHANGED <<durable, remembered, settings, use, result, history>>

(* Slip: the argument is stored as it was typed.                           *)
SwitchStoresAlias ==
  /\ pc["poller"] = "idle"
  /\ pref' \in Providers \cup {"gemini-cli"}
  /\ Goto("poller", "switchLookup")
  /\ UNCHANGED <<row, owner, remembered, local, history>>

(* /provider p: the preference is saved first ...                          *)
SwitchProvider ==
  /\ pc["poller"] = "idle"
  /\ pref' \in Providers
  /\ Goto("poller", "switchLookup")
  /\ UNCHANGED <<row, owner, remembered, local, history>>

(* ... then a live binding of the other provider is looked for ...         *)
SwitchLookup ==
  /\ pc["poller"] = "switchLookup"
  /\ \/ /\ row.session # 0 /\ row.status = "live" /\ row.provider # pref
        /\ Goto("poller", "switchRow")
     \/ /\ row.session = 0 \/ row.status = "archived" \/ row.provider = pref
        /\ Goto("poller", "idle")
  /\ UNCHANGED <<durable, remembered, local, history>>

(* ... and the row is stamped; the backend is not told.                    *)
SwitchRow ==
  /\ pc["poller"] = "switchRow"
  /\ Stamp
  /\ Goto("poller", "idle")
  /\ UNCHANGED <<pref, owner, remembered, local>>

(* syncTopicMetadata: a topic edit writes the row it looked up, with the   *)
(* new title (titles are left out).                                        *)
SyncLookup ==
  /\ pc["poller"] = "idle"
  /\ row.session # 0
  /\ result' = [result EXCEPT !["poller"] = row]
  /\ Goto("poller", "save")
  /\ UNCHANGED <<durable, remembered, copy, settings, use, history>>

(* The process dies and is started again.                                  *)
Crash ==
  /\ remembered' = [s \in Sessions |-> "none"]
  /\ pc' = [g \in Goroutines |-> "idle"]
  /\ copy' = [g \in Goroutines |-> NoRow]
  /\ settings' = DefaultProvider
  /\ use' = [g \in Goroutines |-> DefaultProvider]
  /\ result' = [g \in Goroutines |-> NoRow]
  /\ UNCHANGED <<durable, history>>

-----------------------------------------------------------------------------
Shared(g) == Reread(g) \/ Start(g) \/ Save(g) \/ Fail(g)

Command ==
  \/ ArchiveLookup \/ NewPrompt \/ ArchiveRow \/ Remember \/ ArchiveThread
  \/ SwitchProvider \/ SwitchLookup \/ SwitchRow \/ SyncLookup

Next ==
  \/ Lookup \/ Settings \/ Resume
  \/ Command
  \/ \E g \in Goroutines : Shared(g)
  \/ Crash

Spec == Init /\ [][Next]_vars

-----------------------------------------------------------------------------
(* Types; what settles has been archived.                                  *)
TypeOK ==
  /\ row \in Rows
  /\ pref \in Providers \cup {"unset"}
  /\ owner \in [Sessions -> Providers \cup {"none"}]
  /\ remembered \in [Sessions -> Providers \cup {"none"}]
  /\ pc \in [Goroutines -> WorkerPcs \cup PollerPcs]
  /\ pc["worker"] \in WorkerPcs
  /\ copy \in [Goroutines -> Rows]
  /\ settings \in Providers
  /\ use \in [Goroutines -> Providers]
  /\ result \in [Goroutines -> Rows]
  /\ ended \subseteq 0..MaxSessions
  /\ settled \subseteq ended

(* The row names the backend that really holds its session, whichever      *)
(* goroutine wrote it last and whether the run fell back to Gemini         *)
(* ("Bindings persist that provider", docs/architecture.md:56).            *)
ProviderOwnsBinding == row.session # 0 => row.provider = owner[row.session]

(* A backend is asked to archive its own sessions only, also right after a *)
(* restart, when the router remembers nothing (docs/architecture.md:56).   *)
ArchiveReachesOwner ==
  pc["poller"] = "archiveThread" =>
    LET s == copy["poller"].session IN ProviderFor(s) = owner[s]

(* A session is resumed by the backend that holds it, unless /provider     *)
(* slipped in between the two times executeUpdate reads the settings.      *)
ResumedByOwner ==
  LET s == copy["worker"].session IN
  pc["worker"] = "call" /\ s # 0 =>
    use["worker"] = owner[s] \/ use["worker"] # settings

(* A session archived while no run was using it stays archived and is never*)
(* resumed again, whatever else is written to the row.                     *)
SettledStaysArchived ==
  /\ row.session \in settled => row.status = "archived"
  /\ copy["worker"].session \notin settled

(* async.go:265-266, "After /new or /archive, the next normal message      *)
(* should start a fresh thread": with both goroutines idle, a row whose    *)
(* session a command archived is archived.                                 *)
NextMessageStartsFresh ==
  /\ pc["worker"] = "idle" /\ pc["poller"] = "idle"
  /\ row.session \in ended
  => row.status = "archived"

(* docs/architecture.md:64, "Operations within a single topic are          *)
(* serialized": the topic has one agent run at a time.                     *)
OneRunPerTopic == ~(pc["worker"] = "call" /\ pc["poller"] = "call")
=============================================================================
