------------------------------ MODULE RunSettings ------------------------------
(***************************************************************************)
(* The settings of a topic and what a run makes of them                    *)
(* (internal/app/topic_settings.go, internal/codex/catalog.go, the         *)
(* catalogs of app_server.go and gemini_client.go, the arguments of the    *)
(* three clients, provider_router.go: StartThread, ResumeThread).          *)
(*                                                                         *)
(* The poll goroutine changes the preferences, by command or by a button   *)
(* of a menu that may be old; the worker resolves them and starts a run.   *)
(* What Codex offers is asked anew each time: of the app-server, or, when  *)
(* it does not answer, of the cache file the command line reads, so one    *)
(* preference is judged by different catalogs.  "" is "not set".           *)
(***************************************************************************)
EXTENDS Naturals, FiniteSets

CONSTANTS
  DefaultProvider,            \* CODEX_PROVIDER
  CodexLists,                 \* the lists model/list or the cache may give:
                              \*   records of models and first
  ConfigModels,               \* models config.toml may name, "" for none
  ConfigEffort, ConfigTier,   \* its level and tier
  GeminiModels, GeminiDefault,
  Levels,                     \* the reasoning levels a model supports
  DefaultLevel,               \* the level a model has by itself
  Efforts                     \* bound: levels a user asks for

Providers == {"codex", "gemini"}

ASSUME SettingsAssumption ==
  /\ DefaultProvider \in Providers /\ GeminiDefault # ""
  /\ \A list \in CodexLists : list.first \in list.models \cup {""}

VARIABLES
  prefs,       \* the topic's row of topic_preferences
  worker,      \* "idle", "resolved", "launched" or "crossed"
  catalog,     \* the catalog the settings were resolved with
  settings,    \* RunSettings of the run to be started
  launch       \* the provider started, and the settings given to it

settingsVars == <<prefs, worker, catalog, settings, launch>>

NoPrefs == [provider |-> "", model |-> "", effort |-> "", tier |-> ""]
None == [provider |-> "none"]

SettingsInit ==
  /\ prefs = NoPrefs
  /\ worker = "idle"
  /\ catalog = None
  /\ settings = None
  /\ launch = None

-----------------------------------------------------------------------------
OrElse(a, b) == IF a # "" THEN a ELSE b

(* DefaultReasoningForModel.                                               *)
LevelOf(cat, m) ==
  IF m \in cat.models /\ DefaultLevel[m] # "" THEN DefaultLevel[m] ELSE cat.effort

(* SettingsCatalog of the app-server and of the command line: the model of *)
(* config.toml, listed or not, else the first of the list.                 *)
CodexCatalog(list, configured) ==
  LET model == OrElse(configured, list.first)
      level == LevelOf([models |-> list.models, effort |-> "medium"], model)
  IN  [provider |-> "codex", models |-> list.models, model |-> model,
       effort |-> OrElse(ConfigEffort, level),
       tier |-> ConfigTier]

(* GeminiCLIClient.SettingsCatalog.                                        *)
GeminiCatalog ==
  [provider |-> "gemini",
   models |-> IF GeminiModels = {} THEN {GeminiDefault} ELSE GeminiModels,
   model |-> GeminiDefault, effort |-> "", tier |-> ""]

(* SettingsCatalogFor: any catalog the provider may answer with.           *)
Catalogs(provider) ==
  IF provider = "gemini" THEN {GeminiCatalog}
  ELSE {CodexCatalog(list, m) : list \in CodexLists, m \in ConfigModels}

Supports(cat, m, e) == e # "" /\ m \in cat.models /\ e \in Levels[m]

(* Slip: a model the catalog does not list is kept.                        *)
SanitizeKeepsModel(cat, p) ==
  [p EXCEPT !.effort = IF Supports(cat, OrElse(p.model, cat.model), p.effort)
                       THEN p.effort ELSE ""]

(* sanitizeTopicPreferences.                                               *)
Sanitize(cat, p) ==
  LET model == IF p.model \in cat.models THEN p.model ELSE ""
  IN  [p EXCEPT !.model = model,
                !.effort = IF Supports(cat, OrElse(model, cat.model), p.effort)
                           THEN p.effort ELSE ""]

(* topicSettings: the preferences as this catalog allows them, and what a  *)
(* run gets.                                                               *)
Loaded(cat) == Sanitize(cat, prefs)
Asked == Catalogs(OrElse(prefs.provider, DefaultProvider))
Effective(cat) ==
  LET p == Loaded(cat)
      model == OrElse(p.model, cat.model)
  IN  [provider |-> cat.provider, model |-> model,
       effort |-> IF Supports(cat, model, p.effort) THEN p.effort
                  ELSE LevelOf(cat, model),
       tier |-> OrElse(p.tier, cat.tier)]

-----------------------------------------------------------------------------
(* The selections, as /model, /think, /speed and the buttons make them; a  *)
(* value the catalog of the moment does not allow is refused.              *)
ApplyModel(cat, m) ==
  /\ m \in cat.models
  /\ prefs' = [Loaded(cat) EXCEPT
                 !.model = m,
                 !.effort = IF Supports(cat, m, @) THEN @ ELSE ""]

ApplyThink(cat, e) ==
  /\ e = "" \/ Supports(cat, Effective(cat).model, e)
  /\ prefs' = [Loaded(cat) EXCEPT !.effort = e]

ApplySpeed(cat, t) == prefs' = [Loaded(cat) EXCEPT !.tier = t]

KnownModels == (UNION {list.models : list \in CodexLists}) \cup GeminiModels

ModelCommand ==
  /\ \E cat \in Asked : \E m \in KnownModels : ApplyModel(cat, m)
  /\ UNCHANGED <<worker, catalog, settings, launch>>

ThinkCommand ==
  /\ \E cat \in Asked : \E e \in Efforts \cup {""} : ApplyThink(cat, e)
  /\ UNCHANGED <<worker, catalog, settings, launch>>

SpeedCommand ==
  /\ \E cat \in Asked : \E t \in {"", "fast"} : ApplySpeed(cat, t)
  /\ UNCHANGED <<worker, catalog, settings, launch>>

(* handleProviderCommand, as far as the preferences go.                    *)
ProviderCommand ==
  /\ \E p \in Providers : \E cat \in Catalogs(p) :
       prefs' = Sanitize(cat, [prefs EXCEPT !.provider = p])
  /\ UNCHANGED <<worker, catalog, settings, launch>>

(* createThread and continueThread resolve the settings of the run.        *)
Resolve ==
  /\ worker = "idle"
  /\ \E cat \in Asked :
       /\ catalog' = cat
       /\ settings' = Effective(cat)
  /\ worker' = "resolved"
  /\ UNCHANGED <<prefs, launch>>

(* The arguments the clients make: Gemini has no levels and no tiers.      *)
Arguments(provider, s) ==
  IF provider = "codex" THEN s
  ELSE [provider |-> "gemini", model |-> OrElse(s.model, GeminiDefault),
        effort |-> "", tier |-> ""]

(* ProviderRouter.StartThread, ResumeThread.                               *)
StartRun ==
  /\ worker = "resolved"
  /\ launch' = Arguments(settings.provider, settings)
  /\ worker' = "launched"
  /\ UNCHANGED <<prefs, catalog, settings>>

(* A new Codex thread met a quota, capacity or login error: Gemini is      *)
(* started with the same settings, of which only the provider is changed.  *)
CrossOver ==
  /\ worker = "launched"
  /\ launch.provider = "codex"
  /\ launch' = Arguments("gemini", settings)
  /\ worker' = "crossed"
  /\ UNCHANGED <<prefs, catalog, settings>>

RunOver ==
  /\ worker \in {"launched", "crossed"}
  /\ worker' = "idle"
  /\ catalog' = None
  /\ settings' = None
  /\ launch' = None
  /\ UNCHANGED prefs

SettingsNext ==
  \/ ModelCommand \/ ThinkCommand \/ SpeedCommand \/ ProviderCommand
  \/ Resolve \/ StartRun \/ CrossOver \/ RunOver

SettingsSpec == SettingsInit /\ [][SettingsNext]_settingsVars

-----------------------------------------------------------------------------
KnownTiers == {"", "fast", ConfigTier}
NamedModels == KnownModels \cup ConfigModels \cup {"", GeminiDefault}
NamedLevels ==
  Efforts \cup {"", "medium", ConfigEffort}
    \cup {DefaultLevel[m] : m \in KnownModels \cup {GeminiDefault}}
Settings ==
  [provider : Providers, model : NamedModels, effort : NamedLevels, tier : KnownTiers]
SettingsTypeOK ==
  /\ prefs \in [provider : Providers \cup {""}, model : KnownModels \cup {""},
               effort : Efforts \cup {""}, tier : KnownTiers]
  /\ worker \in {"idle", "resolved", "launched", "crossed"}
  /\ catalog \in Catalogs("codex") \cup Catalogs("gemini") \cup {None}
  /\ settings \in Settings \cup {None}
  /\ launch \in Settings \cup {None}

(* Whatever was chosen, for whichever provider and by whichever catalog,   *)
(* and however the choice changed since, a backend is started with a model *)
(* its catalog lists or defaults to, and with a level that model supports  *)
(* or the catalog gives when none is chosen.  The one exception the code   *)
(* makes is Gemini started in place of Codex.                              *)
LaunchFitsProvider ==
  worker = "launched" =>
    /\ launch.provider = catalog.provider
    /\ launch.model \in catalog.models \cup {catalog.model}
    /\ launch.effort \in
         IF launch.provider = "gemini" THEN {""}
         ELSE {LevelOf(catalog, launch.model)} \cup
              IF launch.model \in catalog.models THEN Levels[launch.model] ELSE {}
=============================================================================
