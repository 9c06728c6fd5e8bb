----------------------------- MODULE SettingsProofs -----------------------------
(***************************************************************************)
(* Proofs about what a run is started with: RunSettings, for all lists of  *)
(* models, levels and defaults, and PermissionMode, for every set of       *)
(* clients and every number of commands.                                   *)
(***************************************************************************)
EXTENDS RunSettings, PermissionMode, TLAPS

-----------------------------------------------------------------------------
(* ---- The settings of a topic                                            *)
Preferences ==
  [provider : Providers \cup {""}, model : KnownModels \cup {""},
   effort : Efforts \cup {""}, tier : KnownTiers]

(* Settings that suit the catalog they were resolved with.                 *)
Fits(s, cat) ==
  /\ s.provider = cat.provider
  /\ s.model \in cat.models \cup {cat.model}
  /\ s.effort \in {LevelOf(cat, s.model)} \cup
                  IF s.model \in cat.models THEN Levels[s.model] ELSE {}

(* LaunchFitsProvider is not inductive: what is launched was resolved      *)
(* before, with a catalog whose default is the client's own.               *)
FitInv ==
  /\ prefs \in Preferences
  /\ worker = "resolved" =>
       /\ catalog \in Catalogs("codex") \cup Catalogs("gemini")
       /\ Fits(settings, catalog)
  /\ LaunchFitsProvider

(* What sanitizeTopicPreferences returns: preferences, with a model of the *)
(* catalog or none.                                                        *)
LEMMA SanitizeFits ==
  ASSUME NEW cat, NEW p \in Preferences
  PROVE  /\ Sanitize(cat, p) \in Preferences
         /\ Sanitize(cat, p).model \in cat.models \cup {""}
<1> DEFINE model == IF p.model \in cat.models THEN p.model ELSE ""
           effort == IF Supports(cat, OrElse(model, cat.model), p.effort)
                     THEN p.effort ELSE ""
<1>1. model \in KnownModels \cup {""} /\ model \in cat.models \cup {""}
  BY DEF Preferences
<1>2. effort \in Efforts \cup {""}
  BY DEF Preferences
<1>3. Sanitize(cat, p) = [p EXCEPT !.model = model, !.effort = effort]
  BY DEF Sanitize
<1> HIDE DEF model, effort
<1>. QED
  BY <1>1, <1>2, <1>3 DEF Preferences

(* What topicSettings resolves fits the catalog it is resolved with.       *)
LEMMA EffectiveFits ==
  ASSUME NEW cat, prefs \in Preferences
  PROVE  Fits(Effective(cat), cat)
<1> DEFINE p == Loaded(cat)
           model == OrElse(p.model, cat.model)
           effort == IF Supports(cat, model, p.effort) THEN p.effort
                     ELSE LevelOf(cat, model)
<1>1. p.model \in cat.models \cup {""}
  BY SanitizeFits DEF Loaded
<1>2. model \in cat.models \cup {cat.model}
  BY <1>1 DEF OrElse
<1>3. effort \in {LevelOf(cat, model)} \cup
                 IF model \in cat.models THEN Levels[model] ELSE {}
  BY DEF Supports
<1>4. /\ Effective(cat).provider = cat.provider
      /\ Effective(cat).model = model
      /\ Effective(cat).effort = effort
  BY DEF Effective
<1> HIDE DEF p, model, effort
<1>. QED
  BY <1>2, <1>3, <1>4 DEF Fits

(* The catalogs of a provider are its own.                                 *)
LEMMA CatalogShape ==
  /\ \A cat \in Catalogs("codex") : cat.provider = "codex"
  /\ \A cat \in Catalogs("gemini") :
       cat.provider = "gemini" /\ cat.model = GeminiDefault
<1>1. ASSUME NEW cat \in Catalogs("codex") PROVE cat.provider = "codex"
  <2>1. Catalogs("codex") =
          {CodexCatalog(list, m) : list \in CodexLists, m \in ConfigModels}
    BY DEF Catalogs
  <2>2. PICK list \in CodexLists, m \in ConfigModels : cat = CodexCatalog(list, m)
    BY <2>1
  <2>3. CodexCatalog(list, m).provider = "codex"
    BY DEF CodexCatalog
  <2>. QED
    BY <2>2, <2>3
<1>2. ASSUME NEW cat \in Catalogs("gemini")
      PROVE  cat.provider = "gemini" /\ cat.model = GeminiDefault
  <2>1. cat = GeminiCatalog
    BY DEF Catalogs
  <2>2. GeminiCatalog.provider = "gemini" /\ GeminiCatalog.model = GeminiDefault
    BY DEF GeminiCatalog
  <2>. QED
    BY <2>1, <2>2
<1>. QED
  BY <1>1, <1>2

(* The arguments of a client keep what fits.                               *)
LEMMA ArgumentsFit ==
  ASSUME NEW s, NEW cat \in Catalogs("codex") \cup Catalogs("gemini"),
         Fits(s, cat)
  PROVE  LET a == Arguments(s.provider, s)
         IN  /\ a.provider = cat.provider
             /\ a.model \in cat.models \cup {cat.model}
             /\ a.effort \in
                  IF a.provider = "gemini" THEN {""}
                  ELSE {LevelOf(cat, a.model)} \cup
                       IF a.model \in cat.models THEN Levels[a.model] ELSE {}
<1>1. CASE s.provider = "codex"
  <2>1. Arguments(s.provider, s) = s
    BY <1>1 DEF Arguments
  <2>. QED
    BY <1>1, <2>1 DEF Fits
<1>2. CASE s.provider # "codex"
  <2>1. cat \in Catalogs("gemini")
    BY <1>2, CatalogShape DEF Fits
  <2>2. cat.provider = "gemini" /\ cat.model = GeminiDefault
    BY <2>1, CatalogShape
  <2>3. /\ Arguments(s.provider, s).provider = "gemini"
        /\ Arguments(s.provider, s).model = OrElse(s.model, GeminiDefault)
        /\ Arguments(s.provider, s).effort = ""
    BY <1>2 DEF Arguments
  <2>4. OrElse(s.model, GeminiDefault) \in cat.models \cup {cat.model}
    BY <2>2 DEF Fits, OrElse
  <2>. QED
    BY <2>2, <2>3, <2>4
<1>. QED
  BY <1>1, <1>2

(* No selection and no step of a run breaks the invariant.                 *)
LEMMA FitStep == FitInv /\ [SettingsNext]_settingsVars => FitInv'
<1> SUFFICES ASSUME FitInv, [SettingsNext]_settingsVars PROVE FitInv'
  OBVIOUS
<1>1. prefs \in Preferences
  BY DEF FitInv
<1>2. \A cat : Loaded(cat) \in Preferences
  BY <1>1, SanitizeFits DEF Loaded
<1>3. ASSUME prefs' \in Preferences, UNCHANGED <<worker, catalog, settings, launch>>
      PROVE  FitInv'
  BY <1>3 DEF FitInv, LaunchFitsProvider
<1>4. CASE ModelCommand
  <2>1. PICK cat \in Asked, m \in KnownModels : ApplyModel(cat, m)
    BY <1>4 DEF ModelCommand
  <2> DEFINE e == IF Supports(cat, m, Loaded(cat).effort) THEN Loaded(cat).effort ELSE ""
  <2>2. e \in Efforts \cup {""}
    BY <1>2 DEF Preferences
  <2>3. prefs' = [Loaded(cat) EXCEPT !.model = m, !.effort = e]
    BY <2>1 DEF ApplyModel
  <2> HIDE DEF e
  <2>4. prefs' \in Preferences
    BY <1>2, <2>2, <2>3 DEF Preferences
  <2>. QED
    BY <1>3, <1>4, <2>4 DEF ModelCommand
<1>5. CASE ThinkCommand
  <2>1. prefs' \in Preferences
    BY <1>2, <1>5 DEF ThinkCommand, ApplyThink, Preferences
  <2>. QED
    BY <1>3, <1>5, <2>1 DEF ThinkCommand
<1>6. CASE SpeedCommand
  <2>1. prefs' \in Preferences
    BY <1>2, <1>6 DEF SpeedCommand, ApplySpeed, Preferences, KnownTiers
  <2>. QED
    BY <1>3, <1>6, <2>1 DEF SpeedCommand
<1>7. CASE ProviderCommand
  <2>1. PICK p \in Providers : \E cat :
          prefs' = Sanitize(cat, [prefs EXCEPT !.provider = p])
    BY <1>7 DEF ProviderCommand
  <2>2. [prefs EXCEPT !.provider = p] \in Preferences
    BY <1>1 DEF Preferences
  <2>3. prefs' \in Preferences
    BY <2>1, <2>2, SanitizeFits
  <2>. QED
    BY <1>3, <1>7, <2>3 DEF ProviderCommand
<1>8. CASE Resolve
  <2>1. PICK cat \in Asked : catalog' = cat /\ settings' = Effective(cat)
    BY <1>8 DEF Resolve
  <2>2. cat \in Catalogs("codex") \cup Catalogs("gemini")
    BY <2>1 DEF Asked, Catalogs
  <2>3. Fits(settings', catalog')
    BY <1>1, <2>1, EffectiveFits
  <2>4. worker' = "resolved" /\ prefs' = prefs
    BY <1>8 DEF Resolve
  <2>5. catalog' \in Catalogs("codex") \cup Catalogs("gemini")
    BY <2>1, <2>2
  <2>6. LaunchFitsProvider'
    BY <2>4 DEF LaunchFitsProvider
  <2>. QED
    BY <1>1, <2>3, <2>4, <2>5, <2>6 DEF FitInv, Preferences
<1>9. CASE StartRun
  <2>1. /\ catalog \in Catalogs("codex") \cup Catalogs("gemini")
        /\ Fits(settings, catalog)
        /\ launch' = Arguments(settings.provider, settings)
        /\ worker' = "launched"
        /\ UNCHANGED <<prefs, catalog, settings>>
    BY <1>9 DEF StartRun, FitInv
  <2>2. LaunchFitsProvider'
    BY <2>1, ArgumentsFit DEF LaunchFitsProvider, LevelOf
  <2>. QED
    BY <1>1, <2>1, <2>2 DEF FitInv
<1>10. CASE CrossOver
  BY <1>1, <1>10 DEF CrossOver, FitInv, LaunchFitsProvider
<1>11. CASE RunOver
  BY <1>1, <1>11 DEF RunOver, FitInv, LaunchFitsProvider
<1>12. CASE UNCHANGED settingsVars
  BY <1>1, <1>3, <1>12 DEF settingsVars
<1>. QED
  BY <1>4, <1>5, <1>6, <1>7, <1>8, <1>9, <1>10, <1>11, <1>12 DEF SettingsNext

LEMMA FitInit == SettingsInit => FitInv
<1> SUFFICES ASSUME SettingsInit PROVE FitInv
  OBVIOUS
<1>1. NoPrefs \in Preferences
  BY DEF NoPrefs, Preferences, KnownTiers
<1>2. prefs = NoPrefs /\ worker = "idle"
  BY DEF SettingsInit
<1>. QED
  BY <1>1, <1>2 DEF FitInv, LaunchFitsProvider

(* A backend never gets a model or a level its catalog does not allow.     *)
THEOREM LaunchAlwaysFits == SettingsSpec => []LaunchFitsProvider
<1>1. FitInv => LaunchFitsProvider
  BY DEF FitInv
<1>. QED
  BY <1>1, FitInit, FitStep, PTL DEF SettingsSpec

(* ---- Types                                                              *)
LEMMA CatalogTyped ==
  ASSUME NEW cat \in Catalogs("codex") \cup Catalogs("gemini")
  PROVE  /\ cat.provider \in Providers
         /\ cat.models \subseteq KnownModels \cup {GeminiDefault}
         /\ cat.model \in NamedModels
         /\ cat.effort \in NamedLevels
         /\ cat.tier \in KnownTiers
<1>1. CASE cat \in Catalogs("codex")
  <2>1. PICK list \in CodexLists, m \in ConfigModels : cat = CodexCatalog(list, m)
    BY <1>1 DEF Catalogs
  <2> DEFINE model == OrElse(m, list.first)
             level == LevelOf([models |-> list.models, effort |-> "medium"], model)
  <2>2. cat = [provider |-> "codex", models |-> list.models, model |-> model,
               effort |-> OrElse(ConfigEffort, level), tier |-> ConfigTier]
    BY <2>1 DEF CodexCatalog
  <2>3. list.models \subseteq KnownModels
    BY DEF KnownModels
  <2>4. model \in NamedModels
    BY <2>3, SettingsAssumption DEF OrElse, NamedModels
  <2>5. level \in NamedLevels
    BY <2>3 DEF LevelOf, NamedLevels
  <2>6. OrElse(ConfigEffort, level) \in NamedLevels
    BY <2>5 DEF OrElse, NamedLevels
  <2> HIDE DEF model, level
  <2>. QED
    BY <2>2, <2>3, <2>4, <2>6 DEF Providers, KnownTiers
<1>2. CASE cat \in Catalogs("gemini")
  <2>1. cat = GeminiCatalog
    BY <1>2 DEF Catalogs
  <2>. QED
    BY <2>1 DEF GeminiCatalog, KnownModels, NamedModels, NamedLevels, KnownTiers, Providers
<1>. QED
  BY <1>1, <1>2

LEMMA EffectiveTyped ==
  ASSUME NEW cat \in Catalogs("codex") \cup Catalogs("gemini"), prefs \in Preferences
  PROVE  Effective(cat) \in Settings
<1> DEFINE p == Loaded(cat)
           model == OrElse(p.model, cat.model)
           effort == IF Supports(cat, model, p.effort) THEN p.effort
                     ELSE LevelOf(cat, model)
           tier == OrElse(p.tier, cat.tier)
<1>1. p \in Preferences
  BY SanitizeFits DEF Loaded
<1>2. model \in NamedModels
  BY <1>1, CatalogTyped DEF Preferences, OrElse, NamedModels
<1>3. effort \in NamedLevels
  <2>1. p.effort \in NamedLevels
    BY <1>1 DEF Preferences, NamedLevels
  <2>2. LevelOf(cat, model) \in NamedLevels
    BY CatalogTyped DEF LevelOf, NamedLevels
  <2> HIDE DEF p, model
  <2>. QED
    BY <2>1, <2>2
<1>4. tier \in KnownTiers
  BY <1>1, CatalogTyped DEF Preferences, OrElse
<1>5. Effective(cat) = [provider |-> cat.provider, model |-> model, effort |-> effort,
                        tier |-> tier]
  BY DEF Effective
<1> HIDE DEF p, model, effort, tier
<1>. QED
  BY <1>2, <1>3, <1>4, <1>5, CatalogTyped DEF Settings

LEMMA ArgumentsTyped ==
  ASSUME NEW s \in Settings, NEW provider \in Providers
  PROVE  Arguments(provider, s) \in Settings
  BY DEF Arguments, Settings, OrElse, NamedModels, NamedLevels, KnownTiers, Providers

(* The types are not inductive: that what is launched has them is known of *)
(* what was resolved before, and of the preferences it came from.          *)
SetInv ==
  /\ FitInv
  /\ SettingsTypeOK
  /\ worker \in {"resolved", "launched"} => settings \in Settings

LEMMA SetInit == SettingsInit => SetInv
<1> SUFFICES ASSUME SettingsInit PROVE SetInv
  OBVIOUS
<1>1. NoPrefs \in Preferences
  BY DEF NoPrefs, Preferences, KnownTiers
<1>. QED
  BY <1>1, FitInit DEF SettingsInit, SetInv, SettingsTypeOK, Preferences

LEMMA SetStep == SetInv /\ [SettingsNext]_settingsVars => SetInv'
<1> SUFFICES ASSUME SetInv, [SettingsNext]_settingsVars PROVE SetInv'
  OBVIOUS
<1>1. FitInv /\ FitInv' /\ SettingsTypeOK
  BY FitStep DEF SetInv
<1>2. prefs \in Preferences /\ prefs' \in Preferences
  BY <1>1 DEF FitInv
<1>3. CASE ModelCommand \/ ThinkCommand \/ SpeedCommand \/ ProviderCommand
           \/ UNCHANGED settingsVars
  <2>1. UNCHANGED <<worker, catalog, settings, launch>>
    BY <1>3 DEF ModelCommand, ThinkCommand, SpeedCommand, ProviderCommand, settingsVars
  <2>. QED
    BY <1>1, <1>2, <2>1 DEF SetInv, SettingsTypeOK, Preferences
<1>4. CASE Resolve
  <2>1. PICK cat \in Asked : catalog' = cat /\ settings' = Effective(cat)
    BY <1>4 DEF Resolve
  <2>2. cat \in Catalogs("codex") \cup Catalogs("gemini")
    BY DEF Asked, Catalogs
  <2>3. settings' \in Settings
    BY <1>2, <2>1, <2>2, EffectiveTyped
  <2>4. worker' = "resolved" /\ UNCHANGED launch
    BY <1>4 DEF Resolve
  <2>. QED
    BY <1>1, <1>2, <2>1, <2>2, <2>3, <2>4 DEF SetInv, SettingsTypeOK, Preferences
<1>5. CASE StartRun
  <2>1. settings \in Settings /\ settings.provider \in Providers
    BY <1>5 DEF StartRun, SetInv, Settings
  <2>2. launch' = Arguments(settings.provider, settings) /\ worker' = "launched"
        /\ UNCHANGED <<catalog, settings>>
    BY <1>5 DEF StartRun
  <2>3. launch' \in Settings
    BY <2>1, <2>2, ArgumentsTyped
  <2>. QED
    BY <1>1, <1>2, <2>1, <2>2, <2>3 DEF SetInv, SettingsTypeOK, Preferences
<1>6. CASE CrossOver
  <2>1. settings \in Settings /\ "gemini" \in Providers
    BY <1>6 DEF CrossOver, SetInv, Providers
  <2>2. launch' = Arguments("gemini", settings) /\ worker' = "crossed"
        /\ UNCHANGED <<catalog, settings>>
    BY <1>6 DEF CrossOver
  <2>3. launch' \in Settings
    BY <2>1, <2>2, ArgumentsTyped
  <2>. QED
    BY <1>1, <1>2, <2>1, <2>2, <2>3 DEF SetInv, SettingsTypeOK, Preferences
<1>7. CASE RunOver
  BY <1>1, <1>2, <1>7 DEF RunOver, SetInv, SettingsTypeOK, Preferences
<1>. QED
  BY <1>3, <1>4, <1>5, <1>6, <1>7 DEF SettingsNext

(* Preferences and settings never hold a model, a level or a tier that     *)
(* comes from nowhere: no list, configuration or command named it.         *)
THEOREM SettingsTypeCorrect == SettingsSpec => []SettingsTypeOK
<1>1. SetInv => SettingsTypeOK
  BY DEF SetInv
<1>. QED
  BY <1>1, SetInit, SetStep, PTL DEF SettingsSpec

-----------------------------------------------------------------------------
(* ---- The permission mode                                                *)
USE PermissionAssumption

(* ModesAgree is not inductive: what is reported is what every client has  *)
(* been given by then, and while a command is in hand the clients it has   *)
(* not reached still have the mode they had.                               *)
ModeInv ==
  /\ ModesAgree
  /\ permPc # "idle" => up
  /\ permPc = "write" => /\ \A c \in Clients : clientMode[c] \in Expected
                         /\ \A c, d \in Clients : clientMode[c] = clientMode[d]
  /\ permPc = "set" => /\ envFile = wanted
                       /\ \A c \in Clients \ unset : clientMode[c] = wanted

LEMMA ModeInit == PermInit => PermTypeOK /\ ModeInv
<1> SUFFICES ASSUME PermInit PROVE PermTypeOK /\ ModeInv
  OBVIOUS
<1>1. StartMode \in Modes
  BY DEF StartMode, Normalized, Modes
<1>2. PermTypeOK
  <2>1. token \in BOOLEAN /\ held \in BOOLEAN /\ up \in BOOLEAN
    BY DEF PermInit
  <2>. QED
    BY <1>1, <2>1 DEF PermInit, PermTypeOK, Modes
<1>3. ModeInv
  BY DEF PermInit, ModeInv, ModesAgree, Expected
<1>. QED
  BY <1>2, <1>3

(* Every step keeps the types.                                             *)
LEMMA PermTypes == PermTypeOK /\ [PermNext]_permVars => PermTypeOK'
<1> SUFFICES ASSUME PermTypeOK, [PermNext]_permVars PROVE PermTypeOK'
  OBVIOUS
<1> USE DEF PermTypeOK
<1>1. StartMode \in Modes
  BY DEF StartMode, Normalized, Modes
<1>2. CASE Truncate
  <2>1. token' \in BOOLEAN /\ held' \in BOOLEAN /\ up' \in BOOLEAN
    BY <1>2 DEF Truncate
  <2>2. commands' \in 0..MaxCommands
    BY <1>2 DEF Truncate
  <2>. QED
    BY <1>2, <2>1, <2>2 DEF Truncate
<1>3. CASE WriteEnv
  <2>1. token' \in BOOLEAN /\ held' \in BOOLEAN /\ up' \in BOOLEAN
    BY <1>3 DEF WriteEnv
  <2>. QED
    BY <1>3, <2>1 DEF WriteEnv
<1>4. ASSUME CutOff
      PROVE  /\ envFile' \in Modes \cup {"none"}
             /\ token' \in BOOLEAN
             /\ unreported' \in SUBSET Modes
  BY <1>4 DEF CutOff
<1>5. CASE WriteEnvFails
  <2>1. held' \in BOOLEAN /\ up' \in BOOLEAN
    BY <1>5 DEF WriteEnvFails
  <2>. QED
    BY <1>4, <1>5, <2>1 DEF WriteEnvFails
<1>6. ASSUME NEW c \in Clients, SetClient(c) PROVE PermTypeOK'
  <2>1. token' \in BOOLEAN /\ held' \in BOOLEAN /\ up' \in BOOLEAN
    BY <1>6 DEF SetClient
  <2>. QED
    BY <1>6, <2>1 DEF SetClient
<1>7. CASE Acknowledge \/ ReportFails
  <2>1. token' \in BOOLEAN /\ held' \in BOOLEAN /\ up' \in BOOLEAN
    BY <1>7 DEF Acknowledge, ReportFails
  <2>. QED
    BY <1>7, <2>1 DEF Acknowledge, ReportFails
<1>8. CASE PermCrash
  <2>1. held' \in BOOLEAN /\ up' \in BOOLEAN
    BY <1>8 DEF PermCrash
  <2>2. /\ envFile' \in Modes \cup {"none"}
        /\ unreported' \in SUBSET Modes
    BY <1>4, <1>8 DEF PermCrash
  <2>3. token' \in BOOLEAN
    BY <1>4, <1>8 DEF PermCrash
  <2>. QED
    BY <1>8, <2>1, <2>2, <2>3 DEF PermCrash
<1>9. CASE PermRestart
  <2>1. token' \in BOOLEAN /\ held' \in BOOLEAN /\ up' \in BOOLEAN
    BY <1>9 DEF PermRestart
  <2>. QED
    BY <1>1, <1>9, <2>1 DEF PermRestart
<1>10. CASE UNCHANGED permVars
  BY <1>10 DEF permVars
<1>. QED
  BY <1>2, <1>3, <1>5, <1>6, <1>7, <1>8, <1>9, <1>10 DEF PermNext

(* The prefix that is left starts the next life with what was asked for,   *)
(* with the default or with the inherited mode.                            *)
LEMMA CutOffIsExpected ==
  ASSUME PermTypeOK, CutOff, UNCHANGED <<environment, acked>>
  PROVE  /\ StartMode' \in Expected'
         /\ Expected \subseteq Expected'
  BY DEF PermTypeOK, CutOff, StartMode, Normalized, Expected, Modes

(* Every step keeps the invariant, the crash between any two included.     *)
LEMMA ModeStep == PermTypeOK /\ ModeInv /\ [PermNext]_permVars => ModeInv'
<1> SUFFICES ASSUME PermTypeOK, ModeInv, [PermNext]_permVars PROVE ModeInv'
  OBVIOUS
<1> USE DEF ModeInv, ModesAgree
<1>1. CASE Truncate
  BY <1>1 DEF Truncate, Expected
<1>2. CASE WriteEnv
  BY <1>2 DEF WriteEnv
<1>3. CASE WriteEnvFails
  <2>1. /\ CutOff /\ UNCHANGED <<environment, acked, clientMode, up>>
        /\ permPc = "write" /\ permPc' = "idle"
    BY <1>3 DEF WriteEnvFails
  <2>. QED
    BY <2>1, CutOffIsExpected
<1>4. ASSUME NEW c \in Clients, SetClient(c) PROVE ModeInv'
  <2>1. \A d \in Clients \ unset' : clientMode'[d] = wanted
    BY <1>4 DEF SetClient, PermTypeOK
  <2>. QED
    BY <1>4, <2>1 DEF SetClient
<1>5. CASE Acknowledge
  <2>1. /\ envFile' = wanted /\ acked' = wanted /\ environment' = environment
        /\ \A c \in Clients : clientMode'[c] = wanted
        /\ permPc' = "idle"
    BY <1>5 DEF Acknowledge
  <2>2. StartMode' \in {wanted, environment.mode}
    BY <2>1 DEF StartMode, Normalized, PermTypeOK, Modes
  <2>3. {wanted, environment.mode} \subseteq Expected'
    BY <2>1 DEF Expected
  <2>. QED
    BY <2>1, <2>2, <2>3
<1>6. ASSUME permPc = "set", unreported' = unreported \cup {wanted},
             UNCHANGED <<environment, envFile>>
      PROVE  StartMode' \in Expected' /\ wanted \in Expected'
  <2>1. StartMode' \in {wanted, environment.mode}
    BY <1>6 DEF StartMode, Normalized, PermTypeOK, Modes
  <2>. QED
    BY <1>6, <2>1 DEF Expected
<1>7. CASE ReportFails
  <2>1. /\ \A c \in Clients : clientMode'[c] = wanted
        /\ permPc' = "idle"
    BY <1>7 DEF ReportFails
  <2>2. StartMode' \in Expected' /\ wanted \in Expected'
    BY <1>6, <1>7 DEF ReportFails
  <2>. QED
    BY <2>1, <2>2
<1>8. CASE PermCrash
  <2>1. ~up' /\ permPc' = "idle" /\ UNCHANGED <<environment, acked>>
    BY <1>8 DEF PermCrash
  <2>2. StartMode' \in Expected'
    <3>1. CASE permPc = "idle"
      BY <1>8, <2>1, <3>1 DEF PermCrash, StartMode, Expected
    <3>2. CASE permPc = "write"
      BY <1>8, <2>1, <3>2, CutOffIsExpected DEF PermCrash
    <3>3. CASE permPc = "set"
      BY <1>6, <1>8, <2>1, <3>3 DEF PermCrash
    <3>. QED
      BY <3>1, <3>2, <3>3 DEF PermTypeOK
  <2>. QED
    BY <2>1, <2>2
<1>9. CASE PermRestart
  <2>1. /\ permPc = "idle" /\ permPc' = "idle"
        /\ StartMode' = StartMode /\ Expected' = Expected
    BY <1>9 DEF PermRestart, ModeInv, StartMode, Expected
  <2>2. \A c \in Clients : clientMode'[c] = StartMode
    BY <1>9 DEF PermRestart
  <2>. QED
    BY <2>1, <2>2
<1>10. CASE UNCHANGED permVars
  BY <1>10 DEF permVars, StartMode, Expected
<1>. QED
  BY <1>1, <1>2, <1>3, <1>4, <1>5, <1>7, <1>8, <1>9, <1>10 DEF PermNext

LEMMA ModesAlways == PermSpec => [](PermTypeOK /\ ModeInv)
  BY ModeInit, PermTypes, ModeStep, PTL DEF PermSpec

(* Types.                                                                  *)
THEOREM PermTypeCorrect == PermSpec => []PermTypeOK
  BY ModesAlways, PTL

(* Between two commands the clients agree with each other and, like the    *)
(* next life of the process, with what the user was told, as far as the    *)
(* last commands came to their report.                                     *)
THEOREM ModesAlwaysAgree == PermSpec => []ModesAgree
<1>1. ModeInv => ModesAgree
  BY DEF ModeInv
<1>. QED
  BY <1>1, ModesAlways, PTL
=============================================================================
