----------------------------- MODULE MCBridgeParts -----------------------------
(***************************************************************************)
(* Six parts of the bridge that share no state, explored side by side in   *)
(* one model-checking run: a behaviour is one of the part it starts as.    *)
(***************************************************************************)
EXTENDS TopicFiles, RunSettings, PermissionMode, CommandLineRun, LogRotation,
        TextSplit

VARIABLE part

partsVars ==
  <<part, filesVars, settingsVars, permVars, cliVars, logVars, splitVars>>

(* What Codex may offer: both models, one of them, or nothing when there   *)
(* is neither an app-server nor a cache file.                              *)
MCCodexLists ==
  {[models |-> {"g5", "mini"}, first |-> "g5"],
   [models |-> {"mini"}, first |-> "mini"],
   [models |-> {}, first |-> ""]}

MCLevels ==
  [m \in {"g5", "mini", "flash"} |->
     CASE m = "g5" -> {"low", "high"} [] m = "mini" -> {"low"} [] OTHER -> {}]

MCDefaultLevel ==
  [m \in {"g5", "mini", "flash"} |-> IF m = "g5" THEN "high" ELSE ""]

(* Topics of one title are alike: the first message reaches this one.      *)
First == CHOOSE t \in Topics : TRUE

PartsInit ==
  /\ part \in {"files", "settings", "permission", "cli", "log", "split"}
  /\ FilesInit /\ SettingsInit /\ PermInit /\ CliInit /\ LogInit /\ SplitInit
  /\ part # "permission" =>       \* one start of the part that stands still
       /\ environment = [token |-> FALSE, mode |-> "none"]
       /\ envFile = "default"

PartsNext ==
  /\ UNCHANGED part
  /\ \/ /\ part = "files" /\ FilesNext
        /\ topicOf' # <<>> => topicOf'[1] = First
        /\ UNCHANGED <<settingsVars, permVars, cliVars, logVars, splitVars>>
     \/ /\ part = "settings" /\ SettingsNext
        /\ UNCHANGED <<filesVars, permVars, cliVars, logVars, splitVars>>
     \/ /\ part = "permission" /\ PermNext
        /\ UNCHANGED <<filesVars, settingsVars, cliVars, logVars, splitVars>>
     \/ /\ part = "cli" /\ CliNext
        /\ UNCHANGED <<filesVars, settingsVars, permVars, logVars, splitVars>>
     \/ /\ part = "log" /\ LogNext
        /\ UNCHANGED <<filesVars, settingsVars, permVars, cliVars, splitVars>>
     \/ /\ part = "split" /\ SplitNext
        /\ UNCHANGED <<filesVars, settingsVars, permVars, cliVars, logVars>>

PartsSpec == PartsInit /\ [][PartsNext]_partsVars /\ CliFairness

-----------------------------------------------------------------------------
(* The types of all parts: among them that no directory outside those      *)
(* tried is used, that no pipe holds more than it can, and that a log file *)
(* never holds more than fills it, whatever fails during its rotation.     *)
PartsTypeOK ==
  /\ FilesTypeOK /\ SettingsTypeOK /\ PermTypeOK
  /\ CliTypeOK /\ LogTypeOK /\ SplitTypeOK
=============================================================================
