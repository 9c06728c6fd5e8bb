--------------------------- MODULE BridgePartsProofs ---------------------------
(***************************************************************************)
(* What is proved of each part of the bridge holds of all of them side by  *)
(* side (MCBridgeParts), the state its run explores included.              *)
(***************************************************************************)
EXTENDS MCBridgeParts, TopicFilesProofs, SettingsProofs, StreamProofs

(* A step is of one part, and leaves the others as they are.               *)
LEMMA OnePartMoves ==
  [PartsNext]_partsVars =>
    /\ [FilesNext]_filesVars /\ [SettingsNext]_settingsVars /\ [PermNext]_permVars
    /\ [CliNext]_cliVars /\ [LogNext]_logVars /\ [SplitNext]_splitVars
<1> SUFFICES ASSUME [PartsNext]_partsVars
             PROVE  /\ FilesNext \/ UNCHANGED filesVars
                    /\ SettingsNext \/ UNCHANGED settingsVars
                    /\ PermNext \/ UNCHANGED permVars
                    /\ CliNext \/ UNCHANGED cliVars
                    /\ LogNext \/ UNCHANGED logVars
                    /\ SplitNext \/ UNCHANGED splitVars
  OBVIOUS
<1>1. CASE PartsNext
  BY <1>1 DEF PartsNext
<1>2. CASE UNCHANGED partsVars
  BY <1>2 DEF partsVars
<1>. QED
  BY <1>1, <1>2

LEMMA PartsBehave ==
  PartsSpec => FilesSpec /\ SettingsSpec /\ PermSpec /\ CliSpec /\ LogSpec /\ SplitSpec
<1>1. PartsInit => FilesInit /\ SettingsInit /\ PermInit /\ CliInit /\ LogInit /\ SplitInit
  BY DEF PartsInit
<1>. QED
  BY <1>1, OnePartMoves, PTL
     DEF PartsSpec, FilesSpec, SettingsSpec, PermSpec, CliSpec, LogSpec, SplitSpec

(* Types of all parts.                                                     *)
THEOREM PartsTypesHold == PartsSpec => []PartsTypeOK
<1>1. /\ CliInv => CliTypeOK
      /\ LogInv => LogTypeOK
      /\ SplitInv => SplitTypeOK
  BY DEF CliInv, LogInv, SplitInv
<1>2. FilesTypeOK /\ SettingsTypeOK /\ PermTypeOK /\ CliTypeOK /\ LogTypeOK /\ SplitTypeOK
        => PartsTypeOK
  BY DEF PartsTypeOK
<1>. QED
  BY <1>1, <1>2, PartsBehave, FilesTypeCorrect, SettingsTypeCorrect, PermTypeCorrect,
     CliAlways, LogAlways, SplitAlways, PTL

(* Each part keeps what it promises while the others are there.            *)
THEOREM PartsKeepTheirPromises ==
  PartsSpec =>
    [](/\ AwakeWhileWorking /\ GeneratedIsReturned /\ OwnAttachmentsStay
       /\ DirectoryPerTopic /\ LaunchFitsProvider /\ ModesAgree
       /\ CliOutcome /\ LogKeepsOrder /\ SplitKeepsText)
  BY PartsBehave, AlwaysAwakeWhileWorking, GeneratedAlwaysReturned, OwnAttachmentsAlwaysStay,
     DirectoriesStayApart, LaunchAlwaysFits, ModesAlwaysAgree, CliAlwaysTells,
     LogAlwaysKeepsOrder, SplitAlwaysKeepsText, PTL
=============================================================================
