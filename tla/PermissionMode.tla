----------------------------- MODULE PermissionMode -----------------------------
(***************************************************************************)
(* The permission mode of the agents: one value, kept in the environment   *)
(* file and in every client (internal/app/permission.go,                   *)
(* internal/config/config.go: UpsertEnvValue, LoadFromEnv,                 *)
(* loadDotEnvIfPresent; SetPermissionMode of provider_router.go,           *)
(* adapter.go, client.go, gemini_client.go and app_server.go).             *)
(*                                                                         *)
(* The poll goroutine changes it in steps between which workers start      *)
(* runs; the process may die between any two and starts from the file,     *)
(* which a write that is cut off leaves as a prefix of what it should be:  *)
(* the bot token, without which no process starts, and the line of the     *)
(* mode may each be in it or not, the latter being the last line when it   *)
(* is new.  A variable the process finds in its environment is never       *)
(* replaced by the file's line.                                            *)
(***************************************************************************)
EXTENDS Naturals, FiniteSets

CONSTANTS
  Clients,        \* the clients the router reaches; "server" falls back
                  \*   to "cli"
  MaxCommands     \* bound: /permission commands

ASSUME PermissionAssumption == MaxCommands \in Nat

Modes == {"default", "full-access"}

VARIABLES
  environment,    \* what the process inherits: a token, and a mode or "none"
  envFile,        \* CODEX_PERMISSION_MODE in .env; "none": no such line, or
                  \*   one whose value is cut off
  token,          \* .env has the token
  held,           \* the lines UpsertEnvValue has read have it
  up,             \* the process runs
  clientMode,     \* the mode each client has
  permPc,         \* "idle", "write" or "set"
  wanted,         \* the mode asked for
  unset,          \* clients SetPermissionMode has not reached yet
  \* ---- history
  acked,          \* the mode last reported to the user as set, at first the
                  \*   one the process started with
  unreported,     \* modes asked for since then whose command was cut short
  commands

permVars == <<environment, envFile, token, held, up, clientMode, permPc, wanted,
              unset, acked, unreported, commands>>

(* normalizePermissionMode: what is not full access is the default.        *)
Normalized(mode) == IF mode = "full-access" THEN mode ELSE "default"

(* LoadFromEnv: the environment goes before the file.                      *)
StartMode ==
  Normalized(IF environment.mode # "none" THEN environment.mode ELSE envFile)

PermInit ==
  /\ environment \in [token : BOOLEAN, mode : Modes \cup {"none"}]
  /\ envFile \in Modes \cup {"none"}
  /\ token \in BOOLEAN
  /\ token \/ environment.token
  /\ held = FALSE
  /\ up = TRUE
  /\ clientMode = [c \in Clients |-> StartMode]
  /\ permPc = "idle"
  /\ wanted = "default"
  /\ unset = {}
  /\ acked = StartMode
  /\ unreported = {}
  /\ commands = 0

-----------------------------------------------------------------------------
(* UpsertEnvValue has read the file; os.WriteFile truncates it first.      *)
Truncate ==
  /\ up
  /\ permPc = "idle"
  /\ commands < MaxCommands
  /\ commands' = commands + 1
  /\ wanted' \in Modes
  /\ held' = token
  /\ token' = FALSE
  /\ envFile' = "none"
  /\ permPc' = "write"
  /\ UNCHANGED <<environment, up, clientMode, unset, acked, unreported>>

WriteEnv ==
  /\ permPc = "write"
  /\ envFile' = wanted
  /\ token' = held
  /\ unset' = Clients
  /\ permPc' = "set"
  /\ UNCHANGED <<environment, held, up, clientMode, wanted, acked, unreported, commands>>

(* A prefix of the new text is in the file: the two lines that matter may  *)
(* stand in either order.                                                  *)
CutOff ==
  /\ envFile' \in {"none", wanted}
  /\ token' \in {FALSE, held}
  /\ unreported' = unreported \cup {wanted}

(* The disk is full: the user is told of the error, the clients keep their *)
(* mode, and the next command works with the lines that are left.          *)
WriteEnvFails ==
  /\ permPc = "write"
  /\ CutOff
  /\ permPc' = "idle"
  /\ UNCHANGED <<environment, held, up, clientMode, wanted, unset, acked, commands>>

(* Slip: FallbackClient does not tell the client it falls back to.         *)
SetPrimaryOnly(c) ==
  /\ permPc = "set"
  /\ c \in unset
  /\ "server" \in unset => c # "cli"
  /\ clientMode' = IF c = "cli" /\ "server" \in Clients THEN clientMode
                   ELSE [clientMode EXCEPT ![c] = wanted]
  /\ unset' = unset \ {c}
  /\ UNCHANGED <<environment, envFile, token, held, up, permPc, wanted, acked, unreported, commands>>

(* SetPermissionMode: the router's clients in any order, FallbackClient's  *)
(* primary before its fallback.                                            *)
SetClient(c) ==
  /\ permPc = "set"
  /\ c \in unset
  /\ "server" \in unset => c # "cli"
  /\ clientMode' = [clientMode EXCEPT ![c] = wanted]
  /\ unset' = unset \ {c}
  /\ UNCHANGED <<environment, envFile, token, held, up, permPc, wanted, acked, unreported, commands>>

(* SendMessage has reported the mode.                                      *)
Acknowledge ==
  /\ permPc = "set"
  /\ unset = {}
  /\ acked' = wanted
  /\ unreported' = {}
  /\ permPc' = "idle"
  /\ UNCHANGED <<environment, envFile, token, held, up, clientMode, wanted, unset, commands>>

(* SendMessage fails: the mode is set, and nobody was told so.             *)
ReportFails ==
  /\ permPc = "set"
  /\ unset = {}
  /\ unreported' = unreported \cup {wanted}
  /\ permPc' = "idle"
  /\ UNCHANGED <<environment, envFile, token, held, up, clientMode, wanted, unset, acked,
                 commands>>

(* The process dies, between the write and the report too: what the user   *)
(* was told stays as it is.                                                *)
PermCrash ==
  /\ up
  /\ up' = FALSE
  /\ \/ /\ permPc = "idle"
        /\ UNCHANGED <<envFile, token, unreported>>
     \/ /\ permPc = "write"
        /\ CutOff
     \/ /\ permPc = "set"
        /\ unreported' = unreported \cup {wanted}
        /\ UNCHANGED <<envFile, token>>
  /\ permPc' = "idle"
  /\ unset' = {}
  /\ UNCHANGED <<environment, held, clientMode, wanted, acked, commands>>

(* LoadFromEnv, which insists on a token; then NewProviderRouter gives     *)
(* every client the same mode.                                             *)
PermRestart ==
  /\ ~up
  /\ token \/ environment.token
  /\ up' = TRUE
  /\ clientMode' = [c \in Clients |-> StartMode]
  /\ UNCHANGED <<environment, envFile, token, held, permPc, wanted, unset, acked,
                 unreported, commands>>

PermNext ==
  \/ Truncate \/ WriteEnv \/ WriteEnvFails
  \/ \E c \in Clients : SetClient(c)
  \/ Acknowledge \/ ReportFails \/ PermCrash \/ PermRestart

PermSpec == PermInit /\ [][PermNext]_permVars

-----------------------------------------------------------------------------
PermTypeOK ==
  /\ environment \in [token : BOOLEAN, mode : Modes \cup {"none"}]
  /\ envFile \in Modes \cup {"none"}
  /\ token \in BOOLEAN
  /\ held \in BOOLEAN
  /\ up \in BOOLEAN
  /\ clientMode \in [Clients -> Modes]
  /\ permPc \in {"idle", "write", "set"}
  /\ wanted \in Modes
  /\ unset \in SUBSET Clients
  /\ acked \in Modes
  /\ unreported \in SUBSET Modes
  /\ commands \in 0..MaxCommands

(* The modes a run may have by what the user knows: the one last reported, *)
(* the one the process inherits, and, once a command was cut short, the    *)
(* one it asked for or the default that a file without the line stands for.*)
Expected ==
  {acked, environment.mode} \cup unreported \cup
  (IF unreported = {} THEN {} ELSE {"default"})

(* Between two commands all clients agree, whichever of them the router or *)
(* the fallback takes for a run, and their mode is one the user expects;   *)
(* so is the mode of the next life of the process.  As long as every       *)
(* command came to its report, that is the mode reported last, in the file *)
(* and in each client, unless the process inherits another: full access is *)
(* never kept or gained behind a report of the default.  A write cut off,  *)
(* a crash before the report or a report that could not be sent widen what *)
(* is expected until the next report, and the code does nothing about      *)
(* these.  (permission.go:38-52, config.go:281-316.)                       *)
ModesAgree ==
  permPc = "idle" =>
    /\ StartMode \in Expected
    /\ up => /\ \A c, d \in Clients : clientMode[c] = clientMode[d]
             /\ \A c \in Clients : clientMode[c] \in Expected
=============================================================================
