------------------------------ MODULE LogRotation ------------------------------
(***************************************************************************)
(* The rotating log writer (internal/logging/logger.go).                   *)
(*                                                                         *)
(* Lines are numbered in the order in which Write accepted them, and a     *)
(* file is the sequence of its lines.  A rotation is several file system   *)
(* calls: each may fail, and the process may die between any two.          *)
(***************************************************************************)
EXTENDS Naturals, Sequences, Functions

CONSTANTS
  MaxBackups,    \* rotated files kept (the code: 5)
  FileLines,     \* lines that fill a file (the code: 20 MB)
  MaxLines,      \* bound: lines ever accepted
  MaxLogFaults   \* bound: failed calls and restarts

ASSUME LogAssumption ==
  /\ MaxBackups \in Nat \ {0}
  /\ FileLines \in Nat \ {0}
  /\ MaxLines \in Nat
  /\ MaxLogFaults \in Nat

VARIABLES
  \* ---- the directory
  current,       \* the file at path, NoFile when there is none
  backups,       \* backups[i]: the file at path.i
  \* ---- rotatingWriter
  logPc,         \* "ready", "shift" or "open"
  logOpen,       \* w.file is not nil
  size,          \* w.size, in lines
  shiftAt,       \* the backup the loop of rotateLocked is at
  \* ---- history
  written,       \* lines accepted
  shiftFailed,   \* a rename of the loop failed, which the code ignores
  logFaults

logVars == <<current, backups, logPc, logOpen, size, shiftAt, written,
             shiftFailed, logFaults>>

NoFile == <<0>>    \* no line is numbered 0

LogInit ==
  /\ current = <<>>
  /\ backups = [i \in 1..MaxBackups |-> NoFile]
  /\ logPc = "ready"
  /\ logOpen = TRUE
  /\ size = 0
  /\ shiftAt = 0
  /\ written = 0
  /\ shiftFailed = FALSE
  /\ logFaults = 0

LogFault == logFaults < MaxLogFaults /\ logFaults' = logFaults + 1

-----------------------------------------------------------------------------
(* Write: the line fits.  (With no file Write returns an error and changes *)
(* nothing: the line is not accepted.)                                     *)
AcceptLine(file) ==
  /\ current' = Append(file, written + 1)
  /\ written' = written + 1

LogWrite ==
  /\ logPc = "ready"
  /\ logOpen
  /\ written < MaxLines
  /\ size < FileLines
  /\ AcceptLine(current)
  /\ size' = size + 1
  /\ UNCHANGED <<backups, logPc, logOpen, shiftAt, shiftFailed, logFaults>>

(* Write calls rotateLocked: the file is closed, the oldest backup removed. *)
RotateStart ==
  /\ logPc = "ready"
  /\ logOpen
  /\ written < MaxLines
  /\ size >= FileLines
  /\ logOpen' = FALSE
  /\ backups' = [backups EXCEPT ![MaxBackups] = NoFile]
  /\ shiftAt' = MaxBackups - 1
  /\ logPc' = "shift"
  /\ UNCHANGED <<current, size, written, shiftFailed, logFaults>>

(* Slip: the loop runs from the newest backup to the oldest.               *)
ShiftUpwards ==
  LET i == MaxBackups - shiftAt
  IN  /\ logPc = "shift"
      /\ shiftAt >= 1
      /\ backups' = IF backups[i] = NoFile THEN backups
                    ELSE [backups EXCEPT ![i + 1] = backups[i], ![i] = NoFile]
      /\ shiftAt' = shiftAt - 1
      /\ UNCHANGED <<current, logPc, logOpen, size, written, shiftFailed,
                     logFaults>>

(* One round of the loop: path.i becomes path.i+1.                         *)
Shift ==
  /\ logPc = "shift"
  /\ shiftAt >= 1
  /\ backups' =
       IF backups[shiftAt] = NoFile THEN backups
       ELSE [backups EXCEPT ![shiftAt + 1] = backups[shiftAt],
                            ![shiftAt] = NoFile]
  /\ shiftAt' = shiftAt - 1
  /\ UNCHANGED <<current, logPc, logOpen, size, written, shiftFailed, logFaults>>

ShiftFails ==
  /\ logPc = "shift"
  /\ shiftAt >= 1
  /\ backups[shiftAt] # NoFile
  /\ LogFault
  /\ shiftFailed' = TRUE
  /\ shiftAt' = shiftAt - 1
  /\ UNCHANGED <<current, backups, logPc, logOpen, size, written>>

(* path becomes path.1.                                                    *)
MoveCurrent ==
  /\ logPc = "shift"
  /\ shiftAt = 0
  /\ IF current = NoFile THEN UNCHANGED <<current, backups>>
     ELSE current' = NoFile /\ backups' = [backups EXCEPT ![1] = current]
  /\ logPc' = "open"
  /\ UNCHANGED <<logOpen, size, shiftAt, written, shiftFailed, logFaults>>

(* The rename fails, or the fresh file cannot be opened: Write returns the *)
(* error, and every later one fails until the process is started again.    *)
RotateFails ==
  /\ \/ logPc = "shift" /\ shiftAt = 0 /\ current # NoFile
     \/ logPc = "open"
  /\ LogFault
  /\ logPc' = "ready"
  /\ UNCHANGED <<current, backups, logOpen, size, shiftAt, written, shiftFailed>>

(* Slip: the size counted so far is not set back with the fresh file.      *)
OpenKeepsSize ==
  /\ logPc = "open"
  /\ AcceptLine(<<>>)
  /\ logOpen' = TRUE
  /\ size' = size + 1
  /\ logPc' = "ready"
  /\ UNCHANGED <<backups, shiftAt, shiftFailed, logFaults>>

(* A fresh file is opened and the line that did not fit is written to it.  *)
OpenFresh ==
  /\ logPc = "open"
  /\ AcceptLine(<<>>)
  /\ logOpen' = TRUE
  /\ size' = 1
  /\ logPc' = "ready"
  /\ UNCHANGED <<backups, shiftAt, shiftFailed, logFaults>>

(* The process dies where it stands and is started again: newRotatingWriter*)
(* opens path for appending, creating it when it is missing.               *)
LogRestart ==
  /\ LogFault
  /\ current' = IF current = NoFile THEN <<>> ELSE current
  /\ size' = Len(current')
  /\ logOpen' = TRUE
  /\ shiftAt' = 0
  /\ logPc' = "ready"
  /\ UNCHANGED <<backups, written, shiftFailed>>

LogNext ==
  \/ LogWrite \/ RotateStart \/ Shift \/ ShiftFails
  \/ MoveCurrent \/ RotateFails \/ OpenFresh \/ LogRestart

LogSpec == LogInit /\ [][LogNext]_logVars

-----------------------------------------------------------------------------
LogFiles == Seq(1..MaxLines) \cup {NoFile}
LogTypeOK ==
  /\ current \in LogFiles
  /\ backups \in [1..MaxBackups -> LogFiles]
  /\ logPc \in {"ready", "shift", "open"}
  /\ logOpen \in BOOLEAN
  /\ size \in 0..FileLines
  /\ shiftAt \in 0..MaxBackups
  /\ written \in 0..MaxLines
  /\ shiftFailed \in BOOLEAN
  /\ logFaults \in 0..MaxLogFaults

(* The lines of the i-th file, counted from the newest: path, path.1, ...  *)
Lines(i) ==
  LET file == IF i = 0 THEN current ELSE backups[i]
  IN  IF file = NoFile THEN <<>> ELSE file
Ages == 0..MaxBackups
Held == UNION {Range(Lines(i)) : i \in Ages}

(* A log reads in order and without holes: at every moment, in the middle  *)
(* of a rotation and after a crash in it too, the files from the oldest to *)
(* the newest hold the last lines accepted, each once, with none missing   *)
(* between them.  Only a failed rename of the loop makes a hole, and even  *)
(* then nothing is out of order and the last line is there.  Without       *)
(* failures and crashes a line is dropped only when MaxBackups files are   *)
(* full behind it: all the files there can be, but one.                    *)
LogKeepsOrder ==
  /\ Held \subseteq 1..written
  /\ \A i \in Ages : \A a, b \in DOMAIN Lines(i) :
       a < b => Lines(i)[a] < Lines(i)[b]
  /\ \A i, j \in Ages : i < j =>
       \A m \in Range(Lines(i)), n \in Range(Lines(j)) : n < m
  /\ written > 0 => written \in Held
  /\ ~shiftFailed => \A n \in Held : n..written \subseteq Held
  /\ logFaults = 0 /\ written > 0 =>
       \/ 1 \in Held
       \/ \E i \in Ages : \A j \in Ages \ {i} : Len(Lines(j)) = FileLines
=============================================================================
