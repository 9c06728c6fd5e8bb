-------------------------- MODULE SessionBindingProofs --------------------------
(***************************************************************************)
(* Proofs about SessionBinding, for every number of sessions and either    *)
(* default provider.                                                       *)
(***************************************************************************)
EXTENDS SessionBinding, TLAPS

USE BindingAssumption

(* The row that stands for "no binding" is a row.                          *)
LEMMA NoRowIsRow == NoRow \in Rows /\ NoRow.session = 0
  BY DEF NoRow, Rows

(* What a returning handler leaves of its goroutine's locals.              *)
LEMMA ReturnTypes ==
  ASSUME TypeOK, NEW g \in Goroutines, Return(g)
  PROVE  /\ pc' \in [Goroutines -> WorkerPcs \cup PollerPcs]
         /\ pc'["worker"] \in WorkerPcs
         /\ copy' \in [Goroutines -> Rows]
         /\ settings' \in Providers
         /\ use' \in [Goroutines -> Providers]
         /\ result' \in [Goroutines -> Rows]
         /\ pc' = [pc EXCEPT ![g] = "idle"]
         /\ \A h \in Goroutines \ {g} : /\ result'[h] = result[h]
                                      /\ copy'[h] = copy[h]
  BY NoRowIsRow DEF TypeOK, Return, Goto, WorkerPcs, PollerPcs, Goroutines

(* Types.                                                                  *)
THEOREM TypeCorrect == Spec => []TypeOK
<1>1. Init => TypeOK
  BY NoRowIsRow DEF Init, TypeOK, WorkerPcs, Goroutines
<1>2. TypeOK /\ [Next]_vars => TypeOK'
  <2> SUFFICES ASSUME TypeOK, [Next]_vars PROVE TypeOK'
    OBVIOUS
  <2>0. "worker" \in Goroutines /\ "poller" \in Goroutines
    BY DEF Goroutines
  <2>1. CASE Lookup
    BY <2>0, <2>1, NoRowIsRow
       DEF TypeOK, Lookup, Goto, durable, history, WorkerPcs, Goroutines
  <2>2. CASE Settings
    <3>1. Chosen \in Providers
      BY DEF TypeOK, Chosen
    <3>. QED
      BY <2>0, <2>2, <3>1, NoRowIsRow
         DEF TypeOK, Settings, Goto, durable, history, WorkerPcs, Goroutines
  <2>3. CASE Resume
    <3>1. copy["worker"] \in Rows /\ use["worker"] \in Providers
      BY <2>0 DEF TypeOK
    <3>2. [copy["worker"] EXCEPT !.provider = use["worker"]] \in Rows
      BY <3>1 DEF Rows
    <3>. QED
      BY <2>0, <2>3, <3>1, <3>2
         DEF TypeOK, Resume, Goto, durable, history, WorkerPcs, Goroutines
  <2>4. ASSUME NEW g \in Goroutines, Reread(g) PROVE TypeOK'
    <3>1. Chosen \in Providers
      BY DEF TypeOK, Chosen
    <3>. QED
      BY <2>0, <2>4, <3>1
         DEF TypeOK, Reread, Goto, durable, history, WorkerPcs, PollerPcs
  <2>5. ASSUME NEW g \in Goroutines, Start(g) PROVE TypeOK'
    <3>1. PICK s \in Sessions, p \in Runners(use[g]) :
            /\ owner' = [owner EXCEPT ![s] = p]
            /\ remembered' = [remembered EXCEPT ![s] = p]
            /\ result' = [result EXCEPT ![g] =
                 [session |-> s, provider |-> p, status |-> "live"]]
      BY <2>5 DEF Start
    <3>2. p \in Providers
      BY DEF TypeOK, Runners, Providers
    <3>3. [session |-> s, provider |-> p, status |-> "live"] \in Rows
      BY <3>2 DEF Rows, Sessions
    <3>. QED
      BY <2>0, <2>5, <3>1, <3>2, <3>3
         DEF TypeOK, Start, Goto, history, WorkerPcs, PollerPcs
  <2>6. ASSUME NEW g \in Goroutines, Save(g) PROVE TypeOK'
    BY <2>6, ReturnTypes DEF TypeOK, Save, history
  <2>7. ASSUME NEW g \in Goroutines, Fail(g) PROVE TypeOK'
    BY <2>7, ReturnTypes DEF TypeOK, Fail, durable, history
  <2>8. CASE ArchiveLookup
    BY <2>0, <2>8
       DEF TypeOK, ArchiveLookup, Goto, durable, history, WorkerPcs, PollerPcs,
           Goroutines
  <2>16. CASE NewPrompt
    BY <2>0, <2>16
       DEF TypeOK, NewPrompt, Goto, durable, history, local, WorkerPcs,
           PollerPcs, Goroutines
  <2>14. CASE ArchiveThread
    BY <2>0, <2>14, NoRowIsRow
       DEF TypeOK, ArchiveThread, Goto, durable, history, WorkerPcs,
           PollerPcs, Goroutines
  <2>15. CASE SyncLookup
    BY <2>0, <2>15
       DEF TypeOK, SyncLookup, Goto, durable, history, WorkerPcs, PollerPcs,
           Goroutines
  <2>9. CASE ArchiveRow \/ SwitchRow
    <3>1. row.session \in 0..MaxSessions
      BY DEF TypeOK, Rows
    <3>2. [row EXCEPT !.status = "archived"] \in Rows
      BY DEF TypeOK, Rows
    <3>. QED
      BY <2>0, <2>9, <3>1, <3>2
         DEF TypeOK, ArchiveRow, SwitchRow, Stamp, Goto, local, WorkerPcs,
             PollerPcs, Goroutines
  <2>10. CASE Remember
    <3>1. copy["poller"] \in Rows
      BY <2>0 DEF TypeOK
    <3>2. copy["poller"].provider \in Providers
      BY <3>1 DEF Rows
    <3>. QED
      BY <2>0, <2>10, <3>2
         DEF TypeOK, Remember, Goto, durable, history, local, WorkerPcs,
             PollerPcs, Goroutines
  <2>11. CASE SwitchProvider \/ SwitchLookup
    BY <2>0, <2>11
       DEF TypeOK, SwitchProvider, SwitchLookup, Goto, durable, history, local,
           WorkerPcs, PollerPcs, Goroutines
  <2>12. CASE Crash
    BY <2>12, NoRowIsRow
       DEF TypeOK, Crash, durable, history, WorkerPcs, Goroutines
  <2>13. CASE UNCHANGED vars
    BY <2>13 DEF TypeOK, vars
  <2>. QED
    BY <2>1, <2>2, <2>3, <2>4, <2>5, <2>6, <2>7, <2>8, <2>9, <2>10, <2>11,
       <2>12, <2>13, <2>14, <2>15, <2>16 DEF Next, Shared, Command
<1>. QED
  BY <1>1, <1>2, PTL DEF Spec

(* Who holds what.  ProviderOwnsBinding alone is not inductive: the row is *)
(* written from copies and results that were taken earlier, so those must  *)
(* name the right backend too, and a backend never gives a session away.   *)
Consistent(r) == r.session # 0 => r.provider = owner[r.session]
Archiving == {"archiveRow", "remember", "archiveThread"}
OwnerInv ==
  /\ Consistent(row)
  /\ \A g \in Goroutines : Consistent(copy[g]) /\ Consistent(result[g])
  /\ \A g \in Goroutines : pc[g] = "save" <=> result[g].session # 0
  /\ pc["poller"] \in Archiving => copy["poller"].session # 0
  /\ pc["poller"] = "archiveThread" =>
       remembered[copy["poller"].session] = copy["poller"].provider
  /\ pc["worker"] \in {"reread", "call"} /\ copy["worker"].session # 0 =>
       copy["worker"].provider = settings

(* Every call of the two goroutines keeps rows and backends in line.       *)
LEMMA OwnerStep == TypeOK /\ OwnerInv /\ [Next]_vars => OwnerInv'
<1> SUFFICES ASSUME TypeOK, OwnerInv, [Next]_vars PROVE OwnerInv'
  OBVIOUS
<1>0. "worker" \in Goroutines /\ "poller" \in Goroutines
      /\ \A g \in Goroutines : g = "worker" \/ g = "poller"
  BY DEF Goroutines
<1>1. /\ row \in Rows
      /\ \A g \in Goroutines : copy[g] \in Rows /\ result[g] \in Rows
      /\ \A r \in Rows : r.session \in 0..MaxSessions /\ r.provider \in Providers
      /\ pc \in [Goroutines -> WorkerPcs \cup PollerPcs]
      /\ copy \in [Goroutines -> Rows] /\ result \in [Goroutines -> Rows]
      /\ "none" \notin Providers
  BY DEF TypeOK, Rows, Providers
<1>2. Consistent(NoRow) /\ NoRow.session = 0 /\ NoRow \in Rows
  BY NoRowIsRow DEF Consistent
<1> USE DEF OwnerInv, Consistent, Archiving
<1>3. CASE Lookup
  BY <1>0, <1>1, <1>2, <1>3 DEF Lookup, Goto, durable, history
<1>4. CASE Settings
  BY <1>0, <1>1, <1>2, <1>4 DEF Settings, Goto, durable, history
<1>5. ASSUME NEW g \in Goroutines, Reread(g) PROVE OwnerInv'
  BY <1>0, <1>1, <1>5 DEF Reread, Goto, durable, history
<1>6. ASSUME NEW g \in Goroutines, Start(g) PROVE OwnerInv'
  <2>0. PICK s \in Sessions, p \in Runners(use[g]) :
          /\ \A t \in Sessions : owner[t] = "none" <=> t >= s
          /\ owner' = [owner EXCEPT ![s] = p]
          /\ remembered' = [remembered EXCEPT ![s] = p]
          /\ result' = [result EXCEPT ![g] =
               [session |-> s, provider |-> p, status |-> "live"]]
    BY <1>6 DEF Start
  <2>1. /\ owner[s] = "none"
        /\ owner' = [owner EXCEPT ![s] = p]
        /\ remembered' = [remembered EXCEPT ![s] = p]
        /\ result' = [result EXCEPT ![g] =
             [session |-> s, provider |-> p, status |-> "live"]]
    BY <2>0 DEF Sessions
  <2>2. \A r \in Rows : Consistent(r) => r.session # s /\ Consistent(r)'
    BY <1>1, <2>1 DEF TypeOK, Sessions
  <2>3. /\ row' = row /\ copy' = copy /\ settings' = settings
        /\ pc[g] = "call" /\ pc' = [pc EXCEPT ![g] = "save"]
    BY <1>6 DEF Start, Goto
  <2>4. s # 0 /\ owner'[s] = p
    BY <2>1 DEF TypeOK, Sessions
  <2>5. \A h \in Goroutines : Consistent(result[h])'
    BY <1>0, <1>1, <2>1, <2>2, <2>4
  <2>6. \A h \in Goroutines : pc'[h] = "save" <=> result'[h].session # 0
    BY <1>0, <1>1, <2>1, <2>3, <2>4
  <2>7. pc'["poller"] = "archiveThread" =>
          remembered'[copy'["poller"].session] = copy'["poller"].provider
    BY <1>0, <1>1, <2>1, <2>2, <2>3 DEF TypeOK
  <2>. QED
    BY <1>0, <1>1, <2>2, <2>3, <2>5, <2>6, <2>7
<1>7. CASE Resume
  <2>1. /\ copy["worker"] \in Rows /\ copy["worker"].session # 0
        /\ owner[copy["worker"].session] = use["worker"]
        /\ remembered' = [remembered EXCEPT ![copy["worker"].session] = use["worker"]]
        /\ result' = [result EXCEPT !["worker"] =
                        [copy["worker"] EXCEPT !.provider = use["worker"]]]
        /\ pc["worker"] = "call" /\ pc' = [pc EXCEPT !["worker"] = "save"]
        /\ UNCHANGED <<row, owner, copy, settings>>
    BY <1>0, <1>1, <1>7 DEF Resume, Goto, durable
  <2>2. [copy["worker"] EXCEPT !.provider = use["worker"]] = copy["worker"]
    BY <1>0, <2>1 DEF Rows
  <2>3. \A h \in Goroutines : pc'[h] = "save" <=> result'[h].session # 0
    BY <1>0, <1>1, <2>1, <2>2
  <2>4. \A h \in Goroutines : Consistent(result[h])'
    BY <1>0, <1>1, <2>1, <2>2
  <2>5. pc'["poller"] = "archiveThread" =>
          remembered'[copy'["poller"].session] = copy'["poller"].provider
    BY <1>0, <1>1, <2>1 DEF TypeOK
  <2>. QED
    BY <1>0, <1>1, <2>1, <2>3, <2>4, <2>5
<1>8. ASSUME NEW g \in Goroutines, Save(g) PROVE OwnerInv'
  BY <1>0, <1>1, <1>2, <1>8 DEF Save, Return, Goto, history
<1>9. ASSUME NEW g \in Goroutines, Fail(g) PROVE OwnerInv'
  BY <1>0, <1>1, <1>2, <1>9 DEF Fail, Return, Goto, durable, history
<1>10. CASE ArchiveLookup
  BY <1>0, <1>1, <1>10 DEF ArchiveLookup, Goto, durable, history
<1>11. CASE NewPrompt
  BY <1>0, <1>1, <1>11 DEF NewPrompt, Goto, durable, history, local
<1>12. CASE ArchiveRow \/ SwitchRow
  <2>1. row'.session = row.session /\ row'.provider = row.provider
    BY <1>1, <1>12 DEF ArchiveRow, SwitchRow, Stamp, Rows
  <2>. QED
    BY <1>0, <1>1, <1>12, <2>1 DEF ArchiveRow, SwitchRow, Goto, local
<1>13. CASE Remember
  <2>1. copy["poller"].session \in Sessions
    BY <1>0, <1>1, <1>13 DEF Remember, Sessions
  <2>. QED
    BY <1>0, <1>1, <1>13, <2>1
       DEF TypeOK, Remember, Goto, durable, history, local
<1>14. CASE ArchiveThread
  BY <1>0, <1>1, <1>2, <1>14 DEF ArchiveThread, Goto, durable, history
<1>15. CASE SwitchProvider
  BY <1>0, <1>1, <1>15 DEF SwitchProvider, Goto, local, history
<1>16. CASE SwitchLookup
  BY <1>0, <1>1, <1>16 DEF SwitchLookup, Goto, durable, local, history
<1>17. CASE SyncLookup
  BY <1>0, <1>1, <1>17 DEF SyncLookup, Goto, durable, history
<1>18. CASE Crash
  BY <1>0, <1>1, <1>2, <1>18 DEF Crash, durable, history
<1>19. CASE UNCHANGED vars
  BY <1>19 DEF vars
<1>. QED
  BY <1>3, <1>4, <1>5, <1>6, <1>7, <1>8, <1>9, <1>10, <1>11, <1>12, <1>13,
     <1>14, <1>15, <1>16, <1>17, <1>18, <1>19 DEF Next, Shared, Command

(* The owner invariant holds of every run, restarts included.              *)
THEOREM OwnerCorrect == Spec => []OwnerInv
<1>1. Init => OwnerInv
  BY NoRowIsRow DEF Init, OwnerInv, Consistent, Archiving, Goroutines
<1>. QED
  BY <1>1, TypeCorrect, OwnerStep, PTL DEF Spec

(* The row names the backend that holds its session.                       *)
THEOREM BindingNamesOwner == Spec => []ProviderOwnsBinding
<1>1. OwnerInv => ProviderOwnsBinding
  BY DEF OwnerInv, Consistent, ProviderOwnsBinding
<1>. QED
  BY <1>1, OwnerCorrect, PTL

(* Archive requests reach the backend that holds the session.              *)
THEOREM ArchiveRouted == Spec => []ArchiveReachesOwner
<1>1. TypeOK /\ OwnerInv => ArchiveReachesOwner
  <2> SUFFICES ASSUME TypeOK, OwnerInv, pc["poller"] = "archiveThread"
               PROVE  ProviderFor(copy["poller"].session) =
                        owner[copy["poller"].session]
    BY DEF ArchiveReachesOwner
  <2>1. copy["poller"] \in Rows /\ copy["poller"].session # 0
    BY DEF TypeOK, OwnerInv, Archiving, Goroutines
  <2>2. copy["poller"].provider # "none"
    BY <2>1 DEF Rows, Providers
  <2>. QED
    BY <2>1, <2>2 DEF OwnerInv, Consistent, ProviderFor, Goroutines
<1>. QED
  BY <1>1, TypeCorrect, OwnerCorrect, PTL

(* Only a /provider between two reads sends a resume to another backend.   *)
THEOREM ResumeRouted == Spec => []ResumedByOwner
<1>1. OwnerInv => ResumedByOwner
  BY DEF OwnerInv, Consistent, ResumedByOwner, Goroutines
<1>. QED
  BY <1>1, OwnerCorrect, PTL

(* Why what is settled stays so: the worker can bring a session back only  *)
(* from its copy, from a row it has not saved, or by creating it; the poll *)
(* goroutine only from a row it looked up and writes before its next       *)
(* command.                                                                *)
SettleInv ==
  /\ SettledStaysArchived
  /\ 0 \notin settled
  /\ \A s \in settled : owner[s] # "none"
  /\ result["worker"].session \notin settled
  /\ result["poller"].session \in settled =>
       result["poller"].status = "archived"
  /\ pc["worker"] = "save" /\ copy["worker"].session = 0 =>
       result["worker"].session \notin {row.session, result["poller"].session}
  /\ pc["worker"] = "save" /\ copy["worker"].session # 0 =>
       result["worker"].session = copy["worker"].session

(* No call of either goroutine brings a settled session back.              *)
LEMMA SettleStep ==
  TypeOK /\ OwnerInv /\ SettleInv /\ [Next]_vars => SettleInv'
<1> SUFFICES ASSUME TypeOK, OwnerInv, SettleInv, [Next]_vars PROVE SettleInv'
  OBVIOUS
<1>0. "worker" \in Goroutines /\ "poller" \in Goroutines
      /\ \A g \in Goroutines : g = "worker" \/ g = "poller"
  BY DEF Goroutines
<1>1. /\ row \in Rows
      /\ \A g \in Goroutines : copy[g] \in Rows /\ result[g] \in Rows
      /\ \A r \in Rows : r.session \in 0..MaxSessions /\ r.provider \in Providers
      /\ pc \in [Goroutines -> WorkerPcs \cup PollerPcs]
      /\ copy \in [Goroutines -> Rows] /\ result \in [Goroutines -> Rows]
      /\ "none" \notin Providers
  BY DEF TypeOK, Rows, Providers
<1>2. NoRow.session = 0
  BY NoRowIsRow
<1>3. \A g \in Goroutines : pc[g] = "save" <=> result[g].session # 0
  BY DEF OwnerInv
<1>4. row.session # 0 => owner[row.session] # "none"
  BY <1>1 DEF OwnerInv, Consistent
<1>5. result["poller"].session # 0 => owner[result["poller"].session] # "none"
  BY <1>0, <1>1 DEF OwnerInv, Consistent
<1> USE DEF SettleInv, SettledStaysArchived
<1>6. CASE Lookup
  BY <1>0, <1>1, <1>2, <1>6 DEF Lookup, Goto, durable, history, Rows
<1>7. CASE Settings
  BY <1>0, <1>1, <1>2, <1>7 DEF Settings, Goto, durable, history
<1>8. ASSUME NEW g \in Goroutines, Reread(g) PROVE SettleInv'
  BY <1>0, <1>1, <1>8 DEF Reread, Goto, durable, history
<1>9. ASSUME NEW g \in Goroutines, Start(g) PROVE SettleInv'
  <2>0. PICK s \in Sessions, p \in Runners(use[g]) :
          /\ \A t \in Sessions : owner[t] = "none" <=> t >= s
          /\ owner' = [owner EXCEPT ![s] = p]
          /\ result' = [result EXCEPT ![g] =
               [session |-> s, provider |-> p, status |-> "live"]]
    BY <1>9 DEF Start
  <2>1. owner[s] = "none" /\ s # 0
    BY <2>0 DEF Sessions
  <2>2. p # "none"
    BY DEF Runners, TypeOK, Providers
  <2>3. /\ UNCHANGED <<row, copy, settled>>
        /\ pc[g] = "call" /\ pc' = [pc EXCEPT ![g] = "save"]
        /\ copy[g].session = 0
    BY <1>9 DEF Start, Goto, history
  <2>4. s \notin settled /\ s # row.session /\ s # result["poller"].session
    BY <1>4, <1>5, <2>1
  <2>5. \A t \in settled' : owner'[t] # "none"
    BY <2>0, <2>2, <2>3 DEF TypeOK
  <2>6. pc["worker"] = "save" => s # result["worker"].session
    BY <1>0, <1>1, <1>3, <2>1 DEF OwnerInv, Consistent
  <2>7. CASE g = "worker"
    BY <1>0, <1>1, <2>0, <2>3, <2>4, <2>5, <2>7
  <2>8. CASE g = "poller"
    BY <1>0, <1>1, <2>0, <2>3, <2>4, <2>5, <2>6, <2>8
  <2>. QED
    BY <1>0, <2>7, <2>8
<1>10. CASE Resume
  <2>1. /\ result' = [result EXCEPT !["worker"] =
                        [copy["worker"] EXCEPT !.provider = use["worker"]]]
        /\ copy["worker"].session # 0
        /\ pc' = [pc EXCEPT !["worker"] = "save"]
        /\ UNCHANGED <<row, owner, copy, settled>>
    BY <1>10 DEF Resume, Goto, durable, history
  <2>2. [copy["worker"] EXCEPT !.provider = use["worker"]].session =
          copy["worker"].session
    BY <1>0, <1>1 DEF Rows
  <2>. QED
    BY <1>0, <1>1, <2>1, <2>2
<1>11. CASE Save("worker")
  BY <1>0, <1>1, <1>2, <1>3, <1>11 DEF Save, Return, Goto, history
<1>12. CASE Save("poller")
  BY <1>0, <1>1, <1>2, <1>3, <1>12 DEF Save, Return, Goto, history
<1>13. ASSUME NEW g \in Goroutines, Fail(g) PROVE SettleInv'
  BY <1>0, <1>1, <1>2, <1>3, <1>13 DEF Fail, Return, Goto, durable, history
<1>14. CASE ArchiveLookup
  BY <1>0, <1>1, <1>14 DEF ArchiveLookup, Goto, durable, history
<1>15. CASE NewPrompt
  BY <1>0, <1>1, <1>15 DEF NewPrompt, Goto, durable, history, local
<1>16. CASE ArchiveRow \/ SwitchRow
  <2>1. /\ row' = [row EXCEPT !.status = "archived"]
        /\ settled' = IF row.session \in {copy["worker"].session, 0}
                      THEN settled ELSE settled \cup {row.session}
        /\ UNCHANGED <<owner, copy, result>>
        /\ pc["poller"] # "save" /\ pc'["worker"] = pc["worker"]
    BY <1>0, <1>1, <1>16 DEF ArchiveRow, SwitchRow, Stamp, Goto, local
  <2>2. row'.session = row.session /\ row'.status = "archived"
    BY <1>1, <2>1 DEF Rows
  <2>3. result["poller"].session = 0
    BY <1>0, <1>3, <2>1
  <2>4. row.session # copy["worker"].session /\ row.session # 0 =>
          row.session # result["worker"].session
    BY <1>0, <1>1, <1>3
  <2>. QED
    BY <1>4, <2>1, <2>2, <2>3, <2>4
<1>17. CASE Remember
  BY <1>0, <1>1, <1>17 DEF Remember, Goto, durable, history, local
<1>18. CASE ArchiveThread
  BY <1>0, <1>1, <1>18 DEF ArchiveThread, Goto, durable, history
<1>19. CASE SwitchProvider
  BY <1>0, <1>1, <1>19 DEF SwitchProvider, Goto, local, history
<1>20. CASE SwitchLookup
  BY <1>0, <1>1, <1>20 DEF SwitchLookup, Goto, durable, local, history
<1>21. CASE SyncLookup
  BY <1>0, <1>1, <1>21 DEF SyncLookup, Goto, durable, history
<1>22. CASE Crash
  BY <1>0, <1>1, <1>2, <1>22 DEF Crash, durable, history
<1>23. CASE UNCHANGED vars
  BY <1>23 DEF vars
<1>. QED
  BY <1>0, <1>6, <1>7, <1>8, <1>9, <1>10, <1>11, <1>12, <1>13, <1>14, <1>15,
     <1>16, <1>17, <1>18, <1>19, <1>20, <1>21, <1>22, <1>23
     DEF Next, Shared, Command

(* A session archived while no run was using it is never resumed again.    *)
THEOREM SettledForGood == Spec => []SettledStaysArchived
<1>1. Init => SettleInv
  BY NoRowIsRow
     DEF Init, SettleInv, SettledStaysArchived, Goroutines
<1>2. SettleInv => SettledStaysArchived
  BY DEF SettleInv
<1>. QED
  BY <1>1, <1>2, TypeCorrect, OwnerCorrect, SettleStep, PTL DEF Spec
=============================================================================
