-------------------------- MODULE DeploymentProofs --------------------------
(***************************************************************************)
(* Theorems about Deployment, for any number of requests, failing calls    *)
(* and deaths of the Agent.                                                *)
(*                                                                         *)
(* JournalSuffices is not inductive: that the row and the backups suffice  *)
(* now depends on what the goroutine has saved so far, and that they still *)
(* will after another step on nobody else changing the files.  DeployInv   *)
(* adds both: JournalInv says for each step of a deployment what is saved  *)
(* by then, Solo that no other one is unfinished, Control which steps go   *)
(* with which phases of the row.  A step of one deployment changes only    *)
(* its own rows (AdvanceIsLocal), so Control and JournalInv are shown for  *)
(* the one that moves, action by action (AdvanceControl, AdvanceJournal),  *)
(* and once for all others (AdvanceInv).                                   *)
(***************************************************************************)
EXTENDS Deployment, TLAPS

USE ConstantsAssumption
-----------------------------------------------------------------------------
(* Clean, untouched, secured: the vocabulary of the inductive invariant.    *)
Clean(d) == flaw[d] \cap {"overlap", "backup"} = {}
Busy(d) == ~At(d, "idle") \/ journal[d].phase \in Unfinished
Untouched(d) == host = before[d].host
Kept(d, f) == f \in task[d].kept /\ backup[d][f] = before[d].host[f]
Secured(d) ==
    \A f \in File : before[d].host[f] # NoFile =>
                      f \in journal[d].saved /\ backup[d][f] = before[d].host[f]
Recoverable(d) ==
    \/ Secured(d)
    \/ /\ Untouched(d) /\ journal[d].saved \subseteq {"binary"}
       /\ backup[d]["binary"] \in {NoFile, before[d].host["binary"]}

(* Where a deployment is, and what its rows say.                            *)
ControlOf(d) ==
    /\ exec[d] = "NONE" => journal[d].phase = "NONE" /\ At(d, "idle")
    /\ At(d, "create") => journal[d].phase = "NONE" /\ task[d].kept = {}
    /\ journal[d].phase = "NONE" => task[d].step \in {"idle", "create"}
                                     /\ backup[d]["binary"] = NoFile
    /\ task[d].recovering => task[d].step \in Rollback \cup {"closing"}
    /\ At(d, "closing") => task[d].recovering
    /\ At(d, "restoreUnit") => "unit" \in task[d].kept
    /\ task[d].step \in Rollback \cup {"register", "report"} /\ ~task[d].recovering =>
         journal[d].phase \notin Unfinished
    /\ task[d].step \notin Rollback \cup {"idle", "create", "register", "report", "closing"} =>
         journal[d].phase \in Unfinished
    /\ agent = "up" /\ journal[d].phase \in Unfinished => ~At(d, "idle")
Control == \A d \in Request : ControlOf(d)

(* A deployment that has not overlapped another one is alone while it runs  *)
(* or waits for its recovery.                                               *)
Solo ==
    \A d, e \in Request : d # e /\ Busy(d) /\ "overlap" \notin flaw[d] => ~Busy(e)

Early == {"fetch", "inspect"}
Saving == {"open", "write", "stop", "record"}
Changing == {"binary", "replaced", "config", "unit", "unitBody", "enable", "started", "start",
             "verifying", "check", "done", "undo"}
Passed(t) == IF t.step \in {"stop", "record"} THEN File
             ELSE IF t.file = "binary" THEN {}
             ELSE IF t.file = "config" THEN {"binary"} ELSE {"binary", "config"}
SavedSoFar(d) ==
    /\ Untouched(d) /\ journal[d].saved = {"binary"} /\ "binary" \in task[d].kept
    /\ \A f \in Passed(task[d]) : before[d].host[f] # NoFile => Kept(d, f)
    /\ At(d, "open") /\ task[d].file = "binary" => backup[d]["binary"] = NoFile
    /\ At(d, "write") => task[d].data = before[d].host[task[d].file]
                          /\ task[d].file \in task[d].kept

(* Step by step, what there is to undo an unfinished upgrade with.          *)
Undoable(d) ==
    /\ task[d].step \in Early =>
         /\ Untouched(d) /\ journal[d].saved = {} /\ task[d].kept = {}
         /\ backup[d]["binary"] = NoFile
    /\ task[d].step \in Saving => SavedSoFar(d)
    /\ task[d].step \in Changing => Secured(d) /\ "binary" \in task[d].kept
    /\ task[d].step \in {"idle", "abort"} => Recoverable(d)
    /\ task[d].recovering => Recoverable(d) /\ task[d].kept = journal[d].saved
JournalOf(d) == journal[d].phase \in Unfinished /\ Upgrade(d) /\ Clean(d) => Undoable(d)
JournalInv == \A d \in Request : JournalOf(d)

DeployInv == TypeOK /\ Control /\ Solo /\ JournalInv
-----------------------------------------------------------------------------
(* Facts about the pieces the actions are made of. *)
LEMMA GotoTask ==
    ASSUME TypeOK, NEW d \in Request, NEW s \in Step, Goto(d, s)
    PROVE  /\ task' \in [Request -> Task]
           /\ task'[d] = [task[d] EXCEPT !.step = s]
           /\ \A e \in Request \ {d} : task'[e] = task[e]
BY DEF TypeOK, Goto, Task

LEMMA PutTask ==
    ASSUME TypeOK, NEW d \in Request, NEW t \in Task, task' = [task EXCEPT ![d] = t]
    PROVE  /\ task' \in [Request -> Task]
           /\ task'[d] = t
           /\ \A e \in Request \ {d} : task'[e] = task[e]
BY DEF TypeOK

LEMMA NextBackupType ==
    ASSUME TypeOK, NEW d \in Request
    PROVE  NextBackup(d) \in Task
<1>1. task[d] \in Task BY DEF TypeOK
<1>2. NextFile(task[d].file) \in File BY <1>1 DEF Task, File, NextFile
<1>3. NoFile \in Content /\ {"stop", "open"} \subseteq Step BY DEF Content, Step
<1>. QED BY <1>1, <1>2, <1>3 DEF NextBackup, Task

LEMMA NextRestoreType ==
    ASSUME TypeOK, NEW d \in Request, NEW r \in BOOLEAN
    PROVE  NextRestore(d, r) \in Task
<1>1. task[d] \in Task BY DEF TypeOK
<1>2. NextFile(task[d].file) \in File BY <1>1 DEF Task, File, NextFile
<1>3. {"startPrevious", "restore"} \subseteq Step BY DEF Step, Rollback
<1>. QED BY <1>1, <1>2, <1>3 DEF NextRestore, Task

-----------------------------------------------------------------------------
(* How a step of a deployment changes its goroutine. *)
MovesOn(d) ==
    \E t \in Task :
      /\ task' = [task EXCEPT ![d] = t]
      /\ t.step # "idle" /\ t.recovering = task[d].recovering
      /\ exec' = exec
Ends(d) ==
    /\ task' = [task EXCEPT ![d] = Idle]
    /\ \E r \in {"SUCCESS", "FAILED"} : exec' = [exec EXCEPT ![d] = r]

LEMMA GotoMoves ==
    ASSUME TypeOK, NEW d \in Request, NEW s \in Step \ {"idle"}, Goto(d, s), exec' = exec
    PROVE  MovesOn(d)
<1>1. task[d] \in Task BY DEF TypeOK
<1>. DEFINE t == [task[d] EXCEPT !.step = s]
<1>2. t \in Task /\ t.step = s /\ t.recovering = task[d].recovering BY <1>1 DEF Task
<1>3. task' = [task EXCEPT ![d] = t] BY DEF Goto, TypeOK
<1>. QED BY <1>2, <1>3 DEF MovesOn

LEMMA PutMoves ==
    ASSUME TypeOK, NEW d \in Request, NEW t \in Task, task' = [task EXCEPT ![d] = t],
           t.step # "idle", t.recovering = task[d].recovering, exec' = exec
    PROVE  MovesOn(d)
BY DEF MovesOn

LEMMA AdvanceMoves ==
    ASSUME TypeOK, NEW d \in Request, Advance(d)
    PROVE  ~At(d, "idle") /\ (MovesOn(d) \/ Ends(d))
<1>. DEFINE S == Step \ {"idle"}
<1>0. task[d] \in Task BY DEF TypeOK
<1>1. CASE CreateDeployment(d)
  <2>1. ~At(d, "idle") /\ exec' = exec BY <1>1 DEF CreateDeployment, At, around, history
  <2>2. \E s \in S : Goto(d, s) BY <1>1 DEF CreateDeployment, Step, Rollback
  <2>. QED BY <2>1, <2>2, GotoMoves
<1>2. CASE Fetch(d)
  <2>1. ~At(d, "idle") /\ exec' = exec BY <1>2 DEF Fetch, At, around, history
  <2>2. \E s \in S : Goto(d, s) BY <1>2 DEF Fetch, Step, Rollback
  <2>. QED BY <2>1, <2>2, GotoMoves
<1>3. CASE Inspect(d)
  <2>1. ~At(d, "idle") /\ exec' = exec BY <1>3 DEF Inspect, At
  <2>2. CASE host["binary"] = NoFile
    <3>1. \E s \in S : Goto(d, s) BY <1>3, <2>2 DEF Inspect, Step
    <3>. QED BY <2>1, <3>1, GotoMoves
  <2>3. CASE host["binary"] # NoFile
    <3>. DEFINE t == [task[d] EXCEPT !.step = "open", !.file = "binary", !.kept = {"binary"}]
    <3>1. t \in Task /\ t.step # "idle" /\ t.recovering = task[d].recovering
      BY <1>0 DEF Task, Step, File
    <3>2. task' = [task EXCEPT ![d] = t] BY <1>3, <2>3 DEF Inspect, TypeOK
    <3>. QED BY <2>1, <3>1, <3>2, PutMoves
  <2>. QED BY <2>2, <2>3
<1>4. CASE OpenBackup(d)
  <2>1. ~At(d, "idle") /\ exec' = exec BY <1>4 DEF OpenBackup, At
  <2>2. NextBackup(d) \in Task /\ NextBackup(d).step # "idle"
        /\ NextBackup(d).recovering = task[d].recovering
    BY <1>0, NextBackupType DEF NextBackup, Task
  <2>. DEFINE f == task[d].file
              t == [task[d] EXCEPT !.step = "write", !.data = host[f], !.kept = @ \cup {f}]
  <2>3. t \in Task /\ t.step # "idle" /\ t.recovering = task[d].recovering
    <3>1. f \in File /\ host[f] \in Content BY <1>0 DEF Task, TypeOK, Files
    <3>. QED BY <1>0, <3>1 DEF Task, Step
  <2>4. task' = [task EXCEPT ![d] = t] \/ task' = [task EXCEPT ![d] = NextBackup(d)]
    BY <1>4 DEF OpenBackup, TypeOK
  <2>. QED BY <2>1, <2>2, <2>3, <2>4, PutMoves
<1>5. CASE WriteBackup(d)
  <2>1. ~At(d, "idle") /\ exec' = exec BY <1>5 DEF WriteBackup, At
  <2>2. NextBackup(d) \in Task /\ NextBackup(d).step # "idle"
        /\ NextBackup(d).recovering = task[d].recovering
    BY <1>0, NextBackupType DEF NextBackup, Task
  <2>3. task' = [task EXCEPT ![d] = NextBackup(d)] BY <1>5 DEF WriteBackup
  <2>. QED BY <2>1, <2>2, <2>3, PutMoves
<1>6. CASE StopOld(d)
  <2>1. ~At(d, "idle") /\ exec' = exec BY <1>6 DEF StopOld, At, around, history
  <2>2. \E s \in S : Goto(d, s) BY <1>6 DEF StopOld, Step, Rollback
  <2>. QED BY <2>1, <2>2, GotoMoves
<1>7. CASE SetDeploymentBackups(d)
  <2>1. ~At(d, "idle") /\ exec' = exec BY <1>7 DEF SetDeploymentBackups, At, around, history
  <2>2. \E s \in S : Goto(d, s) BY <1>7 DEF SetDeploymentBackups, Step, Rollback
  <2>. QED BY <2>1, <2>2, GotoMoves
<1>8. CASE InstallBinary(d)
  <2>1. ~At(d, "idle") /\ exec' = exec BY <1>8 DEF InstallBinary, At, around, history
  <2>2. \E s \in S : Goto(d, s) BY <1>8 DEF InstallBinary, Step, Rollback
  <2>. QED BY <2>1, <2>2, GotoMoves
<1>9. CASE InstallConfig(d)
  <2>1. ~At(d, "idle") /\ exec' = exec BY <1>9 DEF InstallConfig, At, around, history
  <2>2. \E s \in S : Goto(d, s) BY <1>9 DEF InstallConfig, Step, Rollback
  <2>. QED BY <2>1, <2>2, GotoMoves
<1>10. CASE InstallUnit(d)
  <2>1. ~At(d, "idle") /\ exec' = exec BY <1>10 DEF InstallUnit, At, around, history
  <2>2. \E s \in S : Goto(d, s) BY <1>10 DEF InstallUnit, Step, Rollback
  <2>. QED BY <2>1, <2>2, GotoMoves
<1>11. CASE WriteUnit(d)
  <2>1. ~At(d, "idle") /\ exec' = exec BY <1>11 DEF WriteUnit, At, around, history
  <2>2. \E s \in S : Goto(d, s) BY <1>11 DEF WriteUnit, Step, Rollback
  <2>. QED BY <2>1, <2>2, GotoMoves
<1>12. CASE EnableService(d)
  <2>1. ~At(d, "idle") /\ exec' = exec BY <1>12 DEF EnableService, At, around, history
  <2>2. \E s \in S : Goto(d, s) BY <1>12 DEF EnableService, Step, Rollback
  <2>. QED BY <2>1, <2>2, GotoMoves
<1>13. CASE StartService(d)
  <2>1. ~At(d, "idle") /\ exec' = exec BY <1>13 DEF StartService, At, around, history
  <2>2. \E s \in S : Goto(d, s) BY <1>13 DEF StartService, Step, Rollback
  <2>. QED BY <2>1, <2>2, GotoMoves
<1>14. CASE CheckHealth(d)
  <2>1. ~At(d, "idle") /\ exec' = exec BY <1>14 DEF CheckHealth, At, around, history
  <2>2. \E s \in S : Goto(d, s) BY <1>14 DEF CheckHealth, Step, Rollback
  <2>. QED BY <2>1, <2>2, GotoMoves
<1>15. CASE UpdatePhase(d)
  <2>1. ~At(d, "idle") /\ exec' = exec BY <1>15 DEF UpdatePhase, At, around, history
  <2>2. \E s \in S : Goto(d, s) BY <1>15 DEF UpdatePhase, Step, Rollback
  <2>. QED BY <2>1, <2>2, GotoMoves
<1>16. CASE RegisterUnit(d)
  <2>1. ~At(d, "idle") /\ exec' = exec BY <1>16 DEF RegisterUnit, At, around, history
  <2>2. \E s \in S : Goto(d, s) BY <1>16 DEF RegisterUnit, Step, Rollback
  <2>. QED BY <2>1, <2>2, GotoMoves
<1>17. CASE ReportResult(d)
  BY <1>17 DEF ReportResult, At, Ends
<1>18. CASE StopNew(d)
  <2>1. ~At(d, "idle") /\ exec' = exec BY <1>18 DEF StopNew, At
  <2>2. CASE "binary" \in task[d].kept
    <3>. DEFINE t == [task[d] EXCEPT !.step = "restore", !.file = "binary"]
    <3>1. t \in Task /\ t.step # "idle" /\ t.recovering = task[d].recovering
      BY <1>0 DEF Task, Step, Rollback, File
    <3>2. task' = [task EXCEPT ![d].step = "restore", ![d].file = "binary"]
      BY <1>18, <2>2 DEF StopNew
    <3>3. task \in [Request -> Task] BY DEF TypeOK
    <3>4. task' = [task EXCEPT ![d] = t] BY <1>0, <3>2, <3>3 DEF Task
    <3>. QED BY <2>1, <3>1, <3>4, PutMoves
  <2>3. CASE "binary" \notin task[d].kept
    <3>1. \E s \in S : Goto(d, s) BY <1>18, <2>3 DEF StopNew, EndRollback, Step
    <3>. QED BY <2>1, <3>1, GotoMoves
  <2>. QED BY <2>2, <2>3
<1>19. CASE Restore(d)
  <2>1. ~At(d, "idle") /\ exec' = exec BY <1>19 DEF Restore, At
  <2>2. ASSUME NEW r \in BOOLEAN, task' = [task EXCEPT ![d] = NextRestore(d, r)]
        PROVE  MovesOn(d)
    <3>1. NextRestore(d, r) \in Task /\ NextRestore(d, r).step # "idle"
          /\ NextRestore(d, r).recovering = task[d].recovering
      BY <1>0, NextRestoreType DEF NextRestore, Task
    <3>. QED BY <2>1, <2>2, <3>1, PutMoves
  <2>3. \/ \E r \in BOOLEAN : task' = [task EXCEPT ![d] = NextRestore(d, r)]
        \/ Goto(d, "restoreUnit")
    BY <1>19, <1>0 DEF Restore, Task
  <2>4. "restoreUnit" \in S BY DEF Step, Rollback
  <2>. QED BY <2>1, <2>2, <2>3, <2>4, GotoMoves
<1>20. CASE RestoreUnit(d)
  <2>1. ~At(d, "idle") /\ exec' = exec BY <1>20 DEF RestoreUnit, At
  <2>2. ASSUME NEW r \in BOOLEAN, task' = [task EXCEPT ![d] = NextRestore(d, r)]
        PROVE  MovesOn(d)
    <3>1. NextRestore(d, r) \in Task /\ NextRestore(d, r).step # "idle"
          /\ NextRestore(d, r).recovering = task[d].recovering
      BY <1>0, NextRestoreType DEF NextRestore, Task
    <3>. QED BY <2>1, <2>2, <3>1, PutMoves
  <2>3. task' = [task EXCEPT ![d] = NextRestore(d, task[d].restored)] BY <1>20 DEF RestoreUnit
  <2>4. task[d].restored \in BOOLEAN BY <1>0 DEF Task
  <2>. QED BY <2>1, <2>2, <2>3, <2>4
<1>21. CASE StartPrevious(d)
  <2>1. ~At(d, "idle") /\ exec' = exec BY <1>21 DEF StartPrevious, At, around, history
  <2>2. \E s \in S : Goto(d, s) BY <1>21 DEF StartPrevious, EndRollback, Step, Rollback
  <2>. QED BY <2>1, <2>2, GotoMoves
<1>. QED BY <1>1, <1>2, <1>3, <1>4, <1>5, <1>6, <1>7, <1>8, <1>9, <1>10, <1>11, <1>12,
            <1>13, <1>14, <1>15, <1>16, <1>17, <1>18, <1>19, <1>20, <1>21 DEF Advance

LEMMA FaultType ==
    ASSUME faults \in 0..MaxFaults, Works \/ Fails
    PROVE  faults' \in 0..MaxFaults
BY DEF Works, Fails

-----------------------------------------------------------------------------
(* The variables other than task and exec. *)
RowsType ==
    /\ host \in Files /\ service \in Version \cup {NoFile}
    /\ backup \in [Request -> Files]
    /\ journal \in [Request -> Row]
    /\ registered \in BOOLEAN /\ moved \in BOOLEAN
    /\ agent \in {"down", "recovering", "up"}
    /\ crashes \in 0..MaxCrashes
    /\ edits \in 0..MaxEdits /\ operations \in 0..MaxOperations
    /\ brings \in [Request -> SUBSET File]
    /\ before \in [Request -> [host : Files, service : Version \cup {NoFile}]]
    /\ flaw \in [Request -> SUBSET Flaw]

LEMMA HostPut ==
    ASSUME host \in Files, NEW f \in File, NEW c \in Content
    PROVE  [host EXCEPT ![f] = c] \in Files
BY DEF Files

LEMMA BackupPut ==
    ASSUME backup \in [Request -> Files], NEW d \in Request, NEW f \in File, NEW c \in Content
    PROVE  [backup EXCEPT ![d][f] = c] \in [Request -> Files]
BY DEF Files

LEMMA SpoilsType ==
    ASSUME flaw \in [Request -> SUBSET Flaw], NEW d \in Request, NEW w \in Flaw,
           Spoils(d, w) \/ UNCHANGED flaw
    PROVE  flaw' \in [Request -> SUBSET Flaw]
BY DEF Spoils

LEMMA SetPhaseType ==
    ASSUME TypeOK, NEW d \in Request, NEW p \in Phase, SetPhase(d, p)
    PROVE  journal' \in [Request -> Row]
<1>1. journal[d] \in Row /\ task[d].kept \in SUBSET File BY DEF TypeOK, Task
<1>. DEFINE r == [phase |-> p,
                  saved |-> (journal[d].saved \ {"binary"}) \cup (task[d].kept \cap {"binary"})]
<1>2. r \in Row BY <1>1 DEF Row
<1>3. journal' = [journal EXCEPT ![d] = r]
  <2>. DEFINE j == [journal EXCEPT ![d] = [journal[d] EXCEPT !.phase = p]]
              X == task[d].kept \cap {"binary"}
  <2>1. journal \in [Request -> Row] BY DEF TypeOK
  <2>2. j[d] = [phase |-> p, saved |-> journal[d].saved] BY <1>1, <2>1 DEF Row
  <2>3. journal' = [j EXCEPT ![d].saved = (@ \ {"binary"}) \cup X]
    BY <2>1 DEF SetPhase
  <2>4. journal' = [j EXCEPT ![d] = [j[d] EXCEPT !.saved = (j[d].saved \ {"binary"}) \cup X]]
    <3>. HIDE DEF j, X
    <3>. QED BY <2>3
  <2>5. [j[d] EXCEPT !.saved = (j[d].saved \ {"binary"}) \cup X] = r
    <3>1. j[d].saved = journal[d].saved BY <2>2
    <3>2. \A a, b, c : [[phase |-> a, saved |-> b] EXCEPT !.saved = c] = [phase |-> a, saved |-> c]
      OBVIOUS
    <3>. HIDE DEF j
    <3>. QED BY <2>2, <3>1, <3>2
  <2>6. journal' = [j EXCEPT ![d] = r] BY <2>4, <2>5
  <2>7. [j EXCEPT ![d] = r] = [journal EXCEPT ![d] = r]
    <3>. HIDE DEF r
    <3>. QED BY <2>1
  <2>. QED BY <2>6, <2>7
<1>. QED BY <1>2, <1>3 DEF TypeOK

LEMMA AdvanceFaults ==
    ASSUME TypeOK, NEW d \in Request, Advance(d)
    PROVE  faults' \in 0..MaxFaults
<1>1. faults \in 0..MaxFaults BY DEF TypeOK
<1>2. faults' = faults \/ Works \/ Fails
  <2>1. CASE CreateDeployment(d) BY <2>1 DEF CreateDeployment, Works
  <2>2. CASE Fetch(d) BY <2>2 DEF Fetch, Works
  <2>3. CASE Inspect(d) BY <2>3 DEF Inspect, Works
  <2>4. CASE OpenBackup(d) BY <2>4 DEF OpenBackup, Works
  <2>5. CASE WriteBackup(d) BY <2>5 DEF WriteBackup, Works
  <2>6. CASE StopOld(d) BY <2>6 DEF StopOld, Works, StopSucceeds, StopFails
  <2>7. CASE SetDeploymentBackups(d) BY <2>7 DEF SetDeploymentBackups, Works
  <2>8. CASE InstallBinary(d) BY <2>8 DEF InstallBinary, Works
  <2>9. CASE InstallConfig(d) BY <2>9 DEF InstallConfig, Works
  <2>10. CASE InstallUnit(d) BY <2>10 DEF InstallUnit, Works
  <2>11. CASE WriteUnit(d) BY <2>11 DEF WriteUnit, Works
  <2>12. CASE EnableService(d) BY <2>12 DEF EnableService, Works
  <2>13. CASE StartService(d) BY <2>13 DEF StartService, Works, StartSucceeds, StartFails
  <2>14. CASE CheckHealth(d) BY <2>14 DEF CheckHealth, Works
  <2>15. CASE UpdatePhase(d) BY <2>15 DEF UpdatePhase, Works
  <2>16. CASE RegisterUnit(d) BY <2>16 DEF RegisterUnit, Works
  <2>17. CASE ReportResult(d) BY <2>17 DEF ReportResult, Works
  <2>18. CASE StopNew(d) BY <2>18 DEF StopNew, Works, StopSucceeds, StopFails
  <2>19. CASE Restore(d) BY <2>19 DEF Restore, Works
  <2>20. CASE RestoreUnit(d) BY <2>20 DEF RestoreUnit, Works
  <2>21. CASE StartPrevious(d) BY <2>21 DEF StartPrevious, Works, StartSucceeds, StartFails
  <2>. QED BY <2>1, <2>2, <2>3, <2>4, <2>5, <2>6, <2>7, <2>8, <2>9, <2>10, <2>11, <2>12,
         <2>13, <2>14, <2>15, <2>16, <2>17, <2>18, <2>19, <2>20, <2>21 DEF Advance
<1>. QED BY <1>1, <1>2, FaultType

LEMMA AdvanceRows ==
    ASSUME TypeOK, NEW d \in Request, Advance(d)
    PROVE  RowsType'
<1>0. RowsType /\ task[d] \in Task BY DEF TypeOK, RowsType
<1>1. CASE CreateDeployment(d)
  BY <1>0, <1>1 DEF CreateDeployment, RowsType, onHost, around, bounds, history, Row, Phase,
         File, Task
<1>2. CASE Fetch(d)
  BY <1>0, <1>2 DEF Fetch, RowsType, onHost, around, bounds, history
<1>3. CASE Inspect(d)
  BY <1>0, <1>3 DEF Inspect, RowsType, onHost, around, bounds, history, Row, Phase, File, Task
<1>4. CASE OpenBackup(d)
  <2>1. host[task[d].file] \in Content /\ task[d].file \in File /\ Torn \in Content
    BY <1>0 DEF RowsType, Files, Task, Content
  <2>2. backup' \in [Request -> Files]
    <3>1. backup' = backup \/ backup' = [backup EXCEPT ![d][task[d].file] = Torn]
      BY <1>4 DEF OpenBackup
    <3>. QED BY <3>1, <2>1, <1>0, BackupPut DEF RowsType
  <2>3. flaw' \in [Request -> SUBSET Flaw]
    <3>1. Spoils(d, "backup") \/ UNCHANGED flaw BY <1>4 DEF OpenBackup
    <3>. QED BY <3>1, <1>0, SpoilsType DEF RowsType, Flaw
  <2>. QED BY <1>0, <1>4, <2>2, <2>3 DEF OpenBackup, RowsType, onHost, around, bounds, history
<1>5. CASE WriteBackup(d)
  <2>1. task[d].data \in Content /\ task[d].file \in File BY <1>0 DEF Task
  <2>2. backup' \in [Request -> Files]
    <3>1. backup' = backup \/ backup' = [backup EXCEPT ![d][task[d].file] = task[d].data]
      BY <1>5 DEF WriteBackup
    <3>. QED BY <3>1, <2>1, <1>0, BackupPut DEF RowsType
  <2>3. flaw' \in [Request -> SUBSET Flaw]
    <3>1. Spoils(d, "backup") \/ UNCHANGED flaw BY <1>5 DEF WriteBackup
    <3>. QED BY <3>1, <1>0, SpoilsType DEF RowsType, Flaw
  <2>. QED BY <1>0, <1>5, <2>2, <2>3 DEF WriteBackup, RowsType, onHost, around, bounds, history
<1>6. CASE StopOld(d)
  BY <1>0, <1>6 DEF StopOld, RowsType, onHost, around, bounds, history, StopSucceeds, StopFails
<1>7. CASE SetDeploymentBackups(d)
  BY <1>0, <1>7 DEF SetDeploymentBackups, RowsType, onHost, around, bounds, history, Row,
         Phase, File, Task
<1>8. CASE InstallBinary(d)
  <2>1. host' = host \/ host' = [host EXCEPT !["binary"] = d] BY <1>8 DEF InstallBinary
  <2>2. d \in Content /\ "binary" \in File BY DEF Content, Version, Request, File
  <2>3. host' \in Files BY <1>0, <2>1, <2>2, HostPut DEF RowsType
  <2>. QED BY <1>0, <1>8, <2>3 DEF InstallBinary, RowsType, onHost, around, bounds, history
<1>9. CASE InstallConfig(d)
  <2>1. host' = host \/ host' = [host EXCEPT !["config"] = d] BY <1>9 DEF InstallConfig
  <2>2. d \in Content /\ "config" \in File BY DEF Content, Version, Request, File
  <2>3. host' \in Files BY <1>0, <2>1, <2>2, HostPut DEF RowsType
  <2>. QED BY <1>0, <1>9, <2>3 DEF InstallConfig, RowsType, onHost, around, bounds, history
<1>10. CASE InstallUnit(d)
  <2>1. host' = host \/ host' = [host EXCEPT !["unit"] = Torn] BY <1>10 DEF InstallUnit
  <2>2. Torn \in Content /\ "unit" \in File BY DEF Content, Version, Request, File
  <2>3. host' \in Files BY <1>0, <2>1, <2>2, HostPut DEF RowsType
  <2>. QED BY <1>0, <1>10, <2>3 DEF InstallUnit, RowsType, onHost, around, bounds, history
<1>11. CASE WriteUnit(d)
  <2>1. host' = host \/ host' = [host EXCEPT !["unit"] = d] BY <1>11 DEF WriteUnit
  <2>2. d \in Content /\ "unit" \in File BY DEF Content, Version, Request, File
  <2>3. host' \in Files BY <1>0, <2>1, <2>2, HostPut DEF RowsType
  <2>. QED BY <1>0, <1>11, <2>3 DEF WriteUnit, RowsType, onHost, around, bounds, history
<1>12. CASE EnableService(d)
  BY <1>0, <1>12 DEF EnableService, RowsType, onHost, around, bounds, history
<1>13. CASE StartService(d)
  BY <1>0, <1>13 DEF StartService, RowsType, onHost, around, bounds, history, StartSucceeds,
         StartFails, Started, Request
<1>14. CASE CheckHealth(d)
  BY <1>0, <1>14 DEF CheckHealth, RowsType, onHost, around, bounds, history
<1>15. CASE UpdatePhase(d)
  <2>1. \E p \in Phase : SetPhase(d, p)
    <3>1. {"REPLACED", "STARTED", "VERIFYING", "DONE", "ROLLING_BACK"} \subseteq Phase BY DEF
           Phase
    <3>. QED BY <1>15, <3>1 DEF UpdatePhase
  <2>2. journal' \in [Request -> Row] BY <2>1, SetPhaseType
  <2>. QED BY <1>0, <1>15, <2>2 DEF UpdatePhase, RowsType, onHost, around, bounds, history
<1>16. CASE RegisterUnit(d)
  BY <1>0, <1>16 DEF RegisterUnit, RowsType, onHost, around, bounds, history
<1>17. CASE ReportResult(d)
  BY <1>0, <1>17 DEF ReportResult, RowsType, onHost, around, bounds, history
<1>18. CASE StopNew(d)
  BY <1>0, <1>18 DEF StopNew, RowsType, onHost, around, bounds, history, StopSucceeds, StopFails
<1>19. CASE Restore(d)
  <2>1. task[d].file \in File /\ Torn \in Content BY <1>0 DEF Task, Content
  <2>2. backup[d][task[d].file] \in Content BY <1>0, <2>1 DEF RowsType, Files
  <2>3. \/ host' = host
        \/ \E c \in {Torn, backup[d][task[d].file]} : host' = [host EXCEPT ![task[d].file] = c]
    BY <1>19 DEF Restore
  <2>4. host' \in Files BY <1>0, <2>1, <2>2, <2>3, HostPut DEF RowsType
  <2>5. flaw' \in [Request -> SUBSET Flaw]
    <3>1. Spoils(d, "restore") \/ UNCHANGED flaw BY <1>19 DEF Restore
    <3>. QED BY <3>1, <1>0, SpoilsType DEF RowsType, Flaw
  <2>. QED BY <1>0, <1>19, <2>4, <2>5 DEF Restore, RowsType, onHost, around, bounds, history
<1>20. CASE RestoreUnit(d)
  <2>1. backup[d]["unit"] \in Content /\ "unit" \in File BY <1>0 DEF RowsType, Files, File
  <2>2. host' = host \/ host' = [host EXCEPT !["unit"] = backup[d]["unit"]]
    BY <1>20 DEF RestoreUnit
  <2>3. host' \in Files BY <1>0, <2>1, <2>2, HostPut DEF RowsType
  <2>4. flaw' \in [Request -> SUBSET Flaw]
    <3>1. Spoils(d, "restore") \/ UNCHANGED flaw BY <1>20 DEF RestoreUnit
    <3>. QED BY <3>1, <1>0, SpoilsType DEF RowsType, Flaw
  <2>. QED BY <1>0, <1>20, <2>3, <2>4 DEF RestoreUnit, RowsType, onHost, around, bounds, history
<1>21. CASE StartPrevious(d)
  BY <1>0, <1>21 DEF StartPrevious, RowsType, onHost, around, bounds, history, StartSucceeds,
         StartFails, Started, Request
<1>. QED BY <1>1, <1>2, <1>3, <1>4, <1>5, <1>6, <1>7, <1>8, <1>9, <1>10, <1>11, <1>12,
            <1>13, <1>14, <1>15, <1>16, <1>17, <1>18, <1>19, <1>20, <1>21 DEF Advance

-----------------------------------------------------------------------------
(* The types again, for all other actions and as an invariant. *)
LEMMA AdvanceType ==
    ASSUME TypeOK, NEW d \in Request, Advance(d)
    PROVE  TypeOK'
<1>1. RowsType' BY AdvanceRows
<1>2. faults' \in 0..MaxFaults BY AdvanceFaults
<1>3. ~At(d, "idle") /\ (MovesOn(d) \/ Ends(d)) BY AdvanceMoves
<1>4. agent' = agent
  BY DEF Advance, CreateDeployment, Fetch, Inspect, OpenBackup, WriteBackup, StopOld,
         SetDeploymentBackups, InstallBinary, InstallConfig, InstallUnit, WriteUnit,
         EnableService, StartService, CheckHealth, UpdatePhase, RegisterUnit, ReportResult,
         StopNew, Restore, RestoreUnit, StartPrevious, around
<1>5. Idle \in Task /\ Idle.step = "idle" BY DEF Idle, Task, Step, File, Content
<1>6. CASE MovesOn(d)
  <2>1. PICK t \in Task : /\ task' = [task EXCEPT ![d] = t]
                          /\ t.step # "idle" /\ t.recovering = task[d].recovering
                          /\ exec' = exec
    BY <1>6 DEF MovesOn
  <2>2. /\ task' \in [Request -> Task] /\ task'[d] = t
        /\ \A e \in Request \ {d} : task'[e] = task[e]
    BY <2>1, PutTask
  <2>3. /\ exec' \in [Request -> {"NONE", "RUNNING", "SUCCESS", "FAILED"}]
        /\ \A e \in Request : At(e, "idle")' => task'[e] = Idle
        /\ Running' = Running
    BY <1>3, <2>1, <2>2 DEF TypeOK, At, Running
  <2>4. /\ agent' = "down" => Running' = {}
        /\ agent' = "up" => \A e \in Running' : exec'[e] = "RUNNING" /\ ~task'[e].recovering
    <3>1. \A e \in Request : task'[e].recovering = task[e].recovering BY <2>1, <2>2
    <3>. QED BY <1>4, <2>1, <2>3, <3>1 DEF TypeOK, Running
  <2>. QED BY <1>1, <1>2, <2>2, <2>3, <2>4 DEF TypeOK, RowsType
<1>7. CASE Ends(d)
  <2>1. task' = [task EXCEPT ![d] = Idle] BY <1>7 DEF Ends
  <2>2. /\ task' \in [Request -> Task] /\ task'[d] = Idle
        /\ \A e \in Request \ {d} : task'[e] = task[e]
    BY <2>1, <1>5, PutTask
  <2>3. /\ exec' \in [Request -> {"NONE", "RUNNING", "SUCCESS", "FAILED"}]
        /\ \A e \in Request \ {d} : exec'[e] = exec[e]
    BY <1>7 DEF TypeOK, Ends
  <2>4. /\ \A e \in Request : At(e, "idle")' => task'[e] = Idle
        /\ Running' = Running \ {d}
    BY <1>5, <2>2 DEF TypeOK, At, Running
  <2>5. /\ agent' = "down" => Running' = {}
        /\ agent' = "up" => \A e \in Running' : exec'[e] = "RUNNING" /\ ~task'[e].recovering
    BY <1>4, <2>2, <2>3, <2>4 DEF TypeOK, Running
  <2>. QED BY <1>1, <1>2, <2>2, <2>3, <2>4, <2>5 DEF TypeOK, RowsType
<1>. QED BY <1>3, <1>6, <1>7

LEMMA RecoveryTask ==
    ASSUME TypeOK, NEW d \in Request, RecoverDeployment(d)
    PROVE  \E t \in Task :
             /\ task' = [task EXCEPT ![d] = t]
             /\ t.step \in {"stopNew", "closing"} /\ t.recovering
             /\ t.kept = journal[d].saved
<1>. DEFINE t == [Idle EXCEPT !.step = IF moved THEN "closing" ELSE "stopNew",
                              !.kept = journal[d].saved, !.recovering = TRUE]
<1>1. journal[d].saved \in SUBSET File BY DEF TypeOK, Row
<1>2. /\ t \in Task /\ t.step \in {"stopNew", "closing"} /\ t.recovering
      /\ t.kept = journal[d].saved
  BY <1>1 DEF Idle, Task, Step, Rollback, File, Content
<1>3. task' = [task EXCEPT ![d] = t] BY DEF RecoverDeployment
<1>. QED BY <1>2, <1>3

LEMMA TypeStep ==
    ASSUME TypeOK, [Next]_vars
    PROVE  TypeOK'
<1>1. ASSUME NEW d \in Request, OnDeployRequest(d) PROVE TypeOK'
  <2>1. task[d] = Idle /\ d \notin Running
    BY <1>1 DEF OnDeployRequest, TypeOK, Running
  <2>2. /\ task' \in [Request -> Task]
        /\ task'[d] = [Idle EXCEPT !.step = "create"]
        /\ \A e \in Request \ {d} : task'[e] = task[e]
    <3>1. Goto(d, "create") /\ "create" \in Step BY <1>1 DEF OnDeployRequest, Step
    <3>. QED BY <2>1, <3>1, GotoTask
  <2>3. ~At(d, "idle")' /\ ~task'[d].recovering BY <2>2 DEF At, Idle
  <2>4. /\ exec' = [exec EXCEPT ![d] = "RUNNING"] /\ agent' = "up" /\ agent = "up"
        /\ faults' = faults /\ crashes' = crashes /\ edits' = edits /\ operations' = operations
        /\ host' = host /\ service' = service /\ backup' = backup /\ journal' = journal
        /\ registered' = registered /\ moved' = moved /\ before' = before
    BY <1>1 DEF OnDeployRequest, onHost, bounds
  <2>5. brings' \in [Request -> SUBSET File]
    <3>1. PICK files \in Changes : brings' = [brings EXCEPT ![d] = files \cup {"unit"}]
      BY <1>1 DEF OnDeployRequest
    <3>2. files \cup {"unit"} \in SUBSET File BY <3>1 DEF File
    <3>. QED BY <3>1, <3>2 DEF TypeOK
  <2>6. flaw' \in [Request -> SUBSET Flaw]
    BY <1>1 DEF OnDeployRequest, TypeOK, Flaw
  <2>7. Running' = Running \cup {d} BY <2>2, <2>3 DEF Running, At
  <2>8. \A e \in Request : At(e, "idle")' => task'[e] = Idle BY <2>2, <2>3 DEF TypeOK, At
  <2>9. \A e \in Running' : exec'[e] = "RUNNING" /\ ~task'[e].recovering
    BY <2>1, <2>2, <2>3, <2>4, <2>7 DEF TypeOK, Running
  <2>. QED BY <2>2, <2>4, <2>5, <2>6, <2>8, <2>9 DEF TypeOK
<1>2. ASSUME NEW d \in Request, RejectRequest(d) PROVE TypeOK'
  BY <1>2 DEF RejectRequest, TypeOK, onHost, around, bounds, history, Running, At
<1>3. ASSUME NEW d \in Request, Advance(d) PROVE TypeOK'
  BY <1>3, AdvanceType
<1>4. ASSUME NEW d \in Request, RecoverDeployment(d) PROVE TypeOK'
  <2>1. PICK t \in Task : /\ task' = [task EXCEPT ![d] = t]
                          /\ t.step \in {"stopNew", "closing"} /\ t.recovering
                          /\ t.kept = journal[d].saved
    BY <1>4, RecoveryTask
  <2>2. /\ task' \in [Request -> Task] /\ task'[d] = t
        /\ \A e \in Request \ {d} : task'[e] = task[e]
    BY <2>1, PutTask
  <2>3. flaw' \in [Request -> SUBSET Flaw]
    <3>1. Spoils(d, "moved") \/ UNCHANGED flaw BY <1>4 DEF RecoverDeployment
    <3>. QED BY <3>1, SpoilsType DEF TypeOK, Flaw
  <2>4. \A e \in Request : At(e, "idle")' => task'[e] = Idle BY <2>1, <2>2 DEF TypeOK, At
  <2>5. agent = "recovering" /\ agent' = agent BY <1>4 DEF RecoverDeployment, around
  <2>. QED BY <1>4, <2>2, <2>3, <2>4, <2>5
       DEF RecoverDeployment, TypeOK, onHost, around, bounds, history
<1>5. ASSUME NEW d \in Request, CloseRecovered(d) PROVE TypeOK'
  <2>1. Idle \in Task /\ Idle.step = "idle" BY DEF Idle, Task, Step, File, Content
  <2>2. /\ task' \in [Request -> Task] /\ task'[d] = Idle
        /\ \A e \in Request \ {d} : task'[e] = task[e]
    BY <1>5, <2>1, PutTask DEF CloseRecovered
  <2>3. journal' \in [Request -> Row]
    BY <1>5, SetPhaseType DEF CloseRecovered, Phase
  <2>4. /\ \A e \in Request : At(e, "idle")' => task'[e] = Idle
        /\ Running' = Running \ {d}
    BY <2>1, <2>2 DEF TypeOK, At, Running
  <2>5. agent' = agent /\ exec' = exec BY <1>5 DEF CloseRecovered, around
  <2>6. /\ agent' = "down" => Running' = {}
        /\ agent' = "up" => \A e \in Running' : exec'[e] = "RUNNING" /\ ~task'[e].recovering
    BY <2>2, <2>4, <2>5 DEF TypeOK, Running
  <2>. QED BY <1>5, <2>2, <2>3, <2>4, <2>6
       DEF CloseRecovered, TypeOK, onHost, around, bounds, history
<1>6. CASE AgentCrash
  <2>1. /\ task' = [e \in Request |-> Idle] /\ Idle \in Task /\ Idle.step = "idle"
    BY <1>6 DEF AgentCrash, Idle, Task, Step, File, Content
  <2>2. flaw' \in [Request -> SUBSET Flaw] BY <1>6 DEF AgentCrash, TypeOK, Flaw
  <2>3. Running' = {} BY <2>1 DEF Running, At
  <2>4. crashes' \in 0..MaxCrashes BY <1>6 DEF AgentCrash, TypeOK
  <2>. QED BY <1>6, <2>1, <2>2, <2>3, <2>4 DEF AgentCrash, TypeOK, onHost, history
<1>7. CASE AgentStart
  BY <1>7 DEF AgentStart, TypeOK, onHost, bounds, history, Running, At
<1>8. CASE EndRecovery
  BY <1>8 DEF EndRecovery, TypeOK, onHost, bounds, history, Running, At
<1>9. CASE SyncDefinition
  BY <1>9 DEF SyncDefinition, TypeOK, onHost, history, Running, At
<1>10. CASE Operate
  <2>1. service' \in Version \cup {NoFile}
    <3>1. Started \in Version \cup {NoFile} BY DEF Started, TypeOK
    <3>. QED BY <1>10, <3>1 DEF Operate
  <2>2. operations' \in 0..MaxOperations BY <1>10 DEF Operate, TypeOK
  <2>. QED BY <1>10, <2>1, <2>2 DEF Operate, TypeOK, history, Running, At
<1>11. CASE UNCHANGED vars
  BY <1>11 DEF vars, TypeOK, onHost, bounds, history, Running, At
<1>. QED BY <1>1, <1>2, <1>3, <1>4, <1>5, <1>6, <1>7, <1>8, <1>9, <1>10, <1>11 DEF Next

LEMMA InitType == Init => TypeOK
<1>. SUFFICES ASSUME Init PROVE TypeOK
  OBVIOUS
<1>1. host \in Files /\ service \in Version \cup {NoFile}
  <2>1. PICK h \in InitialHosts : host = h.host /\ service = h.service BY DEF Init
  <2>2. h.host \in [File -> {0, NoFile}] /\ h.service \in {0, NoFile} BY <2>1 DEF File
  <2>3. 0 \in Version BY DEF Version
  <2>. QED BY <2>1, <2>2, <2>3 DEF Files, Content
<1>2. [f \in File |-> NoFile] \in Files BY DEF Files, Content
<1>3. Idle \in Task /\ Idle.step = "idle" BY DEF Idle, Task, Step, File, Content
<1>4. NoRow \in Row BY DEF NoRow, Row, Phase
<1>5. task = [d \in Request |-> Idle] BY DEF Init
<1>6. Running = {} /\ \A d \in Request : At(d, "idle") => task[d] = Idle
  BY <1>3, <1>5 DEF Running, At
<1>7. /\ backup \in [Request -> Files] /\ journal \in [Request -> Row]
      /\ task \in [Request -> Task]
      /\ before \in [Request -> [host : Files, service : Version \cup {NoFile}]]
  <2>1. NoFile \in Version \cup {NoFile} OBVIOUS
  <2>. QED BY <1>2, <1>3, <1>4, <2>1 DEF Init
<1>8. /\ faults \in 0..MaxFaults /\ crashes \in 0..MaxCrashes
      /\ edits \in 0..MaxEdits /\ operations \in 0..MaxOperations
  <2>1. {MaxFaults, MaxCrashes, MaxEdits, MaxOperations} \subseteq Nat
    BY DEF ConstantsAssumption
  <2>. QED BY <2>1 DEF Init
<1>10. /\ exec \in [Request -> {"NONE", "RUNNING", "SUCCESS", "FAILED"}]
       /\ registered \in BOOLEAN /\ moved \in BOOLEAN /\ agent = "down"
  BY DEF Init
<1>9. brings \in [Request -> SUBSET File] /\ flaw \in [Request -> SUBSET Flaw] BY DEF Init
<1>. QED BY <1>1, <1>6, <1>7, <1>8, <1>9, <1>10 DEF TypeOK

(* Every variable of every deployment, and of the Agent that runs them,     *)
(* holds a value of its kind; a goroutine is at work only while its         *)
(* execution runs or the Agent recovers.                                    *)
THEOREM TypeCorrect == Spec => []TypeOK
<1>1. Init => TypeOK BY InitType
<1>2. TypeOK /\ [Next]_vars => TypeOK' BY TypeStep
<1>. QED BY <1>1, <1>2, PTL DEF Spec

-----------------------------------------------------------------------------
(* A step of a deployment leaves the rows and the goroutines of all others. *)
Local(d) ==
    /\ \A e \in Request \ {d} :
         /\ task'[e] = task[e] /\ exec'[e] = exec[e] /\ journal'[e] = journal[e]
         /\ backup'[e] = backup[e] /\ before'[e] = before[e] /\ flaw'[e] = flaw[e]
    /\ flaw[d] \subseteq flaw'[d]
    /\ agent' = agent

LEMMA AdvanceIsLocal ==
    ASSUME TypeOK, NEW d \in Request, Advance(d)
    PROVE  Local(d)
<1>1. \A e \in Request \ {d} : task'[e] = task[e] /\ exec'[e] = exec[e]
  <2>1. MovesOn(d) \/ Ends(d) BY AdvanceMoves
  <2>. QED BY <2>1 DEF MovesOn, Ends, TypeOK
<1>2. /\ \A e \in Request \ {d} : journal'[e] = journal[e] /\ backup'[e] = backup[e]
                                    /\ before'[e] = before[e] /\ flaw'[e] = flaw[e]
      /\ flaw[d] \subseteq flaw'[d] /\ agent' = agent
  <2>1. CASE CreateDeployment(d) BY <2>1 DEF CreateDeployment, TypeOK, around, history
  <2>2. CASE Fetch(d) BY <2>2 DEF Fetch, TypeOK, around, history
  <2>3. CASE Inspect(d) BY <2>3 DEF Inspect, TypeOK, around, history
  <2>4. CASE OpenBackup(d) BY <2>4 DEF OpenBackup, TypeOK, around, history, Spoils
  <2>5. CASE WriteBackup(d) BY <2>5 DEF WriteBackup, TypeOK, around, history, Spoils
  <2>6. CASE StopOld(d) BY <2>6 DEF StopOld, TypeOK, around, history
  <2>7. CASE SetDeploymentBackups(d) BY <2>7 DEF SetDeploymentBackups, TypeOK, around, history
  <2>8. CASE InstallBinary(d) BY <2>8 DEF InstallBinary, TypeOK, around, history
  <2>9. CASE InstallConfig(d) BY <2>9 DEF InstallConfig, TypeOK, around, history
  <2>10. CASE InstallUnit(d) BY <2>10 DEF InstallUnit, TypeOK, around, history
  <2>11. CASE WriteUnit(d) BY <2>11 DEF WriteUnit, TypeOK, around, history
  <2>12. CASE EnableService(d) BY <2>12 DEF EnableService, TypeOK, around, history
  <2>13. CASE StartService(d) BY <2>13 DEF StartService, TypeOK, around, history
  <2>14. CASE CheckHealth(d) BY <2>14 DEF CheckHealth, TypeOK, around, history
  <2>15. CASE UpdatePhase(d) BY <2>15 DEF UpdatePhase, TypeOK, around, history, SetPhase
  <2>16. CASE RegisterUnit(d) BY <2>16 DEF RegisterUnit, TypeOK, around, history
  <2>17. CASE ReportResult(d) BY <2>17 DEF ReportResult, TypeOK, around, history
  <2>18. CASE StopNew(d) BY <2>18 DEF StopNew, TypeOK, around, history
  <2>19. CASE Restore(d) BY <2>19 DEF Restore, TypeOK, around, history, Spoils
  <2>20. CASE RestoreUnit(d) BY <2>20 DEF RestoreUnit, TypeOK, around, history, Spoils
  <2>21. CASE StartPrevious(d) BY <2>21 DEF StartPrevious, TypeOK, around, history
  <2>. QED BY <2>1, <2>2, <2>3, <2>4, <2>5, <2>6, <2>7, <2>8, <2>9, <2>10, <2>11, <2>12,
         <2>13, <2>14, <2>15, <2>16, <2>17, <2>18, <2>19, <2>20, <2>21 DEF Advance
<1>. QED BY <1>1, <1>2 DEF Local

LEMMA GotoFields ==
    ASSUME TypeOK, NEW d \in Request, NEW s \in Step, Goto(d, s)
    PROVE  /\ task'[d].step = s /\ task'[d].kept = task[d].kept
           /\ task'[d].file = task[d].file /\ task'[d].data = task[d].data
           /\ task'[d].recovering = task[d].recovering
<1>1. task[d] \in Task BY DEF TypeOK
<1>2. task'[d] = [task[d] EXCEPT !.step = s] BY GotoTask
<1>. QED BY <1>1, <1>2 DEF Task

LEMMA NextBackupFields ==
    ASSUME TypeOK, NEW d \in Request
    PROVE  /\ NextBackup(d).step = IF task[d].file = "unit" THEN "stop" ELSE "open"
           /\ NextBackup(d).file = NextFile(task[d].file)
           /\ NextBackup(d).kept = task[d].kept
           /\ NextBackup(d).recovering = task[d].recovering
<1>1. task[d] \in Task BY DEF TypeOK
<1>. QED BY <1>1 DEF NextBackup, Task

LEMMA NextRestoreFields ==
    ASSUME TypeOK, NEW d \in Request, NEW r \in BOOLEAN
    PROVE  /\ NextRestore(d, r).step \in {"restore", "startPrevious"}
           /\ NextRestore(d, r).kept = task[d].kept
           /\ NextRestore(d, r).recovering = task[d].recovering
<1>1. task[d] \in Task BY DEF TypeOK
<1>. QED BY <1>1 DEF NextRestore, Task

LEMMA WriteFields ==
    ASSUME TypeOK, NEW d \in Request,
           task' = [task EXCEPT ![d].step = "write", ![d].data = host[task[d].file],
                                ![d].kept = @ \cup {task[d].file}]
    PROVE  /\ task'[d].step = "write" /\ task'[d].file = task[d].file
           /\ task'[d].data = host[task[d].file]
           /\ task'[d].kept = task[d].kept \cup {task[d].file}
           /\ task'[d].recovering = task[d].recovering
<1>1. task \in [Request -> Task] /\ task[d] \in Task BY DEF TypeOK
<1>. QED BY <1>1 DEF Task

LEMMA EndRollbackFields ==
    ASSUME TypeOK, NEW d \in Request, EndRollback(d)
    PROVE  /\ task'[d].step \in {"closing", "report"}
           /\ task'[d].recovering = task[d].recovering /\ task'[d].kept = task[d].kept
           /\ task'[d].step = "closing" => task[d].recovering
           /\ task'[d].step = "report" => ~task[d].recovering
<1>1. {"closing", "report"} \subseteq Step BY DEF Step
<1>. QED BY <1>1, GotoFields DEF EndRollback

(* Every step of a deployment leaves it where its rows say it is. *)
LEMMA AdvanceControl ==
    ASSUME TypeOK, NEW d \in Request, ControlOf(d), Advance(d)
    PROVE  ControlOf(d)'
<1>0. /\ ~At(d, "idle") /\ exec[d] # "NONE" /\ exec'[d] # "NONE" /\ agent' = agent
  <2>1. ~At(d, "idle") /\ (MovesOn(d) \/ Ends(d)) BY AdvanceMoves
  <2>2. agent' = agent BY AdvanceIsLocal DEF Local
  <2>3. exec[d] # "NONE" BY <2>1 DEF ControlOf
  <2>4. exec'[d] # "NONE" BY <2>1, <2>3 DEF MovesOn, Ends, TypeOK
  <2>. QED BY <2>1, <2>2, <2>3, <2>4
<1>type. task[d] \in Task /\ journal \in [Request -> Row] BY DEF TypeOK
<1>1. CASE CreateDeployment(d)
  <2>1. At(d, "create") /\ Goto(d, "fetch") /\ journal'[d].phase = "PREPARING"
    BY <1>type, <1>1 DEF CreateDeployment
  <2>2. "fetch" \in Step BY DEF Step
  <2>3. task'[d].step = "fetch" /\ task'[d].recovering = task[d].recovering
    BY <2>1, <2>2, GotoFields
  <2>. QED BY <1>0, <2>1, <2>3 DEF ControlOf, At, Rollback, Unfinished, Phase
<1>2. CASE Fetch(d)
  <2>1. At(d, "fetch") /\ \E s \in {"inspect", "abort"} : Goto(d, s)
    BY <1>2 DEF Fetch
  <2>2. journal' = journal /\ backup' = backup BY <1>2 DEF Fetch
  <2>3. {"inspect", "abort"} \subseteq Step BY DEF Step
  <2>4. task'[d].step \in {"inspect", "abort"} /\ task'[d].recovering = task[d].recovering
    BY <2>1, <2>3, GotoFields
  <2>. QED BY <1>0, <2>1, <2>2, <2>4 DEF ControlOf, At, Rollback
<1>3. CASE Inspect(d)
  <2>1. At(d, "inspect") /\ journal[d].phase \in Unfinished
    BY <1>3 DEF Inspect, ControlOf, At, Rollback
  <2>2. journal'[d].phase \in Unfinished /\ journal'[d].phase # "NONE"
    BY <1>type, <1>3, <2>1 DEF Inspect, Unfinished, Phase
  <2>3. task'[d].step \in {"open", "binary"} /\ task'[d].recovering = task[d].recovering
    <3>1. CASE host["binary"] = NoFile
      <4>1. Goto(d, "binary") /\ "binary" \in Step BY <1>3, <3>1 DEF Inspect, Step
      <4>. QED BY <4>1, GotoFields
    <3>2. CASE host["binary"] # NoFile
      BY <1>type, <1>3, <3>2 DEF Inspect, TypeOK, Task
    <3>. QED BY <3>1, <3>2
  <2>. QED BY <1>0, <2>1, <2>2, <2>3 DEF ControlOf, At, Rollback
<1>4. CASE OpenBackup(d)
  <2>1. At(d, "open") /\ journal' = journal BY <1>4 DEF OpenBackup
  <2>3. journal[d].phase # "NONE" BY <2>1 DEF ControlOf, At
  <2>2. task'[d].step \in {"open", "write", "stop"} /\ task'[d].recovering = task[d].recovering
    <3>1. CASE task' = [task EXCEPT ![d] = NextBackup(d)]
      BY <3>1, NextBackupType, NextBackupFields, PutTask
    <3>2. CASE task' = [task EXCEPT ![d].step = "write", ![d].data = host[task[d].file],
                                    ![d].kept = @ \cup {task[d].file}]
      BY <3>2, WriteFields
    <3>. QED BY <1>4, <3>1, <3>2 DEF OpenBackup
  <2>4. ~task'[d].recovering BY <2>1, <2>2 DEF ControlOf, At, Rollback
  <2>5. journal'[d].phase \in Unfinished /\ journal'[d].phase # "NONE"
    BY <2>1, <2>3 DEF ControlOf, At, Rollback
  <2>. QED BY <1>0, <2>2, <2>4, <2>5 DEF ControlOf, At, Rollback
<1>5. CASE WriteBackup(d)
  <2>1. At(d, "write") /\ journal' = journal BY <1>5 DEF WriteBackup
  <2>2. task'[d].step \in {"open", "stop"} /\ task'[d].recovering = task[d].recovering
    BY <1>type, <1>5 DEF WriteBackup, NextBackup, TypeOK, Task
  <2>. QED BY <1>0, <2>1, <2>2 DEF ControlOf, At, Rollback
<1>6. CASE StopOld(d)
  <2>1. At(d, "stop") /\ \E s \in {"binary", "record"} : Goto(d, s)
    BY <1>6 DEF StopOld
  <2>2. journal' = journal /\ backup' = backup BY <1>6 DEF StopOld
  <2>3. {"binary", "record"} \subseteq Step BY DEF Step
  <2>4. task'[d].step \in {"binary", "record"} /\ task'[d].recovering = task[d].recovering
    BY <2>1, <2>3, GotoFields
  <2>. QED BY <1>0, <2>1, <2>2, <2>4 DEF ControlOf, At, Rollback
<1>7. CASE SetDeploymentBackups(d)
  <2>1. At(d, "record") /\ Goto(d, "binary") /\ journal'[d].phase = journal[d].phase
    BY <1>type, <1>7 DEF SetDeploymentBackups, Row
  <2>2. "binary" \in Step BY DEF Step
  <2>3. task'[d].step = "binary" /\ task'[d].recovering = task[d].recovering
    BY <2>1, <2>2, GotoFields
  <2>. QED BY <1>0, <2>1, <2>3 DEF ControlOf, At, Rollback
<1>8. CASE InstallBinary(d)
  <2>1. At(d, "binary") /\ \E s \in {"config", "replaced", "abort", "undo"} : Goto(d, s)
    BY <1>8 DEF InstallBinary
  <2>2. journal' = journal /\ backup' = backup BY <1>8 DEF InstallBinary
  <2>3. {"config", "replaced", "abort", "undo"} \subseteq Step BY DEF Step
  <2>4. task'[d].step \in {"config", "replaced", "abort", "undo"} /\ task'[d].recovering = task[d].recovering
    BY <2>1, <2>3, GotoFields
  <2>. QED BY <1>0, <2>1, <2>2, <2>4 DEF ControlOf, At, Rollback
<1>9. CASE InstallConfig(d)
  <2>1. At(d, "config") /\ \E s \in {"unit", "undo"} : Goto(d, s)
    BY <1>9 DEF InstallConfig
  <2>2. journal' = journal /\ backup' = backup BY <1>9 DEF InstallConfig
  <2>3. {"unit", "undo"} \subseteq Step BY DEF Step
  <2>4. task'[d].step \in {"unit", "undo"} /\ task'[d].recovering = task[d].recovering
    BY <2>1, <2>3, GotoFields
  <2>. QED BY <1>0, <2>1, <2>2, <2>4 DEF ControlOf, At, Rollback
<1>10. CASE InstallUnit(d)
  <2>1. At(d, "unit") /\ \E s \in {"unitBody", "undo"} : Goto(d, s)
    BY <1>10 DEF InstallUnit
  <2>2. journal' = journal /\ backup' = backup BY <1>10 DEF InstallUnit
  <2>3. {"unitBody", "undo"} \subseteq Step BY DEF Step
  <2>4. task'[d].step \in {"unitBody", "undo"} /\ task'[d].recovering = task[d].recovering
    BY <2>1, <2>3, GotoFields
  <2>. QED BY <1>0, <2>1, <2>2, <2>4 DEF ControlOf, At, Rollback
<1>11. CASE WriteUnit(d)
  <2>1. At(d, "unitBody") /\ \E s \in {"enable", "undo"} : Goto(d, s)
    BY <1>11 DEF WriteUnit
  <2>2. journal' = journal /\ backup' = backup BY <1>11 DEF WriteUnit
  <2>3. {"enable", "undo"} \subseteq Step BY DEF Step
  <2>4. task'[d].step \in {"enable", "undo"} /\ task'[d].recovering = task[d].recovering
    BY <2>1, <2>3, GotoFields
  <2>. QED BY <1>0, <2>1, <2>2, <2>4 DEF ControlOf, At, Rollback
<1>12. CASE EnableService(d)
  <2>1. At(d, "enable") /\ \E s \in {"started", "undo"} : Goto(d, s)
    BY <1>12 DEF EnableService
  <2>2. journal' = journal /\ backup' = backup BY <1>12 DEF EnableService
  <2>3. {"started", "undo"} \subseteq Step BY DEF Step
  <2>4. task'[d].step \in {"started", "undo"} /\ task'[d].recovering = task[d].recovering
    BY <2>1, <2>3, GotoFields
  <2>. QED BY <1>0, <2>1, <2>2, <2>4 DEF ControlOf, At, Rollback
<1>13. CASE StartService(d)
  <2>1. At(d, "start") /\ \E s \in {"verifying", "undo"} : Goto(d, s)
    BY <1>13 DEF StartService
  <2>2. journal' = journal /\ backup' = backup BY <1>13 DEF StartService
  <2>3. {"verifying", "undo"} \subseteq Step BY DEF Step
  <2>4. task'[d].step \in {"verifying", "undo"} /\ task'[d].recovering = task[d].recovering
    BY <2>1, <2>3, GotoFields
  <2>. QED BY <1>0, <2>1, <2>2, <2>4 DEF ControlOf, At, Rollback
<1>14. CASE CheckHealth(d)
  <2>1. At(d, "check") /\ \E s \in {"done", "undo"} : Goto(d, s)
    BY <1>14 DEF CheckHealth
  <2>2. journal' = journal /\ backup' = backup BY <1>14 DEF CheckHealth
  <2>3. {"done", "undo"} \subseteq Step BY DEF Step
  <2>4. task'[d].step \in {"done", "undo"} /\ task'[d].recovering = task[d].recovering
    BY <2>1, <2>3, GotoFields
  <2>. QED BY <1>0, <2>1, <2>2, <2>4 DEF ControlOf, At, Rollback
<1>15. CASE UpdatePhase(d)
  <2>1. PICK move \in {<<"replaced", "REPLACED", "config">>, <<"started", "STARTED", "start">>,
                     <<"verifying", "VERIFYING", "check">>, <<"done", "DONE", "register">>,
                     <<"undo", "ROLLING_BACK", "stopNew">>, <<"abort", "ROLLING_BACK", "report">>} :
               At(d, move[1]) /\ SetPhase(d, move[2]) /\ Goto(d, move[3])
    BY <1>15 DEF UpdatePhase
  <2>2. move[3] \in Step BY <2>1 DEF Step, Rollback
  <2>3. task'[d].step = move[3] /\ task'[d].recovering = task[d].recovering
    BY <2>1, <2>2, GotoFields
  <2>4. journal'[d].phase = move[2] BY <1>type, <2>1 DEF SetPhase, Row
  <2>. QED BY <1>0, <2>1, <2>3, <2>4 DEF ControlOf, At, Rollback, Unfinished, Phase
<1>16. CASE RegisterUnit(d)
  <2>1. At(d, "register") /\ \E s \in {"report"} : Goto(d, s)
    BY <1>16 DEF RegisterUnit
  <2>2. journal' = journal /\ backup' = backup BY <1>16 DEF RegisterUnit
  <2>3. {"report"} \subseteq Step BY DEF Step
  <2>4. task'[d].step \in {"report"} /\ task'[d].recovering = task[d].recovering
    BY <2>1, <2>3, GotoFields
  <2>. QED BY <1>0, <2>1, <2>2, <2>4 DEF ControlOf, At, Rollback
<1>17. CASE ReportResult(d)
  <2>1. At(d, "report") /\ journal' = journal /\ backup' = backup BY <1>17 DEF ReportResult
  <2>2. task'[d].step = "idle" /\ ~task'[d].recovering BY <1>17 DEF ReportResult, TypeOK, Idle
  <2>. QED BY <1>0, <2>1, <2>2 DEF ControlOf, At, Rollback
<1>18. CASE StopNew(d)
  <2>1. At(d, "stopNew") /\ journal' = journal /\ backup' = backup BY <1>18 DEF StopNew
  <2>2. /\ task'[d].step \in {"restore", "closing", "report"}
        /\ task'[d].recovering = task[d].recovering
        /\ task'[d].step = "closing" => task[d].recovering
        /\ task'[d].step = "report" => ~task[d].recovering
    <3>1. CASE "binary" \in task[d].kept
      BY <1>type, <1>18, <3>1 DEF StopNew, TypeOK, Task
    <3>2. CASE "binary" \notin task[d].kept
      <4>1. EndRollback(d) BY <1>18, <3>2 DEF StopNew
      <4>. QED BY <4>1, EndRollbackFields
    <3>. QED BY <3>1, <3>2
  <2>. QED BY <1>0, <2>1, <2>2 DEF ControlOf, At, Rollback
<1>19. CASE Restore(d)
  <2>1. At(d, "restore") /\ journal' = journal /\ backup' = backup BY <1>19 DEF Restore
  <2>2. /\ task'[d].step \in {"restore", "restoreUnit", "startPrevious"}
        /\ task'[d].recovering = task[d].recovering
        /\ task'[d].step = "restoreUnit" => "unit" \in task'[d].kept
        /\ journal[d].phase # "NONE"
    <3>1. journal[d].phase # "NONE" BY <2>1 DEF ControlOf, At
    <3>2. ASSUME NEW r \in BOOLEAN, task' = [task EXCEPT ![d] = NextRestore(d, r)]
          PROVE  /\ task'[d].step \in {"restore", "startPrevious"}
                 /\ task'[d].recovering = task[d].recovering
      BY <3>2, NextRestoreType, NextRestoreFields, PutTask
    <3>3. ASSUME Goto(d, "restoreUnit"), "unit" \in task[d].kept
          PROVE  task'[d].step = "restoreUnit" /\ "unit" \in task'[d].kept
                 /\ task'[d].recovering = task[d].recovering
      <4>1. "restoreUnit" \in Step BY DEF Step, Rollback
      <4>. QED BY <3>3, <4>1, GotoFields
    <3>4. \/ \E r \in BOOLEAN : task' = [task EXCEPT ![d] = NextRestore(d, r)]
          \/ Goto(d, "restoreUnit") /\ "unit" \in task[d].kept
      BY <1>type, <1>19 DEF Restore, Task
    <3>. QED BY <3>1, <3>2, <3>3, <3>4
  <2>3. ~task'[d].recovering => journal'[d].phase \notin Unfinished
    BY <2>1, <2>2 DEF ControlOf, At, Rollback
  <2>4. agent = "up" => journal'[d].phase \notin Unfinished \/ ~At(d, "idle")'
    BY <2>2 DEF At
  <2>5. journal'[d].phase # "NONE" BY <2>1, <2>2
  <2>. QED BY <1>0, <2>2, <2>3, <2>4, <2>5 DEF ControlOf, At, Rollback
<1>20. CASE RestoreUnit(d)
  <2>1. At(d, "restoreUnit") /\ journal' = journal /\ backup' = backup BY <1>20 DEF RestoreUnit
  <2>2. /\ task'[d].step \in {"restore", "startPrevious"}
        /\ task'[d].recovering = task[d].recovering
    BY <1>type, <1>20 DEF RestoreUnit, NextRestore, TypeOK, Task
  <2>. QED BY <1>0, <2>1, <2>2 DEF ControlOf, At, Rollback
<1>21. CASE StartPrevious(d)
  <2>1. At(d, "startPrevious") /\ journal' = journal /\ backup' = backup BY <1>21 DEF
         StartPrevious
  <2>2. /\ task'[d].step \in {"closing", "report"}
        /\ task'[d].recovering = task[d].recovering
        /\ task'[d].step = "closing" => task[d].recovering
        /\ task'[d].step = "report" => ~task[d].recovering
    BY <1>21, EndRollbackFields DEF StartPrevious
  <2>. QED BY <1>0, <2>1, <2>2 DEF ControlOf, At, Rollback
<1>. QED BY <1>1, <1>2, <1>3, <1>4, <1>5, <1>6, <1>7, <1>8, <1>9, <1>10, <1>11, <1>12,
            <1>13, <1>14, <1>15, <1>16, <1>17, <1>18, <1>19, <1>20, <1>21 DEF Advance

LEMMA NextStepSaving ==
    ASSUME TypeOK, NEW d \in Request, task' = [task EXCEPT ![d] = NextBackup(d)],
           ~task[d].recovering, SavedSoFar(d)'
    PROVE  Undoable(d)'
<1>1. task'[d].step \in {"open", "stop"} /\ ~task'[d].recovering
  BY NextBackupType, NextBackupFields, PutTask
<1>. QED BY <1>1 DEF Undoable, Early, Saving, Changing

(* Once the copy of a file is there, or none is needed, comes the next file. *)
LEMMA NextFileSaved ==
    ASSUME TypeOK, NEW d \in Request, task' = [task EXCEPT ![d] = NextBackup(d)],
           SavedSoFar(d), Untouched(d)', journal' = journal, before' = before,
           task[d].step \in {"open", "write"},
           \A g \in Passed(task[d]) \cup {task[d].file} :
             before[d].host[g] # NoFile => g \in task[d].kept /\ backup'[d][g] = before[d].host[g]
    PROVE  SavedSoFar(d)'
<1>. DEFINE f == task[d].file
<1>1. /\ task'[d].step = IF f = "unit" THEN "stop" ELSE "open"
      /\ task'[d].file = NextFile(f) /\ task'[d].kept = task[d].kept
  BY NextBackupType, NextBackupFields, PutTask
<1>2. f \in File BY DEF TypeOK, Task
<1>3. Passed(task'[d]) = Passed(task[d]) \cup {f}
  BY <1>1, <1>2 DEF Passed, NextFile, File
<1>4. ~(task'[d].step = "open" /\ task'[d].file = "binary")
  BY <1>1, <1>2 DEF NextFile, File
<1>5. task'[d].step # "write" BY <1>1
<1>. QED BY <1>1, <1>3, <1>4, <1>5 DEF SavedSoFar, Kept, At

LEMMA SecuredStays ==
    ASSUME NEW d \in Request, Secured(d), before'[d] = before[d], backup'[d] = backup[d],
           journal[d].saved \subseteq journal'[d].saved
    PROVE  Secured(d)'
BY DEF Secured

(* A step among those that change files, which need nothing but Secured.    *)
LEMMA ChangingStep ==
    ASSUME NEW d \in Request, Undoable(d), task[d].step \in Changing, ~task[d].recovering,
           task'[d].step \in Changing \cup {"abort"}, ~task'[d].recovering,
           task'[d].kept = task[d].kept,
           before'[d] = before[d], backup'[d] = backup[d],
           journal[d].saved \subseteq journal'[d].saved
    PROVE  Undoable(d)'
<1>1. Secured(d) /\ "binary" \in task[d].kept BY DEF Undoable
<1>2. Secured(d)' BY <1>1, SecuredStays
<1>3. task'[d].step \notin Early \cup Saving BY DEF Changing, Early, Saving
<1>. QED BY <1>1, <1>2, <1>3 DEF Undoable, Recoverable, Changing

(* A step of a recovery that changes no file that it has no backup of.      *)
LEMMA RecoveryStep ==
    ASSUME NEW d \in Request, Undoable(d), task[d].recovering,
           task'[d].step \in Rollback \cup {"closing"}, task'[d].recovering,
           task'[d].kept = task[d].kept,
           before'[d] = before[d], backup'[d] = backup[d], journal'[d] = journal[d],
           Untouched(d) /\ ~Secured(d) => host' = host
    PROVE  Undoable(d)'
<1>1. Recoverable(d) /\ task[d].kept = journal[d].saved BY DEF Undoable
<1>2. Recoverable(d)'
  <2>1. CASE Secured(d) BY <2>1, SecuredStays DEF Recoverable
  <2>2. CASE ~Secured(d) BY <1>1, <2>2 DEF Recoverable, Untouched
  <2>. QED BY <2>1, <2>2
<1>3. task'[d].step \notin Early \cup Saving \cup Changing \cup {"idle", "abort"}
  BY DEF Changing, Early, Saving, Rollback
<1>. QED BY <1>1, <1>2, <1>3 DEF Undoable

-----------------------------------------------------------------------------
(* Every step of a deployment leaves an unfinished upgrade undoable. *)
LEMMA AdvanceJournal ==
    ASSUME TypeOK, NEW d \in Request, ControlOf(d), JournalOf(d), Advance(d)
    PROVE  JournalOf(d)'
<1>. SUFFICES ASSUME journal'[d].phase \in Unfinished, Upgrade(d)', Clean(d)'
              PROVE  Undoable(d)'
  BY DEF JournalOf
<1>type. /\ task[d] \in Task /\ journal \in [Request -> Row] /\ backup \in [Request -> Files]
       /\ backup[d] \in Files /\ host \in Files /\ before[d].host \in Files
       /\ before \in [Request -> [host : Files, service : Version \cup {NoFile}]]
  BY DEF TypeOK, Files
<1>clean. flaw[d] \subseteq flaw'[d] /\ Clean(d) BY AdvanceIsLocal DEF Local, Clean
<1>upgrade. ASSUME before'[d] = before[d] PROVE Upgrade(d) BY <1>upgrade DEF Upgrade
<1>undoable. ASSUME journal[d].phase \in Unfinished, Upgrade(d) PROVE Undoable(d)
  BY <1>clean, <1>undoable DEF JournalOf
<1>1. CASE CreateDeployment(d)
  <2>1. At(d, "create") /\ Goto(d, "fetch") /\ "fetch" \in Step BY <1>1 DEF CreateDeployment,
         Step
  <2>2. /\ journal'[d] = [phase |-> "PREPARING", saved |-> {}]
        /\ before'[d] = [host |-> host, service |-> service]
        /\ host' = host /\ backup' = backup
    BY <1>type, <1>1 DEF CreateDeployment, onHost
  <2>3. task[d].kept = {} /\ backup[d]["binary"] = NoFile /\ ~task[d].recovering
    BY <2>1 DEF ControlOf, At, Rollback
  <2>4. task'[d].step = "fetch" /\ task'[d].kept = {} /\ ~task'[d].recovering
    BY <2>1, <2>3, GotoFields
  <2>. QED BY <2>2, <2>3, <2>4
       DEF Undoable, Early, Saving, Changing, Untouched
<1>2. CASE Fetch(d)
  <2>1. At(d, "fetch") /\ (Goto(d, "inspect") \/ Goto(d, "abort"))
        /\ {"inspect", "abort"} \subseteq Step
    BY <1>2 DEF Fetch, Step
  <2>2. host' = host /\ backup' = backup /\ journal' = journal /\ before' = before
    BY <1>2 DEF Fetch, onHost, around, history
  <2>3. Undoable(d) BY <1>upgrade, <1>undoable, <2>2
  <2>4. /\ Untouched(d) /\ journal[d].saved = {} /\ task[d].kept = {}
        /\ backup[d]["binary"] = NoFile /\ ~task[d].recovering
    BY <2>1, <2>3 DEF Undoable, Early, ControlOf, At, Rollback
  <2>5. task'[d].step \in {"inspect", "abort"} /\ task'[d].kept = {} /\ ~task'[d].recovering
    BY <2>1, <2>4, GotoFields
  <2>6. Untouched(d)' BY <2>2, <2>4 DEF Untouched
  <2>. QED BY <2>2, <2>4, <2>5, <2>6
       DEF Undoable, Recoverable, Early, Saving, Changing
<1>3. CASE Inspect(d)
  <2>1. At(d, "inspect") /\ host' = host /\ backup' = backup /\ before' = before
    BY <1>3 DEF Inspect, onHost, around, history
  <2>2. Undoable(d) /\ Upgrade(d) /\ ~task[d].recovering
    BY <1>upgrade, <1>undoable, <2>1 DEF ControlOf, At, Rollback
  <2>3. /\ Untouched(d) /\ journal[d].saved = {} /\ task[d].kept = {}
        /\ backup[d]["binary"] = NoFile
    BY <2>1, <2>2 DEF Undoable, Early, At
  <2>4. host["binary"] # NoFile BY <2>2, <2>3 DEF Upgrade, Untouched
  <2>5. /\ task'[d].step = "open" /\ task'[d].file = "binary" /\ task'[d].kept = {"binary"}
        /\ ~task'[d].recovering
    <3>1. task \in [Request -> Task] BY DEF TypeOK
    <3>2. task' = [task EXCEPT ![d].step = "open", ![d].file = "binary", ![d].kept = {"binary"}]
      BY <1>3, <2>4 DEF Inspect
    <3>. QED BY <1>type, <2>2, <3>1, <3>2 DEF Task
  <2>6. journal'[d].saved = {"binary"} BY <1>type, <1>3, <2>3, <2>4 DEF Inspect
  <2>7. SavedSoFar(d)' BY <2>1, <2>3, <2>5, <2>6 DEF SavedSoFar, Untouched, Passed, At
  <2>. QED BY <2>5, <2>7 DEF Undoable, Early, Saving, Changing
<1>4. CASE OpenBackup(d)
  <2>. DEFINE f == task[d].file
  <2>1. At(d, "open") /\ host' = host /\ before' = before /\ journal' = journal
    BY <1>4 DEF OpenBackup, onHost, around, history
  <2>2. Undoable(d) /\ ~task[d].recovering
    BY <1>upgrade, <1>undoable, <2>1 DEF ControlOf, At, Rollback
  <2>3. SavedSoFar(d) /\ f \in File BY <1>type, <2>1, <2>2 DEF Undoable, Saving, At, Task
  <2>4. Untouched(d)' BY <2>1, <2>3 DEF SavedSoFar, Untouched
  <2>5. CASE /\ task' = [task EXCEPT ![d].step = "write", ![d].data = host[f], ![d].kept = @ \cup {f}]
             /\ backup' = [backup EXCEPT ![d][f] = Torn]
    <3>1. /\ task'[d].step = "write" /\ task'[d].file = f /\ task'[d].data = host[f]
          /\ task'[d].kept = task[d].kept \cup {f} /\ ~task'[d].recovering
      BY <2>2, <2>5, WriteFields
    <3>2. \A g \in File \ {f} : backup'[d][g] = backup[d][g]
      BY <1>type, <2>3, <2>5 DEF Files
    <3>3. Passed(task'[d]) = Passed(task[d]) /\ Passed(task[d]) \subseteq File \ {f}
      BY <2>1, <2>3, <3>1 DEF Passed, At, File
    <3>4. SavedSoFar(d)'
      BY <2>1, <2>3, <2>4, <3>1, <3>2, <3>3 DEF SavedSoFar, Untouched, Kept, At
    <3>. QED BY <3>1, <3>4 DEF Undoable, Early, Saving, Changing
  <2>6. CASE host[f] = NoFile /\ task' = [task EXCEPT ![d] = NextBackup(d)] /\ backup' = backup
    <3>1. before[d].host[f] # NoFile => Kept(d, f) BY <2>3, <2>6 DEF SavedSoFar, Untouched
    <3>3. \A g \in Passed(task[d]) \cup {f} :
            before[d].host[g] # NoFile => g \in task[d].kept /\ backup'[d][g] = before[d].host[g]
      <4>1. Passed(task[d]) \subseteq File BY DEF Passed, File
      <4>. QED BY <2>3, <2>6, <3>1, <4>1 DEF SavedSoFar, Kept
    <3>2. SavedSoFar(d)'
      BY <2>1, <2>3, <2>4, <2>6, <3>3, NextFileSaved DEF At
    <3>. QED BY <2>2, <2>6, <3>2, NextStepSaving
  <2>7. CASE Spoils(d, "backup") BY <1>type, <2>7 DEF Spoils, Clean, TypeOK
  <2>. QED BY <1>4, <2>5, <2>6, <2>7 DEF OpenBackup
<1>5. CASE WriteBackup(d)
  <2>. DEFINE f == task[d].file
  <2>1. At(d, "write") /\ host' = host /\ before' = before /\ journal' = journal
    BY <1>5 DEF WriteBackup, onHost, around, history
  <2>2. Undoable(d) /\ ~task[d].recovering
    BY <1>upgrade, <1>undoable, <2>1 DEF ControlOf, At, Rollback
  <2>3. SavedSoFar(d) /\ f \in File BY <1>type, <2>1, <2>2 DEF Undoable, Saving, At, Task
  <2>4. Untouched(d)' BY <2>1, <2>3 DEF SavedSoFar, Untouched
  <2>5. task' = [task EXCEPT ![d] = NextBackup(d)] BY <1>5 DEF WriteBackup
  <2>6. CASE backup' = [backup EXCEPT ![d][f] = task[d].data]
    <3>1. \A g \in File \ {f} : backup'[d][g] = backup[d][g]
      BY <1>type, <2>3, <2>6 DEF Files
    <3>2. backup'[d][f] = before[d].host[f] /\ f \in task[d].kept
      BY <1>type, <2>1, <2>3, <2>6 DEF SavedSoFar, Files
    <3>3. \A g \in Passed(task[d]) : before[d].host[g] # NoFile => g \in task[d].kept
                                        /\ backup'[d][g] = before[d].host[g]
      <4>1. Passed(task[d]) \subseteq File \ {f} BY <2>1, <2>3 DEF Passed, At, File
      <4>. QED BY <2>3, <3>1, <4>1 DEF SavedSoFar, Kept
    <3>4. SavedSoFar(d)'
      BY <2>1, <2>3, <2>4, <2>5, <3>2, <3>3, NextFileSaved DEF At
    <3>. QED BY <2>2, <2>5, <3>4, NextStepSaving
  <2>7. CASE Spoils(d, "backup") BY <1>type, <2>7 DEF Spoils, Clean, TypeOK
  <2>. QED BY <1>5, <2>6, <2>7 DEF WriteBackup
<1>6. CASE StopOld(d)
  <2>1. /\ At(d, "stop") /\ host' = host /\ before' = before /\ journal' = journal
        /\ backup' = backup
        /\ Goto(d, IF task[d].kept \subseteq {"binary"} THEN "binary" ELSE "record")
        /\ {"binary", "record"} \subseteq Step
    BY <1>6 DEF StopOld, around, history, Step
  <2>2. Undoable(d) /\ ~task[d].recovering
    BY <1>upgrade, <1>undoable, <2>1 DEF ControlOf, At, Rollback
  <2>3. SavedSoFar(d) BY <2>1, <2>2 DEF Undoable, Saving, At
  <2>4. \A f \in File : before[d].host[f] # NoFile => Kept(d, f)
    BY <2>1, <2>3 DEF SavedSoFar, Passed, At
  <2>5. CASE task[d].kept \subseteq {"binary"}
    <3>1. task'[d].step = "binary" /\ task'[d].kept = task[d].kept /\ ~task'[d].recovering
      BY <2>1, <2>2, <2>5, GotoFields
    <3>2. Secured(d)' BY <2>1, <2>3, <2>4, <2>5 DEF Secured, Kept, SavedSoFar
    <3>3. "binary" \in task'[d].kept BY <2>3, <3>1 DEF SavedSoFar
    <3>. QED BY <3>1, <3>2, <3>3 DEF Undoable, Early, Saving
  <2>6. CASE ~(task[d].kept \subseteq {"binary"})
    <3>1. /\ task'[d].step = "record" /\ task'[d].kept = task[d].kept /\ ~task'[d].recovering
      BY <2>1, <2>2, <2>6, GotoFields
    <3>2. SavedSoFar(d)'
      BY <2>1, <2>3, <2>4, <3>1 DEF SavedSoFar, Untouched, Kept, Passed, At
    <3>. QED BY <3>1, <3>2 DEF Undoable, Early, Saving, Changing
  <2>. QED BY <2>5, <2>6
<1>7. CASE SetDeploymentBackups(d)
  <2>1. /\ At(d, "record") /\ before' = before /\ backup' = backup
        /\ Goto(d, "binary") /\ "binary" \in Step
    BY <1>7 DEF SetDeploymentBackups, around, history, Step
  <2>2. journal'[d].saved = task[d].kept BY <1>type, <1>7 DEF SetDeploymentBackups, Row
  <2>3. Undoable(d) /\ ~task[d].recovering
    BY <1>upgrade, <1>undoable, <2>1 DEF ControlOf, At, Rollback
  <2>4. SavedSoFar(d) BY <2>1, <2>3 DEF Undoable, Saving, At
  <2>5. \A f \in File : before[d].host[f] # NoFile => Kept(d, f)
    BY <2>1, <2>4 DEF SavedSoFar, Passed, At
  <2>6. Secured(d)' BY <2>1, <2>2, <2>5 DEF Secured, Kept
  <2>7. task'[d].step = "binary" /\ task'[d].kept = task[d].kept /\ ~task'[d].recovering
    BY <2>1, <2>3, GotoFields
  <2>8. "binary" \in task'[d].kept BY <2>4, <2>7 DEF SavedSoFar
  <2>. QED BY <2>6, <2>7, <2>8 DEF Undoable, Early, Saving
<1>8. CASE InstallBinary(d)
  <2>1. /\ At(d, "binary") /\ \E s \in {"config", "replaced", "abort", "undo"} : Goto(d, s)
        /\ before' = before /\ backup' = backup /\ journal' = journal
    BY <1>8 DEF InstallBinary, around, history
  <2>2. {"config", "replaced", "abort", "undo"} \subseteq Step BY DEF Step
  <2>3. Undoable(d) /\ ~task[d].recovering
    BY <1>upgrade, <1>undoable, <2>1 DEF ControlOf, At, Rollback
  <2>4. task'[d].step \in {"config", "replaced", "abort", "undo"} /\ ~task'[d].recovering /\ task'[d].kept = task[d].kept
    BY <2>1, <2>2, <2>3, GotoFields
  <2>. QED BY <2>1, <2>3, <2>4, ChangingStep DEF Changing, At
<1>9. CASE InstallConfig(d)
  <2>1. /\ At(d, "config") /\ \E s \in {"unit", "undo"} : Goto(d, s)
        /\ before' = before /\ backup' = backup /\ journal' = journal
    BY <1>9 DEF InstallConfig, around, history
  <2>2. {"unit", "undo"} \subseteq Step BY DEF Step
  <2>3. Undoable(d) /\ ~task[d].recovering
    BY <1>upgrade, <1>undoable, <2>1 DEF ControlOf, At, Rollback
  <2>4. task'[d].step \in {"unit", "undo"} /\ ~task'[d].recovering /\ task'[d].kept = task[d].kept
    BY <2>1, <2>2, <2>3, GotoFields
  <2>. QED BY <2>1, <2>3, <2>4, ChangingStep DEF Changing, At
<1>10. CASE InstallUnit(d)
  <2>1. /\ At(d, "unit") /\ \E s \in {"unitBody", "undo"} : Goto(d, s)
        /\ before' = before /\ backup' = backup /\ journal' = journal
    BY <1>10 DEF InstallUnit, around, history
  <2>2. {"unitBody", "undo"} \subseteq Step BY DEF Step
  <2>3. Undoable(d) /\ ~task[d].recovering
    BY <1>upgrade, <1>undoable, <2>1 DEF ControlOf, At, Rollback
  <2>4. task'[d].step \in {"unitBody", "undo"} /\ ~task'[d].recovering /\ task'[d].kept = task[d].kept
    BY <2>1, <2>2, <2>3, GotoFields
  <2>. QED BY <2>1, <2>3, <2>4, ChangingStep DEF Changing, At
<1>11. CASE WriteUnit(d)
  <2>1. /\ At(d, "unitBody") /\ \E s \in {"enable", "undo"} : Goto(d, s)
        /\ before' = before /\ backup' = backup /\ journal' = journal
    BY <1>11 DEF WriteUnit, around, history
  <2>2. {"enable", "undo"} \subseteq Step BY DEF Step
  <2>3. Undoable(d) /\ ~task[d].recovering
    BY <1>upgrade, <1>undoable, <2>1 DEF ControlOf, At, Rollback
  <2>4. task'[d].step \in {"enable", "undo"} /\ ~task'[d].recovering /\ task'[d].kept = task[d].kept
    BY <2>1, <2>2, <2>3, GotoFields
  <2>. QED BY <2>1, <2>3, <2>4, ChangingStep DEF Changing, At
<1>12. CASE EnableService(d)
  <2>1. /\ At(d, "enable") /\ \E s \in {"started", "undo"} : Goto(d, s)
        /\ before' = before /\ backup' = backup /\ journal' = journal
    BY <1>12 DEF EnableService, around, history
  <2>2. {"started", "undo"} \subseteq Step BY DEF Step
  <2>3. Undoable(d) /\ ~task[d].recovering
    BY <1>upgrade, <1>undoable, <2>1 DEF ControlOf, At, Rollback
  <2>4. task'[d].step \in {"started", "undo"} /\ ~task'[d].recovering /\ task'[d].kept = task[d].kept
    BY <2>1, <2>2, <2>3, GotoFields
  <2>. QED BY <2>1, <2>3, <2>4, ChangingStep DEF Changing, At
<1>13. CASE StartService(d)
  <2>1. /\ At(d, "start") /\ \E s \in {"verifying", "undo"} : Goto(d, s)
        /\ before' = before /\ backup' = backup /\ journal' = journal
    BY <1>13 DEF StartService, around, history
  <2>2. {"verifying", "undo"} \subseteq Step BY DEF Step
  <2>3. Undoable(d) /\ ~task[d].recovering
    BY <1>upgrade, <1>undoable, <2>1 DEF ControlOf, At, Rollback
  <2>4. task'[d].step \in {"verifying", "undo"} /\ ~task'[d].recovering /\ task'[d].kept = task[d].kept
    BY <2>1, <2>2, <2>3, GotoFields
  <2>. QED BY <2>1, <2>3, <2>4, ChangingStep DEF Changing, At
<1>14. CASE CheckHealth(d)
  <2>1. /\ At(d, "check") /\ \E s \in {"done", "undo"} : Goto(d, s)
        /\ before' = before /\ backup' = backup /\ journal' = journal
    BY <1>14 DEF CheckHealth, around, history
  <2>2. {"done", "undo"} \subseteq Step BY DEF Step
  <2>3. Undoable(d) /\ ~task[d].recovering
    BY <1>upgrade, <1>undoable, <2>1 DEF ControlOf, At, Rollback
  <2>4. task'[d].step \in {"done", "undo"} /\ ~task'[d].recovering /\ task'[d].kept = task[d].kept
    BY <2>1, <2>2, <2>3, GotoFields
  <2>. QED BY <2>1, <2>3, <2>4, ChangingStep DEF Changing, At
<1>15. CASE UpdatePhase(d)
  <2>1. PICK move \in {<<"replaced", "REPLACED", "config">>, <<"started", "STARTED", "start">>,
                     <<"verifying", "VERIFYING", "check">>, <<"done", "DONE", "register">>,
                     <<"undo", "ROLLING_BACK", "stopNew">>, <<"abort", "ROLLING_BACK", "report">>} :
               At(d, move[1]) /\ SetPhase(d, move[2]) /\ Goto(d, move[3])
    BY <1>15 DEF UpdatePhase
  <2>2. before' = before /\ backup' = backup BY <1>15 DEF UpdatePhase, around, history
  <2>3. /\ journal'[d].phase = move[2]
        /\ journal'[d].saved = (journal[d].saved \ {"binary"}) \cup (task[d].kept \cap {"binary"})
    BY <1>type, <2>1 DEF SetPhase, Row
  <2>4. move \in {<<"replaced", "REPLACED", "config">>, <<"started", "STARTED", "start">>,
                  <<"verifying", "VERIFYING", "check">>}
    BY <2>1, <2>3 DEF Unfinished
  <2>5. /\ task[d].step \in {"replaced", "started", "verifying"}
        /\ move[3] \in {"config", "start", "check"} /\ {"config", "start", "check"} \subseteq Step
    BY <2>1, <2>4 DEF At, Step
  <2>6. Undoable(d) /\ ~task[d].recovering
    BY <1>upgrade, <1>undoable, <2>2, <2>5 DEF ControlOf, Rollback
  <2>7. /\ task'[d].step \in {"config", "start", "check"} /\ ~task'[d].recovering
        /\ task'[d].kept = task[d].kept
    BY <2>1, <2>5, <2>6, GotoFields
  <2>8. journal[d].saved \subseteq journal'[d].saved
    BY <2>3, <2>5, <2>6 DEF Undoable, Changing
  <2>. QED BY <2>2, <2>5, <2>6, <2>7, <2>8, ChangingStep DEF Changing
<1>16. CASE RegisterUnit(d)
  <2>1. task[d].step \in {"register", "report"} /\ journal' = journal
    BY <1>16 DEF RegisterUnit, At
  <2>. QED BY <2>1 DEF ControlOf, Rollback
<1>17. CASE ReportResult(d)
  <2>1. task[d].step \in {"register", "report"} /\ journal' = journal
    BY <1>17 DEF ReportResult, At
  <2>. QED BY <2>1 DEF ControlOf, Rollback
<1>18. CASE StopNew(d)
  <2>1. At(d, "stopNew") /\ host' = host /\ before' = before /\ backup' = backup /\ journal' = journal
    BY <1>18 DEF StopNew, around, history
  <2>2. Undoable(d) /\ task[d].recovering
    BY <1>upgrade, <1>undoable, <2>1 DEF ControlOf, At, Rollback
  <2>3. /\ task'[d].step \in {"restore", "closing"} /\ task'[d].recovering
        /\ task'[d].kept = task[d].kept
    <3>1. CASE "binary" \in task[d].kept
      BY <1>type, <1>18, <2>2, <3>1 DEF StopNew, TypeOK, Task
    <3>2. CASE "binary" \notin task[d].kept
      <4>1. EndRollback(d) BY <1>18, <3>2 DEF StopNew
      <4>. QED BY <2>2, <4>1, EndRollbackFields
    <3>. QED BY <3>1, <3>2
  <2>. QED BY <2>1, <2>2, <2>3, RecoveryStep DEF Rollback
<1>19. CASE Restore(d)
  <2>. DEFINE f == task[d].file
  <2>1. At(d, "restore") /\ before' = before /\ backup' = backup /\ journal' = journal
    BY <1>19 DEF Restore, around, history
  <2>2. Undoable(d) /\ task[d].recovering /\ f \in File
    BY <1>type, <1>upgrade, <1>undoable, <2>1 DEF ControlOf, At, Rollback, Task
  <2>3. /\ task'[d].step \in {"restore", "restoreUnit", "startPrevious"} /\ task'[d].recovering
        /\ task'[d].kept = task[d].kept
    <3>2. ASSUME NEW r \in BOOLEAN, task' = [task EXCEPT ![d] = NextRestore(d, r)]
          PROVE  /\ task'[d].step \in {"restore", "startPrevious"} /\ task'[d].recovering
                 /\ task'[d].kept = task[d].kept
      BY <2>2, <3>2, NextRestoreType, NextRestoreFields, PutTask
    <3>3. ASSUME Goto(d, "restoreUnit")
          PROVE  task'[d].step = "restoreUnit" /\ task'[d].kept = task[d].kept
                 /\ task'[d].recovering
      <4>1. "restoreUnit" \in Step BY DEF Step, Rollback
      <4>. QED BY <2>2, <3>3, <4>1, GotoFields
    <3>4. \/ \E r \in BOOLEAN : task' = [task EXCEPT ![d] = NextRestore(d, r)]
          \/ Goto(d, "restoreUnit")
      BY <1>type, <1>19 DEF Restore, Task
    <3>. QED BY <3>2, <3>3, <3>4
  <2>4. Untouched(d) /\ ~Secured(d) => host' = host
    <3>. SUFFICES ASSUME Untouched(d), ~Secured(d) PROVE host' = host
      OBVIOUS
    <3>1. /\ task[d].kept \subseteq {"binary"}
          /\ backup[d]["binary"] \in {NoFile, before[d].host["binary"]}
      BY <2>2 DEF Undoable, Recoverable
    <3>2. \/ host' = host
          \/ f \in task[d].kept /\ backup[d][f] # NoFile /\ f # "unit"
             /\ host' = [host EXCEPT ![f] = backup[d][f]]
          \/ f = "unit" /\ f \in task[d].kept
      BY <1>19 DEF Restore
    <3>3. ASSUME f = "binary", backup[d][f] = host[f], host' = [host EXCEPT ![f] = backup[d][f]]
          PROVE  host' = host
      BY <1>type, <3>3 DEF Files
    <3>. QED BY <3>1, <3>2, <3>3 DEF Untouched
  <2>. QED BY <2>1, <2>2, <2>3, <2>4, RecoveryStep DEF Rollback
<1>20. CASE RestoreUnit(d)
  <2>1. At(d, "restoreUnit") /\ before' = before /\ backup' = backup /\ journal' = journal
    BY <1>20 DEF RestoreUnit, around, history
  <2>2. Undoable(d) /\ task[d].recovering /\ "unit" \in task[d].kept
    BY <1>upgrade, <1>undoable, <2>1 DEF ControlOf, At, Rollback
  <2>3. /\ task'[d].step \in {"restore", "startPrevious"} /\ task'[d].recovering
        /\ task'[d].kept = task[d].kept
    <3>1. task' = [task EXCEPT ![d] = NextRestore(d, task[d].restored)] /\ task[d].restored \in BOOLEAN
      BY <1>type, <1>20 DEF RestoreUnit, Task
    <3>. QED BY <2>2, <3>1, NextRestoreType, NextRestoreFields, PutTask
  <2>4. Secured(d) BY <2>2 DEF Undoable, Recoverable
  <2>. QED BY <2>1, <2>2, <2>3, <2>4, RecoveryStep DEF Rollback
<1>21. CASE StartPrevious(d)
  <2>1. At(d, "startPrevious") /\ host' = host /\ before' = before /\ backup' = backup /\ journal' = journal
    BY <1>21 DEF StartPrevious, around, history
  <2>2. Undoable(d) /\ task[d].recovering
    BY <1>upgrade, <1>undoable, <2>1 DEF ControlOf, At, Rollback
  <2>3. /\ task'[d].step \in {"restore", "closing"} /\ task'[d].recovering
        /\ task'[d].kept = task[d].kept
    BY <1>21, <2>2, EndRollbackFields DEF StartPrevious
  <2>. QED BY <2>1, <2>2, <2>3, RecoveryStep DEF Rollback
<1>. QED BY <1>1, <1>2, <1>3, <1>4, <1>5, <1>6, <1>7, <1>8, <1>9, <1>10, <1>11, <1>12,
            <1>13, <1>14, <1>15, <1>16, <1>17, <1>18, <1>19, <1>20, <1>21 DEF Advance

(* Nothing of d itself changes, and what others do spoils nothing of it.    *)
LEMMA OthersJournal ==
    ASSUME NEW d \in Request, JournalOf(d), host' = host, journal'[d] = journal[d],
           backup'[d] = backup[d], task'[d] = task[d], before'[d] = before[d],
           flaw[d] \subseteq flaw'[d]
    PROVE  JournalOf(d)'
<1>. SUFFICES ASSUME journal'[d].phase \in Unfinished, Upgrade(d)', Clean(d)'
              PROVE  Undoable(d)'
  BY DEF JournalOf
<1>1. Upgrade(d) /\ Clean(d) BY DEF Upgrade, Clean
<1>2. Undoable(d) BY <1>1 DEF JournalOf
<1>3. (Untouched(d) <=> Untouched(d)') /\ (Secured(d) <=> Secured(d)')
  BY DEF Untouched, Secured
<1>4. Recoverable(d) <=> Recoverable(d)' BY <1>3 DEF Recoverable
<1>5. SavedSoFar(d) <=> SavedSoFar(d)' BY <1>3 DEF SavedSoFar, Kept, At
<1>. QED BY <1>2, <1>3, <1>4, <1>5 DEF Undoable

LEMMA StillThere ==
    ASSUME Solo, JournalInv, host' = host, journal' = journal, backup' = backup,
           before' = before, task' = task, flaw' = flaw
    PROVE  Solo' /\ JournalInv'
<1>1. Solo' BY DEF Solo, Busy, At
<1>2. JournalInv' BY OthersJournal DEF JournalInv
<1>. QED BY <1>1, <1>2

(* A step of a deployment that has not overlapped another one finds all     *)
(* others finished, so that no backup is needed but its own.                *)
LEMMA AdvanceInv ==
    ASSUME DeployInv, NEW d \in Request, Advance(d)
    PROVE  Control' /\ Solo' /\ JournalInv'
<1>1. TypeOK /\ Control /\ Solo /\ JournalInv /\ Local(d) BY AdvanceIsLocal DEF DeployInv
<1>2. ~At(d, "idle") /\ Busy(d) BY <1>1, AdvanceMoves DEF Busy
<1>3. Control'
  <2>1. ControlOf(d)' BY <1>1, AdvanceControl DEF Control
  <2>2. \A e \in Request \ {d} : ControlOf(e)' BY <1>1 DEF Control, ControlOf, Local, At
  <2>. QED BY <2>1, <2>2 DEF Control
<1>4. Solo'
  <2>1. \A e \in Request \ {d} : (Busy(e)' <=> Busy(e)) /\ flaw'[e] = flaw[e]
    BY <1>1 DEF Local, Busy, At
  <2>2. "overlap" \notin flaw'[d] => "overlap" \notin flaw[d] BY <1>1 DEF Local
  <2>. QED BY <1>1, <1>2, <2>1, <2>2 DEF Solo
<1>5. JournalInv'
  <2>1. JournalOf(d)' BY <1>1, AdvanceJournal DEF Control, JournalInv
  <2>2. ASSUME NEW e \in Request \ {d} PROVE JournalOf(e)'
    <3>1. "overlap" \in flaw[e] \/ ~Busy(e) BY <1>1, <1>2 DEF Solo
    <3>2. CASE "overlap" \in flaw[e] BY <1>1, <3>2 DEF Local, JournalOf, Clean
    <3>3. CASE ~Busy(e) BY <1>1, <3>3 DEF Local, JournalOf, Busy
    <3>. QED BY <3>1, <3>2, <3>3
  <2>. QED BY <2>1, <2>2 DEF JournalInv
<1>. QED BY <1>3, <1>4, <1>5

(* The death of the Agent, wherever the deployment was.                     *)
LEMMA CrashJournal ==
    ASSUME TypeOK, AgentCrash, NEW d \in Request, ControlOf(d), JournalOf(d)
    PROVE  JournalOf(d)'
<1>. SUFFICES ASSUME journal'[d].phase \in Unfinished, Upgrade(d)', Clean(d)'
              PROVE  Undoable(d)'
  BY DEF JournalOf
<1>1. /\ host' = host /\ backup' = backup /\ journal' = journal /\ before' = before
      /\ task'[d].step = "idle" /\ ~task'[d].recovering
  BY DEF AgentCrash, onHost, history, Idle
<1>2. /\ flaw[d] \subseteq flaw'[d]
      /\ At(d, "write") /\ task[d].file = "binary" => "backup" \in flaw'[d]
  BY DEF AgentCrash, TypeOK
<1>3. Undoable(d) /\ Upgrade(d) BY <1>1, <1>2 DEF JournalOf, Upgrade, Clean
<1>4. Recoverable(d)
  <2>1. CASE task[d].step \in Early BY <1>3, <2>1 DEF Undoable, Recoverable
  <2>2. CASE task[d].step \in Saving
    <3>1. SavedSoFar(d) /\ task[d].file \in File
      BY <1>3, <2>2 DEF Undoable, TypeOK, Task
    <3>2. (At(d, "open") /\ task[d].file = "binary") \/ "binary" \in Passed(task[d])
      BY <1>2, <2>2, <3>1 DEF Saving, At, Passed, File, Clean
    <3>3. backup[d]["binary"] \in {NoFile, before[d].host["binary"]}
      BY <1>3, <3>1, <3>2 DEF SavedSoFar, Kept, Upgrade
    <3>. QED BY <3>1, <3>3 DEF SavedSoFar, Recoverable
  <2>3. CASE task[d].step \in Changing BY <1>3, <2>3 DEF Undoable, Recoverable
  <2>4. CASE task[d].step \in {"idle", "abort"} \/ task[d].recovering
    BY <1>3, <2>4 DEF Undoable
  <2>5. CASE ~task[d].recovering /\ task[d].step \notin Early \cup Saving \cup Changing \cup {"idle", "abort"}
    <3>1. task[d].step \in Step /\ journal[d].phase \in Unfinished BY <1>1 DEF TypeOK, Task
    <3>2. task[d].step \in Rollback \cup {"create", "register", "report", "closing"}
      BY <2>5, <3>1 DEF Step, Early, Saving, Changing, Rollback
    <3>. QED BY <2>5, <3>1, <3>2 DEF ControlOf, At, Unfinished
  <2>. QED BY <2>1, <2>2, <2>3, <2>4, <2>5
<1>5. Recoverable(d)' BY <1>1, <1>4 DEF Recoverable, Secured, Untouched
<1>. QED BY <1>1, <1>5 DEF Undoable, Early, Saving, Changing

(* The inductive step. *)
LEMMA InvStep ==
    ASSUME DeployInv, [Next]_vars
    PROVE  DeployInv'
<1>0. TypeOK /\ Control /\ Solo /\ JournalInv BY DEF DeployInv
<1>. SUFFICES Control' /\ Solo' /\ JournalInv'
  BY <1>0, TypeStep DEF DeployInv
<1>1. ASSUME NEW d \in Request, OnDeployRequest(d) PROVE Control' /\ Solo' /\ JournalInv'
  <2>1. /\ host' = host /\ journal' = journal /\ backup' = backup /\ before' = before
        /\ agent' = agent /\ agent = "up" /\ exec[d] = "NONE"
        /\ exec' = [exec EXCEPT ![d] = "RUNNING"]
        /\ Goto(d, "create") /\ "create" \in Step
    BY <1>1 DEF OnDeployRequest, onHost, Step
  <2>2. At(d, "idle") /\ task[d] = Idle /\ journal[d].phase = "NONE" /\ d \notin Running
        /\ backup[d]["binary"] = NoFile
    BY <1>0, <2>1 DEF Control, ControlOf, TypeOK, Running
  <2>3. /\ task'[d].step = "create" /\ task'[d].kept = {} /\ ~task'[d].recovering
        /\ \A e \in Request \ {d} : task'[e] = task[e]
    <3>1. Idle.kept = {} /\ ~Idle.recovering BY DEF Idle
    <3>2. /\ task'[d].step = "create" /\ task'[d].kept = task[d].kept
          /\ task'[d].recovering = task[d].recovering
      BY <1>0, <2>1, GotoFields
    <3>3. \A e \in Request \ {d} : task'[e] = task[e] BY <1>0, <2>1, GotoTask
    <3>. QED BY <2>2, <3>1, <3>2, <3>3
  <2>4. /\ \A e \in Request : flaw[e] \subseteq flaw'[e]
        /\ \A e \in Running : "overlap" \in flaw'[e] \cap flaw'[d]
    BY <1>0, <1>1, <2>2 DEF OnDeployRequest, TypeOK, Running
  <2>5. exec'[d] = "RUNNING" /\ \A e \in Request \ {d} : exec'[e] = exec[e]
    BY <1>0, <2>1 DEF TypeOK
  <2>6. Control'
    <3>1. ControlOf(d)' BY <2>1, <2>2, <2>3, <2>5 DEF ControlOf, At, Rollback, Unfinished
    <3>2. \A e \in Request \ {d} : ControlOf(e)'
      BY <1>0, <2>1, <2>3, <2>5 DEF Control, ControlOf, At
    <3>. QED BY <3>1, <3>2 DEF Control
  <2>7. Solo'
    <3>1. \A e \in Request \ {d} : Busy(e)' <=> Busy(e) BY <2>1, <2>3 DEF Busy, At
    <3>2. \A e \in Request : Busy(e) => e \in Running
      BY <1>0, <2>1 DEF Busy, Control, ControlOf, Running
    <3>3. SUFFICES ASSUME NEW x \in Request, NEW y \in Request, x # y, Busy(x)', Busy(y)',
                          "overlap" \notin flaw'[x]
                   PROVE  FALSE
      BY DEF Solo
    <3>4. CASE x = d BY <2>4, <3>1, <3>2, <3>3, <3>4
    <3>5. CASE x # d /\ y = d BY <2>4, <3>1, <3>2, <3>3, <3>5
    <3>6. CASE x # d /\ y # d BY <1>0, <2>4, <3>1, <3>3, <3>6 DEF Solo
    <3>. QED BY <3>4, <3>5, <3>6
  <2>8. JournalInv'
    <3>1. JournalOf(d)' BY <2>1, <2>2 DEF JournalOf, Unfinished
    <3>2. ASSUME NEW e \in Request \ {d} PROVE JournalOf(e)'
      BY <1>0, <2>1, <2>3, <2>4, OthersJournal DEF JournalInv
    <3>. QED BY <3>1, <3>2 DEF JournalInv
  <2>. QED BY <2>6, <2>7, <2>8
<1>2. ASSUME NEW d \in Request, RejectRequest(d) PROVE Control' /\ Solo' /\ JournalInv'
  <2>1. /\ host' = host /\ journal' = journal /\ backup' = backup /\ before' = before
        /\ agent' = agent /\ task' = task /\ flaw' = flaw
        /\ exec' = [exec EXCEPT ![d] = "FAILED"]
    BY <1>2 DEF RejectRequest, onHost, around, history
  <2>2. \A e \in Request : exec'[e] = "NONE" => exec[e] = "NONE" BY <1>0, <2>1 DEF TypeOK
  <2>3. Control' BY <1>0, <2>1, <2>2 DEF Control, ControlOf, At
  <2>. QED BY <1>0, <2>1, <2>3, StillThere
<1>3. ASSUME NEW d \in Request, Advance(d) PROVE Control' /\ Solo' /\ JournalInv'
  BY <1>3, AdvanceInv
<1>4. ASSUME NEW d \in Request, RecoverDeployment(d) PROVE Control' /\ Solo' /\ JournalInv'
  <2>1. /\ host' = host /\ journal' = journal /\ backup' = backup /\ before' = before
        /\ exec' = exec /\ agent' = agent /\ agent = "recovering"
        /\ Running = {} /\ journal[d].phase \in Unfinished
    BY <1>4 DEF RecoverDeployment, onHost, around, history
  <2>2. At(d, "idle") BY <2>1 DEF Running
  <2>3. /\ task'[d].step \in {"stopNew", "closing"} /\ task'[d].recovering
        /\ task'[d].kept = journal[d].saved
        /\ \A e \in Request \ {d} : task'[e] = task[e]
    BY <1>0, <1>4, RecoveryTask, PutTask
  <2>4. \A e \in Request : flaw[e] \subseteq flaw'[e]
    BY <1>0, <1>4 DEF RecoverDeployment, Spoils, TypeOK
  <2>5. flaw'[d] \cap {"overlap", "backup"} = flaw[d] \cap {"overlap", "backup"}
    BY <1>0, <1>4 DEF RecoverDeployment, Spoils, TypeOK
  <2>6. Control'
    <3>1. ControlOf(d)'
      BY <1>0, <2>1, <2>2, <2>3 DEF Control, ControlOf, At, Rollback, Unfinished
    <3>2. \A e \in Request \ {d} : ControlOf(e)'
      BY <1>0, <2>1, <2>3 DEF Control, ControlOf, At
    <3>. QED BY <3>1, <3>2 DEF Control
  <2>7. Solo'
    <3>1. \A e \in Request : Busy(e)' => Busy(e) BY <2>1, <2>3 DEF Busy, At
    <3>. QED BY <1>0, <2>4, <3>1 DEF Solo
  <2>8. JournalInv'
    <3>1. JournalOf(d)'
      <4>1. SUFFICES ASSUME Upgrade(d)', Clean(d)' PROVE Undoable(d)'
        BY DEF JournalOf
      <4>2. Upgrade(d) /\ Clean(d) BY <2>1, <2>5, <4>1 DEF Upgrade, Clean
      <4>3. Recoverable(d)
        BY <1>0, <2>1, <2>2, <4>2 DEF JournalInv, JournalOf, Undoable, At
      <4>4. Recoverable(d)' BY <2>1, <4>3 DEF Recoverable, Secured, Untouched
      <4>. QED BY <2>1, <2>3, <4>4 DEF Undoable, Early, Saving, Changing
    <3>2. ASSUME NEW e \in Request \ {d} PROVE JournalOf(e)'
      BY <1>0, <2>1, <2>3, <2>4, OthersJournal DEF JournalInv
    <3>. QED BY <3>1, <3>2 DEF JournalInv
  <2>. QED BY <2>6, <2>7, <2>8
<1>5. ASSUME NEW d \in Request, CloseRecovered(d) PROVE Control' /\ Solo' /\ JournalInv'
  <2>1. /\ host' = host /\ backup' = backup /\ before' = before /\ flaw' = flaw
        /\ exec' = exec /\ agent' = agent /\ At(d, "closing")
        /\ SetPhase(d, "ROLLING_BACK") /\ task' = [task EXCEPT ![d] = Idle]
    BY <1>5 DEF CloseRecovered, onHost, around, history
  <2>2. /\ journal'[d].phase = "ROLLING_BACK"
        /\ \A e \in Request \ {d} : journal'[e] = journal[e]
    BY <1>0, <2>1 DEF SetPhase, TypeOK, Row
  <2>3. /\ task'[d].step = "idle" /\ ~task'[d].recovering
        /\ \A e \in Request \ {d} : task'[e] = task[e]
    BY <1>0, <2>1 DEF TypeOK, Idle
  <2>4. Control'
    <3>1. ControlOf(d)'
      BY <1>0, <2>1, <2>2, <2>3 DEF Control, ControlOf, At, Rollback, Unfinished
    <3>2. \A e \in Request \ {d} : ControlOf(e)'
      BY <1>0, <2>1, <2>2, <2>3 DEF Control, ControlOf, At
    <3>. QED BY <3>1, <3>2 DEF Control
  <2>5. Solo'
    <3>1. \A e \in Request : Busy(e)' => Busy(e) BY <2>1, <2>2, <2>3 DEF Busy, At, Unfinished
    <3>. QED BY <1>0, <2>1, <3>1 DEF Solo
  <2>6. JournalInv'
    <3>1. JournalOf(d)' BY <2>2 DEF JournalOf, Unfinished
    <3>2. ASSUME NEW e \in Request \ {d} PROVE JournalOf(e)'
      BY <1>0, <2>1, <2>2, <2>3, OthersJournal DEF JournalInv
    <3>. QED BY <3>1, <3>2 DEF JournalInv
  <2>. QED BY <2>4, <2>5, <2>6
<1>6. CASE AgentCrash
  <2>1. /\ journal' = journal /\ backup' = backup /\ exec' = exec /\ agent' = "down"
        /\ task' = [d \in Request |-> Idle] /\ Idle.step = "idle" /\ ~Idle.recovering
        /\ \A d \in Request : flaw[d] \subseteq flaw'[d]
    BY <1>0, <1>6 DEF AgentCrash, Idle, TypeOK
  <2>2. Control' BY <1>0, <2>1 DEF Control, ControlOf, At, Rollback
  <2>3. Solo'
    <3>1. \A e \in Request : Busy(e)' => Busy(e) BY <2>1 DEF Busy, At
    <3>. QED BY <1>0, <2>1, <3>1 DEF Solo
  <2>4. JournalInv' BY <1>0, <1>6, CrashJournal DEF Control, JournalInv
  <2>. QED BY <2>2, <2>3, <2>4
<1>7. CASE AgentStart
  <2>1. /\ host' = host /\ journal' = journal /\ backup' = backup /\ before' = before
        /\ task' = task /\ flaw' = flaw /\ agent' = "recovering"
        /\ \A d \in Request : exec'[d] = "NONE" => exec[d] = "NONE"
    BY <1>0, <1>7 DEF AgentStart, onHost, history, TypeOK
  <2>2. Control' BY <1>0, <2>1 DEF Control, ControlOf, At
  <2>. QED BY <1>0, <2>1, <2>2, StillThere
<1>8. CASE EndRecovery
  <2>1. /\ host' = host /\ journal' = journal /\ backup' = backup /\ before' = before
        /\ task' = task /\ flaw' = flaw /\ exec' = exec
        /\ \A d \in Request : journal[d].phase \notin Unfinished
    BY <1>8 DEF EndRecovery, onHost, history
  <2>2. Control' BY <1>0, <2>1 DEF Control, ControlOf, At
  <2>. QED BY <1>0, <2>1, <2>2, StillThere
<1>9. CASE SyncDefinition \/ Operate \/ UNCHANGED vars
  <2>1. /\ host' = host /\ journal' = journal /\ backup' = backup /\ before' = before
        /\ task' = task /\ flaw' = flaw /\ exec' = exec /\ agent' = agent
    BY <1>9 DEF SyncDefinition, Operate, vars, onHost, history
  <2>2. Control' BY <1>0, <2>1 DEF Control, ControlOf, At
  <2>. QED BY <1>0, <2>1, <2>2, StillThere
<1>. QED BY <1>1, <1>2, <1>3, <1>4, <1>5, <1>6, <1>7, <1>8, <1>9 DEF Next

-----------------------------------------------------------------------------
LEMMA InitInv == Init => DeployInv
<1>. SUFFICES ASSUME Init PROVE DeployInv
  OBVIOUS
<1>1. TypeOK BY InitType
<1>2. \A d \in Request : /\ task[d] = Idle /\ Idle.step = "idle" /\ ~Idle.recovering
                         /\ journal[d].phase = "NONE" /\ backup[d]["binary"] = NoFile
  BY DEF Init, Idle, NoRow, File
<1>3. Control BY <1>2 DEF Control, ControlOf, At, Rollback, Unfinished
<1>4. Solo /\ JournalInv BY <1>2 DEF Solo, Busy, JournalInv, JournalOf, At, Unfinished
<1>. QED BY <1>1, <1>3, <1>4 DEF DeployInv

LEMMA InvSuffices == DeployInv => JournalSuffices
<1>. SUFFICES ASSUME DeployInv, NEW d \in Request, journal[d].phase \in Unfinished, Upgrade(d),
                     Clean(d), NEW f \in File, before[d].host[f] \notin {NoFile, host[f]}
              PROVE  f \in journal[d].saved /\ backup[d][f] = before[d].host[f]
  BY DEF JournalSuffices, Clean
<1>1. Undoable(d) /\ ControlOf(d) /\ task[d].step \in Step
  BY DEF DeployInv, JournalInv, JournalOf, Control, TypeOK, Task
<1>2. ~Untouched(d) BY DEF Untouched
<1>3. Secured(d) \/ Recoverable(d)
  <2>1. \/ task[d].step \in Early \cup Saving \cup Changing \cup {"idle", "abort"}
        \/ task[d].step \in Rollback \cup {"create", "register", "report", "closing"}
    BY <1>1 DEF Step, Early, Saving, Changing, Rollback
  <2>2. CASE task[d].step \in Early \cup Saving \cup Changing \cup {"idle", "abort"}
    BY <1>1, <1>2, <2>2 DEF Undoable, SavedSoFar
  <2>3. CASE task[d].step \in Rollback \cup {"create", "register", "report", "closing"}
    BY <1>1, <2>3 DEF ControlOf, At, Undoable, Unfinished
  <2>. QED BY <2>1, <2>2, <2>3
<1>. QED BY <1>2, <1>3 DEF Recoverable, Secured

(* JournalSuffices is an invariant: whatever fails, and whenever the Agent  *)
(* dies, each file that an unfinished upgrade has changed has its complete  *)
(* copy, and the row in the journal says where.                             *)
THEOREM JournalAlwaysSuffices == Spec => []JournalSuffices
<1>1. Init => DeployInv BY InitInv
<1>2. DeployInv /\ [Next]_vars => DeployInv' BY InvStep
<1>3. DeployInv => JournalSuffices BY InvSuffices
<1>. QED BY <1>1, <1>2, <1>3, PTL DEF Spec
=============================================================================
