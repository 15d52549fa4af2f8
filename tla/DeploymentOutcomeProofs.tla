----------------------- MODULE DeploymentOutcomeProofs -----------------------
(***************************************************************************)
(* How a deployment ends: theorems about Deployment beside those of        *)
(* DeploymentProofs, for any number of requests, failing calls and deaths  *)
(* of the Agent.                                                           *)
(*                                                                         *)
(* What the host has when a deployment is over is the work of all its      *)
(* steps, so the invariant says for each step what the host has by then:   *)
(* Installed the files that are in place, Rolling the files that are still *)
(* to be put back, with the copy they are put back from.  It says so of    *)
(* the last deployment that was begun; that nobody else changes the files  *)
(* meanwhile is Older (all those before it are finished), which also       *)
(* needs Served: they begin in the order of their numbers, one whose       *)
(* goroutine is gone is not RUNNING.  The copies themselves are there by   *)
(* DeployInv: a rollback starts from what JournalInv promises.             *)
(***************************************************************************)
EXTENDS DeploymentProofs

-----------------------------------------------------------------------------
(* The inductive invariant, beside DeployInv. *)

(* Executions begin in the order of their numbers, and one that runs has   *)
(* its goroutine at work, on an Agent that is up.                          *)
ServedOf(d) ==
    /\ exec[d] = "RUNNING" /\ agent # "down" => agent = "up" /\ ~At(d, "idle")
    /\ exec[d] # "NONE" => \A e \in 1..(d - 1) : exec[e] # "NONE"
Served == \A d \in Request : ServedOf(d)

(* A deployment that has not overlapped another one finds all those before *)
(* it finished.                                                            *)
Begun(d) == ~At(d, "idle") \/ journal[d].phase # "NONE"
Older ==
    \A d, e \in Request : e < d /\ Begun(d) /\ "overlap" \notin flaw[d] => ~Busy(e)

(* What the rows say at the end, and which paths they have until then.     *)
RowsOf(d) ==
    /\ exec[d] = "SUCCESS" => At(d, "idle") /\ journal[d].phase = "DONE"
    /\ journal[d].phase = "DONE" => task[d].step \in {"idle", "register", "report"}
    /\ At(d, "register") => journal[d].phase = "DONE"
    /\ At(d, "report") => journal[d].phase \in {"DONE", "ROLLING_BACK"}
    /\ task[d].recovering => journal[d].phase \in Unfinished
    /\ task[d].step \in Rollback /\ ~task[d].recovering => journal[d].phase = "ROLLING_BACK"
    /\ At(d, "restoreUnit") => task[d].file = "unit"
    /\ task[d].step \in Early => journal[d].saved = {} /\ task[d].kept = {}
    /\ task[d].step \in Saving => journal[d].saved = {"binary"} /\ "binary" \in task[d].kept
    /\ task[d].step \in Changing \cup Rollback => journal[d].saved = task[d].kept
Rows == \A d \in Request : RowsOf(d)

(* What a deployment has installed by then. *)
InstalledBy(step) ==
    IF step \in {"replaced", "config"} THEN {"binary"}
    ELSE IF step \in {"unit", "unitBody"} THEN {"binary", "config"}
    ELSE IF step \in {"enable", "started", "start", "verifying", "check", "done", "register"} THEN File
    ELSE {}
Installed(d, files) == \A f \in brings[d] \cap files : host[f] = d

(* What a rollback has still to restore, and that it can.                  *)
ToRestore(t) ==
    IF t.step = "stopNew" \/ (t.step = "restore" /\ t.file = "binary") THEN File
    ELSE IF t.step = "restore" /\ t.file = "config" THEN {"config", "unit"}
    ELSE IF t.step \in {"restore", "restoreUnit"} THEN {"unit"}
    ELSE {}
Safe(d, f) ==
    /\ host[f] = before[d].host[f]
    /\ f \in task[d].kept => backup[d][f] \in {NoFile, before[d].host[f]}
Restored(d) == \A f \in File : before[d].host[f] \in {NoFile, host[f]}
Rolling(d) ==
    /\ \A f \in File : before[d].host[f] # NoFile =>
                         Safe(d, f) \/ (f \in ToRestore(task[d]) /\ Kept(d, f))
    /\ At(d, "stopNew") => Restored(d) \/ "binary" \in task[d].kept
    /\ At(d, "restoreUnit") /\ before[d].host["unit"] # NoFile => Kept(d, "unit")

(* Where the last deployment that was begun is with the host.              *)
Untouching == Early \cup Saving \cup {"binary", "abort"}
OutcomeOf(d) ==
    /\ Installed(d, InstalledBy(task[d].step))
    /\ journal[d].phase = "DONE" => Installed(d, File)
    /\ Upgrade(d) /\ flaw[d] = {} =>
         /\ task[d].step \in Untouching => Untouched(d)
         /\ task[d].step \in Rollback => Rolling(d)
         /\ At(d, "closing") => Restored(d)
         /\ journal[d].phase = "ROLLING_BACK" /\ task[d].step \in {"idle", "report"} => Restored(d)
Outcome == \A d \in Request : Last(d) /\ "overlap" \notin flaw[d] => OutcomeOf(d)

EndInv == Served /\ Older /\ Rows /\ Outcome

-----------------------------------------------------------------------------
(* What a step of a deployment does to its own rows, and to the host.      *)

LEMMA SetPhaseIs ==
    ASSUME TypeOK, NEW d \in Request, NEW p \in Phase, SetPhase(d, p)
    PROVE  /\ journal'[d].phase = p
           /\ task[d].kept = journal[d].saved => journal'[d].saved = journal[d].saved
<1>. DEFINE j == [journal EXCEPT ![d].phase = p]
            X == task[d].kept \cap {"binary"}
<1>1. journal \in [Request -> Row] /\ journal[d] \in Row BY DEF TypeOK
<1>2. j \in [Request -> Row] /\ j[d].phase = p /\ j[d].saved = journal[d].saved
  BY <1>1 DEF Row
<1>3. journal' = [j EXCEPT ![d].saved = (@ \ {"binary"}) \cup X] BY <1>1 DEF SetPhase
<1>. HIDE DEF j
<1>4. /\ journal'[d].phase = p
      /\ journal'[d].saved = (journal[d].saved \ {"binary"}) \cup X
  BY <1>2, <1>3 DEF Row
<1>. QED BY <1>4

(* Once it has a row a deployment keeps one.                               *)
LEMMA AdvancePhase ==
    ASSUME TypeOK, NEW d \in Request, ControlOf(d), Advance(d)
    PROVE  journal'[d].phase # "NONE"
<1>1. journal \in [Request -> Row] BY DEF TypeOK
<1>2. CASE CreateDeployment(d) BY <1>1, <1>2 DEF CreateDeployment
<1>3. CASE ~CreateDeployment(d)
  <2>1. task[d].step \notin {"idle", "create"}
    BY <1>3 DEF Advance, At, Fetch, Inspect, OpenBackup, WriteBackup, StopOld, SetDeploymentBackups,
           InstallBinary, InstallConfig, InstallUnit, WriteUnit, EnableService, StartService,
           CheckHealth, UpdatePhase, RegisterUnit, ReportResult, StopNew, Restore, RestoreUnit,
           StartPrevious
  <2>2. journal[d].phase # "NONE" BY <2>1 DEF ControlOf
  <2>3. journal'[d].phase # "NONE"
    <3>1. CASE Inspect(d)
      <4>1. journal'[d].phase \in {journal[d].phase, "STOPPED"} BY <1>1, <3>1 DEF Inspect
      <4>. QED BY <2>2, <4>1
    <3>2. CASE SetDeploymentBackups(d)
      <4>1. journal'[d].phase = journal[d].phase
        BY <1>1, <3>2 DEF SetDeploymentBackups, Row
      <4>. QED BY <2>2, <4>1
    <3>3. CASE UpdatePhase(d)
      <4>1. \E p \in Phase \ {"NONE"} : SetPhase(d, p) BY <3>3 DEF UpdatePhase, Phase
      <4>. QED BY <4>1, SetPhaseIs
    <3>4. CASE UNCHANGED journal BY <2>2, <3>4
    <3>5. Inspect(d) \/ SetDeploymentBackups(d) \/ UpdatePhase(d) \/ UNCHANGED journal
      BY <1>3 DEF Advance, Fetch, OpenBackup, WriteBackup, StopOld,
             InstallBinary, InstallConfig, InstallUnit, WriteUnit, EnableService, StartService,
             CheckHealth, RegisterUnit, ReportResult, StopNew, Restore, RestoreUnit,
             StartPrevious
    <3>. QED BY <3>1, <3>2, <3>3, <3>4, <3>5
  <2>. QED BY <2>3
<1>. QED BY <1>2, <1>3

(* Steps that leave the files and the rows.                                *)
QuietMove(t, s, files) ==
    \/ t.step = "fetch" /\ s \in {"inspect", "abort"}
    \/ t.step = "stop" /\ s = IF t.kept \subseteq {"binary"} THEN "binary" ELSE "record"
    \/ t.step = "binary" /\ (s = "abort" \/ (s = "config" /\ "binary" \notin files))
    \/ t.step = "config" /\ s = "unit" /\ "config" \notin files
    \/ <<t.step, s>> \in {<<"enable", "started">>, <<"start", "verifying">>, <<"check", "done">>,
                          <<"register", "report">>}
    \/ t.step \in Changing /\ s = "undo"

LEMMA QuietStep ==
    ASSUME TypeOK, NEW d \in Request, NEW s \in Step, Goto(d, s), QuietMove(task[d], s, brings[d]),
           UNCHANGED <<host, journal, before, brings, exec>>, flaw[d] \subseteq flaw'[d], RowsOf(d)
    PROVE  RowsOf(d)' /\ (OutcomeOf(d) => OutcomeOf(d)')
<1>1. /\ task'[d].step = s /\ task'[d].kept = task[d].kept /\ task'[d].file = task[d].file
      /\ task'[d].recovering = task[d].recovering /\ task[d].step # "idle"
  BY GotoFields DEF QuietMove, Changing
<1>2. s \notin Rollback \cup {"idle", "closing"} BY DEF QuietMove, Rollback
<1>0. exec[d] # "SUCCESS" /\ journal'[d] = journal[d] /\ exec'[d] = exec[d]
  BY <1>1 DEF RowsOf, At
<1>3. RowsOf(d)'
  <2>1. journal[d].phase = "DONE" => task[d].step \in {"register", "report"}
    BY <1>1 DEF RowsOf
  <2>2. journal[d].phase = "DONE" => task[d].step = "register" /\ s = "report"
    BY <2>1 DEF QuietMove, Changing
  <2>3. s = "report" => journal[d].phase = "DONE" BY DEF QuietMove, RowsOf, At, Changing
  <2>4. s # "register" /\ s # "restoreUnit" BY <1>2 DEF QuietMove, Rollback
  <2>5. s \in Early => task[d].step \in Early BY DEF QuietMove, Early, Changing
  <2>6. s \in Saving => task[d].step \in Saving BY DEF QuietMove, Saving, Changing
  <2>7. s \in Changing => journal[d].saved = task[d].kept
    <3>1. CASE task[d].step = "stop"
      <4>1. journal[d].saved = {"binary"} /\ "binary" \in task[d].kept
        BY <3>1 DEF RowsOf, Saving
      <4>2. s = "binary" \/ s = "record" BY <3>1 DEF QuietMove, Changing
      <4>3. s = "binary" => task[d].kept \subseteq {"binary"} BY <3>1 DEF QuietMove, Changing
      <4>. QED BY <4>1, <4>2, <4>3 DEF Changing
    <3>2. CASE task[d].step # "stop" /\ s \in Changing
      <4>1. task[d].step \in Changing BY <3>2 DEF QuietMove, Changing
      <4>. QED BY <4>1 DEF RowsOf
    <3>. QED BY <3>1, <3>2
  <2>. QED BY <1>0, <1>1, <1>2, <2>2, <2>3, <2>4, <2>5, <2>6, <2>7 DEF RowsOf, At, Early, Saving
<1>4. ASSUME OutcomeOf(d) PROVE OutcomeOf(d)'
  <2>1. Installed(d, InstalledBy(task[d].step)) /\ (journal[d].phase = "DONE" => Installed(d, File))
    BY <1>4 DEF OutcomeOf
  <2>2. Installed(d, InstalledBy(s))
    BY <2>1 DEF Installed, InstalledBy, QuietMove, Changing
  <2>3. Installed(d, InstalledBy(task[d].step))' /\ (journal'[d].phase = "DONE" => Installed(d, File)')
    BY <1>1, <2>1, <2>2 DEF Installed
  <2>4. Upgrade(d)' /\ flaw'[d] = {} => Upgrade(d) /\ flaw[d] = {} BY DEF Upgrade
  <2>5. s \in Untouching => task[d].step \in Untouching
    BY DEF QuietMove, Untouching, Early, Saving, Changing
  <2>6. Untouched(d)' <=> Untouched(d) BY DEF Untouched
  <2>7. s = "report" => journal[d].phase # "ROLLING_BACK"
    BY DEF QuietMove, RowsOf, At
  <2>. QED BY <1>1, <1>2, <1>4, <2>3, <2>4, <2>5, <2>6, <2>7 DEF OutcomeOf, At
<1>. QED BY <1>3, <1>4

(* Before the first file is replaced. *)
LEMMA UntouchingStep ==
    ASSUME NEW d \in Request, task[d].step \in Untouching, task'[d].step \in Untouching,
           journal'[d].phase # "DONE", UNCHANGED <<host, before>>, flaw[d] \subseteq flaw'[d],
           OutcomeOf(d)
    PROVE  OutcomeOf(d)'
<1>1. Upgrade(d)' /\ flaw'[d] = {} => Untouched(d)'
  BY DEF OutcomeOf, Upgrade, Untouched
<1>2. Installed(d, InstalledBy(task[d].step))'
  BY DEF Installed, InstalledBy, Untouching, Early, Saving
<1>3. task'[d].step \notin Rollback \cup {"closing", "idle", "report"}
  BY DEF Untouching, Early, Saving, Rollback
<1>. QED BY <1>1, <1>2, <1>3 DEF OutcomeOf, At

LEMMA SavingEnd ==
    ASSUME TypeOK, NEW d \in Request, ControlOf(d), RowsOf(d),
           \/ CreateDeployment(d) \/ Inspect(d) \/ OpenBackup(d) \/ WriteBackup(d)
           \/ SetDeploymentBackups(d)
    PROVE  RowsOf(d)' /\ (OutcomeOf(d) => OutcomeOf(d)')
<1>type. /\ task[d] \in Task /\ task \in [Request -> Task] /\ journal \in [Request -> Row]
         /\ before \in [Request -> [host : Files, service : Version \cup {NoFile}]]
  BY DEF TypeOK
<1>flaw. flaw[d] \subseteq flaw'[d] BY AdvanceIsLocal DEF Advance, Local
<1>exec. exec[d] # "SUCCESS" /\ exec'[d] = exec[d] /\ ~task[d].recovering
  <2>1. task[d].step \in {"create", "inspect"} \cup Saving
    BY DEF CreateDeployment, Inspect, OpenBackup, WriteBackup, SetDeploymentBackups, At, Saving
  <2>2. exec' = exec
    BY DEF CreateDeployment, Inspect, OpenBackup, WriteBackup, SetDeploymentBackups
  <2>. QED BY <2>1, <2>2 DEF RowsOf, ControlOf, At, Saving, Rollback
<1>1. CASE CreateDeployment(d)
  <2>1. /\ At(d, "create") /\ Goto(d, "fetch") /\ "fetch" \in Step /\ host' = host
        /\ journal'[d] = [phase |-> "PREPARING", saved |-> {}]
        /\ before'[d] = [host |-> host, service |-> service]
    BY <1>type, <1>1 DEF CreateDeployment, Step, onHost
  <2>2. task'[d].step = "fetch" /\ task'[d].kept = {} /\ ~task'[d].recovering
    BY <1>exec, <2>1, GotoFields DEF ControlOf
  <2>3. journal'[d].phase = "PREPARING" /\ journal'[d].saved = {} BY <2>1
  <2>4. RowsOf(d)'
    BY <1>exec, <2>2, <2>3 DEF RowsOf, At, Early, Saving, Changing, Rollback, Unfinished
  <2>5. Untouched(d)' BY <2>1 DEF Untouched
  <2>6. OutcomeOf(d)'
    BY <2>2, <2>3, <2>5 DEF OutcomeOf, Installed, InstalledBy, At, Rollback
  <2>. QED BY <2>4, <2>6
<1>2. CASE Inspect(d)
  <2>1. /\ At(d, "inspect") /\ host' = host /\ before' = before
        /\ journal[d].saved = {} /\ task[d].kept = {} /\ journal[d].phase # "DONE"
    BY <1>2 DEF Inspect, onHost, around, history, RowsOf, Early, At
  <2>2. CASE host["binary"] = NoFile
    <3>1. Goto(d, "binary") /\ "binary" \in Step /\ journal' = journal
      BY <1>2, <2>2 DEF Inspect, Step
    <3>2. task'[d].step = "binary" /\ task'[d].kept = {} /\ ~task'[d].recovering
      BY <1>exec, <2>1, <3>1, GotoFields
    <3>3. RowsOf(d)'
      BY <1>exec, <2>1, <3>1, <3>2 DEF RowsOf, At, Early, Saving, Changing, Rollback
    <3>. QED BY <1>flaw, <2>1, <3>1, <3>2, <3>3, UntouchingStep DEF Untouching, At, Early
  <2>3. CASE host["binary"] # NoFile
    <3>1. journal'[d] = [phase |-> "STOPPED", saved |-> {"binary"}]
      BY <1>type, <1>2, <2>1, <2>3 DEF Inspect
    <3>2. journal'[d].phase = "STOPPED" /\ journal'[d].saved = {"binary"} BY <3>1
    <3>3. task'[d].step = "open" /\ task'[d].kept = {"binary"} /\ ~task'[d].recovering
      BY <1>type, <1>exec, <1>2, <2>3 DEF Inspect, Task
    <3>4. RowsOf(d)'
      BY <1>exec, <3>2, <3>3 DEF RowsOf, At, Early, Saving, Changing, Rollback
    <3>. QED BY <1>flaw, <2>1, <3>2, <3>3, <3>4, UntouchingStep DEF Untouching, At, Early, Saving
  <2>. QED BY <2>2, <2>3
<1>3. CASE OpenBackup(d) \/ WriteBackup(d)
  <2>1. /\ task[d].step \in {"open", "write"} /\ host' = host /\ before' = before
        /\ journal' = journal
    BY <1>3 DEF OpenBackup, WriteBackup, At, onHost, around, history
  <2>2. journal[d].saved = {"binary"} /\ "binary" \in task[d].kept /\ journal[d].phase # "DONE"
    BY <2>1 DEF RowsOf, Saving
  <2>3. /\ task'[d].step \in {"open", "write", "stop"} /\ task[d].kept \subseteq task'[d].kept
        /\ ~task'[d].recovering
    <3>1. CASE task' = [task EXCEPT ![d] = NextBackup(d)]
      BY <1>exec, <3>1, NextBackupType, NextBackupFields, PutTask
    <3>2. CASE task' = [task EXCEPT ![d].step = "write", ![d].data = host[task[d].file],
                                    ![d].kept = @ \cup {task[d].file}]
      BY <1>exec, <3>2, WriteFields
    <3>. QED BY <1>3, <3>1, <3>2 DEF OpenBackup, WriteBackup
  <2>4. RowsOf(d)'
    BY <1>exec, <2>1, <2>2, <2>3 DEF RowsOf, At, Early, Saving, Changing, Rollback
  <2>. QED BY <1>flaw, <2>1, <2>2, <2>3, <2>4, UntouchingStep DEF Untouching, Saving
<1>4. CASE SetDeploymentBackups(d)
  <2>1. /\ At(d, "record") /\ host' = host /\ before' = before
        /\ Goto(d, "binary") /\ "binary" \in Step /\ journal[d].phase # "DONE"
    BY <1>4 DEF SetDeploymentBackups, Step, onHost, around, history, RowsOf, At
  <2>2. journal'[d].phase = journal[d].phase /\ journal'[d].saved = task[d].kept
    BY <1>type, <1>4 DEF SetDeploymentBackups, Row
  <2>3. task'[d].step = "binary" /\ task'[d].kept = task[d].kept /\ ~task'[d].recovering
    BY <1>exec, <2>1, GotoFields
  <2>4. RowsOf(d)'
    BY <1>exec, <2>1, <2>2, <2>3 DEF RowsOf, At, Early, Saving, Changing, Rollback
  <2>. QED BY <1>flaw, <2>1, <2>2, <2>3, <2>4, UntouchingStep DEF Untouching, Saving, At
<1>. QED BY <1>1, <1>2, <1>3, <1>4

(* A file after the other: those before it are in place. *)
LEMMA InstallStep ==
    ASSUME TypeOK, NEW d \in Request, NEW s \in Step, Goto(d, s), RowsOf(d), ControlOf(d),
           task[d].step \in Changing, s \in Changing \ {"binary"},
           UNCHANGED <<journal, exec, brings>>,
           OutcomeOf(d) => \A f \in brings[d] \cap InstalledBy(s) : host'[f] = d
    PROVE  RowsOf(d)' /\ (OutcomeOf(d) => OutcomeOf(d)')
<1>1. /\ task'[d].step = s /\ task'[d].kept = task[d].kept
      /\ task'[d].recovering = task[d].recovering
  BY GotoFields
<1>2. /\ exec[d] # "SUCCESS" /\ journal[d].phase # "DONE" /\ ~task[d].recovering
      /\ journal[d].saved = task[d].kept
  BY DEF RowsOf, ControlOf, Changing, Rollback, At
<1>3. s \notin Rollback \cup Untouching \cup Saving \cup Early
                \cup {"idle", "register", "report", "closing"}
  BY DEF Changing, Untouching, Early, Saving, Rollback
<1>4. RowsOf(d)' BY <1>1, <1>2, <1>3 DEF RowsOf, At, Rollback
<1>5. ASSUME OutcomeOf(d) PROVE OutcomeOf(d)'
  <2>1. Installed(d, InstalledBy(task[d].step))' BY <1>1, <1>5 DEF Installed
  <2>. QED BY <1>1, <1>2, <1>3, <2>1 DEF OutcomeOf, At
<1>. QED BY <1>4, <1>5

LEMMA ChangingEnd ==
    ASSUME TypeOK, NEW d \in Request, ControlOf(d), RowsOf(d),
           \/ Fetch(d) \/ StopOld(d) \/ InstallBinary(d) \/ InstallConfig(d) \/ InstallUnit(d)
           \/ WriteUnit(d) \/ EnableService(d) \/ StartService(d) \/ CheckHealth(d)
           \/ RegisterUnit(d)
    PROVE  RowsOf(d)' /\ (OutcomeOf(d) => OutcomeOf(d)')
<1>type. /\ host \in Files /\ flaw[d] \subseteq flaw'[d] /\ UNCHANGED <<journal, before, brings, exec>>
  <2>1. flaw[d] \subseteq flaw'[d] BY AdvanceIsLocal DEF Advance, Local
  <2>2. UNCHANGED <<journal, before, brings, exec>>
    BY DEF Fetch, StopOld, InstallBinary, InstallConfig, InstallUnit, WriteUnit, EnableService,
           StartService, CheckHealth, RegisterUnit, around, history
  <2>. QED BY <2>1, <2>2 DEF TypeOK
<1>quiet. ASSUME host' = host, \E s \in Step : Goto(d, s) /\ QuietMove(task[d], s, brings[d])
          PROVE  RowsOf(d)' /\ (OutcomeOf(d) => OutcomeOf(d)')
  BY <1>type, <1>quiet, QuietStep
<1>undo. ASSUME task[d].step \in Changing, Goto(d, "undo")
         PROVE  RowsOf(d)' /\ (OutcomeOf(d) => OutcomeOf(d)')
  <2>1. "undo" \in Step \cap Changing /\ InstalledBy("undo") = {} BY DEF Step, Changing, InstalledBy
  <2>. QED BY <1>type, <1>undo, <2>1, InstallStep
<1>1. CASE Fetch(d) BY <1>quiet, <1>1 DEF Fetch, QuietMove, At, Step, onHost
<1>2. CASE StopOld(d) BY <1>quiet, <1>2 DEF StopOld, QuietMove, At, Step
<1>3. CASE InstallBinary(d)
  <2>1. At(d, "binary") BY <1>3 DEF InstallBinary
  <2>2. CASE Goto(d, "replaced") /\ host' = [host EXCEPT !["binary"] = d]
    <3>1. "replaced" \in Step \cap Changing /\ InstalledBy("replaced") = {"binary"}
      BY DEF Step, Changing, InstalledBy
    <3>2. host'["binary"] = d BY <1>type, <2>2 DEF Files, File
    <3>. QED BY <1>type, <2>1, <2>2, <3>1, <3>2, InstallStep DEF At, Changing
  <2>3. CASE /\ host' = host
             /\ Goto(d, "abort") \/ Goto(d, "undo") \/ (Goto(d, "config") /\ "binary" \notin brings[d])
    BY <1>quiet, <2>1, <2>3 DEF QuietMove, At, Step, Changing
  <2>. QED BY <1>3, <2>2, <2>3 DEF InstallBinary
<1>4. CASE InstallConfig(d)
  <2>1. At(d, "config") BY <1>4 DEF InstallConfig
  <2>2. CASE Goto(d, "unit") /\ host' = [host EXCEPT !["config"] = d]
    <3>1. /\ "unit" \in Step \cap Changing /\ InstalledBy("unit") = {"binary", "config"}
          /\ InstalledBy("config") = {"binary"}
      BY DEF Step, Changing, InstalledBy
    <3>2. host'["config"] = d /\ host'["binary"] = host["binary"]
      BY <1>type, <2>2 DEF Files, File
    <3>3. OutcomeOf(d) => \A f \in brings[d] \cap {"binary"} : host[f] = d
      BY <2>1, <3>1 DEF OutcomeOf, Installed, At
    <3>. QED BY <1>type, <2>1, <2>2, <3>1, <3>2, <3>3, InstallStep DEF At, Changing
  <2>3. CASE /\ host' = host
             /\ Goto(d, "undo") \/ (Goto(d, "unit") /\ "config" \notin brings[d])
    BY <1>quiet, <2>1, <2>3 DEF QuietMove, At, Step, Changing
  <2>. QED BY <1>4, <2>2, <2>3 DEF InstallConfig
<1>5. CASE InstallUnit(d)
  <2>1. At(d, "unit") BY <1>5 DEF InstallUnit
  <2>2. CASE Goto(d, "unitBody") /\ host' = [host EXCEPT !["unit"] = Torn]
    <3>1. /\ "unitBody" \in Step \cap Changing /\ InstalledBy("unit") = {"binary", "config"}
          /\ InstalledBy("unitBody") = {"binary", "config"}
      BY DEF Step, Changing, InstalledBy
    <3>2. host'["config"] = host["config"] /\ host'["binary"] = host["binary"]
      BY <1>type, <2>2 DEF Files, File
    <3>3. OutcomeOf(d) => \A f \in brings[d] \cap {"binary", "config"} : host[f] = d
      BY <2>1, <3>1 DEF OutcomeOf, Installed, At
    <3>. QED BY <1>type, <2>1, <2>2, <3>1, <3>2, <3>3, InstallStep DEF At, Changing
  <2>. QED BY <1>5, <1>undo, <2>1, <2>2 DEF InstallUnit, At, Changing
<1>6. CASE WriteUnit(d)
  <2>1. At(d, "unitBody") BY <1>6 DEF WriteUnit
  <2>2. CASE Goto(d, "enable") /\ host' = [host EXCEPT !["unit"] = d]
    <3>1. /\ "enable" \in Step \cap Changing /\ InstalledBy("enable") = File
          /\ InstalledBy("unitBody") = {"binary", "config"}
      BY DEF Step, Changing, InstalledBy
    <3>2. host'["unit"] = d /\ host'["config"] = host["config"] /\ host'["binary"] = host["binary"]
      BY <1>type, <2>2 DEF Files, File
    <3>3. OutcomeOf(d) => \A f \in brings[d] \cap {"binary", "config"} : host[f] = d
      BY <2>1, <3>1 DEF OutcomeOf, Installed, At
    <3>. QED BY <1>type, <2>1, <2>2, <3>1, <3>2, <3>3, InstallStep DEF At, Changing, File
  <2>. QED BY <1>6, <1>undo, <2>1, <2>2 DEF WriteUnit, At, Changing
<1>7. CASE EnableService(d) BY <1>quiet, <1>7 DEF EnableService, QuietMove, At, Step, onHost, Changing
<1>8. CASE StartService(d) BY <1>quiet, <1>8 DEF StartService, QuietMove, At, Step, Changing
<1>9. CASE CheckHealth(d) BY <1>quiet, <1>9 DEF CheckHealth, QuietMove, At, Step, onHost, Changing
<1>10. CASE RegisterUnit(d) BY <1>quiet, <1>10 DEF RegisterUnit, QuietMove, At, Step, onHost
<1>. QED BY <1>1, <1>2, <1>3, <1>4, <1>5, <1>6, <1>7, <1>8, <1>9, <1>10

(* The entries between the files. *)
LEMMA PhaseEnd ==
    ASSUME TypeOK, NEW d \in Request, ControlOf(d), JournalOf(d), RowsOf(d), UpdatePhase(d)
    PROVE  RowsOf(d)' /\ (OutcomeOf(d) => OutcomeOf(d)')
<1>type. /\ UNCHANGED <<host, backup, before, brings, exec, flaw>>
         /\ task[d] \in Task
  BY DEF UpdatePhase, onHost, around, history, TypeOK
<1>exec. exec[d] # "SUCCESS" /\ exec'[d] = exec[d] /\ ~task[d].recovering
         /\ journal[d].phase \in Unfinished
  BY DEF UpdatePhase, RowsOf, ControlOf, At, Rollback
<1>1. ASSUME NEW p \in Phase, NEW s \in Step, SetPhase(d, p), Goto(d, s)
      PROVE  /\ task'[d].step = s /\ task'[d].kept = task[d].kept /\ ~task'[d].recovering
             /\ journal'[d].phase = p
             /\ task[d].step \in Changing => journal'[d].saved = task'[d].kept
  <2>1. /\ task'[d].step = s /\ task'[d].kept = task[d].kept /\ ~task'[d].recovering
    BY <1>exec, <1>1, GotoFields
  <2>2. task[d].step \in Changing => journal[d].saved = task[d].kept BY DEF RowsOf
  <2>. QED BY <1>1, <2>1, <2>2, SetPhaseIs
<1>2. CASE \E move \in {<<"replaced", "REPLACED", "config">>, <<"started", "STARTED", "start">>,
                        <<"verifying", "VERIFYING", "check">>} :
             At(d, move[1]) /\ SetPhase(d, move[2]) /\ Goto(d, move[3])
  <2>1. /\ task[d].step \in {"replaced", "started", "verifying"}
        /\ task'[d].step = IF At(d, "replaced") THEN "config"
                           ELSE IF At(d, "started") THEN "start" ELSE "check"
        /\ ~task'[d].recovering /\ journal'[d].saved = task'[d].kept
        /\ journal'[d].phase \in {"REPLACED", "STARTED", "VERIFYING"}
    <3>1. {"config", "start", "check"} \subseteq Step /\ {"REPLACED", "STARTED", "VERIFYING"} \subseteq Phase
      BY DEF Step, Phase
    <3>2. CASE At(d, "replaced") /\ SetPhase(d, "REPLACED") /\ Goto(d, "config")
      BY <1>1, <3>1, <3>2 DEF At, Changing
    <3>3. CASE At(d, "started") /\ SetPhase(d, "STARTED") /\ Goto(d, "start")
      BY <1>1, <3>1, <3>3 DEF At, Changing
    <3>4. CASE At(d, "verifying") /\ SetPhase(d, "VERIFYING") /\ Goto(d, "check")
      BY <1>1, <3>1, <3>4 DEF At, Changing
    <3>. QED BY <1>2, <3>2, <3>3, <3>4
  <2>2. RowsOf(d)'
    BY <1>exec, <2>1 DEF RowsOf, At, Early, Saving, Changing, Rollback
  <2>3. InstalledBy(task'[d].step) = InstalledBy(task[d].step) BY <2>1 DEF InstalledBy, At
  <2>4. task'[d].step \notin Untouching \cup Rollback \cup {"closing", "idle", "report"}
    BY <2>1 DEF Untouching, Early, Saving, Rollback
  <2>5. OutcomeOf(d) => Installed(d, InstalledBy(task[d].step))'
    BY <1>type, <2>3 DEF OutcomeOf, Installed
  <2>6. OutcomeOf(d) => OutcomeOf(d)'
    BY <2>1, <2>4, <2>5 DEF OutcomeOf, At
  <2>. QED BY <2>2, <2>6
<1>3. CASE At(d, "done") /\ SetPhase(d, "DONE") /\ Goto(d, "register")
  <2>1. /\ task'[d].step = "register" /\ ~task'[d].recovering /\ journal'[d].phase = "DONE"
    BY <1>1, <1>3 DEF Step, Phase
  <2>2. RowsOf(d)' BY <1>exec, <2>1 DEF RowsOf, At, Early, Saving, Changing, Rollback
  <2>3. InstalledBy("done") = File /\ InstalledBy("register") = File BY DEF InstalledBy
  <2>4. OutcomeOf(d) => Installed(d, File)' BY <1>type, <1>3, <2>3 DEF OutcomeOf, Installed, At
  <2>5. OutcomeOf(d) => OutcomeOf(d)'
    BY <2>1, <2>3, <2>4 DEF OutcomeOf, At, Untouching, Early, Saving, Rollback
  <2>. QED BY <2>2, <2>5
<1>4. CASE At(d, "undo") /\ SetPhase(d, "ROLLING_BACK") /\ Goto(d, "stopNew")
  <2>1. /\ task'[d].step = "stopNew" /\ ~task'[d].recovering /\ task'[d].kept = task[d].kept
        /\ journal'[d].phase = "ROLLING_BACK" /\ journal'[d].saved = task'[d].kept
    BY <1>1, <1>4 DEF Step, Rollback, Phase, At, Changing
  <2>2. RowsOf(d)' BY <1>exec, <2>1 DEF RowsOf, At, Early, Saving, Changing, Rollback
  <2>3. ASSUME Upgrade(d)', flaw'[d] = {} PROVE Rolling(d)'
    <3>1. Secured(d) /\ "binary" \in task[d].kept /\ journal[d].saved = task[d].kept
      BY <1>type, <1>exec, <1>4, <2>3 DEF Upgrade, Clean, JournalOf, Undoable, RowsOf, At, Changing
    <3>2. ToRestore(task'[d]) = File BY <2>1 DEF ToRestore
    <3>. QED BY <1>type, <2>1, <3>1, <3>2 DEF Secured, Rolling, Kept, At
  <2>4. OutcomeOf(d)'
    BY <2>1, <2>3 DEF OutcomeOf, Installed, InstalledBy, At, Untouching, Early, Saving
  <2>. QED BY <2>2, <2>4
<1>5. CASE At(d, "abort") /\ SetPhase(d, "ROLLING_BACK") /\ Goto(d, "report")
  <2>1. task'[d].step = "report" /\ ~task'[d].recovering /\ journal'[d].phase = "ROLLING_BACK"
    BY <1>1, <1>5 DEF Step, Phase
  <2>2. RowsOf(d)' BY <1>exec, <2>1 DEF RowsOf, At, Early, Saving, Changing, Rollback
  <2>3. ASSUME OutcomeOf(d), Upgrade(d)', flaw'[d] = {} PROVE Restored(d)'
    BY <1>type, <1>5, <2>3 DEF OutcomeOf, Upgrade, At, Untouching, Untouched, Restored
  <2>4. OutcomeOf(d) => OutcomeOf(d)'
    BY <2>1, <2>3 DEF OutcomeOf, Installed, InstalledBy, At, Untouching, Early, Saving, Rollback
  <2>. QED BY <2>2, <2>4
<1>. QED BY <1>2, <1>3, <1>4, <1>5 DEF UpdatePhase

LEMMA ReportEnd ==
    ASSUME TypeOK, NEW d \in Request, ControlOf(d), RowsOf(d), ReportResult(d)
    PROVE  RowsOf(d)' /\ (OutcomeOf(d) => OutcomeOf(d)')
<1>1. /\ UNCHANGED <<host, journal, before, brings, flaw>> /\ At(d, "report")
      /\ exec'[d] = IF journal[d].phase = "DONE" THEN "SUCCESS" ELSE "FAILED"
      /\ task'[d] = Idle /\ Idle.step = "idle" /\ ~Idle.recovering
  BY DEF ReportResult, onHost, around, history, TypeOK, Idle
<1>2. RowsOf(d)' BY <1>1 DEF RowsOf, At, Early, Saving, Changing, Rollback
<1>3. ASSUME OutcomeOf(d) PROVE OutcomeOf(d)'
  <2>1. journal'[d].phase = "DONE" => Installed(d, File)' BY <1>1, <1>3 DEF OutcomeOf, Installed
  <2>2. Upgrade(d)' /\ flaw'[d] = {} /\ journal'[d].phase = "ROLLING_BACK" => Restored(d)'
    BY <1>1, <1>3 DEF OutcomeOf, Upgrade, Restored, At
  <2>. QED BY <1>1, <2>1, <2>2
       DEF OutcomeOf, Installed, InstalledBy, At, Untouching, Early, Saving, Rollback
<1>. QED BY <1>2, <1>3

-----------------------------------------------------------------------------
(* A rollback puts one file back after the other. *)
LEMMA RollbackRows ==
    ASSUME NEW d \in Request, RowsOf(d), ControlOf(d), task[d].step \in Rollback,
           task'[d].step \in Rollback \cup {"closing", "report"},
           task'[d].step = "closing" => task[d].recovering,
           task'[d].step = "report" => ~task[d].recovering,
           task'[d].step = "restoreUnit" => task'[d].file = "unit",
           task'[d].kept = task[d].kept, task'[d].recovering = task[d].recovering,
           journal' = journal, exec' = exec
    PROVE  RowsOf(d)' /\ journal[d].phase # "DONE"
<1>1. /\ exec[d] # "SUCCESS" /\ journal[d].saved = task[d].kept
      /\ ~task[d].recovering => journal[d].phase = "ROLLING_BACK"
      /\ task[d].recovering => journal[d].phase \in Unfinished
  BY DEF RowsOf, At, Rollback
<1>2. journal[d].phase # "DONE" BY <1>1 DEF Unfinished
<1>. QED BY <1>1, <1>2 DEF RowsOf, At, Early, Saving, Changing, Rollback

LEMMA RollbackOutcome ==
    ASSUME NEW d \in Request, task'[d].step \in Rollback \cup {"closing", "report"},
           journal[d].phase # "DONE", journal' = journal,
           Upgrade(d)' /\ flaw'[d] = {} =>
             IF task'[d].step \in Rollback THEN Rolling(d)' ELSE Restored(d)'
    PROVE  OutcomeOf(d)'
BY DEF OutcomeOf, Installed, InstalledBy, At, Untouching, Early, Saving, Rollback

LEMMA RollbackTypes ==
    ASSUME TypeOK, NEW d \in Request, StopNew(d) \/ Restore(d) \/ RestoreUnit(d) \/ StartPrevious(d)
    PROVE  /\ task[d] \in Task /\ task[d].file \in File /\ task[d].restored \in BOOLEAN
           /\ task \in [Request -> Task] /\ host \in Files /\ backup[d] \in Files
           /\ flaw[d] \subseteq flaw'[d] /\ task[d].step \in Rollback
           /\ UNCHANGED <<journal, backup, before, brings, exec>>
<1>1. flaw[d] \subseteq flaw'[d] BY AdvanceIsLocal DEF Advance, Local
<1>2. task[d].step \in Rollback
  BY DEF StopNew, Restore, RestoreUnit, StartPrevious, At, Rollback
<1>3. UNCHANGED <<journal, backup, before, brings, exec>>
  BY DEF StopNew, Restore, RestoreUnit, StartPrevious, around, history
<1>. QED BY <1>1, <1>2, <1>3 DEF TypeOK, Task

LEMMA StopNewEnd ==
    ASSUME TypeOK, NEW d \in Request, ControlOf(d), RowsOf(d), StopNew(d)
    PROVE  RowsOf(d)' /\ (OutcomeOf(d) => OutcomeOf(d)')
<1>type. /\ task[d] \in Task /\ task \in [Request -> Task] /\ flaw[d] \subseteq flaw'[d]
         /\ task[d].step \in Rollback /\ UNCHANGED <<journal, backup, before, brings, exec>>
  BY RollbackTypes
<1>0. At(d, "stopNew") /\ host' = host BY DEF StopNew
<1>1. CASE "binary" \in task[d].kept
  <2>1. /\ task'[d].step = "restore" /\ task'[d].file = "binary" /\ task'[d].kept = task[d].kept
        /\ task'[d].recovering = task[d].recovering
    BY <1>type, <1>1 DEF StopNew, Task
  <2>2. RowsOf(d)' /\ journal[d].phase # "DONE"
    BY <1>type, <2>1, RollbackRows DEF Rollback
  <2>3. ASSUME OutcomeOf(d), Upgrade(d)', flaw'[d] = {} PROVE Rolling(d)'
    <3>1. Rolling(d) BY <1>type, <2>3 DEF OutcomeOf, Upgrade
    <3>2. ToRestore(task[d]) = File /\ ToRestore(task'[d]) = File BY <1>0, <2>1 DEF ToRestore, At
    <3>. QED BY <1>type, <1>0, <2>1, <3>1, <3>2 DEF Rolling, Safe, Kept, At
  <2>. QED BY <1>type, <2>1, <2>2, <2>3, RollbackOutcome DEF Rollback
<1>2. CASE "binary" \notin task[d].kept
  <2>1. /\ task'[d].step \in {"closing", "report"} /\ task'[d].kept = task[d].kept
        /\ task'[d].recovering = task[d].recovering
        /\ task'[d].step = "closing" => task[d].recovering
        /\ task'[d].step = "report" => ~task[d].recovering
    BY <1>2, EndRollbackFields DEF StopNew
  <2>2. RowsOf(d)' /\ journal[d].phase # "DONE"
    BY <1>type, <2>1, RollbackRows
  <2>3. ASSUME OutcomeOf(d), Upgrade(d)', flaw'[d] = {} PROVE Restored(d)'
    <3>1. Rolling(d) BY <1>type, <2>3 DEF OutcomeOf, Upgrade
    <3>. QED BY <1>type, <1>0, <1>2, <3>1 DEF Rolling, Restored
  <2>4. task'[d].step \notin Rollback BY <2>1 DEF Rollback
  <2>. QED BY <1>type, <2>1, <2>2, <2>3, <2>4, RollbackOutcome
<1>. QED BY <1>1, <1>2

LEMMA StartPreviousEnd ==
    ASSUME TypeOK, NEW d \in Request, ControlOf(d), RowsOf(d), StartPrevious(d)
    PROVE  RowsOf(d)' /\ (OutcomeOf(d) => OutcomeOf(d)')
<1>type. /\ flaw[d] \subseteq flaw'[d] /\ task[d].step \in Rollback
         /\ UNCHANGED <<journal, backup, before, brings, exec>>
  BY RollbackTypes
<1>0. At(d, "startPrevious") /\ host' = host BY DEF StartPrevious
<1>1. /\ task'[d].step \in {"closing", "report"} /\ task'[d].kept = task[d].kept
      /\ task'[d].recovering = task[d].recovering
      /\ task'[d].step = "closing" => task[d].recovering
      /\ task'[d].step = "report" => ~task[d].recovering
  BY EndRollbackFields DEF StartPrevious
<1>2. RowsOf(d)' /\ journal[d].phase # "DONE" BY <1>type, <1>1, RollbackRows
<1>3. ASSUME OutcomeOf(d), Upgrade(d)', flaw'[d] = {} PROVE Restored(d)'
  <2>1. Rolling(d) BY <1>type, <1>3 DEF OutcomeOf, Upgrade
  <2>2. ToRestore(task[d]) = {} BY <1>0 DEF ToRestore, At
  <2>. QED BY <1>type, <1>0, <2>1, <2>2 DEF Rolling, Restored, Safe
<1>4. task'[d].step \notin Rollback BY <1>1 DEF Rollback
<1>. QED BY <1>type, <1>1, <1>2, <1>3, <1>4, RollbackOutcome

LEMMA NextRestoreIs ==
    ASSUME TypeOK, NEW d \in Request, NEW r \in BOOLEAN, task' = [task EXCEPT ![d] = NextRestore(d, r)]
    PROVE  /\ task'[d].step = IF task[d].file = "unit" THEN "startPrevious" ELSE "restore"
           /\ task'[d].file = NextFile(task[d].file)
           /\ task'[d].kept = task[d].kept /\ task'[d].recovering = task[d].recovering
           /\ task'[d].step \in Rollback /\ task'[d].step # "restoreUnit"
           /\ ToRestore(task'[d]) = IF task[d].file = "binary" THEN {"config", "unit"}
                                    ELSE IF task[d].file = "config" THEN {"unit"} ELSE {}
<1>1. task[d] \in Task BY DEF TypeOK
<1>2. task'[d] = NextRestore(d, r) BY NextRestoreType, PutTask
<1>3. /\ task'[d].step = IF task[d].file = "unit" THEN "startPrevious" ELSE "restore"
      /\ task'[d].file = NextFile(task[d].file)
      /\ task'[d].kept = task[d].kept /\ task'[d].recovering = task[d].recovering
  <2>1. /\ NextRestore(d, r).step = IF task[d].file = "unit" THEN "startPrevious" ELSE "restore"
        /\ NextRestore(d, r).file = NextFile(task[d].file)
    BY <1>1 DEF NextRestore, Task
  <2>. QED BY <1>2, <2>1, NextRestoreFields
<1>4. task[d].file \in File BY <1>1 DEF Task
<1>5. task'[d].step \in Rollback /\ task'[d].step # "restoreUnit" BY <1>3 DEF Rollback
<1>. QED BY <1>3, <1>4, <1>5 DEF ToRestore, NextFile, File

LEMMA RestoreEnd ==
    ASSUME TypeOK, NEW d \in Request, ControlOf(d), RowsOf(d), Restore(d)
    PROVE  RowsOf(d)' /\ (OutcomeOf(d) => OutcomeOf(d)')
<1>. DEFINE f == task[d].file
            readable == f \in task[d].kept /\ backup[d][f] # NoFile
<1>type. /\ task[d] \in Task /\ task[d].file \in File /\ task[d].restored \in BOOLEAN
         /\ host \in Files /\ flaw[d] \subseteq flaw'[d]
         /\ task[d].step \in Rollback /\ UNCHANGED <<journal, backup, before, brings, exec>>
         /\ flaw \in [Request -> SUBSET Flaw]
  BY RollbackTypes DEF TypeOK
<1>0. At(d, "restore") BY DEF Restore
<1>next. ASSUME \E r \in BOOLEAN : task' = [task EXCEPT ![d] = NextRestore(d, r)]
         PROVE  /\ task'[d].step \in Rollback /\ task'[d].step # "stopNew"
                /\ task'[d].step # "restoreUnit" /\ task'[d].kept = task[d].kept
                /\ ToRestore(task[d]) \subseteq ToRestore(task'[d]) \cup {f}
                /\ RowsOf(d)' /\ journal[d].phase # "DONE"
  <2>1. /\ task'[d].step = IF f = "unit" THEN "startPrevious" ELSE "restore"
        /\ task'[d].kept = task[d].kept /\ task'[d].recovering = task[d].recovering
        /\ task'[d].step \in Rollback /\ task'[d].step # "restoreUnit"
        /\ ToRestore(task'[d]) = IF f = "binary" THEN {"config", "unit"}
                                 ELSE IF f = "config" THEN {"unit"} ELSE {}
    BY <1>next, NextRestoreIs
  <2>2. RowsOf(d)' /\ journal[d].phase # "DONE"
    BY <1>type, <2>1, RollbackRows DEF Rollback
  <2>3. ToRestore(task[d]) \subseteq ToRestore(task'[d]) \cup {f}
    BY <1>type, <1>0, <2>1 DEF ToRestore, At, File
  <2>. QED BY <2>1, <2>2, <2>3
<1>rolling. ASSUME OutcomeOf(d), Upgrade(d)', flaw'[d] = {} PROVE Rolling(d)
  BY <1>type, <1>rolling DEF OutcomeOf, Upgrade
<1>1. CASE /\ ~readable /\ host' = host
           /\ task' = [task EXCEPT ![d] = NextRestore(d, task[d].restored)]
  <2>1. /\ task'[d].step \in Rollback /\ task'[d].step # "stopNew"
        /\ task'[d].step # "restoreUnit" /\ task'[d].kept = task[d].kept
        /\ ToRestore(task[d]) \subseteq ToRestore(task'[d]) \cup {f}
        /\ RowsOf(d)' /\ journal[d].phase # "DONE"
    BY <1>type, <1>1, <1>next
  <2>2. ASSUME OutcomeOf(d), Upgrade(d)', flaw'[d] = {} PROVE Rolling(d)'
    BY <1>type, <1>1, <1>rolling, <2>1, <2>2 DEF Rolling, Safe, Kept, At
  <2>. QED BY <1>type, <2>1, <2>2, RollbackOutcome
<1>2. CASE /\ readable /\ f # "unit" /\ host' = [host EXCEPT ![f] = backup[d][f]]
           /\ \E r \in BOOLEAN : task' = [task EXCEPT ![d] = NextRestore(d, r)]
  <2>1. /\ task'[d].step \in Rollback /\ task'[d].step # "stopNew"
        /\ task'[d].step # "restoreUnit" /\ task'[d].kept = task[d].kept
        /\ ToRestore(task[d]) \subseteq ToRestore(task'[d]) \cup {f}
        /\ RowsOf(d)' /\ journal[d].phase # "DONE"
    BY <1>2, <1>next
  <2>2. /\ host'[f] = backup[d][f] /\ \A g \in File \ {f} : host'[g] = host[g]
    BY <1>type, <1>2 DEF Files
  <2>3. ASSUME OutcomeOf(d), Upgrade(d)', flaw'[d] = {} PROVE Rolling(d)'
    <3>1. Rolling(d) BY <1>rolling, <2>3
    <3>2. ASSUME NEW g \in File, before[d].host[g] # NoFile
          PROVE  Safe(d, g)' \/ (g \in ToRestore(task'[d]) /\ Kept(d, g)')
      <4>1. CASE g = f
        <5>1. backup[d][f] = before[d].host[f]
          BY <1>2, <3>1, <3>2, <4>1 DEF Rolling, Safe, Kept
        <5>. QED BY <1>type, <2>1, <2>2, <4>1, <5>1 DEF Safe
      <4>2. CASE g # f BY <1>type, <2>1, <2>2, <3>1, <3>2, <4>2 DEF Rolling, Safe, Kept
      <4>. QED BY <4>1, <4>2
    <3>. QED BY <1>type, <2>1, <3>2 DEF Rolling, At
  <2>. QED BY <1>type, <2>1, <2>3, RollbackOutcome
<1>3. CASE /\ readable /\ f = "unit" /\ host' = [host EXCEPT ![f] = Torn]
           /\ Goto(d, "restoreUnit")
  <2>1. /\ task'[d].step = "restoreUnit" /\ task'[d].kept = task[d].kept /\ task'[d].file = "unit"
        /\ task'[d].recovering = task[d].recovering
    BY <1>3, GotoFields DEF Step, Rollback
  <2>2. RowsOf(d)' /\ journal[d].phase # "DONE" BY <1>type, <2>1, RollbackRows DEF Rollback
  <2>3. \A g \in File \ {"unit"} : host'[g] = host[g] BY <1>type, <1>3 DEF Files
  <2>4. ToRestore(task[d]) = {"unit"} /\ ToRestore(task'[d]) = {"unit"}
    BY <1>0, <1>3, <2>1 DEF ToRestore, At
  <2>5. ASSUME OutcomeOf(d), Upgrade(d)', flaw'[d] = {} PROVE Rolling(d)'
    <3>1. Rolling(d) BY <1>rolling, <2>5
    <3>2. before[d].host["unit"] # NoFile => Kept(d, "unit")'
      BY <1>type, <1>3, <2>1, <3>1 DEF Rolling, Safe, Kept
    <3>3. \A g \in File \ {"unit"} : before[d].host[g] # NoFile => Safe(d, g)'
      BY <1>type, <2>1, <2>3, <2>4, <3>1 DEF Rolling, Safe
    <3>. QED BY <1>type, <2>1, <2>4, <3>2, <3>3 DEF Rolling, At
  <2>. QED BY <1>type, <2>1, <2>2, <2>5, RollbackOutcome DEF Rollback
<1>4. CASE /\ Spoils(d, "restore")
           /\ task' = [task EXCEPT ![d] = NextRestore(d, task[d].restored)]
  <2>1. flaw'[d] # {} BY <1>type, <1>4 DEF Spoils
  <2>2. task'[d].step \in Rollback /\ RowsOf(d)' /\ journal[d].phase # "DONE"
    BY <1>type, <1>4, <1>next
  <2>. QED BY <1>type, <2>1, <2>2, RollbackOutcome
<1>5. (f = "binary" \/ task[d].restored) \in BOOLEAN BY <1>type
<1>. HIDE DEF readable
<1>. QED BY <1>1, <1>2, <1>3, <1>4, <1>5 DEF Restore, readable

LEMMA RestoreUnitEnd ==
    ASSUME TypeOK, NEW d \in Request, ControlOf(d), RowsOf(d), RestoreUnit(d)
    PROVE  RowsOf(d)' /\ (OutcomeOf(d) => OutcomeOf(d)')
<1>type. /\ task[d] \in Task /\ task[d].restored \in BOOLEAN
         /\ host \in Files /\ flaw[d] \subseteq flaw'[d]
         /\ task[d].step \in Rollback /\ UNCHANGED <<journal, backup, before, brings, exec>>
         /\ flaw \in [Request -> SUBSET Flaw]
  BY RollbackTypes DEF TypeOK
<1>0. At(d, "restoreUnit") /\ task[d].file = "unit" BY DEF RestoreUnit, RowsOf
<1>1. /\ task'[d].step = "startPrevious" /\ task'[d].kept = task[d].kept
      /\ task'[d].recovering = task[d].recovering /\ ToRestore(task'[d]) = {}
  BY <1>type, <1>0, NextRestoreIs DEF RestoreUnit
<1>2. RowsOf(d)' /\ journal[d].phase # "DONE" BY <1>type, <1>1, RollbackRows DEF Rollback
<1>3. CASE Spoils(d, "restore")
  <2>1. flaw'[d] # {} BY <1>type, <1>3 DEF Spoils
  <2>. QED BY <1>type, <1>1, <1>2, <2>1, RollbackOutcome DEF Rollback
<1>4. CASE host' = [host EXCEPT !["unit"] = backup[d]["unit"]]
  <2>1. /\ host'["unit"] = backup[d]["unit"]
        /\ \A g \in File \ {"unit"} : host'[g] = host[g]
    BY <1>type, <1>4 DEF Files, File
  <2>2. ToRestore(task[d]) = {"unit"} BY <1>0 DEF ToRestore, At
  <2>3. ASSUME OutcomeOf(d), Upgrade(d)', flaw'[d] = {} PROVE Rolling(d)'
    <3>1. Rolling(d) BY <1>type, <2>3 DEF OutcomeOf, Upgrade
    <3>2. before[d].host["unit"] # NoFile => Safe(d, "unit")'
      BY <1>type, <1>0, <1>1, <2>1, <3>1 DEF Rolling, Safe, Kept
    <3>3. \A g \in File \ {"unit"} : before[d].host[g] # NoFile => Safe(d, g)'
      BY <1>type, <1>1, <2>1, <2>2, <3>1 DEF Rolling, Safe
    <3>. QED BY <1>type, <1>1, <3>2, <3>3 DEF Rolling, At
  <2>. QED BY <1>type, <1>1, <1>2, <2>3, RollbackOutcome DEF Rollback
<1>. QED BY <1>3, <1>4 DEF RestoreUnit

(* Whatever step it takes, a deployment's rows tell where it is, and the    *)
(* host has what that step promises.                                        *)
LEMMA AdvanceEnd ==
    ASSUME TypeOK, NEW d \in Request, ControlOf(d), JournalOf(d), RowsOf(d), Advance(d)
    PROVE  RowsOf(d)' /\ (OutcomeOf(d) => OutcomeOf(d)')
BY SavingEnd, ChangingEnd, PhaseEnd, ReportEnd, StopNewEnd, RestoreEnd, RestoreUnitEnd,
   StartPreviousEnd DEF Advance

-----------------------------------------------------------------------------
(* What a step that does not concern a deployment leaves it.                *)
LEMMA OthersOutcome ==
    ASSUME NEW d \in Request, host' = host, brings'[d] = brings[d], before'[d] = before[d],
           journal'[d] = journal[d], backup'[d] = backup[d], task'[d] = task[d],
           flaw[d] \subseteq flaw'[d], OutcomeOf(d)
    PROVE  OutcomeOf(d)'
<1>1. /\ Installed(d, InstalledBy(task[d].step))' /\ (Untouched(d)' <=> Untouched(d))
      /\ (Installed(d, File)' <=> Installed(d, File)) /\ (Restored(d)' <=> Restored(d))
  BY DEF OutcomeOf, Installed, Untouched, Restored
<1>2. Rolling(d)' <=> Rolling(d) BY <1>1 DEF Rolling, Safe, Kept, At
<1>. QED BY <1>1, <1>2 DEF OutcomeOf, Upgrade, At

LEMMA IdleOutcome ==
    ASSUME NEW d \in Request, task[d].step \in {"idle", "create"}, journal[d].phase = "NONE"
    PROVE  OutcomeOf(d)
BY DEF OutcomeOf, Installed, InstalledBy, At, Untouching, Early, Saving, Rollback

LEMMA ServedStep ==
    ASSUME Served,
           \A x \in Request : exec[x] # "NONE" => exec'[x] # "NONE",
           \A x \in Request : exec'[x] # "NONE" =>
                               exec[x] # "NONE" \/ \A e \in 1..(x - 1) : exec[e] # "NONE",
           \A x \in Request : exec'[x] = "RUNNING" /\ agent' # "down" =>
                               agent' = "up" /\ task'[x].step # "idle"
    PROVE  Served'
<1>1. ASSUME NEW x \in Request, exec'[x] # "NONE", NEW e \in 1..(x - 1) PROVE exec'[e] # "NONE"
  <2>1. MaxRequests \in Nat BY ConstantsAssumption
  <2>2. e \in Request BY <2>1 DEF Request
  <2>3. exec[e] # "NONE" BY <1>1 DEF Served, ServedOf
  <2>. QED BY <2>2, <2>3
<1>. QED BY <1>1 DEF Served, ServedOf, At

(* Requests, ends and starts that leave host, rows and goroutines.          *)
LEMMA SameEnd ==
    ASSUME TypeOK, Older, Rows, Outcome,
           UNCHANGED <<host, backup, journal, task, brings, before, flaw>>,
           \A d \in Request : exec'[d] = "SUCCESS" => exec[d] = "SUCCESS"
    PROVE  Older' /\ Rows' /\ Outcome'
<1>1. Older' BY DEF Older, Begun, Busy, At
<1>2. Rows' BY DEF Rows, RowsOf, At
<1>3. Outcome'
  <2>1. \A d \in Request : OutcomeOf(d) => OutcomeOf(d)' BY OthersOutcome
  <2>. QED BY <2>1 DEF Outcome, Last
<1>. QED BY <1>1, <1>2, <1>3

LEMMA AdvanceAll ==
    ASSUME DeployInv, EndInv, NEW d \in Request, Advance(d)
    PROVE  EndInv'
<1>1. /\ TypeOK /\ ControlOf(d) /\ JournalOf(d) /\ RowsOf(d) /\ Local(d)
      /\ Served /\ Older /\ Rows /\ Outcome
  BY AdvanceIsLocal DEF DeployInv, EndInv, Control, JournalInv, Rows
<1>2. ~At(d, "idle") /\ Busy(d) /\ exec[d] # "NONE" /\ (MovesOn(d) \/ Ends(d))
  BY <1>1, AdvanceMoves DEF Busy, ControlOf
<1>3. Served'
  <2>1. exec'[d] # "NONE" /\ \A e \in Request \ {d} : exec'[e] = exec[e] /\ task'[e] = task[e]
    BY <1>1, <1>2 DEF Local, MovesOn, Ends, TypeOK
  <2>2. exec'[d] = "RUNNING" => exec[d] = "RUNNING" /\ task'[d].step # "idle"
    BY <1>1, <1>2 DEF MovesOn, Ends, TypeOK
  <2>3. agent' = agent BY <1>1 DEF Local
  <2>4. \A x \in Request : exec[x] = "RUNNING" /\ agent # "down" =>
                            agent = "up" /\ task[x].step # "idle"
    BY <1>1 DEF Served, ServedOf, At
  <2>. QED BY <1>1, <1>2, <2>1, <2>2, <2>3, <2>4, ServedStep
<1>4. Older'
  <2>1. \A x \in Request : Begun(x)' => Begun(x) BY <1>1, <1>2 DEF Begun, Local, At
  <2>2. \A x \in Request : Busy(x)' => Busy(x) BY <1>1, <1>2 DEF Busy, Local, At
  <2>3. \A x \in Request : flaw[x] \subseteq flaw'[x] BY <1>1 DEF Local
  <2>. QED BY <1>1, <2>1, <2>2, <2>3 DEF Older
<1>5. RowsOf(d)' /\ (OutcomeOf(d) => OutcomeOf(d)') /\ journal'[d].phase # "NONE"
  BY <1>1, AdvanceEnd, AdvancePhase
<1>6. Rows' BY <1>1, <1>5 DEF Rows, RowsOf, Local, At
<1>7. Outcome'
  <2>1. ASSUME NEW x \in Request, Last(x)', "overlap" \notin flaw'[x] PROVE OutcomeOf(x)'
    <3>1. "overlap" \notin flaw[x] BY <1>1, <2>1 DEF Local
    <3>2. ~(d > x) BY <1>5, <2>1 DEF Last
    <3>3. CASE x = d
      <4>1. Last(d) BY <1>1, <2>1, <3>3 DEF Last, Local, Request
      <4>. QED BY <1>1, <1>5, <3>1, <3>3, <4>1 DEF Outcome
    <3>4. CASE d < x
      <4>1. ~Begun(x) BY <1>1, <1>2, <3>1, <3>4 DEF Older
      <4>2. task'[x] = task[x] /\ journal'[x] = journal[x] BY <1>1, <3>4 DEF Local, Request
      <4>3. task'[x].step = "idle" /\ journal'[x].phase = "NONE"
        BY <4>1, <4>2 DEF Begun, At
      <4>. QED BY <4>3 DEF OutcomeOf, Installed, InstalledBy, At, Untouching, Early, Saving, Rollback
    <3>. QED BY <3>2, <3>3, <3>4 DEF Request
  <2>. QED BY <2>1 DEF Outcome
<1>. QED BY <1>3, <1>4, <1>6, <1>7 DEF EndInv

LEMMA RequestAll ==
    ASSUME DeployInv, EndInv, NEW d \in Request, OnDeployRequest(d)
    PROVE  EndInv'
<1>1. /\ TypeOK /\ Control /\ Served /\ Older /\ Rows /\ Outcome
  BY DEF DeployInv, EndInv
<1>2. /\ UNCHANGED <<host, journal, backup, before, agent>> /\ agent = "up" /\ exec[d] = "NONE"
      /\ \A e \in 1..(d - 1) : exec[e] # "NONE"
      /\ exec'[d] = "RUNNING" /\ \A e \in Request \ {d} : exec'[e] = exec[e] /\ brings'[e] = brings[e]
      /\ Goto(d, "create") /\ "create" \in Step
  BY <1>1 DEF OnDeployRequest, onHost, Step, TypeOK
<1>3. At(d, "idle") /\ task[d] = Idle /\ journal[d].phase = "NONE"
  BY <1>1, <1>2 DEF Control, ControlOf, TypeOK
<1>4. /\ task'[d].step = "create" /\ ~task'[d].recovering
      /\ \A e \in Request \ {d} : task'[e] = task[e]
  <2>1. ~Idle.recovering BY DEF Idle
  <2>. QED BY <1>1, <1>2, <1>3, <2>1, GotoFields, GotoTask
<1>5. /\ \A e \in Request : flaw[e] \subseteq flaw'[e]
      /\ "overlap" \notin flaw'[d] => Running = {}
  BY <1>1 DEF OnDeployRequest, TypeOK
<1>6. Served'
  <2>1. \A x \in Request : exec[x] = "RUNNING" /\ agent # "down" =>
                            agent = "up" /\ task[x].step # "idle"
    BY <1>1 DEF Served, ServedOf, At
  <2>. QED BY <1>1, <1>2, <1>4, <2>1, ServedStep
<1>7. Older'
  <2>1. ASSUME NEW x \in Request, NEW e \in Request, e < x, Begun(x)', "overlap" \notin flaw'[x]
        PROVE  ~Busy(e)'
    <3>1. CASE x = d
      <4>1. e # d /\ (Busy(e)' <=> Busy(e)) BY <1>2, <1>4, <2>1, <3>1 DEF Busy, At, Request
      <4>2. Busy(e) => e \in Running BY <1>1, <1>2 DEF Busy, Control, ControlOf, Running
      <4>. QED BY <1>5, <2>1, <3>1, <4>1, <4>2
    <3>2. CASE x # d
      <4>1. Begun(x) BY <1>2, <1>4, <2>1, <3>2 DEF Begun, At
      <4>2. exec[x] # "NONE" BY <1>1, <4>1 DEF Begun, Control, ControlOf
      <4>3. e # d BY <1>1, <1>2, <2>1, <4>2 DEF Served, ServedOf, Request
      <4>4. ~Busy(e) BY <1>1, <1>5, <2>1, <4>1 DEF Older
      <4>. QED BY <1>2, <1>4, <4>3, <4>4 DEF Busy, At
    <3>. QED BY <3>1, <3>2
  <2>. QED BY <2>1 DEF Older
<1>8. Rows'
  <2>1. RowsOf(d)'
    BY <1>2, <1>3, <1>4 DEF RowsOf, At, Early, Saving, Changing, Rollback
  <2>2. ASSUME NEW x \in Request \ {d} PROVE RowsOf(x)'
    BY <1>1, <1>2, <1>4, <2>2 DEF Rows, RowsOf, At
  <2>. QED BY <2>1, <2>2 DEF Rows
<1>9. Outcome'
  <2>1. OutcomeOf(d)'
    BY <1>2, <1>3, <1>4
       DEF OutcomeOf, Installed, InstalledBy, At, Untouching, Early, Saving, Rollback
  <2>2. ASSUME NEW x \in Request \ {d}, Last(x)', "overlap" \notin flaw'[x] PROVE OutcomeOf(x)'
    <3>1. OutcomeOf(x) BY <1>1, <1>2, <1>5, <2>2 DEF Outcome, Last
    <3>. QED BY <1>2, <1>4, <1>5, <3>1, OthersOutcome
  <2>. QED BY <2>1, <2>2 DEF Outcome
<1>. QED BY <1>6, <1>7, <1>8, <1>9 DEF EndInv

LEMMA RecoverAll ==
    ASSUME DeployInv, EndInv, NEW d \in Request, RecoverDeployment(d)
    PROVE  EndInv'
<1>1. /\ TypeOK /\ ControlOf(d) /\ JournalOf(d) /\ RowsOf(d)
      /\ Served /\ Older /\ Rows /\ Outcome
  BY DEF DeployInv, EndInv, Control, JournalInv, Rows
<1>2. /\ UNCHANGED <<host, journal, backup, before, brings, agent, exec>> /\ agent = "recovering"
      /\ At(d, "idle") /\ journal[d].phase \in Unfinished
  BY DEF RecoverDeployment, onHost, around, history, Running
<1>3. /\ task'[d].step = (IF moved THEN "closing" ELSE "stopNew") /\ task'[d].recovering
      /\ task'[d].kept = journal[d].saved
      /\ \A e \in Request \ {d} : task'[e] = task[e]
  <2>. DEFINE t == [Idle EXCEPT !.step = IF moved THEN "closing" ELSE "stopNew",
                                !.kept = journal[d].saved, !.recovering = TRUE]
  <2>1. t.step = (IF moved THEN "closing" ELSE "stopNew") /\ t.recovering
        /\ t.kept = journal[d].saved
    BY DEF Idle
  <2>2. task' = [task EXCEPT ![d] = t] BY DEF RecoverDeployment
  <2>. HIDE DEF t
  <2>. QED BY <1>1, <2>1, <2>2 DEF TypeOK
<1>4. /\ \A e \in Request : flaw[e] \subseteq flaw'[e]
      /\ moved => "moved" \in flaw'[d]
  BY <1>1 DEF RecoverDeployment, Spoils, TypeOK
<1>5. Served'
  <2>1. \A x \in Request : exec[x] # "RUNNING" BY <1>1, <1>2 DEF Served, ServedOf
  <2>. QED BY <1>1, <1>2, <2>1 DEF Served, ServedOf
<1>6. Older'
  <2>1. \A x \in Request : (Begun(x)' => Begun(x)) /\ (Busy(x)' => Busy(x))
    BY <1>2, <1>3 DEF Begun, Busy, At, Unfinished
  <2>. QED BY <1>1, <1>4, <2>1 DEF Older
<1>7. Rows'
  <2>1. RowsOf(d)'
    BY <1>1, <1>2, <1>3 DEF RowsOf, At, Early, Saving, Changing, Rollback, Unfinished
  <2>2. \A x \in Request \ {d} : RowsOf(x)' BY <1>1, <1>2, <1>3 DEF Rows, RowsOf, At
  <2>. QED BY <2>1, <2>2 DEF Rows
<1>8. Outcome'
  <2>1. ASSUME Upgrade(d)', flaw'[d] = {} PROVE Rolling(d)' /\ At(d, "stopNew")'
    <3>1. Upgrade(d) /\ flaw[d] = {} /\ ~moved BY <1>2, <1>4, <2>1 DEF Upgrade
    <3>2. Recoverable(d) BY <1>1, <1>2, <3>1 DEF JournalOf, Clean, Undoable, At
    <3>3. task'[d].step = "stopNew" /\ ToRestore(task'[d]) = File
      BY <1>3, <3>1 DEF ToRestore
    <3>4. CASE Secured(d)
      <4>1. "binary" \in task'[d].kept BY <1>3, <3>1, <3>4 DEF Secured, Upgrade, File
      <4>. QED BY <1>2, <1>3, <3>3, <3>4, <4>1 DEF Secured, Rolling, Kept, At
    <3>5. CASE /\ Untouched(d) /\ journal[d].saved \subseteq {"binary"}
               /\ backup[d]["binary"] \in {NoFile, before[d].host["binary"]}
      <4>1. \A f \in File : Safe(d, f)' BY <1>2, <1>3, <3>5 DEF Safe, Untouched
      <4>2. Restored(d)' BY <1>2, <3>5 DEF Restored, Untouched
      <4>. QED BY <3>3, <4>1, <4>2 DEF Rolling, At
    <3>. QED BY <3>2, <3>4, <3>5 DEF Recoverable
  <2>2. OutcomeOf(d)'
    <3>1. journal'[d].phase \notin {"DONE", "ROLLING_BACK"} BY <1>2 DEF Unfinished
    <3>2. Installed(d, InstalledBy(task[d].step))'
      BY <1>3 DEF Installed, InstalledBy
    <3>3. task'[d].step \notin Untouching BY <1>3 DEF Untouching, Early, Saving
    <3>. QED BY <2>1, <3>1, <3>2, <3>3 DEF OutcomeOf, At
  <2>3. ASSUME NEW x \in Request \ {d}, Last(x)', "overlap" \notin flaw'[x] PROVE OutcomeOf(x)'
    <3>1. OutcomeOf(x) BY <1>1, <1>2, <1>4, <2>3 DEF Outcome, Last
    <3>. QED BY <1>2, <1>3, <1>4, <3>1, OthersOutcome
  <2>. QED BY <2>2, <2>3 DEF Outcome
<1>. QED BY <1>5, <1>6, <1>7, <1>8 DEF EndInv

LEMMA CloseAll ==
    ASSUME DeployInv, EndInv, NEW d \in Request, CloseRecovered(d)
    PROVE  EndInv'
<1>1. /\ TypeOK /\ ControlOf(d) /\ RowsOf(d) /\ Served /\ Older /\ Rows /\ Outcome
  BY DEF DeployInv, EndInv, Control, Rows
<1>2. /\ UNCHANGED <<host, backup, before, brings, agent, exec, flaw>> /\ At(d, "closing")
      /\ SetPhase(d, "ROLLING_BACK") /\ task' = [task EXCEPT ![d] = Idle]
  BY DEF CloseRecovered, onHost, around, history
<1>3. /\ journal'[d].phase = "ROLLING_BACK"
      /\ \A e \in Request \ {d} : journal'[e] = journal[e]
  BY <1>1, <1>2 DEF SetPhase, TypeOK, Row
<1>4. /\ task'[d].step = "idle" /\ ~task'[d].recovering
      /\ \A e \in Request \ {d} : task'[e] = task[e]
  BY <1>1, <1>2 DEF TypeOK, Idle
<1>5. /\ agent # "up" /\ exec[d] # "SUCCESS" /\ journal[d].phase # "NONE"
  BY <1>1, <1>2 DEF TypeOK, Running, ControlOf, RowsOf, At
<1>6. Served'
  <2>1. \A x \in Request : exec[x] = "RUNNING" => agent = "down"
    BY <1>1, <1>5 DEF Served, ServedOf
  <2>. QED BY <1>1, <1>2, <2>1 DEF Served, ServedOf
<1>7. Older'
  <2>1. \A x \in Request : (Begun(x)' => Begun(x)) /\ (Busy(x)' => Busy(x))
    BY <1>2, <1>3, <1>4 DEF Begun, Busy, At, Unfinished
  <2>. QED BY <1>1, <1>2, <2>1 DEF Older
<1>8. Rows'
  <2>1. RowsOf(d)'
    BY <1>2, <1>3, <1>4, <1>5 DEF RowsOf, At, Early, Saving, Changing, Rollback
  <2>2. \A x \in Request \ {d} : RowsOf(x)' BY <1>1, <1>2, <1>3, <1>4 DEF Rows, RowsOf, At
  <2>. QED BY <2>1, <2>2 DEF Rows
<1>9. Outcome'
  <2>1. ASSUME NEW x \in Request, Last(x)', "overlap" \notin flaw'[x] PROVE OutcomeOf(x)'
    <3>1. Last(x) BY <1>3, <1>5, <2>1 DEF Last
    <3>2. OutcomeOf(x) BY <1>1, <1>2, <2>1, <3>1 DEF Outcome
    <3>3. CASE x = d
      <4>1. Upgrade(d)' /\ flaw'[d] = {} => Restored(d)'
        BY <1>2, <3>2, <3>3 DEF OutcomeOf, Upgrade, Restored
      <4>. QED BY <1>3, <1>4, <3>3, <4>1
           DEF OutcomeOf, Installed, InstalledBy, At, Untouching, Early, Saving, Rollback
    <3>4. CASE x # d BY <1>2, <1>3, <1>4, <3>2, <3>4, OthersOutcome
    <3>. QED BY <3>3, <3>4
  <2>. QED BY <2>1 DEF Outcome
<1>. QED BY <1>6, <1>7, <1>8, <1>9 DEF EndInv

(* A death of the Agent in a rollback is the only one that leaves files     *)
(* behind a row that says the rollback was made.                            *)
LEMMA CrashAll ==
    ASSUME DeployInv, EndInv, AgentCrash
    PROVE  EndInv'
<1>1. TypeOK /\ Control /\ Served /\ Older /\ Rows /\ Outcome
  BY DEF DeployInv, EndInv
<1>2. /\ UNCHANGED <<host, backup, before, brings, exec, journal>> /\ agent' = "down"
      /\ \A d \in Request : task'[d].step = "idle" /\ ~task'[d].recovering
  BY DEF AgentCrash, onHost, history, Idle
<1>3. \A d \in Request :
        /\ flaw[d] \subseteq flaw'[d]
        /\ task[d].step \in Rollback /\ ~task[d].recovering => "cut" \in flaw'[d]
  BY <1>1 DEF AgentCrash, TypeOK
<1>4. Served' BY <1>1, <1>2 DEF Served, ServedOf
<1>5. Older' BY <1>1, <1>2, <1>3 DEF Older, Begun, Busy, At
<1>6. Rows'
  BY <1>1, <1>2 DEF Rows, RowsOf, At, Early, Saving, Changing, Rollback
<1>7. Outcome'
  <2>1. ASSUME NEW x \in Request, Last(x)', "overlap" \notin flaw'[x] PROVE OutcomeOf(x)'
    <3>1. OutcomeOf(x) BY <1>1, <1>2, <1>3, <2>1 DEF Outcome, Last
    <3>2. ASSUME Upgrade(x)', flaw'[x] = {}, journal'[x].phase = "ROLLING_BACK"
          PROVE  Restored(x)'
      <4>1. Upgrade(x) /\ flaw[x] = {} /\ journal[x].phase = "ROLLING_BACK"
        BY <1>2, <1>3, <3>2 DEF Upgrade
      <4>2. ControlOf(x) /\ RowsOf(x) /\ task[x].step \in Step
        BY <1>1 DEF Control, Rows, TypeOK, Task
      <4>3. task[x].step \in Rollback \cup {"idle", "create", "register", "report", "closing"}
        BY <4>1, <4>2 DEF ControlOf, Unfinished
      <4>4. task[x].step \notin {"create", "register"}
        BY <4>1, <4>2 DEF ControlOf, RowsOf, At
      <4>5. task[x].step \notin Rollback
        BY <1>3, <3>2, <4>1, <4>2 DEF RowsOf, Unfinished
      <4>6. Restored(x) BY <3>1, <4>1, <4>3, <4>4, <4>5 DEF OutcomeOf, At
      <4>. QED BY <1>2, <4>6 DEF Restored
    <3>3. journal'[x].phase = "DONE" => Installed(x, File)'
      BY <1>2, <3>1 DEF OutcomeOf, Installed
    <3>. QED BY <1>2, <3>2, <3>3
         DEF OutcomeOf, Installed, InstalledBy, At, Untouching, Early, Saving, Rollback
  <2>. QED BY <2>1 DEF Outcome
<1>. QED BY <1>4, <1>5, <1>6, <1>7 DEF EndInv

-----------------------------------------------------------------------------
(* The inductive step. *)
LEMMA EndStep ==
    ASSUME DeployInv, EndInv, [Next]_vars
    PROVE  EndInv'
<1>0. TypeOK /\ Control /\ Served /\ Older /\ Rows /\ Outcome BY DEF DeployInv, EndInv
<1>1. ASSUME NEW d \in Request, RejectRequest(d) PROVE EndInv'
  <2>1. /\ UNCHANGED <<host, backup, journal, task, brings, before, flaw, agent>>
        /\ \A e \in 1..(d - 1) : exec[e] # "NONE"
        /\ exec'[d] = "FAILED" /\ \A e \in Request \ {d} : exec'[e] = exec[e]
    BY <1>0, <1>1 DEF RejectRequest, onHost, around, history, TypeOK
  <2>2. Served'
    <3>1. \A x \in Request : exec[x] = "RUNNING" /\ agent # "down" =>
                              agent = "up" /\ task[x].step # "idle"
      BY <1>0 DEF Served, ServedOf, At
    <3>. QED BY <1>0, <2>1, <3>1, ServedStep
  <2>. QED BY <1>0, <2>1, <2>2, SameEnd DEF EndInv
<1>2. CASE AgentStart
  <2>1. /\ UNCHANGED <<host, backup, journal, task, brings, before, flaw>>
        /\ \A x \in Request : /\ exec'[x] # "RUNNING" /\ (exec'[x] = "NONE" <=> exec[x] = "NONE")
                              /\ exec'[x] = "SUCCESS" => exec[x] = "SUCCESS"
    BY <1>0, <1>2 DEF AgentStart, onHost, history, TypeOK
  <2>2. Served' BY <1>0, <2>1, ServedStep
  <2>. QED BY <1>0, <2>1, <2>2, SameEnd DEF EndInv
<1>3. CASE EndRecovery
  <2>1. /\ UNCHANGED <<host, backup, journal, task, brings, before, flaw, exec>>
        /\ agent = "recovering"
    BY <1>3 DEF EndRecovery, onHost, history
  <2>2. Served' BY <1>0, <2>1 DEF Served, ServedOf
  <2>. QED BY <1>0, <2>1, <2>2, SameEnd DEF EndInv
<1>4. CASE SyncDefinition \/ Operate \/ UNCHANGED vars
  <2>1. UNCHANGED <<host, backup, journal, task, brings, before, flaw, exec, agent>>
    BY <1>4 DEF SyncDefinition, Operate, vars, onHost, history
  <2>2. Served' BY <1>0, <2>1 DEF Served, ServedOf, At
  <2>. QED BY <1>0, <2>1, <2>2, SameEnd DEF EndInv
<1>. QED BY <1>1, <1>2, <1>3, <1>4, AdvanceAll, RequestAll, RecoverAll, CloseAll, CrashAll DEF Next

LEMMA InitEnd == Init => EndInv
<1>. SUFFICES ASSUME Init PROVE EndInv
  OBVIOUS
<1>1. \A d \in Request : /\ task[d] = Idle /\ Idle.step = "idle" /\ ~Idle.recovering
                         /\ journal[d].phase = "NONE" /\ exec[d] = "NONE"
  BY DEF Init, Idle, NoRow
<1>2. Served BY <1>1 DEF Served, ServedOf
<1>3. Older BY <1>1 DEF Older, Begun, At
<1>4. Rows BY <1>1 DEF Rows, RowsOf, At, Early, Saving, Changing, Rollback
<1>5. Outcome BY <1>1, IdleOutcome DEF Outcome
<1>. QED BY <1>2, <1>3, <1>4, <1>5 DEF EndInv

-----------------------------------------------------------------------------
(* EveryRequestIsServed is an invariant: whichever way a deployment leaves  *)
(* deploy, and whenever the Agent dies, no execution stays RUNNING on an    *)
(* Agent that is up without its goroutine.                                  *)
THEOREM RequestsAreServed == Spec => []EveryRequestIsServed
<1>1. Init => DeployInv /\ EndInv BY InitInv, InitEnd
<1>2. DeployInv /\ EndInv /\ [Next]_vars => (DeployInv /\ EndInv)' BY InvStep, EndStep
<1>3. DeployInv /\ EndInv => EveryRequestIsServed
  BY DEF EndInv, Served, ServedOf, EveryRequestIsServed
<1>. QED BY <1>1, <1>2, <1>3, PTL DEF Spec

(* SuccessIsInstalled is an invariant: success is reported only after every *)
(* file is in place, and what was installed stays until the next deployment *)
(* begins, unless two of them ran at the same time.                         *)
THEOREM SuccessStaysInstalled == Spec => []SuccessIsInstalled
<1>1. Init => DeployInv /\ EndInv BY InitInv, InitEnd
<1>2. DeployInv /\ EndInv /\ [Next]_vars => (DeployInv /\ EndInv)' BY InvStep, EndStep
<1>3. DeployInv /\ EndInv => SuccessIsInstalled
  <2>1. ASSUME EndInv, TypeOK PROVE SuccessIsInstalled
    BY <2>1 DEF EndInv, Rows, RowsOf, Outcome, OutcomeOf, Installed, SuccessIsInstalled, TypeOK
  <2>. QED BY <2>1 DEF DeployInv
<1>. QED BY <1>1, <1>2, <1>3, PTL DEF Spec

(* FailedIsRestored is an invariant: once an upgrade that failed or was     *)
(* interrupted is settled, every file that was there before is what it was, *)
(* unless something spoiled it that the model names.                        *)
THEOREM FailureLeavesThePrevious == Spec => []FailedIsRestored
<1>1. Init => DeployInv /\ EndInv BY InitInv, InitEnd
<1>2. DeployInv /\ EndInv /\ [Next]_vars => (DeployInv /\ EndInv)' BY InvStep, EndStep
<1>3. DeployInv /\ EndInv => FailedIsRestored
  <2>1. ASSUME Outcome PROVE FailedIsRestored
    <3>. SUFFICES ASSUME NEW d \in Request, Settled(d), Last(d), Upgrade(d), flaw[d] = {}
                  PROVE  \A f \in File : before[d].host[f] \in {NoFile, host[f]}
      BY DEF FailedIsRestored
    <3>1. OutcomeOf(d) BY <2>1 DEF Outcome
    <3>. QED BY <3>1 DEF OutcomeOf, Settled, Restored, At
  <2>. QED BY <2>1 DEF EndInv
<1>. QED BY <1>1, <1>2, <1>3, PTL DEF Spec
=============================================================================
