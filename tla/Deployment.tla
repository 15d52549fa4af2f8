------------------------------ MODULE Deployment ------------------------------
(***************************************************************************)
(* The deployments of one application on one Agent.                        *)
(*                                                                         *)
(* A request replaces the application's binary, configuration and systemd  *)
(* unit and restarts its service, one file or systemctl call after the     *)
(* other, each request in a goroutine of its own.  Before it replaces what *)
(* is there it keeps copies, and it writes down in the deployment journal  *)
(* how far it is and which copies there are; a deployment that fails puts  *)
(* them back, and so does the next start of an Agent that died in between. *)
(*                                                                         *)
(* The content of a file is the number of the request that wrote it, 0 for *)
(* what the host had before all of them.                                   *)
(***************************************************************************)
EXTENDS Naturals, FiniteSets

CONSTANTS
    NoFile,          \* no file; no process
    Torn,            \* a file whose writing was cut short
    InitialHosts,    \* what may be installed and run before all requests
    Changes,         \* the files, besides the unit, that a request may replace
    MaxRequests,     \* bound: deployments requested
    MaxRunning,      \* bound: deployments at one time
    MaxFaults,       \* bound: calls of the host or the file system that fail
    MaxCrashes,      \* bound: deaths of the Agent
    MaxEdits,        \* bound: definitions with other paths
    MaxOperations    \* bound: start, stop and restart requests

ASSUME ConstantsAssumption ==
    /\ {MaxRequests, MaxRunning, MaxFaults, MaxCrashes, MaxEdits, MaxOperations} \subseteq Nat
    /\ NoFile # Torn /\ NoFile \notin Nat /\ Torn \notin Nat
    /\ InitialHosts \subseteq [host : [{"binary", "config", "unit"} -> {0, NoFile}],
                               service : {0, NoFile}]
    /\ Changes \subseteq SUBSET {"binary", "config"}

Request == 1..MaxRequests
Version == 0..MaxRequests
Content == Version \cup {NoFile, Torn}
File == {"binary", "config", "unit"}
Files == [File -> Content]

(* The journal's phases, "NONE" before the row is there.  The row keeps a   *)
(* path for every file that has a backup.                                   *)
Phase == {"NONE", "PREPARING", "STOPPED", "REPLACED", "STARTED", "VERIFYING", "DONE",
          "ROLLING_BACK"}
Row == [phase : Phase, saved : SUBSET File]
NoRow == [phase |-> "NONE", saved |-> {}]
Unfinished == Phase \ {"NONE", "DONE", "ROLLING_BACK"}

Rollback == {"stopNew", "restore", "restoreUnit", "startPrevious"}
Step == {"idle", "create", "fetch", "inspect", "open", "write", "stop", "record", "binary",
         "replaced", "config", "unit", "unitBody", "enable", "started", "start", "verifying",
         "check", "done", "register", "abort", "undo", "report", "closing"} \cup Rollback
Task == [step : Step,
         file : File,              \* the file that is being saved or restored
         kept : SUBSET File,       \* the files it has a backup path for
         data : Content,           \* read from the host, not yet in the backup
         restored : BOOLEAN,       \* restoredBinary
         recovering : BOOLEAN]     \* run by RecoverDeployments
Idle == [step |-> "idle", file |-> "binary", kept |-> {}, data |-> NoFile,
         restored |-> FALSE, recovering |-> FALSE]

(* What the Agent's weaknesses did to a deployment, for the properties.     *)
Flaw == {"overlap",    \* another one ran at the same time
         "backup",     \* the Agent died or failed while it wrote a backup
         "restore",    \* a restoring write failed
         "cut",        \* the Agent died during its rollback
         "moved"}      \* recovered with the paths of another definition

VARIABLES
    host, service,    \* the application's files; the version that runs
    backup,           \* per request: the backup files
    journal,          \* per request: its row in deployments
    exec,             \* per request: its row in executions
    registered,       \* the unit is in unit_registry
    agent,            \* "down", "recovering" or "up"
    task,             \* per request: its goroutine
    moved,            \* the Agent's definition names other paths by now
    faults, crashes, edits, operations,
    (* history *)
    brings,           \* per request: the files it replaces
    before,           \* per request: the host when its row was created
    flaw

onHost == <<host, service>>
bounds == <<crashes, edits, operations>>
history == <<brings, before>>
around == <<agent, moved, bounds, history>>
vars == <<onHost, backup, journal, exec, registered, agent, task, moved, faults, bounds,
          history, flaw>>

Init ==
    /\ \E h \in InitialHosts : host = h.host /\ service = h.service
    /\ backup = [d \in Request |-> [f \in File |-> NoFile]]
    /\ journal = [d \in Request |-> NoRow]
    /\ exec = [d \in Request |-> "NONE"]
    /\ registered = FALSE
    /\ agent = "down"
    /\ task = [d \in Request |-> Idle]
    /\ moved = FALSE
    /\ faults = 0 /\ crashes = 0 /\ edits = 0 /\ operations = 0
    /\ brings = [d \in Request |-> {}]
    /\ before = [d \in Request |-> [host |-> [f \in File |-> NoFile], service |-> NoFile]]
    /\ flaw = [d \in Request |-> {}]

At(d, s) == task[d].step = s
Goto(d, s) == task' = [task EXCEPT ![d].step = s]

Works == UNCHANGED faults
Fails == faults < MaxFaults /\ faults' = faults + 1
Spoils(d, what) == flaw' = [flaw EXCEPT ![d] = @ \cup {what}]

SetPhase_NoPath(d, phase) ==
    journal' = [journal EXCEPT ![d].phase = phase, ![d].saved = @ \ {"binary"}]

(* UpdateDeploymentPhase also writes backup_path, that of the binary.       *)
SetPhase(d, phase) ==
    journal' = [journal EXCEPT ![d].phase = phase,
                               ![d].saved = (@ \ {"binary"}) \cup (task[d].kept \cap {"binary"})]

(* What systemctl start makes of the files; a running service stays as it is. *)
CanStart == service # NoFile \/ host["unit"] \in Version
Started == IF service # NoFile THEN service
           ELSE IF host["binary"] \in Version THEN host["binary"] ELSE NoFile
StartSucceeds == CanStart /\ service' = Started /\ Works
StartFails ==
    /\ UNCHANGED service
    /\ IF CanStart /\ Started # NoFile THEN Fails ELSE Works
StopSucceeds == service' = NoFile /\ Works
StopFails == UNCHANGED service /\ Fails
-----------------------------------------------------------------------------
(* Requests *)

Running == {d \in Request : ~At(d, "idle")}

(* OnDeployRequest, or a task's or schedule's run: the execution is entered *)
(* in the journal and the goroutine started.  Bounds: in order of their      *)
(* numbers, and only while the definition names the paths that are modelled. *)
OnDeployRequest(d) ==
    /\ agent = "up" /\ ~moved /\ Cardinality(Running) < MaxRunning
    /\ exec[d] = "NONE" /\ \A e \in 1..(d - 1) : exec[e] # "NONE"
    /\ exec' = [exec EXCEPT ![d] = "RUNNING"]
    /\ \E files \in Changes :
         brings' = [brings EXCEPT ![d] = files \cup {"unit"}]
    /\ Goto(d, "create")
    /\ flaw' = [e \in Request |-> IF Running # {} /\ e \in Running \cup {d}
                                  THEN flaw[e] \cup {"overlap"} ELSE flaw[e]]
    /\ UNCHANGED <<onHost, backup, journal, registered, agent, moved, faults, bounds, before>>

(* A request that comes before the Agent is READY is answered at once.      *)
RejectRequest(d) ==
    /\ agent = "up"
    /\ exec[d] = "NONE" /\ \A e \in 1..(d - 1) : exec[e] # "NONE"
    /\ exec' = [exec EXCEPT ![d] = "FAILED"]
    /\ UNCHANGED <<onHost, backup, journal, registered, task, faults, around, flaw>>

CreateDeployment(d) ==
    /\ At(d, "create")
    /\ journal' = [journal EXCEPT ![d] = [phase |-> "PREPARING", saved |-> {}]]
    /\ before' = [before EXCEPT ![d] = [host |-> host, service |-> service]]
    /\ Goto(d, "fetch")
    /\ UNCHANGED <<onHost, backup, exec, registered, agent, moved, faults, bounds, brings, flaw>>

Fetch_NoCallback(d) ==
    /\ At(d, "fetch")
    /\ Goto(d, "inspect") \/ Goto(d, "idle")
    /\ UNCHANGED <<onHost, backup, journal, exec, registered, faults, around, flaw>>

(* Prefetch, and the checks of the request, any of which may end it.        *)
Fetch(d) ==
    /\ At(d, "fetch")
    /\ Goto(d, "inspect") \/ Goto(d, "abort")
    /\ UNCHANGED <<onHost, backup, journal, exec, registered, faults, around, flaw>>

(* Is there a binary to be kept?  The row says so before the copy is made.  *)
Inspect(d) ==
    /\ At(d, "inspect")
    /\ IF host["binary"] = NoFile
       THEN Goto(d, "binary") /\ UNCHANGED journal
       ELSE /\ task' = [task EXCEPT ![d].step = "open", ![d].file = "binary",
                                    ![d].kept = {"binary"}]
            /\ journal' = [journal EXCEPT ![d] = [phase |-> "STOPPED",
                                                  saved |-> @.saved \cup {"binary"}]]
    /\ UNCHANGED <<onHost, backup, exec, registered, faults, around, flaw>>

NextFile(f) == CASE f = "binary" -> "config" [] f = "config" -> "unit" [] f = "unit" -> "binary"
NextBackup(d) ==
    [task[d] EXCEPT !.file = NextFile(@), !.data = NoFile,
                    !.step = IF task[d].file = "unit" THEN "stop" ELSE "open"]

(* Read a file and open its backup; a file that is not there or cannot be   *)
(* read is passed over.                                                     *)
OpenBackup(d) ==
    /\ At(d, "open")
    /\ LET f == task[d].file IN
       \/ /\ host[f] # NoFile
          /\ task' = [task EXCEPT ![d].step = "write", ![d].data = host[f],
                                  ![d].kept = @ \cup {f}]
          /\ backup' = [backup EXCEPT ![d][f] = Torn]
          /\ Works /\ UNCHANGED flaw
       \/ /\ host[f] = NoFile
          /\ task' = [task EXCEPT ![d] = NextBackup(d)]
          /\ Works /\ UNCHANGED <<backup, flaw>>
       \/ /\ host[f] # NoFile
          /\ task' = [task EXCEPT ![d] = NextBackup(d)]
          /\ Fails /\ Spoils(d, "backup") /\ UNCHANGED backup
    /\ UNCHANGED <<onHost, journal, exec, registered, around>>

(* os.WriteFile goes on after opening; its error is not looked at.          *)
WriteBackup(d) ==
    /\ At(d, "write")
    /\ \/ /\ backup' = [backup EXCEPT ![d][task[d].file] = task[d].data]
          /\ Works /\ UNCHANGED flaw
       \/ Fails /\ Spoils(d, "backup") /\ UNCHANGED backup
    /\ task' = [task EXCEPT ![d] = NextBackup(d)]
    /\ UNCHANGED <<onHost, journal, exec, registered, around>>

(* The service is stopped if it is active; the result is not looked at.     *)
StopOld(d) ==
    /\ At(d, "stop")
    /\ IF service = NoFile THEN Works /\ UNCHANGED service ELSE StopSucceeds \/ StopFails
    /\ Goto(d, IF task[d].kept \subseteq {"binary"} THEN "binary" ELSE "record")
    /\ UNCHANGED <<host, backup, journal, exec, registered, around, flaw>>

SetDeploymentBackups(d) ==
    /\ At(d, "record")
    /\ journal' = [journal EXCEPT ![d].saved = task[d].kept]
    /\ Goto(d, "binary")
    /\ UNCHANGED <<onHost, backup, exec, registered, faults, around, flaw>>
-----------------------------------------------------------------------------
(* Replacing *)

(* Without an artifact the binary stays.  An artifact that cannot be read   *)
(* ends the deployment without a rollback.                                  *)
InstallBinary(d) ==
    /\ At(d, "binary")
    /\ \/ "binary" \notin brings[d] /\ Goto(d, "config") /\ Works /\ UNCHANGED host
       \/ /\ "binary" \in brings[d]
          /\ \/ host' = [host EXCEPT !["binary"] = d] /\ Goto(d, "replaced") /\ Works
             \/ (Goto(d, "abort") \/ Goto(d, "undo")) /\ Fails /\ UNCHANGED host
    /\ UNCHANGED <<service, backup, journal, exec, registered, around, flaw>>

InstallConfig(d) ==
    /\ At(d, "config")
    /\ \/ "config" \notin brings[d] /\ Goto(d, "unit") /\ Works /\ UNCHANGED host
       \/ /\ "config" \in brings[d]
          /\ \/ host' = [host EXCEPT !["config"] = d] /\ Goto(d, "unit") /\ Works
             \/ Goto(d, "undo") /\ Fails /\ UNCHANGED host
    /\ UNCHANGED <<service, backup, journal, exec, registered, around, flaw>>

(* InstallUnit writes the unit in place, then reloads.                      *)
InstallUnit(d) ==
    /\ At(d, "unit")
    /\ \/ host' = [host EXCEPT !["unit"] = Torn] /\ Goto(d, "unitBody") /\ Works
       \/ Goto(d, "undo") /\ Fails /\ UNCHANGED host
    /\ UNCHANGED <<service, backup, journal, exec, registered, around, flaw>>

WriteUnit(d) ==
    /\ At(d, "unitBody")
    /\ \/ host' = [host EXCEPT !["unit"] = d] /\ Goto(d, "enable") /\ Works
       \/ Goto(d, "undo") /\ Fails /\ host' \in {host, [host EXCEPT !["unit"] = d]}
    /\ UNCHANGED <<service, backup, journal, exec, registered, around, flaw>>

(* daemon-reload and enable, neither of which changes what is modelled.     *)
EnableService(d) ==
    /\ At(d, "enable")
    /\ (Goto(d, "started") /\ Works) \/ (Goto(d, "undo") /\ Fails)
    /\ UNCHANGED <<onHost, backup, journal, exec, registered, around, flaw>>

StartService(d) ==
    /\ At(d, "start")
    /\ (StartSucceeds /\ Goto(d, "verifying")) \/ (StartFails /\ Goto(d, "undo"))
    /\ UNCHANGED <<host, backup, journal, exec, registered, around, flaw>>

(* checkHealth may find anything: what the check looks at is not modelled.  *)
CheckHealth(d) ==
    /\ At(d, "check")
    /\ Goto(d, "done") \/ Goto(d, "undo")
    /\ UNCHANGED <<onHost, backup, journal, exec, registered, faults, around, flaw>>

(* The journal entries between these steps.                                 *)
UpdatePhase(d) ==
    /\ \E move \in {<<"replaced", "REPLACED", "config">>, <<"started", "STARTED", "start">>,
                    <<"verifying", "VERIFYING", "check">>, <<"done", "DONE", "register">>,
                    <<"undo", "ROLLING_BACK", "stopNew">>, <<"abort", "ROLLING_BACK", "report">>} :
         At(d, move[1]) /\ SetPhase(d, move[2]) /\ Goto(d, move[3])
    /\ UNCHANGED <<onHost, backup, exec, registered, faults, around, flaw>>

RegisterUnit(d) ==
    /\ At(d, "register")
    /\ registered' = TRUE
    /\ Goto(d, "report")
    /\ UNCHANGED <<onHost, backup, journal, exec, faults, around, flaw>>

(* deployResultCallback writes the result into the execution's row.         *)
ReportResult(d) ==
    /\ At(d, "report")
    /\ exec' = [exec EXCEPT ![d] = IF journal[d].phase = "DONE" THEN "SUCCESS" ELSE "FAILED"]
    /\ task' = [task EXCEPT ![d] = Idle]
    /\ UNCHANGED <<onHost, backup, journal, registered, faults, around, flaw>>
-----------------------------------------------------------------------------
(* Rolling back *)

EndRollback(d) == Goto(d, IF task[d].recovering THEN "closing" ELSE "report")

(* Without a backup of the binary nothing more is done.                     *)
StopNew(d) ==
    /\ At(d, "stopNew")
    /\ StopSucceeds \/ StopFails
    /\ IF "binary" \in task[d].kept
       THEN task' = [task EXCEPT ![d].step = "restore", ![d].file = "binary"]
       ELSE EndRollback(d)
    /\ UNCHANGED <<host, backup, journal, exec, registered, around, flaw>>

NextRestore_BinaryOnly(d, restored) ==
    [task[d] EXCEPT !.restored = restored, !.step = "startPrevious"]

NextRestore(d, restored) ==
    [task[d] EXCEPT !.file = NextFile(@), !.restored = restored,
                    !.step = IF task[d].file = "unit" THEN "startPrevious" ELSE "restore"]

(* Restoring replaces the binary and the configuration atomically, the unit *)
(* in place; a failure is logged at most.                                   *)
Restore(d) ==
    /\ At(d, "restore")
    /\ LET f == task[d].file
           readable == f \in task[d].kept /\ backup[d][f] # NoFile
       IN \/ /\ ~readable
             /\ task' = [task EXCEPT ![d] = NextRestore(d, task[d].restored)]
             /\ Works /\ UNCHANGED <<host, flaw>>
          \/ /\ readable /\ f # "unit"
             /\ host' = [host EXCEPT ![f] = backup[d][f]]
             /\ task' = [task EXCEPT ![d] = NextRestore(d, f = "binary" \/ task[d].restored)]
             /\ Works /\ UNCHANGED flaw
          \/ /\ readable /\ f = "unit"
             /\ host' = [host EXCEPT ![f] = Torn]
             /\ Goto(d, "restoreUnit")
             /\ Works /\ UNCHANGED flaw
          \/ /\ readable
             /\ task' = [task EXCEPT ![d] = NextRestore(d, task[d].restored)]
             /\ Fails /\ Spoils(d, "restore") /\ UNCHANGED host
    /\ UNCHANGED <<service, backup, journal, exec, registered, around>>

RestoreUnit(d) ==
    /\ At(d, "restoreUnit")
    /\ \/ host' = [host EXCEPT !["unit"] = backup[d]["unit"]] /\ Works /\ UNCHANGED flaw
       \/ Fails /\ Spoils(d, "restore") /\ UNCHANGED host
    /\ task' = [task EXCEPT ![d] = NextRestore(d, task[d].restored)]
    /\ UNCHANGED <<service, backup, journal, exec, registered, around>>

(* The outcome of the health check that follows is only reported.           *)
StartPrevious(d) ==
    /\ At(d, "startPrevious")
    /\ IF task[d].restored THEN StartSucceeds \/ StartFails ELSE Works /\ UNCHANGED service
    /\ EndRollback(d)
    /\ UNCHANGED <<host, backup, journal, exec, registered, around, flaw>>

Advance(d) ==
    \/ CreateDeployment(d) \/ Fetch(d) \/ Inspect(d) \/ OpenBackup(d) \/ WriteBackup(d)
    \/ StopOld(d) \/ SetDeploymentBackups(d) \/ InstallBinary(d) \/ InstallConfig(d)
    \/ InstallUnit(d) \/ WriteUnit(d) \/ EnableService(d) \/ StartService(d) \/ CheckHealth(d)
    \/ UpdatePhase(d) \/ RegisterUnit(d) \/ ReportResult(d)
    \/ StopNew(d) \/ Restore(d) \/ RestoreUnit(d) \/ StartPrevious(d)
-----------------------------------------------------------------------------
(* Death and recovery of the Agent *)

(* The service is systemd's and lives on.                                   *)
AgentCrash ==
    /\ agent # "down" /\ crashes < MaxCrashes
    /\ agent' = "down" /\ crashes' = crashes + 1
    /\ task' = [d \in Request |-> Idle]
    /\ flaw' = [d \in Request |->
         flaw[d] \cup (IF At(d, "write") /\ task[d].file = "binary" THEN {"backup"} ELSE {})
                 \cup (IF task[d].step \in Rollback /\ ~task[d].recovering THEN {"cut"} ELSE {})]
    /\ UNCHANGED <<onHost, backup, journal, exec, registered, moved, faults, edits, operations,
                   history>>

(* recoverInterruptedExecutions comes first.                                *)
AgentStart ==
    /\ agent = "down"
    /\ agent' = "recovering"
    /\ exec' = [d \in Request |-> IF exec[d] = "RUNNING" THEN "FAILED" ELSE exec[d]]
    /\ UNCHANGED <<onHost, backup, journal, registered, task, moved, faults, bounds, history, flaw>>

RecoverDeployment_AllRows(d) ==
    /\ agent = "recovering" /\ Running = {}
    /\ journal[d].phase \notin {"NONE", "ROLLING_BACK"}
    /\ task' = [task EXCEPT ![d] = [Idle EXCEPT !.step = IF moved THEN "closing" ELSE "stopNew",
                                                !.kept = journal[d].saved,
                                                !.recovering = TRUE]]
    /\ IF moved THEN Spoils(d, "moved") ELSE UNCHANGED flaw
    /\ UNCHANGED <<onHost, backup, journal, exec, registered, faults, around>>

(* The loop of RecoverDeployments over the unfinished rows.  (By start      *)
(* time; there is more than one only if they overlapped, and then either    *)
(* may have started first.)  The paths are those of the definition as it is *)
(* now: if they are others, all of the rollback goes astray.                *)
RecoverDeployment(d) ==
    /\ agent = "recovering" /\ Running = {}
    /\ journal[d].phase \in Unfinished
    /\ task' = [task EXCEPT ![d] = [Idle EXCEPT !.step = IF moved THEN "closing" ELSE "stopNew",
                                                !.kept = journal[d].saved,
                                                !.recovering = TRUE]]
    /\ IF moved THEN Spoils(d, "moved") ELSE UNCHANGED flaw
    /\ UNCHANGED <<onHost, backup, journal, exec, registered, faults, around>>

CloseRecovered(d) ==
    /\ At(d, "closing")
    /\ SetPhase(d, "ROLLING_BACK")
    /\ task' = [task EXCEPT ![d] = Idle]
    /\ UNCHANGED <<onHost, backup, exec, registered, faults, around, flaw>>

EndRecovery_NoWait ==
    /\ agent = "recovering"
    /\ agent' = "up"
    /\ UNCHANGED <<onHost, backup, journal, exec, registered, task, moved, faults, bounds,
                   history, flaw>>

(* Only now are the schedulers and the connection started.                  *)
EndRecovery ==
    /\ agent = "recovering" /\ Running = {}
    /\ \A d \in Request : journal[d].phase \notin Unfinished
    /\ agent' = "up"
    /\ UNCHANGED <<onHost, backup, journal, exec, registered, task, moved, faults, bounds,
                   history, flaw>>

(* A synchronisation brings a definition with other paths, or removes it.   *)
SyncDefinition ==
    /\ agent = "up" /\ edits < MaxEdits
    /\ moved' = ~moved /\ edits' = edits + 1
    /\ UNCHANGED <<onHost, backup, journal, exec, registered, agent, task, faults, crashes,
                   operations, history, flaw>>

(* operate: only a registered unit is touched.                              *)
Operate ==
    /\ agent = "up" /\ ~moved /\ registered /\ operations < MaxOperations
    /\ operations' = operations + 1
    /\ \/ service' = NoFile
       \/ CanStart /\ service' = Started
       \/ service' \in {host["binary"]} \cap Version
    /\ UNCHANGED <<host, backup, journal, exec, registered, agent, task, moved, faults, crashes,
                   edits, history, flaw>>

Next ==
    \/ \E d \in Request : OnDeployRequest(d) \/ RejectRequest(d) \/ Advance(d)
                          \/ RecoverDeployment(d) \/ CloseRecovered(d)
    \/ AgentCrash \/ AgentStart \/ EndRecovery \/ SyncDefinition \/ Operate

Spec == Init /\ [][Next]_vars
-----------------------------------------------------------------------------
(* Every variable holds a value of its kind; a goroutine exists only while  *)
(* its execution runs or the Agent recovers.                                *)
TypeOK ==
    /\ host \in Files /\ service \in Version \cup {NoFile}
    /\ backup \in [Request -> Files]
    /\ journal \in [Request -> Row]
    /\ exec \in [Request -> {"NONE", "RUNNING", "SUCCESS", "FAILED"}]
    /\ registered \in BOOLEAN /\ moved \in BOOLEAN
    /\ agent \in {"down", "recovering", "up"}
    /\ task \in [Request -> Task]
    /\ faults \in 0..MaxFaults /\ crashes \in 0..MaxCrashes
    /\ edits \in 0..MaxEdits /\ operations \in 0..MaxOperations
    /\ brings \in [Request -> SUBSET File]
    /\ before \in [Request -> [host : Files, service : Version \cup {NoFile}]]
    /\ flaw \in [Request -> SUBSET Flaw]
    /\ \A d \in Request : At(d, "idle") => task[d] = Idle
    /\ agent = "down" => Running = {}
    /\ agent = "up" => \A d \in Running : exec[d] = "RUNNING" /\ ~task[d].recovering

(* d is the last deployment that was begun, and an upgrade.                 *)
Last(d) == \A e \in Request : e > d => journal[e].phase = "NONE"
Upgrade(d) == before[d].host["binary"] # NoFile

(* What a deployment that was completed has installed stays, through every  *)
(* death and recovery of the Agent, until the next deployment begins, and   *)
(* no deployment reports success without that; unless two of them ran at    *)
(* the same time.  (deploy, RecoverDeployments)                             *)
SuccessIsInstalled ==
    \A d \in Request :
      /\ exec[d] = "SUCCESS" => journal[d].phase = "DONE"
      /\ journal[d].phase = "DONE" /\ Last(d) /\ "overlap" \notin flaw[d] =>
           \A f \in brings[d] : host[f] = d

(* At every moment the journal and the backups suffice to undo an           *)
(* unfinished upgrade: for each file that is no longer what it was there is *)
(* a complete copy, and the row says where.  (deploy writes them in the     *)
(* right order, and UpdateDeploymentPhase takes no path away)               *)
JournalSuffices ==
    \A d \in Request :
      journal[d].phase \in Unfinished /\ Upgrade(d) /\ flaw[d] \cap {"overlap", "backup"} = {} =>
        \A f \in File :
          before[d].host[f] \notin {NoFile, host[f]} =>
            f \in journal[d].saved /\ backup[d][f] = before[d].host[f]

(* An upgrade that has failed or was interrupted has left every previous    *)
(* file as it was, however often the Agent died on the way, if no backup or *)
(* restoring write failed, the Agent did not die in the rollback itself and *)
(* recovered under the same definition.  (rollback, RecoverDeployments)     *)
Settled(d) == agent = "up" /\ At(d, "idle") /\ journal[d].phase = "ROLLING_BACK"
FailedIsRestored ==
    \A d \in Request :
      Settled(d) /\ Last(d) /\ Upgrade(d) /\ flaw[d] = {} =>
        \A f \in File : before[d].host[f] \in {NoFile, host[f]}

(* No request is forgotten: while the Agent runs, an execution that is      *)
(* RUNNING has its goroutine still at work.  (the callback on every path of *)
(* deploy, recoverInterruptedExecutions)                                    *)
EveryRequestIsServed ==
    \A d \in Request : agent = "up" /\ exec[d] = "RUNNING" => ~At(d, "idle")

(* ARCHITECTURE.md on the Deployment Journal: after a crash the Agent       *)
(* prefers to restore the previous version.  So a service that ran before   *)
(* an interrupted upgrade runs again.                                       *)
PreviousRunsAgain ==
    \A d \in Request :
      Settled(d) /\ Last(d) /\ Upgrade(d) /\ flaw[d] = {} =>
        before[d].service \in {NoFile, service}
=============================================================================
