----------------------------- MODULE ConfigSync -----------------------------
(***************************************************************************)
(* The Hub's desired state on its way to one Agent.                        *)
(*                                                                         *)
(* Operators change scripts, tasks, schedules, applications and node       *)
(* labels; each change commits under a new global revision and is          *)
(* announced afterwards.  The Agent learns of a newer revision from the    *)
(* announcement, from a periodic check or on reconnecting, asks for it,    *)
(* and replaces its copy in one local transaction.  The Hub answers from   *)
(* several SELECTs with no transaction around them.                        *)
(*                                                                         *)
(* An object's content is the revision that last wrote it, 0 if it does    *)
(* not exist.  A Labelled object is wanted on this node only while the     *)
(* node has the label.  Any statement may fail (Fault): an error that the  *)
(* code returns ends the operation, one that it swallows is an absent row. *)
(***************************************************************************)
EXTENDS Naturals, Sequences

CONSTANTS
    Obj,
    Labelled,    \* objects targeted by a label of the node
    Schedules,   \* objects the Agent's scheduler keeps in memory
    Single,      \* objects that a SELECT of their own reads: scripts, applications
    Packaged,    \* applications with an artifact
    Tables,      \* number of SELECTs of ComputeDesiredState
    Table,       \* the SELECT that reads an object
    Window,      \* changelog_window
    MaxRev,      \* bound: operator changes
    Reports,     \* what periodicLoop sends: HEARTBEAT, REVISION_CHECK
    SendChannel, \* capacity of the Hub's send channel: a full one blocks
    MaxQueue,    \* bound: no report is sent on top of so many messages in flight
    MaxFaults,   \* bound: restarts, lost connections, full channels, failing statements
    Lossy,       \* whether the Agent's send channel may be found full
    ReuseIds,    \* whether operators create an object under a deleted one's ID
    Dispatch     \* whether the Hub dispatches an execution

ASSUME ConstantsAssumption ==
    /\ Labelled \subseteq Obj /\ Schedules \subseteq Obj
    /\ Packaged \subseteq Single /\ Single \subseteq Obj
    /\ Tables \in Nat /\ Table \in [Obj -> 1..Tables]
    /\ {Window, MaxRev, SendChannel, MaxQueue, MaxFaults} \subseteq Nat
    /\ Reports \subseteq {"HEARTBEAT", "REVISION_CHECK"}
    /\ {Lossy, ReuseIds, Dispatch} \subseteq BOOLEAN

Revision == 0..MaxRev
Objects == [Obj -> Revision]
Stripped == MaxRev + 1    \* an application without its artifact's URL and hash
Copies == [Obj -> Revision \cup {Stripped}]
NotifyAll == 0    \* a pending announcement of whatever revision is current

Idle == [op |-> "IDLE"]
Greeting == [op |-> "GREET"]
Building == [op : {"BUILD"}, since : Revision, rev : Revision, label : BOOLEAN,
             objs : Copies, cut : SUBSET Single, step : 0..Tables + 1]
Applying == [op : {"APPLY"}, rev : Revision, objs : Copies, cut : SUBSET Single,
             tombs : SUBSET Obj]
Tick == [type : {"HEARTBEAT", "REVISION_CHECK"}, rev : Revision]

UpMessage == [type : {"HELLO"}] \cup [type : {"SYNC_REQUEST"}, since : Revision]
             \cup [type : {"SYNC_ACK"}, rev : Revision, ok : BOOLEAN] \cup Tick
DownMessage == [type : {"HELLO_ACK", "RUN"}]
               \cup [type : {"CHANGE", "REVISION_CHECK_ACK"}, rev : Revision]
               \cup [type : {"SYNC_RESPONSE"}, rev : Revision, objs : Copies,
                     cut : SUBSET Single, tombs : SUBSET Obj]

VARIABLES
    (* Hub: database *)
    rev,         \* revision_sequence
    hub,         \* its objects
    tomb,        \* tombstones: the revision of the last deletion, 0 for none
    label,       \* whether the node has the label
    node,        \* the node record: revision and sync status
    (* Hub: process *)
    unnotified,  \* committed changes whose announcement is still to be sent
    session,     \* the current connection is registered
    builder,     \* what the connection's handler is in the middle of answering
    (* Agent: database *)
    local,       \* its objects
    localRev,    \* its global revision
    (* Agent: process *)
    sched,       \* schedules its scheduler has armed
    ready,       \* the READY flag
    applying,    \* the response its dispatch loop is applying
    tick,        \* the report periodicLoop has read and not yet sent
    (* the wire *)
    link,        \* the Agent is connected
    up,          \* sendCh and the way to the Hub
    late,        \* what the Hub's handler of an old connection still holds
    down,        \* the way to the Agent
    faults,
    (* history *)
    touched,     \* the last revision that concerned the object on this node
    missing,     \* what failed SELECTs cut from the response last applied
    reloaded,    \* the scheduler's last reload read the stored schedules
    reconciled,  \* a sync has been applied on this connection
    greeted,     \* HELLO_ACK has been handled on this connection
    run          \* the execution dispatched on this connection

hubData == <<rev, hub, tomb, label>>
hubVars == <<hubData, node, unnotified, session, builder>>
agentData == <<local, localRev, sched>>
agentVars == <<agentData, ready, applying, tick>>
wire == <<link, up, late, down, faults>>
history == <<touched, missing, reloaded, reconciled, greeted, run>>
vars == <<hubVars, agentVars, wire, history>>

None == [type |-> "NONE"]

Init ==
    /\ rev = 0
    /\ hub = [o \in Obj |-> 0]
    /\ tomb = [o \in Obj |-> 0]
    /\ label = TRUE
    /\ node = [rev |-> 0, status |-> "new"]
    /\ unnotified = {}
    /\ session = FALSE
    /\ builder = Idle
    /\ local = [o \in Obj |-> 0]
    /\ localRev = 0
    /\ sched = {}
    /\ ready = FALSE
    /\ applying = Idle
    /\ tick = None
    /\ link = FALSE
    /\ up = <<>> /\ late = <<>> /\ down = <<>>
    /\ faults = 0
    /\ touched = [o \in Obj |-> 0]
    /\ missing = {} /\ reloaded = TRUE
    /\ reconciled = FALSE /\ greeted = FALSE
    /\ run = "none"

(* What ComputeDesiredState yields for object o when nothing changes. *)
Wanted(o, labelled) == IF o \in Labelled /\ ~labelled THEN 0 ELSE hub[o]
Desired == [o \in Obj |-> Wanted(o, label)]

-----------------------------------------------------------------------------
(* Operators.  runMutationTx: the object, the revision, the tombstone and  *)
(* the audit record commit together.                                       *)

Commit(concerned, announcement) ==
    /\ rev < MaxRev /\ rev' = rev + 1
    /\ touched' = [o \in Obj |-> IF o \in concerned THEN rev' ELSE touched[o]]
    /\ unnotified' = unnotified \cup {announcement}
    /\ UNCHANGED <<node, session, builder, agentVars, wire, missing, reloaded,
                   reconciled, greeted, run>>

(* Create and Update; the API takes the ID of a new object from the client. *)
PutObject(o) ==
    /\ hub[o] = 0 /\ tomb[o] # 0 => ReuseIds
    /\ Commit({o}, rev + 1)
    /\ hub' = [hub EXCEPT ![o] = rev + 1]
    /\ UNCHANGED <<tomb, label>>

DeleteObject(o) ==
    /\ hub[o] # 0
    /\ Commit({o}, rev + 1)
    /\ hub' = [hub EXCEPT ![o] = 0]
    /\ tomb' = [tomb EXCEPT ![o] = rev + 1]
    /\ UNCHANGED label

(* SetLabels; group membership and assignments change the target likewise. *)
SetLabels ==
    /\ Commit(Labelled, NotifyAll)
    /\ label' = ~label
    /\ UNCHANGED <<hub, tomb>>

-----------------------------------------------------------------------------
(* The wire.                                                               *)

Fault == faults < MaxFaults /\ faults' = faults + 1
NoFault == UNCHANGED faults

(* Manager.Send. *)
Send(m) ==
    \/ up' = Append(up, m) /\ NoFault
    \/ Lossy /\ Fault /\ up' = up

(* wsConn.send, which blocks while the channel is full. *)
Reply(m) == Len(down) < SendChannel /\ down' = Append(down, m)

(* dial, connected, HELLO; sendCh still holds what no connection has taken. *)
Connect ==
    /\ ~link /\ link' = TRUE
    /\ up' = <<[type |-> "HELLO"]>> \o up
    /\ reconciled' = FALSE /\ greeted' = FALSE /\ run' = "none"
    /\ UNCHANGED <<hubVars, agentVars, late, down, faults, touched, missing, reloaded>>

(* The connection breaks.  The Hub's handler may have received some of the *)
(* messages and handles them before it leaves; some are lost; the rest     *)
(* waits in sendCh.  Messages of a connection before that one are given up *)
(* (bound: one old handler), and so are those of one that said no HELLO.   *)
(* A HELLO that fails ends the connection too.                             *)
Broken ==
    /\ link' = FALSE /\ session' = FALSE /\ builder' = Idle
    /\ down' = <<>>

Disconnect ==
    /\ link /\ applying = Idle /\ Fault
    /\ Broken
    /\ \E i \in 0..Len(up) : \E j \in i..Len(up) :
        /\ late' = IF session THEN SubSeq(up, 1, i) ELSE <<>>
        /\ up' = SubSeq(up, j + 1, Len(up))
        /\ \A k \in j + 1..Len(up) : up[k].type # "HELLO"
    /\ UNCHANGED <<hubData, node, unnotified, agentVars, history>>

HubRestart ==
    /\ applying = Idle /\ Fault
    /\ Broken
    /\ unnotified' = {} /\ late' = <<>>
    /\ up' = <<>>
    /\ UNCHANGED <<hubData, node, agentVars, history>>

(* The Agent dies, in the middle of a sync or not, and starts again with   *)
(* what it had committed: reloadSchedulerSchedules arms the stored ones,   *)
(* or none if it cannot read them.  A COMMIT that fails ends the same way, *)
(* in an unlock of a free mutex.                                           *)
Armed(objs) == {o \in Schedules : objs[o] # 0}

AgentRestart ==
    /\ Fault
    /\ Broken
    /\ applying' = Idle /\ tick' = None /\ ready' = FALSE
    /\ sched' \in {{}, Armed(local)} /\ reloaded' = TRUE
    /\ late' = <<>> /\ up' = <<>>
    /\ UNCHANGED <<hubData, node, unnotified, local, localRev,
                   touched, missing, reconciled, greeted, run>>

-----------------------------------------------------------------------------
(* The Hub.                                                                *)

(* NotifyChange and NotifyAll, after the commit.  NotifyAll says nothing   *)
(* if it cannot read the revision.                                         *)
Notify(n) ==
    /\ n \in unnotified
    /\ unnotified' = unnotified \ {n}
    /\ \/ /\ session /\ NoFault
          /\ Reply([type |-> "CHANGE", rev |-> IF n = NotifyAll THEN rev ELSE n])
       \/ ~session /\ NoFault /\ UNCHANGED down
       \/ n = NotifyAll /\ Fault /\ UNCHANGED down
    /\ UNCHANGED <<hubData, node, session, builder, agentVars, link, up, late, history>>

(* The current connection's handler reads the next message ... *)
Receive(type) ==
    /\ link /\ builder = Idle
    /\ up # <<>> /\ Head(up).type = type
    /\ up' = Tail(up)

(* ... or an old connection's handler one of its last. *)
ReceiveLate(type) ==
    /\ late # <<>> /\ Head(late).type = type
    /\ late' = Tail(late)

(* handleHello: Register; from here on others may send on the connection ... *)
HandleHello ==
    /\ Receive("HELLO")
    /\ session' = TRUE /\ builder' = Greeting
    /\ UNCHANGED <<hubData, node, unnotified, agentVars, link, late, down,
                   faults, history>>

(* ... and only then HELLO_ACK. *)
SendHelloAck ==
    /\ builder = Greeting
    /\ Reply([type |-> "HELLO_ACK"])
    /\ builder' = Idle
    /\ UNCHANGED <<hubData, node, unnotified, session, agentVars, link, up,
                   late, faults, history>>

(* UpdateSyncState, whose error is ignored. *)
Record(r, status) ==
    \/ node' = [rev |-> r, status |-> status] /\ NoFault
    \/ UNCHANGED node /\ Fault

Unreported == <<hubData, unnotified, session, builder, agentVars, link, history>>

(* handleHeartbeat; revision 0 is not recorded, and a current revision     *)
(* that cannot be read is 0.                                               *)
HeartbeatRecorded(r) ==
    \/ r = 0 /\ UNCHANGED node /\ NoFault
    \/ r > 0 /\ Record(r, IF r < rev THEN "outdated" ELSE "synced")
    \/ r > 0 /\ node' = [rev |-> r, status |-> "synced"] /\ Fault

HandleHeartbeat ==
    \/ /\ Receive("HEARTBEAT") /\ HeartbeatRecorded(Head(up).rev)
       /\ UNCHANGED <<late, down, Unreported>>
    \/ /\ ReceiveLate("HEARTBEAT") /\ HeartbeatRecorded(Head(late).rev)
       /\ UNCHANGED <<up, down, Unreported>>

(* handleRevisionCheck; only an outdated node is recorded, and one that    *)
(* cannot be compared is not answered.                                     *)
CheckRecorded(r) ==
    \/ r < rev /\ Record(r, "outdated")
    \/ r >= rev /\ UNCHANGED node /\ NoFault

HandleRevisionCheck ==
    \/ /\ Receive("REVISION_CHECK")
       /\ \/ /\ CheckRecorded(Head(up).rev)
             /\ Reply([type |-> "REVISION_CHECK_ACK", rev |-> rev])
          \/ Fault /\ UNCHANGED <<node, down>>
       /\ UNCHANGED <<late, Unreported>>
    \/ /\ ReceiveLate("REVISION_CHECK") /\ CheckRecorded(Head(late).rev)
       /\ UNCHANGED <<up, down, Unreported>>

(* handleSyncAck. *)
AckRecorded(m) == Record(m.rev, IF m.ok THEN "synced" ELSE "error")

HandleSyncAck ==
    \/ /\ Receive("SYNC_ACK") /\ AckRecorded(Head(up))
       /\ UNCHANGED <<late, down, Unreported>>
    \/ /\ ReceiveLate("SYNC_ACK") /\ AckRecorded(Head(late))
       /\ UNCHANGED <<up, down, Unreported>>

(* BuildSyncResponse reads the current revision first ... *)
HandleSyncRequest ==
    \/ /\ Receive("SYNC_REQUEST")
       /\ builder' = [op |-> "BUILD", since |-> Head(up).since, rev |-> rev,
                      label |-> FALSE, objs |-> [o \in Obj |-> 0], cut |-> {},
                      step |-> 0]
       /\ UNCHANGED <<late, down>>
       /\ UNCHANGED <<hubData, node, unnotified, session, agentVars, link,
                      faults, history>>
    \/ /\ ReceiveLate("SYNC_REQUEST")   \* its answer reaches nobody
       /\ UNCHANGED <<up, down, node, faults, Unreported>>

(* What the steps of an answer leave alone. *)
unread == <<hubData, node, unnotified, session, agentVars, link, up, late, history>>

(* ... then, in ComputeDesiredState, the node with its labels ... *)
ReadNode ==
    /\ builder.op = "BUILD" /\ builder.step = 0
    /\ builder' = [builder EXCEPT !.label = label, !.step = 1]
    /\ NoFault
    /\ UNCHANGED <<down, unread>>

(* ... then one table after the other.  Of the objects of a table that are *)
(* read one by one, failing SELECTs leave some out (GetScript,             *)
(* GetApplicationNodes), and some applications without what is said of     *)
(* their artifact (GetArtifact).                                           *)
ReadTable_OnceMore ==
    /\ builder.op = "BUILD" /\ builder.step >= 1
    /\ builder' = [builder EXCEPT !.step = @ + 1]
    /\ NoFault
    /\ UNCHANGED <<down, unread>>

Exposed == {o \in Single : Table[o] = builder.step /\ Wanted(o, builder.label) # 0}

ReadTable ==
    /\ builder.op = "BUILD" /\ builder.step \in 1..Tables
    /\ \E out \in SUBSET Exposed, bare \in SUBSET (Exposed \cap Packaged) :
        /\ IF out \cup bare = {} THEN NoFault ELSE Fault
        /\ builder' = [builder EXCEPT
               !.objs = [o \in Obj |-> IF Table[o] # builder.step THEN @[o]
                                       ELSE IF o \in out THEN 0
                                       ELSE IF o \in bare THEN Stripped
                                       ELSE Wanted(o, builder.label)],
               !.cut = @ \cup out \cup bare,
               !.step = @ + 1]
    /\ UNCHANGED <<down, unread>>

(* The revision, the node, the groups or a whole list cannot be read: the  *)
(* error is logged, and the request stays unanswered.                      *)
AbandonSync ==
    /\ builder.op = "BUILD" /\ builder.step \in 0..Tables
    /\ Fault
    /\ builder' = Idle
    /\ UNCHANGED <<down, unread>>

(* The tombstones come last; none for an empty Agent, and none in a full   *)
(* resync.  If changelog_window cannot be read the default window applies, *)
(* and tombstones that cannot be read are none.                            *)
Buried(since) == IF since = 0 THEN {} ELSE {o \in Obj : tomb[o] > since}
TombstonesSince(since, current) == IF current > since + Window THEN {} ELSE Buried(since)

SendSyncResponse_RevisionLast ==
    /\ builder.op = "BUILD" /\ builder.step = Tables + 1
    /\ Reply([type |-> "SYNC_RESPONSE", rev |-> rev, objs |-> builder.objs,
              cut |-> builder.cut, tombs |-> TombstonesSince(builder.since, rev)])
    /\ builder' = Idle
    /\ NoFault
    /\ UNCHANGED unread

SendSyncResponse ==
    /\ builder.op = "BUILD" /\ builder.step = Tables + 1
    /\ \E tombs \in {TombstonesSince(builder.since, builder.rev), Buried(builder.since), {}} :
        /\ IF tombs = TombstonesSince(builder.since, builder.rev) THEN NoFault ELSE Fault
        /\ Reply([type |-> "SYNC_RESPONSE", rev |-> builder.rev, objs |-> builder.objs,
                  cut |-> builder.cut, tombs |-> tombs])
    /\ builder' = Idle
    /\ UNCHANGED unread

(* dispatchToAgent, once per connection. *)
DispatchToAgent ==
    /\ Dispatch /\ session /\ run = "none"
    /\ run' = "sent"
    /\ Reply([type |-> "RUN"])
    /\ UNCHANGED <<hubVars, agentVars, link, up, late, faults, touched, missing, reloaded,
                   reconciled, greeted>>

-----------------------------------------------------------------------------
(* The Agent.                                                              *)

Deliver(type) ==
    /\ link /\ applying = Idle
    /\ down # <<>> /\ Head(down).type = type
    /\ down' = Tail(down)

Request(since) == [type |-> "SYNC_REQUEST", since |-> since]

(* requestSync; a local revision that cannot be read is 0. *)
RequestAll == Fault /\ up' = Append(up, Request(0))
RequestSync == Send(Request(localRev)) \/ RequestAll

(* OnHelloAck asks for a sync whatever revision the Hub is at. *)
OnHelloAck_KeepsReady ==
    /\ Deliver("HELLO_ACK")
    /\ greeted' = TRUE
    /\ RequestSync
    /\ UNCHANGED <<hubVars, agentData, ready, applying, tick, link, late, touched, missing,
                   reloaded, reconciled, run>>

OnHelloAck ==
    /\ Deliver("HELLO_ACK")
    /\ ready' = FALSE /\ greeted' = TRUE
    /\ RequestSync
    /\ UNCHANGED <<hubVars, agentData, applying, tick, link, late, touched, missing, reloaded,
                   reconciled, run>>

(* OnChangeNotification, OnRevisionCheckAck. *)
OnRevision_AnnouncedOnly ==
    /\ Deliver("CHANGE") \/ Deliver("REVISION_CHECK_ACK")
    /\ IF Head(down).type = "CHANGE" /\ Head(down).rev > localRev
       THEN RequestSync ELSE UNCHANGED <<up, faults>>
    /\ UNCHANGED <<hubVars, agentVars, link, late, history>>

OnRevision ==
    /\ Deliver("CHANGE") \/ Deliver("REVISION_CHECK_ACK")
    /\ \/ Head(down).rev > localRev /\ RequestSync
       \/ Head(down).rev <= localRev /\ UNCHANGED <<up, faults>>
       \/ Head(down).rev > 0 /\ RequestAll
    /\ UNCHANGED <<hubVars, agentVars, link, late, history>>

(* OnSyncResponse, applySync: the transaction is open, the objects are     *)
(* written and pruned, tombstoned schedules are disarmed.                  *)
OnSyncResponse_RevisionFirst ==
    /\ Deliver("SYNC_RESPONSE")
    /\ LET m == Head(down) IN
       /\ applying' = [op |-> "APPLY", rev |-> m.rev, objs |-> m.objs, cut |-> m.cut,
                       tombs |-> m.tombs]
       /\ sched' = sched \ m.tombs
       /\ localRev' = m.rev
    /\ UNCHANGED <<hubVars, local, ready, tick, link, up, late, faults, history>>

OnSyncResponse_AcksFirst ==
    /\ Deliver("SYNC_RESPONSE")
    /\ LET m == Head(down) IN
       /\ applying' = [op |-> "APPLY", rev |-> m.rev, objs |-> m.objs, cut |-> m.cut,
                       tombs |-> m.tombs]
       /\ sched' = sched \ m.tombs
       /\ up' = Append(up, [type |-> "SYNC_ACK", rev |-> m.rev, ok |-> TRUE])
    /\ UNCHANGED <<hubVars, local, localRev, ready, tick, link, late, faults, history>>

OnSyncResponse ==
    /\ Deliver("SYNC_RESPONSE")
    /\ LET m == Head(down) IN
       /\ applying' = [op |-> "APPLY", rev |-> m.rev, objs |-> m.objs, cut |-> m.cut,
                       tombs |-> m.tombs]
       /\ sched' = sched \ m.tombs
    /\ UNCHANGED <<hubVars, local, localRev, ready, tick, link, up, late, faults, history>>

Ack(r, ok) == [type |-> "SYNC_ACK", rev |-> r, ok |-> ok]

(* BeginSync or the write of an object fails, before the tombstones. *)
RefuseSync ==
    /\ Deliver("SYNC_RESPONSE")
    /\ Fault
    /\ up' = Append(up, Ack(0, FALSE))
    /\ UNCHANGED <<hubVars, agentVars, link, late, history>>

(* CommitSync; then the scheduler is reloaded (and left as it is if its    *)
(* schedules cannot be read), the sync acknowledged and the Agent READY.   *)
CommitSync_ArmsOnly ==
    /\ applying.op = "APPLY"
    /\ local' = [o \in Obj |-> IF o \in applying.tombs THEN 0 ELSE applying.objs[o]]
    /\ localRev' = applying.rev /\ missing' = applying.cut
    /\ sched' = sched \cup Armed(local') /\ reloaded' = TRUE
    /\ applying' = Idle
    /\ ready' = TRUE /\ reconciled' = TRUE
    /\ Send(Ack(applying.rev, TRUE))
    /\ UNCHANGED <<hubVars, tick, link, late, down, touched, greeted, run>>

CommitSync ==
    /\ applying.op = "APPLY"
    /\ local' = [o \in Obj |-> IF o \in applying.tombs THEN 0 ELSE applying.objs[o]]
    /\ localRev' = applying.rev /\ missing' = applying.cut
    /\ \/ /\ sched' = Armed(local') /\ reloaded' = TRUE
          /\ Send(Ack(applying.rev, TRUE))
       \/ /\ UNCHANGED sched /\ reloaded' = FALSE
          /\ up' = Append(up, Ack(applying.rev, TRUE)) /\ Fault
    /\ applying' = Idle
    /\ ready' = TRUE /\ reconciled' = TRUE
    /\ UNCHANGED <<hubVars, tick, link, late, down, touched, greeted, run>>

(* A later write fails: RollbackSync, and the failure is acknowledged. *)
RollbackSync ==
    /\ applying.op = "APPLY"
    /\ Fault
    /\ applying' = Idle
    /\ up' = Append(up, Ack(0, FALSE))
    /\ UNCHANGED <<hubVars, agentData, ready, tick, link, late, down, history>>

(* periodicLoop, a goroutine of its own: sendHeartbeat and checkRevision   *)
(* read the local revision ...                                             *)
ReadRevision(type) ==
    /\ link /\ tick = None
    /\ \/ tick' = [type |-> type, rev |-> localRev] /\ NoFault
       \/ tick' = [type |-> type, rev |-> 0] /\ Fault
    /\ UNCHANGED <<hubVars, agentData, ready, applying, link, up, late, down, history>>

(* ... and send it. *)
SendTick ==
    /\ tick # None /\ Len(up) + Len(down) < MaxQueue
    /\ tick' = None
    /\ IF link THEN Send(tick) ELSE UNCHANGED <<up, faults>>
    /\ UNCHANGED <<hubVars, agentData, ready, applying, link, late, down, history>>

(* OnRunExecution: journalled as BLOCKED unless READY. *)
OnRunExecution ==
    /\ Deliver("RUN")
    /\ run' = IF ~ready THEN "blocked" ELSE IF greeted THEN "accepted" ELSE "overtook"
    /\ UNCHANGED <<hubVars, agentVars, link, up, late, faults, touched, missing, reloaded,
                   reconciled, greeted>>

-----------------------------------------------------------------------------

Next ==
    \/ \E o \in Obj : PutObject(o) \/ DeleteObject(o)
    \/ SetLabels \/ \E n \in unnotified : Notify(n)
    \/ Connect \/ Disconnect \/ HubRestart \/ AgentRestart
    \/ HandleHello \/ SendHelloAck
    \/ HandleHeartbeat \/ HandleRevisionCheck \/ HandleSyncAck
    \/ HandleSyncRequest \/ ReadNode \/ ReadTable \/ AbandonSync \/ SendSyncResponse
    \/ DispatchToAgent
    \/ OnHelloAck \/ OnRevision \/ OnSyncResponse \/ RefuseSync
    \/ CommitSync \/ RollbackSync
    \/ \E type \in Reports : ReadRevision(type)
    \/ SendTick \/ OnRunExecution

Spec == Init /\ [][Next]_vars

(***************************************************************************)
(* The Agent redials for ever; both read loops go on while their queue has *)
(* messages; applySync ends; both timers of periodicLoop fire again and    *)
(* again.  Nobody has to change anything, and no announcement is needed.   *)
(***************************************************************************)
Fairness ==
    /\ WF_vars(Connect)
    /\ WF_vars(HandleHello) /\ WF_vars(SendHelloAck)
    /\ WF_vars(HandleHeartbeat) /\ WF_vars(HandleRevisionCheck)
    /\ WF_vars(HandleSyncAck) /\ WF_vars(HandleSyncRequest)
    /\ WF_vars(ReadNode) /\ WF_vars(ReadTable) /\ WF_vars(SendSyncResponse)
    /\ WF_vars(OnHelloAck) /\ WF_vars(OnRevision) /\ WF_vars(OnSyncResponse)
    /\ WF_vars(CommitSync) /\ WF_vars(OnRunExecution) /\ WF_vars(SendTick)
    /\ \A type \in Reports : SF_vars(ReadRevision(type))

FairSpec == Spec /\ Fairness

-----------------------------------------------------------------------------

HubTypeOK ==
    /\ rev \in Revision /\ hub \in Objects /\ tomb \in Objects /\ label \in BOOLEAN
    /\ node \in [rev : Revision, status : {"new", "synced", "outdated", "error"}]
    /\ unnotified \subseteq Revision
    /\ session \in BOOLEAN
    /\ builder \in {Idle, Greeting} \cup Building

AgentTypeOK ==
    /\ local \in Copies /\ localRev \in Revision
    /\ sched \subseteq Schedules
    /\ ready \in BOOLEAN
    /\ applying \in {Idle} \cup Applying
    /\ tick \in {None} \cup Tick

WireTypeOK ==
    /\ link \in BOOLEAN
    /\ up \in Seq(UpMessage) /\ late \in Seq(UpMessage) /\ down \in Seq(DownMessage)
    /\ faults \in 0..MaxFaults

HistoryTypeOK ==
    /\ touched \in Objects /\ missing \subseteq Single /\ reloaded \in BOOLEAN
    /\ reconciled \in BOOLEAN /\ greeted \in BOOLEAN
    /\ run \in {"none", "sent", "accepted", "overtook", "blocked"}

(* Every variable holds a value of its kind. *)
TypeOK == HubTypeOK /\ AgentTypeOK /\ WireTypeOK /\ HistoryTypeOK

(* What a copy says of an object is what the Hub wants, or the SELECT for  *)
(* this object failed and it says nothing, or nothing of an artifact.      *)
AsWanted(o, copy, cut) == copy[o] = Desired[o] \/ (o \in cut /\ copy[o] \in {0, Stripped})

(* Every object untouched since the revision the Agent is at is, in its    *)
(* database, what the Hub wants (applySync against ComputeDesiredState,    *)
(* whose SELECTs may straddle any number of changes), but for those that   *)
(* failing SELECTs cut from this very response: they are absent or bare,   *)
(* never an older version.                                                 *)
AppliedComplete ==
    \A o \in Obj : touched[o] <= localRev => AsWanted(o, local, missing)

(* The Hub never records a revision for the node that the Agent has not    *)
(* made durable, whatever rolls back, restarts or arrives late.            *)
NodeNeverAhead == node.rev <= localRev

(* A node shown as synced at the current revision has the desired state,   *)
(* but for what failing SELECTs cut from the response it has applied.      *)
SyncedNodeIsCurrent ==
    node.status = "synced" /\ node.rev = rev => \A o \in Obj : AsWanted(o, local, missing)

(* The scheduler fires nothing that a sync has removed from the database,  *)
(* by a tombstone or because the node lost the label, unless the reload    *)
(* after that sync could not read the schedules.                           *)
ArmedSchedulesStored == reloaded => sched \subseteq Armed(local)

(* The Agent's copy with its revision implements the abstract replica: it  *)
(* changes in one step, completely but for the objects whose own SELECT    *)
(* failed, and its revision never goes back.                               *)
Replica == INSTANCE DesiredState WITH
    Content <- Revision \cup {Stripped}, Absent <- 0, Partial <- {0, Stripped}, Apart <- Single,
    want <- Desired, have <- local, version <- localRev, gaps <- missing
ImplementsReplica == Replica!Init /\ [][Replica!Next]_(Replica!vars)

(* Once operators stop and nothing fails any more, the Agent is at the     *)
(* current revision for good, with the desired state but for what was cut  *)
(* from the last response it applied, and the Hub's record says so.        *)
Converges == <>[](/\ localRev = rev /\ \A o \in Obj : AsWanted(o, local, missing)
                  /\ rev > 0 => node = [rev |-> rev, status |-> "synced"])

(* That nothing stays cut from it: openspec/specs/hub/core/spec.md:28,34   *)
(* has the Hub provide enough for the Agent to converge without a restart. *)
(* It does not hold: nobody asks again for a revision the Agent is at.     *)
ConvergesFully == <>[](localRev = rev /\ local = Desired)

(* From HELLO_ACK on the Agent accepts an execution only once a sync has    *)
(* been applied on this connection (an execution dispatched between        *)
(* Register and HELLO_ACK overtakes the reset of the flag).                *)
RunOnlyWhenReconciled == run = "accepted" => reconciled

=============================================================================
