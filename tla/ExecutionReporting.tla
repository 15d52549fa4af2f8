-------------------------- MODULE ExecutionReporting --------------------------
(***************************************************************************)
(* One Agent reports the executions it runs to the Hub.                    *)
(*                                                                         *)
(* The Agent keeps a journal (its `executions` table), runs each execution *)
(* in a goroutine of its own, and hands messages to one send channel that  *)
(* outlives the connection it was filled for.  The Hub keeps a row per     *)
(* execution and serves every connection from a goroutine of its own, so   *)
(* the handler of an old connection may still be between its SELECT and    *)
(* its UPDATE while the handler of the next connection works on the same   *)
(* row.  Both processes may stop and start again; only the two tables      *)
(* survive.                                                                *)
(*                                                                         *)
(* A connection is a slot of Conn: it is taken when the Agent dials and    *)
(* free again when the Hub's handler has left it.                          *)
(***************************************************************************)
EXTENDS Naturals, Sequences, FiniteSets, Functions

CONSTANTS
    HubExec,     \* executions the Hub creates and dispatches
    AgentExec,   \* executions the Agent's own schedules create
    Conn,        \* connection slots
    NoConn,      \* "not connected"
    Outcomes,    \* results a run may end with
    MaxFaults,   \* bound: link losses, restarts and full channels
    MaxExec,     \* bound: executions created
    Lossy        \* executions whose messages may find the Agent's send channel full

Exec == HubExec \cup AgentExec

(* isTerminalExecution *)
Terminal == {"SUCCESS", "FAILED", "SKIPPED", "CANCELED", "TIMED_OUT", "BLOCKED"}

ASSUME ConstantsAssumption ==
    /\ HubExec \cap AgentExec = {}
    /\ NoConn \notin Conn
    /\ Outcomes \subseteq Terminal
    /\ MaxFaults \in Nat
    /\ MaxExec \in Nat /\ Lossy \subseteq Exec

None == "NONE"                              \* no row for this execution
HubStatus == {None, "PENDING", "RUNNING"} \cup Terminal
Reported == {"RUNNING"} \cup Terminal        \* what an upload may say
AgentStatus == {None} \cup Reported

(* What the Agent's dispatch loop and a Hub read loop may be suspended in. *)
Idle == [op |-> "IDLE"]
LoopState == {Idle} \cup [op : {"ACK"}, id : Exec, status : Reported]
             \cup [op : {"RECONCILE"}, todo : SUBSET [id : Exec, status : Reported]]
HandlerState == {Idle, [op |-> "HELLO"]}
                \cup [op : {"START", "FINISH", "CREATE"}, id : Exec, status : Reported]

Message == [type: {"HELLO", "HELLO_ACK"}]
           \cup [type: {"RUN", "STARTED", "ACK", "NACK"}, id: Exec]
           \cup [type: {"FINISHED"}, id: Exec, status: Reported]

Hello == [type |-> "HELLO"]
HelloAck == [type |-> "HELLO_ACK"]
Run(e) == [type |-> "RUN", id |-> e]
Started(e) == [type |-> "STARTED", id |-> e]
Ack(e) == [type |-> "ACK", id |-> e]
Nack(e) == [type |-> "NACK", id |-> e]
Finished(e, s) == [type |-> "FINISHED", id |-> e, status |-> s]

VARIABLES
    (* Agent *)
    alive,         \* the process is up
    journal,       \* its executions table: status and synced flag
    worker,        \* executeTask goroutine: "idle", "running", or the result
                   \* it has journalled and not yet sent
    loop,          \* what the dispatch loop of the connection is in the middle of
    out,           \* sendCh
    link,          \* the connection it is on
    (* Hub *)
    row,           \* its executions table
    undispatched,  \* rows createAndDispatch has inserted and not yet sent
    session,       \* SessionManager's entry for the node
    gate,          \* per connection: "free", "open", "closed" or "leaving"
    handler,       \* per connection: what the read loop is in the middle of
    (* the wire *)
    up, down,      \* per connection, in order: to the Hub, to the Agent
    faults,
    (* history *)
    results,       \* the results the Agent ever journalled
    early,         \* executions uploaded while their journal said RUNNING
    stored         \* executions whose result the Hub ever wrote

agentVars == <<alive, journal, worker, loop, out, link>>
hubVars == <<row, undispatched, session, gate, handler>>
history == <<results, early, stored>>
vars == <<alive, journal, worker, loop, out, link, row, undispatched, session,
          gate, handler, up, down, faults, results, early, stored>>

Init ==
    /\ alive = TRUE
    /\ journal = [e \in Exec |-> [status |-> None, synced |-> FALSE]]
    /\ worker = [e \in Exec |-> "idle"]
    /\ loop = Idle
    /\ out = <<>>
    /\ link = NoConn
    /\ row = [e \in Exec |-> None]
    /\ undispatched = {}
    /\ session = NoConn
    /\ gate = [c \in Conn |-> "free"]
    /\ handler = [c \in Conn |-> Idle]
    /\ up = [c \in Conn |-> <<>>]
    /\ down = [c \in Conn |-> <<>>]
    /\ faults = 0
    /\ results = [e \in Exec |-> {}]
    /\ early = {}
    /\ stored = {}

-----------------------------------------------------------------------------
(* The wire.                                                               *)

Fault == faults < MaxFaults /\ faults' = faults + 1
NoFault == UNCHANGED faults

(* Manager.Send: a full channel drops the message.  What fills it (log     *)
(* chunks) is not modelled, so "full" is a fault that may happen.          *)
Send(m) ==
    \/ out' = Append(out, m) /\ NoFault
    \/ m.id \in Lossy /\ Fault /\ out' = out

(* wsConn.send, and the writeLoop behind it.  A message for a connection   *)
(* either side has left reaches nobody.                                    *)
Reply(c, m) ==
    down' = IF gate[c] = "open" /\ link = c
            THEN [down EXCEPT ![c] = Append(@, m)] ELSE down

(* connectAndServe up to the read loop: dial, connected, HELLO. *)
Connect(c) ==
    /\ alive /\ link = NoConn /\ gate[c] = "free"
    /\ link' = c
    /\ gate' = [gate EXCEPT ![c] = "open"]
    /\ up' = [up EXCEPT ![c] = <<Hello>>]
    /\ down' = [down EXCEPT ![c] = <<>>]
    /\ UNCHANGED <<alive, journal, worker, loop, out, row, undispatched, session,
                   handler, faults, history>>

(* writeLoop of the Agent: the oldest message goes to the current connection. *)
WriteLoop ==
    /\ link # NoConn /\ out # <<>>
    /\ out' = Tail(out)
    /\ up' = IF gate[link] = "open"
             THEN [up EXCEPT ![link] = Append(@, Head(out))] ELSE up
    /\ UNCHANGED <<alive, journal, worker, loop, link, hubVars, down, faults, history>>

(* The Agent's Read fails: connectAndServe returns, the connection is      *)
(* dropped.  The cancelled writeLoop may still take messages from sendCh   *)
(* and lose them; those it leaves are sent on the next connection.         *)
AgentDisconnect ==
    /\ link # NoConn /\ loop = Idle
    /\ IF gate[link] = "open" THEN Fault ELSE NoFault
    /\ \E k \in 0..Len(out) : out' = SubSeq(out, k + 1, Len(out))
    /\ link' = NoConn
    /\ down' = [down EXCEPT ![link] = <<>>]
    /\ UNCHANGED <<alive, journal, worker, loop, hubVars, up, history>>

(* The Hub's Read fails and handle returns: done is closed, what was not   *)
(* read is lost, the session is still registered.                          *)
HubLeave(c) ==
    /\ gate[c] \in {"open", "closed"} /\ handler[c] = Idle
    /\ IF gate[c] = "open" /\ link = c THEN Fault ELSE NoFault
    /\ gate' = [gate EXCEPT ![c] = "leaving"]
    /\ up' = [up EXCEPT ![c] = <<>>]
    /\ UNCHANGED <<agentVars, row, undispatched, session, handler, down, history>>

(* handleDisconnect: only the current session is unregistered. *)
HandleDisconnect(c) ==
    /\ gate[c] = "leaving"
    /\ gate' = [gate EXCEPT ![c] = "free"]
    /\ session' = IF session = c THEN NoConn ELSE session
    /\ UNCHANGED <<agentVars, row, undispatched, handler, up, down, faults, history>>

MoreExecutions ==
    Cardinality({e \in Exec : row[e] # None \/ journal[e].status # None}) < MaxExec

-----------------------------------------------------------------------------
(* The Hub.                                                                *)

(* createAndDispatch up to the INSERT.  The node status it reads first is  *)
(* a record of its own, which may be stale: any session is possible here.  *)
CreateExecution(e) ==
    /\ e \in HubExec /\ row[e] = None /\ MoreExecutions
    /\ row' = [row EXCEPT ![e] = "PENDING"]
    /\ undispatched' = undispatched \cup {e}
    /\ UNCHANGED <<agentVars, session, gate, handler, up, down, faults, history>>

(* Mutant: the error branch is taken after the message was queued. *)
DispatchToAgent_FailsAfterSend(e) ==
    /\ e \in undispatched /\ session # NoConn
    /\ undispatched' = undispatched \ {e}
    /\ Reply(session, Run(e))
    /\ row' = [row EXCEPT ![e] = "FAILED"]
    /\ UNCHANGED <<agentVars, session, gate, handler, up, faults, history>>

(* Mutant: a dispatch that was sent is retried. *)
DispatchToAgent_SendsTwice(e) ==
    /\ e \in undispatched /\ session # NoConn
    /\ Reply(session, Run(e))
    /\ UNCHANGED <<agentVars, row, undispatched, session, gate, handler, up, faults, history>>

(* dispatchToAgent, and the UPDATE to FAILED when it returns an error: no  *)
(* session, a required parameter missing, or a connection being left.  The *)
(* last may also take the message while its buffer has room: Go's select   *)
(* chooses either branch.                                                  *)
DispatchToAgent(e) ==
    /\ e \in undispatched
    /\ undispatched' = undispatched \ {e}
    /\ \/ /\ session # NoConn
          /\ Reply(session, Run(e))
          /\ row' = row
       \/ /\ row' = [row EXCEPT ![e] = "FAILED"]
          /\ UNCHANGED down
    /\ UNCHANGED <<agentVars, session, gate, handler, up, faults, history>>

Receive(c, type) ==
    /\ gate[c] = "open" /\ handler[c] = Idle
    /\ up[c] # <<>> /\ Head(up[c]).type = type
    /\ up' = [up EXCEPT ![c] = Tail(@)]

(* handleHello: SessionManager.Register closes and replaces the old session. *)
HandleHello(c) ==
    /\ gate[c] = "open" /\ handler[c] = Idle
    /\ up[c] # <<>> /\ Head(up[c]) = Hello
    /\ session' = c
    /\ gate' = IF session \in Conn \ {c} /\ gate[session] = "open"
               THEN [gate EXCEPT ![session] = "closed"] ELSE gate
    /\ up' = [d \in Conn |-> IF d = c THEN Tail(up[c])
                             ELSE IF d = session THEN <<>> ELSE up[d]]
    /\ handler' = [handler EXCEPT ![c] = [op |-> "HELLO"]]
    /\ UNCHANGED <<agentVars, row, undispatched, down, faults, history>>

(* The rest of handleHello: HELLO_ACK is queued after Register returned. *)
SendHelloAck(c) ==
    /\ handler[c].op = "HELLO"
    /\ Reply(c, HelloAck)
    /\ handler' = [handler EXCEPT ![c] = Idle]
    /\ UNCHANGED <<agentVars, row, undispatched, session, gate, up, faults, history>>

(* MarkStarted: GetExecution ... *)
MarkStarted(c) ==
    /\ Receive(c, "STARTED")
    /\ LET e == Head(up[c]).id IN
       handler' = IF row[e] = None THEN handler
                  ELSE [handler EXCEPT ![c] = [op |-> "START", id |-> e, status |-> "RUNNING"]]
    /\ UNCHANGED <<agentVars, row, undispatched, session, gate, down, faults, history>>

(* Mutant: the acknowledgement leaves before the record is written. *)
MarkFinished_AcksFirst(c) ==
    /\ Receive(c, "FINISHED")
    /\ LET m == Head(up[c]) IN
       /\ Reply(c, Ack(m.id))
       /\ handler' = IF row[m.id] \in Terminal THEN handler
                     ELSE [handler EXCEPT ![c] = [op |-> "FINISH", id |-> m.id, status |-> m.status]]
    /\ UNCHANGED <<agentVars, row, undispatched, session, gate, faults, history>>

(* MarkFinished: GetExecution, and the return for a terminal record. *)
MarkFinished(c) ==
    /\ Receive(c, "FINISHED")
    /\ LET m == Head(up[c]) IN
       IF row[m.id] \in Terminal
       THEN Reply(c, Ack(m.id)) /\ UNCHANGED handler
       ELSE /\ handler' = [handler EXCEPT ![c] =
                 [op |-> IF row[m.id] = None THEN "CREATE" ELSE "FINISH",
                  id |-> m.id, status |-> m.status]]
            /\ UNCHANGED down
    /\ UNCHANGED <<agentVars, row, undispatched, session, gate, faults, history>>

(* ... and the write of the whole record that was read, then the answer.   *)
(* An INSERT of an execution another connection has inserted meanwhile     *)
(* breaks the primary key and is answered with an error.                   *)
WriteExecution(c) ==
    LET h == handler[c]
        refused == h.op = "CREATE" /\ row[h.id] # None
    IN
    /\ h.op \in {"START", "FINISH", "CREATE"}
    /\ handler' = [handler EXCEPT ![c] = Idle]
    /\ row' = IF refused THEN row ELSE [row EXCEPT ![h.id] = h.status]
    /\ stored' = IF ~refused /\ h.status \in Terminal THEN stored \cup {h.id} ELSE stored
    /\ IF h.op = "START" THEN UNCHANGED down
       ELSE Reply(c, IF refused THEN Nack(h.id) ELSE Ack(h.id))
    /\ UNCHANGED <<agentVars, undispatched, session, gate, up, faults, results, early>>

(* The Hub process stops and starts: sessions and running handlers are     *)
(* gone, the table is not.                                                 *)
HubRestart ==
    /\ Fault
    /\ undispatched' = {}
    /\ session' = NoConn
    /\ gate' = [c \in Conn |-> "free"]
    /\ handler' = [c \in Conn |-> Idle]
    /\ up' = [c \in Conn |-> <<>>]
    /\ UNCHANGED <<agentVars, row, down, history>>

-----------------------------------------------------------------------------
(* The Agent.                                                              *)

Deliver(type) ==
    /\ link # NoConn /\ loop = Idle
    /\ down[link] # <<>> /\ Head(down[link]).type = type
    /\ down' = [down EXCEPT ![link] = Tail(@)]

Write(e, status, synced) ==
    journal' = [journal EXCEPT ![e] = [status |-> status, synced |-> synced]]

(* Mutant: the listing forgets to look whether there is a record. *)
Unsynced_AnyRecord == {e \in Exec : ~journal[e].synced}

Unsynced == {e \in Exec : journal[e].status # None /\ ~journal[e].synced}

(* What the dispatch loop still has to upload after it listed the journal. *)
Uploading(todo) == IF todo = {} THEN Idle ELSE [op |-> "RECONCILE", todo |-> todo]

(* Mutant: a reconnect does not reconcile. *)
OnHelloAck_NoReconcile ==
    /\ Deliver("HELLO_ACK")
    /\ loop' = Idle
    /\ UNCHANGED <<alive, journal, worker, out, link, hubVars, up, faults, history>>

(* OnHelloAck and reconcileExecutions: the unsynced records are listed ... *)
OnHelloAck ==
    /\ Deliver("HELLO_ACK")
    /\ loop' = Uploading({[id |-> e, status |-> journal[e].status] : e \in Unsynced})
    /\ UNCHANGED <<alive, journal, worker, out, link, hubVars, up, faults, history>>

(* ... and uploadExecution sends each of them as it was listed, the ones   *)
(* still RUNNING included.                                                 *)
UploadExecution ==
    /\ loop.op = "RECONCILE"
    /\ \E r \in loop.todo :
       /\ loop' = Uploading(loop.todo \ {r})
       /\ Send(Finished(r.id, r.status))
       /\ early' = IF r.status = "RUNNING" THEN early \cup {r.id} ELSE early
    /\ UNCHANGED <<alive, journal, worker, link, hubVars, up, down, results, stored>>

(* OnRunExecution: journal first; an execution already journalled is       *)
(* ignored; one that arrives before READY is journalled as BLOCKED.        *)
(* The ready flag is modelled in module Sessions: both cases may occur.    *)
OnRunExecution ==
    /\ Deliver("RUN")
    /\ LET e == Head(down[link]).id IN
       \/ /\ journal[e].status # None
          /\ UNCHANGED <<journal, worker, out, results, faults>>
       \/ /\ journal[e].status = None
          /\ Write(e, "RUNNING", FALSE)
          /\ worker' = [worker EXCEPT ![e] = "running"]
          /\ Send(Started(e))
          /\ UNCHANGED results
       \/ /\ journal[e].status = None
          /\ Write(e, "BLOCKED", FALSE)
          /\ results' = [results EXCEPT ![e] = @ \cup {"BLOCKED"}]
          /\ Send(Finished(e, "BLOCKED"))
          /\ UNCHANGED worker
    /\ UNCHANGED <<alive, loop, link, hubVars, up, early, stored>>

(* OnExecutionAck reads the record ... *)
OnExecutionAck ==
    /\ Deliver("ACK")
    /\ LET e == Head(down[link]).id IN
       loop' = IF journal[e].status = None THEN Idle
               ELSE [op |-> "ACK", id |-> e, status |-> journal[e].status]
    /\ UNCHANGED <<alive, journal, worker, out, link, hubVars, up, faults, history>>

(* ... and writes all of it back with Synced set. *)
MarkSynced ==
    /\ loop.op = "ACK"
    /\ Write(loop.id, loop.status, TRUE)
    /\ loop' = Idle
    /\ UNCHANGED <<alive, worker, out, link, hubVars, up, down, faults, history>>

(* An error answer leaves the record unsynced. *)
OnExecutionNack ==
    /\ Deliver("NACK")
    /\ UNCHANGED <<alive, journal, worker, loop, out, link, hubVars, up, faults, history>>

(* TriggerSchedule: a schedule the Agent owns, connected or not.  When a   *)
(* required parameter is missing it returns after the record is written.   *)
TriggerSchedule(e) ==
    /\ alive /\ e \in AgentExec /\ journal[e].status = None /\ MoreExecutions
    /\ Write(e, "RUNNING", FALSE)
    /\ worker' \in {worker, [worker EXCEPT ![e] = "running"]}
    /\ UNCHANGED <<alive, loop, out, link, hubVars, up, down, faults, history>>

(* executeTask ends in finishExecution, which journals the result ... *)
FinishExecution(e) ==
    /\ worker[e] = "running"
    /\ \E s \in Outcomes :
       /\ Write(e, s, FALSE)
       /\ worker' = [worker EXCEPT ![e] = s]
       /\ results' = [results EXCEPT ![e] = @ \cup {s}]
    /\ UNCHANGED <<alive, loop, out, link, hubVars, up, down, faults, early, stored>>

(* ... and then sends it if the Agent is connected. *)
ReportResult(e) ==
    /\ worker[e] \in Terminal
    /\ worker' = [worker EXCEPT ![e] = "idle"]
    /\ IF link # NoConn THEN Send(Finished(e, worker[e])) ELSE UNCHANGED <<out, faults>>
    /\ UNCHANGED <<alive, journal, loop, link, hubVars, up, down, history>>

(* The Agent process dies: only the journal is left. *)
AgentCrash ==
    /\ alive /\ Fault
    /\ alive' = FALSE
    /\ worker' = [e \in Exec |-> "idle"]
    /\ loop' = Idle /\ out' = <<>> /\ link' = NoConn
    /\ down' = [c \in Conn |-> <<>>]
    /\ UNCHANGED <<journal, hubVars, up, history>>

(* Mutant: recovery fails every unsynced record, finished or not. *)
AgentStart_FailsUnsynced ==
    /\ ~alive /\ alive' = TRUE
    /\ journal' = [e \in Exec |-> IF e \in Unsynced
                                  THEN [status |-> "FAILED", synced |-> FALSE]
                                  ELSE journal[e]]
    /\ results' = [e \in Exec |-> IF e \in Unsynced
                                  THEN results[e] \cup {"FAILED"} ELSE results[e]]
    /\ UNCHANGED <<worker, loop, out, link, hubVars, up, down, faults, early, stored>>

(* recoverInterruptedExecutions runs before the scheduler and the          *)
(* connection are started.                                                 *)
AgentStart ==
    /\ ~alive /\ alive' = TRUE
    /\ journal' = [e \in Exec |-> IF journal[e].status = "RUNNING"
                                  THEN [status |-> "FAILED", synced |-> FALSE]
                                  ELSE journal[e]]
    /\ results' = [e \in Exec |-> IF journal[e].status = "RUNNING"
                                  THEN results[e] \cup {"FAILED"} ELSE results[e]]
    /\ UNCHANGED <<worker, loop, out, link, hubVars, up, down, faults, early, stored>>

-----------------------------------------------------------------------------

Next ==
    \/ WriteLoop \/ AgentDisconnect \/ AgentCrash \/ AgentStart \/ HubRestart
    \/ OnHelloAck \/ UploadExecution \/ OnRunExecution \/ OnExecutionAck
    \/ MarkSynced \/ OnExecutionNack
    \/ \E c \in Conn : \/ Connect(c) \/ HubLeave(c) \/ HandleDisconnect(c)
                       \/ HandleHello(c) \/ SendHelloAck(c) \/ MarkStarted(c)
                       \/ MarkFinished(c) \/ WriteExecution(c)
    \/ \E e \in Exec : \/ CreateExecution(e) \/ DispatchToAgent(e)
                       \/ TriggerSchedule(e) \/ FinishExecution(e) \/ ReportResult(e)

Spec == Init /\ [][Next]_vars

(***************************************************************************)
(* Every goroutine that can go on does: both read loops and write loops    *)
(* run until their connection breaks, a broken connection is noticed, the  *)
(* Agent redials for ever, a task ends at the latest at its timeout, and a *)
(* stopped Agent is started again.                                         *)
(***************************************************************************)
Fairness ==
    /\ WF_vars(WriteLoop)
    /\ WF_vars(link # NoConn /\ gate[link] # "open" /\ AgentDisconnect)
    /\ WF_vars(AgentStart)
    /\ WF_vars(OnHelloAck) /\ WF_vars(UploadExecution) /\ WF_vars(OnRunExecution)
    /\ WF_vars(OnExecutionAck) /\ WF_vars(MarkSynced) /\ WF_vars(OnExecutionNack)
    /\ WF_vars(\E c \in Conn : Connect(c))
    /\ \A c \in Conn :
        /\ WF_vars(link # c /\ HubLeave(c))
        /\ WF_vars(HandleDisconnect(c))
        /\ WF_vars(HandleHello(c)) /\ WF_vars(SendHelloAck(c))
        /\ WF_vars(MarkStarted(c)) /\ WF_vars(MarkFinished(c))
        /\ WF_vars(WriteExecution(c))
    /\ \A e \in Exec : WF_vars(FinishExecution(e)) /\ WF_vars(ReportResult(e))

FairSpec == Spec /\ Fairness

-----------------------------------------------------------------------------

AgentTypeOK ==
    /\ alive \in BOOLEAN
    /\ journal \in [Exec -> [status : AgentStatus, synced : BOOLEAN]]
    /\ worker \in [Exec -> {"idle", "running"} \cup Terminal]
    /\ loop \in LoopState
    /\ out \in Seq(Message)
    /\ link \in Conn \cup {NoConn}

HubTypeOK ==
    /\ row \in [Exec -> HubStatus]
    /\ undispatched \subseteq HubExec
    /\ session \in Conn \cup {NoConn}
    /\ gate \in [Conn -> {"free", "open", "closed", "leaving"}]
    /\ handler \in [Conn -> HandlerState]

WireTypeOK ==
    /\ up \in [Conn -> Seq(Message)]
    /\ down \in [Conn -> Seq(Message)]
    /\ faults \in 0..MaxFaults

HistoryTypeOK ==
    /\ results \in [Exec -> SUBSET Terminal]
    /\ early \subseteq Exec
    /\ stored \subseteq Exec

(* Every variable holds a value of its kind. *)
TypeOK == AgentTypeOK /\ HubTypeOK /\ WireTypeOK /\ HistoryTypeOK

(***************************************************************************)
(* Results.  An execution is "early" once reconcileExecutions has uploaded *)
(* it while the journal still said RUNNING.  Such an upload is answered    *)
(* and written like a result, which breaks ResultReachesHub and is what    *)
(* JournalResultKept and HubResultKept have to except.                     *)
(***************************************************************************)

(* A terminal status on the Hub is a result the Agent journalled for this  *)
(* execution at some time, or the FAILED of a dispatch that the Agent      *)
(* never saw: the Hub invents no result.                                   *)
HubResultBacked ==
    \A e \in Exec : row[e] \in Terminal =>
        \/ row[e] \in results[e]
        \/ row[e] = "FAILED" /\ journal[e].status = None

(* The Agent never drops a result the Hub does not have: a synced record   *)
(* is skipped by every later reconciliation, so the Hub must have written  *)
(* its result by then (OnExecutionAck against MarkFinished).               *)
AckedResultStored ==
    \A e \in Exec \ early : journal[e].synced =>
        e \in stored /\ journal[e].status \in Terminal

(* A result in the journal stays and a synced record stays synced, through *)
(* acknowledgements, crashes and duplicate RUNs.  One step breaks this:    *)
(* OnExecutionAck puts back the RUNNING copy it read before                *)
(* finishExecution wrote the result.  That takes an acknowledgement of a   *)
(* RUNNING upload; no other acknowledgement finds the record unfinished.   *)
JournalResultKept ==
    [][\A e \in Exec : journal[e].status \in Terminal =>
        \/ /\ journal'[e].status = journal[e].status
           /\ journal[e].synced => journal'[e].synced
        \/ /\ loop = [op |-> "ACK", id |-> e, status |-> "RUNNING"]
           /\ loop' = Idle
           /\ e \in early]_vars

(* Three writes take a result out of the Hub's table, each by a handler    *)
(* that read the row before the result was there: MarkStarted, which does  *)
(* not look for a terminal status, on a connection the Agent has given up; *)
(* MarkFinished of a RUNNING upload, on any connection; MarkFinished of    *)
(* another result, when the Agent has journalled two (JournalResultKept    *)
(* says how it loses the first).                                           *)
HubResultKept ==
    [][\A e \in Exec : row[e] \in Terminal /\ row'[e] # row[e] =>
        \E c \in Conn :
            \/ handler[c].op = "START" /\ handler[c].id = e /\ c # link
            \/ /\ handler[c].op = "FINISH" /\ handler[c].id = e /\ e \in early
               /\ handler[c].status = "RUNNING" \/ {row[e], row'[e]} \subseteq results[e]]_vars

(* Once the journal has a result it is uploaded again on every connection  *)
(* until the Hub has acknowledged it.                                      *)
ResultEventuallySynced ==
    \A e \in Exec \ Lossy : journal[e].status \in Terminal ~> journal[e].synced

(* The Agent spec has the record synced only after the Hub acknowledged    *)
(* it, so that every result reaches the Hub.                               *)
ResultReachesHub ==
    \A e \in Exec : journal[e].status \in Terminal ~> e \in stored

-----------------------------------------------------------------------------
(***************************************************************************)
(* Why AckedResultStored and JournalResultKept hold: an inductive          *)
(* invariant.  Everything on its way to the Hub is backed by the journal,  *)
(* everything on its way to the Agent by the Hub's table.                  *)
(***************************************************************************)

(* The journal stands behind a report of status s for e. *)
ReportBacked(e, s) ==
    /\ journal[e].status # None
    /\ e \notin early => s \in Terminal /\ journal[e].status \in Terminal

(* The Agent cannot have heard of e: its row is new, or failed to leave. *)
Unreached(e) ==
    \/ e \in undispatched
    \/ e \in HubExec /\ row[e] = None
    \/ row[e] \in Terminal /\ e \notin stored

UpBacked(m) ==
    /\ m.type = "STARTED" => journal[m.id].status # None
    /\ m.type = "FINISHED" => ReportBacked(m.id, m.status)

DownBacked(m) ==
    /\ m.type = "RUN" => ~Unreached(m.id)
    /\ m.type = "ACK" => m.id \in stored \cup early

HandlerBacked(h) ==
    /\ h.op = "START" => h.status = "RUNNING" /\ journal[h.id].status # None
    /\ h.op \in {"FINISH", "CREATE"} => ReportBacked(h.id, h.status)

WorkerBacked(e) ==
    /\ worker[e] = "running" => journal[e].status = "RUNNING"
    /\ worker[e] \in Terminal => ReportBacked(e, worker[e])

LoopBacked ==
    /\ loop.op = "RECONCILE" => \A r \in loop.todo :
          /\ journal[r.id].status # None
          /\ r.status \in Terminal /\ r.id \notin early => journal[r.id].status \in Terminal
    /\ loop.op = "ACK" =>
          /\ journal[loop.id].status # None
          /\ loop.status = "RUNNING" \/ loop.status = journal[loop.id].status
          /\ loop.id \notin early => loop.id \in stored /\ loop.status \in Terminal

AgentUp ==
    /\ link # NoConn => alive
    /\ ~alive => worker = [e \in Exec |-> "idle"]

JournalBacked ==
    \A e \in Exec \ early : /\ journal[e].synced => e \in stored
                            /\ e \in stored => journal[e].status \in Terminal

RowBacked ==
    \A e \in Exec : /\ e \in undispatched => row[e] = "PENDING"
                    /\ Unreached(e) => e \in HubExec /\ journal[e].status = None

WireBacked ==
    /\ \A m \in Range(out) : UpBacked(m)
    /\ \A c \in Conn : \A m \in Range(up[c]) : UpBacked(m)
    /\ \A c \in Conn : \A m \in Range(down[c]) : DownBacked(m)

(* Everything that is on its way between the Agent and the Hub, in a       *)
(* queue, a handler or a goroutine, is backed by the table it came from.   *)
ReportInv ==
    /\ AgentUp /\ JournalBacked /\ RowBacked /\ LoopBacked /\ WireBacked
    /\ \A e \in Exec : WorkerBacked(e)
    /\ \A c \in Conn : HandlerBacked(handler[c])

=============================================================================
