----------------------- MODULE ExecutionReportingProofs -----------------------
(***************************************************************************)
(* Theorems about ExecutionReporting, for any executions, connections and  *)
(* number of faults.  The argument for AckedResultStored and               *)
(* JournalResultKept is the inductive invariant ReportInv: one lemma per   *)
(* group of actions (connections, Hub, journal and dispatch loop, workers) *)
(* shows that a step keeps it.  Most steps only let the tables and the     *)
(* histories grow (Grows), which keeps every queued message backed.        *)
(***************************************************************************)
EXTENDS ExecutionReporting, SequenceTheorems, TLAPS

LEMMA StatusKinds ==
    /\ Terminal \subseteq Reported /\ Reported \subseteq AgentStatus
    /\ AgentStatus \subseteq HubStatus
    /\ None \notin Reported /\ "RUNNING" \in Reported \ Terminal
    /\ "FAILED" \in Terminal /\ "BLOCKED" \in Terminal
BY DEF Terminal, Reported, AgentStatus, HubStatus, None

LEMMA MessageKinds ==
    /\ Hello \in Message /\ HelloAck \in Message
    /\ \A e \in Exec : /\ Run(e) \in Message /\ Started(e) \in Message
                       /\ Ack(e) \in Message /\ Nack(e) \in Message
    /\ \A e \in Exec : \A s \in Reported : Finished(e, s) \in Message
BY DEF Message, Hello, HelloAck, Run, Started, Ack, Nack, Finished

LEMMA MessageFields ==
    ASSUME NEW m \in Message
    PROVE  /\ m.type \in {"RUN", "STARTED", "ACK", "NACK", "FINISHED"} => m.id \in Exec
           /\ m.type = "FINISHED" => m.status \in Reported
BY DEF Message

LEMMA StateKinds ==
    /\ Idle \in LoopState /\ Idle \in HandlerState /\ [op |-> "HELLO"] \in HandlerState
    /\ \A todo \in SUBSET [id : Exec, status : Reported] : Uploading(todo) \in LoopState
    /\ \A e \in Exec : \A s \in Reported :
        /\ [op |-> "ACK", id |-> e, status |-> s] \in LoopState
        /\ \A o \in {"START", "FINISH", "CREATE"} :
            [op |-> o, id |-> e, status |-> s] \in HandlerState
BY DEF Idle, LoopState, HandlerState, Uploading

LEMMA StateFields ==
    /\ \A l \in LoopState : /\ l.op = "ACK" => l.id \in Exec /\ l.status \in Reported
                            /\ l.op = "RECONCILE" =>
                                  l.todo \in SUBSET [id : Exec, status : Reported]
    /\ \A h \in HandlerState : h.op \in {"START", "FINISH", "CREATE"} =>
                                  h.id \in Exec /\ h.status \in Reported
BY DEF Idle, LoopState, HandlerState

LEMMA SendType ==
    ASSUME NEW m \in Message, AgentTypeOK, WireTypeOK, Send(m)
    PROVE  out' \in Seq(Message) /\ faults' \in 0..MaxFaults
<1>1. CASE out' = Append(out, m) /\ NoFault
  BY <1>1 DEF AgentTypeOK, WireTypeOK, NoFault
<1>2. CASE m.id \in Lossy /\ Fault /\ out' = out
  BY <1>2, ConstantsAssumption DEF AgentTypeOK, WireTypeOK, Fault
<1> QED BY <1>1, <1>2 DEF Send

LEMMA ReplyType ==
    ASSUME NEW c \in Conn, NEW m \in Message, WireTypeOK, Reply(c, m)
    PROVE  down' \in [Conn -> Seq(Message)]
<1>1. Append(down[c], m) \in Seq(Message)
  BY DEF WireTypeOK
<1> QED BY <1>1 DEF WireTypeOK, Reply

(* TypeOK is an invariant: every handler, queue and table only ever holds  *)
(* values of its kind (all actions).                                       *)
THEOREM TypeCorrect == Spec => []TypeOK
<1>1. Init => TypeOK
  BY ConstantsAssumption, StateKinds
  DEF Init, TypeOK, AgentTypeOK, HubTypeOK, WireTypeOK, HistoryTypeOK, AgentStatus,
      HubStatus, None
<1>2. TypeOK /\ [Next]_vars => TypeOK'
  <2> SUFFICES ASSUME AgentTypeOK, HubTypeOK, WireTypeOK, HistoryTypeOK, [Next]_vars
               PROVE  TypeOK'
    BY DEF TypeOK
  <2>1. CASE WriteLoop
    <3>1. AgentTypeOK'
      BY <2>1 DEF AgentTypeOK, WriteLoop
    <3>2. HubTypeOK'
      BY <2>1 DEF HubTypeOK, WriteLoop, hubVars
    <3>3. WireTypeOK'
      BY <2>1 DEF WireTypeOK, AgentTypeOK, HubTypeOK, WriteLoop
    <3>4. HistoryTypeOK'
      BY <2>1 DEF HistoryTypeOK, WriteLoop, history
    <3> QED BY <3>1, <3>2, <3>3, <3>4 DEF TypeOK
  <2>2. CASE AgentDisconnect
    <3>1. AgentTypeOK'
      BY <2>2, ConstantsAssumption DEF AgentTypeOK, AgentDisconnect
    <3>2. HubTypeOK'
      BY <2>2 DEF HubTypeOK, AgentDisconnect, hubVars
    <3>3. WireTypeOK'
      BY <2>2, ConstantsAssumption DEF WireTypeOK, AgentTypeOK, AgentDisconnect, Fault, NoFault
    <3>4. HistoryTypeOK'
      BY <2>2 DEF HistoryTypeOK, AgentDisconnect, history
    <3> QED BY <3>1, <3>2, <3>3, <3>4 DEF TypeOK
  <2>3. CASE AgentCrash
    <3>1. AgentTypeOK'
      <4>1. <<>> \in Seq(Message)
        OBVIOUS
      <4> QED BY <2>3, <4>1, StateKinds DEF AgentTypeOK, AgentCrash
    <3>2. HubTypeOK'
      BY <2>3 DEF HubTypeOK, AgentCrash, hubVars
    <3>3. WireTypeOK'
      BY <2>3, ConstantsAssumption DEF WireTypeOK, AgentCrash, Fault
    <3>4. HistoryTypeOK'
      BY <2>3 DEF HistoryTypeOK, AgentCrash, history
    <3> QED BY <3>1, <3>2, <3>3, <3>4 DEF TypeOK
  <2>4. CASE AgentStart
    <3>1. AgentTypeOK'
      BY <2>4, StatusKinds DEF AgentTypeOK, AgentStart
    <3>2. HubTypeOK'
      BY <2>4 DEF HubTypeOK, AgentStart, hubVars
    <3>3. WireTypeOK'
      BY <2>4 DEF WireTypeOK, AgentStart
    <3>4. HistoryTypeOK'
      BY <2>4, StatusKinds DEF HistoryTypeOK, AgentStart
    <3> QED BY <3>1, <3>2, <3>3, <3>4 DEF TypeOK
  <2>5. CASE HubRestart
    <3>1. AgentTypeOK'
      BY <2>5 DEF AgentTypeOK, HubRestart, agentVars
    <3>2. HubTypeOK'
      BY <2>5, StateKinds DEF HubTypeOK, HubRestart
    <3>3. WireTypeOK'
      BY <2>5, ConstantsAssumption DEF WireTypeOK, HubRestart, Fault
    <3>4. HistoryTypeOK'
      BY <2>5 DEF HistoryTypeOK, HubRestart, history
    <3> QED BY <3>1, <3>2, <3>3, <3>4 DEF TypeOK
  <2>6. CASE OnHelloAck
    <3>1. AgentTypeOK'
      BY <2>6, StateKinds DEF AgentTypeOK, OnHelloAck, Deliver, Unsynced, AgentStatus
    <3>2. HubTypeOK'
      BY <2>6 DEF HubTypeOK, OnHelloAck, hubVars
    <3>3. WireTypeOK'
      BY <2>6 DEF WireTypeOK, AgentTypeOK, OnHelloAck, Deliver
    <3>4. HistoryTypeOK'
      BY <2>6 DEF HistoryTypeOK, OnHelloAck, history
    <3> QED BY <3>1, <3>2, <3>3, <3>4 DEF TypeOK
  <2>7. CASE UploadExecution
    <3>m. PICK r \in loop.todo : /\ loop' = Uploading(loop.todo \ {r})
                                 /\ Send(Finished(r.id, r.status))
                                 /\ early' = IF r.status = "RUNNING" THEN early \cup {r.id}
                                             ELSE early
      BY <2>7 DEF UploadExecution
    <3>t. /\ r \in [id : Exec, status : Reported] /\ loop' \in LoopState
          /\ Finished(r.id, r.status) \in Message
      BY <2>7, <3>m, StateFields, StateKinds, MessageKinds DEF UploadExecution, AgentTypeOK
    <3>s. out' \in Seq(Message) /\ faults' \in 0..MaxFaults
      BY <3>m, <3>t, SendType
    <3>1. AgentTypeOK'
      BY <2>7, <3>t, <3>s DEF AgentTypeOK, UploadExecution
    <3>2. HubTypeOK'
      BY <2>7 DEF HubTypeOK, UploadExecution, hubVars
    <3>3. WireTypeOK'
      BY <2>7, <3>s DEF WireTypeOK, UploadExecution
    <3>4. HistoryTypeOK'
      BY <2>7, <3>m, <3>t DEF HistoryTypeOK, UploadExecution
    <3> QED BY <3>1, <3>2, <3>3, <3>4 DEF TypeOK
  <2>8. CASE OnRunExecution
    <3> DEFINE e == Head(down[link]).id
    <3>m. /\ e \in Exec /\ Started(e) \in Message /\ Finished(e, "BLOCKED") \in Message
          /\ down' \in [Conn -> Seq(Message)]
      BY <2>8, MessageFields, MessageKinds, StatusKinds
      DEF OnRunExecution, Deliver, AgentTypeOK, WireTypeOK
    <3> HIDE DEF e
    <3>a. CASE UNCHANGED <<journal, worker, out, results, faults>>
      BY <2>8, <3>a, <3>m DEF TypeOK, AgentTypeOK, HubTypeOK, WireTypeOK, HistoryTypeOK,
         OnRunExecution, hubVars
    <3>b. CASE /\ Write(e, "RUNNING", FALSE)
               /\ worker' = [worker EXCEPT ![e] = "running"]
               /\ Send(Started(e))
               /\ UNCHANGED results
      <4>1. out' \in Seq(Message) /\ faults' \in 0..MaxFaults
        BY <3>b, <3>m, SendType
      <4>2. AgentTypeOK'
        BY <2>8, <3>b, <3>m, <4>1, StatusKinds DEF AgentTypeOK, OnRunExecution, Write
      <4> QED
        BY <2>8, <3>b, <3>m, <4>1, <4>2 DEF TypeOK, HubTypeOK, WireTypeOK, HistoryTypeOK,
           OnRunExecution, hubVars
    <3>c. CASE /\ Write(e, "BLOCKED", FALSE)
               /\ results' = [results EXCEPT ![e] = @ \cup {"BLOCKED"}]
               /\ Send(Finished(e, "BLOCKED"))
               /\ UNCHANGED worker
      <4>1. out' \in Seq(Message) /\ faults' \in 0..MaxFaults
        BY <3>c, <3>m, SendType
      <4>2. AgentTypeOK'
        BY <2>8, <3>c, <3>m, <4>1, StatusKinds DEF AgentTypeOK, OnRunExecution, Write
      <4>3. HistoryTypeOK'
        BY <2>8, <3>c, <3>m, StatusKinds DEF HistoryTypeOK, OnRunExecution
      <4> QED
        BY <2>8, <3>c, <3>m, <4>1, <4>2, <4>3 DEF TypeOK, HubTypeOK, WireTypeOK,
           OnRunExecution, hubVars
    <3> QED BY <2>8, <3>a, <3>b, <3>c DEF OnRunExecution, e
  <2>9. CASE OnExecutionAck
    <3>m. Head(down[link]).id \in Exec
      BY <2>9, MessageFields DEF OnExecutionAck, Deliver, AgentTypeOK, WireTypeOK
    <3>1. AgentTypeOK'
      BY <2>9, <3>m, StateKinds DEF AgentTypeOK, OnExecutionAck, AgentStatus
    <3>2. HubTypeOK'
      BY <2>9 DEF HubTypeOK, OnExecutionAck, hubVars
    <3>3. WireTypeOK'
      BY <2>9 DEF WireTypeOK, AgentTypeOK, OnExecutionAck, Deliver
    <3>4. HistoryTypeOK'
      BY <2>9 DEF HistoryTypeOK, OnExecutionAck, history
    <3> QED BY <3>1, <3>2, <3>3, <3>4 DEF TypeOK
  <2>10. CASE MarkSynced
    <3>1. AgentTypeOK'
      BY <2>10, StateKinds, StateFields, StatusKinds DEF AgentTypeOK, MarkSynced, Write
    <3>2. HubTypeOK'
      BY <2>10 DEF HubTypeOK, MarkSynced, hubVars
    <3>3. WireTypeOK'
      BY <2>10 DEF WireTypeOK, MarkSynced
    <3>4. HistoryTypeOK'
      BY <2>10 DEF HistoryTypeOK, MarkSynced, history
    <3> QED BY <3>1, <3>2, <3>3, <3>4 DEF TypeOK
  <2>11. CASE OnExecutionNack
    <3>1. AgentTypeOK'
      BY <2>11 DEF AgentTypeOK, OnExecutionNack
    <3>2. HubTypeOK'
      BY <2>11 DEF HubTypeOK, OnExecutionNack, hubVars
    <3>3. WireTypeOK'
      BY <2>11 DEF WireTypeOK, AgentTypeOK, OnExecutionNack, Deliver
    <3>4. HistoryTypeOK'
      BY <2>11 DEF HistoryTypeOK, OnExecutionNack, history
    <3> QED BY <3>1, <3>2, <3>3, <3>4 DEF TypeOK
  <2>12. ASSUME NEW c \in Conn, Connect(c) PROVE TypeOK'
    <3>1. AgentTypeOK'
      BY <2>12 DEF AgentTypeOK, Connect
    <3>2. HubTypeOK'
      BY <2>12 DEF HubTypeOK, Connect
    <3>3. WireTypeOK'
      BY <2>12, MessageKinds DEF WireTypeOK, Connect
    <3>4. HistoryTypeOK'
      BY <2>12 DEF HistoryTypeOK, Connect, history
    <3> QED BY <3>1, <3>2, <3>3, <3>4 DEF TypeOK
  <2>13. ASSUME NEW c \in Conn, HubLeave(c) PROVE TypeOK'
    <3>1. AgentTypeOK'
      BY <2>13 DEF AgentTypeOK, HubLeave, agentVars
    <3>2. HubTypeOK'
      BY <2>13 DEF HubTypeOK, HubLeave
    <3>3. WireTypeOK'
      BY <2>13, ConstantsAssumption DEF WireTypeOK, HubLeave, Fault, NoFault
    <3>4. HistoryTypeOK'
      BY <2>13 DEF HistoryTypeOK, HubLeave, history
    <3> QED BY <3>1, <3>2, <3>3, <3>4 DEF TypeOK
  <2>14. ASSUME NEW c \in Conn, HandleDisconnect(c) PROVE TypeOK'
    <3>1. AgentTypeOK'
      BY <2>14 DEF AgentTypeOK, HandleDisconnect, agentVars
    <3>2. HubTypeOK'
      BY <2>14 DEF HubTypeOK, HandleDisconnect
    <3>3. WireTypeOK'
      BY <2>14 DEF WireTypeOK, HandleDisconnect
    <3>4. HistoryTypeOK'
      BY <2>14 DEF HistoryTypeOK, HandleDisconnect, history
    <3> QED BY <3>1, <3>2, <3>3, <3>4 DEF TypeOK
  <2>15. ASSUME NEW c \in Conn, HandleHello(c) PROVE TypeOK'
    <3>1. AgentTypeOK'
      BY <2>15 DEF AgentTypeOK, HandleHello, agentVars
    <3>2. HubTypeOK'
      BY <2>15, StateKinds DEF HubTypeOK, HandleHello
    <3>3. WireTypeOK'
      BY <2>15 DEF WireTypeOK, HandleHello
    <3>4. HistoryTypeOK'
      BY <2>15 DEF HistoryTypeOK, HandleHello, history
    <3> QED BY <3>1, <3>2, <3>3, <3>4 DEF TypeOK
  <2>16. ASSUME NEW c \in Conn, SendHelloAck(c) PROVE TypeOK'
    <3>1. AgentTypeOK'
      BY <2>16 DEF AgentTypeOK, SendHelloAck, agentVars
    <3>2. HubTypeOK'
      BY <2>16, StateKinds DEF HubTypeOK, SendHelloAck
    <3>3. WireTypeOK'
      BY <2>16, MessageKinds DEF WireTypeOK, SendHelloAck, Reply
    <3>4. HistoryTypeOK'
      BY <2>16 DEF HistoryTypeOK, SendHelloAck, history
    <3> QED BY <3>1, <3>2, <3>3, <3>4 DEF TypeOK
  <2>17. ASSUME NEW c \in Conn, MarkStarted(c) PROVE TypeOK'
    <3>m. Head(up[c]).id \in Exec
      BY <2>17, MessageFields DEF MarkStarted, Receive, WireTypeOK
    <3>1. AgentTypeOK'
      BY <2>17 DEF AgentTypeOK, MarkStarted, agentVars
    <3>2. HubTypeOK'
      BY <2>17, <3>m, StateKinds, StatusKinds DEF HubTypeOK, MarkStarted
    <3>3. WireTypeOK'
      BY <2>17 DEF WireTypeOK, MarkStarted, Receive
    <3>4. HistoryTypeOK'
      BY <2>17 DEF HistoryTypeOK, MarkStarted, history
    <3> QED BY <3>1, <3>2, <3>3, <3>4 DEF TypeOK
  <2>18. ASSUME NEW c \in Conn, MarkFinished(c) PROVE TypeOK'
    <3>m. /\ Head(up[c]).id \in Exec /\ Head(up[c]).status \in Reported
          /\ up' \in [Conn -> Seq(Message)]
      BY <2>18, MessageFields DEF MarkFinished, Receive, WireTypeOK
    <3>1. AgentTypeOK'
      BY <2>18 DEF AgentTypeOK, MarkFinished, agentVars
    <3>2. handler' \in [Conn -> HandlerState] /\ down' \in [Conn -> Seq(Message)]
      <4>1. CASE row[Head(up[c]).id] \in Terminal
        BY <2>18, <3>m, <4>1, MessageKinds, ReplyType DEF HubTypeOK, MarkFinished
      <4>2. CASE row[Head(up[c]).id] \notin Terminal
        <5> DEFINE op == IF row[Head(up[c]).id] = None THEN "CREATE" ELSE "FINISH"
        <5>1. [op |-> op, id |-> Head(up[c]).id, status |-> Head(up[c]).status] \in HandlerState
          BY <3>m, StateKinds
        <5>2. handler' = [handler EXCEPT ![c] =
                 [op |-> op, id |-> Head(up[c]).id, status |-> Head(up[c]).status]]
              /\ down' = down
          BY <2>18, <4>2 DEF MarkFinished
        <5> QED BY <5>1, <5>2 DEF HubTypeOK, WireTypeOK
      <4> QED BY <4>1, <4>2
    <3>3. HubTypeOK' /\ WireTypeOK'
      BY <2>18, <3>m, <3>2 DEF HubTypeOK, WireTypeOK, MarkFinished
    <3>4. HistoryTypeOK'
      BY <2>18 DEF HistoryTypeOK, MarkFinished, history
    <3> QED BY <3>1, <3>3, <3>4 DEF TypeOK
  <2>19. ASSUME NEW c \in Conn, WriteExecution(c) PROVE TypeOK'
    <3>m. handler[c].id \in Exec /\ handler[c].status \in Reported
      BY <2>19, StateFields DEF HubTypeOK, WriteExecution
    <3>1. AgentTypeOK'
      BY <2>19 DEF AgentTypeOK, WriteExecution, agentVars
    <3>2. HubTypeOK'
      BY <2>19, <3>m, StateKinds, StatusKinds DEF HubTypeOK, WriteExecution
    <3>d. down' \in [Conn -> Seq(Message)]
      <4>1. CASE handler[c].op = "START"
        BY <2>19, <4>1 DEF WireTypeOK, WriteExecution
      <4>2. CASE handler[c].op # "START"
        BY <2>19, <3>m, <4>2, MessageKinds, ReplyType DEF WriteExecution
      <4> QED BY <4>1, <4>2
    <3>3. WireTypeOK'
      BY <2>19, <3>d DEF WireTypeOK, WriteExecution
    <3>4. HistoryTypeOK'
      BY <2>19, <3>m DEF HistoryTypeOK, WriteExecution
    <3> QED BY <3>1, <3>2, <3>3, <3>4 DEF TypeOK
  <2>20. ASSUME NEW e \in Exec, CreateExecution(e) PROVE TypeOK'
    <3>1. AgentTypeOK'
      BY <2>20 DEF AgentTypeOK, CreateExecution, agentVars
    <3>2. HubTypeOK'
      BY <2>20 DEF HubTypeOK, CreateExecution, HubStatus
    <3>3. WireTypeOK'
      BY <2>20 DEF WireTypeOK, CreateExecution
    <3>4. HistoryTypeOK'
      BY <2>20 DEF HistoryTypeOK, CreateExecution, history
    <3> QED BY <3>1, <3>2, <3>3, <3>4 DEF TypeOK
  <2>21. ASSUME NEW e \in Exec, DispatchToAgent(e) PROVE TypeOK'
    <3>1. AgentTypeOK'
      BY <2>21 DEF AgentTypeOK, DispatchToAgent, agentVars
    <3>2. HubTypeOK'
      BY <2>21, StatusKinds DEF HubTypeOK, DispatchToAgent
    <3>3. WireTypeOK'
      <4>1. CASE session # NoConn /\ Reply(session, Run(e))
        <5>1. down' \in [Conn -> Seq(Message)]
          BY <4>1, MessageKinds, ReplyType DEF HubTypeOK
        <5> QED BY <2>21, <5>1 DEF WireTypeOK, DispatchToAgent
      <4>2. CASE UNCHANGED down
        BY <2>21, <4>2 DEF WireTypeOK, DispatchToAgent
      <4> QED BY <2>21, <4>1, <4>2 DEF DispatchToAgent
    <3>4. HistoryTypeOK'
      BY <2>21 DEF HistoryTypeOK, DispatchToAgent, history
    <3> QED BY <3>1, <3>2, <3>3, <3>4 DEF TypeOK
  <2>22. ASSUME NEW e \in Exec, TriggerSchedule(e) PROVE TypeOK'
    <3>1. AgentTypeOK'
      BY <2>22, StatusKinds DEF AgentTypeOK, TriggerSchedule, Write
    <3>2. HubTypeOK'
      BY <2>22 DEF HubTypeOK, TriggerSchedule, hubVars
    <3>3. WireTypeOK'
      BY <2>22 DEF WireTypeOK, TriggerSchedule
    <3>4. HistoryTypeOK'
      BY <2>22 DEF HistoryTypeOK, TriggerSchedule, history
    <3> QED BY <3>1, <3>2, <3>3, <3>4 DEF TypeOK
  <2>23. ASSUME NEW e \in Exec, FinishExecution(e) PROVE TypeOK'
    <3>1. AgentTypeOK'
      BY <2>23, StatusKinds, ConstantsAssumption DEF AgentTypeOK, FinishExecution, Write
    <3>2. HubTypeOK'
      BY <2>23 DEF HubTypeOK, FinishExecution, hubVars
    <3>3. WireTypeOK'
      BY <2>23 DEF WireTypeOK, FinishExecution
    <3>4. HistoryTypeOK'
      BY <2>23, ConstantsAssumption DEF HistoryTypeOK, FinishExecution
    <3> QED BY <3>1, <3>2, <3>3, <3>4 DEF TypeOK
  <2>24. ASSUME NEW e \in Exec, ReportResult(e) PROVE TypeOK'
    <3>s. out' \in Seq(Message) /\ faults' \in 0..MaxFaults
      <4>1. CASE link # NoConn
        <5>1. Finished(e, worker[e]) \in Message
          BY <2>24, MessageKinds, StatusKinds DEF ReportResult
        <5> QED BY <2>24, <4>1, <5>1, SendType DEF ReportResult
      <4>2. CASE link = NoConn
        BY <2>24, <4>2 DEF ReportResult, AgentTypeOK, WireTypeOK
      <4> QED BY <4>1, <4>2
    <3>1. AgentTypeOK'
      BY <2>24, <3>s DEF AgentTypeOK, ReportResult
    <3>2. HubTypeOK'
      BY <2>24 DEF HubTypeOK, ReportResult, hubVars
    <3>3. WireTypeOK'
      BY <2>24, <3>s DEF WireTypeOK, ReportResult
    <3>4. HistoryTypeOK'
      BY <2>24 DEF HistoryTypeOK, ReportResult, history
    <3> QED BY <3>1, <3>2, <3>3, <3>4 DEF TypeOK

  <2>25. CASE UNCHANGED vars
    BY <2>25 DEF TypeOK, AgentTypeOK, HubTypeOK, WireTypeOK, HistoryTypeOK, vars
  <2> QED
    BY <2>1, <2>2, <2>3, <2>4, <2>5, <2>6, <2>7, <2>8, <2>9, <2>10, <2>11, <2>12, <2>13, <2>14, <2>15, <2>16, <2>17, <2>18, <2>19, <2>20, <2>21, <2>22, <2>23, <2>24, <2>25 DEF Next
<1> QED
  BY <1>1, <1>2, PTL DEF Spec

-----------------------------------------------------------------------------
(***************************************************************************)
(* ReportInv is inductive.  A step only adds to what the two tables stand  *)
(* behind (Grows), so a message, a handler or a goroutine that was backed  *)
(* still is, and each action has only to account for what it adds.         *)
(***************************************************************************)

(* MarkSynced writes the copy of e that was read while e was RUNNING. *)
PutBack(e) == loop = [op |-> "ACK", id |-> e, status |-> "RUNNING"] /\ loop' = Idle

Grows ==
    /\ early \subseteq early' /\ stored \subseteq stored'
    /\ \A e \in Exec : journal[e].status # None => journal'[e].status # None
    /\ \A e \in Exec : journal[e].status \in Terminal =>
          \/ /\ journal'[e].status = journal[e].status
             /\ journal[e].synced => journal'[e].synced
          \/ PutBack(e) /\ e \in early
    /\ \A e \in Exec : Unreached(e)' => Unreached(e)

LEMMA QueueRange ==
    ASSUME NEW S, NEW q \in Seq(S)
    PROVE  /\ Range(q) \subseteq S
           /\ \A m \in S : Range(Append(q, m)) = Range(q) \cup {m}
           /\ q # <<>> => Head(q) \in Range(q) /\ Range(Tail(q)) \subseteq Range(q)
           /\ \A k \in 0..Len(q) : Range(SubSeq(q, k + 1, Len(q))) \subseteq Range(q)
<1>1. Range(q) \subseteq S
  BY RangeOfSeq
<1>2. \A m \in S : Range(Append(q, m)) = Range(q) \cup {m}
  BY AppendProperties DEF Range
<1>3. q # <<>> => Head(q) \in Range(q) /\ Range(Tail(q)) \subseteq Range(q)
  BY HeadTailProperties DEF Range
<1>4. ASSUME NEW k \in 0..Len(q)
      PROVE  Range(SubSeq(q, k + 1, Len(q))) \subseteq Range(q)
  BY SubSeqProperties DEF Range
<1> QED BY <1>1, <1>2, <1>3, <1>4

LEMMA EmptyRange == Range(<<>>) = {}
BY DEF Range

LEMMA GrowsBacked ==
    ASSUME Grows
    PROVE  /\ \A e \in Exec : \A s : ReportBacked(e, s) => ReportBacked(e, s)'
           /\ \A m \in Message : UpBacked(m) => UpBacked(m)'
           /\ \A m \in Message : DownBacked(m) => DownBacked(m)'
           /\ \A h \in HandlerState : HandlerBacked(h) => HandlerBacked(h)'
<1>1. \A e \in Exec : \A s : ReportBacked(e, s) => ReportBacked(e, s)'
  BY DEF Grows, ReportBacked
<1>2. \A m \in Message : UpBacked(m) => UpBacked(m)'
  BY <1>1, MessageFields DEF Grows, UpBacked
<1>3. \A m \in Message : DownBacked(m) => DownBacked(m)'
  BY MessageFields DEF Grows, DownBacked
<1>4. \A h \in HandlerState : HandlerBacked(h) => HandlerBacked(h)'
  BY <1>1, StateFields DEF Grows, HandlerBacked
<1> QED BY <1>1, <1>2, <1>3, <1>4

LEMMA WireStep ==
    ASSUME TypeOK, WireBacked, Grows,
           \A m \in Range(out') : m \in Range(out) \/ UpBacked(m)',
           \A c \in Conn : \A m \in Range(up'[c]) :
                m \in Range(up[c]) \/ m \in Range(out) \/ UpBacked(m)',
           \A c \in Conn : \A m \in Range(down'[c]) : m \in Range(down[c]) \/ DownBacked(m)'
    PROVE  WireBacked'
<1>1. /\ Range(out) \subseteq Message
      /\ \A c \in Conn : Range(up[c]) \subseteq Message /\ Range(down[c]) \subseteq Message
  BY QueueRange DEF TypeOK, AgentTypeOK, WireTypeOK
<1> QED BY <1>1, GrowsBacked DEF WireBacked

LEMMA SendStep ==
    ASSUME NEW m \in Message, TypeOK, Send(m)
    PROVE  Range(out') \subseteq Range(out) \cup {m}
BY QueueRange DEF Send, TypeOK, AgentTypeOK

LEMMA ReplyStep ==
    ASSUME NEW c \in Conn, NEW m \in Message, TypeOK, Reply(c, m)
    PROVE  \A d \in Conn : Range(down'[d]) \subseteq Range(down[d]) \cup {m}
BY QueueRange DEF Reply, TypeOK, WireTypeOK

(* What a loop takes from its queue, and what the step leaves there. *)
LEMMA DeliverStep ==
    ASSUME NEW type, TypeOK, WireBacked, Deliver(type)
    PROVE  /\ link \in Conn
           /\ Head(down[link]) \in Message /\ Head(down[link]).type = type
           /\ DownBacked(Head(down[link]))
           /\ type \in {"RUN", "ACK", "NACK"} => Head(down[link]).id \in Exec
           /\ \A d \in Conn : Range(down'[d]) \subseteq Range(down[d])
<1>1. link \in Conn /\ Head(down[link]) \in Range(down[link])
  BY QueueRange DEF Deliver, TypeOK, AgentTypeOK, WireTypeOK
<1>2. Head(down[link]) \in Message
  BY <1>1, QueueRange DEF TypeOK, WireTypeOK
<1>3. \A d \in Conn : Range(down'[d]) \subseteq Range(down[d])
  BY QueueRange DEF Deliver, TypeOK, AgentTypeOK, WireTypeOK
<1> QED BY <1>1, <1>2, <1>3, MessageFields DEF WireBacked, Deliver

LEMMA ReceiveStep ==
    ASSUME NEW c \in Conn, NEW type, TypeOK, WireBacked, Receive(c, type)
    PROVE  /\ Head(up[c]) \in Message /\ Head(up[c]).type = type
           /\ UpBacked(Head(up[c]))
           /\ type \in {"STARTED", "FINISHED"} => Head(up[c]).id \in Exec
           /\ type = "FINISHED" => Head(up[c]).status \in Reported
           /\ \A d \in Conn : Range(up'[d]) \subseteq Range(up[d])
<1>1. Head(up[c]) \in Range(up[c])
  BY QueueRange DEF Receive, TypeOK, WireTypeOK
<1>2. Head(up[c]) \in Message
  BY <1>1, QueueRange DEF TypeOK, WireTypeOK
<1>3. \A d \in Conn : Range(up'[d]) \subseteq Range(up[d])
  BY QueueRange DEF Receive, TypeOK, WireTypeOK
<1> QED BY <1>1, <1>2, <1>3, MessageFields DEF WireBacked, Receive

LEMMA StepGrows ==
    ASSUME TypeOK, ReportInv, [Next]_vars
    PROVE  Grows
<1> USE DEF TypeOK, AgentTypeOK, HubTypeOK, HistoryTypeOK
<1>1. CASE UNCHANGED <<journal, row, undispatched, early, stored>>
  BY <1>1 DEF Grows, Unreached
<1>2. CASE WriteLoop \/ AgentDisconnect \/ AgentCrash \/ OnHelloAck \/ OnExecutionAck
           \/ OnExecutionNack \/ UNCHANGED vars
  BY <1>1, <1>2 DEF WriteLoop, AgentDisconnect, AgentCrash, OnHelloAck, OnExecutionAck,
     OnExecutionNack, vars, hubVars, history
<1>3. ASSUME NEW c \in Conn,
             Connect(c) \/ HubLeave(c) \/ HandleDisconnect(c) \/ HandleHello(c)
             \/ SendHelloAck(c) \/ MarkStarted(c) \/ MarkFinished(c)
      PROVE  Grows
  BY <1>1, <1>3 DEF Connect, HubLeave, HandleDisconnect, HandleHello, SendHelloAck,
     MarkStarted, MarkFinished, agentVars, history
<1>4. ASSUME NEW e \in Exec, ReportResult(e) PROVE Grows
  BY <1>1, <1>4 DEF ReportResult, hubVars, history
<1>5. CASE AgentStart
  BY <1>5, StatusKinds DEF AgentStart, hubVars, Grows, Unreached, None
<1>6. CASE HubRestart
  BY <1>6 DEF HubRestart, agentVars, history, Grows, Unreached
<1>7. CASE UploadExecution
  BY <1>7 DEF UploadExecution, hubVars, Grows, Unreached
<1>8. CASE OnRunExecution
  <2>1. \E e \in Exec : \/ journal' = journal
                        \/ /\ journal[e].status = None
                           /\ \E s \in Reported : Write(e, s, FALSE)
    <3>1. Head(down[link]).id \in Exec
      BY <1>8, DeliverStep DEF OnRunExecution, ReportInv
    <3> QED BY <1>8, <3>1, StatusKinds DEF OnRunExecution
  <2>2. UNCHANGED <<row, undispatched, early, stored>>
    BY <1>8 DEF OnRunExecution, hubVars
  <2> QED BY <2>1, <2>2, StatusKinds DEF Write, Grows, Unreached
<1>9. CASE MarkSynced
  <2>1. loop.id \in Exec /\ loop.status \in Reported
    BY <1>9, StateFields DEF MarkSynced
  <2>2. /\ loop.status = "RUNNING" \/ loop.status = journal[loop.id].status
        /\ loop.id \notin early => loop.status \in Terminal
    BY <1>9 DEF MarkSynced, ReportInv, LoopBacked
  <2>3. loop.status = "RUNNING" => PutBack(loop.id)
    BY <1>9 DEF MarkSynced, LoopState, Idle, PutBack
  <2>4. \A e \in Exec : \/ e # loop.id /\ journal'[e] = journal[e]
                        \/ /\ e = loop.id
                           /\ journal'[e] = [status |-> loop.status, synced |-> TRUE]
    BY <1>9, <2>1 DEF MarkSynced, Write
  <2>5. UNCHANGED <<row, undispatched, early, stored>>
    BY <1>9 DEF MarkSynced, hubVars, history
  <2>6. \A e \in Exec : journal[e].status # None => journal'[e].status # None
    BY <2>1, <2>4, StatusKinds
  <2>7. \A e \in Exec : journal[e].status \in Terminal =>
            \/ /\ journal'[e].status = journal[e].status
               /\ journal[e].synced => journal'[e].synced
            \/ PutBack(e) /\ e \in early
    <3>1. CASE loop.status = "RUNNING"
      BY <2>1, <2>2, <2>3, <2>4, <3>1, StatusKinds
    <3>2. CASE loop.status # "RUNNING"
      BY <2>1, <2>2, <2>4, <3>2
    <3> QED
      BY <3>1, <3>2
  <2> QED
    BY <2>5, <2>6, <2>7 DEF Grows, Unreached
<1>10. ASSUME NEW e \in Exec, TriggerSchedule(e) PROVE Grows
  BY <1>10, StatusKinds DEF TriggerSchedule, Write, hubVars, history, Grows, Unreached
<1>11. ASSUME NEW e \in Exec, FinishExecution(e) PROVE Grows
  BY <1>11, StatusKinds, ConstantsAssumption
  DEF FinishExecution, Write, hubVars, ReportInv, WorkerBacked, Grows, Unreached
<1>12. ASSUME NEW e \in Exec, CreateExecution(e) PROVE Grows
  BY <1>12, StatusKinds DEF CreateExecution, agentVars, history, Grows, Unreached, Terminal
<1>13. ASSUME NEW e \in Exec, DispatchToAgent(e) PROVE Grows
  BY <1>13 DEF DispatchToAgent, agentVars, history, Grows, Unreached
<1>14. ASSUME NEW c \in Conn, WriteExecution(c) PROVE Grows
  <2>1. handler[c].id \in Exec /\ handler[c].status \in Reported
    BY <1>14, StateFields DEF WriteExecution
  <2> QED
    BY <1>14, <2>1, StatusKinds DEF WriteExecution, agentVars, Grows, Unreached
<1> QED
  BY <1>2, <1>3, <1>4, <1>5, <1>6, <1>7, <1>8, <1>9, <1>10, <1>11, <1>12, <1>13, <1>14
  DEF Next

LEMMA LoopKept ==
    ASSUME TypeOK, ReportInv, Grows, loop' \in {loop, Idle}
    PROVE  LoopBacked'
<1>1. CASE loop' = Idle
  BY <1>1 DEF LoopBacked, Idle
<1>2. CASE loop' = loop
  <2>1. CASE loop.op = "ACK"
    <3>1. /\ loop.id \in Exec /\ loop.status \in Reported /\ loop' # Idle
          /\ journal[loop.id].status # None
          /\ loop.status = "RUNNING" \/ loop.status = journal[loop.id].status
      BY <1>2, <2>1, StateFields DEF TypeOK, AgentTypeOK, ReportInv, LoopBacked, Idle
    <3>2. loop.status = "RUNNING" \/ loop.status = journal'[loop.id].status
      BY <3>1, StatusKinds DEF Grows, PutBack, Reported
    <3> QED
      BY <1>2, <2>1, <3>1, <3>2 DEF ReportInv, LoopBacked, Grows
  <2>2. CASE loop.op # "ACK"
    BY <1>2, <2>2, StateFields DEF TypeOK, AgentTypeOK, ReportInv, LoopBacked, Grows
  <2> QED
    BY <2>1, <2>2
<1> QED BY <1>1, <1>2

LEMMA HandlersKept ==
    ASSUME TypeOK, ReportInv, Grows,
           \A c \in Conn : \/ handler'[c] \in {handler[c], Idle, [op |-> "HELLO"]}
                           \/ HandlerBacked(handler[c])'
    PROVE  \A c \in Conn : HandlerBacked(handler[c])'
<1> SUFFICES ASSUME NEW c \in Conn PROVE HandlerBacked(handler[c])'
  OBVIOUS
<1>1. CASE handler'[c] \in {Idle, [op |-> "HELLO"]}
  BY <1>1 DEF HandlerBacked, Idle
<1>2. CASE handler'[c] = handler[c]
  <2>1. handler[c] \in HandlerState /\ HandlerBacked(handler[c])
    BY DEF TypeOK, HubTypeOK, ReportInv
  <2>2. \A h \in HandlerState : HandlerBacked(h) => HandlerBacked(h)'
    BY GrowsBacked
  <2> QED BY <1>2, <2>1, <2>2 DEF HandlerBacked, ReportBacked
<1> QED BY <1>1, <1>2

LEMMA TablesKept ==
    ASSUME ReportInv, Grows, UNCHANGED <<journal, stored, row, undispatched>>
    PROVE  JournalBacked' /\ RowBacked'
BY DEF ReportInv, Grows, JournalBacked, RowBacked, Unreached

LEMMA WorkersKept ==
    ASSUME TypeOK, ReportInv, Grows, journal' = journal,
           \A e \in Exec : worker'[e] \in {worker[e], "idle"}
    PROVE  \A e \in Exec : WorkerBacked(e)'
BY GrowsBacked, StatusKinds DEF ReportInv, WorkerBacked, Grows, ReportBacked, Terminal

(* A step that leaves both tables alone. *)
LEMMA QuietStep ==
    ASSUME TypeOK, ReportInv, Grows, AgentUp',
           UNCHANGED <<journal, stored, row, undispatched>>,
           loop' \in {loop, Idle},
           \A e \in Exec : worker'[e] \in {worker[e], "idle"},
           \A c \in Conn : \/ handler'[c] \in {handler[c], Idle, [op |-> "HELLO"]}
                           \/ HandlerBacked(handler[c])',
           \A m \in Range(out') : m \in Range(out) \/ UpBacked(m)',
           \A c \in Conn : \A m \in Range(up'[c]) :
                m \in Range(up[c]) \/ m \in Range(out) \/ UpBacked(m)',
           \A c \in Conn : \A m \in Range(down'[c]) : m \in Range(down[c]) \/ DownBacked(m)'
    PROVE  ReportInv'
<1>1. JournalBacked' /\ RowBacked'
  BY TablesKept
<1>2. LoopBacked'
  BY LoopKept
<1>3. \A e \in Exec : WorkerBacked(e)'
  BY WorkersKept
<1>4. \A c \in Conn : HandlerBacked(handler[c])'
  BY HandlersKept
<1>5. WireBacked'
  BY WireStep DEF ReportInv
<1> QED BY <1>1, <1>2, <1>3, <1>4, <1>5 DEF ReportInv

(* The steps of the connections and of the two write loops. *)
LEMMA ConnectionStep ==
    ASSUME TypeOK, ReportInv, Grows,
           \/ WriteLoop \/ AgentDisconnect \/ AgentCrash \/ OnExecutionNack
           \/ \E c \in Conn : \/ Connect(c) \/ HubLeave(c) \/ HandleDisconnect(c)
                              \/ HandleHello(c) \/ SendHelloAck(c)
    PROVE  ReportInv'
<1>0. /\ out \in Seq(Message) /\ up \in [Conn -> Seq(Message)]
      /\ down \in [Conn -> Seq(Message)] /\ link \in Conn \cup {NoConn}
  BY DEF TypeOK, AgentTypeOK, WireTypeOK
<1>a. handler \in [Conn -> HandlerState] /\ worker \in [Exec -> {"idle", "running"} \cup Terminal]
  BY DEF TypeOK, AgentTypeOK, HubTypeOK
<1>1. CASE WriteLoop
  <2>1. /\ Range(out') \subseteq Range(out)
        /\ \A c \in Conn : Range(up'[c]) \subseteq Range(up[c]) \cup Range(out)
    BY <1>0, <1>1, QueueRange DEF WriteLoop
  <2> QED BY <1>1, <2>1, QuietStep DEF WriteLoop, hubVars, history, ReportInv, AgentUp
<1>2. CASE AgentDisconnect
  <2>1. /\ Range(out') \subseteq Range(out)
        /\ \A c \in Conn : Range(down'[c]) \subseteq Range(down[c])
    BY <1>0, <1>2, QueueRange, EmptyRange DEF AgentDisconnect
  <2>2. AgentUp'
    BY <1>2 DEF AgentDisconnect, ReportInv, AgentUp
  <2> QED BY <1>2, <2>1, <2>2, QuietStep DEF AgentDisconnect, hubVars, history
<1>3. CASE AgentCrash
  <2>1. Range(out') = {} /\ \A c \in Conn : Range(down'[c]) = {}
    BY <1>3, EmptyRange DEF AgentCrash
  <2>2. AgentUp'
    BY <1>3 DEF AgentCrash, AgentUp
  <2>3. \A e \in Exec : worker'[e] = "idle"
    BY <1>3 DEF AgentCrash
  <2> QED BY <1>3, <2>1, <2>2, <2>3, QuietStep DEF AgentCrash, hubVars, history
<1>4. CASE OnExecutionNack
  <2>1. \A c \in Conn : Range(down'[c]) \subseteq Range(down[c])
    BY <1>4, DeliverStep DEF OnExecutionNack, ReportInv
  <2> QED BY <1>4, <2>1, QuietStep DEF OnExecutionNack, hubVars, history, ReportInv, AgentUp
<1>5. ASSUME NEW c \in Conn, Connect(c) PROVE ReportInv'
  <2>1. \A d \in Conn : Range(down'[d]) \subseteq Range(down[d])
    BY <1>0, <1>5, EmptyRange DEF Connect
  <2>2. \A d \in Conn : Range(up'[d]) \subseteq Range(up[d]) \cup {Hello}
    BY <1>0, <1>5 DEF Connect, Range
  <2>3. UpBacked(Hello)'
    BY DEF UpBacked, Hello
  <2>4. AgentUp'
    BY <1>5 DEF Connect, ReportInv, AgentUp
  <2>5. UpBacked(Hello)' => \A m : m = Hello => UpBacked(m)'
    BY DEF UpBacked, ReportBacked, Hello
  <2> QED BY <1>5, <2>1, <2>2, <2>3, <2>4, <2>5, QuietStep DEF Connect, history
<1>6. ASSUME NEW c \in Conn, HubLeave(c) PROVE ReportInv'
  <2>1. \A d \in Conn : Range(up'[d]) \subseteq Range(up[d])
    BY <1>0, <1>6, EmptyRange DEF HubLeave
  <2> QED BY <1>6, <2>1, QuietStep DEF HubLeave, agentVars, history, ReportInv, AgentUp
<1>7. ASSUME NEW c \in Conn, HandleDisconnect(c) PROVE ReportInv'
  BY <1>7, QuietStep DEF HandleDisconnect, agentVars, history, ReportInv, AgentUp
<1>8. ASSUME NEW c \in Conn, HandleHello(c) PROVE ReportInv'
  <2>1. \A d \in Conn : Range(up'[d]) \subseteq Range(up[d])
    BY <1>0, <1>8, QueueRange, EmptyRange DEF HandleHello
  <2>2. \A d \in Conn : handler'[d] \in {handler[d], [op |-> "HELLO"]}
    BY <1>a, <1>8 DEF HandleHello
  <2> QED BY <1>8, <2>1, <2>2, QuietStep DEF HandleHello, agentVars, history, ReportInv, AgentUp
<1>9. ASSUME NEW c \in Conn, SendHelloAck(c) PROVE ReportInv'
  <2>1. \A d \in Conn : Range(down'[d]) \subseteq Range(down[d]) \cup {HelloAck}
    BY <1>9, ReplyStep, MessageKinds DEF SendHelloAck
  <2>2. \A m : m = HelloAck => DownBacked(m)'
    BY DEF DownBacked, HelloAck
  <2>3. \A d \in Conn : handler'[d] \in {handler[d], Idle}
    BY <1>a, <1>9 DEF SendHelloAck
  <2> QED
    BY <1>9, <2>1, <2>2, <2>3, QuietStep DEF SendHelloAck, agentVars, history, ReportInv, AgentUp
<1> QED BY <1>1, <1>2, <1>3, <1>4, <1>5, <1>6, <1>7, <1>8, <1>9

(* The steps of the Hub that touch its table or answer the Agent. *)
LEMMA HubStep ==
    ASSUME TypeOK, ReportInv, Grows,
           \/ HubRestart
           \/ \E c \in Conn : MarkStarted(c) \/ MarkFinished(c) \/ WriteExecution(c)
           \/ \E e \in Exec : CreateExecution(e) \/ DispatchToAgent(e)
    PROVE  ReportInv'
<1>0. /\ up \in [Conn -> Seq(Message)] /\ handler \in [Conn -> HandlerState]
      /\ row \in [Exec -> HubStatus] /\ session \in Conn \cup {NoConn}
      /\ undispatched \subseteq HubExec
  BY DEF TypeOK, HubTypeOK, WireTypeOK
<1>1. CASE HubRestart
  <2>1. \A c \in Conn : Range(up'[c]) = {}
    BY <1>1, EmptyRange DEF HubRestart
  <2>2. JournalBacked' /\ RowBacked'
    BY <1>1 DEF HubRestart, agentVars, history, ReportInv, JournalBacked, RowBacked, Unreached
  <2>3. LoopBacked' /\ \A c \in Conn : HandlerBacked(handler[c])'
    BY <1>1, LoopKept, HandlersKept DEF HubRestart, agentVars
  <2>4. \A e \in Exec : WorkerBacked(e)'
    BY <1>1, WorkersKept DEF HubRestart, agentVars
  <2>5. WireBacked'
    BY <1>1, <2>1, WireStep DEF HubRestart, agentVars, ReportInv
  <2> QED
    BY <1>1, <2>2, <2>3, <2>4, <2>5 DEF HubRestart, agentVars, ReportInv, AgentUp
<1>2. ASSUME NEW c \in Conn, MarkStarted(c) PROVE ReportInv'
  <2>1. /\ Head(up[c]).id \in Exec /\ UpBacked(Head(up[c])) /\ Head(up[c]).type = "STARTED"
        /\ \A d \in Conn : Range(up'[d]) \subseteq Range(up[d])
    BY <1>2, ReceiveStep DEF MarkStarted, ReportInv
  <2>2. journal' = journal /\ journal[Head(up[c]).id].status # None
    BY <1>2, <2>1 DEF MarkStarted, agentVars, UpBacked
  <2>3. \A d \in Conn : handler'[d] = handler[d] \/ HandlerBacked(handler[d])'
    BY <1>0, <1>2, <2>2 DEF MarkStarted, HandlerBacked
  <2> QED
    BY <1>2, <2>1, <2>3, QuietStep DEF MarkStarted, agentVars, history, ReportInv, AgentUp
<1>3. ASSUME NEW c \in Conn, MarkFinished(c) PROVE ReportInv'
  <2> DEFINE m == Head(up[c])
  <2>1. /\ m.id \in Exec /\ UpBacked(m) /\ m.type = "FINISHED"
        /\ \A d \in Conn : Range(up'[d]) \subseteq Range(up[d])
    BY <1>3, ReceiveStep DEF MarkFinished, ReportInv
  <2>2. ReportBacked(m.id, m.status)
    BY <2>1 DEF UpBacked
  <2>3. UNCHANGED <<journal, row, undispatched, early, stored, alive, link, worker, loop, out>>
    BY <1>3 DEF MarkFinished, agentVars, history
  <2>4. CASE row[m.id] \in Terminal
    <3>1. m.id \in stored
      BY <2>1, <2>2, <2>4 DEF ReportInv, RowBacked, Unreached, ReportBacked
    <3>2. \A d \in Conn : Range(down'[d]) \subseteq Range(down[d]) \cup {Ack(m.id)}
      BY <1>3, <2>1, <2>4, ReplyStep, MessageKinds DEF MarkFinished
    <3>3. \A n : n = Ack(m.id) => DownBacked(n)'
      BY <2>3, <3>1 DEF DownBacked, Ack
    <3>4. handler' = handler
      BY <1>3, <2>4 DEF MarkFinished
    <3> QED BY <2>1, <2>3, <3>2, <3>3, <3>4, QuietStep DEF ReportInv, AgentUp
  <2>5. CASE row[m.id] \notin Terminal
    <3>1. down' = down
      BY <1>3, <2>5 DEF MarkFinished
    <3>2. \A d \in Conn : handler'[d] = handler[d] \/ HandlerBacked(handler[d])'
      <4> DEFINE h == [op |-> IF row[m.id] = None THEN "CREATE" ELSE "FINISH",
                       id |-> m.id, status |-> m.status]
      <4>1. handler' = [handler EXCEPT ![c] = h]
        BY <1>3, <2>5 DEF MarkFinished
      <4>2. h.op # "START" /\ h.id = m.id /\ h.status = m.status
        OBVIOUS
      <4> HIDE DEF h
      <4>3. handler'[c] = h => HandlerBacked(handler[c])'
        BY <2>2, <2>3, <4>2 DEF HandlerBacked, ReportBacked
      <4> QED BY <1>0, <4>1, <4>3
    <3> QED BY <2>1, <2>3, <3>1, <3>2, QuietStep DEF ReportInv, AgentUp
  <2> QED BY <2>4, <2>5
<1>4. ASSUME NEW c \in Conn, WriteExecution(c) PROVE ReportInv'
  <2> DEFINE h == handler[c]
  <2>1. /\ h.id \in Exec /\ h.status \in Reported /\ HandlerBacked(h)
        /\ h.op \in {"START", "FINISH", "CREATE"}
    BY <1>0, <1>4, StateFields DEF WriteExecution, ReportInv
  <2>2. journal[h.id].status # None
    BY <2>1 DEF HandlerBacked, ReportBacked
  <2>3. UNCHANGED <<journal, undispatched, early, alive, link, worker, loop, out, up>>
    BY <1>4 DEF WriteExecution, agentVars
  <2>4. JournalBacked'
    BY <1>4, <2>1, <2>3, StatusKinds
    DEF WriteExecution, ReportInv, JournalBacked, HandlerBacked, ReportBacked
  <2>5. RowBacked'
    <3>1. ~Unreached(h.id)
      BY <2>1, <2>2 DEF ReportInv, RowBacked
    <3>2. \A e \in Exec \ {h.id} : row'[e] = row[e]
      BY <1>0, <1>4 DEF WriteExecution
    <3>3. \A e \in Exec : Unreached(e)' => Unreached(e)
      BY DEF Grows
    <3> QED BY <2>1, <2>3, <3>1, <3>2, <3>3 DEF ReportInv, RowBacked, Unreached
  <2>6. \A d \in Conn : \A m \in Range(down'[d]) : m \in Range(down[d]) \/ DownBacked(m)'
    <3>1. CASE down' = down
      BY <3>1
    <3>2. CASE h.op = "CREATE" /\ row[h.id] # None /\ Reply(c, Nack(h.id))
      <4>1. \A d \in Conn : Range(down'[d]) \subseteq Range(down[d]) \cup {Nack(h.id)}
        BY <2>1, <3>2, ReplyStep, MessageKinds
      <4>2. \A m : m = Nack(h.id) => DownBacked(m)'
        BY DEF DownBacked, Nack
      <4> QED BY <4>1, <4>2
    <3>3. CASE /\ h.op \in {"FINISH", "CREATE"} /\ Reply(c, Ack(h.id))
               /\ h.status \in Terminal => h.id \in stored'
      <4>1. \A d \in Conn : Range(down'[d]) \subseteq Range(down[d]) \cup {Ack(h.id)}
        BY <2>1, <3>3, ReplyStep, MessageKinds
      <4>2. h.id \in stored' \cup early'
        BY <2>1, <2>3, <3>3 DEF HandlerBacked, ReportBacked
      <4>3. \A m : m = Ack(h.id) => DownBacked(m)'
        BY <4>2 DEF DownBacked, Ack
      <4> QED BY <4>1, <4>3
    <3> QED BY <1>4, <2>1, <3>1, <3>2, <3>3 DEF WriteExecution
  <2>7. \A d \in Conn : handler'[d] \in {handler[d], Idle}
    BY <1>0, <1>4 DEF WriteExecution
  <2>8. LoopBacked' /\ \A d \in Conn : HandlerBacked(handler[d])'
    BY <2>3, <2>7, LoopKept, HandlersKept
  <2>9. (\A e \in Exec : WorkerBacked(e)') /\ WireBacked'
    BY <2>3, <2>6, WorkersKept, WireStep DEF ReportInv
  <2> QED BY <2>3, <2>4, <2>5, <2>8, <2>9 DEF ReportInv, AgentUp
<1>5. ASSUME NEW e \in Exec, CreateExecution(e) PROVE ReportInv'
  <2>1. UNCHANGED <<journal, early, stored, alive, link, worker, loop, out, handler, up, down>>
    BY <1>5 DEF CreateExecution, agentVars, history
  <2>2. RowBacked'
    <3>1. row[e] = None /\ Unreached(e) /\ e \in HubExec
      BY <1>5 DEF CreateExecution, Unreached
    <3>2. \A d \in Exec : Unreached(d)' => Unreached(d)
      BY DEF Grows
    <3>3. /\ row' = [row EXCEPT ![e] = "PENDING"]
          /\ undispatched' = undispatched \cup {e}
      BY <1>5 DEF CreateExecution
    <3> QED BY <1>0, <2>1, <3>1, <3>2, <3>3 DEF ReportInv, RowBacked
  <2>3. JournalBacked' /\ LoopBacked' /\ WireBacked'
    BY <2>1, LoopKept, WireStep DEF ReportInv, JournalBacked
  <2>4. \A d \in Exec : WorkerBacked(d)'
    BY <2>1, WorkersKept
  <2>5. \A c \in Conn : HandlerBacked(handler[c])'
    BY <2>1, HandlersKept
  <2> QED BY <2>1, <2>2, <2>3, <2>4, <2>5 DEF ReportInv, AgentUp
<1>6. ASSUME NEW e \in Exec, DispatchToAgent(e) PROVE ReportInv'
  <2>1. UNCHANGED <<journal, early, stored, alive, link, worker, loop, out, handler, up>>
    BY <1>6 DEF DispatchToAgent, agentVars, history
  <2>2. row[e] = "PENDING" /\ e \in undispatched /\ undispatched' = undispatched \ {e}
    BY <1>6 DEF DispatchToAgent, ReportInv, RowBacked
  <2>3. RowBacked'
    <3>1. \A d \in Exec : Unreached(d)' => Unreached(d)
      BY DEF Grows
    <3>2. \A d \in Exec \ {e} : row'[d] = row[d]
      BY <1>0, <1>6 DEF DispatchToAgent
    <3> QED BY <2>1, <2>2, <3>1, <3>2 DEF ReportInv, RowBacked
  <2>4. \A c \in Conn : \A m \in Range(down'[c]) : m \in Range(down[c]) \/ DownBacked(m)'
    <3>1. CASE down' = down
      BY <3>1
    <3>2. CASE session # NoConn /\ Reply(session, Run(e)) /\ row' = row
      <4>1. \A c \in Conn : Range(down'[c]) \subseteq Range(down[c]) \cup {Run(e)}
        BY <1>0, <3>2, ReplyStep, MessageKinds
      <4>2. ~Unreached(e)'
        BY <2>2, <3>2, StatusKinds DEF Unreached, Terminal, None
      <4>3. \A m : m = Run(e) => DownBacked(m)'
        BY <4>2 DEF DownBacked, Run
      <4> QED BY <4>1, <4>3
    <3> QED BY <1>6, <3>1, <3>2 DEF DispatchToAgent
  <2>5. JournalBacked' /\ LoopBacked' /\ WireBacked'
    BY <2>1, <2>4, LoopKept, WireStep DEF ReportInv, JournalBacked
  <2>6. \A d \in Exec : WorkerBacked(d)'
    BY <2>1, WorkersKept
  <2>7. \A c \in Conn : HandlerBacked(handler[c])'
    BY <2>1, HandlersKept
  <2> QED BY <2>1, <2>3, <2>5, <2>6, <2>7 DEF ReportInv, AgentUp
<1> QED BY <1>1, <1>2, <1>3, <1>4, <1>5, <1>6

(* A write of one journal record: what is left to show besides the queues. *)
LEMMA JournalStep ==
    ASSUME TypeOK, ReportInv, Grows, NEW e \in Exec, NEW s \in Reported, NEW synced \in BOOLEAN,
           Write(e, s, synced), UNCHANGED <<row, undispatched, early, stored>>,
           ~Unreached(e),
           e \notin early => /\ synced => e \in stored
                             /\ e \in stored => s \in Terminal
    PROVE  JournalBacked' /\ RowBacked'
<1>1. journal \in [Exec -> [status : AgentStatus, synced : BOOLEAN]]
  BY DEF TypeOK, AgentTypeOK
<1>2. journal'[e] = [status |-> s, synced |-> synced]
      /\ \A d \in Exec \ {e} : journal'[d] = journal[d]
  BY <1>1 DEF Write
<1> QED BY <1>2 DEF ReportInv, JournalBacked, RowBacked, Unreached

(* The steps of the Agent's dispatch loop. *)
LEMMA LoopStep ==
    ASSUME TypeOK, ReportInv, Grows,
           OnHelloAck \/ UploadExecution \/ OnExecutionAck \/ MarkSynced
    PROVE  ReportInv'
<1>0. /\ loop \in LoopState /\ out \in Seq(Message)
      /\ journal \in [Exec -> [status : AgentStatus, synced : BOOLEAN]]
  BY DEF TypeOK, AgentTypeOK
<1>1. CASE OnHelloAck
  <2>1. UNCHANGED <<journal, stored, row, undispatched, early, alive, worker, out, link, handler, up>>
    BY <1>1 DEF OnHelloAck, hubVars, history
  <2>2. LoopBacked'
    BY <1>1, <2>1 DEF OnHelloAck, LoopBacked, Uploading, Unsynced, Idle
  <2>3. WireBacked'
    BY <1>1, <2>1, DeliverStep, WireStep DEF OnHelloAck, ReportInv
  <2>4. JournalBacked' /\ RowBacked' /\ \A e \in Exec : WorkerBacked(e)'
    BY <2>1, TablesKept, WorkersKept
  <2>5. \A c \in Conn : HandlerBacked(handler[c])'
    BY <2>1, HandlersKept
  <2> QED BY <2>1, <2>2, <2>3, <2>4, <2>5 DEF ReportInv, AgentUp
<1>2. CASE UploadExecution
  <2>1. UNCHANGED <<journal, stored, row, undispatched, alive, worker, link, handler, up, down>>
    BY <1>2 DEF UploadExecution, hubVars
  <2>2. PICK r \in loop.todo : /\ loop' = Uploading(loop.todo \ {r})
                               /\ Send(Finished(r.id, r.status))
                               /\ early' = IF r.status = "RUNNING" THEN early \cup {r.id}
                                           ELSE early
    BY <1>2 DEF UploadExecution
  <2>3. /\ r.id \in Exec /\ r.status \in Reported /\ Finished(r.id, r.status) \in Message
        /\ loop.todo \subseteq [id : Exec, status : Reported] /\ loop.op = "RECONCILE"
    BY <1>0, <1>2, StateFields, MessageKinds DEF UploadExecution
  <2>4. LoopBacked'
    BY <2>1, <2>2, <2>3 DEF ReportInv, LoopBacked, Uploading, Idle, Grows
  <2>5. WireBacked'
    <3>1. Range(out') \subseteq Range(out) \cup {Finished(r.id, r.status)}
      BY <2>2, <2>3, SendStep
    <3>2. ReportBacked(r.id, r.status)'
      BY <2>1, <2>2, <2>3 DEF ReportInv, LoopBacked, ReportBacked, Grows, Reported
    <3>3. \A m : m = Finished(r.id, r.status) => UpBacked(m)'
      BY <2>1, <3>2 DEF UpBacked, Finished, ReportBacked
    <3> QED BY <2>1, <3>1, <3>3, WireStep DEF ReportInv
  <2>6. JournalBacked' /\ RowBacked' /\ \A e \in Exec : WorkerBacked(e)'
    BY <2>1, TablesKept, WorkersKept
  <2>7. \A c \in Conn : HandlerBacked(handler[c])'
    BY <2>1, HandlersKept
  <2> QED BY <2>1, <2>4, <2>5, <2>6, <2>7 DEF ReportInv, AgentUp
<1>3. CASE OnExecutionAck
  <2> DEFINE e == Head(down[link]).id
  <2>1. UNCHANGED <<journal, stored, row, undispatched, early, alive, worker, out, link, handler, up>>
    BY <1>3 DEF OnExecutionAck, hubVars, history
  <2>2. e \in Exec /\ e \in stored \cup early
    BY <1>3, DeliverStep DEF OnExecutionAck, ReportInv, DownBacked
  <2>a. e \notin early => e \in stored /\ journal[e].status \in Terminal
    BY <2>2 DEF ReportInv, JournalBacked
  <2>3. LoopBacked'
    BY <1>3, <2>1, <2>2, <2>a DEF OnExecutionAck, LoopBacked, Idle
  <2>4. WireBacked'
    BY <1>3, <2>1, DeliverStep, WireStep DEF OnExecutionAck, ReportInv
  <2>5. JournalBacked' /\ RowBacked' /\ \A d \in Exec : WorkerBacked(d)'
    BY <2>1, TablesKept, WorkersKept
  <2>6. \A c \in Conn : HandlerBacked(handler[c])'
    BY <2>1, HandlersKept
  <2> QED BY <2>1, <2>3, <2>4, <2>5, <2>6 DEF ReportInv, AgentUp
<1>4. CASE MarkSynced
  <2>1. UNCHANGED <<stored, row, undispatched, early, alive, worker, out, link, handler, up, down>>
    BY <1>4 DEF MarkSynced, hubVars, history
  <2>2. /\ loop.id \in Exec /\ loop.status \in Reported /\ loop' = Idle
        /\ journal[loop.id].status # None /\ Write(loop.id, loop.status, TRUE)
        /\ loop.status = "RUNNING" \/ loop.status = journal[loop.id].status
        /\ loop.id \notin early => loop.id \in stored /\ loop.status \in Terminal
    BY <1>0, <1>4, StateFields DEF MarkSynced, ReportInv, LoopBacked
  <2>3. JournalBacked' /\ RowBacked'
    <3>1. ~Unreached(loop.id)
      BY <2>2 DEF ReportInv, RowBacked
    <3>2. loop.id \notin early => loop.status \in Terminal
      BY <2>2 DEF ReportInv, JournalBacked
    <3> QED BY <2>1, <2>2, <3>1, <3>2, JournalStep
  <2>4. \A e \in Exec : WorkerBacked(e)'
    <3>1. \A e \in Exec : \/ e # loop.id /\ journal'[e] = journal[e]
                          \/ e = loop.id /\ journal'[e].status = loop.status
      BY <1>0, <2>2 DEF Write
    <3>2. \A e \in Exec : WorkerBacked(e) /\ (worker[e] = "running" \/ worker[e] \in Terminal
                                              \/ worker[e] = "idle")
      BY DEF ReportInv, TypeOK, AgentTypeOK
    <3> QED BY <2>1, <2>2, <3>1, <3>2, StatusKinds DEF WorkerBacked, ReportBacked
  <2>5. LoopBacked' /\ WireBacked'
    BY <2>1, <2>2, LoopKept, WireStep DEF ReportInv
  <2>6. \A c \in Conn : HandlerBacked(handler[c])'
    BY <2>1, HandlersKept
  <2> QED BY <2>1, <2>3, <2>4, <2>5, <2>6 DEF ReportInv, AgentUp
<1> QED BY <1>1, <1>2, <1>3, <1>4

(* The steps that start, end and report a run. *)
LEMMA WorkerStep ==
    ASSUME TypeOK, ReportInv, Grows,
           \/ OnRunExecution \/ AgentStart
           \/ \E e \in Exec : TriggerSchedule(e) \/ FinishExecution(e) \/ ReportResult(e)
    PROVE  ReportInv'
<1>0. /\ out \in Seq(Message) /\ undispatched \subseteq HubExec
      /\ worker \in [Exec -> {"idle", "running"} \cup Terminal]
      /\ journal \in [Exec -> [status : AgentStatus, synced : BOOLEAN]]
  BY DEF TypeOK, AgentTypeOK, HubTypeOK
<1>1. CASE OnRunExecution
  <2>e. PICK e \in Exec : e = Head(down[link]).id
    BY <1>1, DeliverStep DEF OnRunExecution, ReportInv
  <2>1. UNCHANGED <<stored, row, undispatched, early, alive, loop, link, handler, up>>
    BY <1>1 DEF OnRunExecution, hubVars
  <2>2. /\ e \in Exec /\ ~Unreached(e)
        /\ \A d \in Conn : Range(down'[d]) \subseteq Range(down[d])
    BY <1>1, <2>e, DeliverStep DEF OnRunExecution, ReportInv, DownBacked
  <2>a. CASE UNCHANGED <<journal, worker, out>>
    BY <2>1, <2>2, <2>a, QuietStep DEF ReportInv, AgentUp
  <2>b. ASSUME NEW s \in {"RUNNING", "BLOCKED"}, NEW m \in Message,
               journal[e].status = None, Write(e, s, FALSE), Send(m),
               UpBacked(m)', alive,
               \/ worker' = worker
               \/ worker' = [worker EXCEPT ![e] = "running"] /\ s = "RUNNING"
        PROVE  ReportInv'
    <3>1. s \in Reported /\ (s # "RUNNING" => s \in Terminal)
      BY StatusKinds
    <3>2. e \notin early => e \notin stored
      BY <2>2, <2>b, StatusKinds DEF ReportInv, JournalBacked
    <3>3. JournalBacked' /\ RowBacked'
      BY <2>1, <2>2, <2>b, <3>1, <3>2, JournalStep
    <3>4. WireBacked'
      <4>1. Range(out') \subseteq Range(out) \cup {m}
        BY <2>b, SendStep
      <4>2. \A n : n = m => UpBacked(n)'
        BY <2>b DEF UpBacked, ReportBacked
      <4> QED BY <2>1, <2>2, <4>1, <4>2, WireStep DEF ReportInv
    <3>5. \A d \in Exec : WorkerBacked(d)'
      <4>1. \A d \in Exec : \/ d # e /\ journal'[d] = journal[d]
                            \/ d = e /\ journal'[d].status = s
        BY <1>0, <2>2, <2>b DEF Write
      <4>2. \A d \in Exec : WorkerBacked(d)
        BY DEF ReportInv
      <4>3. worker[e] \notin Terminal /\ worker[e] # "running"
        BY <2>2, <2>b, <4>2, StatusKinds DEF WorkerBacked, ReportBacked
      <4>4. \A d \in Exec : \/ worker'[d] = worker[d]
                            \/ d = e /\ worker'[d] = "running" /\ s = "RUNNING"
        BY <1>0, <2>2, <2>b
      <4>5. "running" \notin Terminal
        BY DEF Terminal
      <4>6. ASSUME NEW d \in Exec \ {e} PROVE WorkerBacked(d)'
        BY <2>1, <4>1, <4>2, <4>4, <4>6 DEF WorkerBacked, ReportBacked
      <4>7. WorkerBacked(e)'
        BY <2>1, <2>2, <3>1, <4>1, <4>3, <4>4, <4>5, StatusKinds DEF WorkerBacked
      <4> QED BY <4>6, <4>7
    <3>6. LoopBacked'
      BY <2>1, LoopKept
    <3>7. \A c \in Conn : HandlerBacked(handler[c])'
      BY <2>1, HandlersKept
    <3> QED BY <2>1, <2>b, <3>3, <3>4, <3>5, <3>6, <3>7 DEF ReportInv, AgentUp
  <2>3. alive
    BY <1>1 DEF OnRunExecution, Deliver, ReportInv, AgentUp
  <2>4. CASE /\ journal[e].status = None /\ Write(e, "RUNNING", FALSE)
             /\ worker' = [worker EXCEPT ![e] = "running"] /\ Send(Started(e))
    <3>1. journal'[e].status = "RUNNING"
      BY <1>0, <2>2, <2>4 DEF Write
    <3>2. UpBacked(Started(e))'
      BY <3>1, StatusKinds DEF UpBacked, Started
    <3> QED BY <2>2, <2>3, <2>4, <2>b, <3>2, MessageKinds
  <2>5. CASE /\ journal[e].status = None /\ Write(e, "BLOCKED", FALSE)
             /\ worker' = worker /\ Send(Finished(e, "BLOCKED"))
    <3>1. journal'[e].status = "BLOCKED"
      BY <1>0, <2>2, <2>5 DEF Write
    <3>2. UpBacked(Finished(e, "BLOCKED"))'
      BY <3>1, StatusKinds DEF UpBacked, Finished, ReportBacked
    <3> QED BY <2>2, <2>3, <2>5, <2>b, <3>2, MessageKinds, StatusKinds
  <2> QED BY <1>1, <2>e, <2>a, <2>4, <2>5 DEF OnRunExecution
<1>2. CASE AgentStart
  <2>1. UNCHANGED <<worker, loop, out, link, row, undispatched, handler, up, down, early, stored>>
    BY <1>2 DEF AgentStart, hubVars
  <2>2. \A e \in Exec : journal'[e] = IF journal[e].status = "RUNNING"
                                      THEN [status |-> "FAILED", synced |-> FALSE]
                                      ELSE journal[e]
    BY <1>2 DEF AgentStart
  <2>3. JournalBacked' /\ RowBacked'
    BY <2>1, <2>2, StatusKinds DEF ReportInv, JournalBacked, RowBacked, Unreached, None
  <2>4. \A e \in Exec : WorkerBacked(e)'
    <3>1. \A e \in Exec : worker[e] = "idle"
      BY <1>2 DEF AgentStart, ReportInv, AgentUp
    <3> QED BY <2>1, <3>1 DEF WorkerBacked, Terminal
  <2>5. LoopBacked' /\ WireBacked'
    BY <2>1, LoopKept, WireStep DEF ReportInv
  <2>6. \A c \in Conn : HandlerBacked(handler[c])'
    BY <2>1, HandlersKept
  <2> QED BY <1>2, <2>3, <2>4, <2>5, <2>6 DEF ReportInv, AgentUp, AgentStart
<1>3. ASSUME NEW e \in Exec, TriggerSchedule(e) PROVE ReportInv'
  <2>1. UNCHANGED <<alive, loop, out, link, row, undispatched, handler, up, down, early, stored>>
    BY <1>3 DEF TriggerSchedule, hubVars, history
  <2>2. /\ alive /\ e \in AgentExec /\ journal[e].status = None /\ Write(e, "RUNNING", FALSE)
        /\ worker' \in {worker, [worker EXCEPT ![e] = "running"]}
    BY <1>3 DEF TriggerSchedule
  <2>3. JournalBacked' /\ RowBacked'
    <3>1. ~Unreached(e)
      BY <2>2, ConstantsAssumption DEF ReportInv, RowBacked
    <3>2. e \notin early => e \notin stored
      BY <2>2, StatusKinds DEF ReportInv, JournalBacked
    <3> QED BY <2>1, <2>2, <3>1, <3>2, JournalStep, StatusKinds
  <2>4. \A d \in Exec : WorkerBacked(d)'
    <3>1. journal'[e].status = "RUNNING" /\ \A d \in Exec \ {e} : journal'[d] = journal[d]
      BY <1>0, <2>2 DEF Write
    <3>2. \A d \in Exec : WorkerBacked(d)
      BY DEF ReportInv
    <3>3. worker[e] # "running" /\ worker[e] \notin Terminal
      BY <2>2, <3>2, StatusKinds DEF WorkerBacked, ReportBacked
    <3>4. worker'[e] \notin Terminal /\ \A d \in Exec \ {e} : worker'[d] = worker[d]
      BY <1>0, <2>2, <3>3 DEF AgentTypeOK, Terminal
    <3>5. WorkerBacked(e)'
      BY <3>1, <3>4, StatusKinds DEF WorkerBacked, Reported, None
    <3>6. \A d \in Exec \ {e} : WorkerBacked(d)'
      BY <2>1, <3>1, <3>2, <3>4 DEF WorkerBacked, ReportBacked
    <3> QED BY <3>5, <3>6
  <2>5. LoopBacked' /\ WireBacked'
    BY <2>1, LoopKept, WireStep DEF ReportInv
  <2>6. \A c \in Conn : HandlerBacked(handler[c])'
    BY <2>1, HandlersKept
  <2> QED BY <2>1, <2>2, <2>3, <2>4, <2>5, <2>6 DEF ReportInv, AgentUp
<1>4. ASSUME NEW e \in Exec, FinishExecution(e) PROVE ReportInv'
  <2>1. UNCHANGED <<alive, loop, out, link, row, undispatched, handler, up, down, early, stored>>
    BY <1>4 DEF FinishExecution, hubVars
  <2>2. PICK s \in Outcomes : Write(e, s, FALSE) /\ worker' = [worker EXCEPT ![e] = s]
    BY <1>4 DEF FinishExecution
  <2>3. s \in Terminal /\ s \in Reported /\ worker[e] = "running" /\ journal[e].status # None
    BY <1>4, StatusKinds, ConstantsAssumption DEF FinishExecution, ReportInv, WorkerBacked
  <2>4. JournalBacked' /\ RowBacked'
    <3>1. ~Unreached(e)
      BY <2>3 DEF ReportInv, RowBacked
    <3> QED BY <2>1, <2>2, <2>3, <3>1, JournalStep
  <2>5. \A d \in Exec : WorkerBacked(d)'
    <3>1. journal'[e].status = s /\ \A d \in Exec \ {e} : journal'[d] = journal[d]
      BY <1>0, <2>2 DEF Write
    <3>2. \A d \in Exec : WorkerBacked(d)
      BY DEF ReportInv
    <3> QED
      BY <1>0, <2>1, <2>2, <2>3, <3>1, <3>2, StatusKinds
      DEF WorkerBacked, ReportBacked, Terminal, None
  <2>6. LoopBacked' /\ WireBacked'
    BY <2>1, LoopKept, WireStep DEF ReportInv
  <2>7. \A c \in Conn : HandlerBacked(handler[c])'
    BY <2>1, HandlersKept
  <2>8. alive
    BY <1>0, <2>3 DEF ReportInv, AgentUp
  <2> QED BY <2>1, <2>4, <2>5, <2>6, <2>7, <2>8 DEF ReportInv, AgentUp
<1>5. ASSUME NEW e \in Exec, ReportResult(e) PROVE ReportInv'
  <2>1. UNCHANGED <<alive, journal, loop, link, row, undispatched, handler, up, down, early, stored>>
    BY <1>5 DEF ReportResult, hubVars, history
  <2>2. worker[e] \in Terminal /\ worker' = [worker EXCEPT ![e] = "idle"]
        /\ ReportBacked(e, worker[e])
    BY <1>5 DEF ReportResult, ReportInv, WorkerBacked
  <2>3. \A m \in Range(out') : m \in Range(out) \/ UpBacked(m)'
    <3>1. CASE out' = out
      BY <3>1
    <3>2. CASE Send(Finished(e, worker[e]))
      <4>1. Range(out') \subseteq Range(out) \cup {Finished(e, worker[e])}
        BY <2>2, <3>2, SendStep, MessageKinds, StatusKinds
      <4>2. \A m : m = Finished(e, worker[e]) => UpBacked(m)'
        BY <2>1, <2>2 DEF UpBacked, Finished, ReportBacked
      <4> QED BY <4>1, <4>2
    <3> QED BY <1>5, <3>1, <3>2 DEF ReportResult
  <2>4. \A d \in Exec : worker'[d] \in {worker[d], "idle"}
    BY <1>0, <2>2
  <2>5. AgentUp'
    BY <1>0, <2>1, <2>2, StatusKinds DEF ReportInv, AgentUp, Terminal
  <2> QED BY <2>1, <2>3, <2>4, <2>5, QuietStep
<1> QED BY <1>1, <1>2, <1>3, <1>4, <1>5

LEMMA ReportInvStep == TypeOK /\ ReportInv /\ [Next]_vars => ReportInv'
<1> SUFFICES ASSUME TypeOK, ReportInv, [Next]_vars PROVE ReportInv'
  OBVIOUS
<1>1. Grows
  BY StepGrows
<1>2. CASE UNCHANGED vars
  <2>1. UNCHANGED <<alive, journal, worker, loop, out, link, row, undispatched, handler, up,
                    down, stored>>
    BY <1>2 DEF vars
  <2>2. AgentUp'
    BY <2>1 DEF ReportInv, AgentUp
  <2> QED BY <1>1, <2>1, <2>2, QuietStep
<1> QED BY <1>1, <1>2, ConnectionStep, HubStep, LoopStep, WorkerStep DEF Next

LEMMA ReportInvInit == Init => ReportInv
<1> SUFFICES ASSUME Init PROVE ReportInv
  OBVIOUS
<1>1. /\ \A e \in Exec : journal[e].status = None /\ journal[e].synced = FALSE
      /\ \A e \in Exec : row[e] = None /\ worker[e] = "idle"
      /\ \A c \in Conn : handler[c] = Idle /\ up[c] = <<>> /\ down[c] = <<>>
  BY DEF Init
<1>2. None \notin Terminal /\ "idle" \notin Terminal
  BY DEF None, Terminal
<1>3. AgentUp /\ JournalBacked /\ LoopBacked /\ WireBacked
  BY <1>1, EmptyRange DEF Init, AgentUp, JournalBacked, LoopBacked, WireBacked, Idle
<1>4. RowBacked
  BY <1>1, <1>2 DEF Init, RowBacked, Unreached, Exec
<1>5. /\ \A e \in Exec : WorkerBacked(e)
      /\ \A c \in Conn : HandlerBacked(handler[c])
  BY <1>1, <1>2 DEF WorkerBacked, HandlerBacked, Idle
<1> QED BY <1>3, <1>4, <1>5 DEF ReportInv

(* Everything in transit is backed by the table it came from. *)
THEOREM ReportInvHolds == Spec => []ReportInv
BY ReportInvInit, ReportInvStep, TypeCorrect, PTL DEF Spec

(* The Agent never drops a result the Hub does not have. *)
THEOREM AckedResultIsStored == Spec => []AckedResultStored
<1>1. ReportInv => AckedResultStored
  BY DEF ReportInv, JournalBacked, AckedResultStored
<1> QED BY <1>1, ReportInvHolds, PTL

(* A result leaves the journal, and a synced mark is taken back, only by   *)
(* the acknowledgement of a RUNNING upload that read the record before.    *)
THEOREM JournalResultIsKept == Spec => JournalResultKept
<1> DEFINE Kept == \A e \in Exec : journal[e].status \in Terminal =>
                      \/ /\ journal'[e].status = journal[e].status
                         /\ journal[e].synced => journal'[e].synced
                      \/ /\ loop = [op |-> "ACK", id |-> e, status |-> "RUNNING"]
                         /\ loop' = Idle
                         /\ e \in early
<1>1. TypeOK /\ ReportInv /\ [Next]_vars => [Kept]_vars
  BY StepGrows DEF Grows, PutBack
<1> QED BY <1>1, ReportInvHolds, TypeCorrect, PTL DEF Spec, JournalResultKept

=============================================================================
