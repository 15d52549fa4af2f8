------------------------ MODULE ExecutionResultProofs ------------------------
(***************************************************************************)
(* Where the results in the Hub's table come from and why they stay, for   *)
(* any executions, connections and number of faults: HubResultBacked from  *)
(* ResultInv (every status on its way was journalled) and HubResultKept    *)
(* from OrderInv (what says that an execution started stays in front of    *)
(* what says how it ended, as long as the Agent holds the connection).     *)
(***************************************************************************)
EXTENDS ExecutionReportingProofs

-----------------------------------------------------------------------------
(* The inductive invariants, beside TypeOK and ReportInv. *)

(* A result for e that is somewhere else than in the journal was in the    *)
(* journal once.                                                           *)
Made(e, s) == s \in Terminal => s \in results[e]
MessageMade(m) == m.type = "FINISHED" => Made(m.id, m.status)
HandlerMade(h) == h.op \in {"FINISH", "CREATE"} => Made(h.id, h.status)
LoopMade(l) ==
    /\ l.op = "RECONCILE" => \A r \in l.todo : Made(r.id, r.status)
    /\ l.op = "ACK" => Made(l.id, l.status)

TransitMade ==
    /\ \A m \in Range(out) : MessageMade(m)
    /\ \A c \in Conn : \A m \in Range(up[c]) : MessageMade(m)
    /\ \A c \in Conn : HandlerMade(handler[c])
    /\ LoopMade(loop)
    /\ \A e \in Exec : Made(e, worker[e])

(* What was uploaded or stored is in the journal, and an execution not     *)
(* uploaded while RUNNING has only ever had one result.                    *)
JournalMade ==
    /\ \A e \in Exec : Made(e, journal[e].status)
    /\ \A e \in stored \cup early : journal[e].status # None
    /\ \A e \in Exec \ early : \A s \in results[e] : journal[e].status = s

ResultInv == TransitMade /\ JournalMade /\ HubResultBacked

(* The report that e started, and the reports how it ended.                *)
SaysStarted(m, e) == m.type = "STARTED" /\ m.id = e
SaysEnded(m, e) == m.type = "FINISHED" /\ m.id = e
Ending(c, e) == handler[c].op \in {"FINISH", "CREATE"} /\ handler[c].id = e

StartedFirst(q, e) ==
    \A i, j \in DOMAIN q : SaysStarted(q[i], e) /\ SaysEnded(q[j], e) => i < j
NoEnd(c, e) == ~Ending(c, e) /\ \A m \in Range(up[c]) : ~SaysEnded(m, e)

(* While the start of e is in the send channel, or under way on the        *)
(* connection the Agent is on, its end is behind it.                       *)
Ordered(e) ==
    /\ StartedFirst(out, e)
    /\ \A c \in Conn : StartedFirst(up[c], e)
    /\ \A m \in Range(out) : SaysStarted(m, e) =>
          e \notin stored /\ \A c \in Conn : NoEnd(c, e)
    /\ link # NoConn => \A m \in Range(up[link]) : SaysStarted(m, e) =>
          e \notin stored /\ ~Ending(link, e) /\ \A c \in Conn \ {link} : NoEnd(c, e)
    /\ link # NoConn /\ handler[link].op = "START" /\ handler[link].id = e =>
          e \notin stored /\ \A c \in Conn \ {link} : NoEnd(c, e)

OrderInv ==
    /\ \A c \in Conn : gate[c] \in {"free", "leaving"} => handler[c] = Idle
    /\ \A e \in Exec : Ordered(e)

-----------------------------------------------------------------------------
(* Results in the journal and on their way. *)

LEMMA ResultInit == Init => ResultInv /\ OrderInv
<1> SUFFICES ASSUME Init PROVE ResultInv /\ OrderInv
  OBVIOUS
<1>1. /\ None \notin Terminal /\ "idle" \notin Terminal
      /\ \A e \in Exec : journal[e].status = None /\ row[e] = None /\ worker[e] = "idle"
      /\ \A c \in Conn : handler[c] = Idle /\ up[c] = <<>>
      /\ out = <<>> /\ loop = Idle /\ link = NoConn /\ stored = {} /\ early = {}
      /\ \A e \in Exec : results[e] = {}
      /\ Idle.op = "IDLE" /\ Range(<<>>) = {} /\ DOMAIN <<>> = {}
  BY EmptyRange DEF Init, None, Terminal, Idle
<1>2. TransitMade
  BY <1>1 DEF TransitMade, Made, HandlerMade, LoopMade
<1>3. JournalMade /\ HubResultBacked
  BY <1>1 DEF JournalMade, Made, HubResultBacked
<1>4. OrderInv
  BY <1>1 DEF OrderInv, Ordered, StartedFirst
<1> QED
  BY <1>2, <1>3, <1>4 DEF ResultInv

ResultsGrow == \A e \in Exec : results[e] \subseteq results'[e]

(* A step that adds results keeps the made ones, so that only what it puts *)
(* on its way itself has to be looked at.                                  *)
LEMMA TransitStep ==
  ASSUME TypeOK, TransitMade, ResultsGrow,
         loop' = loop \/ loop'.op = "IDLE" \/ LoopMade(loop)',
         \A e \in Exec : worker'[e] = worker[e] \/ Made(e, worker[e])',
         \A c \in Conn : \/ handler'[c] = handler[c]
                         \/ handler'[c].op \notin {"FINISH", "CREATE"}
                         \/ HandlerMade(handler[c])',
         \A m \in Range(out') : m \in Range(out) \/ MessageMade(m)',
         \A c \in Conn : \A m \in Range(up'[c]) :
              m \in Range(up[c]) \/ m \in Range(out) \/ MessageMade(m)'
  PROVE  TransitMade'
<1>1. \A e \in Exec : \A s : Made(e, s) => Made(e, s)'
  BY DEF Made, ResultsGrow
<1>2. /\ Range(out) \subseteq Message
      /\ \A c \in Conn : Range(up[c]) \subseteq Message
  BY QueueRange DEF TypeOK, AgentTypeOK, WireTypeOK
<1>3. \A m \in Message : MessageMade(m) => MessageMade(m)'
  BY <1>1, MessageFields DEF MessageMade
<1>4. \A c \in Conn : HandlerMade(handler[c])'
  <2> SUFFICES ASSUME NEW c \in Conn, handler'[c] = handler[c] PROVE HandlerMade(handler[c])'
    BY DEF HandlerMade
  <2>1. handler[c] \in HandlerState /\ HandlerMade(handler[c])
    BY DEF TypeOK, HubTypeOK, TransitMade
  <2> QED
    BY <1>1, <2>1, StateFields DEF HandlerMade
<1>5. LoopMade(loop)'
  <2>1. CASE loop' = loop
    <3>1. loop \in LoopState /\ LoopMade(loop)
      BY DEF TypeOK, AgentTypeOK, TransitMade
    <3>2. ASSUME loop.op = "RECONCILE", NEW r \in loop.todo PROVE r.id \in Exec
      <4>1. r \in [id : Exec, status : Reported]
        BY <3>1, <3>2, StateFields
      <4> QED
        BY <4>1
    <3> QED
      BY <1>1, <2>1, <3>1, <3>2, StateFields DEF LoopMade
  <2> QED
    BY <2>1 DEF LoopMade
<1>6. \A e \in Exec : Made(e, worker[e])'
  BY <1>1 DEF TransitMade
<1>7. /\ \A m \in Range(out') : MessageMade(m)'
      /\ \A c \in Conn : \A m \in Range(up'[c]) : MessageMade(m)'
  BY <1>2, <1>3 DEF TransitMade
<1> QED
  BY <1>4, <1>5, <1>6, <1>7 DEF TransitMade

LEMMA HistoryKept ==
  ASSUME ResultInv, UNCHANGED <<journal, row, results, stored, early>>
  PROVE  JournalMade' /\ HubResultBacked' /\ ResultsGrow
BY DEF ResultInv, JournalMade, Made, HubResultBacked, ResultsGrow

(* Steps that leave the tables and the workers alone, but for a report.    *)
LEMMA CarryStep ==
  ASSUME TypeOK, ReportInv, ResultInv,
         \/ WriteLoop \/ AgentDisconnect \/ AgentCrash \/ HubRestart \/ OnExecutionNack
         \/ \E c \in Conn : \/ Connect(c) \/ HubLeave(c) \/ HandleDisconnect(c)
                            \/ HandleHello(c) \/ SendHelloAck(c) \/ MarkStarted(c)
         \/ \E e \in Exec : ReportResult(e)
  PROVE  ResultInv'
<1>0. /\ out \in Seq(Message) /\ up \in [Conn -> Seq(Message)] /\ TransitMade
      /\ link \in Conn \cup {NoConn} /\ handler \in [Conn -> HandlerState]
      /\ worker \in [Exec -> {"idle", "running"} \cup Terminal]
      /\ "idle" \notin Terminal /\ Idle.op = "IDLE" /\ session \in Conn \cup {NoConn}
  BY DEF TypeOK, AgentTypeOK, HubTypeOK, WireTypeOK, ResultInv, Terminal, Idle
<1>1. UNCHANGED <<journal, row, results, stored, early>>
  BY DEF WriteLoop, AgentDisconnect, AgentCrash, HubRestart, OnExecutionNack, Connect, HubLeave,
         HandleDisconnect, HandleHello, SendHelloAck, MarkStarted, ReportResult, agentVars, hubVars,
         history
<1>2. JournalMade' /\ HubResultBacked' /\ ResultsGrow
  BY <1>1, HistoryKept
<1>3. CASE WriteLoop
  <2>1. UNCHANGED <<worker, loop, handler>> /\ Range(out') \subseteq Range(out)
    BY <1>0, <1>3, QueueRange DEF WriteLoop, hubVars
  <2>2. Head(out) \in Range(out) /\ Head(out) \in Message
    BY <1>0, <1>3, QueueRange DEF WriteLoop
  <2>3. \A c \in Conn : Range(up'[c]) \subseteq Range(up[c]) \cup {Head(out)}
    BY <1>0, <1>3, <2>2, QueueRange DEF WriteLoop
  <2> QED
    BY <1>0, <1>2, <2>1, <2>2, <2>3, TransitStep DEF ResultInv
<1>4. CASE AgentDisconnect
  <2>1. UNCHANGED <<worker, loop, handler, up>> /\ Range(out') \subseteq Range(out)
    BY <1>0, <1>4, QueueRange DEF AgentDisconnect, hubVars
  <2> QED
    BY <1>0, <1>2, <2>1, TransitStep DEF ResultInv
<1>5. CASE AgentCrash
  <2>1. /\ UNCHANGED <<handler, up>> /\ Range(out') = {} /\ loop' = Idle
        /\ \A e \in Exec : worker'[e] = "idle"
    BY <1>5, EmptyRange DEF AgentCrash, hubVars
  <2>2. \A e \in Exec : Made(e, worker[e])'
    BY <1>0, <2>1 DEF Made
  <2> QED
    BY <1>0, <1>2, <2>1, <2>2, TransitStep DEF ResultInv
<1>6. CASE HubRestart
  <2>1. /\ UNCHANGED <<worker, loop, out>>
        /\ \A c \in Conn : handler'[c] = Idle /\ Range(up'[c]) = {}
    BY <1>6, EmptyRange DEF HubRestart, agentVars
  <2> QED
    BY <1>0, <1>2, <2>1, TransitStep DEF ResultInv
<1>7. CASE OnExecutionNack
  <2>1. UNCHANGED <<worker, loop, out, handler, up>>
    BY <1>7 DEF OnExecutionNack, hubVars
  <2> QED
    BY <1>0, <1>2, <2>1, TransitStep DEF ResultInv
<1>8. ASSUME NEW c \in Conn, Connect(c) \/ HubLeave(c) \/ HandleDisconnect(c)
      PROVE  ResultInv'
  <2>1. UNCHANGED <<worker, loop, out, handler>>
    BY <1>8 DEF Connect, HubLeave, HandleDisconnect, agentVars
  <2>2. \A d \in Conn : up'[d] \in {up[d], <<>>, <<Hello>>}
    BY <1>0, <1>8 DEF Connect, HubLeave, HandleDisconnect
  <2>3. Range(<<Hello>>) = {Hello} /\ Hello.type = "HELLO" /\ Range(<<>>) = {}
    BY DEF Range, Hello
  <2>4. \A d \in Conn : \A m \in Range(up'[d]) : m \in Range(up[d]) \/ MessageMade(m)'
    BY <2>2, <2>3 DEF MessageMade
  <2> QED
    BY <1>0, <1>2, <2>1, <2>4, TransitStep DEF ResultInv
<1>9. ASSUME NEW c \in Conn, HandleHello(c) \/ SendHelloAck(c) \/ MarkStarted(c)
      PROVE  ResultInv'
  <2>1. UNCHANGED <<worker, loop, out>>
    BY <1>9 DEF HandleHello, SendHelloAck, MarkStarted, agentVars
  <2>2. \A d \in Conn : handler'[d] = handler[d] \/ handler'[d].op \notin {"FINISH", "CREATE"}
    BY <1>0, <1>9 DEF HandleHello, SendHelloAck, MarkStarted
  <2>3. \A d \in Conn : Range(up'[d]) \subseteq Range(up[d])
    <3>1. \A d \in Conn : \/ up'[d] \in {up[d], <<>>}
                          \/ up[d] # <<>> /\ up'[d] = Tail(up[d])
      BY <1>0, <1>9 DEF HandleHello, SendHelloAck, MarkStarted, Receive
    <3> QED
      BY <1>0, <3>1, QueueRange, EmptyRange
  <2> QED
    BY <1>0, <1>2, <2>1, <2>2, <2>3, TransitStep DEF ResultInv
<1>10. ASSUME NEW e \in Exec, ReportResult(e) PROVE ResultInv'
  <2>1. UNCHANGED <<loop, handler, up>> /\ worker' = [worker EXCEPT ![e] = "idle"]
    BY <1>10 DEF ReportResult, hubVars
  <2>2. \A d \in Exec : worker'[d] = worker[d] \/ Made(d, worker[d])'
    BY <1>0, <2>1 DEF Made
  <2>3. \A m \in Range(out') : m \in Range(out) \/ MessageMade(m)'
    <3> DEFINE f == Finished(e, worker[e])
    <3>1. /\ f \in Message /\ f.id = e /\ f.status = worker[e]
          /\ worker[e] \in results[e] /\ worker[e] \in Terminal
      BY <1>10, <1>0, MessageKinds, StatusKinds DEF ReportResult, TransitMade, Made, Finished
    <3>2. Range(out') \subseteq Range(out) \cup {f}
      BY <1>10, <3>1, SendStep DEF ReportResult
    <3>3. \A m : m = f => MessageMade(m)'
      BY <1>1, <3>1 DEF MessageMade, Made
    <3> QED
      BY <3>2, <3>3
  <2> QED
    BY <1>0, <1>2, <2>1, <2>2, <2>3, TransitStep DEF ResultInv
<1> QED
  BY <1>3, <1>4, <1>5, <1>6, <1>7, <1>8, <1>9, <1>10

(* The Hub's steps on its table. *)
LEMMA HubRowStep ==
  ASSUME TypeOK, ReportInv, ResultInv,
         \/ \E c \in Conn : MarkFinished(c) \/ WriteExecution(c)
         \/ \E e \in Exec : CreateExecution(e) \/ DispatchToAgent(e)
  PROVE  ResultInv'
<1>0. /\ up \in [Conn -> Seq(Message)] /\ TransitMade /\ JournalMade /\ HubResultBacked
      /\ handler \in [Conn -> HandlerState] /\ row \in [Exec -> HubStatus]
      /\ Idle.op = "IDLE" /\ WireBacked /\ undispatched \subseteq Exec
  BY DEF TypeOK, HubTypeOK, WireTypeOK, ResultInv, Idle, ReportInv, Exec
<1>1. UNCHANGED <<journal, results, early, worker, loop, out>> /\ ResultsGrow
  BY DEF MarkFinished, WriteExecution, CreateExecution, DispatchToAgent, agentVars, history, ResultsGrow
<1>2. ASSUME NEW c \in Conn, MarkFinished(c) PROVE ResultInv'
  <2> DEFINE m == Head(up[c])
  <2>1. UNCHANGED <<row, stored>> /\ Receive(c, "FINISHED")
    BY <1>2 DEF MarkFinished, history
  <2>2. /\ m \in Message /\ m.type = "FINISHED" /\ m.id \in Exec
        /\ \A d \in Conn : Range(up'[d]) \subseteq Range(up[d])
    BY <1>0, <2>1, ReceiveStep
  <2>3. m \in Range(up[c])
    BY <1>0, <2>1, QueueRange DEF Receive
  <2>4. Made(m.id, m.status)
    BY <1>0, <2>2, <2>3 DEF TransitMade, MessageMade
  <2>5. \A d \in Conn : handler'[d] = handler[d] \/ HandlerMade(handler[d])'
    <3>1. \/ handler' = handler
          \/ \E op \in {"FINISH", "CREATE"} :
                handler' = [handler EXCEPT ![c] = [op |-> op, id |-> m.id, status |-> m.status]]
      BY <1>2 DEF MarkFinished
    <3>2. CASE handler' = handler
      BY <3>2
    <3>3. ASSUME NEW op \in {"FINISH", "CREATE"},
                 handler' = [handler EXCEPT ![c] = [op |-> op, id |-> m.id, status |-> m.status]]
          PROVE  \A d \in Conn : handler'[d] = handler[d] \/ HandlerMade(handler[d])'
      <4>1. \A d \in Conn \ {c} : handler'[d] = handler[d]
        BY <1>0, <3>3
      <4>2. handler'[c].id = m.id /\ handler'[c].status = m.status
        BY <1>0, <3>3
      <4> QED
        BY <1>1, <2>4, <4>1, <4>2 DEF HandlerMade, Made
    <3> QED
      BY <3>1, <3>2, <3>3
  <2>6. TransitMade'
    BY <1>0, <1>1, <2>2, <2>5, TransitStep
  <2> QED
    BY <1>1, <2>1, <2>6, HistoryKept DEF ResultInv
<1>3. ASSUME NEW c \in Conn, WriteExecution(c) PROVE ResultInv'
  <2> DEFINE h == handler[c]
  <2>1. h \in HandlerState /\ h.op \in {"START", "FINISH", "CREATE"} /\ h.id \in Exec
    BY <1>0, <1>3, StateFields DEF WriteExecution
  <2>2. /\ handler' = [handler EXCEPT ![c] = Idle] /\ up' = up
        /\ \/ row' = row /\ stored' = stored
           \/ /\ row' = [row EXCEPT ![h.id] = h.status]
              /\ stored' = IF h.status \in Terminal THEN stored \cup {h.id} ELSE stored
    BY <1>3 DEF WriteExecution
  <2>3. /\ Made(h.id, h.status) \/ h.status = "RUNNING"
        /\ journal[h.id].status # None
    BY <1>0, <2>1 DEF TransitMade, HandlerMade, ReportInv, HandlerBacked, ReportBacked
  <2>4. TransitMade'
    <3>1. \A d \in Conn : handler'[d] = handler[d] \/ handler'[d].op = "IDLE"
      BY <1>0, <2>2
    <3> QED
      BY <1>0, <1>1, <2>2, <3>1, TransitStep
  <2>5. JournalMade'
    BY <1>0, <1>1, <2>2, <2>3 DEF JournalMade, Made
  <2>6. HubResultBacked'
    <3> SUFFICES ASSUME NEW e \in Exec, row'[e] \in Terminal
                 PROVE  row'[e] \in results[e] \/ (row'[e] = "FAILED" /\ journal[e].status = None)
      BY <1>1 DEF HubResultBacked
    <3>1. CASE row'[e] = row[e]
      BY <1>0, <3>1 DEF HubResultBacked
    <3>2. CASE row'[e] # row[e]
      <4>1. e = h.id /\ row'[e] = h.status
        BY <1>0, <2>1, <2>2, <3>2
      <4> QED
        BY <2>3, <4>1, StatusKinds DEF Made
    <3> QED
      BY <3>1, <3>2
  <2> QED
    BY <2>4, <2>5, <2>6 DEF ResultInv
<1>4. ASSUME NEW e \in Exec, CreateExecution(e) \/ DispatchToAgent(e) PROVE ResultInv'
  <2>1. UNCHANGED <<up, handler, stored>>
    BY <1>4 DEF CreateExecution, DispatchToAgent, history
  <2>2. TransitMade'
    BY <1>0, <1>1, <2>1, TransitStep
  <2>3. JournalMade'
    BY <1>0, <1>1, <2>1 DEF JournalMade, Made
  <2>4. HubResultBacked'
    <3>1. \A d \in Exec : d # e => row'[d] = row[d]
      BY <1>0, <1>4 DEF CreateExecution, DispatchToAgent
    <3>2. \/ row'[e] \in {row[e], "PENDING"}
          \/ row'[e] = "FAILED" /\ journal[e].status = None
      <4>1. CASE CreateExecution(e)
        BY <1>0, <4>1 DEF CreateExecution
      <4>2. CASE DispatchToAgent(e)
        <5>1. e \in undispatched /\ (row' = row \/ row' = [row EXCEPT ![e] = "FAILED"])
          BY <4>2 DEF DispatchToAgent
        <5>2. journal[e].status = None
          BY <5>1 DEF ReportInv, RowBacked, Unreached
        <5> QED
          BY <1>0, <5>1, <5>2
      <4> QED
        BY <1>4, <4>1, <4>2
    <3>3. "PENDING" \notin Terminal
      BY DEF Terminal
    <3> QED
      BY <1>0, <1>1, <3>1, <3>2, <3>3 DEF HubResultBacked
  <2> QED
    BY <2>2, <2>3, <2>4 DEF ResultInv
<1> QED
  BY <1>2, <1>3, <1>4

(* The Agent's dispatch loop. *)
LEMMA LoopResultStep ==
  ASSUME TypeOK, ReportInv, ResultInv,
         OnHelloAck \/ UploadExecution \/ OnExecutionAck \/ MarkSynced
  PROVE  ResultInv'
<1>0. /\ out \in Seq(Message) /\ loop \in LoopState /\ TransitMade /\ JournalMade /\ HubResultBacked
      /\ journal \in [Exec -> [status : AgentStatus, synced : BOOLEAN]]
      /\ early \subseteq Exec /\ stored \subseteq Exec
      /\ LoopMade(loop) /\ LoopBacked /\ Idle.op = "IDLE"
  BY DEF TypeOK, AgentTypeOK, HistoryTypeOK, ResultInv, TransitMade, Idle, ReportInv
<1>1. UNCHANGED <<results, worker, handler, up, row, stored>> /\ ResultsGrow
  BY DEF OnHelloAck, UploadExecution, OnExecutionAck, MarkSynced, hubVars, history, ResultsGrow
<1>2. CASE OnHelloAck
  <2> DEFINE todo == {[id |-> e, status |-> journal[e].status] : e \in Unsynced}
  <2>1. loop' = Uploading(todo) /\ UNCHANGED <<out, journal, early>>
    BY <1>2 DEF OnHelloAck, history
  <2>2. \A r \in todo : Made(r.id, r.status)'
    BY <1>0, <1>1, <2>1 DEF Unsynced, JournalMade, Made
  <2>3. LoopMade(loop)'
    BY <2>1, <2>2 DEF LoopMade, Uploading, Idle, Made
  <2>4. TransitMade'
    BY <1>0, <1>1, <2>1, <2>3, TransitStep
  <2> QED
    BY <1>1, <2>1, <2>4, HistoryKept DEF ResultInv
<1>3. CASE UploadExecution
  <2>1. PICK r \in loop.todo : /\ loop' = Uploading(loop.todo \ {r})
                               /\ Send(Finished(r.id, r.status))
                               /\ early' = IF r.status = "RUNNING" THEN early \cup {r.id} ELSE early
    BY <1>3 DEF UploadExecution
  <2>2. loop.op = "RECONCILE" /\ journal' = journal
    BY <1>3 DEF UploadExecution
  <2>3. /\ r \in [id : Exec, status : Reported] /\ Made(r.id, r.status)
        /\ journal[r.id].status # None
    BY <1>0, <2>1, <2>2, StateFields DEF LoopMade, LoopBacked
  <2>4. LoopMade(loop)'
    BY <1>0, <1>1, <2>1, <2>2 DEF LoopMade, Uploading, Idle, Made
  <2>5. \A m \in Range(out') : m \in Range(out) \/ MessageMade(m)'
    <3> DEFINE f == Finished(r.id, r.status)
    <3>1. f \in Message /\ f.id = r.id /\ f.status = r.status
      BY <2>3, MessageKinds DEF Finished
    <3>2. Range(out') \subseteq Range(out) \cup {f}
      BY <2>1, <3>1, SendStep
    <3>3. MessageMade(f)'
      BY <1>1, <2>3, <3>1 DEF MessageMade, Made
    <3> QED
      BY <3>2, <3>3
  <2>6. TransitMade'
    BY <1>0, <1>1, <2>4, <2>5, TransitStep
  <2>7. JournalMade'
    BY <1>0, <1>1, <2>1, <2>2, <2>3 DEF JournalMade, Made
  <2>8. HubResultBacked'
    BY <1>0, <1>1, <2>2 DEF HubResultBacked
  <2> QED
    BY <2>6, <2>7, <2>8 DEF ResultInv
<1>4. CASE OnExecutionAck
  <2> DEFINE e == Head(down[link]).id
  <2>1. /\ loop' = IF journal[e].status = None THEN Idle
                   ELSE [op |-> "ACK", id |-> e, status |-> journal[e].status]
        /\ UNCHANGED <<out, journal, early>>
    BY <1>4 DEF OnExecutionAck, history
  <2>2. e \in Exec
    BY <1>4, DeliverStep DEF OnExecutionAck, ReportInv
  <2>3. LoopMade(loop)'
    BY <1>0, <1>1, <2>1, <2>2 DEF LoopMade, JournalMade, Made, Idle
  <2>4. TransitMade'
    BY <1>0, <1>1, <2>1, <2>3, TransitStep
  <2> QED
    BY <1>1, <2>1, <2>4, HistoryKept DEF ResultInv
<1>5. CASE MarkSynced
  <2>1. /\ loop.op = "ACK" /\ Write(loop.id, loop.status, TRUE) /\ loop' = Idle
        /\ UNCHANGED <<out, early>>
    BY <1>5 DEF MarkSynced, history
  <2>2. /\ loop.id \in Exec /\ loop.status \in Reported /\ Made(loop.id, loop.status)
        /\ journal[loop.id].status # None
        /\ loop.id \notin early => loop.status = journal[loop.id].status
    BY <1>0, <2>1, StateFields, StatusKinds DEF LoopMade, LoopBacked
  <2>3. \A e \in Exec : journal'[e].status = IF e = loop.id THEN loop.status ELSE journal[e].status
    BY <1>0, <2>1, <2>2 DEF Write
  <2>4. TransitMade'
    BY <1>0, <1>1, <2>1, TransitStep
  <2>5. JournalMade'
    BY <1>0, <1>1, <2>1, <2>2, <2>3, StatusKinds DEF JournalMade, Made
  <2>6. HubResultBacked'
    BY <1>0, <1>1, <2>2, <2>3 DEF HubResultBacked
  <2> QED
    BY <2>4, <2>5, <2>6 DEF ResultInv
<1> QED
  BY <1>2, <1>3, <1>4, <1>5

(* The dispatch of an execution that the Agent knows did not fail.         *)
LEMMA KnownRow ==
  ASSUME TypeOK, ReportInv, ResultInv, NEW e \in Exec, ~Unreached(e),
         journal[e].status = None
  PROVE  row[e] \notin Terminal /\ results[e] = {} /\ e \notin early /\ e \notin stored
<1>1. e \notin early /\ e \notin stored
  BY DEF ResultInv, JournalMade
<1>2. results[e] \subseteq Terminal
  BY DEF TypeOK, HistoryTypeOK
<1>3. results[e] = {}
  BY <1>1, <1>2, StatusKinds DEF ResultInv, JournalMade
<1> QED
  BY <1>1, <1>3 DEF Unreached

(* A status of e is written to the journal, with the result it is.         *)
LEMMA WrittenStep ==
  ASSUME TypeOK, ReportInv, ResultInv, NEW e \in Exec, NEW s \in Reported, NEW synced \in BOOLEAN,
         Write(e, s, synced), UNCHANGED <<row, early, stored>>,
         journal[e].status = None => ~Unreached(e),
         journal[e].status \in {None, "RUNNING"} \/ e \in early,
         results' = IF s \in Terminal THEN [results EXCEPT ![e] = @ \cup {s}] ELSE results
  PROVE  JournalMade' /\ HubResultBacked' /\ ResultsGrow
<1>0. /\ JournalMade /\ HubResultBacked /\ results \in [Exec -> SUBSET Terminal]
      /\ journal \in [Exec -> [status : AgentStatus, synced : BOOLEAN]]
      /\ early \subseteq Exec /\ stored \subseteq Exec
  BY DEF ResultInv, TypeOK, AgentTypeOK, HistoryTypeOK
<1>1. \A d \in Exec : journal'[d].status = IF d = e THEN s ELSE journal[d].status
  BY <1>0 DEF Write
<1>2. \A d \in Exec : results'[d] = IF d = e /\ s \in Terminal THEN results[d] \cup {s} ELSE results[d]
  BY <1>0
<1>3. s # None /\ "RUNNING" \notin Terminal /\ None \notin Terminal
  BY StatusKinds
<1>4. e \notin early => results[e] = {}
  BY <1>0, <1>3 DEF JournalMade
<1>5. JournalMade'
  BY <1>0, <1>1, <1>2, <1>3, <1>4 DEF JournalMade, Made
<1>6. HubResultBacked'
  <2>1. journal[e].status = None => row[e] \notin Terminal
    BY KnownRow
  <2> QED
    BY <1>0, <1>1, <1>2, <2>1 DEF HubResultBacked
<1> QED
  BY <1>2, <1>5, <1>6 DEF ResultsGrow

(* The steps that start and end a run. *)
LEMMA WorkerResultStep ==
  ASSUME TypeOK, ReportInv, ResultInv,
         \/ OnRunExecution \/ AgentStart
         \/ \E e \in Exec : TriggerSchedule(e) \/ FinishExecution(e)
  PROVE  ResultInv'
<1>0. /\ out \in Seq(Message) /\ TransitMade /\ JournalMade /\ HubResultBacked
      /\ journal \in [Exec -> [status : AgentStatus, synced : BOOLEAN]]
      /\ results \in [Exec -> SUBSET Terminal]
      /\ worker \in [Exec -> {"idle", "running"} \cup Terminal]
      /\ early \subseteq Exec /\ stored \subseteq Exec
      /\ "running" \notin Terminal /\ "RUNNING" \notin Terminal
  BY DEF TypeOK, AgentTypeOK, HistoryTypeOK, ResultInv, Terminal
<1>1. CASE OnRunExecution
  <2>e. PICK e \in Exec : e = Head(down[link]).id
    BY <1>1, DeliverStep DEF OnRunExecution, ReportInv
  <2>1. UNCHANGED <<loop, handler, up, row, early, stored>>
    BY <1>1 DEF OnRunExecution, hubVars
  <2>2. ~Unreached(e)
    BY <1>1, <2>e, DeliverStep DEF OnRunExecution, ReportInv, DownBacked
  <2>3. CASE UNCHANGED <<journal, worker, out, results>>
    <3>1. TransitMade' /\ ResultsGrow
      BY <1>0, <2>1, <2>3, TransitStep DEF ResultsGrow
    <3> QED
      BY <2>1, <2>3, <3>1, HistoryKept DEF ResultInv
  <2>4. CASE /\ journal[e].status = None /\ Write(e, "RUNNING", FALSE)
             /\ worker' = [worker EXCEPT ![e] = "running"]
             /\ Send(Started(e)) /\ UNCHANGED results
    <3>1. JournalMade' /\ HubResultBacked' /\ ResultsGrow
      BY <1>0, <2>1, <2>2, <2>4, WrittenStep, StatusKinds
    <3>2. \A d \in Exec : worker'[d] = worker[d] \/ Made(d, worker[d])'
      BY <1>0, <2>4 DEF Made
    <3>3. \A m \in Range(out') : m \in Range(out) \/ MessageMade(m)'
      <4>1. Range(out') \subseteq Range(out) \cup {Started(e)}
        BY <2>4, SendStep, MessageKinds
      <4> QED
        BY <4>1 DEF MessageMade, Started
    <3>4. TransitMade'
      BY <1>0, <2>1, <3>1, <3>2, <3>3, TransitStep
    <3> QED
      BY <3>1, <3>4 DEF ResultInv
  <2>5. CASE /\ journal[e].status = None /\ Write(e, "BLOCKED", FALSE)
             /\ results' = [results EXCEPT ![e] = @ \cup {"BLOCKED"}]
             /\ Send(Finished(e, "BLOCKED")) /\ UNCHANGED worker
    <3>1. JournalMade' /\ HubResultBacked' /\ ResultsGrow
      BY <1>0, <2>1, <2>2, <2>5, WrittenStep, StatusKinds
    <3>2. "BLOCKED" \in results'[e]
      BY <1>0, <2>5
    <3>3. \A m \in Range(out') : m \in Range(out) \/ MessageMade(m)'
      <4>1. Range(out') \subseteq Range(out) \cup {Finished(e, "BLOCKED")}
        BY <2>5, SendStep, MessageKinds, StatusKinds
      <4>2. \A m : m = Finished(e, "BLOCKED") => MessageMade(m)'
        BY <3>2 DEF MessageMade, Made, Finished
      <4> QED
        BY <4>1, <4>2
    <3>4. TransitMade'
      BY <1>0, <2>1, <2>5, <3>1, <3>3, TransitStep
    <3> QED
      BY <3>1, <3>4 DEF ResultInv
  <2> QED
    BY <1>1, <2>e, <2>3, <2>4, <2>5 DEF OnRunExecution
<1>2. CASE AgentStart
  <2>1. /\ UNCHANGED <<worker, loop, out, handler, up, row, early, stored>>
        /\ \A e \in Exec : journal'[e].status = IF journal[e].status = "RUNNING"
                                                THEN "FAILED" ELSE journal[e].status
        /\ \A e \in Exec : results'[e] = IF journal[e].status = "RUNNING"
                                         THEN results[e] \cup {"FAILED"} ELSE results[e]
    BY <1>0, <1>2 DEF AgentStart, hubVars
  <2>2. ResultsGrow
    BY <2>1 DEF ResultsGrow
  <2>3. TransitMade'
    BY <1>0, <2>1, <2>2, TransitStep
  <2>4. JournalMade'
    <3>1. \A e \in Exec \ early : journal[e].status = "RUNNING" => results[e] = {}
      BY <1>0 DEF JournalMade
    <3> QED
      BY <1>0, <2>1, <3>1, StatusKinds DEF JournalMade, Made
  <2>5. HubResultBacked'
    BY <1>0, <2>1, StatusKinds DEF HubResultBacked
  <2> QED
    BY <2>3, <2>4, <2>5 DEF ResultInv
<1>3. ASSUME NEW e \in Exec, TriggerSchedule(e) PROVE ResultInv'
  <2>1. /\ UNCHANGED <<loop, out, handler, up, row, early, stored, results>>
        /\ e \in AgentExec /\ journal[e].status = None /\ Write(e, "RUNNING", FALSE)
        /\ worker' \in {worker, [worker EXCEPT ![e] = "running"]}
    BY <1>3 DEF TriggerSchedule, hubVars, history
  <2>2. ~Unreached(e)
    BY <2>1, ConstantsAssumption DEF ReportInv, RowBacked
  <2>3. JournalMade' /\ HubResultBacked' /\ ResultsGrow
    BY <1>0, <2>1, <2>2, WrittenStep, StatusKinds
  <2>4. \A d \in Exec : worker'[d] = worker[d] \/ Made(d, worker[d])'
    BY <1>0, <2>1 DEF Made
  <2>5. TransitMade'
    BY <1>0, <2>1, <2>3, <2>4, TransitStep
  <2> QED
    BY <2>3, <2>5 DEF ResultInv
<1>4. ASSUME NEW e \in Exec, FinishExecution(e) PROVE ResultInv'
  <2>1. PICK s \in Outcomes : /\ Write(e, s, FALSE) /\ worker' = [worker EXCEPT ![e] = s]
                              /\ results' = [results EXCEPT ![e] = @ \cup {s}]
    BY <1>4 DEF FinishExecution
  <2>2. UNCHANGED <<loop, out, handler, up, row, early, stored>> /\ worker[e] = "running"
    BY <1>4 DEF FinishExecution, hubVars
  <2>3. s \in Terminal /\ s \in Reported
    BY ConstantsAssumption, StatusKinds
  <2>4. journal[e].status # None /\ (e \notin early => journal[e].status = "RUNNING")
    BY <2>2, StatusKinds DEF ReportInv, WorkerBacked
  <2>5. JournalMade' /\ HubResultBacked' /\ ResultsGrow
    BY <2>1, <2>2, <2>3, <2>4, WrittenStep
  <2>6. \A d \in Exec : worker'[d] = worker[d] \/ Made(d, worker[d])'
    <3>1. \A d \in Exec : worker'[d] = IF d = e THEN s ELSE worker[d]
      BY <1>0, <2>1
    <3>2. s \in results'[e]
      BY <1>0, <2>1
    <3> QED
      BY <3>1, <3>2 DEF Made
  <2>7. TransitMade'
    BY <1>0, <2>2, <2>5, <2>6, TransitStep
  <2> QED
    BY <2>5, <2>7 DEF ResultInv
<1> QED
  BY <1>1, <1>2, <1>3, <1>4

LEMMA ResultStep == TypeOK /\ ReportInv /\ ResultInv /\ [Next]_vars => ResultInv'
<1> SUFFICES ASSUME TypeOK, ReportInv, ResultInv, [Next]_vars PROVE ResultInv'
  OBVIOUS
<1>1. CASE UNCHANGED vars
  <2>1. UNCHANGED <<journal, worker, loop, out, row, handler, up, results, early, stored>>
    BY <1>1 DEF vars
  <2>2. TransitMade' /\ JournalMade' /\ HubResultBacked'
    BY <2>1, HistoryKept, TransitStep DEF ResultInv
  <2> QED
    BY <2>2 DEF ResultInv
<1> QED
  BY <1>1, CarryStep, HubRowStep, LoopResultStep, WorkerResultStep DEF Next

LEMMA ResultInvHolds == Spec => []ResultInv
BY ResultInit, ResultStep, ReportInvHolds, TypeCorrect, PTL DEF Spec

(* The Hub invents no result: a terminal row says what the Agent           *)
(* journalled for this execution at some time, or that its dispatch failed *)
(* and the Agent never heard of it.                                        *)
THEOREM HubResultIsBacked == Spec => []HubResultBacked
<1>1. ResultInv => HubResultBacked
  BY DEF ResultInv
<1> QED
  BY <1>1, ResultInvHolds, PTL

-----------------------------------------------------------------------------
(* The order of what says that an execution started and how it ended. *)

LEMMA QueueOrder ==
  ASSUME NEW e, NEW q \in Seq(Message), StartedFirst(q, e)
  PROVE  /\ \A m \in Message :
              (SaysStarted(m, e) => \A n \in Range(q) : ~SaysEnded(n, e))
                => StartedFirst(Append(q, m), e)
         /\ \A k \in 0..Len(q) : StartedFirst(SubSeq(q, k + 1, Len(q)), e)
         /\ q # <<>> => /\ StartedFirst(Tail(q), e)
                        /\ SaysEnded(Head(q), e) =>
                              \A n \in Range(Tail(q)) : ~SaysStarted(n, e)
<1>1. ASSUME NEW m \in Message,
             SaysStarted(m, e) => \A n \in Range(q) : ~SaysEnded(n, e)
      PROVE  StartedFirst(Append(q, m), e)
  <2> DEFINE r == Append(q, m)
  <2> SUFFICES ASSUME NEW i \in DOMAIN r, NEW j \in DOMAIN r,
                      SaysStarted(r[i], e), SaysEnded(r[j], e)
               PROVE  i < j
    BY DEF StartedFirst
  <2>1. /\ DOMAIN q = 1..Len(q) /\ DOMAIN r = 1..Len(q) + 1 /\ Len(q) \in Nat
        /\ r[Len(q) + 1] = m /\ \A k \in 1..Len(q) : r[k] = q[k]
    BY AppendProperties
  <2>2. CASE i \in 1..Len(q) /\ j \in 1..Len(q)
    BY <2>1, <2>2 DEF StartedFirst
  <2>3. CASE i \in 1..Len(q) /\ j = Len(q) + 1
    BY <2>1, <2>3
  <2>4. CASE i = Len(q) + 1 /\ j \in 1..Len(q)
    BY <1>1, <2>1, <2>4 DEF Range
  <2>5. CASE i = Len(q) + 1 /\ j = Len(q) + 1
    BY <2>1, <2>5 DEF SaysStarted, SaysEnded
  <2> QED
    BY <2>1, <2>2, <2>3, <2>4, <2>5
<1>2. ASSUME NEW k \in 0..Len(q)
      PROVE  StartedFirst(SubSeq(q, k + 1, Len(q)), e)
  <2> DEFINE r == SubSeq(q, k + 1, Len(q))
  <2>1. /\ Len(r) = Len(q) - k /\ DOMAIN r = 1..(Len(q) - k) /\ DOMAIN q = 1..Len(q)
        /\ Len(q) \in Nat /\ \A i \in 1..(Len(q) - k) : r[i] = q[k + i]
    BY SubSeqProperties
  <2>2. ASSUME NEW i \in DOMAIN r, NEW j \in DOMAIN r, SaysStarted(r[i], e), SaysEnded(r[j], e)
        PROVE  i < j
    <3>1. i \in 1..(Len(q) - k) /\ j \in 1..(Len(q) - k)
      BY <2>1
    <3>2. k + i \in DOMAIN q /\ k + j \in DOMAIN q
      <4>1. Len(q) \in Nat /\ k \in 0..Len(q)
        BY <2>1
      <4>2. k + i \in 1..Len(q) /\ k + j \in 1..Len(q)
        BY <3>1, <4>1
      <4> QED
        BY <2>1, <4>2
    <3>3. SaysStarted(q[k + i], e) /\ SaysEnded(q[k + j], e)
      BY <2>1, <2>2, <3>1
    <3>4. k + i < k + j
      BY <3>2, <3>3 DEF StartedFirst
    <3> QED
      BY <3>1, <3>4
  <2> QED
    BY <2>2 DEF StartedFirst
<1>3. ASSUME q # <<>>
      PROVE  /\ StartedFirst(Tail(q), e)
             /\ SaysEnded(Head(q), e) => \A n \in Range(Tail(q)) : ~SaysStarted(n, e)
  <2>1. /\ Len(q) \in Nat /\ Len(q) >= 1 /\ DOMAIN q = 1..Len(q) /\ Head(q) = q[1]
        /\ DOMAIN Tail(q) = 1..(Len(q) - 1) /\ \A i \in 1..(Len(q) - 1) : Tail(q)[i] = q[i + 1]
    BY <1>3, HeadTailProperties, EmptySeq
  <2>2. StartedFirst(Tail(q), e)
    <3> SUFFICES ASSUME NEW i \in DOMAIN Tail(q), NEW j \in DOMAIN Tail(q),
                        SaysStarted(Tail(q)[i], e), SaysEnded(Tail(q)[j], e)
                 PROVE  i < j
      BY DEF StartedFirst
    <3>1. /\ i + 1 \in DOMAIN q /\ j + 1 \in DOMAIN q
          /\ SaysStarted(q[i + 1], e) /\ SaysEnded(q[j + 1], e)
      BY <2>1
    <3>2. i + 1 < j + 1
      BY <3>1 DEF StartedFirst
    <3> QED
      BY <2>1, <3>2
  <2>3. ASSUME SaysEnded(Head(q), e), NEW n \in Range(Tail(q)), SaysStarted(n, e) PROVE FALSE
    <3>1. PICK i \in 1..(Len(q) - 1) : n = q[i + 1]
      BY <2>1, <2>3 DEF Range
    <3>2. i + 1 < 1
      BY <2>1, <2>3, <3>1 DEF StartedFirst
    <3> QED
      BY <3>2
  <2> QED
    BY <2>2, <2>3
<1> QED
  BY <1>1, <1>2, <1>3

(* A step that takes away from the queues and the handlers, or sends what  *)
(* does not say that e started.                                            *)
LEMMA OrderedKept ==
  ASSUME NEW e \in Exec, Ordered(e), TypeOK, link' \in {link, NoConn},
         e \in stored' => e \in stored,
         StartedFirst(out, e)',
         \A m \in Range(out') : m \in Range(out) \/ ~SaysStarted(m, e),
         \A c \in Conn : StartedFirst(up[c], e)' /\ Range(up'[c]) \subseteq Range(up[c]),
         \A c \in Conn : \/ handler'[c] = handler[c]
                         \/ handler'[c].op \in {"IDLE", "HELLO"}
  PROVE  Ordered(e)'
<1>0. link \in Conn \cup {NoConn}
  BY DEF TypeOK, AgentTypeOK
<1>1. \A c \in Conn : /\ NoEnd(c, e) => NoEnd(c, e)'
                      /\ ~Ending(c, e) => ~Ending(c, e)'
  BY DEF NoEnd, Ending
<1>2. \A m \in Range(out') : SaysStarted(m, e) =>
          e \notin stored' /\ \A c \in Conn : NoEnd(c, e)'
  BY <1>1 DEF Ordered
<1>3. CASE link' = NoConn
  BY <1>2, <1>3 DEF Ordered
<1>4. CASE link' = link /\ link \in Conn /\ link # NoConn
  <2>1. \A m \in Range(up'[link]) : SaysStarted(m, e) =>
            e \notin stored' /\ ~Ending(link, e)' /\ \A c \in Conn \ {link} : NoEnd(c, e)'
    <3> SUFFICES ASSUME NEW m \in Range(up'[link]), SaysStarted(m, e)
                 PROVE  e \notin stored' /\ ~Ending(link, e)' /\ \A c \in Conn \ {link} : NoEnd(c, e)'
      OBVIOUS
    <3>1. e \notin stored /\ ~Ending(link, e) /\ \A c \in Conn \ {link} : NoEnd(c, e)
      BY <1>4 DEF Ordered
    <3> QED
      BY <1>1, <1>4, <3>1 DEF Ending
  <2>2. handler'[link].op = "START" /\ handler'[link].id = e =>
            e \notin stored' /\ \A c \in Conn \ {link} : NoEnd(c, e)'
    BY <1>1, <1>4 DEF Ordered
  <2>3. \A c : c = link => (Ending(c, e)' <=> Ending(link, e)')
    BY <1>4 DEF Ending
  <2> QED
    BY <1>2, <1>4, <2>1, <2>2 DEF Ordered
<1> QED
  BY <1>0, <1>3, <1>4

(* The message that is sent last is behind every other.                    *)
LEMMA SendOrder ==
  ASSUME TypeOK, NEW e \in Exec, Ordered(e), NEW m \in Message, Send(m), ~SaysStarted(m, e)
  PROVE  StartedFirst(out, e)' /\ \A n \in Range(out') : n \in Range(out) \/ ~SaysStarted(n, e)
<1>1. out \in Seq(Message) /\ StartedFirst(out, e)
  BY DEF TypeOK, AgentTypeOK, Ordered
<1>2. out' \in {out, Append(out, m)}
  BY DEF Send
<1>3. \A q : q = Append(out, m) => StartedFirst(q, e)
  BY <1>1, QueueOrder
<1>4. \A q : q = out' => StartedFirst(q, e)
  BY <1>1, <1>2, <1>3
<1>5. StartedFirst(out, e)'
  BY <1>4 DEF StartedFirst
<1>6. Range(out') \subseteq Range(out) \cup {m}
  BY SendStep
<1> QED
  BY <1>5, <1>6

(* The steps that send nothing of a start and store nothing.               *)
LEMMA OrderedCarry ==
  ASSUME TypeOK, ReportInv, ResultInv, NEW e \in Exec, Ordered(e),
         \/ AgentDisconnect \/ AgentCrash \/ AgentStart \/ HubRestart \/ UNCHANGED vars
         \/ OnHelloAck \/ UploadExecution \/ OnExecutionAck \/ MarkSynced \/ OnExecutionNack
         \/ \E c \in Conn : \/ HubLeave(c) \/ HandleDisconnect(c)
                            \/ HandleHello(c) \/ SendHelloAck(c)
         \/ \E d \in Exec : \/ CreateExecution(d) \/ DispatchToAgent(d) \/ TriggerSchedule(d)
                            \/ FinishExecution(d) \/ ReportResult(d)
  PROVE  Ordered(e)'
<1>0. /\ out \in Seq(Message) /\ up \in [Conn -> Seq(Message)] /\ handler \in [Conn -> HandlerState]
      /\ StartedFirst(out, e) /\ \A c \in Conn : StartedFirst(up[c], e)
      /\ Idle.op = "IDLE" /\ StartedFirst(<<>>, e) /\ loop \in LoopState
  BY DEF TypeOK, AgentTypeOK, HubTypeOK, WireTypeOK, Ordered, Idle, StartedFirst
<1>1. stored' = stored
  BY DEF AgentDisconnect, AgentCrash, AgentStart, HubRestart, OnHelloAck, UploadExecution,
         OnExecutionAck, MarkSynced, OnExecutionNack, HubLeave, HandleDisconnect, HandleHello,
         SendHelloAck, CreateExecution, DispatchToAgent, TriggerSchedule, FinishExecution,
         ReportResult, history, vars
<1>2. link' \in {link, NoConn}
  BY DEF AgentDisconnect, AgentCrash, AgentStart, HubRestart, OnHelloAck, UploadExecution,
         OnExecutionAck, MarkSynced, OnExecutionNack, HubLeave, HandleDisconnect, HandleHello,
         SendHelloAck, CreateExecution, DispatchToAgent, TriggerSchedule, FinishExecution,
         ReportResult, agentVars, vars
<1> DEFINE
      Handlers == \A c \in Conn : \/ handler'[c] = handler[c]
                                  \/ handler'[c].op \in {"IDLE", "HELLO"}
      Queues == \A c \in Conn : \/ up'[c] = up[c]
                                \/ up'[c] = <<>>
                                \/ up[c] # <<>> /\ up'[c] = Tail(up[c])
<1>3. Handlers
  <2>1. ASSUME NEW d \in Conn, HandleHello(d) \/ SendHelloAck(d) PROVE Handlers
    BY <1>0, <2>1 DEF HandleHello, SendHelloAck
  <2>2. CASE HubRestart
    BY <1>0, <2>2 DEF HubRestart
  <2>3. CASE handler' = handler
    BY <2>3
  <2> QED
    BY <2>1, <2>2, <2>3
    DEF AgentDisconnect, AgentCrash, AgentStart, OnHelloAck, UploadExecution, OnExecutionAck,
        MarkSynced, OnExecutionNack, HubLeave, HandleDisconnect, CreateExecution, DispatchToAgent,
        TriggerSchedule, FinishExecution, ReportResult, hubVars, vars
<1>4. Queues
  <2>1. ASSUME NEW d \in Conn, HandleHello(d) PROVE Queues
    BY <1>0, <2>1 DEF HandleHello
  <2>2. ASSUME NEW d \in Conn, HubLeave(d) PROVE Queues
    BY <1>0, <2>2 DEF HubLeave
  <2>3. CASE HubRestart
    BY <2>3 DEF HubRestart
  <2>4. CASE up' = up
    BY <2>4
  <2> QED
    BY <2>1, <2>2, <2>3, <2>4
    DEF AgentDisconnect, AgentCrash, AgentStart, OnHelloAck, UploadExecution, OnExecutionAck,
        MarkSynced, OnExecutionNack, HandleDisconnect, SendHelloAck, CreateExecution,
        DispatchToAgent, TriggerSchedule, FinishExecution, ReportResult, vars
<1>5. \A c \in Conn : StartedFirst(up[c], e)' /\ Range(up'[c]) \subseteq Range(up[c])
  <2> SUFFICES ASSUME NEW c \in Conn
               PROVE  StartedFirst(up[c], e)' /\ Range(up'[c]) \subseteq Range(up[c])
    OBVIOUS
  <2>0. up[c] \in Seq(Message) /\ StartedFirst(up[c], e)
    BY <1>0
  <2>t. up[c] # <<>> => StartedFirst(Tail(up[c]), e)
    BY <2>0, QueueOrder
  <2>r. up[c] # <<>> => Range(Tail(up[c])) \subseteq Range(up[c])
    BY <2>0, QueueRange
  <2>1. \A q : q = up[c] \/ q = <<>> \/ (up[c] # <<>> /\ q = Tail(up[c])) =>
            StartedFirst(q, e) /\ Range(q) \subseteq Range(up[c])
    BY <1>0, <2>0, <2>t, <2>r, EmptyRange
  <2>2. \A q : q = up'[c] => StartedFirst(q, e) /\ Range(q) \subseteq Range(up[c])
    BY <1>4, <2>1
  <2> QED
    BY <2>2 DEF StartedFirst
<1>6. StartedFirst(out, e)' /\ \A n \in Range(out') : n \in Range(out) \/ ~SaysStarted(n, e)
  <2>1. CASE out' = out
    BY <1>0, <2>1 DEF StartedFirst
  <2>2. CASE AgentDisconnect
    <3>1. PICK k \in 0..Len(out) : out' = SubSeq(out, k + 1, Len(out))
      BY <2>2 DEF AgentDisconnect
    <3>0. StartedFirst(SubSeq(out, k + 1, Len(out)), e)
      BY <1>0, QueueOrder
    <3>2. \A q : q = SubSeq(out, k + 1, Len(out)) => StartedFirst(q, e)
      BY <3>0
    <3>3. Range(out') \subseteq Range(out)
      BY <1>0, <3>1, QueueRange
    <3> QED
      BY <3>1, <3>2, <3>3 DEF StartedFirst
  <2>3. CASE AgentCrash
    <3>1. out' = <<>>
      BY <2>3 DEF AgentCrash
    <3> QED
      BY <1>0, <3>1, EmptyRange DEF StartedFirst
  <2>4. CASE UploadExecution
    <3>1. PICK r \in loop.todo : Send(Finished(r.id, r.status))
      BY <2>4 DEF UploadExecution
    <3>2. r \in [id : Exec, status : Reported]
      BY <1>0, <2>4, <3>1, StateFields DEF UploadExecution
    <3>3. Finished(r.id, r.status) \in Message /\ ~SaysStarted(Finished(r.id, r.status), e)
      BY <3>2, MessageKinds DEF SaysStarted, Finished
    <3> QED
      BY <3>1, <3>3, SendOrder
  <2>5. ASSUME NEW d \in Exec, ReportResult(d), out' # out
        PROVE  StartedFirst(out, e)' /\ \A n \in Range(out') : n \in Range(out) \/ ~SaysStarted(n, e)
    <3>1. Send(Finished(d, worker[d])) /\ worker[d] \in Reported
      BY <2>5, StatusKinds DEF ReportResult
    <3>2. Finished(d, worker[d]) \in Message /\ ~SaysStarted(Finished(d, worker[d]), e)
      BY <3>1, MessageKinds DEF SaysStarted, Finished
    <3> QED
      BY <3>1, <3>2, SendOrder
  <2> QED
    BY <2>1, <2>2, <2>3, <2>4, <2>5
    DEF AgentStart, HubRestart, OnHelloAck, OnExecutionAck, MarkSynced, OnExecutionNack, HubLeave,
        HandleDisconnect, HandleHello, SendHelloAck, CreateExecution, DispatchToAgent,
        TriggerSchedule, FinishExecution, agentVars, vars
<1> QED
  BY <1>1, <1>2, <1>3, <1>5, <1>6, OrderedKept

(* A dial: the connection is new on both sides.                            *)
LEMMA OrderedConnect ==
  ASSUME TypeOK, OrderInv, NEW e \in Exec, Ordered(e), NEW c \in Conn, Connect(c)
  PROVE  Ordered(e)'
<1>1. /\ UNCHANGED <<handler, out, stored>> /\ link' = c /\ handler[c] = Idle
      /\ up' = [up EXCEPT ![c] = <<Hello>>] /\ up \in [Conn -> Seq(Message)]
  BY DEF Connect, OrderInv, TypeOK, WireTypeOK, history
<1>2. \A d \in Conn : up'[d] = IF d = c THEN <<Hello>> ELSE up[d]
  BY <1>1
<1>3. Range(<<Hello>>) = {Hello} /\ Hello.type = "HELLO" /\ Idle.op = "IDLE"
  BY DEF Range, Hello, Idle
<1>4. StartedFirst(<<Hello>>, e)
  BY <1>3 DEF StartedFirst, SaysStarted
<1>5. \A d \in Conn : StartedFirst(up[d], e)'
  <2>1. \A q : \A d \in Conn : q = up'[d] => StartedFirst(q, e)
    BY <1>2, <1>4 DEF Ordered
  <2> QED
    BY <2>1 DEF StartedFirst
<1>6. \A d \in Conn : NoEnd(d, e) => NoEnd(d, e)'
  BY <1>1, <1>2, <1>3 DEF NoEnd, Ending, SaysEnded
<1>7. StartedFirst(out, e)' /\ \A m \in Range(out') : SaysStarted(m, e) =>
          e \notin stored' /\ \A d \in Conn : NoEnd(d, e)'
  BY <1>1, <1>6 DEF Ordered, StartedFirst
<1>8. /\ \A m \in Range(up'[c]) : ~SaysStarted(m, e)
      /\ handler'[c].op # "START"
  BY <1>1, <1>2, <1>3 DEF SaysStarted
<1> QED
  BY <1>1, <1>5, <1>7, <1>8 DEF Ordered

(* The oldest message of the send channel moves to the connection.         *)
LEMMA OrderedWriteLoop ==
  ASSUME TypeOK, NEW e \in Exec, Ordered(e), WriteLoop
  PROVE  Ordered(e)'
<1> DEFINE m == Head(out)
<1>1. /\ UNCHANGED <<handler, stored, link>> /\ out' = Tail(out) /\ out # <<>> /\ link # NoConn
      /\ up' = IF gate[link] = "open" THEN [up EXCEPT ![link] = Append(@, m)] ELSE up
  BY DEF WriteLoop, hubVars, history
<1>2. /\ out \in Seq(Message) /\ up \in [Conn -> Seq(Message)] /\ link \in Conn
      /\ StartedFirst(out, e) /\ \A c \in Conn : StartedFirst(up[c], e)
  BY <1>1 DEF TypeOK, AgentTypeOK, WireTypeOK, Ordered
<1>3. m \in Message /\ m \in Range(out) /\ Range(Tail(out)) \subseteq Range(out)
  BY <1>1, <1>2, QueueRange
<1>4. /\ StartedFirst(Tail(out), e)
      /\ SaysEnded(m, e) => \A n \in Range(Tail(out)) : ~SaysStarted(n, e)
  BY <1>1, <1>2, QueueOrder
<1>5. StartedFirst(out, e)'
  <2>1. \A q : q = out' => StartedFirst(q, e)
    BY <1>1, <1>4
  <2> QED
    BY <2>1 DEF StartedFirst
<1>6. CASE up' = up
  <2>1. \A c \in Conn : StartedFirst(up[c], e)'
    BY <1>2, <1>6 DEF StartedFirst
  <2> QED
    BY <1>1, <1>3, <1>5, <1>6, <2>1, OrderedKept
<1>7. CASE up' = [up EXCEPT ![link] = Append(@, m)]
  <2>1. \A c \in Conn \ {link} : up'[c] = up[c]
    BY <1>2, <1>7
  <2>2. up'[link] = Append(up[link], m) /\ Range(up'[link]) = Range(up[link]) \cup {m}
    BY <1>2, <1>3, <1>7, QueueRange
  <2>3. SaysStarted(m, e) => e \notin stored /\ \A c \in Conn : NoEnd(c, e)
    BY <1>3 DEF Ordered
  <2>4. \A c \in Conn : StartedFirst(up[c], e)'
    <3>1. StartedFirst(Append(up[link], m), e)
      BY <1>2, <1>3, <2>3, QueueOrder DEF NoEnd
    <3>2. \A q : q = up'[link] => StartedFirst(q, e)
      BY <2>2, <3>1
    <3> QED
      BY <1>2, <2>1, <3>2 DEF StartedFirst
  <2>5. \A c \in Conn \ {link} : NoEnd(c, e) => NoEnd(c, e)'
    BY <1>1, <2>1 DEF NoEnd, Ending
  <2>6. ASSUME NEW n \in Range(out'), SaysStarted(n, e)
        PROVE  e \notin stored' /\ \A c \in Conn : NoEnd(c, e)'
    <3>1. e \notin stored /\ \A c \in Conn : NoEnd(c, e)
      BY <1>1, <1>3, <2>6 DEF Ordered
    <3>2. ~SaysEnded(m, e)
      BY <1>1, <1>4, <2>6
    <3>3. \A c : c = link => NoEnd(c, e)'
      BY <1>1, <1>2, <2>2, <3>1, <3>2 DEF NoEnd, Ending
    <3> QED
      BY <1>1, <2>5, <3>1, <3>3
  <2>7. ASSUME NEW n \in Range(up'[link]), SaysStarted(n, e)
        PROVE  e \notin stored' /\ ~Ending(link, e)' /\ \A c \in Conn \ {link} : NoEnd(c, e)'
    <3>1. e \notin stored /\ ~Ending(link, e) /\ \A c \in Conn \ {link} : NoEnd(c, e)
      BY <1>1, <1>2, <2>2, <2>3, <2>7 DEF Ordered, NoEnd
    <3> QED
      BY <1>1, <2>5, <3>1 DEF Ending
  <2>8. handler'[link].op = "START" /\ handler'[link].id = e =>
            e \notin stored' /\ \A c \in Conn \ {link} : NoEnd(c, e)'
    BY <1>1, <1>2, <2>5 DEF Ordered
  <2> QED
    BY <1>1, <1>5, <2>4, <2>6, <2>7, <2>8 DEF Ordered
<1> QED
  BY <1>1, <1>6, <1>7

(* A RUN: an execution the journal does not know has not ended.            *)
LEMMA OrderedRun ==
  ASSUME TypeOK, ReportInv, ResultInv, NEW e \in Exec, Ordered(e), OnRunExecution
  PROVE  Ordered(e)'
<1>1. /\ UNCHANGED <<handler, stored, link, up>> /\ out \in Seq(Message)
      /\ StartedFirst(out, e) /\ \A c \in Conn : StartedFirst(up[c], e)
  BY DEF OnRunExecution, hubVars, TypeOK, AgentTypeOK, Ordered
<1>2. PICK d \in Exec : d = Head(down[link]).id
  BY DeliverStep DEF OnRunExecution, ReportInv
<1>3. \A c \in Conn : StartedFirst(up[c], e)'
  BY <1>1 DEF StartedFirst
<1>4. CASE out' = out
  <2>1. StartedFirst(out, e)'
    BY <1>1, <1>4 DEF StartedFirst
  <2> QED
    BY <1>1, <1>3, <1>4, <2>1, OrderedKept
<1>5. ASSUME NEW m \in Message, Send(m), ~SaysStarted(m, e) PROVE Ordered(e)'
  BY <1>1, <1>3, <1>5, SendOrder, OrderedKept
<1>6. CASE e = d /\ journal[d].status = None /\ Send(Started(d))
  <2>1. e \notin stored
    BY <1>6 DEF ResultInv, JournalMade
  <2>2. /\ \A n \in Range(out) : ~SaysEnded(n, e)
        /\ \A c \in Conn : NoEnd(c, e)
    BY <1>6 DEF ReportInv, WireBacked, UpBacked, ReportBacked, HandlerBacked, NoEnd, Ending,
                SaysEnded
  <2>3. Started(d) \in Message
    BY MessageKinds
  <2>4. StartedFirst(out, e)'
    <3>1. StartedFirst(Append(out, Started(d)), e)
      BY <1>1, <2>2, <2>3, QueueOrder
    <3>2. \A q : q = out' => StartedFirst(q, e)
      BY <1>1, <1>6, <3>1 DEF Send
    <3> QED
      BY <3>2 DEF StartedFirst
  <2>5. \A c \in Conn : NoEnd(c, e)'
    BY <1>1, <2>2 DEF NoEnd, Ending
  <2> QED
    BY <1>1, <1>3, <2>1, <2>4, <2>5 DEF Ordered, Ending
<1>7. /\ Finished(d, "BLOCKED") \in Message /\ ~SaysStarted(Finished(d, "BLOCKED"), e)
      /\ Started(d) \in Message /\ (d # e => ~SaysStarted(Started(d), e))
  BY MessageKinds, StatusKinds DEF SaysStarted, Finished, Started
<1> QED
  BY <1>2, <1>4, <1>5, <1>6, <1>7 DEF OnRunExecution

(* The Hub's handlers.                                                     *)
LEMMA OrderedHandlers ==
  ASSUME TypeOK, ReportInv, NEW e \in Exec, Ordered(e),
         NEW c \in Conn, MarkStarted(c) \/ MarkFinished(c) \/ WriteExecution(c)
  PROVE  Ordered(e)'
<1>1. /\ UNCHANGED <<out, link>> /\ StartedFirst(out, e) /\ link \in Conn \cup {NoConn}
      /\ up \in [Conn -> Seq(Message)] /\ handler \in [Conn -> HandlerState]
      /\ \A d \in Conn : StartedFirst(up[d], e)
      /\ Idle.op = "IDLE"
  BY DEF MarkStarted, MarkFinished, WriteExecution, agentVars, TypeOK, AgentTypeOK, HubTypeOK,
         WireTypeOK, Ordered, Idle
<1>2. StartedFirst(out, e)'
  BY <1>1 DEF StartedFirst
<1> DEFINE m == Head(up[c])
<1>3. ASSUME NEW type, Receive(c, type)
      PROVE  /\ m \in Range(up[c]) /\ handler[c] = Idle /\ \A d \in Conn : StartedFirst(up[d], e)'
             /\ \A d \in Conn : Range(up'[d]) \subseteq Range(up[d])
             /\ SaysEnded(m, e) => \A n \in Range(up'[c]) : ~SaysStarted(n, e)
  <2>1. /\ up[c] # <<>> /\ up'[c] = Tail(up[c]) /\ \A d \in Conn \ {c} : up'[d] = up[d]
        /\ up[c] \in Seq(Message) /\ StartedFirst(up[c], e) /\ handler[c] = Idle
    BY <1>1, <1>3 DEF Receive
  <2>2. /\ StartedFirst(Tail(up[c]), e)
        /\ SaysEnded(m, e) => \A n \in Range(Tail(up[c])) : ~SaysStarted(n, e)
    BY <2>1, QueueOrder
  <2>3. m \in Range(up[c]) /\ Range(Tail(up[c])) \subseteq Range(up[c])
    BY <2>1, QueueRange
  <2>4. \A q : q = up'[c] => StartedFirst(q, e)
    BY <2>1, <2>2
  <2> QED
    BY <1>1, <2>1, <2>2, <2>3, <2>4 DEF StartedFirst
<1>4. CASE MarkStarted(c)
  <2>1. /\ Receive(c, "STARTED") /\ stored' = stored /\ m.type = "STARTED"
        /\ handler' \in {handler, [handler EXCEPT ![c] =
                                   [op |-> "START", id |-> m.id, status |-> "RUNNING"]]}
    BY <1>4 DEF MarkStarted, Receive, history
  <2>2. \A d \in Conn : /\ NoEnd(d, e) => NoEnd(d, e)'
                        /\ ~Ending(d, e) => ~Ending(d, e)'
    <3>1. \A d \in Conn : handler'[d] = handler[d] \/ handler'[d].op = "START"
      BY <1>1, <2>1
    <3> QED
      BY <1>3, <2>1, <3>1 DEF NoEnd, Ending
  <2>3. \A n \in Range(out') : SaysStarted(n, e) => e \notin stored' /\ \A d \in Conn : NoEnd(d, e)'
    BY <1>1, <2>1, <2>2 DEF Ordered
  <2>4. ASSUME link # NoConn, NEW n \in Range(up'[link]), SaysStarted(n, e)
        PROVE  e \notin stored' /\ ~Ending(link, e)' /\ \A d \in Conn \ {link} : NoEnd(d, e)'
    <3>1. link \in Conn /\ n \in Range(up[link])
      BY <1>1, <1>3, <2>1, <2>4
    <3>2. e \notin stored /\ ~Ending(link, e) /\ \A d \in Conn \ {link} : NoEnd(d, e)
      BY <2>4, <3>1 DEF Ordered
    <3> QED
      BY <1>1, <2>1, <2>2, <3>1, <3>2 DEF Ending
  <2>5. ASSUME link # NoConn, handler'[link].op = "START", handler'[link].id = e
        PROVE  e \notin stored' /\ \A d \in Conn \ {link} : NoEnd(d, e)'
    <3>1. link \in Conn
      BY <1>1, <2>5
    <3>2. CASE handler'[link] = handler[link]
      BY <2>1, <2>2, <2>5, <3>1, <3>2 DEF Ordered
    <3>3. CASE link = c /\ m.id = e
      <4>1. SaysStarted(m, e) /\ m \in Range(up[link])
        BY <1>3, <2>1, <3>3 DEF SaysStarted
      <4>2. e \notin stored /\ \A d \in Conn \ {link} : NoEnd(d, e)
        BY <2>5, <4>1 DEF Ordered
      <4> QED
        BY <2>1, <2>2, <4>2
    <3> QED
      BY <1>1, <2>1, <2>5, <3>1, <3>2, <3>3
  <2> QED
    BY <1>1, <1>2, <1>3, <2>1, <2>3, <2>4, <2>5 DEF Ordered, Ending
<1>5. CASE MarkFinished(c)
  <2>1. /\ Receive(c, "FINISHED") /\ stored' = stored /\ m.type = "FINISHED"
        /\ \A d \in Conn \ {c} : handler'[d] = handler[d]
        /\ \/ handler'[c] = handler[c]
           \/ handler'[c].op # "START" /\ handler'[c].id = m.id
    <3>1. \/ handler' = handler
          \/ \E op \in {"FINISH", "CREATE"} :
                handler' = [handler EXCEPT ![c] = [op |-> op, id |-> m.id, status |-> m.status]]
      BY <1>5 DEF MarkFinished
    <3> QED
      BY <1>1, <1>5, <3>1 DEF MarkFinished, Receive, history
  <2>2. \A d \in Conn \ {c} : NoEnd(d, e) => NoEnd(d, e)'
    BY <1>3, <2>1 DEF NoEnd, Ending
  <2>3. /\ NoEnd(c, e) => NoEnd(c, e)'
        /\ Ending(c, e)' => Ending(c, e) \/ SaysEnded(m, e)
    BY <1>3, <2>1 DEF NoEnd, Ending, SaysEnded
  <2>4. \A n \in Range(out') : SaysStarted(n, e) => e \notin stored' /\ \A d \in Conn : NoEnd(d, e)'
    BY <1>1, <2>1, <2>2, <2>3 DEF Ordered
  <2>5. ASSUME link # NoConn, NEW n \in Range(up'[link]), SaysStarted(n, e)
        PROVE  e \notin stored' /\ ~Ending(link, e)' /\ \A d \in Conn \ {link} : NoEnd(d, e)'
    <3>1. link \in Conn /\ n \in Range(up[link])
      BY <1>1, <1>3, <2>1, <2>5
    <3>2. e \notin stored /\ ~Ending(link, e) /\ \A d \in Conn \ {link} : NoEnd(d, e)
      BY <2>5, <3>1 DEF Ordered
    <3>3. \A d : d = link => ~Ending(d, e)'
      BY <1>3, <2>1, <2>3, <2>5, <3>1, <3>2 DEF Ending
    <3> QED
      BY <1>1, <2>1, <2>2, <2>3, <3>1, <3>2, <3>3 DEF Ending
  <2>6. ASSUME link # NoConn, handler'[link].op = "START", handler'[link].id = e
        PROVE  e \notin stored' /\ \A d \in Conn \ {link} : NoEnd(d, e)'
    <3>1. link \in Conn /\ handler'[link] = handler[link]
      BY <1>1, <2>1, <2>6
    <3> QED
      BY <2>1, <2>2, <2>3, <2>6, <3>1 DEF Ordered
  <2> QED
    BY <1>1, <1>2, <1>3, <2>1, <2>4, <2>5, <2>6 DEF Ordered, Ending
<1>6. CASE WriteExecution(c)
  <2> DEFINE h == handler[c]
  <2>1. /\ h.op \in {"START", "FINISH", "CREATE"} /\ up' = up
        /\ handler' = [handler EXCEPT ![c] = Idle]
        /\ stored' = stored \/ (h.status \in Terminal /\ stored' = stored \cup {h.id})
    BY <1>6 DEF WriteExecution
  <2>2. e \in stored' => e \in stored \/ Ending(c, e)
    BY <2>1, StatusKinds DEF ReportInv, HandlerBacked, Ending
  <2>3. \A d \in Conn : StartedFirst(up[d], e)'
    BY <1>1, <2>1 DEF StartedFirst
  <2>4. \A d \in Conn : handler'[d] = handler[d] \/ handler'[d].op \in {"IDLE", "HELLO"}
    BY <1>1, <2>1
  <2>5. CASE e \in stored' => e \in stored
    BY <1>1, <1>2, <2>1, <2>3, <2>4, <2>5, OrderedKept
  <2>6. CASE Ending(c, e)
    <3>1. ~NoEnd(c, e)
      BY <2>6 DEF NoEnd
    <3>2. \A n \in Range(out) : ~SaysStarted(n, e)
      BY <3>1 DEF Ordered
    <3>3. link # NoConn => /\ \A n \in Range(up[link]) : ~SaysStarted(n, e)
                           /\ ~(handler'[link].op = "START" /\ handler'[link].id = e)
      <4>1. link # NoConn => \A n \in Range(up[link]) : ~SaysStarted(n, e)
        BY <2>6, <3>1 DEF Ordered
      <4>2. CASE link = c
        BY <1>1, <2>1, <4>1, <4>2
      <4>3. CASE link \in Conn /\ link # c
        BY <1>1, <2>1, <3>1, <4>1, <4>3 DEF Ordered
      <4> QED
        BY <1>1, <4>2, <4>3
    <3> QED
      BY <1>1, <1>2, <2>1, <2>3, <3>2, <3>3 DEF Ordered
  <2> QED
    BY <2>2, <2>5, <2>6
<1> QED
  BY <1>4, <1>5, <1>6

(* Who is leaving, or has left, is in the middle of nothing.               *)
LEMMA GateStep ==
  ASSUME TypeOK, OrderInv, [Next]_vars
  PROVE  \A c \in Conn : gate'[c] \in {"free", "leaving"} => handler'[c] = Idle
<1> DEFINE Quiet == \A c \in Conn : gate'[c] \in {"free", "leaving"} => handler'[c] = Idle
<1>0. /\ gate \in [Conn -> {"free", "open", "closed", "leaving"}]
      /\ handler \in [Conn -> HandlerState]
      /\ \A c \in Conn : gate[c] \in {"free", "leaving"} => handler[c] = Idle
      /\ Idle.op = "IDLE"
  BY DEF TypeOK, HubTypeOK, OrderInv, Idle
<1>1. CASE gate' = gate /\ handler' = handler
  BY <1>0, <1>1
<1>2. CASE HubRestart
  BY <1>2 DEF HubRestart
<1>3. ASSUME NEW d \in Conn, Connect(d) \/ HubLeave(d) \/ HandleDisconnect(d) PROVE Quiet
  BY <1>0, <1>3 DEF Connect, HubLeave, HandleDisconnect
<1>4. ASSUME NEW d \in Conn, HandleHello(d) PROVE Quiet
  BY <1>0, <1>4 DEF HandleHello
<1>5. ASSUME NEW d \in Conn, MarkStarted(d) \/ MarkFinished(d) PROVE Quiet
  <2>1. gate' = gate /\ gate[d] = "open" /\ \A c \in Conn \ {d} : handler'[c] = handler[c]
    BY <1>0, <1>5 DEF MarkStarted, MarkFinished, Receive
  <2> QED
    BY <1>0, <2>1
<1>6. ASSUME NEW d \in Conn, SendHelloAck(d) \/ WriteExecution(d) PROVE Quiet
  <2>1. gate' = gate /\ handler' = [handler EXCEPT ![d] = Idle]
    BY <1>6 DEF SendHelloAck, WriteExecution
  <2> QED
    BY <1>0, <2>1
<1>7. CASE UNCHANGED vars
  BY <1>1, <1>7 DEF vars
<1> QED
  BY <1>1, <1>2, <1>3, <1>4, <1>5, <1>6, <1>7
  DEF Next, WriteLoop, AgentDisconnect, AgentCrash, AgentStart, OnHelloAck, UploadExecution,
      OnRunExecution, OnExecutionAck, MarkSynced, OnExecutionNack, CreateExecution,
      DispatchToAgent, TriggerSchedule, FinishExecution, ReportResult, hubVars

LEMMA OrderStep ==
  TypeOK /\ ReportInv /\ ResultInv /\ OrderInv /\ [Next]_vars => OrderInv'
<1> SUFFICES ASSUME TypeOK, ReportInv, ResultInv, OrderInv, [Next]_vars PROVE OrderInv'
  OBVIOUS
<1>2. ASSUME NEW e \in Exec PROVE Ordered(e)'
  <2>1. Ordered(e)
    BY DEF OrderInv
  <2> QED
    BY <2>1, OrderedCarry, OrderedConnect, OrderedWriteLoop, OrderedRun, OrderedHandlers DEF Next
<1> QED
  BY <1>2, GateStep DEF OrderInv

LEMMA OrderInvHolds == Spec => []OrderInv
BY ResultInit, OrderStep, ResultInvHolds, ReportInvHolds, TypeCorrect, PTL DEF Spec

(* A result is only overwritten by a handler that read the row before it   *)
(* was there: MarkStarted on a connection the Agent has given up,          *)
(* MarkFinished of a RUNNING upload, or MarkFinished of a second result.   *)
THEOREM HubResultIsKept == Spec => HubResultKept
<1> DEFINE Undoes(c, e) ==
             \/ handler[c].op = "START" /\ handler[c].id = e /\ c # link
             \/ /\ handler[c].op = "FINISH" /\ handler[c].id = e /\ e \in early
                /\ handler[c].status = "RUNNING" \/ {row[e], row'[e]} \subseteq results[e]
           Kept == \A e \in Exec : row[e] \in Terminal /\ row'[e] # row[e] =>
                      \E c \in Conn : Undoes(c, e)
<1>1. TypeOK /\ ReportInv /\ ResultInv /\ OrderInv /\ [Next]_vars => [Kept]_vars
  <2> SUFFICES ASSUME TypeOK, ReportInv, ResultInv, OrderInv, Next,
                      NEW e \in Exec, row[e] \in Terminal, row'[e] # row[e]
               PROVE  \E c \in Conn : Undoes(c, e)
    OBVIOUS
  <2>0. /\ row \in [Exec -> HubStatus] /\ handler \in [Conn -> HandlerState]
        /\ None \notin Terminal /\ "PENDING" \notin Terminal
    BY DEF TypeOK, HubTypeOK, Terminal, None
  <2>2. PICK c \in Conn : WriteExecution(c)
    <3>1. ASSUME NEW d \in Exec, CreateExecution(d) PROVE FALSE
      BY <2>0, <3>1 DEF CreateExecution
    <3>2. ASSUME NEW d \in Exec, DispatchToAgent(d) PROVE FALSE
      <4>1. row[d] = "PENDING"
        BY <3>2 DEF DispatchToAgent, ReportInv, RowBacked
      <4> QED
        BY <2>0, <3>2, <4>1 DEF DispatchToAgent
    <3> QED
      BY <3>1, <3>2
      DEF Next, WriteLoop, AgentDisconnect, AgentCrash, AgentStart, HubRestart, OnHelloAck,
          UploadExecution, OnRunExecution, OnExecutionAck, MarkSynced, OnExecutionNack, Connect,
          HubLeave, HandleDisconnect, HandleHello, SendHelloAck, MarkStarted, MarkFinished,
          TriggerSchedule, FinishExecution, ReportResult, hubVars
  <2> DEFINE h == handler[c]
  <2>3. /\ h.op \in {"START", "FINISH", "CREATE"} /\ h.id = e /\ h.status # row[e]
        /\ h.op # "CREATE"
    <3>1. h.op \in {"START", "FINISH", "CREATE"} /\ h.id \in Exec
      BY <2>0, <2>2, StateFields DEF WriteExecution
    <3> QED
      BY <2>0, <2>2, <3>1 DEF WriteExecution
  <2>4. journal[e].status # None /\ e \in stored
    <3>1. journal[e].status # None
      BY <2>3 DEF ReportInv, HandlerBacked, ReportBacked
    <3> QED
      BY <3>1 DEF ReportInv, RowBacked, Unreached
  <2>5. CASE h.op = "FINISH" /\ h.status = "RUNNING"
    <3>1. e \in early
      BY <2>3, <2>5, StatusKinds DEF ReportInv, HandlerBacked, ReportBacked
    <3> QED
      BY <2>3, <2>5, <3>1
  <2>6. CASE h.op = "FINISH" /\ h.status # "RUNNING"
    <3>1. h.status \in Terminal /\ row'[e] = h.status
      <4>1. h.status \in Reported
        BY <2>0, <2>3, StateFields
      <4> QED
        BY <2>0, <2>2, <2>3, <2>6, <4>1 DEF WriteExecution, Reported
    <3>2. h.status \in results[e]
      BY <2>3, <2>6, <3>1 DEF ResultInv, TransitMade, HandlerMade, Made
    <3>3. row[e] \in results[e]
      BY <2>4 DEF ResultInv, HubResultBacked
    <3>4. e \in early
      BY <2>3, <3>2, <3>3 DEF ResultInv, JournalMade
    <3> QED
      BY <2>3, <2>6, <3>1, <3>2, <3>3, <3>4
  <2>7. CASE h.op = "START"
    <3>1. c # link
      BY <2>3, <2>4, <2>7, ConstantsAssumption DEF OrderInv, Ordered
    <3> QED
      BY <2>3, <2>7, <3>1
  <2> QED
    BY <2>3, <2>5, <2>6, <2>7
<1> QED
  BY <1>1, OrderInvHolds, ResultInvHolds, ReportInvHolds, TypeCorrect, PTL DEF Spec, HubResultKept

=============================================================================
