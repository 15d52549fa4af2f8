-------------------------- MODULE ConfigSyncProofs --------------------------
(***************************************************************************)
(* Invariants of configuration synchronisation for every set of objects,   *)
(* tables, bounds and faults, failing statements among them, and that it   *)
(* implements DesiredState when no object is created under the ID of a     *)
(* deleted one.                                                            *)
(***************************************************************************)
EXTENDS ConfigSync, SequenceTheorems, TLAPS

-----------------------------------------------------------------------------
(* The inductive invariant. *)

(* What the Agent has said of its revision, and what the Hub has recorded  *)
(* of that, is at most its revision.                                       *)
Said == {m \in UpMessage :
            m.type \in {"HEARTBEAT", "REVISION_CHECK", "SYNC_ACK"} => m.rev <= localRev}
Reporting ==
    /\ up \in Seq(Said) /\ late \in Seq(Said)
    /\ node.rev <= localRev
    /\ tick # None => tick.rev <= localRev

(* An answer is not older than the Agent's copy.  Whatever was not touched *)
(* since its revision is in it as the Hub wants it, but for what was cut,  *)
(* and its tombstones are of objects that were once deleted.               *)
Answer(m) ==
    /\ localRev <= m.rev /\ m.rev <= rev
    /\ \A o \in m.tombs : tomb[o] # 0
    /\ \A o \in Obj : touched[o] <= m.rev => AsWanted(o, m.objs, m.cut)

(* So it is while the answer is built, for the tables read; its labels are *)
(* the node's if nothing labelled was touched since its revision.          *)
BuildingAnswer(b) ==
    /\ localRev <= b.rev /\ b.rev <= rev
    /\ \A o \in Obj : touched[o] <= b.rev =>
        /\ b.step > 0 /\ o \in Labelled => b.label = label
        /\ b.step > Table[o] => AsWanted(o, b.objs, b.cut)

IsAnswer(m) == m.type = "SYNC_RESPONSE"
Underway == {m \in DownMessage : IsAnswer(m) => Answer(m)}
Answering ==
    /\ \A o \in Obj : touched[o] <= rev
    /\ down \in Seq(Underway)
    /\ builder.op = "BUILD" => BuildingAnswer(builder)
    /\ applying.op = "APPLY" => Answer(applying)

(* Answers stay in order, from the handler to the Agent's dispatch loop.   *)
InOrder ==
    /\ \A i, j \in DOMAIN down :
        i < j /\ IsAnswer(down[i]) /\ IsAnswer(down[j]) => down[i].rev <= down[j].rev
    /\ \A i \in DOMAIN down : IsAnswer(down[i]) =>
        /\ builder.op = "BUILD" => down[i].rev <= builder.rev
        /\ applying.op = "APPLY" => applying.rev <= down[i].rev
    /\ builder.op = "BUILD" /\ applying.op = "APPLY" => applying.rev <= builder.rev

(* The Agent's copy, but for objects created under a deleted one's ID.     *)
NeverReused(o) == tomb[o] # 0 => hub[o] = 0
Copied ==
    /\ localRev <= rev
    /\ \A o \in Obj : NeverReused(o) /\ touched[o] <= localRev => AsWanted(o, local, missing)

(* The READY flag survives from an earlier connection only until HELLO_ACK.*)
Gated == ready /\ greeted => reconciled

SyncInv ==
    /\ TypeOK
    /\ Reporting /\ Answering /\ InOrder /\ Copied
    /\ ArmedSchedulesStored /\ Gated /\ RunOnlyWhenReconciled

NoneReused == ~ReuseIds => \A o \in Obj : NeverReused(o)

-----------------------------------------------------------------------------
(* Facts about the constants and the messages. *)

LEMMA Revisions == Revision \subseteq Nat /\ 0 \in Revision /\ NotifyAll \in Revision
BY ConstantsAssumption DEF Revision, NotifyAll

LEMMA CopiesAre == Objects \subseteq Copies
BY DEF Objects, Copies

(* What an operation in progress is, told by its name. *)
LEMMA Kinds ==
  /\ Idle.op = "IDLE" /\ Greeting.op = "GREET" /\ None.type = "NONE" /\ None \notin Tick
  /\ \A b \in {Idle, Greeting} \cup Building :
        b.op \in {"IDLE", "GREET", "BUILD"} /\ (b.op = "BUILD" => b \in Building)
  /\ \A a \in {Idle} \cup Applying :
        a.op \in {"IDLE", "APPLY"} /\ (a.op = "APPLY" => a \in Applying)
BY DEF Idle, Greeting, None, Tick, Building, Applying

LEMMA Fields ==
  /\ \A b \in Building : /\ b.since \in Revision /\ b.rev \in Revision /\ b.label \in BOOLEAN
                         /\ b.objs \in Copies /\ b.cut \subseteq Single
                         /\ b.step \in 0..Tables + 1 /\ b.op = "BUILD"
  /\ \A a \in Applying : /\ a.rev \in Revision /\ a.objs \in Copies /\ a.cut \subseteq Single
                         /\ a.tombs \subseteq Obj /\ a.op = "APPLY"
  /\ \A t \in Tick : t \in UpMessage /\ t.rev \in Revision
BY DEF Building, Applying, Tick, UpMessage

LEMMA UpFields ==
  ASSUME NEW m \in UpMessage
  PROVE  /\ m.type = "SYNC_REQUEST" => m.since \in Revision
         /\ m.type = "SYNC_ACK" => m.rev \in Revision /\ m.ok \in BOOLEAN
         /\ m.type \in {"HEARTBEAT", "REVISION_CHECK"} => m.rev \in Revision
BY DEF UpMessage, Tick

LEMMA DownFields ==
  ASSUME NEW m \in DownMessage
  PROVE  /\ m.type \in {"CHANGE", "REVISION_CHECK_ACK"} => m.rev \in Revision
         /\ m.type = "SYNC_RESPONSE" =>
                /\ m.rev \in Revision /\ m.objs \in Copies
                /\ m.cut \subseteq Single /\ m.tombs \subseteq Obj
BY DEF DownMessage

LEMMA UpParts ==
  /\ [type |-> "HELLO"] \in UpMessage
  /\ \A r \in Revision, ok \in BOOLEAN :
        /\ Request(r) \in UpMessage /\ Request(r).type = "SYNC_REQUEST"
        /\ Ack(r, ok) \in UpMessage /\ Ack(r, ok).rev = r /\ Ack(r, ok).type = "SYNC_ACK"
        /\ \A type \in {"HEARTBEAT", "REVISION_CHECK"} : [type |-> type, rev |-> r] \in Tick
BY DEF UpMessage, Tick, Request, Ack

LEMMA DownParts ==
  /\ [type |-> "HELLO_ACK"] \in DownMessage /\ [type |-> "RUN"] \in DownMessage
  /\ \A r \in Revision :
        /\ [type |-> "CHANGE", rev |-> r] \in DownMessage
        /\ [type |-> "REVISION_CHECK_ACK", rev |-> r] \in DownMessage
        /\ \A objs \in Copies, cut \in SUBSET Single, tombs \in SUBSET Obj :
              [type |-> "SYNC_RESPONSE", rev |-> r, objs |-> objs, cut |-> cut, tombs |-> tombs]
                  \in DownMessage
BY DEF DownMessage

(* What the Hub wants is a state of the objects. *)
LEMMA WantedIs ==
  ASSUME TypeOK, NEW o \in Obj, NEW labelled \in BOOLEAN
  PROVE  Wanted(o, labelled) \in Revision
BY Revisions DEF Wanted, TypeOK, HubTypeOK, Objects

LEMMA DesiredIs ==
  ASSUME TypeOK
  PROVE  Desired \in Objects /\ \A o \in Obj : Desired[o] = Wanted(o, label)
BY WantedIs DEF Desired, Objects, TypeOK, HubTypeOK

(* Taking the first message, and losing some, leaves a queue. *)
LEMMA TailIs ==
  ASSUME NEW S, NEW q \in Seq(S), q # <<>>
  PROVE  /\ Head(q) \in S /\ Tail(q) \in Seq(S)
         /\ 1 \in DOMAIN q /\ Head(q) = q[1]
         /\ \A i \in DOMAIN Tail(q) : i + 1 \in DOMAIN q /\ Tail(q)[i] = q[i + 1]
         /\ DOMAIN Tail(q) \subseteq Nat
OBVIOUS

LEMMA AppendIs ==
  ASSUME NEW S, NEW q \in Seq(S), NEW m \in S
  PROVE  /\ Append(q, m) \in Seq(S)
         /\ \A i \in DOMAIN Append(q, m) :
              \/ i = Len(q) + 1 /\ Append(q, m)[i] = m
              \/ i \in DOMAIN q /\ i <= Len(q) /\ Append(q, m)[i] = q[i]
         /\ Len(q) \in Nat
OBVIOUS

LEMMA PartIs ==
  ASSUME NEW S, NEW q \in Seq(S), NEW i \in 1..Len(q) + 1, NEW j \in 0..Len(q)
  PROVE  SubSeq(q, i, j) \in Seq(S)
<1>1. \A k \in i..j : q[k] \in S
  OBVIOUS
<1> QED
  BY <1>1, SubSeqProperties

-----------------------------------------------------------------------------
(* Types. *)

LEMMA TypeInit == Init => TypeOK
<1> SUFFICES ASSUME Init PROVE TypeOK
  OBVIOUS
<1>1. /\ [o \in Obj |-> 0] \in Objects /\ [o \in Obj |-> 0] \in Copies
      /\ 0 \in 0..MaxFaults
  BY Revisions, ConstantsAssumption DEF Objects, Copies
<1>2. HubTypeOK
  BY <1>1, Revisions DEF Init, HubTypeOK
<1>3. AgentTypeOK
  BY <1>1, Revisions DEF Init, AgentTypeOK
<1>4. WireTypeOK
  <2>1. <<>> \in Seq(UpMessage) /\ <<>> \in Seq(DownMessage)
    OBVIOUS
  <2> QED
    BY <1>1, <2>1 DEF Init, WireTypeOK
<1>5. HistoryTypeOK
  BY <1>1 DEF Init, HistoryTypeOK
<1> QED
  BY <1>2, <1>3, <1>4, <1>5 DEF TypeOK

LEMMA FaultIs ==
  ASSUME TypeOK, Fault \/ NoFault
  PROVE  faults' \in 0..MaxFaults
BY ConstantsAssumption DEF TypeOK, WireTypeOK, Fault, NoFault

LEMMA SendIs ==
  ASSUME TypeOK, NEW S, up \in Seq(S), NEW m \in S, Send(m)
  PROVE  up' \in Seq(S) /\ faults' \in 0..MaxFaults
<1>1. faults' \in 0..MaxFaults
  BY FaultIs DEF Send
<1> QED
  BY <1>1, AppendIs DEF Send

LEMMA ReplyIs ==
  ASSUME TypeOK, NEW m \in DownMessage, Reply(m)
  PROVE  down' \in Seq(DownMessage)
BY AppendIs DEF Reply, TypeOK, WireTypeOK

LEMMA CommitTypes ==
  ASSUME TypeOK, NEW concerned, NEW announcement \in Revision \cup {rev + 1},
         Commit(concerned, announcement), hub' \in Objects, tomb' \in Objects, label' \in BOOLEAN
  PROVE  TypeOK'
<1>1. rev' = rev + 1 /\ rev' \in Revision
  BY ConstantsAssumption DEF Commit, Revision, TypeOK, HubTypeOK
<1>2. unnotified' \subseteq Revision
  BY <1>1 DEF Commit, TypeOK, HubTypeOK
<1>3. touched' \in Objects
  BY <1>1 DEF Commit, Objects, TypeOK, HistoryTypeOK
<1>4. HubTypeOK'
  BY <1>1, <1>2 DEF Commit, TypeOK, HubTypeOK
<1>5. AgentTypeOK'
  BY DEF Commit, agentVars, agentData, TypeOK, AgentTypeOK
<1>6. WireTypeOK'
  BY DEF Commit, wire, TypeOK, WireTypeOK
<1>7. HistoryTypeOK'
  BY <1>3 DEF Commit, TypeOK, HistoryTypeOK
<1> QED
  BY <1>4, <1>5, <1>6, <1>7 DEF TypeOK

LEMMA OperatorTypes ==
  ASSUME TypeOK, (\E o \in Obj : PutObject(o) \/ DeleteObject(o)) \/ SetLabels
  PROVE  TypeOK'
<1>1. rev < MaxRev => rev + 1 \in Revision
  BY ConstantsAssumption DEF Revision, TypeOK, HubTypeOK
<1>2. CASE \E o \in Obj : PutObject(o)
  <2>1. PICK o \in Obj : PutObject(o)
    BY <1>2
  <2>2. rev + 1 \in Revision
    BY <1>1, <2>1 DEF PutObject, Commit
  <2>3. hub' \in Objects /\ tomb' \in Objects /\ label' \in BOOLEAN
    BY <2>1, <2>2 DEF PutObject, Objects, TypeOK, HubTypeOK
  <2> QED
    BY <2>1, <2>3, CommitTypes DEF PutObject
<1>3. CASE \E o \in Obj : DeleteObject(o)
  <2>1. PICK o \in Obj : DeleteObject(o)
    BY <1>3
  <2>2. rev + 1 \in Revision
    BY <1>1, <2>1 DEF DeleteObject, Commit
  <2>3. hub' \in Objects /\ tomb' \in Objects /\ label' \in BOOLEAN
    BY <2>1, <2>2, Revisions DEF DeleteObject, Objects, TypeOK, HubTypeOK
  <2> QED
    BY <2>1, <2>3, CommitTypes DEF DeleteObject
<1>4. CASE SetLabels
  <2>1. hub' \in Objects /\ tomb' \in Objects /\ label' \in BOOLEAN
    BY <1>4 DEF SetLabels, TypeOK, HubTypeOK
  <2> QED
    BY <1>4, <2>1, CommitTypes, Revisions DEF SetLabels
<1> QED
  BY <1>2, <1>3, <1>4

LEMMA LinkTypes ==
  ASSUME TypeOK, Connect \/ Disconnect \/ HubRestart \/ AgentRestart
  PROVE  TypeOK'
<1>1. <<>> \in Seq(UpMessage) /\ <<>> \in Seq(DownMessage)
  OBVIOUS
<1>2. CASE Connect
  <2>1. up' \in Seq(UpMessage)
    <3>1. <<[type |-> "HELLO"]>> \in Seq(UpMessage)
      BY UpParts
    <3> QED
      BY <1>2, <3>1, ConcatProperties DEF Connect, TypeOK, WireTypeOK
  <2>2. HubTypeOK' /\ AgentTypeOK'
    BY <1>2 DEF Connect, hubVars, hubData, agentVars, agentData, TypeOK, HubTypeOK, AgentTypeOK
  <2>3. WireTypeOK' /\ HistoryTypeOK'
    BY <1>2, <2>1 DEF Connect, TypeOK, WireTypeOK, HistoryTypeOK
  <2> QED
    BY <2>2, <2>3 DEF TypeOK
<1>3. CASE Disconnect
  <2>1. PICK i \in 0..Len(up), j \in 0..Len(up) :
            /\ late' = IF session THEN SubSeq(up, 1, i) ELSE <<>>
            /\ up' = SubSeq(up, j + 1, Len(up))
    <3>1. PICK i \in 0..Len(up) : \E j \in i..Len(up) :
              /\ late' = IF session THEN SubSeq(up, 1, i) ELSE <<>>
              /\ up' = SubSeq(up, j + 1, Len(up))
      BY <1>3 DEF Disconnect
    <3>2. PICK j \in i..Len(up) : /\ late' = IF session THEN SubSeq(up, 1, i) ELSE <<>>
                                  /\ up' = SubSeq(up, j + 1, Len(up))
      BY <3>1
    <3>3. j \in 0..Len(up)
      BY LenProperties DEF TypeOK, WireTypeOK
    <3> QED
      BY <3>2, <3>3
  <2>2. Len(up) \in Nat /\ j + 1 \in 1..Len(up) + 1
    BY LenProperties DEF TypeOK, WireTypeOK
  <2>3. up' \in Seq(UpMessage) /\ late' \in Seq(UpMessage)
    BY <1>1, <2>1, <2>2, PartIs DEF TypeOK, WireTypeOK
  <2>4. HubTypeOK' /\ AgentTypeOK' /\ HistoryTypeOK'
    BY <1>3 DEF Disconnect, Broken, hubData, agentVars, agentData, history,
                TypeOK, HubTypeOK, AgentTypeOK, HistoryTypeOK
  <2>5. WireTypeOK'
    BY <1>1, <1>3, <2>3, FaultIs DEF Disconnect, Broken, TypeOK, WireTypeOK
  <2> QED
    BY <2>4, <2>5 DEF TypeOK
<1>4. CASE HubRestart
  <2>1. HubTypeOK' /\ AgentTypeOK' /\ HistoryTypeOK'
    BY <1>4 DEF HubRestart, Broken, hubData, agentVars, agentData, history,
                TypeOK, HubTypeOK, AgentTypeOK, HistoryTypeOK
  <2>2. WireTypeOK'
    BY <1>1, <1>4, FaultIs DEF HubRestart, Broken, TypeOK, WireTypeOK
  <2> QED
    BY <2>1, <2>2 DEF TypeOK
<1>5. CASE AgentRestart
  <2>1. HubTypeOK' /\ AgentTypeOK' /\ HistoryTypeOK'
    BY <1>5 DEF AgentRestart, Broken, hubData, Armed,
                TypeOK, HubTypeOK, AgentTypeOK, HistoryTypeOK
  <2>2. WireTypeOK'
    BY <1>1, <1>5, FaultIs DEF AgentRestart, Broken, TypeOK, WireTypeOK
  <2> QED
    BY <2>1, <2>2 DEF TypeOK
<1> QED
  BY <1>2, <1>3, <1>4, <1>5

(* A message that the Hub has read. *)
LEMMA ReceiveIs ==
  ASSUME TypeOK, NEW S, up \in Seq(S), NEW type, Receive(type)
  PROVE  up' \in Seq(S) /\ Head(up) \in S /\ Head(up).type = type
BY TailIs DEF Receive, TypeOK, WireTypeOK

LEMMA ReceiveLateIs ==
  ASSUME TypeOK, NEW S, late \in Seq(S), NEW type, ReceiveLate(type)
  PROVE  late' \in Seq(S) /\ Head(late) \in S /\ Head(late).type = type
BY TailIs DEF ReceiveLate, TypeOK, WireTypeOK

LEMMA ReportTypes ==
  ASSUME TypeOK, HandleHeartbeat \/ HandleRevisionCheck \/ HandleSyncAck
  PROVE  TypeOK'
<1> DEFINE reports == {"HEARTBEAT", "REVISION_CHECK", "SYNC_ACK"}
           recorded(m) == \/ node' = node
                          \/ \E status \in {"synced", "outdated", "error"} :
                                node' = [rev |-> m.rev, status |-> status]
<1>1. \E m \in UpMessage : m.type \in reports /\ recorded(m)
  <2>1. up \in Seq(UpMessage) /\ late \in Seq(UpMessage)
    BY DEF TypeOK, WireTypeOK
  <2>2. ASSUME NEW type \in reports, Receive(type), recorded(Head(up))
        PROVE  \E m \in UpMessage : m.type \in reports /\ recorded(m)
    BY <2>1, <2>2, ReceiveIs
  <2>3. ASSUME NEW type \in reports, ReceiveLate(type), recorded(Head(late))
        PROVE  \E m \in UpMessage : m.type \in reports /\ recorded(m)
    BY <2>1, <2>3, ReceiveLateIs
  <2>4. CASE HandleHeartbeat
    BY <2>2, <2>3, <2>4 DEF HandleHeartbeat, HeartbeatRecorded, Record
  <2>5. CASE HandleRevisionCheck
    BY <2>2, <2>3, <2>5 DEF HandleRevisionCheck, CheckRecorded, Record
  <2>6. CASE HandleSyncAck
    BY <2>2, <2>3, <2>6 DEF HandleSyncAck, AckRecorded, Record
  <2> QED
    BY <2>4, <2>5, <2>6
<1>2. node' \in [rev : Revision, status : {"new", "synced", "outdated", "error"}]
  BY <1>1, UpFields DEF TypeOK, HubTypeOK
<1>3. up' \in Seq(UpMessage) /\ late' \in Seq(UpMessage)
  <2>1. up \in Seq(UpMessage) /\ late \in Seq(UpMessage)
    BY DEF TypeOK, WireTypeOK
  <2> QED
    BY <2>1, ReceiveIs, ReceiveLateIs DEF HandleHeartbeat, HandleRevisionCheck, HandleSyncAck
<1>4. down' \in Seq(DownMessage)
  <2>1. down \in Seq(DownMessage) /\ [type |-> "REVISION_CHECK_ACK", rev |-> rev] \in DownMessage
    BY DownParts DEF TypeOK, WireTypeOK, HubTypeOK
  <2> QED
    BY <2>1, ReplyIs DEF HandleHeartbeat, HandleRevisionCheck, HandleSyncAck
<1>5. UNCHANGED Unreported /\ faults' \in 0..MaxFaults
  BY FaultIs DEF HandleHeartbeat, HandleRevisionCheck, HandleSyncAck,
                 HeartbeatRecorded, CheckRecorded, AckRecorded, Record
<1>6. HubTypeOK' /\ AgentTypeOK'
  BY <1>2, <1>5 DEF Unreported, hubData, agentVars, agentData, TypeOK, HubTypeOK, AgentTypeOK
<1>7. WireTypeOK' /\ HistoryTypeOK'
  BY <1>3, <1>4, <1>5 DEF Unreported, history, TypeOK, WireTypeOK, HistoryTypeOK
<1> QED
  BY <1>6, <1>7 DEF TypeOK

(* Announcements, greetings and executions. *)
LEMMA HubSendTypes ==
  ASSUME TypeOK, \/ \E n \in unnotified : Notify(n)
                 \/ HandleHello \/ SendHelloAck \/ DispatchToAgent
  PROVE  TypeOK'
<1>1. down' \in Seq(DownMessage)
  <2>1. down \in Seq(DownMessage) /\ rev \in Revision
    BY DEF TypeOK, WireTypeOK, HubTypeOK
  <2>2. ASSUME NEW n \in unnotified, Notify(n) PROVE down' \in Seq(DownMessage)
    <3> DEFINE m == [type |-> "CHANGE", rev |-> IF n = NotifyAll THEN rev ELSE n]
    <3>1. m \in DownMessage
      BY <2>1, DownParts DEF TypeOK, HubTypeOK
    <3> QED
      BY <2>1, <2>2, <3>1, ReplyIs DEF Notify
  <2>3. CASE HandleHello
    BY <2>1, <2>3 DEF HandleHello
  <2>4. CASE SendHelloAck
    BY <2>4, DownParts, ReplyIs DEF SendHelloAck
  <2>5. CASE DispatchToAgent
    BY <2>5, DownParts, ReplyIs DEF DispatchToAgent
  <2> QED
    BY <2>2, <2>3, <2>4, <2>5
<1>2. up' \in Seq(UpMessage)
  <2>1. up \in Seq(UpMessage)
    BY DEF TypeOK, WireTypeOK
  <2> QED
    BY <2>1, ReceiveIs DEF Notify, HandleHello, SendHelloAck, DispatchToAgent
<1>3. /\ UNCHANGED <<hubData, node, agentVars, link, late, touched, missing, reloaded,
                      reconciled, greeted>>
      /\ faults' \in 0..MaxFaults
  BY FaultIs DEF Notify, HandleHello, SendHelloAck, DispatchToAgent, hubVars, history,
                 TypeOK, WireTypeOK
<1>4. /\ unnotified' \subseteq Revision /\ session' \in BOOLEAN
      /\ builder' \in {Idle, Greeting} \cup Building
      /\ run' \in {"none", "sent", "accepted", "overtook", "blocked"}
  BY DEF Notify, HandleHello, SendHelloAck, DispatchToAgent, hubVars, history,
         TypeOK, HubTypeOK, HistoryTypeOK
<1>5. HubTypeOK' /\ AgentTypeOK'
  BY <1>3, <1>4 DEF hubData, agentVars, agentData, TypeOK, HubTypeOK, AgentTypeOK
<1>6. WireTypeOK' /\ HistoryTypeOK'
  BY <1>1, <1>2, <1>3, <1>4 DEF TypeOK, WireTypeOK, HistoryTypeOK
<1> QED
  BY <1>5, <1>6 DEF TypeOK

(* The tombstones of an answer are of objects that were once deleted.      *)
LEMMA TombstonesAre ==
  ASSUME TypeOK, NEW since \in Revision, NEW current
  PROVE  \A tombs \in {TombstonesSince(since, current), Buried(since), {}} :
            tombs \subseteq Obj /\ \A o \in tombs : tomb[o] # 0
<1>1. since \in Nat /\ \A o \in Obj : tomb[o] \in Nat
  BY Revisions DEF TypeOK, HubTypeOK, Objects
<1>2. \A o \in Buried(since) : o \in Obj /\ tomb[o] > since
  BY DEF Buried
<1>3. TombstonesSince(since, current) \subseteq Buried(since)
  BY DEF TombstonesSince
<1> QED
  BY <1>1, <1>2, <1>3

(* What a SELECT reads, with what its failures leave out of it.            *)
Read(out, bare) ==
    [o \in Obj |-> IF Table[o] # builder.step THEN builder.objs[o]
                   ELSE IF o \in out THEN 0
                   ELSE IF o \in bare THEN Stripped
                   ELSE Wanted(o, builder.label)]

LEMMA ReadIs ==
  ASSUME TypeOK, ReadTable
  PROVE  \E out \in SUBSET Single, bare \in SUBSET Single :
            /\ builder \in Building /\ builder.step \in Nat /\ builder.step \in 1..Tables
            /\ builder' \in Building
            /\ builder'.rev = builder.rev /\ builder'.label = builder.label
            /\ builder'.step = builder.step + 1
            /\ builder'.objs = Read(out, bare) /\ builder'.cut = builder.cut \cup out \cup bare
<1>1. builder \in Building /\ builder.step \in 1..Tables /\ Tables \in Nat
  BY Kinds, ConstantsAssumption DEF ReadTable, TypeOK, HubTypeOK
<1>2. PICK out \in SUBSET Exposed, bare \in SUBSET (Exposed \cap Packaged) :
          builder' = [builder EXCEPT !.objs = Read(out, bare),
                                     !.cut = builder.cut \cup out \cup bare,
                                     !.step = builder.step + 1]
  BY DEF ReadTable, Read
<1>3. out \subseteq Single /\ bare \subseteq Single
  BY <1>2 DEF Exposed
<1>4. Read(out, bare) \in Copies
  <2>1. builder.label \in BOOLEAN /\ builder.objs \in Copies /\ 0 \in Revision
    BY <1>1, Fields, Revisions
  <2>2. \A o \in Obj : Wanted(o, builder.label) \in Revision /\ builder.objs[o] \in Revision \cup {Stripped}
    BY <2>1, WantedIs DEF Copies
  <2> QED
    BY <2>1, <2>2 DEF Read, Copies
<1>5. builder.step + 1 \in 0..Tables + 1 /\ builder.cut \cup out \cup bare \subseteq Single
  BY <1>1, <1>3, Fields
<1>6. /\ builder' \in Building
      /\ builder'.rev = builder.rev /\ builder'.label = builder.label
      /\ builder'.step = builder.step + 1
      /\ builder'.objs = Read(out, bare) /\ builder'.cut = builder.cut \cup out \cup bare
  BY <1>1, <1>2, <1>4, <1>5 DEF Building
<1> QED
  BY <1>1, <1>3, <1>6

LEMMA AnswerTypes ==
  ASSUME TypeOK, HandleSyncRequest \/ ReadNode \/ ReadTable \/ AbandonSync \/ SendSyncResponse
  PROVE  TypeOK'
<1> USE DEF Building
<1>1. /\ rev \in Revision /\ label \in BOOLEAN /\ Tables \in Nat /\ 0 \in Revision
      /\ up \in Seq(UpMessage) /\ late \in Seq(UpMessage) /\ down \in Seq(DownMessage)
  BY ConstantsAssumption, Revisions DEF TypeOK, HubTypeOK, WireTypeOK
<1>2. builder.op = "BUILD" => builder \in Building
  BY Kinds DEF TypeOK, HubTypeOK
<1>3. builder' \in {Idle, Greeting} \cup Building
  <2>1. CASE HandleSyncRequest
    <3>1. CASE Receive("SYNC_REQUEST")
      <4>1. Head(up) \in UpMessage /\ Head(up).type = "SYNC_REQUEST"
        BY <1>1, <3>1, ReceiveIs
      <4>2. Head(up).since \in Revision
        BY <4>1, UpFields
      <4>3. [o \in Obj |-> 0] \in Copies
        BY <1>1 DEF Copies
      <4>4. [op |-> "BUILD", since |-> Head(up).since, rev |-> rev, label |-> FALSE,
             objs |-> [o \in Obj |-> 0], cut |-> {}, step |-> 0] \in Building
        BY <1>1, <4>2, <4>3
      <4>5. builder' \in {[op |-> "BUILD", since |-> Head(up).since, rev |-> rev, label |-> FALSE,
             objs |-> [o \in Obj |-> 0], cut |-> {}, step |-> 0], builder}
        BY <2>1 DEF HandleSyncRequest, Unreported
      <4> QED
        BY <4>4, <4>5 DEF TypeOK, HubTypeOK
    <3>2. CASE ~Receive("SYNC_REQUEST")
      BY <2>1, <3>2 DEF HandleSyncRequest, Unreported, TypeOK, HubTypeOK
    <3> QED
      BY <3>1, <3>2
  <2>2. CASE ReadNode
    <3>1. builder \in Building /\ 1 \in 0..Tables + 1
      BY <1>1, <1>2, <2>2 DEF ReadNode
    <3> QED
      BY <1>1, <2>2, <3>1 DEF ReadNode
  <2>3. CASE ReadTable
    BY <2>3, ReadIs
  <2>4. CASE SendSyncResponse \/ AbandonSync
    BY <2>4 DEF SendSyncResponse, AbandonSync
  <2> QED
    BY <2>1, <2>2, <2>3, <2>4
<1>4. down' \in Seq(DownMessage)
  <2>1. CASE SendSyncResponse
    <3> DEFINE m(tombs) == [type |-> "SYNC_RESPONSE", rev |-> builder.rev, objs |-> builder.objs,
                            cut |-> builder.cut, tombs |-> tombs]
    <3>1. builder \in Building
      BY <1>2, <2>1 DEF SendSyncResponse
    <3>2. PICK tombs \in {TombstonesSince(builder.since, builder.rev), Buried(builder.since), {}} :
              Reply(m(tombs))
      BY <2>1 DEF SendSyncResponse
    <3>3. m(tombs) \in DownMessage
      BY <3>1, DownParts, TombstonesAre, Fields
    <3> QED
      BY <3>2, <3>3, ReplyIs
  <2>2. CASE ~SendSyncResponse
    BY <1>1, <2>2 DEF HandleSyncRequest, ReadNode, ReadTable, AbandonSync
  <2> QED
    BY <2>1, <2>2
<1>5. up' \in Seq(UpMessage) /\ late' \in Seq(UpMessage)
  BY <1>1, ReceiveIs, ReceiveLateIs
  DEF HandleSyncRequest, ReadNode, ReadTable, AbandonSync, SendSyncResponse, unread
<1>6. UNCHANGED <<hubData, node, unnotified, session, agentVars, link, history>>
  BY DEF HandleSyncRequest, ReadNode, ReadTable, AbandonSync, SendSyncResponse, unread, Unreported
<1>7. faults' \in 0..MaxFaults
  <2>1. UNCHANGED faults \/ Fault \/ NoFault
    BY DEF HandleSyncRequest, ReadNode, ReadTable, AbandonSync, SendSyncResponse
  <2> QED
    BY <2>1, FaultIs DEF NoFault
<1>8. HubTypeOK' /\ AgentTypeOK'
  BY <1>3, <1>6 DEF hubData, agentVars, agentData, TypeOK, HubTypeOK, AgentTypeOK
<1>9. WireTypeOK' /\ HistoryTypeOK'
  BY <1>4, <1>5, <1>6, <1>7 DEF history, TypeOK, WireTypeOK, HistoryTypeOK
<1> QED
  BY <1>8, <1>9 DEF TypeOK

(* A message that the Agent has taken. *)
LEMMA DeliverIs ==
  ASSUME TypeOK, NEW S, down \in Seq(S), NEW type, Deliver(type)
  PROVE  down' \in Seq(S) /\ Head(down) \in S /\ Head(down).type = type
BY TailIs DEF Deliver, TypeOK, WireTypeOK

LEMMA AgentReadTypes ==
  ASSUME TypeOK, OnHelloAck \/ OnRevision \/ OnSyncResponse \/ RefuseSync \/ OnRunExecution
  PROVE  TypeOK'
<1>1. down' \in Seq(DownMessage)
  <2>1. down \in Seq(DownMessage)
    BY DEF TypeOK, WireTypeOK
  <2> QED
    BY <2>1, DeliverIs DEF OnHelloAck, OnRevision, OnSyncResponse, RefuseSync, OnRunExecution
<1>2. up' \in Seq(UpMessage) /\ faults' \in 0..MaxFaults
  <2>1. up \in Seq(UpMessage) /\ localRev \in Revision /\ faults \in 0..MaxFaults
    BY DEF TypeOK, WireTypeOK, AgentTypeOK
  <2>2. Request(localRev) \in UpMessage /\ Request(0) \in UpMessage /\ Ack(0, FALSE) \in UpMessage
    BY <2>1, UpParts, Revisions
  <2>3. RequestSync \/ RequestAll => up' \in Seq(UpMessage) /\ faults' \in 0..MaxFaults
    BY <2>1, <2>2, SendIs, AppendIs, FaultIs DEF RequestSync, RequestAll
  <2>4. RefuseSync => up' \in Seq(UpMessage) /\ faults' \in 0..MaxFaults
    BY <2>1, <2>2, AppendIs, FaultIs DEF RefuseSync
  <2> QED
    BY <2>1, <2>3, <2>4 DEF OnHelloAck, OnRevision, OnSyncResponse, OnRunExecution
<1>3. UNCHANGED <<hubVars, local, localRev, tick, link, late, touched, missing, reloaded, reconciled>>
  BY DEF OnHelloAck, OnRevision, OnSyncResponse, RefuseSync, OnRunExecution, agentVars, agentData,
         history
<1>4. /\ ready' \in BOOLEAN /\ greeted' \in BOOLEAN
      /\ run' \in {"none", "sent", "accepted", "overtook", "blocked"}
  BY DEF OnHelloAck, OnRevision, OnSyncResponse, RefuseSync, OnRunExecution, agentVars, agentData,
         history, TypeOK, AgentTypeOK, HistoryTypeOK
<1>5. sched' \subseteq Schedules
  BY DEF OnHelloAck, OnRevision, OnSyncResponse, RefuseSync, OnRunExecution, agentVars, agentData,
         TypeOK, AgentTypeOK
<1>6. applying' \in {Idle} \cup Applying
  <2>1. CASE OnSyncResponse
    <3>1. Head(down) \in DownMessage /\ Head(down).type = "SYNC_RESPONSE"
      BY <2>1, DeliverIs DEF OnSyncResponse, TypeOK, WireTypeOK
    <3> QED
      BY <2>1, <3>1, DownFields DEF OnSyncResponse, Applying
  <2>2. CASE ~OnSyncResponse
    BY <2>2 DEF OnHelloAck, OnRevision, RefuseSync, OnRunExecution, agentVars, TypeOK, AgentTypeOK
  <2> QED
    BY <2>1, <2>2
<1>7. HubTypeOK' /\ AgentTypeOK'
  BY <1>3, <1>4, <1>5, <1>6 DEF hubVars, hubData, TypeOK, HubTypeOK, AgentTypeOK
<1>8. WireTypeOK' /\ HistoryTypeOK'
  BY <1>1, <1>2, <1>3, <1>4 DEF TypeOK, WireTypeOK, HistoryTypeOK
<1> QED
  BY <1>7, <1>8 DEF TypeOK

LEMMA ApplyTypes ==
  ASSUME TypeOK, CommitSync \/ RollbackSync
  PROVE  TypeOK'
<1>1. applying \in Applying
  BY Kinds DEF CommitSync, RollbackSync, TypeOK, AgentTypeOK
<1>2. /\ applying.rev \in Revision /\ applying.objs \in Copies /\ applying.cut \subseteq Single
      /\ 0 \in Revision
      /\ up \in Seq(UpMessage)
  BY <1>1, Fields, Revisions DEF TypeOK, WireTypeOK
<1>3. CASE CommitSync
  <2>1. /\ local' \in Copies /\ localRev' \in Revision /\ sched' \subseteq Schedules
        /\ missing' \subseteq Single /\ reloaded' \in BOOLEAN
    BY <1>2, <1>3 DEF CommitSync, Copies, Armed, TypeOK, AgentTypeOK
  <2>2. up' \in Seq(UpMessage) /\ faults' \in 0..MaxFaults
    <3>1. Ack(applying.rev, TRUE) \in UpMessage
      BY <1>2, UpParts
    <3>2. CASE Send(Ack(applying.rev, TRUE))
      BY <1>2, <3>1, <3>2, SendIs
    <3>3. CASE up' = Append(up, Ack(applying.rev, TRUE)) /\ Fault
      BY <1>2, <3>1, <3>3, AppendIs, FaultIs
    <3> QED
      BY <1>3, <3>2, <3>3 DEF CommitSync
  <2>3. HubTypeOK' /\ AgentTypeOK'
    BY <1>3, <2>1 DEF CommitSync, hubVars, hubData, TypeOK, HubTypeOK, AgentTypeOK
  <2>4. WireTypeOK' /\ HistoryTypeOK'
    BY <1>3, <2>1, <2>2 DEF CommitSync, TypeOK, WireTypeOK, HistoryTypeOK
  <2> QED
    BY <2>3, <2>4 DEF TypeOK
<1>4. CASE RollbackSync
  <2>1. up' \in Seq(UpMessage) /\ faults' \in 0..MaxFaults
    BY <1>2, <1>4, UpParts, AppendIs, FaultIs DEF RollbackSync
  <2>2. HubTypeOK' /\ AgentTypeOK'
    BY <1>4 DEF RollbackSync, hubVars, hubData, agentData, TypeOK, HubTypeOK, AgentTypeOK
  <2>3. WireTypeOK' /\ HistoryTypeOK'
    BY <1>4, <2>1 DEF RollbackSync, history, TypeOK, WireTypeOK, HistoryTypeOK
  <2> QED
    BY <2>2, <2>3 DEF TypeOK
<1> QED
  BY <1>3, <1>4

LEMMA TickTypes ==
  ASSUME TypeOK, (\E type \in Reports : ReadRevision(type)) \/ SendTick
  PROVE  TypeOK'
<1>1. UNCHANGED <<hubVars, agentData, ready, applying, link, late, down, history>>
  BY DEF ReadRevision, SendTick
<1>2. tick' \in {None} \cup Tick
  <2>1. \A type \in Reports : [type |-> type, rev |-> localRev] \in Tick
                              /\ [type |-> type, rev |-> 0] \in Tick
    BY ConstantsAssumption, UpParts, Revisions DEF TypeOK, AgentTypeOK
  <2> QED
    BY <2>1 DEF ReadRevision, SendTick
<1>3. up' \in Seq(UpMessage) /\ faults' \in 0..MaxFaults
  <2>1. up \in Seq(UpMessage) /\ faults \in 0..MaxFaults
    BY DEF TypeOK, WireTypeOK
  <2>2. CASE SendTick
    <3>1. tick \in UpMessage
      BY <2>2, Fields DEF SendTick, TypeOK, AgentTypeOK
    <3> QED
      BY <2>1, <2>2, <3>1, SendIs DEF SendTick
  <2>3. CASE ~SendTick
    BY <2>1, <2>3, FaultIs DEF ReadRevision
  <2> QED
    BY <2>2, <2>3
<1>4. HubTypeOK' /\ AgentTypeOK'
  BY <1>1, <1>2 DEF hubVars, hubData, agentData, TypeOK, HubTypeOK, AgentTypeOK
<1>5. WireTypeOK' /\ HistoryTypeOK'
  BY <1>1, <1>3 DEF history, TypeOK, WireTypeOK, HistoryTypeOK
<1> QED
  BY <1>4, <1>5 DEF TypeOK

LEMMA TypeStep == TypeOK /\ [Next]_vars => TypeOK'
<1> SUFFICES ASSUME TypeOK, [Next]_vars PROVE TypeOK'
  OBVIOUS
<1>1. CASE UNCHANGED vars
  BY <1>1 DEF vars, hubVars, hubData, agentVars, agentData, wire, history,
              TypeOK, HubTypeOK, AgentTypeOK, WireTypeOK, HistoryTypeOK
<1>2. CASE Next
  BY <1>2, OperatorTypes, LinkTypes, ReportTypes, HubSendTypes, AnswerTypes,
     AgentReadTypes, ApplyTypes, TickTypes DEF Next
<1> QED
  BY <1>1, <1>2

-----------------------------------------------------------------------------
(* What a step must do to keep each part of the invariant. *)

LEMMA SeqOf ==
  ASSUME NEW S, NEW T, NEW q \in Seq(S), \A i \in DOMAIN q : q[i] \in T
  PROVE  q \in Seq(T)
<1>1. q \in [1..Len(q) -> T] /\ Len(q) \in Nat
  OBVIOUS
<1> QED
  BY <1>1

LEMMA Numbers ==
  ASSUME TypeOK
  PROVE  /\ rev \in Nat /\ localRev \in Nat /\ node.rev \in Nat
         /\ \A o \in Obj : touched[o] \in Nat /\ tomb[o] \in Nat
         /\ builder.op = "BUILD" => builder \in Building /\ builder.rev \in Nat
         /\ applying.op = "APPLY" => applying \in Applying /\ applying.rev \in Nat
         /\ \A o \in Obj : Table[o] \in 1..Tables
BY Revisions, Kinds, Fields, ConstantsAssumption
DEF TypeOK, HubTypeOK, AgentTypeOK, HistoryTypeOK, Objects

LEMMA SyncInit == Init => SyncInv /\ NoneReused
<1> SUFFICES ASSUME Init PROVE SyncInv /\ NoneReused
  OBVIOUS
<1>1. TypeOK
  BY TypeInit
<1>2. /\ <<>> \in Seq(Said) /\ <<>> \in Seq(Underway) /\ DOMAIN <<>> = {}
      /\ Idle.op # "BUILD" /\ Idle.op # "APPLY"
  BY Kinds
<1>3. Reporting /\ Answering /\ InOrder
  BY <1>2 DEF Init, Reporting, Answering, InOrder
<1>4. Copied /\ NoneReused
  <2>1. \A o \in Obj : Desired[o] = 0
    BY DEF Init, Desired, Wanted
  <2> QED
    BY <2>1 DEF Init, Copied, AsWanted, NoneReused, NeverReused
<1>5. ArmedSchedulesStored /\ Gated /\ RunOnlyWhenReconciled
  BY DEF Init, ArmedSchedulesStored, Gated, RunOnlyWhenReconciled
<1> QED
  BY <1>1, <1>3, <1>4, <1>5 DEF SyncInv

LEMMA DesiredKept ==
  ASSUME UNCHANGED hubData
  PROVE  Desired' = Desired
BY DEF hubData, Desired, Wanted

LEMMA ReportingKept ==
  ASSUME Reporting, UNCHANGED <<localRev, node, tick>>,
         up' \in Seq(Said), late' \in Seq(Said)
  PROVE  Reporting'
BY DEF Reporting, Said

LEMMA AnsweringKept ==
  ASSUME Answering, UNCHANGED <<hubData, touched, localRev>>,
         down' \in Seq(Underway),
         builder' = builder \/ builder'.op # "BUILD",
         applying' = applying \/ applying'.op # "APPLY"
  PROVE  Answering'
<1>1. Desired' = Desired
  BY DesiredKept
<1>2. UNCHANGED <<rev, tomb, label>>
  BY DEF hubData
<1>3. Underway' = Underway
  BY <1>1, <1>2 DEF Underway, Answer, AsWanted
<1>4. builder'.op = "BUILD" => BuildingAnswer(builder)'
  BY <1>1, <1>2 DEF Answering, BuildingAnswer, AsWanted
<1>5. applying'.op = "APPLY" => Answer(applying)'
  BY <1>1, <1>2 DEF Answering, Answer, AsWanted
<1> QED
  BY <1>1, <1>2, <1>3, <1>4, <1>5 DEF Answering

LEMMA CopiedKept ==
  ASSUME Copied, UNCHANGED <<hubData, touched, missing, local, localRev>>
  PROVE  Copied'
<1>1. Desired' = Desired
  BY DesiredKept
<1> QED
  BY <1>1 DEF Copied, AsWanted, NeverReused, hubData

LEMMA ReusedKept ==
  ASSUME NoneReused, UNCHANGED hubData
  PROVE  NoneReused'
BY DEF NoneReused, NeverReused, hubData

(* The order of the answers when one is taken and when one is added.       *)
LEMMA TakenInOrder ==
  ASSUME TypeOK, InOrder, down # <<>>, down' = Tail(down), builder' = builder,
         \/ applying' = applying
         \/ IsAnswer(Head(down)) /\ applying'.rev = Head(down).rev
  PROVE  InOrder'
<1>1. /\ 1 \in DOMAIN down /\ Head(down) = down[1]
      /\ \A i \in DOMAIN Tail(down) :
            i \in Nat /\ i + 1 \in DOMAIN down /\ i + 1 > 1 /\ Tail(down)[i] = down[i + 1]
  BY DEF TypeOK, WireTypeOK
<1>2. \A i, j \in DOMAIN down' :
          i < j /\ IsAnswer(down'[i]) /\ IsAnswer(down'[j]) => down'[i].rev <= down'[j].rev
  <2> SUFFICES ASSUME NEW i \in DOMAIN Tail(down), NEW j \in DOMAIN Tail(down), i < j,
                      IsAnswer(Tail(down)[i]), IsAnswer(Tail(down)[j])
               PROVE  Tail(down)[i].rev <= Tail(down)[j].rev
    OBVIOUS
  <2>1. i + 1 < j + 1 /\ i + 1 \in DOMAIN down /\ j + 1 \in DOMAIN down
    BY <1>1
  <2> QED
    BY <1>1, <2>1 DEF InOrder
<1>3. \A i \in DOMAIN down' : IsAnswer(down'[i]) =>
          /\ builder'.op = "BUILD" => down'[i].rev <= builder'.rev
          /\ applying'.op = "APPLY" => applying'.rev <= down'[i].rev
  BY <1>1 DEF InOrder
<1>4. builder'.op = "BUILD" /\ applying'.op = "APPLY" => applying'.rev <= builder'.rev
  BY <1>1 DEF InOrder
<1> QED
  BY <1>2, <1>3, <1>4 DEF InOrder, IsAnswer

LEMMA AddedInOrder ==
  ASSUME TypeOK, InOrder, NEW m, down' = Append(down, m), applying' = applying,
         \/ ~IsAnswer(m) /\ (builder' = builder \/ builder'.op # "BUILD")
         \/ builder.op = "BUILD" /\ builder'.op # "BUILD" /\ m.rev = builder.rev
  PROVE  InOrder'
<1>1. \A i \in DOMAIN Append(down, m) :
          \/ i = Len(down) + 1 /\ Append(down, m)[i] = m
          \/ i \in DOMAIN down /\ i <= Len(down) /\ Append(down, m)[i] = down[i]
  BY DEF TypeOK, WireTypeOK
<1>2. Len(down) \in Nat /\ \A i \in DOMAIN down : i \in Nat
  BY DEF TypeOK, WireTypeOK
<1>3. \A i, j \in DOMAIN down' :
          i < j /\ IsAnswer(down'[i]) /\ IsAnswer(down'[j]) => down'[i].rev <= down'[j].rev
  <2> SUFFICES ASSUME NEW i \in DOMAIN Append(down, m), NEW j \in DOMAIN Append(down, m), i < j,
                      IsAnswer(Append(down, m)[i]), IsAnswer(Append(down, m)[j])
               PROVE  Append(down, m)[i].rev <= Append(down, m)[j].rev
    OBVIOUS
  <2>1. i \in DOMAIN down /\ Append(down, m)[i] = down[i]
    BY <1>1, <1>2
  <2>2. CASE j \in DOMAIN down /\ Append(down, m)[j] = down[j]
    BY <2>1, <2>2 DEF InOrder
  <2>3. CASE Append(down, m)[j] = m
    BY <2>1, <2>3 DEF InOrder
  <2> QED
    BY <1>1, <2>2, <2>3
<1>4. \A i \in DOMAIN down' : IsAnswer(down'[i]) =>
          /\ builder'.op = "BUILD" => down'[i].rev <= builder'.rev
          /\ applying'.op = "APPLY" => applying'.rev <= down'[i].rev
  BY <1>1 DEF InOrder
<1>5. builder'.op = "BUILD" /\ applying'.op = "APPLY" => applying'.rev <= builder'.rev
  BY DEF InOrder
<1> QED
  BY <1>3, <1>4, <1>5 DEF InOrder, IsAnswer

LEMMA InOrderKept ==
  ASSUME InOrder, down' = down,
         builder' = builder \/ builder'.op # "BUILD", applying' = applying \/ applying'.op # "APPLY"
  PROVE  InOrder'
BY DEF InOrder, IsAnswer

(* What the Agent acknowledges: a revision it is at, or none.              *)
LEMMA AckSaid ==
  ASSUME NEW r \in Revision, r <= localRev, NEW ok \in BOOLEAN
  PROVE  Ack(r, ok) \in Said
<1> DEFINE m == Ack(r, ok)
<1>1. m \in UpMessage /\ m.rev = r
  BY UpParts
<1> HIDE DEF m
<1>2. m \in Said
  BY <1>1 DEF Said
<1> QED
  BY <1>2 DEF m

LEMMA RefusalSaid ==
  ASSUME TypeOK
  PROVE  Ack(0, FALSE) \in Said
<1>1. 0 <= localRev /\ 0 \in Revision
  BY Numbers, Revisions
<1>2. \A ok \in BOOLEAN : Ack(0, ok) \in Said
  BY <1>1, AckSaid
<1> QED
  BY <1>2, Zenon

(* Sending something that is not a report of the revision, or one of the   *)
(* revision that the Agent is at.                                          *)
LEMMA SendSaid ==
  ASSUME TypeOK, Reporting, NEW m \in Said, Send(m)
  PROVE  up' \in Seq(Said)
BY SendIs DEF Reporting

(* An answer to something else is not one of these.                        *)
LEMMA ReplyUnderway ==
  ASSUME Answering, NEW m \in Underway, Reply(m)
  PROVE  down' \in Seq(Underway) /\ down' = Append(down, m)
BY AppendIs DEF Reply, Answering

-----------------------------------------------------------------------------
(* Steps. *)

(* A change by an operator touches what it changes, for everyone at an     *)
(* earlier revision.                                                       *)
LEMMA OperatorChanges ==
  ASSUME TypeOK, (\E o \in Obj : PutObject(o) \/ DeleteObject(o)) \/ SetLabels
  PROVE  /\ rev' = rev + 1
         /\ UNCHANGED <<node, session, builder, agentVars, wire, missing, reloaded,
                        reconciled, greeted, run>>
         /\ \A o \in Obj :
              /\ tomb[o] # 0 => tomb'[o] # 0
              /\ \/ touched'[o] = rev'
                 \/ /\ touched'[o] = touched[o] /\ tomb'[o] = tomb[o] /\ hub'[o] = hub[o]
                    /\ Desired'[o] = Desired[o] /\ (o \in Labelled => label' = label)
<1>1. rev \in Nat /\ \A o \in Obj : Desired[o] = Wanted(o, label) /\ Desired'[o] = Wanted(o, label)'
  BY Numbers DEF Desired
<1>2. CASE \E o \in Obj : PutObject(o)
  <2>1. PICK p \in Obj : PutObject(p)
    BY <1>2
  <2>2. hub' = [hub EXCEPT ![p] = rev + 1] /\ UNCHANGED <<tomb, label>> /\ Commit({p}, rev + 1)
    BY <2>1 DEF PutObject
  <2> QED
    BY <1>1, <2>2 DEF Commit, TypeOK, HubTypeOK, Objects, Wanted
<1>3. CASE \E o \in Obj : DeleteObject(o)
  <2>1. PICK p \in Obj : DeleteObject(p)
    BY <1>3
  <2>2. /\ hub' = [hub EXCEPT ![p] = 0] /\ tomb' = [tomb EXCEPT ![p] = rev + 1]
        /\ UNCHANGED label /\ Commit({p}, rev + 1)
    BY <2>1 DEF DeleteObject
  <2>3. \A o \in Obj : tomb'[o] = IF o = p THEN rev + 1 ELSE tomb[o]
    BY <2>2 DEF TypeOK, HubTypeOK, Objects
  <2> QED
    BY <1>1, <2>2, <2>3 DEF Commit, TypeOK, HubTypeOK, Objects, Wanted
<1>4. CASE SetLabels
  BY <1>1, <1>4 DEF SetLabels, Commit, Wanted
<1> QED
  BY <1>2, <1>3, <1>4

LEMMA OperatorStep ==
  ASSUME SyncInv, (\E o \in Obj : PutObject(o) \/ DeleteObject(o)) \/ SetLabels
  PROVE  SyncInv'
<1> USE DEF SyncInv
<1>1. TypeOK'
  BY OperatorTypes
<1>2. /\ rev' = rev + 1
      /\ UNCHANGED <<node, session, builder, agentVars, wire, missing, reloaded,
                     reconciled, greeted, run>>
      /\ \A o \in Obj :
           /\ tomb[o] # 0 => tomb'[o] # 0
           /\ \/ touched'[o] = rev'
              \/ /\ touched'[o] = touched[o] /\ tomb'[o] = tomb[o] /\ hub'[o] = hub[o]
                 /\ Desired'[o] = Desired[o] /\ (o \in Labelled => label' = label)
  BY OperatorChanges
<1>3. UNCHANGED <<local, localRev, sched, ready, applying, tick, link, up, late, down>>
  BY <1>2 DEF agentVars, agentData, wire
<1>4. rev \in Nat /\ localRev \in Nat /\ \A o \in Obj : touched[o] \in Nat
  BY Numbers
<1>5. Reporting'
  BY <1>2, <1>3, ReportingKept DEF Reporting
<1>6. InOrder'
  BY <1>2, <1>3, InOrderKept
<1>7. Answering'
  <2>1. \A o \in Obj : touched'[o] <= rev'
    BY <1>2, <1>4 DEF Answering
  <2>2. ASSUME NEW m, Answer(m), m.rev \in Nat, m.tombs \subseteq Obj
        PROVE  /\ localRev <= m.rev /\ m.rev <= rev'
               /\ \A o \in m.tombs : tomb'[o] # 0
               /\ \A o \in Obj : touched'[o] <= m.rev =>
                     m.objs[o] = Desired'[o] \/ (o \in m.cut /\ m.objs[o] \in {0, Stripped})
    BY <2>2, <1>2, <1>4 DEF Answer, AsWanted
  <2>3. Underway \subseteq Underway'
    <3> SUFFICES ASSUME NEW m \in DownMessage, IsAnswer(m), Answer(m)
                 PROVE  Answer(m)'
      BY DEF Underway, IsAnswer
    <3>1. m.rev \in Nat /\ m.tombs \subseteq Obj
      BY DownFields, Revisions DEF IsAnswer
    <3> QED
      BY <1>3, <2>2, <3>1 DEF Answer, AsWanted
  <2>4. down' \in Seq(Underway')
    BY <1>3, <2>3, SeqMonotonic DEF Answering
  <2>5. ASSUME applying'.op = "APPLY" PROVE Answer(applying)'
    <3>1. Answer(applying) /\ applying.rev \in Nat /\ applying.tombs \subseteq Obj
      BY <1>3, <2>5, Numbers, Fields DEF Answering
    <3> QED
      BY <1>3, <2>2, <3>1 DEF Answer, AsWanted
  <2>6. ASSUME builder'.op = "BUILD" PROVE BuildingAnswer(builder)'
    <3>1. BuildingAnswer(builder) /\ builder.rev \in Nat
      BY <1>2, <2>6, Numbers DEF Answering
    <3> QED
      BY <1>2, <1>3, <1>4, <3>1 DEF BuildingAnswer, AsWanted
  <2> QED
    BY <2>1, <2>4, <2>5, <2>6 DEF Answering
<1>8. Copied'
  BY <1>2, <1>3, <1>4 DEF Copied, AsWanted, NeverReused
<1>9. ArmedSchedulesStored' /\ Gated' /\ RunOnlyWhenReconciled'
  BY <1>2, <1>3 DEF ArmedSchedulesStored, Armed, Gated, RunOnlyWhenReconciled
<1> QED
  BY <1>1, <1>5, <1>6, <1>7, <1>8, <1>9

(* Connections, restarts: queues are emptied or lose their ends.           *)
LEMMA LinkStep ==
  ASSUME SyncInv, Connect \/ Disconnect \/ HubRestart \/ AgentRestart
  PROVE  SyncInv'
<1> USE DEF SyncInv
<1>1. TypeOK'
  BY LinkTypes
<1>2. UNCHANGED <<hubData, node, local, localRev, touched, missing>>
  BY DEF Connect, Disconnect, HubRestart, AgentRestart, hubVars, agentVars, agentData, history
<1>3. /\ \/ down' = down /\ builder' = builder
         \/ down' = <<>> /\ builder' = Idle
      /\ applying' = applying \/ applying' = Idle
      /\ tick' = tick \/ tick' = None
  BY DEF Connect, Disconnect, HubRestart, AgentRestart, Broken, hubVars, agentVars
<1>4. Reporting'
  <2>1. up \in Seq(Said) /\ late \in Seq(Said) /\ <<>> \in Seq(Said)
    BY DEF Reporting
  <2>2. up' \in Seq(Said) /\ late' \in Seq(Said)
    <3>1. CASE Connect
      <4>1. [type |-> "HELLO"] \in Said
        BY UpParts DEF Said
      <4>2. <<[type |-> "HELLO"]>> \in Seq(Said)
        BY <4>1
      <4> QED
        BY <2>1, <3>1, <4>2, ConcatProperties DEF Connect
    <3>2. CASE Disconnect
      <4>1. PICK i \in 0..Len(up) : \E j \in i..Len(up) :
                /\ late' = IF session THEN SubSeq(up, 1, i) ELSE <<>>
                /\ up' = SubSeq(up, j + 1, Len(up))
        BY <3>2 DEF Disconnect
      <4>2. PICK j \in i..Len(up) : /\ late' = IF session THEN SubSeq(up, 1, i) ELSE <<>>
                                    /\ up' = SubSeq(up, j + 1, Len(up))
        BY <4>1
      <4>3. Len(up) \in Nat /\ j + 1 \in 1..Len(up) + 1
        BY LenProperties DEF TypeOK, WireTypeOK
      <4> QED
        BY <2>1, <4>2, <4>3, PartIs
    <3>3. CASE HubRestart \/ AgentRestart
      BY <2>1, <3>3 DEF HubRestart, AgentRestart
    <3> QED
      BY <3>1, <3>2, <3>3
  <2> QED
    BY <1>2, <1>3, <2>2 DEF Reporting, Said
<1>5. Answering'
  <2>1. down' \in Seq(Underway)
    <3>1. down \in Seq(Underway) /\ <<>> \in Seq(Underway)
      BY DEF Answering
    <3> QED
      BY <1>3, <3>1
  <2> QED
    BY <1>2, <1>3, <2>1, AnsweringKept, Kinds
<1>6. InOrder'
  <2>1. CASE down' = down /\ builder' = builder
    BY <1>3, <2>1, InOrderKept, Kinds
  <2>2. CASE down' = <<>> /\ builder' = Idle
    <3>1. DOMAIN <<>> = {}
      OBVIOUS
    <3> QED
      BY <2>2, <3>1, Kinds DEF InOrder
  <2> QED
    BY <1>3, <2>1, <2>2
<1>7. Copied'
  BY <1>2, CopiedKept
<1>8. ArmedSchedulesStored'
  BY <1>2 DEF Connect, Disconnect, HubRestart, AgentRestart, agentVars, agentData, history,
              ArmedSchedulesStored, Armed
<1>9. Gated' /\ RunOnlyWhenReconciled'
  BY DEF Connect, Disconnect, HubRestart, AgentRestart, agentVars, history, Gated, RunOnlyWhenReconciled
<1> QED
  BY <1>1, <1>4, <1>5, <1>6, <1>7, <1>8, <1>9

(* A report is recorded as it was sent, and asks for nothing that counts.  *)
LEMMA ReportStep ==
  ASSUME SyncInv, HandleHeartbeat \/ HandleRevisionCheck \/ HandleSyncAck
  PROVE  SyncInv'
<1> USE DEF SyncInv
<1> DEFINE reports == {"HEARTBEAT", "REVISION_CHECK", "SYNC_ACK"}
<1>1. TypeOK'
  BY ReportTypes
<1>2. UNCHANGED <<hubData, builder, local, localRev, sched, ready, applying, tick,
                  touched, missing, reloaded, reconciled, greeted, run>>
  BY DEF HandleHeartbeat, HandleRevisionCheck, HandleSyncAck, Unreported, agentVars, agentData,
         history
<1>3. up \in Seq(Said) /\ late \in Seq(Said) /\ node.rev <= localRev
  BY DEF Reporting
<1>4. up' \in Seq(Said) /\ late' \in Seq(Said)
  BY <1>3, ReceiveIs, ReceiveLateIs DEF HandleHeartbeat, HandleRevisionCheck, HandleSyncAck
<1>5. node'.rev <= localRev
  <2>1. \A type \in reports : Receive(type) => Head(up).rev <= localRev
    BY <1>3, ReceiveIs DEF Said
  <2>2. \A type \in reports : ReceiveLate(type) => Head(late).rev <= localRev
    BY <1>3, ReceiveLateIs DEF Said
  <2>3. CASE HandleHeartbeat
    BY <1>3, <2>1, <2>2, <2>3 DEF HandleHeartbeat, HeartbeatRecorded, Record
  <2>4. CASE HandleRevisionCheck
    BY <1>3, <2>1, <2>2, <2>4 DEF HandleRevisionCheck, CheckRecorded, Record
  <2>5. CASE HandleSyncAck
    BY <1>3, <2>1, <2>2, <2>5 DEF HandleSyncAck, AckRecorded, Record
  <2> QED
    BY <2>3, <2>4, <2>5
<1>6. Reporting'
  BY <1>2, <1>4, <1>5 DEF Reporting, Said
<1>7. Answering' /\ InOrder'
  <2> DEFINE m == [type |-> "REVISION_CHECK_ACK", rev |-> rev]
  <2>1. m \in Underway /\ ~IsAnswer(m)
    BY DownParts DEF TypeOK, HubTypeOK, Underway, IsAnswer
  <2>2. down' = down \/ Reply(m)
    BY DEF HandleHeartbeat, HandleRevisionCheck, HandleSyncAck
  <2>3. down' \in Seq(Underway) /\ (down' = down \/ down' = Append(down, m))
    BY <2>1, <2>2, ReplyUnderway DEF Answering
  <2>4. Answering'
    BY <1>2, <2>3, AnsweringKept
  <2>5. InOrder'
    BY <1>2, <2>1, <2>3, InOrderKept, AddedInOrder
  <2> QED
    BY <2>4, <2>5
<1>8. Copied'
  BY <1>2, CopiedKept
<1>9. ArmedSchedulesStored' /\ Gated' /\ RunOnlyWhenReconciled'
  BY <1>2 DEF ArmedSchedulesStored, Armed, Gated, RunOnlyWhenReconciled
<1> QED
  BY <1>1, <1>6, <1>7, <1>8, <1>9

LEMMA HubSendStep ==
  ASSUME SyncInv, \/ \E n \in unnotified : Notify(n)
                  \/ HandleHello \/ SendHelloAck \/ DispatchToAgent
  PROVE  SyncInv'
<1> USE DEF SyncInv
<1>1. TypeOK'
  BY HubSendTypes
<1>2. UNCHANGED <<hubData, node, local, localRev, sched, ready, applying, tick, late,
                  touched, missing, reloaded, reconciled, greeted>>
  BY DEF Notify, HandleHello, SendHelloAck, DispatchToAgent, hubVars, agentVars, agentData, history
<1>3. Reporting'
  <2>1. up' \in Seq(Said)
    BY ReceiveIs DEF Notify, HandleHello, SendHelloAck, DispatchToAgent, Reporting
  <2> QED
    BY <1>2, <2>1, ReportingKept DEF Reporting
<1>4. builder' = builder \/ builder'.op # "BUILD"
  BY Kinds DEF Notify, HandleHello, SendHelloAck, DispatchToAgent, hubVars
<1>5. down' = down \/ \E m \in Underway : ~IsAnswer(m) /\ Reply(m)
  <2>1. [type |-> "HELLO_ACK"] \in Underway /\ ~IsAnswer([type |-> "HELLO_ACK"])
    BY DownParts DEF Underway, IsAnswer
  <2>2. [type |-> "RUN"] \in Underway /\ ~IsAnswer([type |-> "RUN"])
    BY DownParts DEF Underway, IsAnswer
  <2>3. \A r \in Revision : /\ [type |-> "CHANGE", rev |-> r] \in Underway
                            /\ ~IsAnswer([type |-> "CHANGE", rev |-> r])
    BY DownParts DEF Underway, IsAnswer
  <2>4. \A n \in unnotified : (IF n = NotifyAll THEN rev ELSE n) \in Revision
    BY DEF TypeOK, HubTypeOK
  <2>5. CASE \E n \in unnotified : Notify(n)
    <3>1. PICK n \in unnotified : Notify(n)
      BY <2>5
    <3>2. down' = down \/ Reply([type |-> "CHANGE", rev |-> IF n = NotifyAll THEN rev ELSE n])
      BY <3>1 DEF Notify
    <3> QED
      BY <2>3, <2>4, <3>2
  <2>6. CASE HandleHello \/ SendHelloAck \/ DispatchToAgent
    BY <2>1, <2>2, <2>6 DEF HandleHello, SendHelloAck, DispatchToAgent
  <2> QED
    BY <2>5, <2>6
<1>6. Answering' /\ InOrder'
  <2>1. CASE down' = down
    <3>1. down' \in Seq(Underway)
      BY <2>1 DEF Answering
    <3> QED
      BY <1>2, <1>4, <2>1, <3>1, AnsweringKept, InOrderKept
  <2>2. CASE \E m \in Underway : ~IsAnswer(m) /\ Reply(m)
    <3>1. PICK m \in Underway : ~IsAnswer(m) /\ Reply(m)
      BY <2>2
    <3>2. down' \in Seq(Underway) /\ down' = Append(down, m)
      BY <3>1, ReplyUnderway
    <3> QED
      BY <1>2, <1>4, <3>1, <3>2, AnsweringKept, AddedInOrder
  <2> QED
    BY <1>5, <2>1, <2>2
<1>7. Copied'
  BY <1>2, CopiedKept
<1>8. ArmedSchedulesStored' /\ Gated'
  BY <1>2 DEF ArmedSchedulesStored, Armed, Gated
<1>9. RunOnlyWhenReconciled'
  BY DEF Notify, HandleHello, SendHelloAck, DispatchToAgent, history, RunOnlyWhenReconciled
<1> QED
  BY <1>1, <1>3, <1>6, <1>7, <1>8, <1>9

(* Building an answer: the revision is read before the labels, the labels  *)
(* before the tables, so that nothing untouched since is missed.           *)
LEMMA BuildStep ==
  ASSUME SyncInv, HandleSyncRequest \/ ReadNode \/ ReadTable \/ AbandonSync
  PROVE  SyncInv'
<1> USE DEF SyncInv
<1>1. TypeOK'
  BY AnswerTypes
<1>2. /\ UNCHANGED <<hubData, node, agentVars, down, history>>
      /\ UNCHANGED <<local, localRev, sched, ready, applying, tick,
                     touched, missing, reloaded, reconciled, greeted, run>>
  BY DEF HandleSyncRequest, ReadNode, ReadTable, AbandonSync, Unreported, unread, agentVars,
         agentData, history
<1>3. Reporting'
  <2>1. up' \in Seq(Said) /\ late' \in Seq(Said)
    BY ReceiveIs, ReceiveLateIs DEF HandleSyncRequest, ReadNode, ReadTable, AbandonSync, unread,
                                    Reporting
  <2> QED
    BY <1>2, <2>1, ReportingKept
<1>4. /\ rev \in Nat /\ localRev \in Nat /\ rev >= localRev
      /\ \A o \in Obj : touched[o] \in Nat /\ touched[o] <= rev /\ Table[o] \in Nat /\ Table[o] > 0
  BY Numbers DEF Answering, Copied
<1>5. \A o \in Obj : Desired[o] = Wanted(o, label)
  BY DEF Desired
<1>6. CASE builder' = builder
  <2>1. down' \in Seq(Underway)
    BY <1>2 DEF Answering
  <2>2. Answering' /\ InOrder'
    BY <1>2, <1>6, <2>1, AnsweringKept, InOrderKept
  <2>3. Copied'
    BY <1>2, CopiedKept
  <2>4. ArmedSchedulesStored' /\ Gated' /\ RunOnlyWhenReconciled'
    BY <1>2 DEF ArmedSchedulesStored, Armed, Gated, RunOnlyWhenReconciled
  <2> QED
    BY <1>1, <1>3, <2>2, <2>3, <2>4
<1>7. CASE builder' # builder
  <2>1. /\ builder'.op = "BUILD" => BuildingAnswer(builder')
        /\ builder'.op = "BUILD" =>
              \/ builder'.rev = rev
              \/ builder.op = "BUILD" /\ builder'.rev = builder.rev
    <3>1. CASE HandleSyncRequest
      <4>1. builder' = [op |-> "BUILD", since |-> Head(up).since, rev |-> rev, label |-> FALSE,
                        objs |-> [o \in Obj |-> 0], cut |-> {}, step |-> 0]
        BY <1>7, <3>1 DEF HandleSyncRequest, Unreported
      <4>2. builder'.rev = rev /\ builder'.step = 0
        BY <4>1
      <4> QED
        BY <1>4, <4>2 DEF BuildingAnswer
    <3>2. CASE ReadNode
      <4>1. builder \in Building /\ BuildingAnswer(builder) /\ builder.op = "BUILD"
        BY <3>2, Numbers DEF ReadNode, Answering
      <4>2. builder' = [builder EXCEPT !.label = label, !.step = 1]
        BY <3>2 DEF ReadNode
      <4>3. builder'.rev = builder.rev /\ builder'.step = 1 /\ builder'.label = label
        BY <4>1, <4>2 DEF Building
      <4> QED
        BY <1>4, <4>1, <4>3 DEF BuildingAnswer
    <3>3. CASE ReadTable
      <4>1. builder \in Building /\ BuildingAnswer(builder) /\ builder.op = "BUILD"
        BY <3>3, Numbers DEF ReadTable, Answering
      <4>2. PICK out \in SUBSET Single, bare \in SUBSET Single :
                /\ builder.step \in Nat /\ builder.step \in 1..Tables
                /\ builder'.rev = builder.rev /\ builder'.label = builder.label
                /\ builder'.step = builder.step + 1
                /\ builder'.objs = Read(out, bare) /\ builder'.cut = builder.cut \cup out \cup bare
        BY <3>3, ReadIs
      <4>3. builder.step > 0
        BY <4>2
      <4>4. ASSUME NEW o \in Obj, touched[o] <= builder.rev, builder.step + 1 > Table[o]
            PROVE  AsWanted(o, Read(out, bare), builder.cut \cup out \cup bare)
        <5>1. CASE Table[o] = builder.step
          <6>1. o \in Labelled => builder.label = label
            BY <4>1, <4>3, <4>4 DEF BuildingAnswer
          <6>2. Wanted(o, builder.label) = Desired[o]
            BY <1>5, <6>1 DEF Wanted
          <6> QED
            BY <5>1, <6>2 DEF AsWanted, Read
        <5>2. CASE Table[o] # builder.step
          <6>1. builder.step > Table[o] /\ Read(out, bare)[o] = builder.objs[o]
            BY <1>4, <4>2, <4>4, <5>2 DEF Read
          <6>2. AsWanted(o, builder.objs, builder.cut)
            BY <4>1, <4>4, <6>1 DEF BuildingAnswer
          <6> QED
            BY <6>1, <6>2 DEF AsWanted
        <5> QED
          BY <5>1, <5>2
      <4>5. BuildingAnswer(builder')
        <5>1. localRev <= builder'.rev /\ builder'.rev <= rev
          BY <4>1, <4>2 DEF BuildingAnswer
        <5>2. \A o \in Obj : touched[o] <= builder'.rev /\ o \in Labelled => builder'.label = label
          BY <4>1, <4>2, <4>3 DEF BuildingAnswer
        <5>3. \A o \in Obj : touched[o] <= builder'.rev /\ builder'.step > Table[o] =>
                  AsWanted(o, builder'.objs, builder'.cut)
          BY <4>2, <4>4
        <5> QED
          BY <5>1, <5>2, <5>3 DEF BuildingAnswer
      <4> QED
        BY <4>1, <4>2, <4>5
    <3>4. CASE AbandonSync
      BY <3>4, Kinds DEF AbandonSync
    <3> QED
      BY <3>1, <3>2, <3>3, <3>4
  <2>2. Answering'
    <3>1. Desired' = Desired
      BY <1>2, DesiredKept
    <3>2. UNCHANGED <<rev, tomb, label>>
      BY <1>2 DEF hubData
    <3>3. Underway' = Underway
      BY <1>2, <3>1, <3>2 DEF Underway, Answer, AsWanted
    <3>4. builder'.op = "BUILD" => BuildingAnswer(builder)'
      BY <1>2, <2>1, <3>1, <3>2 DEF BuildingAnswer, AsWanted
    <3>5. applying'.op = "APPLY" => Answer(applying)'
      BY <1>2, <3>1, <3>2 DEF Answering, Answer, AsWanted
    <3> QED
      BY <1>2, <3>1, <3>2, <3>3, <3>4, <3>5 DEF Answering
  <2>3. InOrder'
    <3>1. down \in Seq(Underway) /\ down' = down /\ applying' = applying
      BY <1>2 DEF Answering
    <3>2. \A i \in DOMAIN down : IsAnswer(down[i]) => down[i].rev <= rev
      BY <3>1 DEF Underway, Answer
    <3>3. applying.op = "APPLY" => applying.rev <= rev
      BY DEF Answering, Answer
    <3>4. \A i \in DOMAIN down : IsAnswer(down[i]) /\ builder'.op = "BUILD" =>
              down[i].rev <= builder'.rev
      BY <2>1, <3>2 DEF InOrder
    <3>5. builder'.op = "BUILD" /\ applying.op = "APPLY" => applying.rev <= builder'.rev
      BY <2>1, <3>3 DEF InOrder
    <3> QED
      BY <3>1, <3>4, <3>5 DEF InOrder, IsAnswer
  <2>4. Copied'
    BY <1>2, CopiedKept
  <2>5. ArmedSchedulesStored' /\ Gated' /\ RunOnlyWhenReconciled'
    BY <1>2 DEF ArmedSchedulesStored, Armed, Gated, RunOnlyWhenReconciled
  <2> QED
    BY <1>1, <1>3, <2>2, <2>3, <2>4, <2>5
<1> QED
  BY <1>6, <1>7

(* The answer that is sent is what was built: all tables have been read.   *)
LEMMA RespondStep ==
  ASSUME SyncInv, SendSyncResponse
  PROVE  SyncInv'
<1> USE DEF SyncInv
<1>t. PICK tombs \in {TombstonesSince(builder.since, builder.rev), Buried(builder.since), {}} :
          Reply([type |-> "SYNC_RESPONSE", rev |-> builder.rev, objs |-> builder.objs,
                 cut |-> builder.cut, tombs |-> tombs])
  BY DEF SendSyncResponse
<1> DEFINE m == [type |-> "SYNC_RESPONSE", rev |-> builder.rev, objs |-> builder.objs,
                 cut |-> builder.cut, tombs |-> tombs]
<1>1. TypeOK'
  BY AnswerTypes
<1>2. /\ UNCHANGED <<hubData, node, local, localRev, sched, ready, applying, tick, up, late,
                     touched, missing, reloaded, reconciled, greeted, run>>
      /\ builder' = Idle /\ Reply(m) /\ builder.op = "BUILD" /\ builder.step = Tables + 1
  BY <1>t DEF SendSyncResponse, unread, agentVars, agentData, history
<1>3. builder \in Building /\ BuildingAnswer(builder)
  BY <1>2, Numbers DEF Answering
<1>4. m \in Underway /\ IsAnswer(m)
  <2>1. /\ m.type = "SYNC_RESPONSE" /\ m.rev = builder.rev /\ m.objs = builder.objs
        /\ m.cut = builder.cut /\ m.tombs = tombs
    OBVIOUS
  <2>2. m \in DownMessage /\ \A o \in m.tombs : tomb[o] # 0
    BY <1>3, <2>1, Fields, DownParts, TombstonesAre
  <2>3. \A o \in Obj : builder.step > Table[o]
    BY <1>2, ConstantsAssumption
  <2>4. Answer(m)
    BY <1>3, <2>1, <2>2, <2>3 DEF Answer, BuildingAnswer
  <2> QED
    BY <2>1, <2>2, <2>4 DEF Underway, IsAnswer
<1>5. down' \in Seq(Underway) /\ down' = Append(down, m) /\ m.rev = builder.rev
  BY <1>2, <1>4, ReplyUnderway
<1>6. Answering' /\ InOrder'
  BY <1>2, <1>4, <1>5, AnsweringKept, AddedInOrder, Kinds
<1>7. Reporting'
  BY <1>2, ReportingKept DEF Reporting
<1>8. Copied'
  BY <1>2, CopiedKept
<1>9. ArmedSchedulesStored' /\ Gated' /\ RunOnlyWhenReconciled'
  BY <1>2 DEF ArmedSchedulesStored, Armed, Gated, RunOnlyWhenReconciled
<1> QED
  BY <1>1, <1>6, <1>7, <1>8, <1>9

LEMMA AgentReadStep ==
  ASSUME SyncInv, OnHelloAck \/ OnRevision \/ OnSyncResponse \/ RefuseSync \/ OnRunExecution
  PROVE  SyncInv'
<1> USE DEF SyncInv
<1>1. TypeOK'
  BY AgentReadTypes
<1>2. UNCHANGED <<hubVars, hubData, builder, node, local, localRev, tick, late, touched,
                  missing, reloaded, reconciled>>
  BY DEF OnHelloAck, OnRevision, OnSyncResponse, RefuseSync, OnRunExecution, hubVars, agentVars,
         agentData, history
<1>3. Reporting'
  <2>1. Request(localRev) \in Said /\ Request(0) \in Said
    BY UpParts, Revisions DEF Said, TypeOK, AgentTypeOK
  <2>2. Ack(0, FALSE) \in Said
    BY RefusalSaid
  <2>3. up \in Seq(Said)
    BY DEF Reporting
  <2>4. RequestSync \/ RequestAll \/ RefuseSync => up' \in Seq(Said)
    BY <2>1, <2>2, <2>3, SendSaid, AppendIs DEF RequestSync, RequestAll, RefuseSync
  <2>5. up' \in Seq(Said) /\ late' \in Seq(Said)
    BY <1>2, <2>4 DEF OnHelloAck, OnRevision, OnSyncResponse, OnRunExecution, Reporting
  <2> QED
    BY <1>2, <2>5, ReportingKept
<1>4. down' \in Seq(Underway) /\ Head(down) \in Underway /\ down # <<>> /\ down' = Tail(down)
  <2>1. down \in Seq(Underway)
    BY DEF Answering
  <2> QED
    BY <2>1, DeliverIs DEF OnHelloAck, OnRevision, OnSyncResponse, RefuseSync, OnRunExecution, Deliver
<1>5. CASE OnSyncResponse
  <2>1. /\ applying' = [op |-> "APPLY", rev |-> Head(down).rev, objs |-> Head(down).objs,
                        cut |-> Head(down).cut, tombs |-> Head(down).tombs]
        /\ IsAnswer(Head(down)) /\ sched' = sched \ Head(down).tombs
        /\ UNCHANGED <<ready, greeted, run>>
    BY <1>5 DEF OnSyncResponse, Deliver, IsAnswer, history
  <2>2. /\ applying'.op = "APPLY" /\ applying'.rev = Head(down).rev
        /\ applying'.objs = Head(down).objs /\ applying'.cut = Head(down).cut
        /\ applying'.tombs = Head(down).tombs
    BY <2>1
  <2>3. Answer(Head(down))
    BY <1>4, <2>1 DEF Underway
  <2>4. Answering'
    <3>1. Desired' = Desired
      BY <1>2, DesiredKept
    <3>2. UNCHANGED <<rev, tomb, label>>
      BY <1>2 DEF hubData
    <3>3. Underway' = Underway
      BY <1>2, <3>1, <3>2 DEF Underway, Answer, AsWanted
    <3>4. builder'.op = "BUILD" => BuildingAnswer(builder)'
      BY <1>2, <3>1, <3>2 DEF Answering, BuildingAnswer, AsWanted
    <3>5. Answer(applying)'
      BY <1>2, <2>2, <2>3, <3>1, <3>2 DEF Answer, AsWanted
    <3> QED
      BY <1>2, <1>4, <3>1, <3>2, <3>3, <3>4, <3>5 DEF Answering
  <2>5. InOrder'
    BY <1>2, <1>4, <2>1, <2>2, TakenInOrder
  <2>6. Copied'
    BY <1>2, CopiedKept
  <2>7. ArmedSchedulesStored' /\ Gated' /\ RunOnlyWhenReconciled'
    BY <1>2, <2>1 DEF ArmedSchedulesStored, Armed, Gated, RunOnlyWhenReconciled
  <2> QED
    BY <1>1, <1>3, <2>4, <2>5, <2>6, <2>7
<1>6. CASE ~OnSyncResponse
  <2>1. UNCHANGED <<applying, sched>>
    BY <1>6 DEF OnHelloAck, OnRevision, RefuseSync, OnRunExecution, agentVars, agentData
  <2>2. Answering' /\ InOrder'
    BY <1>2, <1>4, <2>1, AnsweringKept, TakenInOrder
  <2>3. Copied'
    BY <1>2, CopiedKept
  <2>4. ArmedSchedulesStored'
    BY <1>2, <2>1 DEF ArmedSchedulesStored, Armed
  <2>5. Gated' /\ RunOnlyWhenReconciled'
    <3>1. CASE OnHelloAck
      BY <3>1, <1>2 DEF OnHelloAck, Gated, RunOnlyWhenReconciled
    <3>2. CASE OnRevision \/ RefuseSync
      <4>1. UNCHANGED <<ready, reconciled, greeted, run>>
        BY <3>2 DEF OnRevision, RefuseSync, agentVars, history
      <4> QED
        BY <4>1 DEF Gated, RunOnlyWhenReconciled
    <3>3. CASE OnRunExecution
      BY <3>3, <1>2 DEF OnRunExecution, agentVars, Gated, RunOnlyWhenReconciled
    <3> QED
      BY <1>6, <3>1, <3>2, <3>3
  <2> QED
    BY <1>1, <1>3, <2>2, <2>3, <2>4, <2>5
<1> QED
  BY <1>5, <1>6

(* Applying an answer takes over what it says, but for what it deletes.    *)
LEMMA CommitIs ==
  ASSUME SyncInv, CommitSync
  PROVE  /\ localRev' = applying.rev /\ localRev <= localRev' /\ localRev' <= rev
         /\ missing' = applying.cut
         /\ \A o \in Obj : NeverReused(o) /\ touched[o] <= localRev' =>
               local'[o] = Desired[o] \/ (o \in missing' /\ local'[o] \in {0, Stripped})
<1>1. /\ applying \in Applying /\ Answer(applying)
      /\ localRev' = applying.rev /\ missing' = applying.cut
  BY Numbers DEF CommitSync, SyncInv, Answering
<1>2. ASSUME NEW o \in Obj, NeverReused(o), touched[o] <= localRev'
      PROVE  local'[o] = Desired[o] \/ (o \in missing' /\ local'[o] \in {0, Stripped})
  <2>1. local'[o] = IF o \in applying.tombs THEN 0 ELSE applying.objs[o]
    BY DEF CommitSync
  <2>2. CASE o \in applying.tombs
    <3>1. hub[o] = 0
      BY <1>1, <1>2, <2>2 DEF Answer, NeverReused
    <3>2. Desired[o] = 0
      BY <3>1 DEF Desired, Wanted
    <3> QED
      BY <2>1, <2>2, <3>2
  <2>3. CASE o \notin applying.tombs
    BY <1>1, <1>2, <2>1, <2>3 DEF Answer, AsWanted
  <2> QED
    BY <2>2, <2>3
<1> QED
  BY <1>1, <1>2 DEF Answer

LEMMA CommitStep ==
  ASSUME SyncInv, CommitSync
  PROVE  SyncInv'
<1> USE DEF SyncInv
<1>1. TypeOK'
  BY ApplyTypes
<1>2. /\ UNCHANGED <<hubData, rev, hub, tomb, label, builder, node, tick, late, down, touched,
                     greeted, run>>
      /\ applying' = Idle /\ applying.op = "APPLY" /\ ready' = TRUE /\ reconciled' = TRUE
      /\ sched' = Armed(local') \/ reloaded' = FALSE
      /\ localRev' = applying.rev
  BY DEF CommitSync, hubVars, hubData
<1>3. /\ localRev <= localRev' /\ localRev' <= rev
      /\ \A o \in Obj : NeverReused(o) /\ touched[o] <= localRev' =>
            local'[o] = Desired[o] \/ (o \in missing' /\ local'[o] \in {0, Stripped})
  BY CommitIs
<1>4. localRev \in Nat /\ localRev' \in Nat /\ rev \in Nat /\ applying \in Applying
  BY <1>2, Numbers
<1>5. Said \subseteq Said'
  <2> SUFFICES ASSUME NEW m \in Said, m.type \in {"HEARTBEAT", "REVISION_CHECK", "SYNC_ACK"}
               PROVE  m.rev <= localRev'
    BY DEF Said
  <2>1. m \in UpMessage /\ m.rev <= localRev
    BY DEF Said
  <2>2. m.rev \in Nat
    BY <2>1, UpFields, Revisions
  <2> QED
    BY <1>3, <1>4, <2>1, <2>2
<1>6. Reporting'
  <2> DEFINE m == Ack(applying.rev, TRUE)
  <2>1. m \in Said'
    <3>1. m \in UpMessage /\ m.rev = applying.rev
      BY <1>4, UpParts, Fields
    <3> HIDE DEF m
    <3>2. m \in {n \in UpMessage :
                   n.type \in {"HEARTBEAT", "REVISION_CHECK", "SYNC_ACK"} => n.rev <= localRev'}
      BY <1>2, <1>4, <3>1
    <3> QED
      BY <3>2 DEF Said
  <2>2. up \in Seq(Said') /\ late \in Seq(Said')
    BY <1>5, SeqMonotonic DEF Reporting
  <2>3. up' \in Seq(Said')
    BY <2>1, <2>2, SendIs, AppendIs DEF CommitSync
  <2>4. node.rev \in Nat /\ (tick # None => tick.rev \in Nat)
    BY Numbers, Fields, Revisions DEF TypeOK, AgentTypeOK
  <2> QED
    BY <1>2, <1>3, <1>4, <2>2, <2>3, <2>4 DEF Reporting
<1>7. Answering'
  <2>1. Desired' = Desired
    BY <1>2, DesiredKept
  <2>2. ASSUME NEW i \in DOMAIN down PROVE down[i] \in Underway'
    <3>1. down[i] \in Underway
      BY DEF Answering
    <3>2. IsAnswer(down[i]) => localRev' <= down[i].rev
      BY <1>2 DEF InOrder
    <3> QED
      BY <1>2, <2>1, <3>1, <3>2 DEF Underway, Answer, AsWanted, IsAnswer
  <2>3. down' \in Seq(Underway')
    BY <1>2, <2>2, SeqOf DEF TypeOK, WireTypeOK
  <2>4. builder'.op = "BUILD" => BuildingAnswer(builder)'
    BY <1>2, <2>1 DEF Answering, BuildingAnswer, AsWanted, InOrder
  <2> QED
    BY <1>2, <2>3, <2>4, Kinds DEF Answering
<1>8. InOrder'
  BY <1>2, InOrderKept, Kinds
<1>9. Copied'
  <2>1. Desired' = Desired
    BY <1>2, DesiredKept
  <2> QED
    BY <1>2, <1>3, <2>1 DEF Copied, AsWanted, NeverReused
<1>10. ArmedSchedulesStored' /\ Gated' /\ RunOnlyWhenReconciled'
  BY <1>2 DEF ArmedSchedulesStored, Armed, Gated, RunOnlyWhenReconciled
<1> QED
  BY <1>1, <1>6, <1>7, <1>8, <1>9, <1>10

LEMMA RollbackStep ==
  ASSUME SyncInv, RollbackSync
  PROVE  SyncInv'
<1> USE DEF SyncInv
<1>1. TypeOK'
  BY ApplyTypes
<1>2. /\ UNCHANGED <<hubData, builder, node, local, localRev, sched, ready, tick, late, down,
                     touched, missing, reloaded, reconciled, greeted, run>>
      /\ applying' = Idle
  BY DEF RollbackSync, hubVars, agentData, history
<1>3. Reporting'
  <2>1. Ack(0, FALSE) \in Said
    BY RefusalSaid
  <2>2. up' \in Seq(Said)
    BY <2>1, AppendIs DEF RollbackSync, Reporting
  <2> QED
    BY <1>2, <2>2, ReportingKept DEF Reporting
<1>4. Answering' /\ InOrder'
  <2>1. down' \in Seq(Underway)
    BY <1>2 DEF Answering
  <2> QED
    BY <1>2, <2>1, AnsweringKept, InOrderKept, Kinds
<1>5. Copied'
  BY <1>2, CopiedKept
<1>6. ArmedSchedulesStored' /\ Gated' /\ RunOnlyWhenReconciled'
  BY <1>2 DEF ArmedSchedulesStored, Armed, Gated, RunOnlyWhenReconciled
<1> QED
  BY <1>1, <1>3, <1>4, <1>5, <1>6

(* periodicLoop sends the revision it read, which can only have grown.     *)
LEMMA TickStep ==
  ASSUME SyncInv, (\E type \in Reports : ReadRevision(type)) \/ SendTick
  PROVE  SyncInv'
<1> USE DEF SyncInv
<1>1. TypeOK'
  BY TickTypes
<1>2. UNCHANGED <<hubData, builder, node, local, localRev, sched, ready, applying, late, down,
                  touched, missing, reloaded, reconciled, greeted, run>>
  BY DEF ReadRevision, SendTick, hubVars, agentData, history
<1>3. Reporting'
  <2>1. CASE SendTick
    <3>1. tick \in Tick /\ tick.rev <= localRev
      BY <2>1 DEF SendTick, Reporting, TypeOK, AgentTypeOK
    <3>2. tick \in Said
      BY <3>1, Fields DEF Said
    <3>3. up' \in Seq(Said)
      BY <2>1, <3>2, SendSaid DEF SendTick, Reporting
    <3> QED
      BY <1>2, <2>1, <3>3 DEF SendTick, Reporting, Said
  <2>2. CASE \E type \in Reports : ReadRevision(type)
    <3>1. (tick'.rev = localRev \/ tick'.rev = 0) /\ up' = up
      BY <2>2 DEF ReadRevision
    <3>2. localRev <= localRev /\ 0 <= localRev
      BY Numbers
    <3> QED
      BY <1>2, <3>1, <3>2 DEF Reporting, Said
  <2> QED
    BY <2>1, <2>2
<1>4. Answering' /\ InOrder'
  <2>1. down' \in Seq(Underway)
    BY <1>2 DEF Answering
  <2> QED
    BY <1>2, <2>1, AnsweringKept, InOrderKept
<1>5. Copied'
  BY <1>2, CopiedKept
<1>6. ArmedSchedulesStored' /\ Gated' /\ RunOnlyWhenReconciled'
  BY <1>2 DEF ArmedSchedulesStored, Armed, Gated, RunOnlyWhenReconciled
<1> QED
  BY <1>1, <1>3, <1>4, <1>5, <1>6

LEMMA StutterStep ==
  ASSUME SyncInv, UNCHANGED vars
  PROVE  SyncInv'
<1> USE DEF SyncInv
<1>1. UNCHANGED <<hubData, builder, node, local, localRev, sched, ready, applying, tick, up, late,
                  down, touched, missing, reloaded, reconciled, greeted, run>>
  BY DEF vars, hubVars, agentVars, agentData, wire, history
<1>2. TypeOK'
  BY TypeStep
<1>3. Reporting'
  BY <1>1, ReportingKept DEF Reporting
<1>4. Answering' /\ InOrder'
  <2>1. down' \in Seq(Underway)
    BY <1>1 DEF Answering
  <2> QED
    BY <1>1, <2>1, AnsweringKept, InOrderKept
<1>5. Copied'
  BY <1>1, CopiedKept
<1>6. ArmedSchedulesStored' /\ Gated' /\ RunOnlyWhenReconciled'
  BY <1>1 DEF ArmedSchedulesStored, Armed, Gated, RunOnlyWhenReconciled
<1> QED
  BY <1>2, <1>3, <1>4, <1>5, <1>6

LEMMA SyncStep == SyncInv /\ [Next]_vars => SyncInv'
<1> SUFFICES ASSUME SyncInv, [Next]_vars PROVE SyncInv'
  OBVIOUS
<1>1. CASE UNCHANGED vars
  BY <1>1, StutterStep
<1>2. CASE Next
  BY <1>2, OperatorStep, LinkStep, ReportStep, HubSendStep, BuildStep, RespondStep,
     AgentReadStep, CommitStep, RollbackStep, TickStep DEF Next
<1> QED
  BY <1>1, <1>2

(* Without reuse of IDs, what was deleted stays deleted.                   *)
LEMMA ReusedStep ==
  ASSUME SyncInv, NoneReused, [Next]_vars
  PROVE  NoneReused'
<1>1. CASE UNCHANGED hubData
  BY <1>1, ReusedKept
<1>2. CASE (\E o \in Obj : PutObject(o) \/ DeleteObject(o)) \/ SetLabels
  <2>1. hub \in [Obj -> Revision] /\ tomb \in [Obj -> Revision]
    BY DEF SyncInv, TypeOK, HubTypeOK, Objects
  <2>2. CASE \E o \in Obj : PutObject(o)
    BY <2>1, <2>2 DEF PutObject, NoneReused, NeverReused
  <2>3. CASE \E o \in Obj : DeleteObject(o)
    BY <2>1, <2>3 DEF DeleteObject, NoneReused, NeverReused
  <2>4. CASE SetLabels
    BY <2>4 DEF SetLabels, NoneReused, NeverReused
  <2> QED
    BY <1>2, <2>2, <2>3, <2>4
<1>3. ASSUME Next, ~((\E o \in Obj : PutObject(o) \/ DeleteObject(o)) \/ SetLabels)
      PROVE  UNCHANGED hubData
  <2>1. CASE Connect \/ Disconnect \/ HubRestart \/ AgentRestart
    BY <2>1 DEF Connect, Disconnect, HubRestart, AgentRestart, hubVars
  <2>2. CASE \/ \E n \in unnotified : Notify(n)
             \/ HandleHello \/ SendHelloAck \/ DispatchToAgent
    BY <2>2 DEF Notify, HandleHello, SendHelloAck, DispatchToAgent, hubVars
  <2>3. CASE HandleHeartbeat \/ HandleRevisionCheck \/ HandleSyncAck
    BY <2>3 DEF HandleHeartbeat, HandleRevisionCheck, HandleSyncAck, Unreported
  <2>4. CASE HandleSyncRequest \/ ReadNode \/ ReadTable \/ AbandonSync \/ SendSyncResponse
    BY <2>4 DEF HandleSyncRequest, ReadNode, ReadTable, AbandonSync, SendSyncResponse, unread,
                Unreported
  <2>5. CASE \/ OnHelloAck \/ OnRevision \/ OnSyncResponse \/ RefuseSync \/ OnRunExecution
             \/ CommitSync \/ RollbackSync
    BY <2>5 DEF OnHelloAck, OnRevision, OnSyncResponse, RefuseSync, OnRunExecution, CommitSync,
                RollbackSync, hubVars
  <2>6. CASE (\E type \in Reports : ReadRevision(type)) \/ SendTick
    BY <2>6 DEF ReadRevision, SendTick, hubVars
  <2> QED
    BY <1>3, <2>1, <2>2, <2>3, <2>4, <2>5, <2>6 DEF Next
<1>4. CASE UNCHANGED vars
  BY <1>4, ReusedKept DEF vars, hubVars
<1> QED
  BY <1>1, <1>2, <1>3, <1>4

LEMMA CopyIsComplete ==
  ASSUME SyncInv, NoneReused, ~ReuseIds
  PROVE  AppliedComplete /\ SyncedNodeIsCurrent
<1>1. AppliedComplete
  BY DEF SyncInv, Copied, NoneReused, AppliedComplete
<1>2. ASSUME node.status = "synced", node.rev = rev
      PROVE  \A o \in Obj : AsWanted(o, local, missing)
  <2>1. localRev = rev
    BY <1>2, Numbers DEF SyncInv, Reporting, Copied
  <2> QED
    BY <1>1, <2>1 DEF AppliedComplete, SyncInv, Answering
<1> QED
  BY <1>1, <1>2 DEF SyncedNodeIsCurrent

-----------------------------------------------------------------------------
(* The refinement, step by step. *)

LEMMA ReplicaInit == Init => Replica!Init
<1> SUFFICES ASSUME Init PROVE Replica!Init
  OBVIOUS
<1>1. Desired = [o \in Obj |-> 0]
  BY DEF Init, Desired, Wanted
<1> QED
  BY <1>1 DEF Init, Replica!Init

(* What the Agent holds changes when a sync commits, and only then.        *)
LEMMA ReplicaStep ==
  ASSUME SyncInv, NoneReused, ~ReuseIds, [Next]_vars, SyncInv'
  PROVE  [Replica!Next]_(Replica!vars)
<1>1. CASE (\E o \in Obj : PutObject(o) \/ DeleteObject(o)) \/ SetLabels
  <2> DEFINE concerned == {o \in Obj : touched'[o] = rev'}
  <2>1. TypeOK /\ TypeOK'
    BY DEF SyncInv
  <2>2. /\ rev' = rev + 1
        /\ UNCHANGED <<local, localRev, missing>>
        /\ \A o \in Obj \ concerned : touched'[o] = touched[o] /\ Desired'[o] = Desired[o]
    BY <1>1, <2>1, OperatorChanges DEF agentVars, agentData
  <2>3. Desired' \in [Obj -> Revision \cup {Stripped}]
    BY <2>1, Revisions DEF TypeOK, HubTypeOK, Desired, Wanted, Objects
  <2>4. touched' = [o \in Obj |-> IF o \in concerned THEN rev' ELSE touched[o]]
    BY <2>1, <2>2 DEF TypeOK, HistoryTypeOK, Objects
  <2>5. Replica!Change
    BY <2>2, <2>3, <2>4 DEF Replica!Change
  <2> QED
    BY <2>5 DEF Replica!Next
<1>2. CASE CommitSync
  <2>1. /\ localRev' \in localRev..rev
        /\ \A o \in Obj : touched[o] <= localRev' =>
              local'[o] = Desired[o] \/ (o \in missing' /\ local'[o] \in {0, Stripped})
    <3>1. TypeOK /\ localRev' \in Nat
      BY Revisions DEF SyncInv, TypeOK, AgentTypeOK
    <3>2. rev \in Nat /\ localRev \in Nat
      BY <3>1, Numbers
    <3>3. /\ localRev <= localRev' /\ localRev' <= rev
          /\ \A o \in Obj : NeverReused(o) /\ touched[o] <= localRev' =>
                local'[o] = Desired[o] \/ (o \in missing' /\ local'[o] \in {0, Stripped})
      BY <1>2, CommitIs
    <3>4. \A o \in Obj : NeverReused(o)
      BY DEF NoneReused
    <3> QED
      BY <3>1, <3>2, <3>3, <3>4
  <2>2. local' \in [Obj -> Revision \cup {Stripped}] /\ missing' \subseteq Single
    BY DEF SyncInv, TypeOK, AgentTypeOK, HistoryTypeOK, Copies
  <2>3. UNCHANGED <<rev, Desired, touched>>
    BY <1>2, DesiredKept DEF CommitSync, hubVars, hubData
  <2> QED
    BY <2>1, <2>2, <2>3 DEF Replica!Next, Replica!Sync
<1>3. ASSUME UNCHANGED <<hubData, touched, missing, local, localRev>>
      PROVE  UNCHANGED Replica!vars
  BY <1>3, DesiredKept DEF Replica!vars, hubData
<1>4. CASE Connect \/ Disconnect \/ HubRestart \/ AgentRestart
  BY <1>3, <1>4 DEF Connect, Disconnect, HubRestart, AgentRestart, hubVars, agentVars, agentData,
                    history
<1>5. CASE \/ \E n \in unnotified : Notify(n)
           \/ HandleHello \/ SendHelloAck \/ DispatchToAgent
  BY <1>3, <1>5 DEF Notify, HandleHello, SendHelloAck, DispatchToAgent, hubVars, agentVars,
                    agentData, history
<1>6. CASE HandleHeartbeat \/ HandleRevisionCheck \/ HandleSyncAck
  BY <1>3, <1>6 DEF HandleHeartbeat, HandleRevisionCheck, HandleSyncAck, Unreported, agentVars,
                    agentData, history
<1>7. CASE HandleSyncRequest \/ ReadNode \/ ReadTable \/ AbandonSync \/ SendSyncResponse
  BY <1>3, <1>7 DEF HandleSyncRequest, ReadNode, ReadTable, AbandonSync, SendSyncResponse, unread,
                    Unreported, agentVars, agentData, history
<1>8. CASE OnHelloAck \/ OnRevision \/ OnSyncResponse \/ RefuseSync \/ OnRunExecution \/ RollbackSync
  BY <1>3, <1>8 DEF OnHelloAck, OnRevision, OnSyncResponse, RefuseSync, OnRunExecution, RollbackSync,
                    hubVars, agentVars, agentData, history
<1>9. CASE (\E type \in Reports : ReadRevision(type)) \/ SendTick
  BY <1>3, <1>9 DEF ReadRevision, SendTick, hubVars, agentData, history
<1>10. CASE UNCHANGED vars
  BY <1>3, <1>10 DEF vars, hubVars, agentVars, agentData, history
<1> QED
  BY <1>1, <1>2, <1>4, <1>5, <1>6, <1>7, <1>8, <1>9, <1>10 DEF Next

-----------------------------------------------------------------------------

LEMMA SyncInvariant == Spec => []SyncInv
BY SyncInit, SyncStep, PTL DEF Spec

LEMMA ReuseInvariant == Spec => [](SyncInv /\ NoneReused)
<1>1. Init => SyncInv /\ NoneReused
  BY SyncInit
<1>2. SyncInv /\ NoneReused /\ [Next]_vars => (SyncInv /\ NoneReused)'
  BY SyncStep, ReusedStep
<1> QED
  BY <1>1, <1>2, PTL DEF Spec

(* Every variable of ConfigSync holds a value of its kind.                 *)
THEOREM TypesCorrect == Spec => []TypeOK
<1>1. SyncInv => TypeOK
  BY DEF SyncInv
<1> QED
  BY <1>1, SyncInvariant, PTL

(* The Hub never records a revision that the Agent has not made durable:   *)
(* handleHeartbeat, handleRevisionCheck and handleSyncAck write what the   *)
(* Agent said at some time, and its revision has not fallen since.         *)
THEOREM HubRecordIsDurable == Spec => []NodeNeverAhead
<1>1. SyncInv => NodeNeverAhead
  BY DEF SyncInv, Reporting, NodeNeverAhead
<1> QED
  BY <1>1, SyncInvariant, PTL

(* The scheduler holds no schedule that applySync has removed from the     *)
(* Agent's database, unless the reload after that could not read them.     *)
THEOREM SchedulerHoldsStored == Spec => []ArmedSchedulesStored
<1>1. SyncInv => ArmedSchedulesStored
  BY DEF SyncInv
<1> QED
  BY <1>1, SyncInvariant, PTL

(* OnRunExecution accepts an execution after HELLO_ACK only once a sync    *)
(* has been applied on the connection.                                     *)
THEOREM RunsWait == Spec => []RunOnlyWhenReconciled
<1>1. SyncInv => RunOnlyWhenReconciled
  BY DEF SyncInv
<1> QED
  BY <1>1, SyncInvariant, PTL

(* Each object that was not created under a deleted one's ID is, if        *)
(* nothing has touched it since the revision the Agent is at, as the Hub   *)
(* wants it, whatever happens to the IDs of the others (applySync against  *)
(* ComputeDesiredState), or was cut from the response last applied by a    *)
(* failing SELECT of its own, and is absent or without its artifact.       *)
THEOREM ObjectsComplete == Spec => []Copied
<1>1. SyncInv => Copied
  BY DEF SyncInv
<1> QED
  BY <1>1, SyncInvariant, PTL

(* If no object is created under a deleted one's ID, applySync leaves the  *)
(* Agent with everything that was not touched since the revision it is at, *)
(* although the Hub's SELECTs see different states, but for what failing   *)
(* ones cut from the response: that is never there in an older version.    *)
THEOREM CopyComplete ==
  ASSUME ~ReuseIds
  PROVE  Spec => []AppliedComplete
<1>1. SyncInv /\ NoneReused => AppliedComplete
  BY CopyIsComplete
<1> QED
  BY <1>1, ReuseInvariant, PTL

(* And a node that the Hub shows as synced at the current revision has the *)
(* desired state but for what was cut from the response it applied last,   *)
(* whatever was lost or restarted on the way.                              *)
THEOREM SyncedIsCurrent ==
  ASSUME ~ReuseIds
  PROVE  Spec => []SyncedNodeIsCurrent
<1>1. SyncInv /\ NoneReused => SyncedNodeIsCurrent
  BY CopyIsComplete
<1> QED
  BY <1>1, ReuseInvariant, PTL

(* The Hub's ComputeDesiredState and the Agent's applySync, with everything*)
(* between them, implement DesiredState: the copy changes in one step, to  *)
(* a complete state but for objects whose own SELECT failed, which it then *)
(* lacks in whole or in part, and its revision never falls.                *)
THEOREM ImplementsDesiredState ==
  ASSUME ~ReuseIds
  PROVE  Spec => ImplementsReplica
<1>1. Init => Replica!Init
  BY ReplicaInit
<1>2. SyncInv /\ NoneReused /\ SyncInv' /\ [Next]_vars => [Replica!Next]_(Replica!vars)
  BY ReplicaStep
<1> QED
  BY <1>1, <1>2, ReuseInvariant, PTL DEF Spec, ImplementsReplica

=============================================================================
