---------------------------- MODULE FileRelayProofs ----------------------------
(***************************************************************************)
(* One file transfer, for any nodes, file size, number of attempts and     *)
(* number of requests and faults: its types, that a destination is whole,  *)
(* that SUCCESS means delivered, and who undoes a cancellation.            *)
(*                                                                         *)
(* The handlers write back copies that may be stale, so nothing follows    *)
(* from the rows alone.  What makes the transfer correct is that every     *)
(* copy, message and goroutine carries only what has been true: a hash     *)
(* that was staged, and a success only of a target that got such a file.   *)
(* Both stay true, because files are only ever added to the staged ones    *)
(* and a destination is only ever replaced by one of them.                 *)
(***************************************************************************)
EXTENDS FileRelay, SequenceTheorems, TLAPS

-----------------------------------------------------------------------------
(* The inductive invariant.  St stands for the contents staged so far, D   *)
(* for the targets that have one of them: both only grow.                  *)

Delivered == {n \in Target : dest[n] \in staged}

(* A row, or a copy of it, has the hash of a staged file, and the targets  *)
(* it shows as done have one.                                              *)
RowOK(r, t, St, D) ==
    /\ r \in Transfer /\ t \in Targets
    /\ r.sha \in St \cup {Nothing}
    /\ \A n \in Target : t[n] = "SUCCESS" => n \in D

(* Past the check that the transfer is not canceled. *)
Decided(j) ==
    \/ j.step \in {"sendSource", "aggregate", "redispatch"}
    \/ j.step = "loop" /\ j.op = "RETRY"
    \/ j.step = "send" /\ j.op # "CANCEL"

(* What a job is about to write or send is as good; one that can undo a    *)
(* cancellation has a copy of the transfer from before it.                 *)
Good(a, j, St, D) ==
    /\ j \in Job
    /\ j.step # "stage" => j.row.sha \in St \cup {Nothing}
    /\ j.step = "stage" => Len(j.row.sha) = Chunks /\ j.row.status = "DELIVERING"
    /\ \A n \in Target : j.target[n] = "SUCCESS" => n \in D
    /\ j.op = "DELIVERY" /\ j.ok /\ a[2] \in Target => a[2] \in D
    /\ j.step = "send" /\ j.op # "CANCEL" => j.row.sha # Nothing
    /\ j.step \in {"source", "sendSource"} => j.op \in {"SOURCE", "RESUME"}
    /\ j.step = "redispatch" => j.op = "RETRY"
    /\ Decided(j) => j.row.status # "CANCELED"

(* A delivery is of a staged file; a target that reports success has one.  *)
Sent(St) == {m \in DownMessage : m.type = "DELIVER" => m.sha \in St}
Said(n, D) == {m \in UpMessage : m.type = "DELIVERY" /\ m.ok /\ n \in Target => n \in D}
Working(St) == {w \in Uploader \cup Downloader \cup {NoWorker} : w.kind = "DELIVER" => w.sha \in St}

(* A cancel function that is kept belongs to a goroutine. *)
Handled(w, h) == \A n \in Node : h[n] # NoSlot => w[<<n, h[n]>>] # NoWorker

HubOK ==
    /\ RowOK(row, target, staged, Delivered)
    /\ row.status = "SUCCESS" => Target \subseteq Delivered
    /\ part \in Content /\ blob \in Content /\ staged \subseteq Content
    /\ \A c \in staged : Len(c) = Chunks
    /\ At(Upload, "copy") => Len(part) < Chunks
    /\ At(Upload, "promote") => Len(part) = Chunks
JobsOK ==
    /\ job \in [Actor -> Job \cup {NoJob}]
    /\ \A a \in Actor : job[a] = NoJob \/ Good(a, job[a], staged, Delivered)
AgentsOK ==
    /\ file \in 0..MaxVersion
    /\ worker \in [Node \X Slot -> Working(staged)]
    /\ handle \in [Node -> Slot \cup {NoSlot}] /\ Handled(worker, handle)
    /\ dest \in [Target -> staged \cup {Nothing}]
WireOK ==
    /\ link \in [Node -> BOOLEAN]
    /\ up \in [Node -> Seq(UpMessage)] /\ down \in [Node -> Seq(Sent(staged))]
    /\ \A n \in Node : up[n] \in Seq(Said(n, Delivered))
BoundsOK == faults \in 0..MaxFaults /\ requests \in 0..MaxRequests

RelayInv == HubOK /\ JobsOK /\ AgentsOK /\ WireOK /\ BoundsOK

-----------------------------------------------------------------------------
(* Facts about the constants and the records. *)

LEMMA Actors ==
  /\ Upload \in Actor /\ Operator \in Actor /\ Upload # Operator
  /\ \A n \in Node : /\ <<"gateway", n>> \in Actor /\ <<"late", n>> \in Actor
                     /\ <<"gateway", n>> # <<"late", n>>
                     /\ <<"gateway", n>> \notin {Upload, Operator}
                     /\ <<"late", n>> \notin {Upload, Operator}
                     /\ <<"gateway", n>>[2] = n /\ <<"late", n>>[2] = n
  /\ Upload[2] = Source /\ Operator[2] = Source
  /\ Source \in Node /\ Target \subseteq Node
  /\ \A a \in Actor : a[2] \in Node
BY DEF Actor, Upload, Operator, Node

(* A file is a sequence of versions that is no longer than the whole one.  *)
LEMMA ContentIs ==
  /\ Nothing \in Content /\ Len(Nothing) = 0
  /\ \A s \in Content : s \in Seq(0..MaxVersion) /\ Len(s) \in 0..Chunks
  /\ \A s \in Content, v \in 0..MaxVersion :
        Len(s) < Chunks => Append(s, v) \in Content /\ Len(Append(s, v)) = Len(s) + 1
<1>0. Chunks \in Nat /\ 0 \in 0..Chunks
  BY ConstantsAssumption
<1>1. ASSUME NEW k \in 0..Chunks, NEW s \in [1..k -> 0..MaxVersion]
      PROVE  s \in Seq(0..MaxVersion) /\ Len(s) = k
  <2>1. s \in Seq(0..MaxVersion)
    <3> DEFINE V == 0..MaxVersion
    <3>1. k \in Nat /\ s \in [1..k -> V]
      BY <1>0
    <3> HIDE DEF V
    <3>2. s \in Seq(V)
      BY <3>1, SeqDef
    <3> QED
      BY <3>2 DEF V
  <2>2. DOMAIN s = 1..k /\ DOMAIN s = 1..Len(s) /\ Len(s) \in Nat /\ k \in Nat
    BY <1>0, <2>1, LenProperties
  <2> QED
    BY <2>1, <2>2
<1>2. \A s \in Content : s \in Seq(0..MaxVersion) /\ Len(s) \in 0..Chunks
  BY <1>1 DEF Content
<1>3. ASSUME NEW s \in Seq(0..MaxVersion), Len(s) \in 0..Chunks PROVE s \in Content
  <2>1. s \in [1..Len(s) -> 0..MaxVersion]
    BY LenProperties
  <2> QED
    BY <1>3, <2>1 DEF Content
<1>4. Nothing \in Content /\ Len(Nothing) = 0
  <2>1. <<>> \in Seq(0..MaxVersion) /\ Len(<<>>) = 0
    OBVIOUS
  <2> QED
    BY <1>0, <1>3, <2>1 DEF Nothing
<1>5. ASSUME NEW s \in Content, NEW v \in 0..MaxVersion, Len(s) < Chunks
      PROVE  Append(s, v) \in Content /\ Len(Append(s, v)) = Len(s) + 1
  <2>1. s \in Seq(0..MaxVersion) /\ Len(s) \in Nat
    BY <1>2
  <2>2. Append(s, v) \in Seq(0..MaxVersion) /\ Len(Append(s, v)) = Len(s) + 1
    BY <2>1
  <2> QED
    <3>1. Len(Append(s, v)) \in 0..Chunks
      BY <1>0, <1>5, <2>1, <2>2
    <3> QED
      BY <1>3, <2>2, <3>1
<1> QED
  BY <1>2, <1>4, <1>5

LEMMA Kinds ==
  /\ NewRow \in Transfer /\ NewRow.sha = Nothing /\ NewRow.status = "PENDING"
  /\ NewTargets \in Targets /\ \A n \in Target : NewTargets[n] = "PENDING"
  /\ NoJob \notin Job /\ NoJob.op = "NONE"
  /\ NoWorker.kind = "NONE" /\ ~NoWorker.canceled
  /\ \A w \in Uploader \cup Downloader : w # NoWorker /\ w.kind # "NONE"
  /\ NoSlot \notin Slot
BY ContentIs DEF NewRow, Transfer, TransferStatus, NewTargets, Targets, TargetStatus, NoJob, Job, Op,
                 NoWorker, Uploader, Downloader, NoSlot, Slot

(* The parts of a job. *)
LEMMA JobParts ==
  ASSUME NEW j \in Job
  PROVE  /\ j.op \in Op /\ j.row \in Transfer /\ j.target \in Targets
         /\ j.todo \subseteq Target /\ j.sending \subseteq Target /\ j.ok \in BOOLEAN
         /\ j.offset \in 0..Chunks /\ j.conn \in BOOLEAN
         /\ j # NoJob
         /\ j.row.status \in TransferStatus /\ j.row.sha \in Content
         /\ \A n \in Target : j.target[n] \in TargetStatus
BY Kinds DEF Job, Transfer, Targets

LEMMA TaskIs ==
  \A op \in Op, step \in {"row", "targets", "act", "source"}, todo \in SUBSET Target, ok \in BOOLEAN :
      /\ Task(op, step, todo, ok) \in Job
      /\ Task(op, step, todo, ok).op = op /\ Task(op, step, todo, ok).step = step
      /\ Task(op, step, todo, ok).todo = todo /\ Task(op, step, todo, ok).ok = ok
      /\ Task(op, step, todo, ok).row = NewRow /\ Task(op, step, todo, ok).target = NewTargets
      /\ Task(op, step, todo, ok).offset = 0
<1>1. 0 \in 0..Chunks
  BY ConstantsAssumption
<1> QED
  BY <1>1, Kinds DEF Task, Job

(* Going on with a job.                                                    *)
LEMMA StepIs ==
  ASSUME NEW j \in Job,
         NEW s \in {"row", "targets", "act", "source", "sendSource", "copy", "promote", "stage",
                    "aggregate", "loop", "redispatch", "send"}
  PROVE  LET k == [j EXCEPT !.step = s] IN
         /\ k \in Job /\ k.step = s /\ k.op = j.op /\ k.row = j.row /\ k.target = j.target
         /\ k.todo = j.todo /\ k.sending = j.sending /\ k.ok = j.ok /\ k.offset = j.offset
BY DEF Job

LEMMA RowIs ==
  ASSUME NEW j \in Job, NEW r \in Transfer
  PROVE  LET k == [j EXCEPT !.row = r] IN
         /\ k \in Job /\ k.step = j.step /\ k.op = j.op /\ k.row = r /\ k.target = j.target
         /\ k.todo = j.todo /\ k.sending = j.sending /\ k.ok = j.ok /\ k.offset = j.offset
BY DEF Job

LEMMA TargetsAre ==
  ASSUME NEW j \in Job, NEW t \in Targets
  PROVE  LET k == [j EXCEPT !.target = t] IN
         /\ k \in Job /\ k.step = j.step /\ k.op = j.op /\ k.row = j.row /\ k.target = t
         /\ k.todo = j.todo /\ k.sending = j.sending /\ k.ok = j.ok /\ k.offset = j.offset
BY DEF Job

LEMMA StatusIs ==
  ASSUME NEW r \in Transfer, NEW s \in TransferStatus
  PROVE  LET q == [r EXCEPT !.status = s] IN q \in Transfer /\ q.status = s /\ q.sha = r.sha
BY DEF Transfer

-----------------------------------------------------------------------------
(* The invariant at the start, and what keeps its parts.                   *)

LEMMA RelayInit == Init => RelayInv
<1> SUFFICES ASSUME Init PROVE RelayInv
  OBVIOUS
<1>1. /\ row = NewRow /\ target = NewTargets /\ part = Nothing /\ blob = Nothing /\ staged = {}
      /\ \A a \in Actor : job[a] = IF a = Operator THEN Task("SOURCE", "source", {}, TRUE) ELSE NoJob
  BY DEF Init
<1>2. HubOK
  BY <1>1, Actors, Kinds, ContentIs DEF HubOK, RowOK, At
<1>3. JobsOK
  <2> DEFINE t == Task("SOURCE", "source", {}, TRUE)
  <2>1. t \in Job /\ t.op = "SOURCE" /\ t.step = "source" /\ t.row = NewRow /\ t.target = NewTargets
    <3>1. "SOURCE" \in Op /\ "source" \in {"row", "targets", "act", "source"}
          /\ {} \in SUBSET Target /\ TRUE \in BOOLEAN
      BY DEF Op
    <3>2. 0 \in 0..Chunks
      BY ConstantsAssumption
    <3> QED
      BY <3>1, <3>2, Kinds DEF Task, Job
  <2> HIDE DEF t
  <2>2. Good(Operator, t, staged, Delivered)
    BY <2>1, Kinds DEF Good, Decided
  <2>3. job = [a \in Actor |-> IF a = Operator THEN t ELSE NoJob]
    BY DEF Init, t
  <2> QED
    BY <2>1, <2>2, <2>3 DEF JobsOK
<1>4. AgentsOK
  <2>1. NoWorker \in Working(staged) /\ 0 \in 0..MaxVersion
    BY Kinds, ConstantsAssumption DEF Working
  <2> QED
    BY <2>1 DEF Init, AgentsOK, Handled
<1>5. WireOK
  <2>1. <<>> \in Seq(UpMessage) /\ <<>> \in Seq(Sent(staged)) /\ \A n : <<>> \in Seq(Said(n, Delivered))
    OBVIOUS
  <2> QED
    BY <2>1 DEF Init, WireOK
<1>6. BoundsOK
  BY ConstantsAssumption DEF Init, BoundsOK
<1> QED
  BY <1>2, <1>3, <1>4, <1>5, <1>6 DEF RelayInv

(* More contents staged, more targets that have one.                       *)
LEMMA Grows ==
  ASSUME NEW St, NEW St2, NEW D, NEW D2, St \subseteq St2, D \subseteq D2
  PROVE  /\ \A a, j : Good(a, j, St, D) => Good(a, j, St2, D2)
         /\ \A r, t : RowOK(r, t, St, D) => RowOK(r, t, St2, D2)
         /\ \A q : q \in Seq(Sent(St)) => q \in Seq(Sent(St2))
         /\ \A n, q : q \in Seq(Said(n, D)) => q \in Seq(Said(n, D2))
         /\ Working(St) \subseteq Working(St2)
<1>1. \A a, j : Good(a, j, St, D) => Good(a, j, St2, D2)
  BY DEF Good
<1>2. \A r, t : RowOK(r, t, St, D) => RowOK(r, t, St2, D2)
  BY DEF RowOK
<1>3. Sent(St) \subseteq Sent(St2) /\ Working(St) \subseteq Working(St2)
  BY DEF Sent, Working
<1>4. \A n : Said(n, D) \subseteq Said(n, D2)
  BY DEF Said
<1>5. \A q : q \in Seq(Sent(St)) => q \in Seq(Sent(St2))
  BY <1>3, SeqMonotonic
<1>6. \A n, q : q \in Seq(Said(n, D)) => q \in Seq(Said(n, D2))
  BY <1>4, SeqMonotonic
<1> QED
  BY <1>1, <1>2, <1>3, <1>5, <1>6

(* A handler's step on the rows and the wire: it leaves the disk and the   *)
(* Agents alone.                                                           *)
HubFrame ==
    /\ UNCHANGED <<part, blob, staged, file, worker, handle, dest, link, up, faults, requests>>
    /\ RowOK(row', target', staged, Delivered)
    /\ row'.status = "SUCCESS" => Target \subseteq Delivered
    /\ down' \in [Node -> Seq(Sent(staged))]

LEMMA JobsKept ==
  ASSUME JobsOK, NEW a \in Actor, NEW j, Go(a, j), j = NoJob \/ Good(a, j, staged, Delivered),
         UNCHANGED <<staged, dest>>
  PROVE  JobsOK'
<1>1. job' \in [Actor -> Job \cup {NoJob}]
  BY DEF JobsOK, Go, Good
<1>2. Delivered' = Delivered
  BY DEF Delivered
<1>3. \A b \in Actor : job'[b] = NoJob \/ Good(b, job'[b], staged, Delivered)
  BY DEF JobsOK, Go
<1>4. \A b \in Actor : job'[b] = NoJob \/ Good(b, job'[b], staged', Delivered')
  BY <1>2, <1>3
<1> QED
  BY <1>1, <1>4 DEF JobsOK

LEMMA HandlerFrame ==
  ASSUME RelayInv, NEW a \in Actor, NEW j, Go(a, j), HubFrame,
         j = NoJob \/ (Good(a, j, staged, Delivered) /\ j.step \notin {"copy", "promote"})
  PROVE  RelayInv'
<1>1. Delivered' = Delivered
  BY DEF Delivered, HubFrame
<1>2. JobsOK'
  BY JobsKept DEF RelayInv, HubFrame
<1>3. job'[Upload] = job[Upload] \/ job'[Upload] = j
  BY Actors DEF Go, RelayInv, JobsOK
<1>4. HubOK'
  <2>1. RowOK(row', target', staged', Delivered') /\ (row'.status = "SUCCESS" => Target \subseteq Delivered')
    BY <1>1 DEF HubFrame
  <2>2. UNCHANGED <<part, blob, staged>>
    BY DEF HubFrame
  <2>3. At(Upload, "copy")' => At(Upload, "copy")
    BY <1>3 DEF At
  <2>4. At(Upload, "promote")' => At(Upload, "promote")
    BY <1>3 DEF At
  <2> QED
    BY <2>1, <2>2, <2>3, <2>4 DEF RelayInv, HubOK
<1>5. AgentsOK'
  BY DEF RelayInv, HubFrame, AgentsOK
<1>6. WireOK'
  BY <1>1 DEF RelayInv, HubFrame, WireOK
<1> QED
  BY <1>2, <1>4, <1>5, <1>6 DEF RelayInv, BoundsOK, HubFrame

(* What a message adds to a wire. *)
LEMMA PostIs ==
  ASSUME RelayInv, NEW n \in Node, NEW m \in Sent(staged), Post(n, m)
  PROVE  down' \in [Node -> Seq(Sent(staged))]
<1>1. down \in [Node -> Seq(Sent(staged))] /\ down[n] \in Seq(Sent(staged))
  BY DEF RelayInv, WireOK
<1>2. Append(down[n], m) \in Seq(Sent(staged))
  BY <1>1
<1> QED
  BY <1>1, <1>2 DEF Post

(* A job that goes on to its next target.                                  *)
LEMMA LoopIs ==
  ASSUME RelayInv, NEW a \in Actor, NEW j, Good(a, j, staged, Delivered), j.step # "stage",
         j.op = "RETRY" => j.row.status # "CANCELED", Loop(a, j), HubFrame
  PROVE  RelayInv'
<1> DEFINE k == [j EXCEPT !.step = "loop", !.sending = {}]
<1>1. /\ k \in Job /\ k.step = "loop" /\ k.op = j.op /\ k.row = j.row /\ k.target = j.target
      /\ k.ok = j.ok
  BY DEF Good, Job
<1>2. Good(a, k, staged, Delivered)
  <2> HIDE DEF k
  <2> QED
    BY <1>1 DEF Good, Decided
<1>3. Go(a, NoJob) \/ Go(a, k)
  BY DEF Loop
<1> HIDE DEF k
<1> QED
  BY <1>1, <1>2, <1>3, HandlerFrame

-----------------------------------------------------------------------------
(* Steps: the handlers of the Hub. *)

LEMMA JobAt ==
  ASSUME RelayInv, NEW a \in Actor, NEW s, At(a, s)
  PROVE  /\ Good(a, job[a], staged, Delivered) /\ job[a] \in Job /\ job[a].step = s
         /\ job[a].row \in Transfer /\ job[a].target \in Targets
         /\ RowOK(row, target, staged, Delivered) /\ row \in Transfer /\ target \in Targets
         /\ row.status = "SUCCESS" => Target \subseteq Delivered
BY JobParts DEF RelayInv, JobsOK, HubOK, RowOK, At, Good

(* Reading the transfer gives a copy that is as good as the row.           *)
LEMMA WithTransferIs ==
  ASSUME RelayInv, NEW a, NEW j, Good(a, j, staged, Delivered)
  PROVE  LET k == WithTransfer(j) IN
         /\ Good(a, k, staged, Delivered) /\ k.step \in {"act", "targets"}
         /\ k.row = row /\ k.op = j.op /\ k.target = j.target /\ k.todo = j.todo
<1> DEFINE s == IF j.op = "FAILURE" THEN "act" ELSE "targets"
           k == WithTransfer(j)
<1>1. row \in Transfer /\ row.sha \in staged \cup {Nothing} /\ j \in Job /\ s \in {"act", "targets"}
  BY DEF RelayInv, HubOK, RowOK, Good
<1>2. k = [j EXCEPT !.row = row, !.step = s]
  BY DEF WithTransfer
<1> HIDE DEF s
<1>3. /\ k \in Job /\ k.step = s /\ k.row = row /\ k.op = j.op /\ k.target = j.target
      /\ k.ok = j.ok /\ k.todo = j.todo
  BY <1>1, <1>2 DEF Job
<1> HIDE DEF k
<1>4. Good(a, k, staged, Delivered)
  BY <1>1, <1>3 DEF Good, Decided
<1> QED
  BY <1>1, <1>3, <1>4 DEF k

(* Steps that only go on with the job. *)
LEMMA OnlyJobFrame ==
  ASSUME RelayInv, OnlyJob
  PROVE  HubFrame
BY DEF RelayInv, HubOK, WireOK, OnlyJob, HubFrame, disk, agentVars, wire, bounds

LEMMA ReadTransferStep ==
  ASSUME RelayInv, NEW a \in Actor, ReadTransfer(a)
  PROVE  RelayInv'
<1>1. Good(a, job[a], staged, Delivered) /\ HubFrame
  BY JobAt, OnlyJobFrame DEF ReadTransfer
<1>2. Good(a, WithTransfer(job[a]), staged, Delivered) /\ WithTransfer(job[a]).step \in {"act", "targets"}
  BY <1>1, WithTransferIs
<1>3. Go(a, WithTransfer(job[a]))
  BY DEF ReadTransfer
<1> QED
  BY <1>1, <1>2, <1>3, HandlerFrame

LEMMA ReadTargetsStep ==
  ASSUME RelayInv, NEW a \in Actor, ReadTargets(a)
  PROVE  RelayInv'
<1> DEFINE j == job[a]
           k == [j EXCEPT !.target = target, !.step = "act"]
<1>1. /\ Good(a, j, staged, Delivered) /\ HubFrame /\ j \in Job /\ target \in Targets
      /\ \A n \in Target : target[n] = "SUCCESS" => n \in Delivered
      /\ j.step = "targets"
  BY JobAt, OnlyJobFrame DEF ReadTargets, RowOK
<1>2. /\ k \in Job /\ k.step = "act" /\ k.row = j.row /\ k.op = j.op /\ k.target = target /\ k.ok = j.ok
  BY <1>1 DEF Job
<1>3. Go(a, k)
  BY DEF ReadTargets
<1> HIDE DEF k
<1>4. Good(a, k, staged, Delivered)
  BY <1>1, <1>2 DEF Good, Decided
<1> QED
  BY <1>1, <1>2, <1>3, <1>4, HandlerFrame

LEMMA ResumeNodeStep ==
  ASSUME RelayInv, NEW a \in Actor, ResumeNode(a)
  PROVE  RelayInv'
<1> DEFINE j == job[a]
           r == j.row
           open == r.sha # Nothing /\ r.status \notin {"CANCELED", "SUCCESS"}
           T == {n \in j.todo : open /\ target[n] \in {"PENDING", "DELIVERING"}}
           k == [j EXCEPT !.target = target, !.todo = T]
           q == [k EXCEPT !.step = "source"]
<1>1. /\ Good(a, j, staged, Delivered) /\ HubFrame /\ j \in Job /\ target \in Targets
      /\ \A n \in Target : target[n] = "SUCCESS" => n \in Delivered
      /\ j.step = "targets" /\ j.op = "RESUME"
  BY JobAt, OnlyJobFrame DEF ResumeNode, Resume, RowOK
<1>2. Go(a, q) \/ Loop(a, k)
  BY DEF ResumeNode, Resume
<1>3. T \subseteq Target
  BY <1>1, JobParts
<1> HIDE DEF T
<1>4. /\ k \in Job /\ k.step = "targets" /\ k.row = r /\ k.op = "RESUME" /\ k.target = target /\ k.ok = j.ok
  BY <1>1, <1>3 DEF Job
<1> HIDE DEF k
<1>5. Good(a, k, staged, Delivered)
  BY <1>1, <1>4 DEF Good, Decided
<1>6. /\ q \in Job /\ q.step = "source" /\ q.row = r /\ q.op = "RESUME" /\ q.target = target /\ q.ok = j.ok
  BY <1>4, StepIs
<1> HIDE DEF q
<1>7. Good(a, q, staged, Delivered)
  BY <1>1, <1>6 DEF Good, Decided
<1> QED
  BY <1>1, <1>2, <1>4, <1>5, <1>6, <1>7, HandlerFrame, LoopIs

(* A step on the row, which is not to show a success. *)
LEMMA RowFrame ==
  ASSUME RelayInv, UNCHANGED <<target, part, blob, staged, file, worker, handle, dest, link, up, faults,
                               requests>>,
         \/ row' = row
         \/ row' \in Transfer /\ row'.status # "SUCCESS" /\ row'.sha \in staged \cup {Nothing},
         down' \in [Node -> Seq(Sent(staged))]
  PROVE  HubFrame
BY DEF RelayInv, HubOK, RowOK, HubFrame

LEMMA DispatchSourceStep ==
  ASSUME RelayInv, NEW a \in Actor, DispatchSource(a)
  PROVE  RelayInv'
<1> DEFINE j == job[a]
           r == [j.row EXCEPT !.status = "UPLOADING"]
           k == [j EXCEPT !.row = r, !.offset = Len(part), !.step = "sendSource", !.conn = TRUE]
<1>1. /\ Good(a, j, staged, Delivered) /\ j \in Job /\ j.step = "source" /\ j.row \in Transfer
      /\ part \in Content /\ down \in [Node -> Seq(Sent(staged))]
  BY JobAt DEF DispatchSource, RelayInv, HubOK, WireOK
<1>2. UNCHANGED <<target, part, blob, staged, file, worker, handle, dest, link, up, down, faults, requests>>
  BY DEF DispatchSource, disk, agentVars, wire, bounds
<1>3. r \in Transfer /\ r.status = "UPLOADING" /\ r.sha = j.row.sha
  BY <1>1, StatusIs DEF TransferStatus
<1>4. r.sha \in staged \cup {Nothing}
  BY <1>1, <1>3 DEF Good
<1>5. \/ /\ row' = r /\ Go(a, k)
      \/ /\ row' = row /\ Loop(a, j) 
  BY DEF DispatchSource
<1> HIDE DEF r
<1>6. Len(part) \in 0..Chunks
  BY <1>1, ContentIs
<1>7. /\ k \in Job /\ k.step = "sendSource" /\ k.row = r /\ k.op = j.op /\ k.target = j.target /\ k.ok = j.ok
  BY <1>1, <1>3, <1>6 DEF Job
<1> HIDE DEF k
<1>8. Good(a, k, staged, Delivered)
  BY <1>1, <1>3, <1>4, <1>7 DEF Good, Decided
<1>9. HubFrame
  BY <1>1, <1>2, <1>3, <1>4, <1>5, RowFrame
<1>10. CASE Go(a, k)
  BY <1>7, <1>8, <1>9, <1>10, HandlerFrame
<1>11. CASE Loop(a, j)
  <2>1. j.op = "RETRY" => j.row.status # "CANCELED"
    BY <1>1 DEF Good
  <2> QED
    BY <1>1, <1>9, <1>11, <2>1, LoopIs
<1> QED
  BY <1>5, <1>10, <1>11

LEMMA SendUploadRequestStep ==
  ASSUME RelayInv, NEW a \in Actor, SendUploadRequest(a)
  PROVE  RelayInv'
<1> DEFINE j == job[a]
           m == [type |-> "UPLOAD", offset |-> j.offset]
           r == [j.row EXCEPT !.status = "PENDING"]
<1>1. /\ Good(a, j, staged, Delivered) /\ j \in Job /\ j.step = "sendSource" /\ j.row \in Transfer
      /\ down \in [Node -> Seq(Sent(staged))] /\ j.offset \in 0..Chunks
  BY JobAt, JobParts DEF SendUploadRequest, RelayInv, WireOK
<1>2. /\ UNCHANGED <<target, part, blob, staged, file, worker, handle, dest, link, up, faults, requests>>
      /\ Loop(a, j)
  BY DEF SendUploadRequest, disk, agentVars, bounds
<1>3. m \in Sent(staged)
  BY <1>1 DEF Sent, DownMessage
<1>4. r \in Transfer /\ r.status = "PENDING" /\ r.sha \in staged \cup {Nothing}
  BY <1>1, StatusIs DEF TransferStatus, Good
<1>5. \/ Post(Source, m) /\ row' = row
      \/ row' \in {row, r} /\ down' = down
  BY DEF SendUploadRequest
<1> HIDE DEF m, r
<1>6. down' \in [Node -> Seq(Sent(staged))]
  BY <1>1, <1>3, <1>5, PostIs, Actors
<1>7. HubFrame
  BY <1>2, <1>4, <1>5, <1>6, RowFrame
<1>8. j.op = "RETRY" => j.row.status # "CANCELED"
  BY <1>1 DEF Good
<1> QED
  BY <1>1, <1>2, <1>7, <1>8, LoopIs

(* A step on one target, which is not to show a success it has not had.    *)
LEMMA TargetFrame ==
  ASSUME RelayInv, UNCHANGED <<row, part, blob, staged, file, worker, handle, dest, link, up, faults,
                               requests>>,
         NEW n, NEW s \in TargetStatus, s = "SUCCESS" => (n \in Target => n \in Delivered),
         target' = target \/ target' = [target EXCEPT ![n] = s],
         down' \in [Node -> Seq(Sent(staged))]
  PROVE  HubFrame
<1>1. target \in [Target -> TargetStatus] /\ \A k \in Target : target[k] = "SUCCESS" => k \in Delivered
  BY DEF RelayInv, HubOK, RowOK, Targets
<1>2. target' \in [Target -> TargetStatus] /\ \A k \in Target : target'[k] = "SUCCESS" => k \in Delivered
  BY <1>1
<1> QED
  BY <1>2 DEF RelayInv, HubOK, RowOK, HubFrame, Targets

(* The same in a job's copy. *)
LEMMA CopyIs ==
  ASSUME NEW j \in Job, NEW n, NEW s \in TargetStatus, NEW D, s = "SUCCESS" => (n \in Target => n \in D),
         \A k \in Target : j.target[k] = "SUCCESS" => k \in D
  PROVE  LET t == [j.target EXCEPT ![n] = s] IN
         t \in Targets /\ \A k \in Target : t[k] = "SUCCESS" => k \in D
<1>1. j.target \in [Target -> TargetStatus]
  BY JobParts DEF Targets
<1> QED
  BY <1>1 DEF Targets

LEMMA DispatchIs ==
  ASSUME RelayInv, NEW a \in Actor, NEW n \in Target, NEW j, Good(a, j, staged, Delivered),
         j.step # "stage", j.op # "CANCEL", j.op = "RETRY" => j.row.status # "CANCELED", Dispatch(a, n, j),
         UNCHANGED <<row, disk, agentVars, wire, bounds>>
  PROVE  RelayInv'
<1> DEFINE t == [j.target EXCEPT ![n] = "DELIVERING"]
           k == [j EXCEPT !.target[n] = "DELIVERING", !.sending = {n}, !.step = "send", !.conn = TRUE]
<1>1. /\ j \in Job /\ down' \in [Node -> Seq(Sent(staged))] /\ "DELIVERING" \in TargetStatus
      /\ UNCHANGED <<row, part, blob, staged, file, worker, handle, dest, link, up, faults, requests>>
  BY DEF Good, RelayInv, WireOK, TargetStatus, disk, agentVars, wire, bounds
<1>2. t \in Targets /\ \A i \in Target : t[i] = "SUCCESS" => i \in Delivered
  BY <1>1, CopyIs DEF Good
<1>3. k = [j EXCEPT !.target = t, !.sending = {n}, !.step = "send", !.conn = TRUE]
  BY <1>1 DEF Job
<1>4. target' = target \/ target' = [target EXCEPT ![n] = "DELIVERING"]
  BY DEF Dispatch
<1>5. HubFrame
  BY <1>1, <1>4, TargetFrame
<1>6. \/ Go(a, k) /\ j.row.sha # Nothing /\ j.row.status # "CANCELED"
      \/ Loop(a, j)
  BY DEF Dispatch
<1> HIDE DEF t
<1>7. /\ k \in Job /\ k.step = "send" /\ k.row = j.row /\ k.op = j.op /\ k.target = t /\ k.ok = j.ok
  BY <1>1, <1>2, <1>3 DEF Job
<1> HIDE DEF k
<1>8. ASSUME Go(a, k), j.row.sha # Nothing, j.row.status # "CANCELED" PROVE RelayInv'
  <2>1. Good(a, k, staged, Delivered)
    BY <1>2, <1>7, <1>8 DEF Good, Decided
  <2> QED
    BY <1>5, <1>7, <1>8, <2>1, HandlerFrame
<1>9. ASSUME Loop(a, j) PROVE RelayInv'
  BY <1>5, <1>9, LoopIs
<1> QED
  BY <1>6, <1>8, <1>9

LEMMA VisitTargetStep ==
  ASSUME RelayInv, NEW a \in Actor, NEW n \in Target, VisitTarget(a, n)
  PROVE  RelayInv'
<1> DEFINE j0 == job[a]
           T == j0.todo \ {n}
           j == [j0 EXCEPT !.todo = T]
           t == [j.target EXCEPT ![n] = "PENDING"]
           k == [j EXCEPT !.target[n] = "PENDING", !.sending = {n}, !.step = "redispatch"]
           c == [j EXCEPT !.sending = {n}, !.step = "send"]
<1>1. /\ Good(a, j0, staged, Delivered) /\ j0 \in Job /\ j0.step = "loop"
      /\ {"PENDING", "CANCELED"} \subseteq TargetStatus /\ T \subseteq Target
  BY JobAt, JobParts DEF VisitTarget, TargetStatus
<1>2. /\ down' \in [Node -> Seq(Sent(staged))] /\ UNCHANGED <<row, disk, agentVars, wire, bounds>>
      /\ UNCHANGED <<row, part, blob, staged, file, worker, handle, dest, link, up, faults, requests>>
  BY DEF VisitTarget, RelayInv, WireOK, disk, agentVars, wire, bounds
<1>3. j = [j0 EXCEPT !.todo = @ \ {n}]
  BY <1>1 DEF Job
<1>4. \/ j.op \in {"RESUME", "UPLOAD"} /\ Dispatch(a, n, j)
      \/ j.op = "RETRY" /\ target' = [target EXCEPT ![n] = "PENDING"] /\ Go(a, k)
      \/ /\ j.op = "CANCEL" /\ Go(a, c)
         /\ target' = target \/ target' = [target EXCEPT ![n] = "CANCELED"]
  BY <1>3 DEF VisitTarget
<1> HIDE DEF T
<1>5. /\ j \in Job /\ j.step = "loop" /\ j.row = j0.row /\ j.op = j0.op /\ j.target = j0.target /\ j.ok = j0.ok
  BY <1>1 DEF Job
<1> HIDE DEF j
<1>6. Good(a, j, staged, Delivered) /\ (j.op = "RETRY" => j.row.status # "CANCELED")
  BY <1>1, <1>5 DEF Good, Decided
<1>7. CASE j.op \in {"RESUME", "UPLOAD"} /\ Dispatch(a, n, j)
  BY <1>2, <1>5, <1>6, <1>7, DispatchIs
<1>8. CASE j.op = "RETRY" /\ target' = [target EXCEPT ![n] = "PENDING"] /\ Go(a, k)
  <2>1. t \in Targets /\ \A i \in Target : t[i] = "SUCCESS" => i \in Delivered
    <3>1. "PENDING" \in TargetStatus /\ j \in Job /\ \A i \in Target : j.target[i] = "SUCCESS" => i \in Delivered
      BY <1>1, <1>5, <1>6 DEF Good
    <3> QED
      BY <3>1, CopyIs
  <2>2. k = [j EXCEPT !.target = t, !.sending = {n}, !.step = "redispatch"]
    BY <1>5 DEF Job
  <2> HIDE DEF t
  <2>3. k \in Job /\ k.step = "redispatch" /\ k.row = j.row /\ k.op = j.op /\ k.target = t /\ k.ok = j.ok
    BY <1>5, <2>1, <2>2 DEF Job
  <2> HIDE DEF k
  <2>4. Good(a, k, staged, Delivered)
    BY <1>5, <1>6, <1>8, <2>1, <2>3 DEF Good, Decided
  <2>5. HubFrame
    BY <1>1, <1>2, <1>8, TargetFrame
  <2> QED
    BY <1>8, <2>3, <2>4, <2>5, HandlerFrame
<1>9. CASE /\ j.op = "CANCEL" /\ Go(a, c)
           /\ target' = target \/ target' = [target EXCEPT ![n] = "CANCELED"]
  <2>1. c \in Job /\ c.step = "send" /\ c.row = j.row /\ c.op = j.op /\ c.target = j.target /\ c.ok = j.ok
    BY <1>5 DEF Job
  <2> HIDE DEF c
  <2>2. Good(a, c, staged, Delivered)
    BY <1>5, <1>6, <1>9, <2>1 DEF Good, Decided
  <2>3. HubFrame
    BY <1>1, <1>2, <1>9, TargetFrame
  <2> QED
    BY <1>9, <2>1, <2>2, <2>3, HandlerFrame
<1> QED
  BY <1>4, <1>7, <1>8, <1>9

LEMMA RetryTargetStep ==
  ASSUME RelayInv, NEW a \in Actor, RetryTarget(a)
  PROVE  RelayInv'
<1>1. PICK n \in job[a].sending : Dispatch(a, n, job[a])
  BY DEF RetryTarget
<1>2. /\ Good(a, job[a], staged, Delivered) /\ job[a].step = "redispatch"
      /\ n \in Target
      /\ UNCHANGED <<row, disk, agentVars, wire, bounds>>
  BY JobAt, JobParts DEF RetryTarget
<1>3. job[a].row.status # "CANCELED" /\ job[a].op = "RETRY"
  BY <1>2 DEF Good, Decided
<1> QED
  BY <1>1, <1>2, <1>3, DispatchIs

LEMMA SendDeliveryRequestStep ==
  ASSUME RelayInv, NEW a \in Actor, SendDeliveryRequest(a)
  PROVE  RelayInv'
<1> DEFINE j == job[a]
           m == [type |-> "DELIVER", sha |-> j.row.sha]
<1>1. /\ Good(a, j, staged, Delivered) /\ j \in Job /\ j.step = "send" /\ j.op # "CANCEL"
      /\ down \in [Node -> Seq(Sent(staged))] /\ "PENDING" \in TargetStatus
  BY JobAt DEF SendDeliveryRequest, RelayInv, WireOK, TargetStatus
<1>2. /\ UNCHANGED <<row, part, blob, staged, file, worker, handle, dest, link, up, faults, requests>>
      /\ Loop(a, j)
  BY DEF SendDeliveryRequest, disk, agentVars, bounds
<1>3. m \in Sent(staged)
  <2>1. j.row.sha \in staged /\ staged \subseteq Content
    BY <1>1 DEF Good, RelayInv, HubOK
  <2> QED
    BY <2>1 DEF Sent, DownMessage
<1>4. PICK n \in j.sending :
         \/ Post(n, m) /\ target' = target
         \/ target' \in {target, [target EXCEPT ![n] = "PENDING"]} /\ down' = down
  BY DEF SendDeliveryRequest
<1> HIDE DEF m
<1>5. n \in Target /\ n \in Node
  BY <1>1, JobParts, Actors
<1>6. down' \in [Node -> Seq(Sent(staged))]
  BY <1>1, <1>3, <1>4, <1>5, PostIs
<1>7. HubFrame
  BY <1>1, <1>2, <1>4, <1>6, TargetFrame
<1>8. j.op = "RETRY" => j.row.status # "CANCELED"
  BY <1>1 DEF Good, Decided
<1> QED
  BY <1>1, <1>2, <1>7, <1>8, LoopIs

LEMMA CancelSent == [type |-> "CANCEL"] \in Sent(staged)
BY DEF Sent, DownMessage

LEMMA SendCancelStep ==
  ASSUME RelayInv, NEW a \in Actor, SendCancel(a)
  PROVE  RelayInv'
<1> DEFINE j == job[a]
<1>1. /\ Good(a, j, staged, Delivered) /\ j \in Job /\ j.step = "send" /\ j.op = "CANCEL"
  BY JobAt DEF SendCancel
<1>2. /\ UNCHANGED <<row, target, part, blob, staged, file, worker, handle, dest, link, up, faults, requests>>
      /\ Loop(a, j)
  BY DEF SendCancel, disk, agentVars, bounds
<1>3. PICK n \in j.sending : Post(n, [type |-> "CANCEL"])
  BY DEF SendCancel
<1>4. n \in Node
  BY <1>1, JobParts, Actors
<1>5. down' \in [Node -> Seq(Sent(staged))]
  BY <1>3, <1>4, CancelSent, PostIs
<1>6. HubFrame
  BY <1>2, <1>5, RowFrame
<1> QED
  BY <1>1, <1>2, <1>6, LoopIs

(* Steps that end a job and write one row. *)
LEMMA EndIs ==
  ASSUME RelayInv, NEW a \in Actor, End(a), HubFrame
  PROVE  RelayInv'
BY HandlerFrame DEF End

LEMMA FinishStep ==
  ASSUME RelayInv, NEW a \in Actor, Finish(a)
  PROVE  RelayInv'
<1> DEFINE r == [job[a].row EXCEPT !.status = "DELIVERING"]
<1>1. /\ Good(a, job[a], staged, Delivered) /\ job[a].row \in Transfer /\ job[a].step = "loop"
      /\ down \in [Node -> Seq(Sent(staged))]
  BY JobAt DEF Finish, RelayInv, WireOK
<1>2. /\ UNCHANGED <<target, part, blob, staged, file, worker, handle, dest, link, up, faults, requests>>
      /\ End(a)
  BY DEF Finish, disk, agentVars, bounds
<1>3. r \in Transfer /\ r.status = "DELIVERING" /\ r.sha \in staged \cup {Nothing}
  BY <1>1, StatusIs DEF TransferStatus, Good
<1>4. (row' = r /\ down' = down) \/ (Post(Source, [type |-> "CANCEL"]) /\ row' = row)
  BY DEF Finish
<1> HIDE DEF r
<1>5. down' \in [Node -> Seq(Sent(staged))]
  BY <1>1, <1>4, CancelSent, PostIs, Actors
<1>6. HubFrame
  BY <1>2, <1>3, <1>4, <1>5, RowFrame
<1> QED
  BY <1>2, <1>6, EndIs

LEMMA HandleUploadResultStep ==
  ASSUME RelayInv, NEW a \in Actor, HandleUploadResult(a)
  PROVE  RelayInv'
<1> DEFINE r == [job[a].row EXCEPT !.status = "FAILED"]
<1>1. /\ Good(a, job[a], staged, Delivered) /\ job[a].row \in Transfer /\ job[a].step = "act"
      /\ down \in [Node -> Seq(Sent(staged))]
  BY JobAt DEF HandleUploadResult, Acts, RelayInv, WireOK
<1>2. /\ UNCHANGED <<target, part, blob, staged, file, worker, handle, dest, link, up, down, faults,
                     requests>>
      /\ End(a) /\ row' \in {row, r}
  BY DEF HandleUploadResult, disk, agentVars, wire, bounds
<1>3. r \in Transfer /\ r.status = "FAILED" /\ r.sha \in staged \cup {Nothing}
  BY <1>1, StatusIs DEF TransferStatus, Good
<1> HIDE DEF r
<1>4. HubFrame
  BY <1>1, <1>2, <1>3, RowFrame
<1> QED
  BY <1>2, <1>4, EndIs

LEMMA HandleDeliveryResultStep ==
  ASSUME RelayInv, NEW a \in Actor, HandleDeliveryResult(a)
  PROVE  RelayInv'
<1> DEFINE j == job[a]
           s == IF j.ok THEN "SUCCESS" ELSE "FAILED"
           t == [j.target EXCEPT ![a[2]] = s]
           k == [j EXCEPT !.target[a[2]] = s, !.step = "aggregate"]
<1>1. /\ Good(a, j, staged, Delivered) /\ j \in Job /\ j.step = "act" /\ j.op = "DELIVERY"
      /\ down \in [Node -> Seq(Sent(staged))] /\ s \in TargetStatus
  BY JobAt DEF HandleDeliveryResult, Acts, RelayInv, WireOK, TargetStatus
<1>2. UNCHANGED <<row, part, blob, staged, file, worker, handle, dest, link, up, down, faults, requests>>
  BY DEF HandleDeliveryResult, disk, agentVars, wire, bounds
<1>3. \/ End(a) /\ target' = target
      \/ target' = [target EXCEPT ![a[2]] = s] /\ Go(a, k) /\ j.row.status # "CANCELED"
  BY DEF HandleDeliveryResult, WriteResult
<1>4. s = "SUCCESS" => (a[2] \in Target => a[2] \in Delivered)
  BY <1>1 DEF Good
<1> HIDE DEF s
<1>5. HubFrame
  BY <1>1, <1>2, <1>3, <1>4, TargetFrame
<1>6. t \in Targets /\ \A i \in Target : t[i] = "SUCCESS" => i \in Delivered
  <2>1. \A i \in Target : j.target[i] = "SUCCESS" => i \in Delivered
    BY <1>1 DEF Good
  <2> QED
    BY <1>1, <1>4, <2>1, CopyIs
<1>7. k = [j EXCEPT !.target = t, !.step = "aggregate"]
  BY <1>1 DEF Job
<1> HIDE DEF t
<1>8. k \in Job /\ k.step = "aggregate" /\ k.row = j.row /\ k.op = j.op /\ k.target = t /\ k.ok = j.ok
  BY <1>1, <1>6, <1>7 DEF Job
<1> HIDE DEF k
<1>9. CASE End(a)
  BY <1>5, <1>9, EndIs
<1>10. CASE Go(a, k) /\ j.row.status # "CANCELED"
  <2>1. Good(a, k, staged, Delivered)
    BY <1>1, <1>6, <1>8, <1>10 DEF Good, Decided
  <2> QED
    BY <1>5, <1>8, <1>10, <2>1, HandlerFrame
<1> QED
  BY <1>3, <1>9, <1>10

LEMMA AggregateIs ==
  ASSUME NEW t \in Targets
  PROVE  /\ Aggregate(t) \in TransferStatus /\ Aggregate(t) # "CANCELED"
         /\ Aggregate(t) = "SUCCESS" => \A n \in Target : t[n] = "SUCCESS"
BY DEF Aggregate, TransferStatus

LEMMA UpdateAggregateStep ==
  ASSUME RelayInv, NEW a \in Actor, UpdateAggregate(a)
  PROVE  RelayInv'
<1> DEFINE j == job[a]
           s == Aggregate(j.target)
           r == [j.row EXCEPT !.status = s]
<1>1. /\ Good(a, j, staged, Delivered) /\ j \in Job /\ j.step = "aggregate" /\ j.target \in Targets
      /\ j.row \in Transfer /\ down \in [Node -> Seq(Sent(staged))]
      /\ RowOK(row, target, staged, Delivered)
  BY JobAt DEF UpdateAggregate, RelayInv, WireOK
<1>2. /\ UNCHANGED <<target, part, blob, staged, file, worker, handle, dest, link, up, down, faults,
                     requests>>
      /\ End(a) /\ row' = r
  BY DEF UpdateAggregate, disk, agentVars, wire, bounds
<1>3. r \in Transfer /\ r.status = s /\ r.sha \in staged \cup {Nothing}
  BY <1>1, StatusIs, AggregateIs DEF Good
<1>4. s = "SUCCESS" => Target \subseteq Delivered
  BY <1>1, AggregateIs DEF Good
<1> HIDE DEF r, s
<1>5. HubFrame
  BY <1>1, <1>2, <1>3, <1>4 DEF HubFrame, RowOK
<1> QED
  BY <1>2, <1>5, EndIs

LEMMA RetryStep ==
  ASSUME RelayInv, NEW a \in Actor, Retry(a)
  PROVE  RelayInv'
<1> DEFINE j == job[a]
           r == [j.row EXCEPT !.status = "PENDING"]
           k == [j EXCEPT !.op = "SOURCE", !.row = r, !.todo = {}, !.step = "source"]
           T == {n \in j.todo : j.target[n] = "FAILED"}
           l == [j EXCEPT !.todo = T, !.step = "loop"]
<1>1. /\ Good(a, j, staged, Delivered) /\ j \in Job /\ j.step = "act" /\ j.op = "RETRY"
      /\ j.row \in Transfer /\ down \in [Node -> Seq(Sent(staged))]
  BY JobAt DEF Retry, Acts, RelayInv, WireOK
<1>2. UNCHANGED <<target, part, blob, staged, file, worker, handle, dest, link, up, down, faults, requests>>
  BY DEF Retry, disk, agentVars, wire, bounds
<1>3. r \in Transfer /\ r.status = "PENDING" /\ r.sha = j.row.sha /\ r.sha \in staged \cup {Nothing}
  BY <1>1, StatusIs DEF TransferStatus, Good
<1>4. \/ End(a) /\ row' = row
      \/ row' = r /\ Go(a, k)
      \/ row' = row /\ Go(a, l) /\ j.row.status # "CANCELED"
  BY DEF Retry
<1>5. T \subseteq Target
  BY <1>1, JobParts
<1> HIDE DEF r, T
<1>6. HubFrame
  BY <1>1, <1>2, <1>3, <1>4, RowFrame
<1>7. /\ k \in Job /\ k.step = "source" /\ k.row = r /\ k.op = "SOURCE" /\ k.target = j.target /\ k.ok = j.ok
  BY <1>1, <1>3 DEF Job, Op
<1>8. /\ l \in Job /\ l.step = "loop" /\ l.row = j.row /\ l.op = j.op /\ l.target = j.target /\ l.ok = j.ok
  BY <1>1, <1>5 DEF Job
<1> HIDE DEF k, l
<1>9. CASE Go(a, k)
  <2>1. Good(a, k, staged, Delivered)
    BY <1>1, <1>3, <1>7 DEF Good, Decided
  <2> QED
    BY <1>6, <1>7, <1>9, <2>1, HandlerFrame
<1>10. CASE Go(a, l) /\ j.row.status # "CANCELED"
  <2>1. Good(a, l, staged, Delivered)
    BY <1>1, <1>8, <1>10 DEF Good, Decided
  <2> QED
    BY <1>6, <1>8, <1>10, <2>1, HandlerFrame
<1> QED
  BY <1>4, <1>6, <1>9, <1>10, EndIs

LEMMA CancelStep ==
  ASSUME RelayInv, NEW a \in Actor, Cancel(a)
  PROVE  RelayInv'
<1> DEFINE j == job[a]
           r == [j.row EXCEPT !.status = "CANCELED"]
           k == [j EXCEPT !.row = r, !.todo = Target, !.step = "loop"]
<1>1. /\ Good(a, j, staged, Delivered) /\ j \in Job /\ j.step = "act" /\ j.op = "CANCEL"
      /\ j.row \in Transfer /\ down \in [Node -> Seq(Sent(staged))]
  BY JobAt DEF Cancel, Acts, RelayInv, WireOK
<1>2. /\ UNCHANGED <<target, part, blob, staged, file, worker, handle, dest, link, up, down, faults,
                     requests>>
      /\ row' = r /\ Go(a, k)
  BY DEF Cancel, disk, agentVars, wire, bounds
<1>3. r \in Transfer /\ r.status = "CANCELED" /\ r.sha \in staged \cup {Nothing}
  BY <1>1, StatusIs DEF TransferStatus, Good
<1> HIDE DEF r
<1>4. HubFrame
  BY <1>1, <1>2, <1>3, RowFrame
<1>5. /\ k \in Job /\ k.step = "loop" /\ k.row = r /\ k.op = "CANCEL" /\ k.target = j.target /\ k.ok = j.ok
  BY <1>1, <1>3 DEF Job
<1> HIDE DEF k
<1>6. Good(a, k, staged, Delivered)
  BY <1>1, <1>3, <1>5 DEF Good, Decided
<1> QED
  BY <1>2, <1>4, <1>5, <1>6, HandlerFrame

LEMMA HandlerStep ==
  ASSUME RelayInv, NEW a \in Actor, Handler(a)
  PROVE  RelayInv'
BY ReadTransferStep, ReadTargetsStep, ResumeNodeStep, DispatchSourceStep, SendUploadRequestStep,
   VisitTargetStep, RetryTargetStep, SendDeliveryRequestStep, SendCancelStep, FinishStep,
   HandleUploadResultStep, HandleDeliveryResultStep, UpdateAggregateStep, RetryStep, CancelStep
   DEF Handler

-----------------------------------------------------------------------------
(* Steps: the goroutines of an Agent. *)

(* What a goroutine may make of the slots and the wire. *)
AgentFrame ==
    /\ worker' \in [Node \X Slot -> Working(staged)]
    /\ handle' \in [Node -> Slot \cup {NoSlot}] /\ Handled(worker', handle')
    /\ up' \in [Node -> Seq(UpMessage)]
    /\ \A n \in Node : up'[n] \in Seq(Said(n, Delivered))

LEMMA Workers ==
  ASSUME RelayInv, NEW v \in Node \X Slot
  PROVE  /\ worker[v] \in Working(staged)
         /\ worker[v].kind = "UPLOAD" => worker[v] \in Uploader
         /\ worker[v].kind = "DELIVER" => worker[v] \in Downloader /\ worker[v].sha \in staged
         /\ worker[v] # NoWorker => worker[v].kind \in {"UPLOAD", "DELIVER"}
         /\ NoWorker \in Working(staged)
<1>1. worker[v] \in Working(staged)
  BY DEF RelayInv, AgentsOK
<1> QED
  BY <1>1, Kinds DEF Working, Uploader, Downloader

LEMMA Messages ==
  /\ \A n, D : \A m \in UpMessage : m.type = "FAILURE" \/ ~m.ok \/ n \in D => m \in Said(n, D)
  /\ \A n, D : \A type \in {"FAILURE", "DELIVERY"} :
        Result(type, FALSE) \in Seq(Said(n, D)) \cap Seq(UpMessage)
  /\ \A n, D : NoResult \in Seq(Said(n, D)) \cap Seq(UpMessage)
<1>1. \A n, D : \A m \in UpMessage : m.type = "FAILURE" \/ ~m.ok \/ n \in D => m \in Said(n, D)
  BY DEF Said
<1>2. ASSUME NEW type \in {"FAILURE", "DELIVERY"}, NEW n, NEW D
      PROVE  Result(type, FALSE) \in Seq(Said(n, D)) \cap Seq(UpMessage)
  <2> DEFINE m == [type |-> type, ok |-> FALSE]
  <2>1. m \in UpMessage /\ m \in Said(n, D)
    BY DEF Said, UpMessage
  <2> HIDE DEF m
  <2>2. <<m>> \in Seq(UpMessage) /\ <<m>> \in Seq(Said(n, D))
    BY <2>1
  <2> QED
    BY <2>2 DEF Result, m
<1>3. \A n, D : NoResult \in Seq(Said(n, D)) \cap Seq(UpMessage)
  BY EmptySeq DEF NoResult
<1> QED
  BY <1>1, <1>2, <1>3

LEMMA QuitIs ==
  ASSUME RelayInv, NEW n \in Node, NEW s \in Slot, NEW m, m \in Seq(Said(n, Delivered)), m \in Seq(UpMessage),
         Quit(n, s, m)
  PROVE  AgentFrame
<1>1. /\ worker \in [Node \X Slot -> Working(staged)] /\ handle \in [Node -> Slot \cup {NoSlot}]
      /\ up \in [Node -> Seq(UpMessage)] /\ \A k \in Node : up[k] \in Seq(Said(k, Delivered))
  BY DEF RelayInv, AgentsOK, WireOK
<1>2. NoWorker \in Working(staged)
  BY Kinds DEF Working
<1>3. up[n] \o m \in Seq(UpMessage) /\ up[n] \o m \in Seq(Said(n, Delivered))
  BY <1>1, ConcatProperties
<1>4. up' = up \/ up' = [up EXCEPT ![n] = up[n] \o m]
  BY DEF Quit
<1>5. up' \in [Node -> Seq(UpMessage)] /\ \A k \in Node : up'[k] \in Seq(Said(k, Delivered))
  BY <1>1, <1>3, <1>4
<1>6. worker' \in [Node \X Slot -> Working(staged)] /\ handle' \in [Node -> Slot \cup {NoSlot}]
  BY <1>1, <1>2 DEF Quit
<1>7. Handled(worker', handle')
  BY <1>1 DEF RelayInv, AgentsOK, Handled, Quit
<1> QED
  BY <1>5, <1>6, <1>7 DEF AgentFrame

LEMMA SameAgents ==
  ASSUME RelayInv, UNCHANGED <<worker, handle, up>>
  PROVE  AgentFrame
BY DEF RelayInv, AgentsOK, WireOK, AgentFrame

(* Another worker in a slot. *)
LEMMA WorkerIs ==
  ASSUME RelayInv, NEW v \in Node \X Slot, NEW w \in Working(staged), w # NoWorker,
         worker' = [worker EXCEPT ![v] = w], UNCHANGED <<handle, up>>
  PROVE  AgentFrame
BY DEF RelayInv, AgentsOK, WireOK, AgentFrame, Handled

LEMMA TryAgainIs ==
  ASSUME RelayInv, NEW s \in Slot, NEW o \in 0..Chunks, worker[<<Source, s>>].kind = "UPLOAD",
         TryAgain(s, o)
  PROVE  AgentFrame
<1> DEFINE w == worker[<<Source, s>>]
           x == [w EXCEPT !.offset = o, !.tries = w.tries + 1, !.phase = "wait"]
<1>1. <<Source, s>> \in Node \X Slot /\ Source \in Node
  BY Actors
<1>2. w \in Uploader
  BY <1>1, Workers
<1>3. CASE w.tries = Attempts
  <2>1. Quit(Source, s, Result("FAILURE", FALSE))
    BY <1>3 DEF TryAgain
  <2>2. Result("FAILURE", FALSE) \in Seq(Said(Source, Delivered)) /\ Result("FAILURE", FALSE) \in Seq(UpMessage)
    BY Messages
  <2> QED
    BY <1>1, <2>1, <2>2, QuitIs
<1>4. CASE w.tries # Attempts
  <2>1. worker' = [worker EXCEPT ![<<Source, s>>] = x] /\ UNCHANGED <<handle, up>>
    BY <1>4 DEF TryAgain
  <2>2. w.tries + 1 \in 1..Attempts
    BY <1>2, <1>4, ConstantsAssumption DEF Uploader
  <2>3. x \in Uploader
    BY <1>2, <2>2 DEF Uploader
  <2>4. x \in Working(staged) /\ x # NoWorker
    BY <2>3, Kinds DEF Working, Uploader
  <2> HIDE DEF x
  <2> QED
    BY <1>1, <2>1, <2>4, WorkerIs
<1> QED
  BY <1>3, <1>4

LEMMA RespondIs ==
  ASSUME RelayInv, NEW answer, NEW o \in 0..Chunks, Respond(answer, o)
  PROVE  AgentFrame
<1>1. CASE Served = {}
  BY <1>1, SameAgents DEF Respond
<1>2. CASE Served # {}
  <2>1. PICK w \in Served :
           \/ Quit(Source, w[2], NoResult)
           \/ Quit(Source, w[2], Result("FAILURE", FALSE))
           \/ TryAgain(w[2], o)
    BY <1>2 DEF Respond
  <2>2. w[2] \in Slot /\ w = <<Source, w[2]>> /\ worker[w].kind = "UPLOAD"
    BY DEF Served
  <2>3. Result("FAILURE", FALSE) \in Seq(Said(Source, Delivered)) /\ Result("FAILURE", FALSE) \in Seq(UpMessage)
    BY Messages
  <2>4. NoResult \in Seq(Said(Source, Delivered)) /\ NoResult \in Seq(UpMessage)
    BY Messages
  <2>5. CASE TryAgain(w[2], o)
    BY <2>2, <2>5, TryAgainIs
  <2> QED
    BY <2>1, <2>2, <2>3, <2>4, <2>5, QuitIs, Actors
<1> QED
  BY <1>1, <1>2

-----------------------------------------------------------------------------
(* Steps: the upload. *)

LEMMA UploadFrame ==
  ASSUME RelayInv, NEW j, Go(Upload, j), j = NoJob \/ Good(Upload, j, staged, Delivered), AgentFrame,
         UNCHANGED <<row, target, staged, file, dest, link, down, faults, requests>>,
         part' \in Content, blob' \in Content,
         j # NoJob /\ j.step = "copy" => Len(part') < Chunks,
         j # NoJob /\ j.step = "promote" => Len(part') = Chunks
  PROVE  RelayInv'
<1>1. Delivered' = Delivered
  BY DEF Delivered
<1>2. JobsOK'
  BY JobsKept, Actors DEF RelayInv
<1>3. job'[Upload] = j
  BY Actors DEF Go, RelayInv, JobsOK
<1>4. HubOK'
  <2>1. /\ RowOK(row', target', staged', Delivered')
        /\ row'.status = "SUCCESS" => Target \subseteq Delivered'
        /\ staged' \subseteq Content /\ \A c \in staged' : Len(c) = Chunks
    BY <1>1 DEF RelayInv, HubOK
  <2>2. At(Upload, "copy")' => Len(part') < Chunks
    BY <1>3 DEF At
  <2>3. At(Upload, "promote")' => Len(part') = Chunks
    BY <1>3 DEF At
  <2> QED
    BY <2>1, <2>2, <2>3 DEF HubOK
<1>5. AgentsOK'
  BY DEF RelayInv, AgentFrame, AgentsOK
<1>6. WireOK'
  BY <1>1 DEF RelayInv, AgentFrame, WireOK
<1> QED
  BY <1>2, <1>4, <1>5, <1>6 DEF RelayInv, BoundsOK

LEMMA UploadAt ==
  ASSUME RelayInv, NEW s, At(Upload, s)
  PROVE  /\ Good(Upload, job[Upload], staged, Delivered) /\ job[Upload] \in Job /\ job[Upload].step = s
         /\ job[Upload] # NoJob
BY JobAt, Actors DEF At

LEMMA BeginUploadStep ==
  ASSUME RelayInv, BeginUpload
  PROVE  RelayInv'
<1> DEFINE t == Task("UPLOAD", "row", {}, TRUE)
           k == WithTransfer(t)
<1>1. PICK s \in Slot :
         /\ worker[<<Source, s>>].kind = "UPLOAD"
         /\ worker' = [worker EXCEPT ![<<Source, s>>].phase = "served"]
         /\ Go(Upload, [k EXCEPT !.offset = worker[<<Source, s>>].offset])
  BY DEF BeginUpload
<1> DEFINE w == worker[<<Source, s>>]
           x == [w EXCEPT !.phase = "served"]
           j == [k EXCEPT !.offset = w.offset]
<1>2. UNCHANGED <<row, target, part, blob, staged, file, handle, dest, link, up, down, faults, requests>>
  BY DEF BeginUpload, disk, wire, bounds
<1>3. <<Source, s>> \in Node \X Slot
  BY Actors
<1>4. w \in Uploader
  BY <1>1, <1>3, Workers
<1>5. x \in Working(staged) /\ x # NoWorker
  BY <1>4, Kinds DEF Working, Uploader
<1>6. worker' = [worker EXCEPT ![<<Source, s>>] = x]
  BY <1>1, <1>3 DEF RelayInv, AgentsOK
<1>7. AgentFrame
  <2> HIDE DEF x
  <2> QED
    BY <1>2, <1>3, <1>5, <1>6, WorkerIs
<1>8. t \in Job /\ t.op = "UPLOAD" /\ t.step = "row" /\ t.row = NewRow /\ t.target = NewTargets
  <2>1. 0 \in 0..Chunks
    BY ConstantsAssumption
  <2> QED
    BY <2>1, Kinds DEF Task, Job, Op
<1> HIDE DEF t
<1>9. Good(Upload, t, staged, Delivered)
  BY <1>8, Kinds DEF Good, Decided
<1>10. /\ Good(Upload, k, staged, Delivered) /\ k.step \in {"act", "targets"} /\ k.op = "UPLOAD"
  BY <1>8, <1>9, WithTransferIs
<1> HIDE DEF k
<1>11. w.offset \in 0..Chunks /\ k \in Job
  BY <1>4, <1>10 DEF Uploader, Good
<1>12. /\ j \in Job /\ j.step = k.step /\ j.row = k.row /\ j.op = k.op /\ j.target = k.target
       /\ j.ok = k.ok
  BY <1>11 DEF Job
<1>13. Go(Upload, j)
  BY <1>1
<1> HIDE DEF j
<1>14. Good(Upload, j, staged, Delivered)
  BY <1>10, <1>12 DEF Good, Decided
<1>15. part' \in Content /\ blob' \in Content /\ j.step \notin {"copy", "promote"}
  BY <1>2, <1>10, <1>12 DEF RelayInv, HubOK
<1> QED
  BY <1>2, <1>7, <1>13, <1>14, <1>15, UploadFrame

(* An upload that ends with an answer to its client.                       *)
LEMMA UploadEnds ==
  ASSUME RelayInv, End(Upload), AgentFrame,
         UNCHANGED <<row, target, part, blob, staged, file, dest, link, down, faults, requests>>
  PROVE  RelayInv'
<1>1. part' \in Content /\ blob' \in Content
  BY DEF RelayInv, HubOK
<1> QED
  BY <1>1, UploadFrame DEF End

LEMMA HandleUploadStep ==
  ASSUME RelayInv, HandleUpload
  PROVE  RelayInv'
<1> DEFINE i == job[Upload]
           j == [i EXCEPT !.target = target]
           k == [j EXCEPT !.step = "copy"]
<1>1. /\ Good(Upload, i, staged, Delivered) /\ i \in Job /\ i.step = "targets"
      /\ target \in Targets /\ part \in Content /\ blob \in Content
      /\ \A n \in Target : target[n] = "SUCCESS" => n \in Delivered
  BY UploadAt DEF HandleUpload, RelayInv, HubOK, RowOK
<1>2. UNCHANGED <<row, target, part, blob, staged, file, dest, link, down, faults, requests>>
  BY DEF HandleUpload, disk, bounds
<1>3. j \in Job /\ j.step = i.step /\ j.op = i.op /\ j.row = i.row /\ j.target = target /\ j.ok = i.ok
      /\ j.offset = i.offset
  BY <1>1, TargetsAre
<1>4. 0 \in 0..Chunks /\ Len(part) \in 0..Chunks /\ Chunks \in Nat /\ j.offset \in 0..Chunks
  BY <1>1, <1>3, ContentIs, ConstantsAssumption, JobParts
<1>5. \/ \E o \in 0..Chunks, answer \in {"conflict", "done", "error"} : End(Upload) /\ Respond(answer, o)
      \/ /\ j.offset # Chunks /\ j.offset = Len(part)
         /\ Go(Upload, k) /\ UNCHANGED <<worker, handle, up>>
  <2> HIDE DEF j
  <2>1. HandleUpload => \/ End(Upload) /\ Respond("conflict", 0)
                        \/ End(Upload) /\ Respond("done", 0)
                        \/ End(Upload) /\ Respond("error", 0)
                        \/ End(Upload) /\ Respond("conflict", Len(part))
                        \/ /\ j.offset # Chunks /\ j.offset = Len(part)
                           /\ Go(Upload, k) /\ UNCHANGED <<worker, handle, up>>
    BY DEF HandleUpload, j
  <2> QED
    BY <2>1, <1>4
<1>6. ASSUME NEW o \in 0..Chunks, NEW answer, End(Upload), Respond(answer, o)
      PROVE  RelayInv'
  <2>1. AgentFrame
    BY <1>6, RespondIs
  <2> QED
    BY <1>2, <1>6, <2>1, UploadEnds
<1>7. CASE /\ j.offset # Chunks /\ j.offset = Len(part)
           /\ Go(Upload, k) /\ UNCHANGED <<worker, handle, up>>
  <2> HIDE DEF j
  <2>1. /\ k \in Job /\ k.step = "copy" /\ k.op = i.op /\ k.row = i.row /\ k.target = target /\ k.ok = i.ok
    BY <1>3, StepIs
  <2> HIDE DEF k
  <2>2. Good(Upload, k, staged, Delivered)
    BY <1>1, <2>1 DEF Good, Decided
  <2>3. Len(part) < Chunks
    BY <1>4, <1>7
  <2>4. AgentFrame
    BY <1>7, SameAgents
  <2> QED
    BY <1>1, <1>2, <1>7, <2>1, <2>2, <2>3, <2>4, UploadFrame
<1> QED
  BY <1>5, <1>6, <1>7

LEMMA CopyChunkStep ==
  ASSUME RelayInv, CopyChunk
  PROVE  RelayInv'
<1> DEFINE j == job[Upload]
           k == [j EXCEPT !.step = "promote"]
<1>1. /\ Good(Upload, j, staged, Delivered) /\ j \in Job /\ j.step = "copy"
      /\ part \in Content /\ blob \in Content /\ Len(part) < Chunks /\ file \in 0..MaxVersion
  BY UploadAt DEF CopyChunk, RelayInv, HubOK, AgentsOK
<1>2. /\ UNCHANGED <<row, target, blob, staged, file, worker, handle, dest, link, up, down, faults, requests>>
      /\ part' = Append(part, file)
      /\ \/ Len(part) + 1 = Chunks /\ Go(Upload, k)
         \/ Len(part) + 1 # Chunks /\ job' = job
  BY DEF CopyChunk, Step, agentVars, wire, bounds
<1>3. part' \in Content /\ Len(part') = Len(part) + 1 /\ Len(part) \in 0..Chunks /\ Chunks \in Nat
  BY <1>1, <1>2, ContentIs, ConstantsAssumption
<1>4. AgentFrame
  BY <1>2, SameAgents
<1>5. /\ k \in Job /\ k.step = "promote" /\ k.op = j.op /\ k.row = j.row /\ k.target = j.target /\ k.ok = j.ok
  BY <1>1, StepIs
<1>6. CASE Len(part) + 1 = Chunks /\ Go(Upload, k)
  <2> HIDE DEF k
  <2>1. Good(Upload, k, staged, Delivered)
    BY <1>1, <1>5 DEF Good, Decided
  <2> QED
    BY <1>1, <1>2, <1>3, <1>4, <1>5, <1>6, <2>1, UploadFrame
<1>7. CASE Len(part) + 1 # Chunks /\ job' = job
  <2>1. Go(Upload, j)
    BY <1>7 DEF Go, RelayInv, JobsOK
  <2>2. Len(part') < Chunks
    BY <1>1, <1>3, <1>7
  <2> QED
    BY <1>1, <1>2, <1>3, <1>4, <2>1, <2>2, UploadFrame
<1> QED
  BY <1>2, <1>6, <1>7

LEMMA PromoteStep ==
  ASSUME RelayInv, Promote
  PROVE  RelayInv'
<1> DEFINE j == job[Upload]
           r == [j.row EXCEPT !.sha = part, !.status = "DELIVERING"]
           k == [j EXCEPT !.row.sha = part, !.row.status = "DELIVERING", !.step = "stage"]
<1>1. /\ Good(Upload, j, staged, Delivered) /\ j \in Job /\ j.step = "promote" /\ j.row \in Transfer
      /\ part \in Content /\ Len(part) = Chunks
  BY UploadAt, JobParts DEF Promote, RelayInv, HubOK
<1>2. /\ UNCHANGED <<row, target, staged, file, worker, handle, dest, link, up, down, faults, requests>>
      /\ part' = Nothing /\ blob' = part /\ Go(Upload, k)
  BY DEF Promote, agentVars, wire, bounds
<1>3. r \in Transfer /\ r.status = "DELIVERING" /\ r.sha = part
  BY <1>1 DEF Transfer, TransferStatus
<1>4. k = [j EXCEPT !.row = r, !.step = "stage"]
  BY <1>1 DEF Job, Transfer
<1> HIDE DEF r
<1>5. k \in Job /\ k.step = "stage" /\ k.op = j.op /\ k.row = r /\ k.target = j.target /\ k.ok = j.ok
  BY <1>1, <1>3, <1>4 DEF Job
<1> HIDE DEF k
<1>6. Good(Upload, k, staged, Delivered)
  BY <1>1, <1>3, <1>5 DEF Good, Decided
<1>7. AgentFrame
  BY <1>2, SameAgents
<1> QED
  BY <1>1, <1>2, <1>5, <1>6, <1>7, ContentIs, UploadFrame

(* Staging a file: what was good stays so. *)
LEMMA StageStep ==
  ASSUME RelayInv, Stage
  PROVE  RelayInv'
<1> DEFINE j == job[Upload]
           k == [j EXCEPT !.todo = Target, !.step = "loop"]
           St2 == staged \cup {j.row.sha}
<1>1. /\ Good(Upload, j, staged, Delivered) /\ j \in Job /\ j.step = "stage" /\ j.row \in Transfer
      /\ j.row.sha \in Content /\ Len(j.row.sha) = Chunks /\ j.row.status = "DELIVERING"
  BY UploadAt, JobParts DEF Stage, Good
<1>2. /\ UNCHANGED <<target, part, blob, file, worker, handle, dest, link, up, down, faults, requests>>
      /\ row' = j.row /\ staged' = St2 /\ Go(Upload, k)
  BY DEF Stage, agentVars, wire, bounds
<1>3. staged \subseteq St2 /\ Delivered \subseteq Delivered'
  BY <1>2 DEF Delivered
<1>4. /\ \A a, i : Good(a, i, staged, Delivered) => Good(a, i, St2, Delivered')
      /\ \A r, t : RowOK(r, t, staged, Delivered) => RowOK(r, t, St2, Delivered')
      /\ \A q : q \in Seq(Sent(staged)) => q \in Seq(Sent(St2))
      /\ \A n, q : q \in Seq(Said(n, Delivered)) => q \in Seq(Said(n, Delivered'))
      /\ Working(staged) \subseteq Working(St2)
  <2> HIDE DEF St2
  <2> QED
    BY <1>3, Grows
<1>5. k \in Job /\ k.step = "loop" /\ k.op = j.op /\ k.row = j.row /\ k.target = j.target /\ k.ok = j.ok
  BY <1>1 DEF Job
<1> HIDE DEF k
<1>6. Good(Upload, k, St2, Delivered')
  <2>1. Good(Upload, j, St2, Delivered')
    BY <1>1, <1>4
  <2> QED
    BY <1>1, <1>5, <2>1 DEF Good, Decided
<1>7. JobsOK'
  <2>1. job' \in [Actor -> Job \cup {NoJob}]
    BY <1>2, <1>5 DEF RelayInv, JobsOK, Go
  <2>2. \A a \in Actor : job'[a] = NoJob \/ Good(a, job'[a], St2, Delivered')
    BY <1>2, <1>4, <1>6 DEF RelayInv, JobsOK, Go
  <2> QED
    BY <1>2, <2>1, <2>2 DEF JobsOK
<1>8. HubOK'
  <2>1. RowOK(row', target', St2, Delivered')
    <3>1. RowOK(row, target, St2, Delivered')
      BY <1>4 DEF RelayInv, HubOK
    <3> QED
      BY <1>1, <1>2, <3>1 DEF RowOK
  <2>2. /\ row'.status # "SUCCESS" /\ part' \in Content /\ blob' \in Content
        /\ St2 \subseteq Content /\ \A c \in St2 : Len(c) = Chunks
    BY <1>1, <1>2 DEF RelayInv, HubOK
  <2>3. ~At(Upload, "copy")' /\ ~At(Upload, "promote")'
    BY <1>2, <1>5, Actors DEF RelayInv, JobsOK, Go, At
  <2> QED
    BY <1>2, <2>1, <2>2, <2>3 DEF HubOK
<1>9. AgentsOK'
  BY <1>2, <1>4 DEF RelayInv, AgentsOK
<1>10. WireOK'
  <2>1. \A n \in Node : /\ up'[n] \in Seq(Said(n, Delivered')) /\ down'[n] \in Seq(Sent(St2))
    BY <1>2, <1>4 DEF RelayInv, WireOK
  <2>2. down' \in [Node -> Seq(Sent(St2))]
    BY <1>2, <2>1 DEF RelayInv, WireOK
  <2> QED
    BY <1>2, <2>1, <2>2 DEF RelayInv, WireOK
<1>11. BoundsOK'
  BY <1>2 DEF RelayInv, BoundsOK
<1> QED
  BY <1>7, <1>8, <1>9, <1>10, <1>11 DEF RelayInv

LEMMA FinishUploadStep ==
  ASSUME RelayInv, FinishUpload
  PROVE  RelayInv'
<1>1. 0 \in 0..Chunks
  BY ConstantsAssumption
<1>2. AgentFrame
  BY <1>1, RespondIs DEF FinishUpload
<1> QED
  BY <1>2, UploadEnds DEF FinishUpload, disk, bounds

LEMMA AbandonUploadStep ==
  ASSUME RelayInv, AbandonUpload
  PROVE  RelayInv'
<1>1. AgentFrame
  BY SameAgents DEF AbandonUpload, OnlyJob, agentVars, wire
<1> QED
  BY <1>1, UploadEnds DEF AbandonUpload, OnlyJob, disk, agentVars, wire, bounds

LEMMA UploadHandlerStep ==
  ASSUME RelayInv, UploadHandler
  PROVE  RelayInv'
BY BeginUploadStep, HandleUploadStep, CopyChunkStep, PromoteStep, StageStep, FinishUploadStep,
   AbandonUploadStep DEF UploadHandler

-----------------------------------------------------------------------------
(* Steps: the Agents, the connections and what goes wrong. *)

LEMMA AgentIs ==
  ASSUME RelayInv, AgentFrame, down' \in [Node -> Seq(Sent(staged))],
         UNCHANGED <<row, target, part, blob, job, staged, file, dest, link, faults, requests>>
  PROVE  RelayInv'
<1>1. Delivered' = Delivered
  BY DEF Delivered
<1>2. HubOK'
  BY <1>1 DEF RelayInv, HubOK, At
<1>3. JobsOK'
  BY <1>1 DEF RelayInv, JobsOK
<1>4. AgentsOK'
  BY DEF RelayInv, AgentsOK, AgentFrame
<1>5. WireOK'
  BY <1>1 DEF RelayInv, WireOK, AgentFrame
<1> QED
  BY <1>2, <1>3, <1>4, <1>5 DEF RelayInv, BoundsOK

(* A canceled goroutine is one still. *)
LEMMA CanceledIs ==
  ASSUME NEW St, NEW w \in Working(St), w # NoWorker
  PROVE  LET x == [w EXCEPT !.canceled = TRUE] IN x \in Working(St) /\ x # NoWorker
<1> DEFINE x == [w EXCEPT !.canceled = TRUE]
<1>1. CASE w \in Uploader
  <2>1. x \in Uploader
    BY <1>1 DEF Uploader
  <2> QED
    BY <2>1, Kinds DEF Working, Uploader
<1>2. CASE w \in Downloader
  <2>1. x \in Downloader /\ x.kind = "DELIVER" /\ x.sha = w.sha /\ w.kind = "DELIVER"
    BY <1>2 DEF Downloader
  <2> QED
    BY <2>1, Kinds DEF Working
<1> QED
  BY <1>1, <1>2 DEF Working

LEMMA StartIs ==
  ASSUME RelayInv, NEW n \in Node, NEW w \in Working(staged), w # NoWorker, Start(n, w), up' = up
  PROVE  AgentFrame
<1> DEFINE free == {s \in Slot : worker[<<n, s>>] = NoWorker}
           s == CHOOSE s \in free : \A r \in free : s <= r
           i == <<n, handle[n]>>
<1>1. /\ free # {}
      /\ worker' = [v \in Node \X Slot |->
                      IF v = <<n, s>> THEN w
                      ELSE IF v = i THEN [worker[v] EXCEPT !.canceled = TRUE]
                      ELSE worker[v]]
      /\ handle' = [handle EXCEPT ![n] = s]
  BY DEF Start
<1>2. s \in free
  <2>1. \E x \in free : \A r \in free : x <= r
    <3>1. free \subseteq {1, 2} /\ free # {}
      BY <1>1 DEF Slot
    <3> HIDE DEF free
    <3>2. CASE 1 \in free
      <4>1. \A r \in free : 1 <= r
        BY <3>1
      <4> QED
        BY <3>2, <4>1
    <3>3. CASE 1 \notin free
      <4>1. 2 \in free /\ \A r \in free : r = 2
        BY <3>1, <3>3
      <4> QED
        BY <4>1
    <3> QED
      BY <3>2, <3>3
  <2> HIDE DEF free
  <2> QED
    BY <2>1
<1> HIDE DEF s
<1>3. s \in Slot /\ <<n, s>> \in Node \X Slot
  BY <1>2
<1> HIDE DEF free
<1>4. /\ worker \in [Node \X Slot -> Working(staged)] /\ handle \in [Node -> Slot \cup {NoSlot}]
      /\ Handled(worker, handle)
  BY DEF RelayInv, AgentsOK
<1>5. ASSUME NEW v \in Node \X Slot
      PROVE  /\ worker'[v] \in Working(staged)
             /\ worker[v] # NoWorker \/ v = <<n, s>> => worker'[v] # NoWorker
  <2>1. CASE v = <<n, s>>
    BY <1>1, <2>1
  <2>2. CASE v # <<n, s>> /\ v = i
    <3>1. worker[v] \in Working(staged) /\ handle[n] # NoSlot /\ worker[v] # NoWorker
      BY <1>4, <2>2, Kinds DEF Handled
    <3>2. worker'[v] = [worker[v] EXCEPT !.canceled = TRUE]
      BY <1>1, <2>2
    <3> QED
      BY <3>1, <3>2, CanceledIs
  <2>3. CASE v # <<n, s>> /\ v # i
    BY <1>1, <1>4, <2>3
  <2> QED
    BY <2>1, <2>2, <2>3
<1>6. worker' \in [Node \X Slot -> Working(staged)]
  BY <1>1, <1>5
<1>7. handle' \in [Node -> Slot \cup {NoSlot}]
  BY <1>1, <1>3, <1>4
<1>8. Handled(worker', handle')
  <2> SUFFICES ASSUME NEW m \in Node, handle'[m] # NoSlot PROVE worker'[<<m, handle'[m]>>] # NoWorker
    BY DEF Handled
  <2>1. CASE m = n
    BY <1>1, <1>3, <1>4, <1>5, <2>1
  <2>2. CASE m # n
    <3>1. handle'[m] = handle[m] /\ <<m, handle[m]>> \in Node \X Slot /\ worker[<<m, handle[m]>>] # NoWorker
      BY <1>1, <1>4, <2>2 DEF Handled
    <3> QED
      BY <1>5, <3>1
  <2> QED
    BY <2>1, <2>2
<1> QED
  BY <1>6, <1>7, <1>8 DEF AgentFrame, RelayInv, WireOK

(* The next message to an Agent. *)
LEMMA NextDownIs ==
  ASSUME RelayInv, NEW n \in Node, NEW type, NextDown(n, type)
  PROVE  /\ Head(down[n]) \in Sent(staged) /\ Head(down[n]) \in DownMessage /\ Head(down[n]).type = type
         /\ down' \in [Node -> Seq(Sent(staged))]
<1>1. down \in [Node -> Seq(Sent(staged))] /\ down[n] \in Seq(Sent(staged))
  BY DEF RelayInv, WireOK
<1>2. down[n] # <<>>
  BY DEF NextDown
<1>3. Head(down[n]) \in Sent(staged) /\ Tail(down[n]) \in Seq(Sent(staged))
  BY <1>1, <1>2
<1> QED
  BY <1>1, <1>3 DEF NextDown, Sent

LEMMA OnFileUploadRequestStep ==
  ASSUME RelayInv, OnFileUploadRequest
  PROVE  RelayInv'
<1> DEFINE m == Head(down[Source])
           w == [kind |-> "UPLOAD", phase |-> "wait", offset |-> m.offset, tries |-> 1, canceled |-> FALSE]
<1>1. m \in DownMessage /\ m.type = "UPLOAD" /\ down' \in [Node -> Seq(Sent(staged))]
  BY NextDownIs, Actors DEF OnFileUploadRequest
<1>2. m.offset \in 0..Chunks
  BY <1>1 DEF DownMessage
<1>3. 1 \in 1..Attempts
  BY ConstantsAssumption
<1>4. Start(Source, w)
  BY DEF OnFileUploadRequest
<1> HIDE DEF m
<1>5. w \in Uploader
  BY <1>2, <1>3 DEF Uploader
<1>6. w \in Working(staged) /\ w # NoWorker
  BY <1>5, Kinds DEF Working, Uploader
<1> HIDE DEF w
<1>7. AgentFrame
  BY <1>4, <1>6, StartIs, Actors DEF OnFileUploadRequest
<1> QED
  BY <1>1, <1>7, AgentIs DEF OnFileUploadRequest, hubVars, disk, bounds

LEMMA OnFileDeliveryRequestStep ==
  ASSUME RelayInv, NEW n \in Node, OnFileDeliveryRequest(n)
  PROVE  RelayInv'
<1> DEFINE m == Head(down[n])
           w == [kind |-> "DELIVER", phase |-> "get", sha |-> m.sha, got |-> Nothing, canceled |-> FALSE]
<1>1. m \in DownMessage /\ m.type = "DELIVER" /\ m \in Sent(staged) /\ down' \in [Node -> Seq(Sent(staged))]
  BY NextDownIs DEF OnFileDeliveryRequest
<1>2. m.sha \in staged /\ staged \subseteq Content
  BY <1>1 DEF Sent, RelayInv, HubOK
<1>3. Start(n, w)
  BY DEF OnFileDeliveryRequest
<1> HIDE DEF m
<1>4. w \in Downloader /\ w.sha = m.sha
  BY <1>2, ContentIs DEF Downloader
<1>5. w \in Working(staged) /\ w # NoWorker
  BY <1>2, <1>4, Kinds DEF Working
<1> HIDE DEF w
<1>6. AgentFrame
  BY <1>3, <1>5, StartIs DEF OnFileDeliveryRequest
<1> QED
  BY <1>1, <1>6, AgentIs DEF OnFileDeliveryRequest, hubVars, disk, bounds

LEMMA OnFileTransferCancelStep ==
  ASSUME RelayInv, NEW n \in Node, OnFileTransferCancel(n)
  PROVE  RelayInv'
<1> DEFINE v == <<n, handle[n]>>
           x == [worker[v] EXCEPT !.canceled = TRUE]
<1>1. down' \in [Node -> Seq(Sent(staged))] /\ UNCHANGED <<handle, up>>
  BY NextDownIs DEF OnFileTransferCancel
<1>2. CASE handle[n] = NoSlot
  <2>1. AgentFrame
    BY <1>1, <1>2, SameAgents DEF OnFileTransferCancel
  <2> QED
    BY <1>1, <2>1, AgentIs DEF OnFileTransferCancel, hubVars, disk, bounds
<1>3. CASE handle[n] # NoSlot
  <2>1. v \in Node \X Slot /\ worker[v] \in Working(staged) /\ worker[v] # NoWorker
    BY <1>3 DEF RelayInv, AgentsOK, Handled
  <2>2. worker' = [worker EXCEPT ![v] = x]
    BY <1>3, <2>1 DEF OnFileTransferCancel, RelayInv, AgentsOK
  <2>3. x \in Working(staged) /\ x # NoWorker
    BY <2>1, CanceledIs
  <2> HIDE DEF v, x
  <2>4. AgentFrame
    BY <1>1, <2>1, <2>2, <2>3, WorkerIs
  <2> QED
    BY <1>1, <2>4, AgentIs DEF OnFileTransferCancel, hubVars, disk, bounds
<1> QED
  BY <1>2, <1>3

LEMMA OnMessageStep ==
  ASSUME RelayInv, NEW n \in Node, OnMessage(n)
  PROVE  RelayInv'
BY OnFileUploadRequestStep, OnFileDeliveryRequestStep, OnFileTransferCancelStep DEF OnMessage

(* A goroutine that reports a failure. *)
LEMMA FailsIs ==
  ASSUME RelayInv, NEW n \in Node, NEW s \in Slot, NEW type \in {"FAILURE", "DELIVERY"},
         Quit(n, s, Result(type, FALSE))
  PROVE  AgentFrame
<1>1. Result(type, FALSE) \in Seq(Said(n, Delivered)) /\ Result(type, FALSE) \in Seq(UpMessage)
  BY Messages
<1> QED
  BY <1>1, QuitIs

LEMMA GoroutineIs ==
  ASSUME RelayInv, AgentFrame, UNCHANGED <<hubVars, file, dest, link, down, bounds>>
  PROVE  RelayInv'
<1>1. down' \in [Node -> Seq(Sent(staged))]
  BY DEF RelayInv, WireOK
<1> QED
  BY <1>1, AgentIs DEF hubVars, disk, bounds

LEMMA WorkerCanceledStep ==
  ASSUME RelayInv, NEW n \in Node, NEW s \in Slot, WorkerCanceled(n, s)
  PROVE  RelayInv'
<1>1. Quit(n, s, Result("FAILURE", FALSE)) \/ Quit(n, s, Result("DELIVERY", FALSE))
  BY DEF WorkerCanceled
<1>2. AgentFrame
  BY <1>1, FailsIs
<1> QED
  BY <1>2, GoroutineIs DEF WorkerCanceled

LEMMA UploadRequestFailedStep ==
  ASSUME RelayInv, NEW s \in Slot, UploadRequestFailed(s)
  PROVE  RelayInv'
<1> DEFINE w == worker[<<Source, s>>]
<1>1. w.kind = "UPLOAD" /\ TryAgain(s, w.offset)
  BY DEF UploadRequestFailed, Running
<1>2. w \in Uploader
  BY <1>1, Workers, Actors
<1>3. w.offset \in 0..Chunks
  BY <1>2 DEF Uploader
<1>4. AgentFrame
  BY <1>1, <1>3, TryAgainIs
<1> QED
  BY <1>4, GoroutineIs DEF UploadRequestFailed

LEMMA DownloadStep ==
  ASSUME RelayInv, NEW n \in Node, NEW s \in Slot, Download(n, s)
  PROVE  RelayInv'
<1> DEFINE v == <<n, s>>
           w == worker[v]
           x == [w EXCEPT !.got = blob, !.phase = "body"]
<1>1. v \in Node \X Slot /\ w.kind = "DELIVER" /\ blob \in Content
      /\ worker \in [Node \X Slot -> Working(staged)]
  BY DEF Download, Running, RelayInv, HubOK, AgentsOK
<1>2. w \in Downloader /\ w.sha \in staged
  BY <1>1, Workers
<1>3. \/ worker' = [worker EXCEPT ![v].got = blob, ![v].phase = "body"] /\ UNCHANGED <<handle, up>>
      \/ Quit(n, s, Result("DELIVERY", FALSE))
  BY DEF Download
<1>4. x \in Downloader /\ x.sha = w.sha
  BY <1>1, <1>2 DEF Downloader
<1>5. x \in Working(staged) /\ x # NoWorker
  BY <1>2, <1>4, Kinds DEF Working
<1>6. CASE worker' = [worker EXCEPT ![v].got = blob, ![v].phase = "body"] /\ UNCHANGED <<handle, up>>
  <2>1. worker' = [worker EXCEPT ![v] = x]
    BY <1>1, <1>6
  <2> HIDE DEF x
  <2>2. AgentFrame
    BY <1>1, <1>5, <1>6, <2>1, WorkerIs
  <2> QED
    BY <2>2, GoroutineIs DEF Download
<1>7. CASE Quit(n, s, Result("DELIVERY", FALSE))
  <2>1. AgentFrame
    BY <1>7, FailsIs
  <2> QED
    BY <2>1, GoroutineIs DEF Download
<1> QED
  BY <1>3, <1>6, <1>7

LEMMA DownloadFailedStep ==
  ASSUME RelayInv, NEW n \in Node, NEW s \in Slot, DownloadFailed(n, s)
  PROVE  RelayInv'
<1>1. AgentFrame
  BY FailsIs DEF DownloadFailed
<1> QED
  BY <1>1, GoroutineIs DEF DownloadFailed

(* The destination gets a staged file, and success is reported only then.  *)
LEMMA ReplaceDestinationStep ==
  ASSUME RelayInv, NEW n \in Target, NEW s \in Slot, ReplaceDestination(n, s)
  PROVE  RelayInv'
<1> DEFINE v == <<n, s>>
           w == worker[v]
           m == [type |-> "DELIVERY", ok |-> w.got = w.sha]
<1>1. n \in Node /\ v \in Node \X Slot /\ w.kind = "DELIVER"
  BY Actors DEF ReplaceDestination, Running
<1>2. w \in Downloader /\ w.sha \in staged
  BY <1>1, Workers
<1>3. /\ dest' = IF w.got = w.sha THEN [dest EXCEPT ![n] = w.got] ELSE dest
      /\ Quit(n, s, <<m>>)
      /\ UNCHANGED <<row, target, part, blob, job, staged, file, link, down, faults, requests>>
  BY DEF ReplaceDestination, Result, hubVars, disk, bounds
<1>4. /\ dest \in [Target -> staged \cup {Nothing}] /\ dest' \in [Target -> staged \cup {Nothing}]
      /\ Delivered \subseteq Delivered'
      /\ w.got = w.sha => n \in Delivered'
  BY <1>2, <1>3 DEF RelayInv, AgentsOK, Delivered
<1> DEFINE E == Delivered'
<1>5. /\ \A a, j : Good(a, j, staged, Delivered) => Good(a, j, staged, E)
      /\ \A r, t : RowOK(r, t, staged, Delivered) => RowOK(r, t, staged, E)
      /\ \A k, q : q \in Seq(Said(k, Delivered)) => q \in Seq(Said(k, E))
  <2> HIDE DEF E
  <2>1. Delivered \subseteq E
    BY <1>4 DEF E
  <2> QED
    BY <2>1, Grows
<1>6. m \in UpMessage /\ m \in Said(n, E)
  <2>1. m \in UpMessage /\ (m.ok => w.got = w.sha)
    BY DEF UpMessage
  <2> HIDE DEF m
  <2> QED
    BY <1>4, <2>1 DEF Said
<1> HIDE DEF m, E
<1>7. WireOK'
  <2>1. <<m>> \in Seq(UpMessage) /\ <<m>> \in Seq(Said(n, E))
    BY <1>6
  <2>2. up \in [Node -> Seq(UpMessage)] /\ \A k \in Node : up[k] \in Seq(Said(k, E))
    BY <1>5 DEF RelayInv, WireOK
  <2>3. up[n] \o <<m>> \in Seq(UpMessage) /\ up[n] \o <<m>> \in Seq(Said(n, E))
    BY <1>1, <2>1, <2>2, ConcatProperties
  <2>4. up' = up \/ up' = [up EXCEPT ![n] = up[n] \o <<m>>]
    BY <1>3 DEF Quit
  <2>5. up' \in [Node -> Seq(UpMessage)] /\ \A k \in Node : up'[k] \in Seq(Said(k, E))
    BY <2>2, <2>3, <2>4
  <2> QED
    BY <1>3, <2>5 DEF RelayInv, WireOK, E
<1>8. AgentsOK'
  <2>1. NoWorker \in Working(staged)
    BY Kinds DEF Working
  <2>2. worker' = [worker EXCEPT ![v] = NoWorker] /\ handle' = [handle EXCEPT ![n] = NoSlot]
    BY <1>3 DEF Quit
  <2>3. /\ worker \in [Node \X Slot -> Working(staged)] /\ handle \in [Node -> Slot \cup {NoSlot}]
        /\ Handled(worker, handle) /\ file \in 0..MaxVersion
    BY DEF RelayInv, AgentsOK
  <2>4. worker' \in [Node \X Slot -> Working(staged)] /\ handle' \in [Node -> Slot \cup {NoSlot}]
        /\ Handled(worker', handle')
    BY <1>1, <2>1, <2>2, <2>3 DEF Handled
  <2> QED
    BY <1>3, <1>4, <2>3, <2>4 DEF AgentsOK
<1>9. JobsOK'
  BY <1>3, <1>5 DEF RelayInv, JobsOK, E
<1>10. HubOK'
  <2>1. RowOK(row', target', staged', E)
    BY <1>3, <1>5 DEF RelayInv, HubOK
  <2>2. row'.status = "SUCCESS" => Target \subseteq E
    BY <1>3, <1>4 DEF RelayInv, HubOK, E
  <2> QED
    BY <1>3, <2>1, <2>2 DEF RelayInv, HubOK, E, At
<1>11. BoundsOK'
  BY <1>3 DEF RelayInv, BoundsOK
<1> QED
  BY <1>7, <1>8, <1>9, <1>10, <1>11 DEF RelayInv

LEMMA GoroutineStep ==
  ASSUME RelayInv, NEW n \in Node, NEW s \in Slot, Goroutine(n, s)
  PROVE  RelayInv'
BY WorkerCanceledStep, UploadRequestFailedStep, DownloadStep, ReplaceDestinationStep, DownloadFailedStep
   DEF Goroutine

-----------------------------------------------------------------------------
(* Steps: requests, connections and faults. *)

LEMMA EventIs ==
  ASSUME RelayInv, AgentFrame, down' \in [Node -> Seq(Sent(staged))], link' \in [Node -> BOOLEAN],
         UNCHANGED <<row, target, part, blob, staged, dest>>, file' \in 0..MaxVersion, BoundsOK',
         job' \in [Actor -> Job \cup {NoJob}],
         \A a \in Actor : job'[a] = NoJob \/ Good(a, job'[a], staged, Delivered),
         job'[Upload] # NoJob => job[Upload] # NoJob /\ job'[Upload].step = job[Upload].step
  PROVE  RelayInv'
<1>1. Delivered' = Delivered
  BY DEF Delivered
<1>2. HubOK'
  <2>1. /\ At(Upload, "copy")' => At(Upload, "copy")
        /\ At(Upload, "promote")' => At(Upload, "promote")
    BY DEF At
  <2> QED
    BY <1>1, <2>1 DEF RelayInv, HubOK
<1>3. JobsOK'
  <2>1. \A a \in Actor : job'[a] = NoJob \/ Good(a, job'[a], staged', Delivered')
    BY <1>1
  <2> QED
    BY <2>1 DEF JobsOK
<1>4. AgentsOK'
  BY DEF RelayInv, AgentsOK, AgentFrame
<1>5. WireOK'
  BY <1>1 DEF AgentFrame, WireOK
<1> QED
  BY <1>2, <1>3, <1>4, <1>5 DEF RelayInv

(* One actor other than the upload has another job. *)
LEMMA OneJob ==
  ASSUME RelayInv, NEW a \in Actor, a # Upload, NEW j, Good(a, j, staged, Delivered), Go(a, j)
  PROVE  /\ job' \in [Actor -> Job \cup {NoJob}]
         /\ \A b \in Actor : job'[b] = NoJob \/ Good(b, job'[b], staged, Delivered)
         /\ job'[Upload] # NoJob => job[Upload] # NoJob /\ job'[Upload].step = job[Upload].step
<1>1. job \in [Actor -> Job \cup {NoJob}] /\ j \in Job
  BY DEF RelayInv, JobsOK, Good
<1>2. \A b \in Actor : job'[b] = IF b = a THEN j ELSE job[b]
  BY <1>1 DEF Go
<1> QED
  BY <1>1, <1>2, Actors DEF RelayInv, JobsOK, Go

(* What a handler begins with. *)
LEMMA TasksAre ==
  /\ \A a, St, D : \A op \in {"RESUME", "RETRY", "CANCEL"}, T \in SUBSET Target :
        Good(a, Task(op, "row", T, TRUE), St, D)
  /\ \A St, D : \A n \in Node : \A m \in Said(n, D) :
        Good(<<"gateway", n>>, HandlerOf(m), St, D) /\ Good(<<"late", n>>, HandlerOf(m), St, D)
<1>0. 0 \in 0..Chunks
  BY ConstantsAssumption
<1>1. ASSUME NEW a, NEW St, NEW D, NEW op \in {"RESUME", "RETRY", "CANCEL"}, NEW T \in SUBSET Target
      PROVE  Good(a, Task(op, "row", T, TRUE), St, D)
  <2> DEFINE t == Task(op, "row", T, TRUE)
  <2>1. t \in Job /\ t.op = op /\ t.step = "row" /\ t.row = NewRow /\ t.target = NewTargets
    BY <1>0, Kinds DEF Task, Job, Op
  <2> HIDE DEF t
  <2>2. Good(a, t, St, D)
    BY <2>1, Kinds DEF Good, Decided
  <2> QED
    BY <2>2 DEF t
<1>2. ASSUME NEW St, NEW D, NEW n \in Node, NEW m \in Said(n, D), NEW a, a[2] = n
      PROVE  Good(a, HandlerOf(m), St, D)
  <2> DEFINE t == HandlerOf(m)
  <2>1. m.type \in {"FAILURE", "DELIVERY"} /\ m.ok \in BOOLEAN
        /\ (m.type = "DELIVERY" /\ m.ok /\ n \in Target => n \in D)
    BY DEF Said, UpMessage
  <2>2. /\ t \in Job /\ t.op = m.type /\ t.step = "row" /\ t.row = NewRow /\ t.target = NewTargets
        /\ t.ok = m.ok
    BY <1>0, <2>1, Kinds DEF HandlerOf, Task, Job, Op
  <2> HIDE DEF t
  <2>3. Good(a, t, St, D)
    BY <1>2, <2>1, <2>2, Kinds DEF Good, Decided
  <2> QED
    BY <2>3 DEF t
<1> QED
  BY <1>1, <1>2, Actors

LEMMA RequestStep ==
  ASSUME RelayInv, Request
  PROVE  RelayInv'
<1>1. UNCHANGED <<row, target, part, blob, staged, file, worker, handle, dest, link, up, down, faults>>
  BY DEF Request, disk, agentVars, wire
<1>2. BoundsOK'
  BY <1>1, ConstantsAssumption DEF RelayInv, BoundsOK, Request
<1>3. PICK op \in {"RETRY", "CANCEL"}, T \in SUBSET Target :
         Go(Operator, WithTransfer(Task(op, "row", T, TRUE)))
  BY DEF Request
<1> DEFINE t == Task(op, "row", T, TRUE)
<1>4. Good(Operator, t, staged, Delivered)
  BY TasksAre
<1> HIDE DEF t
<1>5. Good(Operator, WithTransfer(t), staged, Delivered)
  BY <1>4, WithTransferIs
<1>6. Go(Operator, WithTransfer(t))
  BY <1>3 DEF t
<1>7. AgentFrame /\ down' \in [Node -> Seq(Sent(staged))] /\ link' \in [Node -> BOOLEAN]
      /\ file' \in 0..MaxVersion
  BY <1>1, SameAgents DEF RelayInv, WireOK, AgentsOK
<1> QED
  BY <1>1, <1>2, <1>5, <1>6, <1>7, OneJob, EventIs, Actors

LEMMA ConnectStep ==
  ASSUME RelayInv, NEW n \in Node, Connect(n)
  PROVE  RelayInv'
<1> DEFINE g == <<"gateway", n>>
           T == Target \cap {n}
           t == Task("RESUME", "row", T, TRUE)
<1>1. UNCHANGED <<row, target, part, blob, staged, file, worker, handle, dest, up, down, faults, requests>>
  BY DEF Connect, disk, agentVars, bounds
<1>2. BoundsOK'
  BY <1>1 DEF RelayInv, BoundsOK
<1>3. T \in SUBSET Target
  OBVIOUS
<1>4. Go(g, t)
  BY DEF Connect
<1> HIDE DEF T
<1>5. Good(g, t, staged, Delivered)
  BY <1>3, TasksAre
<1> HIDE DEF t
<1>6. AgentFrame /\ down' \in [Node -> Seq(Sent(staged))] /\ link' \in [Node -> BOOLEAN]
      /\ file' \in 0..MaxVersion
  BY <1>1, SameAgents DEF RelayInv, WireOK, AgentsOK, Connect
<1>7. g \in Actor /\ g # Upload
  BY Actors
<1> HIDE DEF g
<1> QED
  BY <1>1, <1>2, <1>4, <1>5, <1>6, <1>7, OneJob, EventIs

(* The next message to the Hub. *)
LEMMA HeadUpIs ==
  ASSUME RelayInv, NEW n \in Node, up[n] # <<>>
  PROVE  /\ Head(up[n]) \in Said(n, Delivered)
         /\ Tail(up[n]) \in Seq(Said(n, Delivered)) /\ Tail(up[n]) \in Seq(UpMessage)
<1>1. up[n] \in Seq(UpMessage) /\ up[n] \in Seq(Said(n, Delivered))
  BY DEF RelayInv, WireOK
<1> QED
  BY <1>1

LEMMA ReceiveStep ==
  ASSUME RelayInv, NEW n \in Node, Receive(n)
  PROVE  RelayInv'
<1> DEFINE g == <<"gateway", n>>
           t == HandlerOf(Head(up[n]))
<1>1. UNCHANGED <<row, target, part, blob, staged, file, worker, handle, dest, link, down, faults, requests>>
  BY DEF Receive, disk, agentVars, bounds
<1>2. BoundsOK'
  BY <1>1 DEF RelayInv, BoundsOK
<1>3. Head(up[n]) \in Said(n, Delivered) /\ Tail(up[n]) \in Seq(Said(n, Delivered))
      /\ Tail(up[n]) \in Seq(UpMessage)
  BY HeadUpIs DEF Receive
<1>4. Go(g, WithTransfer(t)) /\ up' = [up EXCEPT ![n] = Tail(up[n])]
  BY DEF Receive
<1>5. Good(g, t, staged, Delivered)
  BY <1>3, TasksAre
<1> HIDE DEF t
<1>6. Good(g, WithTransfer(t), staged, Delivered)
  BY <1>5, WithTransferIs
<1>7. AgentFrame
  BY <1>1, <1>3, <1>4 DEF RelayInv, WireOK, AgentsOK, AgentFrame
<1>8. down' \in [Node -> Seq(Sent(staged))] /\ link' \in [Node -> BOOLEAN] /\ file' \in 0..MaxVersion
  BY <1>1 DEF RelayInv, WireOK, AgentsOK
<1>9. g \in Actor /\ g # Upload
  BY Actors
<1> HIDE DEF g
<1> QED
  BY <1>1, <1>2, <1>4, <1>6, <1>7, <1>8, <1>9, OneJob, EventIs

(* Without its connection a job is as good. *)
LEMMA LostIs ==
  ASSUME NEW a, NEW j, NEW St, NEW D, Good(a, j, St, D)
  PROVE  LET k == [j EXCEPT !.conn = FALSE] IN
         Good(a, k, St, D) /\ k \in Job /\ k # NoJob /\ k.step = j.step
<1> DEFINE k == [j EXCEPT !.conn = FALSE]
<1>1. j \in Job
  BY DEF Good
<1>2. /\ k \in Job /\ k.step = j.step /\ k.row = j.row /\ k.op = j.op /\ k.target = j.target
      /\ k.ok = j.ok
  BY <1>1 DEF Job
<1> HIDE DEF k
<1>3. Good(a, k, St, D)
  BY <1>2 DEF Good, Decided
<1> QED
  BY <1>2, <1>3, Kinds DEF k

LEMMA BreakIs ==
  ASSUME RelayInv, NEW n \in Node, Break(n)
  PROVE  /\ job' \in [Actor -> Job \cup {NoJob}]
         /\ \A a \in Actor : job'[a] = NoJob \/ Good(a, job'[a], staged, Delivered)
         /\ job'[Upload] # NoJob => job[Upload] # NoJob /\ job'[Upload].step = job[Upload].step
         /\ up' \in [Node -> Seq(UpMessage)] /\ \A k \in Node : up'[k] \in Seq(Said(k, Delivered))
         /\ down' \in [Node -> Seq(Sent(staged))] /\ link' \in [Node -> BOOLEAN]
<1> DEFINE g == <<"gateway", n>>
           l == <<"late", n>>
           cut(j) == IF \/ j.op # "NONE" /\ j.step = "sendSource" /\ n = Source
                        \/ j.op # "NONE" /\ j.step = "send" /\ n \in j.sending
                     THEN [j EXCEPT !.conn = FALSE] ELSE j
           last == IF job[g] # NoJob THEN {job[g]}
                   ELSE {NoJob} \cup (IF up[n] = <<>> THEN {} ELSE {HandlerOf(Head(up[n]))})
<1>1. PICK h \in last : job' = [a \in Actor |-> IF a = g THEN NoJob
                                                ELSE IF a = l THEN cut(h) ELSE cut(job[a])]
  BY DEF Break
<1>2. ASSUME NEW a, NEW j, Good(a, j, staged, Delivered)
      PROVE  /\ Good(a, cut(j), staged, Delivered) /\ cut(j) \in Job /\ cut(j) # NoJob
             /\ cut(j).step = j.step
  <2>1. j \in Job /\ j # NoJob
    BY <1>2, JobParts DEF Good
  <2> QED
    BY <1>2, <2>1, LostIs
<1>3. cut(NoJob) = NoJob
  BY Kinds
<1>4. job \in [Actor -> Job \cup {NoJob}]
      /\ \A a \in Actor : job[a] = NoJob \/ Good(a, job[a], staged, Delivered)
  BY DEF RelayInv, JobsOK
<1>5. h = NoJob \/ Good(l, h, staged, Delivered)
  <2>1. CASE job[g] # NoJob
    <3>1. h = job[g] /\ Good(g, job[g], staged, Delivered)
      BY <1>1, <1>4, <2>1, Actors
    <3> QED
      BY <3>1, Actors DEF Good
  <2>2. CASE job[g] = NoJob /\ up[n] # <<>>
    <3>1. Good(l, HandlerOf(Head(up[n])), staged, Delivered)
      BY <2>2, HeadUpIs, TasksAre
    <3> QED
      BY <1>1, <2>2, <3>1
  <2>3. CASE job[g] = NoJob /\ up[n] = <<>>
    BY <1>1, <2>3
  <2> QED
    BY <2>1, <2>2, <2>3
<1> HIDE DEF cut, last
<1>6. ASSUME NEW a \in Actor
      PROVE  job'[a] = NoJob \/ (Good(a, job'[a], staged, Delivered) /\ job'[a] \in Job)
  <2>1. CASE a = g
    BY <1>1, <2>1
  <2>2. CASE a # g /\ a = l
    BY <1>1, <1>2, <1>3, <1>5, <2>2
  <2>3. CASE a # g /\ a # l
    BY <1>1, <1>2, <1>3, <1>4, <2>3
  <2> QED
    BY <2>1, <2>2, <2>3
<1>7. job' \in [Actor -> Job \cup {NoJob}]
  BY <1>1, <1>6
<1>8. job'[Upload] # NoJob => job[Upload] # NoJob /\ job'[Upload].step = job[Upload].step
  <2>1. job'[Upload] = cut(job[Upload]) /\ (job[Upload] = NoJob \/ Good(Upload, job[Upload], staged, Delivered))
    BY <1>1, <1>4, Actors
  <2> QED
    BY <1>2, <1>3, <2>1
<1>9. /\ up' \in [Node -> Seq(UpMessage)] /\ \A k \in Node : up'[k] \in Seq(Said(k, Delivered))
      /\ down' \in [Node -> Seq(Sent(staged))] /\ link' \in [Node -> BOOLEAN]
  <2>1. <<>> \in Seq(UpMessage) /\ <<>> \in Seq(Sent(staged)) /\ \A k : <<>> \in Seq(Said(k, Delivered))
    OBVIOUS
  <2> QED
    BY <2>1 DEF Break, RelayInv, WireOK
<1> QED
  BY <1>6, <1>7, <1>8, <1>9

LEMMA FaultIs ==
  ASSUME RelayInv, Fault
  PROVE  BoundsOK'
BY ConstantsAssumption DEF RelayInv, BoundsOK, Fault

LEMMA DisconnectStep ==
  ASSUME RelayInv, NEW n \in Node, Disconnect(n)
  PROVE  RelayInv'
<1>1. BoundsOK' /\ UNCHANGED <<row, target, part, blob, staged, file, worker, handle, dest>>
  BY FaultIs DEF Disconnect, disk, agentVars
<1>2. Break(n)
  BY DEF Disconnect
<1>3. AgentFrame /\ file' \in 0..MaxVersion
  BY <1>1, <1>2, BreakIs DEF RelayInv, AgentsOK, AgentFrame
<1> QED
  BY <1>1, <1>2, <1>3, BreakIs, EventIs

LEMMA AgentRestartStep ==
  ASSUME RelayInv, NEW n \in Node, AgentRestart(n)
  PROVE  RelayInv'
<1>1. BoundsOK' /\ UNCHANGED <<row, target, part, blob, staged, file, dest>>
  BY FaultIs DEF AgentRestart, disk
<1>2. /\ worker' = [v \in Node \X Slot |-> IF v[1] = n THEN NoWorker ELSE worker[v]]
      /\ handle' = [handle EXCEPT ![n] = NoSlot] /\ Break(n)
  BY DEF AgentRestart
<1>3. /\ worker \in [Node \X Slot -> Working(staged)] /\ handle \in [Node -> Slot \cup {NoSlot}]
      /\ Handled(worker, handle) /\ file \in 0..MaxVersion /\ NoWorker \in Working(staged)
  BY Kinds DEF RelayInv, AgentsOK, Working
<1>4. worker' \in [Node \X Slot -> Working(staged)] /\ handle' \in [Node -> Slot \cup {NoSlot}]
  BY <1>2, <1>3
<1>5. Handled(worker', handle')
  BY <1>2, <1>3 DEF Handled
<1>6. AgentFrame /\ file' \in 0..MaxVersion
  BY <1>1, <1>2, <1>3, <1>4, <1>5, BreakIs DEF AgentFrame
<1> QED
  BY <1>1, <1>2, <1>6, BreakIs, EventIs

(* A goroutine whose request has failed is one still. *)
LEMMA BrokenIs ==
  ASSUME NEW St, NEW w \in Working(St), w # NoWorker
  PROVE  LET x == [w EXCEPT !.phase = "broken"] IN x \in Working(St) /\ x # NoWorker
<1> DEFINE x == [w EXCEPT !.phase = "broken"]
<1>1. CASE w \in Uploader
  <2>1. x \in Uploader
    BY <1>1 DEF Uploader
  <2> QED
    BY <2>1, Kinds DEF Working, Uploader
<1>2. CASE w \in Downloader
  <2>1. x \in Downloader /\ x.kind = "DELIVER" /\ x.sha = w.sha /\ w.kind = "DELIVER"
    BY <1>2 DEF Downloader
  <2> QED
    BY <2>1, Kinds DEF Working
<1> QED
  BY <1>1, <1>2 DEF Working

LEMMA SameJobs ==
  ASSUME RelayInv, job' = job
  PROVE  /\ job' \in [Actor -> Job \cup {NoJob}]
         /\ \A a \in Actor : job'[a] = NoJob \/ Good(a, job'[a], staged, Delivered)
         /\ job'[Upload] # NoJob => job[Upload] # NoJob /\ job'[Upload].step = job[Upload].step
BY DEF RelayInv, JobsOK

LEMMA BreakRequestStep ==
  ASSUME RelayInv, NEW n \in Node, NEW s \in Slot, BreakRequest(n, s)
  PROVE  RelayInv'
<1> DEFINE v == <<n, s>>
           x == [worker[v] EXCEPT !.phase = "broken"]
<1>1. BoundsOK' /\ UNCHANGED <<row, target, part, blob, job, staged, file, handle, dest, link, up, down>>
  BY FaultIs DEF BreakRequest, hubVars, disk, wire
<1>2. v \in Node \X Slot /\ worker[v] \in Working(staged) /\ worker[v] # NoWorker
  BY DEF BreakRequest, RelayInv, AgentsOK
<1>3. worker' = [worker EXCEPT ![v] = x]
  BY <1>2 DEF BreakRequest, RelayInv, AgentsOK
<1>4. x \in Working(staged) /\ x # NoWorker
  BY <1>2, BrokenIs
<1> HIDE DEF v, x
<1>5. AgentFrame
  BY <1>1, <1>2, <1>3, <1>4, WorkerIs
<1>6. down' \in [Node -> Seq(Sent(staged))] /\ link' \in [Node -> BOOLEAN] /\ file' \in 0..MaxVersion
  BY <1>1 DEF RelayInv, WireOK, AgentsOK
<1> QED
  BY <1>1, <1>5, <1>6, SameJobs, EventIs

LEMMA HubRestartStep ==
  ASSUME RelayInv, HubRestart
  PROVE  RelayInv'
<1>1. BoundsOK' /\ UNCHANGED <<row, target, part, blob, staged, file, handle, dest>>
  BY FaultIs DEF HubRestart, disk
<1>2. /\ job' = [a \in Actor |-> NoJob] /\ link' = [n \in Node |-> FALSE]
      /\ up' = [n \in Node |-> <<>>] /\ down' = [n \in Node |-> <<>>]
      /\ worker' = [v \in Node \X Slot |-> IF worker[v] = NoWorker THEN NoWorker
                                           ELSE [worker[v] EXCEPT !.phase = "broken"]]
  BY DEF HubRestart
<1>3. /\ worker \in [Node \X Slot -> Working(staged)] /\ handle \in [Node -> Slot \cup {NoSlot}]
      /\ Handled(worker, handle) /\ file \in 0..MaxVersion
  BY DEF RelayInv, AgentsOK
<1>4. ASSUME NEW v \in Node \X Slot
      PROVE  worker'[v] \in Working(staged) /\ (worker[v] # NoWorker => worker'[v] # NoWorker)
  <2>1. CASE worker[v] = NoWorker
    BY <1>2, <1>3, <2>1
  <2>2. CASE worker[v] # NoWorker
    <3>1. worker'[v] = [worker[v] EXCEPT !.phase = "broken"] /\ worker[v] \in Working(staged)
      BY <1>2, <1>3, <2>2
    <3> QED
      BY <2>2, <3>1, BrokenIs
  <2> QED
    BY <2>1, <2>2
<1>5. worker' \in [Node \X Slot -> Working(staged)]
  BY <1>2, <1>4
<1>6. Handled(worker', handle')
  <2> SUFFICES ASSUME NEW n \in Node, handle'[n] # NoSlot PROVE worker'[<<n, handle'[n]>>] # NoWorker
    BY DEF Handled
  <2>1. handle'[n] = handle[n] /\ <<n, handle[n]>> \in Node \X Slot /\ worker[<<n, handle[n]>>] # NoWorker
    BY <1>1, <1>3 DEF Handled
  <2> QED
    BY <1>4, <2>1
<1>7. <<>> \in Seq(UpMessage) /\ <<>> \in Seq(Sent(staged)) /\ \A k : <<>> \in Seq(Said(k, Delivered))
  OBVIOUS
<1>8. AgentFrame /\ file' \in 0..MaxVersion
  BY <1>1, <1>2, <1>3, <1>5, <1>6, <1>7 DEF AgentFrame
<1>9. down' \in [Node -> Seq(Sent(staged))] /\ link' \in [Node -> BOOLEAN]
  BY <1>2, <1>7
<1>10. /\ job' \in [Actor -> Job \cup {NoJob}] /\ \A a \in Actor : job'[a] = NoJob
       /\ job'[Upload] = NoJob
  BY <1>2, Actors
<1> QED
  BY <1>1, <1>8, <1>9, <1>10, EventIs

LEMMA SourceChangesStep ==
  ASSUME RelayInv, SourceChanges
  PROVE  RelayInv'
<1>1. UNCHANGED <<row, target, part, blob, job, staged, worker, handle, dest, link, up, down, faults, requests>>
  BY DEF SourceChanges, hubVars, disk, wire, bounds
<1>2. file' \in 0..MaxVersion
  BY ConstantsAssumption DEF SourceChanges, RelayInv, AgentsOK
<1>3. AgentFrame /\ BoundsOK' /\ down' \in [Node -> Seq(Sent(staged))] /\ link' \in [Node -> BOOLEAN]
  BY <1>1, SameAgents DEF RelayInv, WireOK, BoundsOK
<1> QED
  BY <1>1, <1>2, <1>3, SameJobs, EventIs

LEMMA RelayStep ==
  ASSUME RelayInv, [Next]_vars
  PROVE  RelayInv'
<1>1. CASE vars' = vars
  BY <1>1 DEF vars, hubVars, disk, agentVars, wire, bounds, RelayInv, HubOK, JobsOK, AgentsOK, WireOK,
              BoundsOK, Delivered, At
<1>2. CASE Next
  BY <1>2, HandlerStep, UploadHandlerStep, RequestStep, SourceChangesStep, HubRestartStep, OnMessageStep,
     ConnectStep, ReceiveStep, DisconnectStep, AgentRestartStep, GoroutineStep, BreakRequestStep DEF Next
<1> QED
  BY <1>1, <1>2

LEMMA RelayInvariant == Spec => []RelayInv
<1>1. RelayInv /\ [Next]_vars => RelayInv'
  BY RelayStep
<1> QED
  BY RelayInit, <1>1, PTL DEF Spec

-----------------------------------------------------------------------------
(* The theorems. *)

(* Every variable keeps the type the code gives it, whatever handlers,     *)
(* goroutines and faults do.                                               *)
THEOREM TypesKept == Spec => []TypeOK
<1>1. RelayInv => TypeOK
  <2> SUFFICES ASSUME RelayInv PROVE TypeOK
    OBVIOUS
  <2>1. /\ row \in Transfer /\ target \in Targets
        /\ part \in Content /\ blob \in Content /\ staged \subseteq Content
        /\ job \in [Actor -> Job \cup {NoJob}] /\ file \in 0..MaxVersion
        /\ handle \in [Node -> Slot \cup {NoSlot}] /\ link \in [Node -> BOOLEAN]
        /\ up \in [Node -> Seq(UpMessage)]
        /\ faults \in 0..MaxFaults /\ requests \in 0..MaxRequests
    BY DEF RelayInv, HubOK, RowOK, JobsOK, AgentsOK, WireOK, BoundsOK
  <2>2. worker \in [Node \X Slot -> Uploader \cup Downloader \cup {NoWorker}]
    BY DEF RelayInv, AgentsOK, Working
  <2>3. dest \in [Target -> Content]
    BY <2>1, ContentIs DEF RelayInv, AgentsOK
  <2>4. down \in [Node -> Seq(DownMessage)]
    <3>1. Sent(staged) \subseteq DownMessage
      BY DEF Sent
    <3>2. \A n \in Node : down[n] \in Seq(DownMessage)
      BY <3>1, SeqMonotonic DEF RelayInv, WireOK
    <3> QED
      BY <3>2 DEF RelayInv, WireOK
  <2> QED
    BY <2>1, <2>2, <2>3, <2>4 DEF TypeOK
<1> QED
  BY RelayInvariant, <1>1, PTL

(* A transfer shows SUCCESS only when every target has had a staged file   *)
(* put in place: results, retries, cancellations, reconnects and restarts  *)
(* may come in any order and from stale copies.                            *)
THEOREM SuccessIsDelivered == Spec => []SuccessMeansDelivered
<1>1. RelayInv => SuccessMeansDelivered
  BY DEF RelayInv, HubOK, SuccessMeansDelivered, Delivered
<1> QED
  BY RelayInvariant, <1>1, PTL

(* A destination has a whole, staged file or none: the download is         *)
(* verified against the hash it was sent, and only staged hashes are sent. *)
THEOREM DestinationsWhole == Spec => []DestinationIsWhole
<1>1. RelayInv => DestinationIsWhole
  BY DEF RelayInv, HubOK, AgentsOK, DestinationIsWhole
<1> QED
  BY RelayInvariant, <1>1, PTL

-----------------------------------------------------------------------------
(* Who undoes a cancellation. *)

(* A handler that moves on and has a copy from before the cancellation.    *)
Undoes(a) == /\ job[a] # NoJob /\ job'[a] # job[a]
             /\ job[a].step # "row" /\ job[a].row.status # "CANCELED"

LEMMA MovesOn ==
  ASSUME RelayInv, NEW a \in Actor, NEW s, s # "row", At(a, s), NEW k, Go(a, k), k = NoJob \/ k.step # s,
         job[a].row.status # "CANCELED"
  PROVE  Undoes(a)
<1>1. job'[a] = k
  BY DEF Go, RelayInv, JobsOK
<1> QED
  BY <1>1 DEF Undoes, At

LEMMA LoopMovesOn ==
  ASSUME RelayInv, NEW a \in Actor, NEW s, s \notin {"row", "loop"}, At(a, s), Loop(a, job[a]),
         job[a].row.status # "CANCELED"
  PROVE  Undoes(a)
<1> DEFINE k == [job[a] EXCEPT !.step = "loop", !.sending = {}]
<1>1. k.step = "loop"
  BY JobAt DEF Job
<1>2. Go(a, NoJob) \/ Go(a, k)
  BY DEF Loop
<1> HIDE DEF k
<1> QED
  BY <1>1, <1>2, MovesOn

(* Writers of the transfer. *)
LEMMA RowUndone ==
  ASSUME RelayInv, NEW a \in Actor, Handler(a), row.status = "CANCELED", row'.status # "CANCELED"
  PROVE  Undoes(a)
<1>1. row' # row
  OBVIOUS
<1>2. CASE DispatchSource(a)
  <2> DEFINE j == job[a]
             k == [j EXCEPT !.row = [j.row EXCEPT !.status = "UPLOADING"], !.offset = Len(part),
                            !.step = "sendSource", !.conn = TRUE]
  <2>1. At(a, "source") /\ j.row.status # "CANCELED" /\ Go(a, k)
    BY <1>1, <1>2 DEF DispatchSource
  <2>2. k.step = "sendSource"
    BY <2>1, JobAt DEF Job
  <2> HIDE DEF k
  <2> QED
    BY <2>1, <2>2, MovesOn
<1>3. CASE SendUploadRequest(a)
  <2>1. At(a, "sendSource") /\ Loop(a, job[a])
    BY <1>3 DEF SendUploadRequest
  <2>2. job[a].row.status # "CANCELED"
    BY <2>1, JobAt DEF Good, Decided
  <2> QED
    BY <2>1, <2>2, LoopMovesOn
<1>4. CASE Finish(a)
  <2>1. At(a, "loop") /\ job[a].op = "RETRY" /\ End(a)
    BY <1>1, <1>4 DEF Finish
  <2>2. job[a].row.status # "CANCELED"
    BY <2>1, JobAt DEF Good, Decided
  <2> QED
    BY <2>1, <2>2, MovesOn DEF End
<1>5. CASE HandleUploadResult(a)
  <2>1. At(a, "act") /\ job[a].row.status # "CANCELED" /\ End(a)
    BY <1>1, <1>5 DEF HandleUploadResult, Acts
  <2> QED
    BY <2>1, MovesOn DEF End
<1>6. CASE UpdateAggregate(a)
  <2>1. At(a, "aggregate") /\ End(a)
    BY <1>6 DEF UpdateAggregate
  <2>2. job[a].row.status # "CANCELED"
    BY <2>1, JobAt DEF Good, Decided
  <2> QED
    BY <2>1, <2>2, MovesOn DEF End
<1>7. CASE Retry(a)
  <2> DEFINE j == job[a]
             k == [j EXCEPT !.op = "SOURCE", !.row = [j.row EXCEPT !.status = "PENDING"], !.todo = {},
                            !.step = "source"]
  <2>1. At(a, "act") /\ j.row.status # "CANCELED" /\ Go(a, k)
    BY <1>1, <1>7 DEF Retry, Acts
  <2>2. k.step = "source"
    BY <2>1, JobAt DEF Job
  <2> HIDE DEF k
  <2> QED
    BY <2>1, <2>2, MovesOn
<1>8. CASE Cancel(a)
  <2>1. row' = [job[a].row EXCEPT !.status = "CANCELED"] /\ job[a].row \in Transfer
    BY <1>8, JobAt DEF Cancel, Acts
  <2>2. row'.status = "CANCELED"
    BY <2>1 DEF Transfer
  <2> QED
    BY <2>2
<1> QED
  BY <1>1, <1>2, <1>3, <1>4, <1>5, <1>6, <1>7, <1>8
     DEF Handler, ReadTransfer, ReadTargets, ResumeNode, Resume, VisitTarget, RetryTarget,
         SendDeliveryRequest, SendCancel, HandleDeliveryResult, OnlyJob

(* Writers of a target. *)
LEMMA DispatchUndoes ==
  ASSUME RelayInv, NEW a \in Actor, NEW s \in {"loop", "redispatch"}, At(a, s), NEW n, NEW j \in Job,
         j.row = job[a].row, Dispatch(a, n, j), target' # target
  PROVE  Undoes(a)
<1> DEFINE k == [j EXCEPT !.target[n] = "DELIVERING", !.sending = {n}, !.step = "send", !.conn = TRUE]
<1>1. j.row.status # "CANCELED" /\ Go(a, k)
  BY DEF Dispatch
<1>2. k.step = "send"
  BY DEF Job
<1> HIDE DEF k
<1> QED
  BY <1>1, <1>2, MovesOn

LEMMA TargetUndone ==
  ASSUME RelayInv, NEW a \in Actor, Handler(a), NEW m \in Target, target[m] = "CANCELED",
         target'[m] # "CANCELED"
  PROVE  Undoes(a)
<1>1. target' # target
  OBVIOUS
<1>2. ASSUME NEW n \in Target, VisitTarget(a, n) PROVE Undoes(a)
  <2> DEFINE i == job[a]
             j == [i EXCEPT !.todo = i.todo \ {n}]
             k == [j EXCEPT !.target[n] = "PENDING", !.sending = {n}, !.step = "redispatch"]
  <2>1. At(a, "loop") /\ i \in Job /\ i.step = "loop" /\ target \in Targets
    BY <1>2, JobAt DEF VisitTarget
  <2>2. i.todo \ {n} \subseteq Target
    BY <2>1, JobParts
  <2>3. j \in Job /\ j.row = i.row /\ j.op = i.op
    BY <2>1, <2>2 DEF Job
  <2>4. \/ Dispatch(a, n, j)
        \/ j.op = "RETRY" /\ Go(a, k)
        \/ j.op = "CANCEL" /\ target' \in {target, [target EXCEPT ![n] = "CANCELED"]}
    BY <1>2 DEF VisitTarget
  <2> HIDE DEF j
  <2>5. CASE Dispatch(a, n, j)
    BY <1>1, <2>1, <2>3, <2>5, DispatchUndoes
  <2>6. CASE j.op = "RETRY" /\ Go(a, k)
    <3>1. k.step = "redispatch"
      BY <2>3 DEF Job
    <3>2. i.row.status # "CANCELED"
      BY <2>1, <2>3, <2>6, JobAt DEF Good, Decided
    <3> HIDE DEF k
    <3> QED
      BY <2>1, <2>6, <3>1, <3>2, MovesOn
  <2>7. CASE target' \in {target, [target EXCEPT ![n] = "CANCELED"]}
    BY <2>1, <2>7 DEF Targets
  <2> QED
    BY <2>4, <2>5, <2>6, <2>7
<1>3. CASE RetryTarget(a)
  <2>1. At(a, "redispatch") /\ job[a] \in Job /\ \E n \in job[a].sending : Dispatch(a, n, job[a])
    BY <1>3, JobAt DEF RetryTarget
  <2> QED
    BY <1>1, <2>1, DispatchUndoes
<1>4. CASE SendDeliveryRequest(a)
  <2>1. At(a, "send") /\ job[a].op # "CANCEL" /\ Loop(a, job[a])
    BY <1>4 DEF SendDeliveryRequest
  <2>2. job[a].row.status # "CANCELED"
    BY <2>1, JobAt DEF Good, Decided
  <2> QED
    BY <2>1, <2>2, LoopMovesOn
<1>5. CASE HandleDeliveryResult(a)
  <2> DEFINE j == job[a]
             s == IF j.ok THEN "SUCCESS" ELSE "FAILED"
             k == [j EXCEPT !.target[a[2]] = s, !.step = "aggregate"]
  <2>1. At(a, "act") /\ j.row.status # "CANCELED" /\ Go(a, k)
    BY <1>1, <1>5 DEF HandleDeliveryResult, Acts, WriteResult
  <2>2. k.step = "aggregate"
    BY <2>1, JobAt DEF Job
  <2> HIDE DEF k
  <2> QED
    BY <2>1, <2>2, MovesOn
<1> QED
  BY <1>1, <1>2, <1>3, <1>4, <1>5
     DEF Handler, ReadTransfer, ReadTargets, ResumeNode, Resume, DispatchSource, SendUploadRequest,
         SendCancel, Finish, HandleUploadResult, UpdateAggregate, Retry, Cancel, OnlyJob

(* The rest of the system leaves both rows alone, but for staging a file.  *)
LEMMA OthersKeep ==
  ASSUME RelayInv, [Next]_vars, \A a \in Actor : ~Handler(a), ~Stage
  PROVE  UNCHANGED <<row, target>>
<1>1. ASSUME UploadHandler PROVE UNCHANGED <<row, target>>
  BY <1>1 DEF UploadHandler, BeginUpload, HandleUpload, CopyChunk, Promote, FinishUpload, AbandonUpload, OnlyJob
<1>2. ASSUME NEW n \in Node, OnMessage(n) PROVE UNCHANGED <<row, target>>
  BY <1>2 DEF OnMessage, OnFileUploadRequest, OnFileDeliveryRequest, OnFileTransferCancel, hubVars
<1>3. ASSUME NEW n \in Node, NEW s \in Slot, Goroutine(n, s) PROVE UNCHANGED <<row, target>>
  BY <1>3 DEF Goroutine, WorkerCanceled, UploadRequestFailed, Download, ReplaceDestination, DownloadFailed,
              hubVars
<1>4. ASSUME NEW n \in Node, Connect(n) \/ Receive(n) \/ Disconnect(n) \/ AgentRestart(n)
      PROVE  UNCHANGED <<row, target>>
  BY <1>4 DEF Connect, Receive, Disconnect, AgentRestart
<1>5. ASSUME NEW n \in Node, NEW s \in Slot, BreakRequest(n, s) PROVE UNCHANGED <<row, target>>
  BY <1>5 DEF BreakRequest, hubVars
<1>6. Request \/ SourceChanges \/ HubRestart \/ vars' = vars => UNCHANGED <<row, target>>
  BY DEF Request, SourceChanges, HubRestart, vars, hubVars
<1> QED
  BY <1>1, <1>2, <1>3, <1>4, <1>5, <1>6 DEF Next

(* A cancellation is undone only by a handler that has read the transfer   *)
(* before it was made, and checked that it was not canceled, then.         *)
THEOREM UndoneByStaleCopies == Spec => CancelUndoneByStaleCopy
<1>1. ASSUME RelayInv, [Next]_vars, CancelUndone PROVE \E a \in Actor : Undoes(a)
  <2>1. CASE \E a \in Actor : Handler(a)
    BY <1>1, <2>1, RowUndone, TargetUndone DEF CancelUndone
  <2>2. CASE Stage
    <3> DEFINE k == [job[Upload] EXCEPT !.todo = Target, !.step = "loop"]
    <3>1. At(Upload, "stage") /\ Go(Upload, k)
      BY <2>2 DEF Stage
    <3>2. job[Upload] \in Job /\ job[Upload].row.status = "DELIVERING"
      BY <1>1, <3>1, UploadAt DEF Good
    <3>3. k.step = "loop"
      BY <3>2 DEF Job
    <3> HIDE DEF k
    <3> QED
      BY <1>1, <3>1, <3>2, <3>3, MovesOn, Actors
  <2>3. CASE (\A a \in Actor : ~Handler(a)) /\ ~Stage
    BY <1>1, <2>3, OthersKeep DEF CancelUndone
  <2> QED
    BY <2>1, <2>2, <2>3
<1>2. RelayInv /\ [Next]_vars
      => [CancelUndone => \E a \in Actor : /\ job[a] # NoJob /\ job'[a] # job[a]
                                           /\ job[a].step # "row" /\ job[a].row.status # "CANCELED"]_vars
  BY <1>1 DEF Undoes
<1> QED
  BY RelayInvariant, <1>2, PTL DEF Spec, CancelUndoneByStaleCopy
=============================================================================
