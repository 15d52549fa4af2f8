------------------------------ MODULE FileRelay ------------------------------
(***************************************************************************)
(* One file transfer: the source Agent uploads the file to the Hub, which  *)
(* stages it and delivers it to every target Agent.                        *)
(*                                                                         *)
(* The Hub keeps a row for the transfer and one per target.  Handlers of   *)
(* results, reconnects, operator requests and the upload read both into a  *)
(* copy, change the copy and write it back, each statement on its own; all *)
(* of them run at the same time, and so do the Agents' goroutines.         *)
(*                                                                         *)
(* A file is a sequence of chunks, a chunk the version of the source file  *)
(* it was read from; the whole sequence also stands for its SHA256.        *)
(***************************************************************************)
EXTENDS Naturals, Sequences

CONSTANTS
    Source,       \* the node that has the file
    Target,       \* the nodes that are to get it
    Online,       \* the nodes that are connected when the transfer is created
    Chunks,       \* size of the file
    Attempts,     \* POSTs of one upload request
    MaxVersion,   \* bound: changes of the source file
    MaxFaults,    \* bound: lost connections and requests, restarts
    MaxRequests,  \* bound: operator requests
    Mixed         \* bound: whether a behaviour may have requests and faults or changes

ASSUME ConstantsAssumption ==
    /\ Online \subseteq Target \cup {Source}
    /\ Chunks \in Nat \ {0} /\ Attempts \in Nat \ {0}
    /\ {MaxVersion, MaxFaults, MaxRequests} \subseteq Nat /\ Mixed \in BOOLEAN

Node == Target \cup {Source}
Content == UNION {[1..k -> 0..MaxVersion] : k \in 0..Chunks}
Nothing == <<>>     \* no file; no SHA256

TransferStatus == {"PENDING", "UPLOADING", "DELIVERING", "SUCCESS", "FAILED", "CANCELED"}
TargetStatus == {"PENDING", "DELIVERING", "SUCCESS", "FAILED", "CANCELED"}
Transfer == [status : TransferStatus, sha : Content]
Targets == [Target -> TargetStatus]

(* What the Hub runs: one handler per connection, the last handler of an   *)
(* old connection, the upload that holds the mutex, an operator request    *)
(* (bound: one at a time).                                                 *)
Actor == ({"gateway", "late"} \X Node) \cup ({"http", "api"} \X {Source})
Upload == <<"http", Source>>
Operator == <<"api", Source>>

NoJob == [op |-> "NONE"]
Op == {"SOURCE", "RESUME", "UPLOAD", "FAILURE", "DELIVERY", "RETRY", "CANCEL"}
Job == [op : Op,
        step : {"row", "targets", "act", "source", "sendSource", "copy", "promote", "stage",
                "aggregate", "loop", "redispatch", "send"},
        row : Transfer, target : Targets,     \* its copies
        todo : SUBSET Target,                 \* targets still to be visited
        sending : SUBSET Target,              \* the target it is visiting
        ok : BOOLEAN,                         \* the reported result
        offset : 0..Chunks,
        conn : BOOLEAN]                       \* the connection it sends on is up

(* What an Agent runs: goroutines, in slots (bound: two on one node).  The *)
(* request of a "broken" one has failed.                                   *)
Slot == {1, 2}
NoSlot == 0
NoWorker == [kind |-> "NONE", canceled |-> FALSE]
Uploader == [kind : {"UPLOAD"}, phase : {"wait", "served", "broken"}, offset : 0..Chunks,
             tries : 1..Attempts, canceled : BOOLEAN]
Downloader == [kind : {"DELIVER"}, phase : {"get", "body", "broken"}, sha : Content,
               got : Content, canceled : BOOLEAN]

UpMessage == [type : {"FAILURE", "DELIVERY"}, ok : BOOLEAN]
DownMessage == [type : {"UPLOAD"}, offset : 0..Chunks] \cup [type : {"DELIVER"}, sha : Content]
               \cup [type : {"CANCEL"}]

VARIABLES
    (* Hub *)
    row, target,   \* the database
    part, blob,    \* the files <id>.part and <id>.blob
    job,           \* per actor: what it is doing
    (* Agents *)
    file,          \* version of the source file
    worker,        \* per node and slot: the goroutine
    handle,        \* transferCancel: whose cancel function the node keeps
    dest,          \* per target: the file at its destination path
    (* the wire *)
    link, up, down,
    faults, requests,
    (* history *)
    staged         \* contents the Hub has ever staged

hubVars == <<row, target, part, blob, job, staged>>
disk == <<part, blob, staged>>
agentVars == <<file, worker, handle, dest>>
wire == <<link, up, down>>
bounds == <<faults, requests>>
vars == <<hubVars, agentVars, wire, bounds>>

NewRow == [status |-> "PENDING", sha |-> Nothing]
NewTargets == [n \in Target |-> "PENDING"]

Task(op, step, todo, ok) ==
    [op |-> op, step |-> step, row |-> NewRow, target |-> NewTargets, todo |-> todo,
     sending |-> {}, ok |-> ok, offset |-> 0, conn |-> TRUE]

(* Create has committed the rows and goes on with dispatchSource. *)
Init ==
    /\ row = NewRow /\ target = NewTargets
    /\ part = Nothing /\ blob = Nothing
    /\ job = [a \in Actor |-> IF a = Operator THEN Task("SOURCE", "source", {}, TRUE)
                              ELSE NoJob]
    /\ file = 0
    /\ worker = [w \in Node \X Slot |-> NoWorker]
    /\ handle = [n \in Node |-> NoSlot]
    /\ dest = [n \in Target |-> Nothing]
    /\ link = [n \in Node |-> n \in Online]
    /\ up = [n \in Node |-> <<>>] /\ down = [n \in Node |-> <<>>]
    /\ faults = 0 /\ requests = 0
    /\ staged = {}

-----------------------------------------------------------------------------
(* The Hub.                                                                *)

At(a, step) == job[a] # NoJob /\ job[a].step = step
Acts(a, op) == At(a, "act") /\ job[a].op = op
Go(a, j) == job' = [job EXCEPT ![a] = j]
Step(a, step) == Go(a, [job[a] EXCEPT !.step = step])
End(a) == Go(a, NoJob)
OnlyJob == UNCHANGED <<row, target, disk, agentVars, wire, bounds>>

Post(n, m) == IF link[n] THEN down' = [down EXCEPT ![n] = Append(@, m)] ELSE UNCHANGED down

(* A job that has visited all targets and has nothing to write or to say   *)
(* then is over.                                                           *)
Loop(a, j) == Go(a, IF j.todo = {} /\ j.op \in {"SOURCE", "RESUME"} THEN NoJob
                    ELSE [j EXCEPT !.step = "loop", !.sending = {}])

(* GetFileTransfer, ListFileTransfers: the transfer ... *)
WithTransfer(j) == [j EXCEPT !.row = row, !.step = IF j.op = "FAILURE" THEN "act" ELSE "targets"]

ReadTransfer(a) ==
    /\ At(a, "row")
    /\ Go(a, WithTransfer(job[a]))
    /\ OnlyJob

(* ... and then its targets. *)
ReadTargets(a) ==
    /\ At(a, "targets") /\ job[a].op \in {"DELIVERY", "RETRY", "CANCEL"}
    /\ Go(a, [job[a] EXCEPT !.target = target, !.step = "act"])
    /\ OnlyJob

(* ResumeNode: the upload if this is the source, then the deliveries that  *)
(* are still open.                                                         *)
Resume(a, openTargets) ==
    /\ At(a, "targets") /\ job[a].op = "RESUME"
    /\ LET r == job[a].row
           open == r.sha # Nothing /\ r.status \notin {"CANCELED", "SUCCESS"}
           j == [job[a] EXCEPT !.target = target,
                               !.todo = {n \in @ : open /\ target[n] \in openTargets}]
       IN IF a[2] = Source /\ r.status \in {"PENDING", "UPLOADING"}
          THEN Go(a, [j EXCEPT !.step = "source"]) ELSE Loop(a, j)
    /\ OnlyJob

(* mutant: only the deliveries that had begun *)
ResumeNode_Begun(a) == Resume(a, {"DELIVERING"})

ResumeNode(a) == Resume(a, {"PENDING", "DELIVERING"})

(* dispatchSource writes UPLOADING ... *)
DispatchSource(a) ==
    /\ At(a, "source")
    /\ LET j == job[a]
           r == [j.row EXCEPT !.status = "UPLOADING"] IN
       IF /\ j.row.sha = Nothing /\ j.row.status \notin {"SUCCESS", "FAILED", "CANCELED"}
          /\ link[Source]
       THEN /\ row' = r
            /\ Go(a, [j EXCEPT !.row = r, !.offset = Len(part), !.step = "sendSource",
                               !.conn = TRUE])
       ELSE Loop(a, j) /\ UNCHANGED row
    /\ UNCHANGED <<target, disk, agentVars, wire, bounds>>

(* ... and sends; a connection that has gone makes it PENDING again, or    *)
(* takes the message with it.                                              *)
SendUploadRequest(a) ==
    /\ At(a, "sendSource")
    /\ \/ /\ job[a].conn /\ Post(Source, [type |-> "UPLOAD", offset |-> job[a].offset])
          /\ UNCHANGED row
       \/ ~job[a].conn /\ UNCHANGED <<row, down>>
       \/ ~job[a].conn /\ row' = [job[a].row EXCEPT !.status = "PENDING"] /\ UNCHANGED down
    /\ Loop(a, job[a])
    /\ UNCHANGED <<target, disk, agentVars, link, up, bounds>>

(* dispatchTarget writes DELIVERING ... *)
Dispatch(a, n, j) ==
    IF /\ j.row.sha # Nothing /\ j.target[n] \notin {"SUCCESS", "CANCELED"}
       /\ j.row.status # "CANCELED" /\ link[n]
    THEN /\ target' = [target EXCEPT ![n] = "DELIVERING"]
         /\ Go(a, [j EXCEPT !.target[n] = "DELIVERING", !.sending = {n}, !.step = "send",
                            !.conn = TRUE])
    ELSE Loop(a, j) /\ UNCHANGED target

(* The loops over the targets: ResumeNode and completeUpload dispatch,     *)
(* Retry writes PENDING first, Cancel writes CANCELED.                     *)
VisitTarget(a, n) ==
    /\ At(a, "loop") /\ n \in job[a].todo
    /\ LET j == [job[a] EXCEPT !.todo = @ \ {n}]
       IN \/ j.op \in {"RESUME", "UPLOAD"} /\ Dispatch(a, n, j)
          \/ /\ j.op = "RETRY"
             /\ target' = [target EXCEPT ![n] = "PENDING"]
             /\ Go(a, [j EXCEPT !.target[n] = "PENDING", !.sending = {n}, !.step = "redispatch"])
          \/ /\ j.op = "CANCEL"
             /\ target' = IF j.target[n] = "SUCCESS" THEN target
                          ELSE [target EXCEPT ![n] = "CANCELED"]
             /\ Go(a, [j EXCEPT !.sending = {n}, !.step = "send"])
    /\ UNCHANGED <<row, disk, agentVars, wire, bounds>>

RetryTarget(a) ==
    /\ At(a, "redispatch")
    /\ \E n \in job[a].sending : Dispatch(a, n, job[a])
    /\ UNCHANGED <<row, disk, agentVars, wire, bounds>>

(* ... and sends, as above. *)
SendDeliveryRequest(a) ==
    /\ At(a, "send") /\ job[a].op # "CANCEL"
    /\ \E n \in job[a].sending :
         \/ /\ job[a].conn /\ Post(n, [type |-> "DELIVER", sha |-> job[a].row.sha])
            /\ UNCHANGED target
         \/ ~job[a].conn /\ UNCHANGED <<target, down>>
         \/ ~job[a].conn /\ target' = [target EXCEPT ![n] = "PENDING"] /\ UNCHANGED down
    /\ Loop(a, job[a])
    /\ UNCHANGED <<row, disk, agentVars, link, up, bounds>>

SendCancel(a) ==
    /\ At(a, "send") /\ job[a].op = "CANCEL"
    /\ \E n \in job[a].sending : Post(n, [type |-> "CANCEL"])
    /\ Loop(a, job[a])
    /\ UNCHANGED <<row, target, disk, agentVars, link, up, bounds>>

(* All targets visited. *)
Finish(a) ==
    /\ At(a, "loop") /\ job[a].todo = {}
    /\ \/ job[a].op = "RETRY" /\ row' = [job[a].row EXCEPT !.status = "DELIVERING"] /\ UNCHANGED down
       \/ job[a].op = "CANCEL" /\ Post(Source, [type |-> "CANCEL"]) /\ UNCHANGED row
    /\ End(a)
    /\ UNCHANGED <<target, disk, agentVars, link, up, bounds>>

(* HandleUploadResult: a failure the source reports; whether the file has  *)
(* been staged since does not matter.                                      *)
HandleUploadResult(a) ==
    /\ Acts(a, "FAILURE")
    /\ row' = IF job[a].row.status = "CANCELED" THEN row
              ELSE [job[a].row EXCEPT !.status = "FAILED"]
    /\ End(a)
    /\ UNCHANGED <<target, disk, agentVars, wire, bounds>>

(* HandleDeliveryResult: the target's own row ... *)
WriteResult(a, s) ==
    /\ target' = [target EXCEPT ![a[2]] = s]
    /\ Go(a, [job[a] EXCEPT !.target[a[2]] = s, !.step = "aggregate"])

(* mutants: the result is not looked at; nor is the cancellation *)
HandleDeliveryResult_AnyResult(a) ==
    /\ Acts(a, "DELIVERY")
    /\ IF job[a].row.status = "CANCELED" THEN End(a) /\ UNCHANGED target
       ELSE WriteResult(a, "SUCCESS")
    /\ UNCHANGED <<row, disk, agentVars, wire, bounds>>

HandleDeliveryResult_EvenCanceled(a) ==
    /\ Acts(a, "DELIVERY")
    /\ WriteResult(a, IF job[a].ok THEN "SUCCESS" ELSE "FAILED")
    /\ UNCHANGED <<row, disk, agentVars, wire, bounds>>

HandleDeliveryResult(a) ==
    /\ Acts(a, "DELIVERY")
    /\ IF job[a].row.status = "CANCELED" THEN End(a) /\ UNCHANGED target
       ELSE WriteResult(a, IF job[a].ok THEN "SUCCESS" ELSE "FAILED")
    /\ UNCHANGED <<row, disk, agentVars, wire, bounds>>

Aggregate(t) ==
    LET statuses == {t[n] : n \in Target} IN
    IF statuses = {"SUCCESS"} THEN "SUCCESS"
    ELSE IF statuses \subseteq {"SUCCESS", "FAILED", "CANCELED"} THEN "FAILED"
    ELSE "DELIVERING"

(* ... then the transfer, from the copies of the others. *)
UpdateAggregate(a) ==
    /\ At(a, "aggregate")
    /\ row' = [job[a].row EXCEPT !.status = Aggregate(job[a].target)]
    /\ End(a)
    /\ UNCHANGED <<target, disk, agentVars, wire, bounds>>

(* Retry: of the upload, if nothing is staged; of the failed targets. *)
Retry(a) ==
    /\ Acts(a, "RETRY")
    /\ LET j == job[a]
           r == [j.row EXCEPT !.status = "PENDING"] IN
       IF j.row.status = "CANCELED" THEN End(a) /\ UNCHANGED row
       ELSE IF j.row.sha = Nothing
       THEN row' = r /\ Go(a, [j EXCEPT !.op = "SOURCE", !.row = r, !.todo = {}, !.step = "source"])
       ELSE /\ Go(a, [j EXCEPT !.todo = {n \in @ : j.target[n] = "FAILED"}, !.step = "loop"])
            /\ UNCHANGED row
    /\ UNCHANGED <<target, disk, agentVars, wire, bounds>>

Cancel(a) ==
    /\ Acts(a, "CANCEL")
    /\ row' = [job[a].row EXCEPT !.status = "CANCELED"]
    /\ Go(a, [job[a] EXCEPT !.row = row', !.todo = Target, !.step = "loop"])
    /\ UNCHANGED <<target, disk, agentVars, wire, bounds>>

(* The operator asks for a retry of some targets, or cancels. *)
Request ==
    /\ Mixed \/ (faults = 0 /\ file = 0)
    /\ job[Operator] = NoJob /\ requests < MaxRequests /\ requests' = requests + 1
    /\ \/ \E T \in {Target} \cup {{n} : n \in Target} : Go(Operator, WithTransfer(Task("RETRY", "row", T, TRUE)))
       \/ Go(Operator, WithTransfer(Task("CANCEL", "row", {}, TRUE)))
    /\ UNCHANGED <<row, target, disk, agentVars, wire, faults>>

-----------------------------------------------------------------------------
(* The upload, on both sides.  A source goroutine that waits has its POST  *)
(* on the way; the Hub takes one at a time under its mutex.                *)

Served == {w \in {Source} \X Slot : worker[w].kind = "UPLOAD" /\ worker[w].phase = "served"}

BeginUpload ==
    /\ job[Upload] = NoJob
    /\ \E s \in Slot : LET w == worker[<<Source, s>>] IN
         /\ w.kind = "UPLOAD" /\ w.phase = "wait" /\ ~w.canceled
         /\ worker' = [worker EXCEPT ![<<Source, s>>].phase = "served"]
         /\ Go(Upload, [WithTransfer(Task("UPLOAD", "row", {}, TRUE)) EXCEPT !.offset = w.offset])
    /\ UNCHANGED <<row, target, disk, file, handle, dest, wire, bounds>>

(* A goroutine of n ends; done() drops the cancel function the node keeps, *)
(* whoever it belongs to, and a result is sent if there is a link.         *)
Quit(n, s, m) ==
    /\ worker' = [worker EXCEPT ![<<n, s>>] = NoWorker]
    /\ handle' = [handle EXCEPT ![n] = NoSlot]
    /\ up' = IF link[n] THEN [up EXCEPT ![n] = @ \o m] ELSE up

Result(type, ok) == << [type |-> type, ok |-> ok] >>
NoResult == <<>>     \* the Hub does nothing about an upload that went well

(* The next attempt, from this offset. *)
TryAgain(s, offset) ==
    LET w == worker[<<Source, s>>] IN
    IF w.tries = Attempts THEN Quit(Source, s, Result("FAILURE", FALSE))
    ELSE /\ worker' = [worker EXCEPT ![<<Source, s>>] =
                          [w EXCEPT !.offset = offset, !.tries = @ + 1, !.phase = "wait"]]
         /\ UNCHANGED <<handle, up>>

(* The answer to the request being served, if its client is still there:   *)
(* done, an error, or another offset to go on from.                        *)
Respond(answer, next) ==
    IF Served = {} THEN UNCHANGED <<worker, handle, up>>
    ELSE \E w \in Served :
           \/ answer = "done" /\ Quit(Source, w[2], NoResult)
           \/ answer = "error" /\ Quit(Source, w[2], Result("FAILURE", FALSE))
           \/ answer = "conflict" /\ TryAgain(w[2], next)

(* handleUpload up to the offset check.  A canceled transfer answers a     *)
(* conflict without an offset, which reads as 0.  An offset at the end of  *)
(* the file has no valid Content-Range.                                    *)
HandleUpload ==
    /\ At(Upload, "targets")
    /\ LET j == [job[Upload] EXCEPT !.target = target]
           Refuse(answer, next) == End(Upload) /\ Respond(answer, next)
       IN IF j.row.status = "CANCELED" THEN Refuse("conflict", 0)
          ELSE IF j.row.sha # Nothing THEN Refuse("done", 0)
          ELSE IF j.offset = Chunks THEN Refuse("error", 0)
          ELSE IF j.offset # Len(part) THEN Refuse("conflict", Len(part))
          ELSE Go(Upload, [j EXCEPT !.step = "copy"]) /\ UNCHANGED <<worker, handle, up>>
    /\ UNCHANGED <<row, target, disk, file, dest, link, down, bounds>>

(* mutant: one chunk too many *)
CopyChunk_OneMore ==
    /\ At(Upload, "copy") /\ Served # {}
    /\ part' = Append(part, file)
    /\ IF Len(part) = Chunks THEN Step(Upload, "promote") ELSE UNCHANGED job
    /\ UNCHANGED <<row, target, blob, staged, agentVars, wire, bounds>>

(* The body arrives in chunks, each as the source file is at that time. *)
CopyChunk ==
    /\ At(Upload, "copy") /\ Served # {}
    /\ part' = Append(part, file)
    /\ IF Len(part) + 1 = Chunks THEN Step(Upload, "promote") ELSE UNCHANGED job
    /\ UNCHANGED <<row, target, blob, staged, agentVars, wire, bounds>>

(* completeUpload: the hash and the rename ... *)
Promote ==
    /\ At(Upload, "promote")
    /\ blob' = part /\ part' = Nothing
    /\ Go(Upload, [job[Upload] EXCEPT !.row.sha = part, !.row.status = "DELIVERING", !.step = "stage"])
    /\ UNCHANGED <<row, target, staged, agentVars, wire, bounds>>

(* ... the row, and on to the targets. *)
Stage ==
    /\ At(Upload, "stage")
    /\ row' = job[Upload].row
    /\ staged' = staged \cup {row'.sha}
    /\ Go(Upload, [job[Upload] EXCEPT !.todo = Target, !.step = "loop"])
    /\ UNCHANGED <<target, part, blob, agentVars, wire, bounds>>

FinishUpload ==
    /\ At(Upload, "loop") /\ job[Upload].todo = {}
    /\ End(Upload) /\ Respond("done", 0)
    /\ UNCHANGED <<row, target, disk, file, dest, link, down, bounds>>

(* The client has gone: the body breaks off, and the statements made under *)
(* the request's context fail.  What is on the disk stays.                 *)
AbandonUpload ==
    /\ job[Upload] # NoJob /\ Served = {}
    /\ End(Upload)
    /\ OnlyJob

-----------------------------------------------------------------------------
(* An Agent.                                                               *)

(* startFileTransfer: cancels the goroutine whose function is kept. *)
Start(n, w) ==
    LET free == {s \in Slot : worker[<<n, s>>] = NoWorker}
        s == CHOOSE s \in free : \A r \in free : s <= r
    IN
      /\ free # {}
      /\ worker' = [v \in Node \X Slot |->
                      IF v = <<n, s>> THEN w
                      ELSE IF v = <<n, handle[n]>> THEN [worker[v] EXCEPT !.canceled = TRUE]
                      ELSE worker[v]]
      /\ handle' = [handle EXCEPT ![n] = s]

NextDown(n, type) ==
    /\ down[n] # <<>> /\ Head(down[n]).type = type
    /\ down' = [down EXCEPT ![n] = Tail(@)]

OnFileUploadRequest ==
    /\ NextDown(Source, "UPLOAD")
    /\ Start(Source, [kind |-> "UPLOAD", phase |-> "wait", offset |-> Head(down[Source]).offset,
                      tries |-> 1, canceled |-> FALSE])
    /\ UNCHANGED <<hubVars, file, dest, link, up, bounds>>

OnFileDeliveryRequest(n) ==
    /\ NextDown(n, "DELIVER")
    /\ Start(n, [kind |-> "DELIVER", phase |-> "get", sha |-> Head(down[n]).sha,
                 got |-> Nothing, canceled |-> FALSE])
    /\ UNCHANGED <<hubVars, file, dest, link, up, bounds>>

OnFileTransferCancel(n) ==
    /\ NextDown(n, "CANCEL")
    /\ worker' = IF handle[n] = NoSlot THEN worker
                 ELSE [worker EXCEPT ![<<n, handle[n]>>].canceled = TRUE]
    /\ UNCHANGED <<hubVars, file, handle, dest, link, up, bounds>>

(* A canceled context ends the goroutine with an error like any other. *)
WorkerCanceled(n, s) ==
    /\ worker[<<n, s>>].canceled
    /\ Quit(n, s, Result(IF worker[<<n, s>>].kind = "UPLOAD" THEN "FAILURE" ELSE "DELIVERY", FALSE))
    /\ UNCHANGED <<hubVars, file, dest, link, down, bounds>>

Running(n, s, kind, phase) ==
    LET w == worker[<<n, s>>] IN w.kind = kind /\ ~w.canceled /\ w.phase = phase

(* uploadFile after a request that failed: the same offset again. *)
UploadRequestFailed(s) ==
    /\ Running(Source, s, "UPLOAD", "broken")
    /\ TryAgain(s, worker[<<Source, s>>].offset)
    /\ UNCHANGED <<hubVars, file, dest, link, down, bounds>>

(* handleDownload: the blob, if the transfer is staged and the target not  *)
(* canceled.                                                               *)
Download(n, s) ==
    /\ Running(n, s, "DELIVER", "get")
    /\ IF row.sha # Nothing /\ target[n] # "CANCELED" /\ blob # Nothing
       THEN /\ worker' = [worker EXCEPT ![<<n, s>>].got = blob, ![<<n, s>>].phase = "body"]
            /\ UNCHANGED <<handle, up>>
       ELSE Quit(n, s, Result("DELIVERY", FALSE))
    /\ UNCHANGED <<hubVars, file, dest, link, down, bounds>>

(* mutant: replaces first, verifies then *)
ReplaceDestination_ReplaceFirst(n, s) ==
    /\ Running(n, s, "DELIVER", "body")
    /\ LET w == worker[<<n, s>>] IN
         /\ dest' = [dest EXCEPT ![n] = w.got]
         /\ Quit(n, s, Result("DELIVERY", w.got = w.sha))
    /\ UNCHANGED <<hubVars, file, link, down, bounds>>

(* The body is verified before it replaces the destination. *)
ReplaceDestination(n, s) ==
    /\ Running(n, s, "DELIVER", "body")
    /\ LET w == worker[<<n, s>>] IN
         /\ dest' = IF w.got = w.sha THEN [dest EXCEPT ![n] = w.got] ELSE dest
         /\ Quit(n, s, Result("DELIVERY", w.got = w.sha))
    /\ UNCHANGED <<hubVars, file, link, down, bounds>>

DownloadFailed(n, s) ==
    /\ Running(n, s, "DELIVER", "broken")
    /\ Quit(n, s, Result("DELIVERY", FALSE))
    /\ UNCHANGED <<hubVars, file, dest, link, down, bounds>>

SourceChanges ==
    /\ Mixed \/ requests = 0
    /\ file < MaxVersion /\ file' = file + 1
    /\ UNCHANGED <<hubVars, worker, handle, dest, wire, bounds>>

-----------------------------------------------------------------------------
(* Connections, and what goes wrong.                                       *)

Fault ==
    /\ Mixed \/ requests = 0
    /\ faults < MaxFaults /\ faults' = faults + 1 /\ UNCHANGED requests

(* The Agent says HELLO; handleHello ends with ResumeNode. *)
Connect(n) ==
    /\ ~link[n] /\ link' = [link EXCEPT ![n] = TRUE]
    /\ Go(<<"gateway", n>>, Task("RESUME", "row", Target \cap {n}, TRUE))
    /\ UNCHANGED <<row, target, disk, agentVars, up, down, bounds>>

HandlerOf(m) == Task(m.type, "row", {}, m.ok)

Receive(n) ==
    /\ up[n] # <<>> /\ job[<<"gateway", n>>] = NoJob
    /\ up' = [up EXCEPT ![n] = Tail(@)]
    /\ Go(<<"gateway", n>>, WithTransfer(HandlerOf(Head(up[n]))))
    /\ UNCHANGED <<row, target, disk, agentVars, link, down, bounds>>

(* The connection breaks.  Its handler, or one for a message that has      *)
(* arrived, goes on; the rest is lost, and who is about to send on it will *)
(* notice or not.                                                          *)
Break(n) ==
    LET g == <<"gateway", n>>
        l == <<"late", n>>
        lose(j) == IF \/ j.op # "NONE" /\ j.step = "sendSource" /\ n = Source
                      \/ j.op # "NONE" /\ j.step = "send" /\ n \in j.sending
                   THEN [j EXCEPT !.conn = FALSE] ELSE j
        last == IF job[g] # NoJob THEN {job[g]}
                ELSE {NoJob} \cup (IF up[n] = <<>> THEN {} ELSE {HandlerOf(Head(up[n]))})
    IN /\ link[n] /\ job[l] = NoJob
       /\ link' = [link EXCEPT ![n] = FALSE]
       /\ up' = [up EXCEPT ![n] = <<>>] /\ down' = [down EXCEPT ![n] = <<>>]
       /\ \E h \in last : job' = [a \in Actor |-> IF a = g THEN NoJob
                                                  ELSE IF a = l THEN lose(h) ELSE lose(job[a])]

Disconnect(n) ==
    /\ Break(n) /\ Fault
    /\ UNCHANGED <<row, target, disk, agentVars>>

(* The data path is another connection. *)
BreakRequest(n, s) ==
    /\ worker[<<n, s>>] # NoWorker /\ worker[<<n, s>>].phase # "broken"
    /\ worker' = [worker EXCEPT ![<<n, s>>].phase = "broken"]
    /\ Fault
    /\ UNCHANGED <<hubVars, file, handle, dest, wire>>

AgentRestart(n) ==
    /\ Break(n) /\ Fault
    /\ worker' = [v \in Node \X Slot |-> IF v[1] = n THEN NoWorker ELSE worker[v]]
    /\ handle' = [handle EXCEPT ![n] = NoSlot]
    /\ UNCHANGED <<row, target, disk, file, dest>>

HubRestart ==
    /\ Fault
    /\ job' = [a \in Actor |-> NoJob]
    /\ link' = [n \in Node |-> FALSE]
    /\ up' = [n \in Node |-> <<>>] /\ down' = [n \in Node |-> <<>>]
    /\ worker' = [v \in Node \X Slot |-> IF worker[v] = NoWorker THEN NoWorker
                                         ELSE [worker[v] EXCEPT !.phase = "broken"]]
    /\ UNCHANGED <<row, target, disk, file, handle, dest>>

-----------------------------------------------------------------------------
Handler(a) ==
    \/ ReadTransfer(a) \/ ReadTargets(a) \/ ResumeNode(a)
    \/ DispatchSource(a) \/ SendUploadRequest(a)
    \/ \E n \in Target : VisitTarget(a, n)
    \/ RetryTarget(a) \/ SendDeliveryRequest(a) \/ SendCancel(a) \/ Finish(a)
    \/ HandleUploadResult(a) \/ HandleDeliveryResult(a) \/ UpdateAggregate(a)
    \/ Retry(a) \/ Cancel(a)

UploadHandler == BeginUpload \/ HandleUpload \/ CopyChunk \/ Promote \/ Stage \/ FinishUpload
                 \/ AbandonUpload

OnMessage(n) ==
    \/ n = Source /\ OnFileUploadRequest
    \/ n \in Target /\ OnFileDeliveryRequest(n)
    \/ OnFileTransferCancel(n)

Goroutine(n, s) ==
    \/ WorkerCanceled(n, s)
    \/ n = Source /\ UploadRequestFailed(s)
    \/ n \in Target /\ (Download(n, s) \/ ReplaceDestination(n, s) \/ DownloadFailed(n, s))

Next ==
    \/ \E a \in Actor : Handler(a)
    \/ UploadHandler
    \/ Request \/ SourceChanges \/ HubRestart
    \/ \E n \in Node : \/ OnMessage(n) \/ Connect(n) \/ Receive(n)
                       \/ Disconnect(n) \/ AgentRestart(n)
                       \/ \E s \in Slot : Goroutine(n, s) \/ BreakRequest(n, s)

Spec == Init /\ [][Next]_vars

(* Handlers and goroutines are run, messages arrive, and an Agent that has *)
(* lost its connection dials again.  Operators, files and faults promise   *)
(* nothing.                                                                *)
Fairness ==
    /\ \A a \in Actor : WF_vars(Handler(a))
    /\ WF_vars(UploadHandler)
    /\ \A n \in Node : /\ WF_vars(OnMessage(n)) /\ WF_vars(Connect(n)) /\ WF_vars(Receive(n))
                       /\ \A s \in Slot : WF_vars(Goroutine(n, s))

FairSpec == Spec /\ Fairness

(* A weaker promise, enough where nothing can go on for ever: somebody     *)
(* moves as long as anybody can.                                           *)
Progress ==
    \/ \E a \in Actor : Handler(a)
    \/ UploadHandler
    \/ \E n \in Node : OnMessage(n) \/ Connect(n) \/ Receive(n) \/ \E s \in Slot : Goroutine(n, s)
LiveSpec == Spec /\ WF_vars(Progress)

-----------------------------------------------------------------------------
(* Every variable keeps the type the code gives it. *)
TypeOK ==
    /\ row \in Transfer /\ target \in Targets
    /\ part \in Content /\ blob \in Content /\ staged \subseteq Content
    /\ job \in [Actor -> Job \cup {NoJob}]
    /\ file \in 0..MaxVersion
    /\ worker \in [Node \X Slot -> Uploader \cup Downloader \cup {NoWorker}]
    /\ handle \in [Node -> Slot \cup {NoSlot}]
    /\ dest \in [Target -> Content]
    /\ link \in [Node -> BOOLEAN]
    /\ up \in [Node -> Seq(UpMessage)] /\ down \in [Node -> Seq(DownMessage)]
    /\ faults \in 0..MaxFaults /\ requests \in 0..MaxRequests

(* A transfer that shows SUCCESS has put a file the Hub staged at every    *)
(* destination, however the results, retries and reconnects of the targets *)
(* interleaved.                                                            *)
SuccessMeansDelivered ==
    row.status = "SUCCESS" => \A n \in Target : dest[n] \in staged

(* What is at a destination is a whole file that was staged: never a       *)
(* partial upload, nor a download cut short or mixed from two of them.     *)
DestinationIsWhole ==
    \A n \in Target : dest[n] # Nothing => dest[n] \in staged /\ Len(dest[n]) = Chunks

(* A cancellation is undone only by a handler that had read the transfer   *)
(* before it was made (and writes its copy back).                          *)
CancelUndone ==
    \/ row.status = "CANCELED" /\ row'.status # "CANCELED"
    \/ \E n \in Target : target[n] = "CANCELED" /\ target'[n] # "CANCELED"
CancelUndoneByStaleCopy ==
    [][CancelUndone => \E a \in Actor : /\ job[a] # NoJob /\ job'[a] # job[a]
                                        /\ job[a].step # "row" /\ job[a].row.status # "CANCELED"]_vars

(* openspec/specs/agent-file-relay/spec.md: once an operator has canceled  *)
(* a transfer, nothing resumes it: the request has ended, and so the       *)
(* transfer stays canceled.                                                *)
CancelIsFinal ==
    [][row.status = "CANCELED" => row'.status = "CANCELED"]_vars

(* Every transfer comes to rest: each target ends in SUCCESS or FAILED, or *)
(* the transfer is FAILED or CANCELED for an operator to see.              *)
AtRest ==
    \/ row.status \in {"FAILED", "CANCELED"}
    \/ \A n \in Target : target[n] \in {"SUCCESS", "FAILED", "CANCELED"}
Settles == <>[]AtRest

(* So it does if no connection breaks and no upload loses its client       *)
(* before it has visited the targets, whoever connects, retries or cancels *)
(* meanwhile.                                                              *)
UploadsAttended == [](job[Upload] # NoJob => Served # {})
SettlesIfAttended == [](faults = 0) /\ UploadsAttended => Settles

(* openspec/specs/agent-file-relay/spec.md: the upload that was verified   *)
(* starts the delivery, so a target that is connected does not stay        *)
(* PENDING once the file is staged.                                        *)
StagedIsDelivered ==
    \A n \in Target :
        LET waits == row.sha # Nothing /\ row.status = "DELIVERING"
                     /\ link[n] /\ target[n] = "PENDING"
        IN waits ~> ~waits

=============================================================================
