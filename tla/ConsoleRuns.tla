---------------------------- MODULE ConsoleRuns ----------------------------
(***************************************************************************)
(* The pages of the console that start runs and transfers and watch them:  *)
(* the dashboard, the executions, one execution with its logs, a task with *)
(* its executions, the page that runs it, the file transfers.              *)
(*                                                                         *)
(* Nothing is pushed to a page.  The dashboard and the transfers are asked *)
(* for again by a timer, an execution only as long as the copy shown says  *)
(* RUNNING, the lists of executions and the logs never.  Timers rest while *)
(* the window is hidden.                                                   *)
(***************************************************************************)
EXTENDS Naturals

CONSTANTS
    MaxRuns,     \* bound: executions and transfers there have been
    MaxMoves,    \* bound: page changes
    MaxPresses,  \* bound: buttons pressed
    MaxTroubles  \* bound: times the window is hidden, GETs and calls that fail,
                 \* answers that are lost

ASSUME RunsAssumption == MaxRuns # 0 /\ {MaxRuns, MaxMoves, MaxPresses, MaxTroubles} \subseteq Nat

Run == 1..MaxRuns
RunStatus == {"none", "PENDING", "RUNNING", "SUCCESS", "FAILED", "CANCELED"}
TransferStatus == {"none", "PENDING", "DELIVERING", "SUCCESS", "FAILED", "CANCELED"}
Screen == {"dashboard", "executions", "execution", "task", "run", "transfers"}
View == {"dashboard", "executions", "running", "execution", "logs", "history", "transfers"}
Op == {"run", "stop", "create", "retry", "cancel"}

VARIABLES
    run,       \* Hub: status of each execution of one task with two nodes
    transfer,  \* Hub: status of a transfer
    screen,    \* the page, its execution, its filter or tab
    view,      \* the query cache of the document
    press,     \* calls under way, of this document and of those it replaced
    canceling, \* executions whose Agent was sent CANCEL
    hidden,    \* the window is not looked at
    used       \* bounds used up

runVars == <<run, transfer, screen, view, press, canceling, hidden, used>>

Nothing == [i \in Run |-> "none"]
NoView == [v \in View |-> [known |-> FALSE, error |-> FALSE, fetch |-> "idle",
                           data |-> Nothing, got |-> Nothing]]

(* What a query returns: executions, those a filter lets through, one of   *)
(* them, how much of its log there is, the transfer. *)
HubShows(v) ==
    CASE v \in {"dashboard", "executions", "history"} -> run
      [] v = "running" -> [i \in Run |-> IF run[i] = "RUNNING" THEN run[i] ELSE "none"]
      [] v \in {"execution", "logs"} -> [i \in Run |-> IF i = screen.id THEN run[i] ELSE "none"]
      [] v = "transfers" -> [i \in Run |-> IF i = 1 THEN transfer ELSE "none"]

Mounted(s) ==
    CASE s.at = "executions" -> {IF s.tab = "running" THEN "running" ELSE "executions"}
      [] s.at = "execution" -> {"execution"} \cup (IF s.tab = "logs" THEN {"logs"} ELSE {})
      [] s.at = "task" -> {"history"}
      [] s.at = "run" -> {}
      [] OTHER -> {s.at}

(* A mounted query is asked for if it has no copy or a stale one. *)
AskFor(vs, v) == [vs EXCEPT ![v].fetch = "asked"]
Resting(e) == e.fetch \in {"idle", "stale"}
MountViews(vs, s) ==
    [v \in View |-> IF v \in Mounted(s) /\ Resting(vs[v]) /\ (~vs[v].known \/ vs[v].fetch = "stale")
                    THEN [vs[v] EXCEPT !.fetch = "asked"] ELSE vs[v]]

-----------------------------------------------------------------------------
(* Queries. *)

HandleView(v) ==
    /\ view[v].fetch = "asked"
    /\ view' = [view EXCEPT ![v].fetch = "answered", ![v].got = HubShows(v)]
    /\ UNCHANGED <<run, transfer, screen, press, canceling, hidden, used>>

LandView(v) ==
    /\ view[v].fetch = "answered"
    /\ view' = [view EXCEPT ![v] = [known |-> TRUE, error |-> FALSE, fetch |-> "idle",
                                    data |-> @.got, got |-> Nothing]]
    /\ UNCHANGED <<run, transfer, screen, press, canceling, hidden, used>>

ViewFails(v) ==
    /\ ~Resting(view[v]) /\ used.troubles < MaxTroubles
    /\ view' = [view EXCEPT ![v].fetch = "idle", ![v].error = TRUE, ![v].got = Nothing]
    /\ used' = [used EXCEPT !.troubles = @ + 1]
    /\ UNCHANGED <<run, transfer, screen, press, canceling, hidden>>

(* refetchInterval of a mounted query; an error does not stop it. *)
Interval_StopsAtError(v) ==   \* mutant
    /\ ~view[v].error
    /\ v = "execution" => view[v].data[screen.id] = "RUNNING"
    /\ v \in {"dashboard", "transfers", "execution"}
Interval(v) ==
    \/ v \in {"dashboard", "transfers"}
    \/ v = "execution" /\ view[v].data[screen.id] = "RUNNING"
Poll(v) ==
    /\ v \in Mounted(screen) /\ ~hidden
    /\ Resting(view[v]) /\ Interval(v)
    /\ view' = AskFor(view, v)
    /\ UNCHANGED <<run, transfer, screen, press, canceling, hidden, used>>

(* The retry button of an error page. *)
RetryView(v) ==
    /\ v \in Mounted(screen) /\ view[v].error /\ Resting(view[v])
    /\ view' = AskFor(view, v)
    /\ UNCHANGED <<run, transfer, screen, press, canceling, hidden, used>>

(* A query older than staleTime is asked again when the window comes back. *)
ComeBack ==
    /\ hidden /\ hidden' = FALSE
    /\ \E vs \in SUBSET Mounted(screen) :
        view' = [v \in View |-> IF v \in vs /\ Resting(view[v])
                                THEN [view[v] EXCEPT !.fetch = "asked"] ELSE view[v]]
    /\ UNCHANGED <<run, transfer, screen, press, canceling, used>>
TurnAway ==
    /\ ~hidden /\ hidden' = TRUE
    /\ used.troubles < MaxTroubles /\ used' = [used EXCEPT !.troubles = @ + 1]
    /\ UNCHANGED <<run, transfer, screen, view, press, canceling>>

-----------------------------------------------------------------------------
(* Pages. *)

(* Nobody waits any more for what the document has sent. *)
Orphaned == {[c EXCEPT !.live = FALSE] : c \in {d \in press : d.stage = "sent"}}

(* A full load, by an <a href> or location.assign. *)
Open(at, id) ==
    /\ screen' = [at |-> at, id |-> id, tab |-> ""]
    /\ view' = MountViews(NoView, screen')

(* A <Link> keeps the document and its cache. *)
Visit(at) ==
    /\ screen' = [at |-> at, id |-> screen.id, tab |-> ""]
    /\ view' = MountViews(view, screen')
    /\ UNCHANGED press

Sidebar == \E at \in {"dashboard", "executions", "transfers"} : at # screen.at /\ Visit(at)

Click(v, i) == view[v].data[i] # "none" /\ Open("execution", i) /\ press' = Orphaned

(* Rows of the running and the recent executions lead to their pages.  All *)
(* of the dashboard is one query: it is there as a whole or not at all.    *)
Dashboard ==
    /\ screen.at = "dashboard" /\ view["dashboard"].known /\ ~view["dashboard"].error
    /\ \E i \in Run : Click("dashboard", i)

(* The list as it was when the page was opened; a status is another query. *)
Executions == screen.at = "executions" /\ \E v \in Mounted(screen), i \in Run : Click(v, i)
FilterStatus ==
    /\ screen.at = "executions"
    /\ screen' = [screen EXCEPT !.tab = IF @ = "running" THEN "" ELSE "running"]
    /\ view' = MountViews(view, screen')
    /\ UNCHANGED press

(* The logs are asked for when their tab is opened. *)
OpenLogs ==
    /\ screen.at = "execution" /\ view["execution"].known
    /\ screen' = [screen EXCEPT !.tab = IF @ = "logs" THEN "" ELSE "logs"]
    /\ view' = MountViews(view, screen')
    /\ UNCHANGED press

(* A task is opened from the lists; its page leads to its executions and   *)
(* to the page that runs it. *)
TaskPage == screen.at # "task" /\ Open("task", 0) /\ press' = Orphaned
ExecutionHistory == screen.at = "task" /\ \E i \in Run : Click("history", i)
RunPage == screen.at = "task" /\ Open("run", 0) /\ press' = Orphaned

Move ==
    /\ ~hidden /\ used.moves < MaxMoves /\ used' = [used EXCEPT !.moves = @ + 1]
    /\ \/ Sidebar \/ Dashboard \/ Executions \/ FilterStatus \/ OpenLogs
       \/ TaskPage \/ ExecutionHistory \/ RunPage
    /\ UNCHANGED <<run, transfer, canceling, hidden>>

-----------------------------------------------------------------------------
(* Buttons. *)

Press(o) ==
    /\ press' = press \cup {[n |-> used.presses, op |-> o, id |-> screen.id,
                             stage |-> "sent", live |-> TRUE]}
    /\ ~hidden /\ used.presses < MaxPresses /\ used' = [used EXCEPT !.presses = @ + 1]
    /\ UNCHANGED <<run, transfer, screen, view, canceling, hidden>>
Waiting(o) == \E c \in press : c.live /\ c.op = o

RunTask == screen.at = "run" /\ ~Waiting("run") /\ Press("run")

(* Stop is offered for what is shown RUNNING. *)
ExecutionDetail ==
    /\ screen.at = "execution"
    /\ view["execution"].known /\ ~view["execution"].error
    /\ view["execution"].data[screen.id] = "RUNNING"
    /\ ~Waiting("stop") /\ Press("stop")

(* The form of a transfer is there whatever the list shows.  Bound: one    *)
(* transfer. *)
CreateTransfer == transfer = "none" /\ ~Waiting("create") /\ Press("create")

(* Retry is offered for a transfer shown FAILED, cancel for one shown      *)
(* unfinished, and neither waits for the answer of an earlier press.       *)
FileTransfers ==
    /\ screen.at = "transfers"
    /\ LET shown == IF view["transfers"].error THEN "none" ELSE view["transfers"].data[1] IN
       \/ CreateTransfer
       \/ shown = "FAILED" /\ Press("retry")
       \/ shown \in {"PENDING", "DELIVERING"} /\ Press("cancel")

(* A call that fails is forgotten: a message is shown. *)
Taken(c, ok) ==
    press' = (press \ {c}) \cup
             (IF c.live /\ ok THEN {[c EXCEPT !.stage = "done"]} ELSE {})

(* The Hub dispatches a run to one node after the other and stops at the   *)
(* first that fails; it does not take back those it has dispatched.        *)
HandleRun(c) ==
    /\ c.op = "run"
    /\ \E n \in 0..2 :
        /\ used.runs + n <= MaxRuns
        /\ run' = [i \in Run |-> IF i \in used.runs + 1..used.runs + n THEN "PENDING" ELSE run[i]]
        /\ used' = [used EXCEPT !.runs = @ + n]
        /\ Taken(c, n = 2)
    /\ UNCHANGED <<transfer, canceling>>

(* CANCEL goes to the Agent if it is connected; the status is the Agent's. *)
HandleStop(c) ==
    /\ c.op = "stop"
    /\ \/ Taken(c, TRUE) /\ canceling' = canceling \cup {c.id}
       \/ Taken(c, FALSE) /\ canceling' = canceling
    /\ UNCHANGED <<run, transfer, used>>

(* A transfer may be canceled whatever its status, and retried unless it   *)
(* was canceled.                                                           *)
HandleTransferCall(c) ==
    /\ c.op \in {"create", "retry", "cancel"}
    /\ \/ /\ c.op = "create" /\ transfer = "none" /\ used.runs < MaxRuns
          /\ transfer' = "PENDING" /\ Taken(c, TRUE)
       \/ c.op = "create" /\ transfer' = transfer /\ Taken(c, FALSE)
       \/ /\ c.op = "retry" /\ transfer # "CANCELED"
          /\ transfer' \in {"PENDING", "DELIVERING"} /\ Taken(c, TRUE)
       \/ /\ c.op = "retry" /\ transfer = "CANCELED"
          /\ transfer' = transfer /\ Taken(c, FALSE)
       \/ c.op = "cancel" /\ transfer' = "CANCELED" /\ Taken(c, TRUE)
    /\ used' = [used EXCEPT !.runs = @ + (IF transfer = "none" /\ transfer' # "none" THEN 1 ELSE 0)]
    /\ UNCHANGED <<run, canceling>>

HandlePress ==
    /\ \E c \in press :
        c.stage = "sent" /\ (HandleRun(c) \/ HandleStop(c) \/ HandleTransferCall(c))
    /\ UNCHANGED <<screen, view, hidden>>

PressFails ==
    /\ used.troubles < MaxTroubles /\ used' = [used EXCEPT !.troubles = @ + 1]
    /\ \E c \in press : Taken(c, FALSE)
    /\ UNCHANGED <<run, transfer, screen, view, canceling, hidden>>

(* A run that was started leads to the executions; the query anything else *)
(* has changed is asked for again.                                         *)
Answer(c) ==
    \/ /\ c.stage = "done" /\ c.op = "run"
       /\ Open("executions", 0) /\ press' = Orphaned
    \/ /\ c.stage = "done" /\ c.op # "run"
       /\ press' = press \ {c}
       /\ LET v == IF c.op = "stop" THEN "execution" ELSE "transfers" IN
          view' = IF v \in Mounted(screen) THEN AskFor(view, v)
                  ELSE [view EXCEPT ![v].fetch = IF Resting(view[v]) THEN "stale" ELSE @]
       /\ UNCHANGED screen

AnswerPress ==
    /\ \E c \in press : c.live /\ Answer(c)
    /\ UNCHANGED <<run, transfer, canceling, hidden, used>>

-----------------------------------------------------------------------------
(* The Agents. *)

RunProceeds(i) ==
    /\ \/ run[i] = "PENDING" /\ run' = [run EXCEPT ![i] = "RUNNING"]
       \/ /\ run[i] = "RUNNING"
          /\ \E s \in {"SUCCESS", "FAILED"} \cup (IF i \in canceling THEN {"CANCELED"} ELSE {}) :
                run' = [run EXCEPT ![i] = s]
    /\ UNCHANGED <<transfer, screen, view, press, canceling, hidden, used>>
TransferProceeds ==
    /\ \/ transfer = "PENDING" /\ transfer' = "DELIVERING"
       \/ transfer = "DELIVERING" /\ transfer' \in {"SUCCESS", "FAILED"}
    /\ UNCHANGED <<run, screen, view, press, canceling, hidden, used>>

RunsInit ==
    /\ \E s \in {"none", "PENDING"} : run = [i \in Run |-> IF i = 1 THEN s ELSE "none"]
    /\ transfer \in {"none", "DELIVERING"}
    /\ transfer = "none" \/ run = Nothing
    /\ \E at \in Screen : screen = [at |-> at, id |-> IF at = "execution" THEN 1 ELSE 0, tab |-> ""]
    /\ screen.at = "execution" => run[1] # "none"
    /\ view = MountViews(NoView, screen)
    /\ press = {} /\ canceling = {} /\ hidden = FALSE
    /\ used = [moves |-> 0, presses |-> 0, troubles |-> 0,
               runs |-> IF run = Nothing /\ transfer = "none" THEN 0 ELSE 1]

RunsStep ==
    \/ \E v \in View : HandleView(v) \/ LandView(v) \/ ViewFails(v) \/ Poll(v) \/ RetryView(v)
    \/ Move \/ ComeBack \/ TurnAway
    \/ RunTask \/ ExecutionDetail \/ FileTransfers
    \/ HandlePress \/ PressFails \/ AnswerPress
    \/ (\E i \in Run : RunProceeds(i)) \/ TransferProceeds

(* Of the queries with a timer: a GET is served and its answer lands, and  *)
(* the timer of a page that is looked at runs.  A hidden window is looked  *)
(* at again.                                                               *)
RunsFairness ==
    /\ \A v \in {"dashboard", "execution", "transfers"} :
          WF_runVars(HandleView(v) \/ LandView(v)) /\ WF_runVars(Poll(v))
    /\ WF_runVars(ComeBack)

(* The page shows as under way what has ended at the Hub. *)
Ended(status) == status \in {"SUCCESS", "FAILED", "CANCELED"}
ShowsEndedAsRunning ==
    \E v \in Mounted(screen), i \in Run :
        /\ view[v].known /\ Ended(HubShows(v)[i])
        /\ \/ v = "transfers" /\ view[v].data[i] \in {"PENDING", "DELIVERING"}
           \/ v \in {"dashboard", "execution"} /\ view[v].data[i] = "RUNNING"
=============================================================================
