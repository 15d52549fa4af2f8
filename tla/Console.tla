------------------------------- MODULE Console -------------------------------
(***************************************************************************)
(* The web console: what its pages do to the Hub's rows, what they show of *)
(* runs and transfers, who is signed in, and which tasks a node's page     *)
(* lists.  These meet only in the document that holds them all; a          *)
(* behaviour is about one of them and the others stay where they started.  *)
(***************************************************************************)
EXTENDS ConsoleEditing, ConsoleRuns, ConsoleSession, TaskTargets

CONSTANT Areas   \* bound: what a behaviour may be about

VARIABLE area

ASSUME AreasAssumption == Areas \subseteq {"editing", "runs", "session", "targets"}

vars == <<area, queryVars, runVars, sessionVars, targetVars>>

Init ==
    /\ area \in Areas
    /\ QueriesInit
    /\ area # "editing" => section = CHOOSE s \in Sections : TRUE
    /\ RunsInit
    /\ area # "runs" => run = Nothing /\ transfer = "none" /\ screen.at = "run"
    /\ SessionInit
    /\ area # "session" => owner = <<>>
    /\ TargetsInit
    /\ area # "targets" => label = Absent /\ group = NoGroup /\ ~target.node

Next ==
    \/ area = "editing" /\ EditStep /\ UNCHANGED <<area, runVars, sessionVars, targetVars>>
    \/ area = "runs" /\ RunsStep /\ UNCHANGED <<area, queryVars, sessionVars, targetVars>>
    \/ area = "session" /\ SessionStep /\ UNCHANGED <<area, queryVars, runVars, targetVars>>
    \/ area = "targets" /\ TargetsStep /\ UNCHANGED <<area, queryVars, runVars, sessionVars>>

(* Timers, GETs and their answers; nothing an operator does.               *)
Spec == Init /\ [][Next]_vars /\ RunsFairness

-----------------------------------------------------------------------------

(* Every row the Hub keeps, and every copy of it a page has loaded, has    *)
(* the fields of its section, and a switch that is on or off.              *)
Whole(r) == r = Gone \/ (r \in Row(section) /\ r["on"] \in {0, 1})
TypeOK ==
    /\ section \in Sections
    /\ \A i \in Id : Whole(row[i]) /\ Whole(Rows[i]) /\ nodesOf[i] \subseteq Hosts
    /\ Whole(cache["item"].data) /\ Whole(page.form)
    /\ \A k \in Key : cache[k].fetch \in {"idle", "asked", "answered"}
    /\ run \in [Run -> RunStatus] /\ transfer \in TransferStatus
    /\ screen.at \in Screen /\ \A c \in press : c.op \in Op
    /\ stored \in Token \cup {None} /\ valid \subseteq Token
    /\ target \in Target /\ draft \in Target \cup {NoDraft} /\ group \in Group \cup {NoGroup}
    /\ label \in Text \cup {Absent}

(* A value this operator was told is saved is overwritten only by a change *)
(* of somebody else, or by a call of the operator's that was about that    *)
(* field, that was sent before the operator knew, or whose form was begun  *)
(* on an old copy or before there was one.  A switch or a form sends the   *)
(* whole row with whatever its copy says of the other fields; what keeps   *)
(* the copies current is the full load after every save.                   *)
Undone(f) == row'[1] # Gone /\ row'[1][f] # own[f]
Meant(f) ==
    \/ spent'.others # spent.others
    \/ \E c \in calls \ calls' : f \in c.typed \/ c.basis # "loaded" \/ c.before # told
OwnChangeSurvives == [][\A f \in kept : Undone(f) => Meant(f)]_vars

(* A list that waits for nothing shows the rows this operator has created, *)
(* and of the row that was changed what was saved, unless the Hub has had  *)
(* another value since.  A list that was still loading when it was        *)
(* invalidated, on a page that was left meanwhile, is the exception.       *)
OwnChangesShown ==
    /\ page.at = "list"
    /\ cache["list"].known /\ cache["list"].fetch = "idle"
    /\ ~cache["list"].error /\ ~cache["list"].missed
    => /\ \A i \in made : row[i] # Gone => Rows[i] # Gone
       /\ \A f \in kept : Rows[1] # Gone /\ Rows[1][f] = own[f]

(* When the page leaves for the saved application, the Hub has assigned    *)
(* the nodes that were ticked and taken it from those that were not: three *)
(* calls, of which any may fail.  Not so if two saves overlapped, or if    *)
(* somebody else has changed the nodes since.                              *)
SavedMeansAssigned ==
    [][\A c \in calls :
         /\ section = "applications" /\ c.op \in {"save", "assign", "unassign"}
         /\ c.alone /\ c.n = spent.calls /\ c.others = spent.others
         /\ Leave(c)
         => c.sel \subseteq nodesOf[c.id] /\ c.drop \cap nodesOf[c.id] = {}]_vars

(* A page that shows as under way what has ended at the Hub will not do so *)
(* for ever, whichever GETs fail: the dashboard and the transfers are      *)
(* polled, and an execution as long as it is shown RUNNING.                *)
RunningPageSettles == ShowsEndedAsRunning ~> ~ShowsEndedAsRunning

(* Never does a tab show one user and send another one's token: not after  *)
(* signing out and in as somebody else while /me was on its way, not after *)
(* another tab has stored a token of its own.                              *)
UserIsTokens ==
    \A t \in Tabs : tab[t].user # None /\ tab[t].client # None => owner[tab[t].client] = tab[t].user

(* After any editing of the form, the group and the labels, a node's page  *)
(* lists a task exactly if a run would reach the node: openspec says "the  *)
(* page lists tasks and schedules whose node, group, or label target       *)
(* matches the node".  The exceptions, where the two are apart, are labels *)
(* wanted without a value and groups that were deleted.                    *)
TargetsAgree == Resolvable => (taskTargetsNode <=> ResolveTarget)

=============================================================================
