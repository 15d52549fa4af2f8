--------------------------- MODULE ConsoleQueries ---------------------------
(***************************************************************************)
(* One browser document of the web console and the Hub's rows of the       *)
(* section it shows.                                                       *)
(*                                                                         *)
(* Pages read rows through a query cache: a query is fetched when a page   *)
(* that uses it is mounted, again when it is invalidated, and its answer   *)
(* replaces the cached copy when it lands.  Calls that change rows carry   *)
(* whole copies of them.  Following an <a href> or location.assign loads a *)
(* new document: the cache and every handler that waits for an answer are  *)
(* gone, while the Hub may still serve what was sent.  A <Link> or the     *)
(* browser's Back changes the page and keeps the document.                 *)
(*                                                                         *)
(* A row is a function from the fields of its form to the number of the    *)
(* edit that wrote them: 0 in a blank form, 1 in the row that is there at  *)
(* the start.                                                              *)
(***************************************************************************)
EXTENDS Naturals, FiniteSets

CONSTANTS
    Sections,   \* bound: the sections of the sidebar a behaviour is about
    Hosts,      \* nodes an application may be assigned to
    MaxActs,    \* bound: what the operator types, presses and opens
    MaxCalls,   \* bound: calls sent
    MaxEvents   \* bound: GETs and calls that fail, answers that are lost, changes
                \* another operator makes

AllSections == {"tasks", "schedules", "scripts", "groups", "applications",
                "artifacts", "users", "settings"}

ASSUME QueriesAssumption ==
    /\ Sections \subseteq AllSections
    /\ Hosts # {}
    /\ {MaxActs, MaxCalls, MaxEvents} \subseteq Nat

(* What each form has beside the switch that enables the row (for a user,  *)
(* the role), and the field it will not be saved without.                  *)
Required(s) == IF s = "schedules" THEN "task" ELSE "name"
Fields(s) ==
    CASE s = "tasks" -> {"name", "definition", "target", "options", "parameters", "condition"}
      [] s = "schedules" -> {"task", "timing", "policy"}
      [] s = "scripts" -> {"name", "content", "parameters", "environment"}
      [] s = "groups" -> {"name", "rule", "members"}
      [] s = "applications" -> {"name", "arguments", "environment", "health"}
      [] s \in {"artifacts", "users"} -> {"name"}
      [] s = "settings" -> {"heartbeat", "window"}

Id == 1..1 + MaxCalls
Value == 0..MaxActs + 1
Gone == <<>>
Row(s) == [Fields(s) \cup {"on"} -> Value]
Blank(s) == [f \in Fields(s) \cup {"on"} |-> IF f = "on" THEN 1 ELSE 0]
Key == {"list", "item", "nodes"}

VARIABLES
    section,   \* which rows these are
    row,       \* Hub: the rows
    nodesOf,   \* Hub: nodes an application is assigned to
    doc,       \* the page the document was loaded on
    page,      \* the page shown, its form and its selection
    cache,     \* the document's query cache
    calls,     \* calls that change rows, until their answers are handled
    spent,     \* bounds used up, and the rows there have been
    (* History *)
    own,       \* what this operator's acknowledged calls last wrote to row 1
    kept,      \* the fields of it that the Hub has had ever since
    told,      \* how many answers about row 1 there were
    made       \* rows this operator was told to have been created

history == <<own, kept, told, made>>

Act == spent.acts < MaxActs /\ spent' = [spent EXCEPT !.acts = @ + 1]
Event == spent.events < MaxEvents /\ spent' = [spent EXCEPT !.events = @ + 1]

queryVars == <<section, row, nodesOf, doc, page, cache, calls, spent, own, kept, told, made>>

(* A page as it is mounted: nothing typed, nothing chosen.  Its form will  *)
(* start from the loaded row, from a copy cached since an earlier visit,   *)
(* or from the defaults if nothing was loaded when typing began.           *)
NewPage(at, id) ==
    [at |-> at, id |-> id, form |-> Gone, typed |-> {}, sel |-> {}, chosen |-> FALSE,
     basis |-> "loaded"]

-----------------------------------------------------------------------------
(* The query cache. *)

Unloaded(d) == [known |-> FALSE, data |-> d, stale |-> FALSE, error |-> FALSE,
                missed |-> FALSE, fetch |-> "idle", got |-> d]
EmptyCache == [k \in Key |-> CASE k = "list" -> Unloaded([i \in Id |-> Gone])
                               [] k = "item" -> Unloaded(Gone)
                               [] k = "nodes" -> Unloaded({})]

(* The queries a page uses; those of an item are enabled only for a row    *)
(* that exists.                                                            *)
Active(p) ==
    IF p.at = "list" THEN {"list"}
    ELSE IF p.id = 0 THEN {}
    ELSE IF section = "applications" THEN {"item", "nodes"} ELSE {"item"}

Ask(e) == [e EXCEPT !.fetch = "asked", !.missed = FALSE]

Mount(c, p) ==
    [k \in Key |-> IF k \in Active(p) /\ c[k].fetch = "idle" /\ (~c[k].known \/ c[k].stale)
                   THEN Ask(c[k]) ELSE c[k]]

(* invalidateQueries of the list.  A mounted query that has data is asked  *)
(* again at once and an answer on its way is dropped; a fetch of a query   *)
(* that is not mounted, or has no data yet, goes on, and its answer counts *)
(* as fresh.                                                               *)
Invalidate_KeepsFetch(c, p) ==   \* mutant: cancelRefetch is false
    [c EXCEPT !["list"] = IF "list" \in Active(p) /\ @.fetch = "idle" THEN Ask(@) ELSE @]
Invalidate(c, p) ==
    LET e == c["list"] IN
    [c EXCEPT !["list"] =
        CASE "list" \in Active(p) /\ (e.known \/ e.fetch = "idle") -> Ask([e EXCEPT !.stale = TRUE])
          [] OTHER -> [e EXCEPT !.stale = TRUE, !.missed = @ \/ e.fetch = "answered"]]

HubReads(k) ==
    CASE k = "list" -> row
      [] k = "item" -> row[doc.id]
      [] k = "nodes" -> nodesOf[doc.id]

HandleGet(k) ==
    /\ cache[k].fetch = "asked"
    /\ cache' = [cache EXCEPT ![k].fetch = "answered", ![k].got = HubReads(k)]
    /\ UNCHANGED <<section, row, nodesOf, doc, page, calls, spent, history>>

(* The answer lands; 404 leaves the cached copy and shows the error. *)
Land(k) ==
    /\ cache[k].fetch = "answered"
    /\ LET e == cache[k] IN
        cache' = [cache EXCEPT ![k] =
            IF k = "item" /\ e.got = Gone
            THEN [e EXCEPT !.fetch = "idle", !.error = TRUE]
            ELSE [Unloaded(e.got) EXCEPT !.known = TRUE, !.missed = e.missed]]
    /\ UNCHANGED <<section, row, nodesOf, doc, page, calls, spent, history>>

(* The last retry of a GET fails. *)
GetFails(k) ==
    /\ cache[k].fetch # "idle" /\ Event
    /\ cache' = [cache EXCEPT ![k].fetch = "idle", ![k].error = TRUE]
    /\ UNCHANGED <<section, row, nodesOf, doc, page, calls, history>>

(* The retry button of an error, and a mounted query older than staleTime  *)
(* when the window gets the focus.                                         *)
Refetch(k) ==
    /\ k \in Active(page) /\ cache[k].fetch = "idle" /\ Act
    /\ cache' = [cache EXCEPT ![k] = Ask(@)]
    /\ UNCHANGED <<section, row, nodesOf, doc, page, calls, history>>

-----------------------------------------------------------------------------
(* From page to page. *)

Load_InDocument(p) ==   \* mutant: a navigation of the router
    /\ doc' = p /\ page' = p
    /\ cache' = Mount([cache EXCEPT !["item"] = Unloaded(Gone), !["nodes"] = Unloaded({})], p)
Load(p) ==
    /\ doc' = p /\ page' = p
    /\ cache' = Mount(EmptyCache, p)

(* Handlers that wait for an answer die with the document. *)
Orphans(cs) == {[c EXCEPT !.live = FALSE] : c \in {d \in cs : d.stage = "sent"}}

Href(at, id) ==
    /\ Act /\ Load(NewPage(at, id)) /\ calls' = Orphans(calls)
    /\ UNCHANGED <<section, row, nodesOf, history>>

Show(p) ==
    /\ Act /\ page' = p /\ cache' = Mount(cache, p)
    /\ UNCHANGED <<section, row, nodesOf, doc, calls, history>>

Link(at, id) == Show(NewPage(at, id))

(* Back to the page of an item from the list a Link led to. *)
Back ==
    /\ page.at = "list" /\ doc.id # 0
    /\ Show([NewPage(doc.at, doc.id) EXCEPT !.basis = "cached"])

-----------------------------------------------------------------------------
(* Calls that change rows. *)

Call(op, id, r, typed, sel, drop) ==
    [n |-> spent.calls + 1, op |-> op, id |-> id, row |-> r, typed |-> typed, sel |-> sel,
     drop |-> drop, before |-> told, others |-> spent.others, alone |-> calls = {},
     basis |-> page.basis, stage |-> "sent", live |-> TRUE]

Request(op, id, r, typed, sel, drop) ==
    /\ spent.acts < MaxActs /\ spent.calls < MaxCalls
    /\ calls' = calls \cup {Call(op, id, r, typed, sel, drop)}
    /\ spent' = [spent EXCEPT !.acts = @ + 1, !.calls = @ + 1]
    /\ UNCHANGED <<section, row, nodesOf, doc, page, cache, history>>

Pending(op) == \E c \in calls : c.live /\ c.op = op

(* A call served: the handler of a dead document will not see the answer. *)
(* One that fails is forgotten, the page stays as it is: with a message    *)
(* after a mutation, without one where save has no catch (the editors of   *)
(* tasks, scripts, groups and applications).                               *)
Served(c, id) ==
    calls' = (calls \ {c}) \cup (IF c.live THEN {[c EXCEPT !.stage = "done", !.id = id]} ELSE {})
Failed(c) == calls' = calls \ {c}

(* PUT writes the whole row it is given if the row is there. *)
HandlePut(c) ==
    /\ c.stage = "sent" /\ c.op \in {"toggle", "save"} /\ c.id # 0
    /\ \/ row[c.id] # Gone /\ row' = [row EXCEPT ![c.id] = c.row] /\ Served(c, c.id)
       \/ row[c.id] = Gone /\ row' = row /\ Failed(c)
    /\ UNCHANGED <<nodesOf, spent>>

(* PUT of a user writes the role alone. *)
HandlePutRole(c) ==
    /\ c.stage = "sent" /\ c.op = "role"
    /\ row' = IF row[c.id] = Gone THEN row ELSE [row EXCEPT ![c.id]["on"] = c.row["on"]]
    /\ Served(c, c.id)
    /\ UNCHANGED <<nodesOf, spent>>

HandlePost(c) ==
    /\ c.stage = "sent" /\ c.op \in {"save", "clone", "create", "upload"} /\ c.id = 0
    /\ LET i == spent.rows + 1 IN
        /\ row' = [row EXCEPT ![i] = c.row]
        /\ Served(c, i)
        /\ spent' = [spent EXCEPT !.rows = i]
    /\ UNCHANGED nodesOf

HandleDelete(c) ==
    /\ c.stage = "sent" /\ c.op = "delete"
    /\ row' = [row EXCEPT ![c.id] = Gone]
    /\ Served(c, c.id)
    /\ UNCHANGED <<nodesOf, spent>>

HandleAssign(c) ==
    /\ c.stage = "sent" /\ c.op \in {"assign", "unassign"}
    /\ nodesOf' = [nodesOf EXCEPT ![c.id] = IF c.op = "assign" THEN @ \cup c.sel ELSE @ \ c.drop]
    /\ Served(c, c.id)
    /\ UNCHANGED <<row, spent>>

(* A deployment leaves the rows as they are, and so does its answer: the   *)
(* states and the executions are asked for again, no form shows them.      *)
HandleDeploy(c) ==
    /\ c.stage = "sent" /\ c.op = "deploy"
    /\ calls' = calls \ {c}
    /\ UNCHANGED <<row, nodesOf, spent>>

(* A field is kept until anybody writes another value. *)
Keep == kept' = {f \in kept : row'[1] # Gone /\ row'[1][f] = own[f]}

Handle ==
    /\ \E c \in calls : \/ HandlePut(c) \/ HandlePutRole(c) \/ HandlePost(c)
                        \/ HandleDelete(c) \/ HandleAssign(c) \/ HandleDeploy(c)
    /\ Keep
    /\ UNCHANGED <<section, doc, page, cache, own, told, made>>

(* A call that does not reach the Hub, or whose answer is lost. *)
CallFails ==
    /\ Event
    /\ \E c \in calls : Failed(c)
    /\ UNCHANGED <<section, row, nodesOf, doc, page, cache, history>>

(* Another operator, elsewhere.  Bound: of the fields, the switch; of an   *)
(* application, which has none, the nodes. *)
OtherOperator ==
    /\ spent.events < MaxEvents
    /\ spent' = [spent EXCEPT !.events = @ + 1, !.others = @ + 1]
    /\ \/ /\ row[1] # Gone
          /\ \/ section # "applications" /\ row' = [row EXCEPT ![1]["on"] = 1 - @]
             \/ section # "settings" /\ row' = [row EXCEPT ![1] = Gone]
          /\ UNCHANGED nodesOf
       \/ /\ section = "applications"
          /\ \E h \in Hosts : nodesOf' = [nodesOf EXCEPT ![1] =
                                             IF h \in @ THEN @ \ {h} ELSE @ \cup {h}]
          /\ UNCHANGED row
    /\ Keep
    /\ UNCHANGED <<section, doc, page, cache, calls, own, told, made>>

-----------------------------------------------------------------------------

QueriesInit ==
    /\ section \in Sections
    /\ row = [i \in Id |-> IF i = 1 THEN [f \in Fields(section) \cup {"on"} |-> 1] ELSE Gone]
    /\ nodesOf = [i \in Id |-> IF i = 1 /\ section = "applications"
                               THEN {CHOOSE h \in Hosts : TRUE} ELSE {}]
    /\ page = NewPage("list", 0) /\ doc = page
    /\ cache = Mount(EmptyCache, page)
    /\ calls = {} /\ own = <<>> /\ kept = {} /\ told = 0 /\ made = {}
    /\ spent = [acts |-> 0, calls |-> 0, events |-> 0, others |-> 0, rows |-> 1]

QueryStep ==
    \/ \E k \in Key : HandleGet(k) \/ Land(k) \/ GetFails(k) \/ Refetch(k)
    \/ Back \/ Handle \/ CallFails \/ OtherOperator

=============================================================================
