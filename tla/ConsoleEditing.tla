--------------------------- MODULE ConsoleEditing ---------------------------
(***************************************************************************)
(* The pages of the console that change rows: the lists with their         *)
(* switches and delete buttons, and the forms that create rows and save    *)
(* them whole.                                                             *)
(***************************************************************************)
EXTENDS ConsoleQueries

At(s, p) == section = s /\ page.at = p
Editing == page.id # 0

(* What a form shows: what was typed, or what was loaded, or the defaults. *)
(* It is frozen by the first edit, whatever is loaded afterwards.          *)
Form ==
    IF page.form # Gone THEN page.form
    ELSE IF Editing /\ cache["item"].known THEN cache["item"].data ELSE Blank(section)

Begun == IF page.form = Gone /\ Editing /\ ~cache["item"].known THEN "defaults" ELSE page.basis
Edited(f, v) ==
    [page EXCEPT !.form = [Form EXCEPT ![f] = v], !.typed = @ \cup {f}, !.basis = Begun]

(* Bound: two fields of a form are typed, once each. *)
Fresh(f) == f \notin page.typed /\ Cardinality(page.typed) < 2
Type(f) ==
    /\ Fresh(f)
    /\ Act /\ page' = Edited(f, spent.acts + 2)
    /\ UNCHANGED <<section, row, nodesOf, doc, cache, calls, history>>

(* The check box "enabled" of a form. *)
Switch ==
    /\ Act /\ page' = Edited("on", 1 - Form["on"])
    /\ UNCHANGED <<section, row, nodesOf, doc, cache, calls, history>>

(* Save is not disabled while an earlier press waits for its answer. *)
Save ==
    /\ Form[Required(section)] # 0
    /\ Request("save", page.id, Form, page.typed, {}, {})

-----------------------------------------------------------------------------
(* Lists. *)

Rows == cache["list"].data
Listed(i) ==
    /\ page.at = "list" /\ cache["list"].known /\ ~cache["list"].error
    /\ Rows[i] # Gone

(* The row as it is listed, with the switch turned. *)
Toggle(i) == Request("toggle", i, [Rows[i] EXCEPT !["on"] = 1 - @], {"on"}, {}, {})
Remove(i) == Request("delete", i, Gone, {}, {}, {})

(* Edit, enable or disable, delete after a confirmation; the name leads to *)
(* the task's own page. *)
TaskRowActions(i) == Href("editor", i) \/ Toggle(i) \/ Remove(i)
Tasks ==
    /\ At("tasks", "list")
    /\ \/ \E i \in Id : Listed(i) /\ (TaskRowActions(i) \/ Href("detail", i))
       \/ Link("editor", 0)

Schedules ==
    /\ At("schedules", "list")
    /\ \/ \E i \in Id : Listed(i) /\ (Href("editor", i) \/ Toggle(i) \/ Remove(i))
       \/ Link("editor", 0)

(* A clone is posted as the listed row under another name. *)
Clone_Nameless(i) ==   \* mutant: the name is left out, not replaced
    Request("clone", 0, [f \in Fields(section) \ {"name"} |-> Rows[i][f]], {}, {}, {})
Clone(i) == Request("clone", 0, Rows[i], {}, {}, {})
Scripts ==
    /\ At("scripts", "list")
    /\ \/ \E i \in Id : Listed(i) /\ (Href("editor", i) \/ Toggle(i) \/ Clone(i) \/ Remove(i))
       \/ Link("editor", 0)

Groups ==
    /\ At("groups", "list")
    /\ \/ \E i \in Id : Listed(i) /\ (Href("editor", i) \/ Remove(i))
       \/ Link("editor", 0)

Applications ==
    /\ At("applications", "list")
    /\ \/ \E i \in Id : Listed(i) /\ (Href("editor", i) \/ Remove(i))
       \/ Link("editor", 0)

(* Artifacts are not edited; a download changes nothing. *)
Artifacts ==
    /\ At("artifacts", "list")
    /\ \/ \E i \in Id : Listed(i) /\ Remove(i)
       \/ Link("editor", 0)

(* The form for a new user is part of the list, there before the list is   *)
(* loaded, and waits for its answer; a role is put alone, from a select.   *)
SetUserRole(i) ==
    /\ Listed(i)
    /\ Request("role", i, [Rows[i] EXCEPT !["on"] = 1 - @], {"on"}, {}, {})
CreateUser ==
    /\ page.form # Gone /\ ~Pending("create")
    /\ Request("create", 0, page.form, page.typed, {}, {})
Users ==
    /\ At("users", "list")
    /\ (\E i \in Id : SetUserRole(i)) \/ Type("name") \/ CreateUser

(* One row of settings.  What was typed is put with all that was shown     *)
(* when typing began, and stays in the form after it was saved.            *)
SettingsForm == IF page.form # Gone THEN page.form ELSE Rows[1]
EditSetting(f) ==
    /\ Fresh(f) /\ Act /\ cache["list"].known
    /\ page' = [page EXCEPT !.form = [SettingsForm EXCEPT ![f] = spent.acts + 2],
                            !.typed = @ \cup {f}]
    /\ UNCHANGED <<section, row, nodesOf, doc, cache, calls, history>>
Settings ==
    /\ At("settings", "list")
    /\ \/ \E f \in Fields("settings") : EditSetting(f)
       \/ /\ page.form # Gone /\ ~Pending("toggle")
          /\ Request("toggle", 1, page.form, page.typed, {}, {})

-----------------------------------------------------------------------------
(* Forms. *)

(* The task's page: edit it, or go back. *)
TaskDetail == At("tasks", "detail") /\ (Href("editor", page.id) \/ Link("list", 0))

EditTaskDefinition == Type("name") \/ Type("definition")
(* The kind of target, and its nodes, groups or label. *)
EditTaskTarget == Type("target")
EditTaskOptions == Type("options") \/ Switch
(* A parameter is part of the form once it was added. *)
EditTaskParameters == Type("parameters")
(* A local condition replaces a remote one and the other way round. *)
EditTaskCondition == Type("condition")
TaskEditor ==
    /\ At("tasks", "editor")
    /\ \/ EditTaskDefinition \/ EditTaskTarget \/ EditTaskOptions
       \/ EditTaskParameters \/ EditTaskCondition
       \/ Save \/ Link("list", 0)

EditScheduleTiming == Type("task") \/ Type("timing")
EditSchedulePolicy == Type("policy") \/ Switch
ScheduleEditor ==
    /\ At("schedules", "editor")
    /\ EditScheduleTiming \/ EditSchedulePolicy \/ Save \/ Link("list", 0)

EditScriptText == Type("name") \/ Type("content") \/ Switch
EditScriptParameters == Type("parameters")
EditScriptEnvironment == Type("environment")
ScriptEditor ==
    /\ At("scripts", "editor")
    /\ EditScriptText \/ EditScriptParameters \/ EditScriptEnvironment \/ Save \/ Link("list", 0)

(* Members of a static group, or the label of a dynamic one. *)
GroupEditor ==
    /\ At("groups", "editor")
    /\ Type("name") \/ Type("rule") \/ Type("members") \/ Save \/ Link("list", 0)

(* The name, the unit, the artifact and where it goes: one field here. *)
EditApplicationBasics == Type("name")
EditApplicationArguments == Type("arguments")
EditApplicationEnvironment == Type("environment")
EditApplicationHealth == Type("health")

(* The nodes that are ticked: chosen on this page, or those assigned. *)
Assigned == IF Editing /\ cache["nodes"].known THEN cache["nodes"].data ELSE {}
Selected == IF page.chosen THEN page.sel ELSE Assigned
SelectNode(h) ==
    /\ Act
    /\ page' = [page EXCEPT !.chosen = TRUE,
                  !.sel = IF h \in Selected THEN Selected \ {h} ELSE Selected \cup {h}]
    /\ UNCHANGED <<section, row, nodesOf, doc, cache, calls, history>>

(* Three calls, each sent when the one before was answered: the row, the   *)
(* nodes that are ticked, and those that were assigned and are not.        *)
SaveApplication ==
    /\ Form["name"] # 0
    /\ Request("save", page.id, Form, page.typed, Selected, Assigned \ Selected)
(* A deployment goes to the nodes that are ticked, saved or not. *)
Deploy ==
    /\ Editing /\ Selected # {}
    /\ Request("deploy", page.id, Gone, {}, Selected, {})

ApplicationEditor ==
    /\ At("applications", "editor")
    /\ \/ EditApplicationBasics \/ EditApplicationArguments
       \/ EditApplicationEnvironment \/ EditApplicationHealth
       \/ \E h \in Hosts : SelectNode(h)
       \/ SaveApplication \/ Deploy \/ Link("list", 0)

(* One upload at a time. *)
ArtifactEditor ==
    /\ At("artifacts", "editor")
    /\ \/ Type("name")
       \/ /\ page.form # Gone /\ ~Pending("upload")
          /\ Request("upload", 0, page.form, {}, {}, {})
       \/ Link("list", 0)

-----------------------------------------------------------------------------
(* Answers. *)

(* What this operator has been told of its own changes. *)
Acknowledge(c) ==
    /\ made' = IF c.op = "delete" THEN made \ {c.id} ELSE made \cup ({c.id} \ {1})
    /\ own' = IF c.id # 1 THEN own
              ELSE IF c.op = "delete" THEN Gone
              ELSE [f \in DOMAIN own \cup c.typed |-> IF f \in c.typed THEN c.row[f] ELSE own[f]]
    /\ kept' = IF c.id # 1 THEN kept
               ELSE IF c.op = "delete" \/ row[1] = Gone THEN {}
               ELSE {f \in kept \cup c.typed : row[1][f] = own'[f]}
    /\ told' = IF c.id = 1 THEN told + 1 ELSE told

Answered(c) == c \in calls /\ c.live /\ c.stage = "done"

(* A list asks again; the form for a new user is emptied. *)
ListChanged(c) ==
    /\ Answered(c) /\ c.op \in {"toggle", "delete", "role", "create"}
    /\ calls' = calls \ {c}
    /\ cache' = Invalidate(cache, page)
    /\ page' = IF c.op = "create" THEN [page EXCEPT !.form = Gone, !.typed = {}] ELSE page
    /\ Acknowledge(c)
    /\ UNCHANGED <<section, row, nodesOf, doc, spent>>

(* The calls of a saved application that are still to be sent. *)
NextCall_AssignIsLast(c) ==   \* mutant
    IF c.op = "save" /\ c.sel # {} THEN "assign"
    ELSE IF c.op = "save" /\ c.drop # {} THEN "unassign" ELSE "none"
NextCall(c) ==
    IF c.op = "save" /\ c.sel # {} THEN "assign"
    ELSE IF c.op \in {"save", "assign"} /\ c.drop # {} THEN "unassign" ELSE "none"

Continue(c) ==
    /\ Answered(c) /\ NextCall(c) # "none"
    /\ calls' = (calls \ {c}) \cup {[c EXCEPT !.op = NextCall(c), !.stage = "sent"]}
    /\ UNCHANGED <<section, row, nodesOf, doc, page, cache, spent, history>>

(* Whatever page is shown by now, the document leaves for the saved row or *)
(* for its list. *)
Leave(c) ==
    /\ Answered(c) /\ c.op \in {"save", "assign", "unassign", "clone", "upload"}
    /\ NextCall(c) = "none"
    /\ Load(IF section = "applications" \/ c.op = "clone"
            THEN NewPage("editor", c.id) ELSE NewPage("list", 0))
    /\ calls' = Orphans(calls \ {c})
    /\ Acknowledge(c)
    /\ UNCHANGED <<section, row, nodesOf, spent>>

Answers == \E c \in calls : ListChanged(c) \/ Continue(c) \/ Leave(c)

EditStep ==
    \/ Tasks \/ TaskDetail \/ TaskEditor \/ Schedules \/ ScheduleEditor
    \/ Scripts \/ ScriptEditor \/ Groups \/ GroupEditor
    \/ Applications \/ ApplicationEditor \/ Artifacts \/ ArtifactEditor
    \/ Users \/ Settings \/ Answers \/ QueryStep

=============================================================================
