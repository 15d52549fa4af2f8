---------------------------- MODULE TaskTargets ----------------------------
(***************************************************************************)
(* Which tasks a node's page lists.  The form of a task keeps a target of  *)
(* one of three types, with the fields of the types it was before; the Hub *)
(* resolves a target into nodes when the task is run, and a node's page    *)
(* decides by itself, from the JSON it was given, which tasks are the      *)
(* node's.                                                                 *)
(*                                                                         *)
(* There is one node, one label key, and one group at a time.  The ids of  *)
(* groups that were deleted stay in the targets that name them, where no   *)
(* check box shows them.                                                   *)
(***************************************************************************)
EXTENDS Naturals

CONSTANT LabelValue   \* values of the label, not the empty one

Empty == "empty"      \* ""
Absent == "absent"    \* no such key, undefined in JavaScript
Text == LabelValue \cup {Empty}

ASSUME LabelAssumption == Empty \notin LabelValue /\ Absent \notin LabelValue

(* The types that the form offers.  A target of any other, which only a    *)
(* client of the API could store, is nodes to the Hub and groups to the    *)
(* page: neither function rejects it, and no state here has one.           *)
TargetType == {"node", "group", "label"}

Target == [type : TargetType, node : BOOLEAN, group : BOOLEAN, gone : BOOLEAN, key : BOOLEAN,
           value : Text]
Group == [type : {"static", "label"}, member : BOOLEAN, value : Text]
NoGroup == [type |-> "none", member |-> FALSE, value |-> Empty]
NoDraft == [type |-> "none", node |-> FALSE, group |-> FALSE, gone |-> FALSE, key |-> FALSE,
            value |-> Empty]

VARIABLES
    label,    \* Hub: the node's label
    group,    \* Hub: the group
    target,   \* Hub: the task's target
    draft     \* the target in the task's form

targetVars == <<label, group, target, draft>>

-----------------------------------------------------------------------------
(* The form. *)

ShownTarget == IF draft = NoDraft THEN target ELSE draft
SetTarget(t) == draft' = t /\ UNCHANGED <<label, group, target>>

(* Another type empties the nodes and keeps the groups and the label. *)
ChangeType(type) ==
    SetTarget([ShownTarget EXCEPT !.type = type, !.node = type = "node" /\ @])
ToggleNode == ShownTarget.type = "node" /\ SetTarget([ShownTarget EXCEPT !.node = ~@])
ToggleGroup ==
    /\ ShownTarget.type = "group" /\ group # NoGroup
    /\ SetTarget([ShownTarget EXCEPT !.group = ~@])
TypeLabel ==
    /\ ShownTarget.type = "label"
    /\ \/ SetTarget([ShownTarget EXCEPT !.key = ~@])
       \/ \E v \in Text : SetTarget([ShownTarget EXCEPT !.value = v])
SaveTarget ==
    /\ target' = ShownTarget /\ draft' = NoDraft
    /\ UNCHANGED <<label, group>>

EditTarget ==
    \/ \E type \in TargetType : ChangeType(type)
    \/ ToggleNode \/ ToggleGroup \/ TypeLabel \/ SaveTarget

-----------------------------------------------------------------------------
(* The node and the group change meanwhile.  A label may be given an empty *)
(* value; none is ever taken away.                                         *)
SetLabel(v) == label' = v /\ UNCHANGED <<group, target, draft>>
SaveGroup(g) == group' = g /\ UNCHANGED <<label, target, draft>>
WithoutGroup(t) == [t EXCEPT !.group = FALSE, !.gone = @ \/ t.group]
DeleteGroup ==
    /\ group # NoGroup /\ group' = NoGroup
    /\ target' = WithoutGroup(target) /\ draft' = WithoutGroup(draft)
    /\ UNCHANGED label

-----------------------------------------------------------------------------
(* The Hub: a label matches if the key is there and the value is the one   *)
(* wanted, or any if none is wanted; a group that is gone fails the call.  *)
LabelMatches(wanted) == label # Absent /\ (wanted = Empty \/ label = wanted)
GroupMatches(labelMatches) ==
    target.group /\ IF group.type = "label" THEN labelMatches ELSE group.member
ResolveTarget_MembersOnly ==   \* mutant: a label group is resolved like a static one
    CASE target.type = "group" -> ~target.gone /\ target.group /\ group.member
      [] target.type = "label" -> target.key /\ LabelMatches(target.value)
      [] OTHER -> target.node
ResolveTarget ==
    CASE target.type = "group" -> ~target.gone /\ GroupMatches(LabelMatches(group.value))
      [] target.type = "label" -> target.key /\ LabelMatches(target.value)
      [] OTHER -> target.node

(* The page: fields with empty values are not in the JSON, so that an      *)
(* empty value wanted is undefined, as is the label of a node without it.  *)
Json(v) == IF v = Empty THEN Absent ELSE v
taskTargetsNode ==
    CASE target.type = "node" -> target.node
      [] target.type = "label" -> (IF target.key THEN label ELSE Absent) = Json(target.value)
      [] OTHER -> GroupMatches(label = Json(group.value))

TargetsInit ==
    /\ label \in {Absent} \cup Text
    /\ group \in {NoGroup} \cup Group
    /\ target \in {t \in Target : ~t.group /\ ~t.gone /\ ~t.key /\ t.value = Empty /\ t.type = "node"}
    /\ draft = NoDraft

TargetsStep ==
    \/ EditTarget \/ DeleteGroup
    \/ \E v \in Text : SetLabel(v)
    \/ \E g \in Group : SaveGroup(g)

(* A value is wanted, or no label is asked for, and no group is missing. *)
Resolvable ==
    CASE target.type = "node" -> TRUE
      [] target.type = "label" -> target.value # Empty
      [] target.type = "group" -> ~target.gone /\ (group.type = "label" => group.value # Empty)

=============================================================================
