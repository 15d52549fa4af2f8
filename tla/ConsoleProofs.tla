---------------------------- MODULE ConsoleProofs ----------------------------
(***************************************************************************)
(* The console for every set of sections, nodes, tabs and accounts and     *)
(* every bound: its types; that a change an operator was told is saved is  *)
(* lost and hidden only in the ways that are meant; that an application    *)
(* that was saved is assigned as the form said; that the user a tab shows  *)
(* is the one its token belongs to; and that a node's page and the Hub     *)
(* agree on which tasks are the node's.  Each is about one area; every     *)
(* step of another area leaves its variables alone.                        *)
(***************************************************************************)
EXTENDS Console, FiniteSetTheorems, SequenceTheorems, TLAPS

-----------------------------------------------------------------------------
(* Lists and forms: the types.  A copy has the fields of its section, a     *)
(* list has rows only under ids that have been used, the page and the      *)
(* document agree on the row they are about, and a call carries what its   *)
(* kind needs; ids never run out, since each comes from a call of its own. *)

Field == Fields(section) \cup {"on"}
Full == {r \in Row(section) : r["on"] \in {0, 1}}
Copy == Full \cup {Gone}

(* The rows there have been have the first ids. *)
Used == 1..spent.rows
Listing == {d \in [Id -> Copy] : \A i \in Id : d[i] # Gone => i \in Used}
Present(d) == section = "settings" => d[1] # Gone

DataOf(k) ==
    CASE k = "list" -> Listing
      [] k = "item" -> Copy
      [] k = "nodes" -> SUBSET Hosts
Entry(D) == [known : BOOLEAN, data : D, stale : BOOLEAN, error : BOOLEAN, missed : BOOLEAN,
             fetch : {"idle", "asked", "answered"}, got : D]
Basis == {"loaded", "cached", "defaults"}
PageOf == [at : {"list", "editor", "detail"}, id : 0..spent.rows, form : Copy,
           typed : SUBSET Field, sel : SUBSET Hosts, chosen : BOOLEAN, basis : Basis]
Ops == {"toggle", "save", "role", "clone", "create", "upload", "delete", "assign", "unassign",
        "deploy"}
CallOf == [n : 1..spent.calls, op : Ops, id : 0..spent.rows, row : Copy, typed : SUBSET Field,
           sel : SUBSET Hosts, drop : SUBSET Hosts, before : 0..told, others : 0..spent.others,
           alone : BOOLEAN, basis : Basis, stage : {"sent", "done"}, live : BOOLEAN]

Stored ==
    /\ section \in Sections /\ section \in AllSections
    /\ row \in Listing /\ Present(row)
    /\ nodesOf \in [Id -> SUBSET Hosts]
Opened ==
    /\ page \in PageOf /\ doc \in PageOf
    /\ page.id \in {0, doc.id}
    /\ page.at = "list" => page.id = 0
    /\ doc.at = "list" => doc.id = 0
    /\ page.at = "detail" => page.id # 0
    /\ doc.at = "detail" => doc.id # 0
Cached ==
    /\ DOMAIN cache = Key
    /\ \A k \in Key : cache[k] \in Entry(DataOf(k))
    /\ cache["list"].known => Present(cache["list"].data)
    /\ cache["list"].fetch = "answered" => Present(cache["list"].got)
    /\ cache["item"].known => cache["item"].data # Gone
    /\ \A k \in {"item", "nodes"} : cache[k].fetch # "idle" => doc.id # 0

(* What a call carries, by what it is for. *)
Sound(c) ==
    /\ c.op \in {"toggle", "save", "role"} => c.row # Gone
    /\ c.op \in {"toggle", "role"} /\ section # "settings" => c.typed = {"on"}
    /\ c.op \notin {"save", "clone", "create", "upload"} \/ c.stage = "done" => c.id # 0
    /\ c.op \in {"clone", "create", "upload"} => c.id # 1
    /\ section = "settings" => c.op = "toggle"
    /\ c.sel \cap c.drop = {}
Sent == calls \subseteq CallOf /\ \A c \in calls : Sound(c)

Spending == [acts : 0..MaxActs, calls : 0..MaxCalls, events : Nat, others : Nat, rows : Nat \ {0}]
Posting == {c \in calls : c.stage = "sent" /\ c.id = 0}
Room ==
    /\ spent \in Spending
    /\ IsFiniteSet(calls)
    /\ spent.rows + Cardinality(Posting) <= spent.calls + 1

Told ==
    /\ told \in Nat
    /\ made \subseteq Used \ {1}
    /\ kept \subseteq DOMAIN own
    /\ \A f \in kept : row[1] # Gone /\ row[1][f] = own[f]

EditInv == Stored /\ Opened /\ Cached /\ Sent /\ Room /\ Told

-----------------------------------------------------------------------------
(* What lists show: the right rows unless the list is stale, which a list  *)
(* on the page never rests in, was still loading when it was invalidated,  *)
(* or failed; and an answer under way is right unless it was overtaken.    *)
Shows(d) ==
    /\ \A i \in made : row[i] # Gone => d[i] # Gone
    /\ \A f \in kept : d[1] # Gone /\ d[1][f] = own[f]
Steady(e) == e.known /\ e.fetch = "idle" /\ ~e.error
ShownInv ==
    /\ Steady(cache["list"]) /\ ~cache["list"].stale /\ ~cache["list"].missed => Shows(cache["list"].data)
    /\ cache["list"].fetch = "answered" /\ ~cache["list"].missed => Shows(cache["list"].got)
    /\ page.at = "list" /\ Steady(cache["list"]) => ~cache["list"].stale

(* Copies of row 1: wherever it may still be sent from (the list, the form *)
(* of a loaded row, a call under way that began after the last answer), it *)
(* agrees with what was saved in every field that is not written anew.     *)
Agrees(r, fs) == r # Gone => \A f \in kept \ fs : r[f] = own[f]
OnListing == {"toggle", "delete", "role", "create"}
Loaded == page.id = 1 /\ page.basis = "loaded"
ListAgrees(e) ==
    /\ e.known => Agrees(e.data[1], {"on"})
    /\ e.fetch = "answered" => Agrees(e.got[1], {"on"})
ItemAgrees(e) ==
    /\ e.known => Agrees(e.data, {})
    /\ e.fetch = "answered" => Agrees(e.got, {})
Current(c) ==
    c.stage = "sent" /\ c.op \in {"toggle", "save"} /\ c.id = 1 /\ c.basis = "loaded" /\ c.before = told

(* What was put of the settings was typed, and stays in the form. *)
SettingsTyped == section = "settings" =>
    /\ DOMAIN own \subseteq page.typed
    /\ page.at = "list" /\ doc.id = 0
    /\ \A c \in calls : c.typed \subseteq page.typed /\ (c.before = told => DOMAIN own \subseteq c.typed)
ListCurrent == section # "settings" => ListAgrees(cache["list"])
FormCurrent == Loaded => ItemAgrees(cache["item"]) /\ Agrees(page.form, page.typed)
(* The page of a row is loaded as a document, which drops the calls of the *)
(* list before it.                                                         *)
ListLeft == page.id # 0 /\ page.basis = "loaded" => \A c \in calls : c.live => c.op \notin OnListing
CallsCurrent == \A c \in calls : Current(c) => Agrees(c.row, c.typed)
SurviveInv == SettingsTyped /\ ListCurrent /\ FormCurrent /\ ListLeft /\ CallsCurrent

(* The calls of a save of an application, alone from its first call on: the *)
(* nodes ticked are assigned before any is taken away.                      *)
Unhindered(c) ==
    /\ section = "applications" /\ c.op \in {"save", "assign", "unassign"}
    /\ c.alone /\ c.n = spent.calls /\ c.others = spent.others
AssignInv ==
    \A c \in calls : Unhindered(c) =>
        /\ calls = {c}
        /\ c.op = "assign" /\ c.stage = "done" => c.sel \subseteq nodesOf[c.id]
        /\ c.op = "unassign" => c.sel \subseteq nodesOf[c.id]
        /\ c.op = "unassign" /\ c.stage = "done" => c.drop \cap nodesOf[c.id] = {}

-----------------------------------------------------------------------------
(* Facts about sections and rows. *)

LEMMA SectionFields ==
  ASSUME NEW s \in AllSections
  PROVE  /\ s # "settings" => Required(s) \in Fields(s)
         /\ "on" \notin Fields(s)
         /\ s = "tasks" =>
              Fields(s) = {"name", "definition", "target", "options", "parameters", "condition"}
         /\ s = "schedules" => Fields(s) = {"task", "timing", "policy"}
         /\ s = "scripts" => Fields(s) = {"name", "content", "parameters", "environment"}
         /\ s = "groups" => Fields(s) = {"name", "rule", "members"}
         /\ s = "applications" => Fields(s) = {"name", "arguments", "environment", "health"}
         /\ s \in {"artifacts", "users"} => Fields(s) = {"name"}
<1>1. s \in {"tasks", "schedules", "scripts", "groups", "applications", "artifacts", "users",
             "settings"}
  BY DEF AllSections
<1>2. s = "tasks" =>
        Fields(s) = {"name", "definition", "target", "options", "parameters", "condition"}
  BY DEF Fields
<1>3. s = "schedules" => Fields(s) = {"task", "timing", "policy"}
  BY DEF Fields
<1>4. s = "scripts" => Fields(s) = {"name", "content", "parameters", "environment"}
  BY DEF Fields
<1>5. s = "groups" => Fields(s) = {"name", "rule", "members"}
  BY DEF Fields
<1>6. s = "applications" => Fields(s) = {"name", "arguments", "environment", "health"}
  BY DEF Fields
<1>7. s \in {"artifacts", "users"} => Fields(s) = {"name"}
  BY DEF Fields
<1>8. s = "settings" => Fields(s) = {"heartbeat", "window"}
  BY DEF Fields
<1> QED
  BY <1>1, <1>2, <1>3, <1>4, <1>5, <1>6, <1>7, <1>8 DEF Required

LEMMA Bounds ==
  /\ MaxActs \in Nat /\ MaxCalls \in Nat /\ MaxEvents \in Nat
  /\ 1 \in Id /\ Id \subseteq Nat /\ {0, 1} \subseteq Value
BY QueriesAssumption DEF Id, Value

(* A row has a switch, which what is gone has not. *)
LEMMA FullIs ==
  ASSUME NEW r \in Full
  PROVE  /\ r # Gone /\ r \in Copy /\ DOMAIN r = Field /\ r["on"] \in {0, 1}
         /\ \A f \in Field : r[f] \in Value
<1>1. r \in [Field -> Value]
  BY DEF Full, Row, Field
<1>2. DOMAIN r = Field /\ "on" \in Field
  BY <1>1 DEF Field
<1>3. DOMAIN Gone = {}
  BY DEF Gone
<1>4. r # Gone
  BY <1>2, <1>3
<1> QED
  BY <1>1, <1>2, <1>4 DEF Full, Copy

LEMMA CopyIs ==
  /\ Gone \in Copy
  /\ \A r \in Copy : r # Gone => r \in Full
BY DEF Copy

(* Writing one field, or the switch. *)
LEMMA FieldWritten ==
  ASSUME NEW r \in Full, section \in AllSections
  PROVE  /\ \A f \in Fields(section), v \in Value : [r EXCEPT ![f] = v] \in Full
         /\ [r EXCEPT !["on"] = 1 - @] \in Full
         /\ \A v \in {0, 1} : [r EXCEPT !["on"] = v] \in Full
<1>1. r \in [Field -> Value] /\ r["on"] \in {0, 1}
  BY DEF Full, Row, Field
<1>2. "on" \notin Fields(section) /\ {0, 1} \subseteq Value
  BY SectionFields, Bounds
<1>3. ASSUME NEW f \in Fields(section), NEW v \in Value PROVE [r EXCEPT ![f] = v] \in Full
  <2>1. [r EXCEPT ![f] = v] \in [Field -> Value]
    BY <1>1 DEF Field
  <2>2. [r EXCEPT ![f] = v]["on"] = r["on"]
    BY <1>1, <1>2 DEF Field
  <2> QED
    BY <1>1, <2>1, <2>2 DEF Full, Row, Field
<1>4. ASSUME NEW v \in {0, 1} PROVE [r EXCEPT !["on"] = v] \in Full
  <2>1. [r EXCEPT !["on"] = v] \in [Field -> Value]
    BY <1>1, <1>2 DEF Field
  <2>2. [r EXCEPT !["on"] = v]["on"] = v
    BY <1>1 DEF Field
  <2> QED
    BY <2>1, <2>2 DEF Full, Row, Field
<1>5. 1 - r["on"] \in {0, 1} /\ [r EXCEPT !["on"] = 1 - @] = [r EXCEPT !["on"] = 1 - r["on"]]
  BY <1>1
<1>6. [r EXCEPT !["on"] = 1 - r["on"]] \in Full
  BY <1>4, <1>5
<1> QED
  BY <1>3, <1>4, <1>5, <1>6

LEMMA BlankIs == section \in AllSections => Blank(section) \in Full
<1> SUFFICES ASSUME section \in AllSections PROVE Blank(section) \in Full
  OBVIOUS
<1>1. Blank(section) \in [Field -> Value]
  BY Bounds DEF Blank, Field
<1>2. Blank(section)["on"] = 1
  BY DEF Blank
<1> QED
  BY <1>1, <1>2 DEF Full, Row, Field

LEMMA FormIs == EditInv => Form \in Full
<1> SUFFICES ASSUME EditInv PROVE Form \in Full
  OBVIOUS
<1>1. page.form \in Copy /\ cache["item"].data \in Copy /\ section \in AllSections
  BY DEF EditInv, Opened, PageOf, Cached, Key, Entry, DataOf, Stored
<1>2. cache["item"].known => cache["item"].data # Gone
  BY DEF EditInv, Cached
<1> QED
  BY <1>1, <1>2, CopyIs, BlankIs DEF Form

LEMMA ListIs ==
  ASSUME EditInv
  PROVE  /\ Rows \in Listing
         /\ \A i \in Id : Rows[i] \in Copy /\ (Rows[i] # Gone => Rows[i] \in Full /\ i \in Used)
         /\ section = "settings" /\ cache["list"].known => Rows[1] \in Full
<1>1. Rows \in Listing
  BY DEF EditInv, Cached, Key, Entry, DataOf, Rows
<1>2. \A i \in Id : Rows[i] \in Copy /\ (Rows[i] # Gone => i \in Used)
  BY <1>1 DEF Listing
<1>3. section = "settings" /\ cache["list"].known => Rows[1] # Gone
  BY DEF EditInv, Cached, Present, Rows
<1> QED
  BY <1>1, <1>2, <1>3, CopyIs, Bounds

-----------------------------------------------------------------------------
(* Counters only grow, and the types with them. *)

Later ==
    /\ UNCHANGED section /\ spent' \in Spending
    /\ spent.rows <= spent'.rows /\ spent.calls <= spent'.calls /\ spent.others <= spent'.others
    /\ told' \in Nat /\ told <= told'

(* The ids that have been used are ids. *)
LEMMA IdsUsed == EditInv => spent.rows \in 1..MaxCalls + 1 /\ Used \subseteq Id /\ 1 \in Used
<1> SUFFICES ASSUME EditInv PROVE spent.rows \in 1..MaxCalls + 1 /\ Used \subseteq Id /\ 1 \in Used
  OBVIOUS
<1>1. spent.rows \in Nat \ {0} /\ spent.calls \in 0..MaxCalls
  BY DEF EditInv, Room, Spending
<1>2. IsFiniteSet(Posting)
  BY FS_Subset DEF EditInv, Room, Posting
<1>3. Cardinality(Posting) \in Nat
  BY <1>2, FS_CardinalityType
<1>4. spent.rows + Cardinality(Posting) <= spent.calls + 1
  BY DEF EditInv, Room
<1>5. spent.rows \in 1..MaxCalls + 1
  BY <1>1, <1>3, <1>4, Bounds
<1> QED
  BY <1>5, Bounds DEF Used, Id

(* No row, page, copy or call leaves its type when the counters grow. *)
LEMMA Grows ==
  ASSUME EditInv, Later
  PROVE  /\ Field' = Field /\ Full' = Full /\ Copy' = Copy
         /\ Used \subseteq Used' /\ Listing \subseteq Listing'
         /\ PageOf \subseteq PageOf' /\ CallOf \subseteq CallOf'
         /\ \A k \in Key : Entry(DataOf(k)) \subseteq Entry(DataOf(k)')
<1>1. /\ spent.rows \in Nat /\ spent'.rows \in Nat /\ spent.rows <= spent'.rows
      /\ spent.calls \in Nat /\ spent'.calls \in Nat /\ spent.calls <= spent'.calls
      /\ spent.others \in Nat /\ spent'.others \in Nat /\ spent.others <= spent'.others
      /\ told \in Nat /\ told' \in Nat /\ told <= told'
  BY Bounds DEF EditInv, Room, Told, Later, Spending
<1>2. Field' = Field /\ Full' = Full /\ Copy' = Copy
  BY DEF Later, Field, Full, Copy
<1>3. Used \subseteq Used' /\ 0..spent.rows \subseteq 0..spent'.rows
      /\ 1..spent.calls \subseteq 1..spent'.calls /\ 0..told \subseteq 0..told'
      /\ 0..spent.others \subseteq 0..spent'.others
  BY <1>1 DEF Used
<1>4. Listing \subseteq Listing'
  BY <1>2, <1>3 DEF Listing
<1>5. PageOf \subseteq PageOf'
  BY <1>2, <1>3 DEF PageOf
<1>6. CallOf \subseteq CallOf'
  BY <1>2, <1>3 DEF CallOf
<1>7. ASSUME NEW k \in Key PROVE Entry(DataOf(k)) \subseteq Entry(DataOf(k)')
  <2>1. DataOf(k) \subseteq DataOf(k)'
    BY <1>2, <1>4 DEF DataOf, Key
  <2> QED
    BY <2>1 DEF Entry
<1> QED
  BY <1>2, <1>3, <1>4, <1>5, <1>6, <1>7

LEMMA StoredKept ==
  ASSUME EditInv, Later, UNCHANGED <<row, nodesOf>>
  PROVE  Stored'
<1>1. row' \in Listing' /\ section' = section
  BY Grows DEF EditInv, Stored, Later
<1> QED
  BY <1>1 DEF EditInv, Stored, Present

LEMMA OpenedKept ==
  ASSUME EditInv, Later, UNCHANGED <<page, doc>>
  PROVE  Opened'
BY Grows DEF EditInv, Opened

LEMMA CachedKept ==
  ASSUME EditInv, Later, UNCHANGED <<cache, doc>>
  PROVE  Cached'
<1>1. \A k \in Key : cache'[k] \in Entry(DataOf(k)')
  BY Grows DEF EditInv, Cached
<1>2. section' = section
  BY DEF Later
<1> QED
  BY <1>1, <1>2 DEF EditInv, Cached, Present

LEMMA SentKept ==
  ASSUME EditInv, Later, calls' \subseteq calls
  PROVE  Sent'
<1>1. calls' \subseteq CallOf'
  BY Grows DEF EditInv, Sent
<1>2. section' = section
  BY DEF Later
<1> QED
  BY <1>1, <1>2 DEF EditInv, Sent, Sound

LEMMA RoomKept ==
  ASSUME EditInv, Later, calls' \subseteq calls, spent'.rows = spent.rows
  PROVE  Room'
<1>1. IsFiniteSet(calls') /\ IsFiniteSet(Posting) /\ Posting' \subseteq Posting
  BY FS_Subset DEF EditInv, Room, Posting
<1>2. IsFiniteSet(Posting') /\ Cardinality(Posting') <= Cardinality(Posting)
  BY <1>1, FS_Subset
<1>3. Cardinality(Posting') \in Nat /\ Cardinality(Posting) \in Nat
  BY <1>1, <1>2, FS_CardinalityType
<1>4. spent.rows + Cardinality(Posting) <= spent.calls + 1
  BY DEF EditInv, Room
<1>5. spent \in Spending /\ spent' \in Spending /\ spent.calls <= spent'.calls
  BY DEF EditInv, Room, Later
<1> QED
  BY <1>1, <1>2, <1>3, <1>4, <1>5, Bounds DEF Room, Spending

LEMMA ToldKept ==
  ASSUME EditInv, Later, UNCHANGED <<row, own, kept, told, made>>
  PROVE  Told'
BY Grows DEF EditInv, Told

(* Most steps count an act or an event at most. *)
LEMMA Counted ==
  ASSUME EditInv, UNCHANGED <<section, told>>,
         \/ UNCHANGED spent
         \/ Act \/ Event
  PROVE  Later /\ spent'.rows = spent.rows /\ spent'.calls = spent.calls
         /\ spent'.others = spent.others
BY Bounds DEF EditInv, Room, Told, Later, Spending, Act, Event

-----------------------------------------------------------------------------
(* Every step of the lists and forms, by what it does. *)

(* The calls an operator sends: of a row that is listed, of the settings   *)
(* that are shown, of a form.                                              *)
AsksListed(op, i, r, typed, sel, drop) ==
    /\ section # "settings" /\ page.at = "list" /\ i \in Id /\ Listed(i)
    /\ sel = {} /\ drop = {}
    /\ \/ op \in {"toggle", "role"} /\ r = [Rows[i] EXCEPT !["on"] = 1 - @] /\ typed = {"on"}
       \/ op = "delete" /\ r = Gone /\ typed = {}
AsksSettings(op, i, r, typed, sel, drop) ==
    /\ section = "settings" /\ page.at = "list" /\ page.form # Gone
    /\ op = "toggle" /\ i = 1 /\ r = page.form /\ typed = page.typed /\ sel = {} /\ drop = {}
AsksNew(op, i, r, typed, sel, drop) ==
    /\ section # "settings" /\ i = 0 /\ sel = {} /\ drop = {}
    /\ \/ op = "clone" /\ page.at = "list" /\ typed = {} /\ \E j \in Id : Listed(j) /\ r = Rows[j]
       \/ op = "create" /\ page.at = "list" /\ r = page.form /\ typed = page.typed
       \/ op = "upload" /\ page.at = "editor" /\ r = page.form /\ typed = {}
AsksForm(op, i, r, typed, sel, drop) ==
    /\ section # "settings" /\ page.at = "editor" /\ i = page.id
    /\ sel \subseteq Hosts /\ drop \subseteq Hosts \ sel
    /\ \/ /\ op = "save" /\ r = Form /\ typed = page.typed
          /\ Form[Required(section)] # 0
       \/ op = "deploy" /\ r = Gone /\ typed = {} /\ i # 0
Asks(op, i, r, typed, sel, drop) ==
    \/ AsksListed(op, i, r, typed, sel, drop) \/ AsksSettings(op, i, r, typed, sel, drop)
    \/ AsksNew(op, i, r, typed, sel, drop) \/ AsksForm(op, i, r, typed, sel, drop)

Requests ==
    \E op \in Ops, i \in Nat, r \in Copy, typed \in SUBSET Field, sel, drop \in SUBSET Hosts :
        Asks(op, i, r, typed, sel, drop) /\ Request(op, i, r, typed, sel, drop)

Types ==
    /\ section # "settings"
    /\ (\E f \in Fields(section) : Type(f)) \/ (page.at = "editor" /\ Switch)
Sets == section = "settings" /\ page.at = "list" /\ \E f \in Fields(section) : EditSetting(f)
Ticks == section = "applications" /\ page.at = "editor" /\ \E h \in Hosts : SelectNode(h)
Follows ==
    /\ section # "settings"
    /\ \/ \E at \in {"editor", "detail"}, i \in Used : Href(at, i)
       \/ \E at \in {"list", "editor"} : Link(at, 0)

LEMMA SelectedIs ==
  ASSUME EditInv
  PROVE  Selected \in SUBSET Hosts /\ Assigned \in SUBSET Hosts
BY DEF EditInv, Opened, PageOf, Cached, Key, Entry, DataOf, Selected, Assigned

(* What a button sends is a call of its kind. *)
LEMMA AsksTyped ==
  ASSUME EditInv, NEW op, NEW i, NEW r, NEW typed, NEW sel, NEW drop,
         Asks(op, i, r, typed, sel, drop)
  PROVE  /\ op \in Ops /\ i \in 0..spent.rows /\ i \in Nat /\ r \in Copy /\ typed \subseteq Field
         /\ sel \subseteq Hosts /\ drop \subseteq Hosts /\ sel \cap drop = {}
         /\ op \in {"toggle", "save", "role"} => r # Gone
         /\ op \in {"toggle", "role"} /\ section # "settings" => typed = {"on"}
         /\ op \notin {"save", "clone", "create", "upload"} => i # 0
         /\ op \in {"clone", "create", "upload"} => i = 0
         /\ section = "settings" => op = "toggle"
<1>0. /\ page \in PageOf /\ section \in AllSections /\ spent.rows \in Nat
      /\ spent.rows \in 1..MaxCalls + 1 /\ 1 \in Used /\ Used \subseteq Nat
      /\ Used \subseteq 0..spent.rows /\ 0 \notin Used
  BY IdsUsed, Bounds DEF EditInv, Opened, Stored, Used
<1>1. /\ page.typed \subseteq Field /\ page.form \in Copy /\ page.id \in 0..spent.rows
      /\ {"on"} \subseteq Field
  BY <1>0 DEF PageOf, Field
<1>2. CASE AsksListed(op, i, r, typed, sel, drop)
  <2>1. Rows[i] \in Full /\ i \in Used
    BY <1>2, ListIs DEF AsksListed, Listed
  <2>2. [Rows[i] EXCEPT !["on"] = 1 - @] \in Full
    BY <1>0, <2>1, FieldWritten
  <2> QED
    BY <1>0, <1>1, <1>2, <2>1, <2>2, FullIs, CopyIs DEF AsksListed, Ops
<1>3. CASE AsksSettings(op, i, r, typed, sel, drop)
  BY <1>0, <1>1, <1>3 DEF AsksSettings, Ops
<1>4. CASE AsksNew(op, i, r, typed, sel, drop)
  <2>1. r \in Copy
    BY <1>1, <1>4, ListIs DEF AsksNew, Listed
  <2> QED
    BY <1>0, <1>1, <1>4, <2>1 DEF AsksNew, Ops
<1>5. CASE AsksForm(op, i, r, typed, sel, drop)
  <2>1. Form \in Copy /\ Form # Gone
    BY FormIs, FullIs
  <2> QED
    BY <1>0, <1>1, <1>5, <2>1, CopyIs DEF AsksForm, Ops
<1> QED
  BY <1>2, <1>3, <1>4, <1>5 DEF Asks

(* A request is one new call. *)
LEMMA Sends ==
  ASSUME EditInv, NEW op, NEW i, NEW r, NEW typed, NEW sel, NEW drop,
         Asks(op, i, r, typed, sel, drop), Request(op, i, r, typed, sel, drop)
  PROVE  Requests
BY AsksTyped DEF Requests

(* One section at a time. *)
LEMMA ListSteps ==
  ASSUME EditInv,
         \/ Tasks \/ Schedules \/ Scripts \/ Groups \/ Applications \/ Artifacts \/ Users \/ Settings
  PROVE  Types \/ Sets \/ Follows \/ Requests
<1>0. section \in AllSections
  BY DEF EditInv, Stored
<1>1. ASSUME NEW i \in Id, Listed(i), section # "settings", page.at = "list",
             \/ Toggle(i) \/ Remove(i) \/ SetUserRole(i) \/ Clone(i)
      PROVE  Requests
  <2>1. CASE Toggle(i)
    BY <1>1, <2>1, Sends DEF Toggle, Asks, AsksListed
  <2>2. CASE Remove(i)
    BY <1>1, <2>2, Sends DEF Remove, Asks, AsksListed
  <2>3. CASE SetUserRole(i)
    BY <1>1, <2>3, Sends DEF SetUserRole, Asks, AsksListed
  <2>4. CASE Clone(i)
    BY <1>1, <2>4, Sends DEF Clone, Asks, AsksNew
  <2> QED
    BY <1>1, <2>1, <2>2, <2>3, <2>4
<1>2. ASSUME NEW i \in Id, NEW at \in {"editor", "detail"}, Listed(i), section # "settings", Href(at, i)
      PROVE  Follows
  BY <1>2, ListIs DEF Follows, Listed
<1>3. ASSUME section # "settings", Link("editor", 0) PROVE Follows
  BY <1>3 DEF Follows
<1>4. CASE Tasks
  BY <1>1, <1>2, <1>3, <1>4 DEF Tasks, TaskRowActions, At
<1>5. CASE Schedules
  BY <1>1, <1>2, <1>3, <1>5 DEF Schedules, At
<1>6. CASE Scripts
  BY <1>1, <1>2, <1>3, <1>6 DEF Scripts, At
<1>7. CASE Groups
  BY <1>1, <1>2, <1>3, <1>7 DEF Groups, At
<1>8. CASE Applications
  BY <1>1, <1>2, <1>3, <1>8 DEF Applications, At
<1>9. CASE Artifacts
  BY <1>1, <1>2, <1>3, <1>9 DEF Artifacts, At
<1>10. CASE Users
  <2>1. section = "users" /\ page.at = "list"
    BY <1>10 DEF Users, At
  <2>2. \A i \in Id : SetUserRole(i) => Requests
    BY <2>1, <1>1 DEF SetUserRole
  <2>3. Type("name") => Types
    BY <1>0, <2>1, SectionFields DEF Types
  <2>4. CreateUser => Requests
    BY <2>1, Sends DEF CreateUser, Asks, AsksNew
  <2> QED
    BY <1>10, <2>2, <2>3, <2>4 DEF Users
<1>11. CASE Settings
  <2>1. section = "settings" /\ page.at = "list"
    BY <1>11 DEF Settings, At
  <2>2. (\E f \in Fields("settings") : EditSetting(f)) => Sets
    BY <2>1 DEF Sets
  <2>3. page.form # Gone /\ Request("toggle", 1, page.form, page.typed, {}, {}) => Requests
    BY <2>1, Sends DEF Asks, AsksSettings
  <2> QED
    BY <1>11, <2>2, <2>3 DEF Settings
<1> QED
  BY <1>4, <1>5, <1>6, <1>7, <1>8, <1>9, <1>10, <1>11

(* Each action of a form is typing, ticking, following a link or a request. *)
LEMMA FormSteps ==
  ASSUME EditInv,
         \/ TaskDetail \/ TaskEditor \/ ScheduleEditor \/ ScriptEditor \/ GroupEditor
         \/ ApplicationEditor \/ ArtifactEditor
  PROVE  Types \/ Ticks \/ Follows \/ Requests
<1>0. section \in AllSections
  BY DEF EditInv, Stored
<1>1. ASSUME section # "settings", page.at = "editor", Save PROVE Requests
  BY <1>1, Sends DEF Save, Asks, AsksForm
<1>2. ASSUME section # "settings", Link("list", 0) PROVE Follows
  BY <1>2 DEF Follows
<1>3. ASSUME NEW f \in Fields(section), section # "settings", Type(f) PROVE Types
  BY <1>3 DEF Types
<1>4. ASSUME section # "settings", page.at = "editor", Switch PROVE Types
  BY <1>4 DEF Types
<1>5. CASE TaskDetail
  <2>1. section = "tasks" /\ page.at = "detail"
    BY <1>5 DEF TaskDetail, At
  <2>2. Href("editor", page.id) => Follows \/ page.id = 0
    BY <2>1, IdsUsed DEF Follows, Used, EditInv, Opened, PageOf
  <2>3. page.id # 0
    BY <2>1 DEF EditInv, Opened
  <2> QED
    BY <1>2, <1>5, <2>1, <2>2, <2>3 DEF TaskDetail
<1>6. CASE TaskEditor
  <2>1. section = "tasks" /\ page.at = "editor"
    BY <1>6 DEF TaskEditor, At
  <2>2. {"name", "definition", "target", "options", "parameters", "condition"} \subseteq Fields(section)
    BY <1>0, <2>1, SectionFields
  <2> QED
    BY <1>1, <1>2, <1>3, <1>4, <1>6, <2>1, <2>2
    DEF TaskEditor, EditTaskDefinition, EditTaskTarget, EditTaskOptions, EditTaskParameters,
        EditTaskCondition
<1>7. CASE ScheduleEditor
  <2>1. section = "schedules" /\ page.at = "editor"
    BY <1>7 DEF ScheduleEditor, At
  <2>2. {"task", "timing", "policy"} \subseteq Fields(section)
    BY <1>0, <2>1, SectionFields
  <2> QED
    BY <1>1, <1>2, <1>3, <1>4, <1>7, <2>1, <2>2
    DEF ScheduleEditor, EditScheduleTiming, EditSchedulePolicy
<1>8. CASE ScriptEditor
  <2>1. section = "scripts" /\ page.at = "editor"
    BY <1>8 DEF ScriptEditor, At
  <2>2. {"name", "content", "parameters", "environment"} \subseteq Fields(section)
    BY <1>0, <2>1, SectionFields
  <2> QED
    BY <1>1, <1>2, <1>3, <1>4, <1>8, <2>1, <2>2
    DEF ScriptEditor, EditScriptText, EditScriptParameters, EditScriptEnvironment
<1>9. CASE GroupEditor
  <2>1. section = "groups" /\ page.at = "editor"
    BY <1>9 DEF GroupEditor, At
  <2>2. {"name", "rule", "members"} \subseteq Fields(section)
    BY <1>0, <2>1, SectionFields
  <2> QED
    BY <1>1, <1>2, <1>3, <1>9, <2>1, <2>2 DEF GroupEditor
<1>10. CASE ApplicationEditor
  <2>1. section = "applications" /\ page.at = "editor"
    BY <1>10 DEF ApplicationEditor, At
  <2>2. {"name", "arguments", "environment", "health"} \subseteq Fields(section)
        /\ Required(section) = "name"
    BY <1>0, <2>1, SectionFields DEF Required
  <2>3. SaveApplication => Requests
    BY <2>1, <2>2, SelectedIs, Sends DEF SaveApplication, Asks, AsksForm
  <2>4. Deploy => Requests
    BY <2>1, SelectedIs, Sends DEF Deploy, Editing, Asks, AsksForm
  <2>5. (\E h \in Hosts : SelectNode(h)) => Ticks
    BY <2>1 DEF Ticks
  <2> QED
    BY <1>2, <1>3, <1>10, <2>1, <2>2, <2>3, <2>4, <2>5
    DEF ApplicationEditor, EditApplicationBasics, EditApplicationArguments,
        EditApplicationEnvironment, EditApplicationHealth
<1>11. CASE ArtifactEditor
  <2>1. section = "artifacts" /\ page.at = "editor"
    BY <1>11 DEF ArtifactEditor, At
  <2>2. "name" \in Fields(section)
    BY <1>0, <2>1, SectionFields
  <2>3. Request("upload", 0, page.form, {}, {}, {}) => Requests
    BY <2>1, Sends DEF Asks, AsksNew
  <2> QED
    BY <1>2, <1>3, <1>11, <2>1, <2>2, <2>3 DEF ArtifactEditor
<1> QED
  BY <1>5, <1>6, <1>7, <1>8, <1>9, <1>10, <1>11

(* A step of the editing area is of one of seven kinds. *)
LEMMA EditSteps ==
  ASSUME EditInv, EditStep
  PROVE  Types \/ Sets \/ Ticks \/ Follows \/ Requests \/ Answers \/ QueryStep
BY ListSteps, FormSteps DEF EditStep

-----------------------------------------------------------------------------
(* The types are kept: what changes only the page or only the cache. *)

LEMMA FormChanges ==
  ASSUME EditInv, Act, page' \in PageOf, page'.at = page.at, page'.id = page.id,
         UNCHANGED <<section, row, nodesOf, doc, cache, calls, history>>
  PROVE  EditInv'
<1>1. Later /\ spent'.rows = spent.rows /\ UNCHANGED <<own, kept, told, made>>
  BY Counted DEF history
<1>2. Opened'
  BY <1>1, Grows DEF EditInv, Opened
<1> QED
  BY <1>1, <1>2, StoredKept, CachedKept, SentKept, RoomKept, ToldKept DEF EditInv

LEMMA CacheChanges ==
  ASSUME EditInv, UNCHANGED spent \/ Act \/ Event, Cached',
         UNCHANGED <<section, row, nodesOf, doc, page, calls, history>>
  PROVE  EditInv'
<1>1. Later /\ spent'.rows = spent.rows /\ UNCHANGED <<own, kept, told, made>>
  BY Counted DEF history
<1> QED
  BY <1>1, StoredKept, OpenedKept, SentKept, RoomKept, ToldKept DEF EditInv

LEMMA FormsKeep ==
  ASSUME EditInv, Types \/ Sets \/ Ticks
  PROVE  EditInv'
<1>0. page \in PageOf /\ section \in AllSections /\ Form \in Full /\ spent \in Spending
  BY FormIs DEF EditInv, Opened, Stored, Room
<1>1. spent.acts < MaxActs => spent.acts + 2 \in Value
  BY <1>0, Bounds DEF Spending, Value
<1>2. ASSUME NEW f, NEW v, NEW r \in Full, r = [Form EXCEPT ![f] = v], f \in Field
      PROVE  /\ Edited(f, v) \in PageOf /\ Edited(f, v).at = page.at /\ Edited(f, v).id = page.id
  <2>1. Edited(f, v) = [page EXCEPT !.form = r, !.typed = @ \cup {f}, !.basis = Begun]
    BY <1>2 DEF Edited
  <2>2. Begun \in Basis /\ r \in Copy
    BY <1>0, FullIs DEF Begun, PageOf, Basis
  <2>3. page.typed \cup {f} \in SUBSET Field /\ page \in PageOf
    BY <1>0, <1>2 DEF PageOf
  <2> QED
    BY <2>1, <2>2, <2>3 DEF PageOf
<1>3. ASSUME NEW f \in Fields(section), Type(f) PROVE EditInv'
  <2>1. [Form EXCEPT ![f] = spent.acts + 2] \in Full /\ f \in Field
    BY <1>0, <1>1, <1>3, FieldWritten DEF Type, Act, Field
  <2>2. Edited(f, spent.acts + 2) \in PageOf /\ Edited(f, spent.acts + 2).at = page.at
        /\ Edited(f, spent.acts + 2).id = page.id
    BY <1>2, <2>1
  <2> QED
    BY <1>3, <2>2, FormChanges DEF Type
<1>4. ASSUME Switch PROVE EditInv'
  <2>1. Form["on"] \in {0, 1} /\ 1 - Form["on"] \in {0, 1} /\ "on" \in Field
    BY <1>0, FullIs DEF Field
  <2>2. [Form EXCEPT !["on"] = 1 - Form["on"]] \in Full
    BY <1>0, <2>1, FieldWritten
  <2>3. Edited("on", 1 - Form["on"]) \in PageOf /\ Edited("on", 1 - Form["on"]).at = page.at
        /\ Edited("on", 1 - Form["on"]).id = page.id
    BY <1>2, <2>1, <2>2
  <2> QED
    BY <1>4, <2>3, FormChanges DEF Switch
<1>5. ASSUME section = "settings", NEW f \in Fields(section), EditSetting(f) PROVE EditInv'
  <2>1. cache["list"].known /\ Act /\ SettingsForm \in Full
    BY <1>0, <1>5, ListIs, CopyIs DEF EditSetting, SettingsForm, PageOf
  <2>2. [SettingsForm EXCEPT ![f] = spent.acts + 2] \in Copy
    BY <1>0, <1>1, <2>1, FieldWritten, FullIs DEF Act
  <2>3. page' = [page EXCEPT !.form = [SettingsForm EXCEPT ![f] = spent.acts + 2], !.typed = @ \cup {f}]
    BY <1>5 DEF EditSetting
  <2>4. page' \in PageOf /\ page'.at = page.at /\ page'.id = page.id
    BY <1>0, <2>2, <2>3 DEF PageOf, Field
  <2> QED
    BY <1>5, <2>1, <2>4, FormChanges DEF EditSetting
<1>6. ASSUME NEW h \in Hosts, SelectNode(h) PROVE EditInv'
  <2>1. page' = [page EXCEPT !.chosen = TRUE,
                   !.sel = IF h \in Selected THEN Selected \ {h} ELSE Selected \cup {h}]
    BY <1>6 DEF SelectNode
  <2>2. page' \in PageOf /\ page'.at = page.at /\ page'.id = page.id
    BY <1>0, <2>1, SelectedIs DEF PageOf
  <2> QED
    BY <1>6, <2>2, FormChanges DEF SelectNode
<1> QED
  BY <1>3, <1>4, <1>5, <1>6 DEF Types, Sets, Ticks

-----------------------------------------------------------------------------
(* The query cache. *)

LEMMA EntryIs ==
  ASSUME NEW D, NEW e \in Entry(D)
  PROVE  /\ Ask(e) \in Entry(D) /\ Ask(e).known = e.known /\ Ask(e).data = e.data
         /\ Ask(e).fetch = "asked" /\ Ask(e).error = e.error /\ Ask(e).stale = e.stale
         /\ \A d \in D : Unloaded(d) \in Entry(D) /\ Unloaded(d).fetch = "idle" /\ ~Unloaded(d).known
BY DEF Entry, Ask, Unloaded

(* Mounting a page asks for some of its queries. *)
LEMMA MountIs ==
  ASSUME NEW c, NEW p
  PROVE  /\ DOMAIN Mount(c, p) = Key
         /\ \A k \in Key : \/ Mount(c, p)[k] = c[k]
                           \/ k \in Active(p) /\ c[k].fetch = "idle" /\ Mount(c, p)[k] = Ask(c[k])
         /\ \A k \in Key : k \in Active(p) /\ c[k].fetch = "idle" /\ c[k].stale
                           => Mount(c, p)[k] = Ask(c[k])
BY DEF Mount

LEMMA ActiveIs ==
  ASSUME NEW p
  PROVE  /\ Active(p) \subseteq Key
         /\ \A k \in {"item", "nodes"} : k \in Active(p) => p.at # "list" /\ p.id # 0
         /\ "list" \in Active(p) <=> p.at = "list"
BY DEF Active, Key

(* Whatever a page mounts, the cache stays a cache of its row. *)
LEMMA MountKeeps ==
  ASSUME EditInv, NEW p, p.id \in {0, doc'.id},
         NEW c, DOMAIN c = Key, \A k \in Key : c[k] \in Entry(DataOf(k)'),
         c["list"].known => Present(c["list"].data)',
         c["list"].fetch = "answered" => Present(c["list"].got)',
         c["item"].known => c["item"].data # Gone,
         \A k \in {"item", "nodes"} : c[k].fetch # "idle" => doc'.id # 0,
         cache' = Mount(c, p)
  PROVE  Cached'
<1>1. Key = {"list", "item", "nodes"} /\ DOMAIN cache' = Key
  BY MountIs DEF Key
<1>2. ASSUME NEW k \in Key
      PROVE  /\ cache'[k] \in Entry(DataOf(k)')
             /\ cache'[k].known = c[k].known /\ cache'[k].data = c[k].data
             /\ cache'[k] = c[k] \/ cache'[k].fetch = "asked"
             /\ k \in {"item", "nodes"} /\ cache'[k].fetch # "idle" => doc'.id # 0
  <2>1. c[k] \in Entry(DataOf(k)')
    OBVIOUS
  <2>2. CASE cache'[k] = c[k]
    BY <2>1, <2>2
  <2>3. CASE k \in Active(p) /\ cache'[k] = Ask(c[k])
    BY <2>1, <2>3, EntryIs, ActiveIs
  <2> QED
    BY <2>2, <2>3, MountIs
<1> QED
  BY <1>1, <1>2 DEF Cached, Present

(* A new document knows nothing. *)
LEMMA EmptyIs ==
  ASSUME EditInv, Later
  PROVE  /\ DOMAIN EmptyCache = Key
         /\ \A k \in Key : /\ EmptyCache[k] \in Entry(DataOf(k)')
                           /\ EmptyCache[k].fetch = "idle" /\ ~EmptyCache[k].known
<1>1. DOMAIN EmptyCache = Key /\ Key = {"list", "item", "nodes"}
  BY DEF EmptyCache, Key
<1>2. [i \in Id |-> Gone] \in DataOf("list")' /\ Gone \in DataOf("item")' /\ {} \in DataOf("nodes")'
  BY CopyIs, Grows DEF DataOf, Listing
<1>3. /\ EmptyCache["list"] = Unloaded([i \in Id |-> Gone])
      /\ EmptyCache["item"] = Unloaded(Gone) /\ EmptyCache["nodes"] = Unloaded({})
  BY DEF EmptyCache, Key
<1>4. ASSUME NEW k \in Key, NEW d \in DataOf(k)', EmptyCache[k] = Unloaded(d)
      PROVE  /\ EmptyCache[k] \in Entry(DataOf(k)')
             /\ EmptyCache[k].fetch = "idle" /\ ~EmptyCache[k].known
  BY <1>4 DEF Unloaded, Entry
<1> QED
  BY <1>1, <1>2, <1>3, <1>4

LEMMA LoadKeeps ==
  ASSUME EditInv, Later, NEW p \in PageOf', Load(p),
         p.at = "list" => p.id = 0, p.at = "detail" => p.id # 0
  PROVE  Opened' /\ Cached'
<1>1. page' = p /\ doc' = p /\ cache' = Mount(EmptyCache, p)
  BY DEF Load
<1>2. Opened'
  BY <1>1 DEF Opened
<1>3. Cached'
  BY <1>1, EmptyIs, MountKeeps DEF Key
<1> QED
  BY <1>2, <1>3

LEMMA NewPageIs ==
  ASSUME EditInv, Later, NEW at \in {"list", "editor", "detail"}, NEW i \in 0..spent'.rows
  PROVE  /\ NewPage(at, i) \in PageOf' /\ NewPage(at, i).at = at /\ NewPage(at, i).id = i
         /\ NewPage(at, i).form = Gone /\ NewPage(at, i).typed = {}
         /\ NewPage(at, i).basis = "loaded"
BY CopyIs, Grows DEF NewPage, PageOf, Basis

LEMMA OrphansAre ==
  ASSUME NEW cs, \A c \in cs : c \in CallOf, NEW c \in Orphans(cs)
  PROVE  /\ ~c.live /\ c.stage = "sent"
         /\ \E d \in cs : d.stage = "sent" /\ c = [d EXCEPT !.live = FALSE]
         /\ c \in CallOf
         /\ \E d \in cs : /\ d.stage = "sent" /\ c.n = d.n /\ c.op = d.op /\ c.id = d.id /\ c.row = d.row
                          /\ c.typed = d.typed /\ c.sel = d.sel /\ c.drop = d.drop
                          /\ c.before = d.before /\ c.others = d.others /\ c.alone = d.alone
                          /\ c.basis = d.basis
BY DEF Orphans, CallOf

(* The calls of a document that is left are still served. *)
LEMMA OrphansKeep ==
  ASSUME EditInv, Later, spent'.rows = spent.rows,
         NEW cs \in SUBSET calls, calls' = Orphans(cs)
  PROVE  Sent' /\ Room'
<1>0. \A c \in cs : c \in CallOf /\ Sound(c)
  BY DEF EditInv, Sent
<1>1. calls' \subseteq CallOf'
  BY <1>0, OrphansAre, Grows
<1>2. ASSUME NEW c \in calls' PROVE Sound(c)'
  BY <1>0, <1>2, OrphansAre DEF Sound, Later
<1>3. Sent'
  BY <1>1, <1>2 DEF Sent
<1> DEFINE S == {d \in cs : d.stage = "sent"}
           P == {d \in cs : d.stage = "sent" /\ d.id = 0}
           f == [d \in P |-> [d EXCEPT !.live = FALSE]]
<1>4. IsFiniteSet(cs) /\ IsFiniteSet(S) /\ IsFiniteSet(P) /\ IsFiniteSet(Posting)
  BY FS_Subset DEF EditInv, Room, Posting
<1>5. Cardinality(P) <= Cardinality(Posting)
  <2>1. P \subseteq Posting
    BY DEF Posting
  <2> QED
    BY <1>4, <2>1, FS_Subset
<1>6. IsFiniteSet(calls')
  <2> DEFINE g == [d \in S |-> [d EXCEPT !.live = FALSE]]
  <2>1. calls' = {g[d] : d \in S}
    BY DEF Orphans
  <2>2. g \in Surjection(S, {g[d] : d \in S})
    BY DEF Surjection
  <2> QED
    BY <1>4, <2>1, <2>2, FS_Surjection
<1>7. IsFiniteSet(Posting') /\ Cardinality(Posting') <= Cardinality(P)
  <2> DEFINE R == {f[d] : d \in P}
  <2>1. Posting' \subseteq R
    BY <1>0 DEF Posting, Orphans, CallOf
  <2>2. f \in Surjection(P, R)
    BY DEF Surjection
  <2>3. IsFiniteSet(R) /\ Cardinality(R) <= Cardinality(P)
    BY <1>4, <2>2, FS_Surjection
  <2>4. IsFiniteSet(Posting') /\ Cardinality(Posting') <= Cardinality(R)
    BY <2>1, <2>3, FS_Subset
  <2>5. Cardinality(Posting') \in Nat /\ Cardinality(R) \in Nat /\ Cardinality(P) \in Nat
    BY <1>4, <2>3, <2>4, FS_CardinalityType
  <2> QED
    BY <2>3, <2>4, <2>5
<1>8. Room'
  <2>1. /\ Cardinality(Posting') \in Nat /\ Cardinality(Posting) \in Nat /\ Cardinality(P) \in Nat
    BY <1>4, <1>7, FS_CardinalityType
  <2>2. spent.rows + Cardinality(Posting) <= spent.calls + 1
    BY DEF EditInv, Room
  <2>3. spent \in Spending /\ spent' \in Spending /\ spent.calls <= spent'.calls
    BY DEF EditInv, Room, Later
  <2> QED
    BY <1>5, <1>6, <1>7, <2>1, <2>2, <2>3, Bounds DEF Room, Spending
<1> QED
  BY <1>3, <1>8

-----------------------------------------------------------------------------
(* From page to page, and what is sent. *)

LEMMA ShowKeeps ==
  ASSUME EditInv, NEW p \in PageOf, p.id \in {0, doc.id}, Show(p),
         p.at = "list" => p.id = 0, p.at = "detail" => p.id # 0
  PROVE  EditInv'
<1>1. /\ Act /\ page' = p /\ cache' = Mount(cache, p)
      /\ UNCHANGED <<section, row, nodesOf, doc, calls, own, kept, told, made>>
  BY DEF Show, history
<1>2. Later /\ spent'.rows = spent.rows
  BY <1>1, Counted
<1>3. Opened'
  BY <1>1, <1>2, Grows DEF EditInv, Opened
<1>4. PICK c : c = cache
  OBVIOUS
<1>5. DOMAIN c = Key /\ \A k \in Key : c[k] \in Entry(DataOf(k)')
  BY <1>2, <1>4, Grows DEF EditInv, Cached
<1>6. /\ c["list"].known => Present(c["list"].data)'
      /\ c["list"].fetch = "answered" => Present(c["list"].got)'
      /\ c["item"].known => c["item"].data # Gone
      /\ \A k \in {"item", "nodes"} : c[k].fetch # "idle" => doc'.id # 0
  <2>1. section' = section /\ doc' = doc
    BY <1>1
  <2> QED
    BY <1>4, <2>1 DEF EditInv, Cached, Present
<1>7. Cached'
  <2>1. p.id \in {0, doc'.id} /\ cache' = Mount(c, p)
    BY <1>1, <1>4
  <2> QED
    BY <1>5, <1>6, <2>1, MountKeeps
<1> QED
  BY <1>1, <1>2, <1>3, <1>7, StoredKept, SentKept, RoomKept, ToldKept DEF EditInv

LEMMA FollowsKeeps ==
  ASSUME EditInv, Follows \/ Back
  PROVE  EditInv'
<1>0. /\ doc \in PageOf /\ doc.id \in 0..spent.rows /\ doc.at \in {"list", "editor", "detail"}
      /\ 0 \in 0..spent.rows /\ Used \subseteq 0..spent.rows /\ 0 \notin Used /\ page.id \in {0, doc.id}
  BY IdsUsed DEF EditInv, Opened, PageOf, Used
<1>1. ASSUME NEW at \in {"editor", "detail"}, NEW i \in Used, Href(at, i) PROVE EditInv'
  <2>1. /\ Act /\ Load(NewPage(at, i)) /\ calls' = Orphans(calls)
        /\ UNCHANGED <<section, row, nodesOf, own, kept, told, made>>
    BY <1>1 DEF Href, history
  <2>2. Later /\ spent'.rows = spent.rows
    BY <2>1, Counted
  <2>3. i \in 0..spent'.rows /\ i # 0
    BY <1>0, <2>2
  <2>4. NewPage(at, i) \in PageOf' /\ NewPage(at, i).at = at /\ NewPage(at, i).id = i
    BY <2>2, <2>3, NewPageIs
  <2>5. Opened' /\ Cached'
    BY <2>1, <2>2, <2>3, <2>4, LoadKeeps
  <2> QED
    BY <2>1, <2>2, <2>5, StoredKept, OrphansKeep, ToldKept DEF EditInv
<1>2. ASSUME NEW at \in {"list", "editor"}, Link(at, 0) PROVE EditInv'
  <2>1. NewPage(at, 0) \in PageOf /\ NewPage(at, 0).at = at /\ NewPage(at, 0).id = 0
    BY <1>0, CopyIs DEF NewPage, PageOf, Basis
  <2> QED
    BY <1>2, <2>1, ShowKeeps DEF Link
<1>3. CASE Back
  <2> DEFINE p == [NewPage(doc.at, doc.id) EXCEPT !.basis = "cached"]
  <2>1. p \in PageOf /\ p.at = doc.at /\ p.id = doc.id
    BY <1>0, CopyIs DEF NewPage, PageOf, Basis
  <2>2. Show(p)
    BY <1>3 DEF Back
  <2>3. doc.at = "list" => doc.id = 0
    BY DEF EditInv, Opened
  <2>4. doc.id # 0
    BY <1>3 DEF Back
  <2> HIDE DEF p
  <2> QED
    BY <2>1, <2>2, <2>3, <2>4, ShowKeeps
<1> QED
  BY <1>1, <1>2, <1>3 DEF Follows

(* A new call, and one more that may create a row. *)
LEMMA CallIs ==
  ASSUME EditInv, NEW op, NEW i, NEW r, NEW typed, NEW sel, NEW drop,
         Asks(op, i, r, typed, sel, drop), Request(op, i, r, typed, sel, drop)
  PROVE  /\ Later /\ spent'.rows = spent.rows /\ spent'.calls = spent.calls + 1
         /\ spent'.others = spent.others
         /\ calls' = calls \cup {Call(op, i, r, typed, sel, drop)}
         /\ UNCHANGED <<section, row, nodesOf, doc, page, cache, own, kept, told, made>>
         /\ Call(op, i, r, typed, sel, drop) \in CallOf' /\ Sound(Call(op, i, r, typed, sel, drop))
<1>1. /\ spent.acts < MaxActs /\ spent.calls < MaxCalls
      /\ calls' = calls \cup {Call(op, i, r, typed, sel, drop)}
      /\ spent' = [spent EXCEPT !.acts = @ + 1, !.calls = @ + 1]
      /\ UNCHANGED <<section, row, nodesOf, doc, page, cache, own, kept, told, made>>
  BY DEF Request, history
<1>2. spent \in Spending /\ told \in Nat
  BY DEF EditInv, Room, Told
<1>3. Later /\ spent'.rows = spent.rows /\ spent'.calls = spent.calls + 1
      /\ spent'.others = spent.others
  <2>1. /\ spent.acts \in Nat /\ spent.calls \in Nat /\ spent.rows \in Nat /\ spent.others \in Nat
        /\ spent.acts + 1 \in 0..MaxActs /\ spent.calls + 1 \in 0..MaxCalls
    BY <1>1, <1>2, Bounds DEF Spending
  <2>2. spent' \in Spending /\ spent'.rows = spent.rows /\ spent'.calls = spent.calls + 1
        /\ spent'.others = spent.others
    BY <1>1, <1>2, <2>1 DEF Spending
  <2> QED
    BY <1>1, <1>2, <2>1, <2>2 DEF Later
<1> DEFINE c == Call(op, i, r, typed, sel, drop)
<1>4. /\ c.n = spent.calls + 1 /\ c.op = op /\ c.id = i /\ c.row = r /\ c.typed = typed /\ c.sel = sel
      /\ c.drop = drop /\ c.stage = "sent" /\ c.live = TRUE
  BY DEF Call
<1>5. c \in CallOf'
  <2>1. op \in Ops /\ i \in 0..spent'.rows /\ r \in Copy' /\ typed \in SUBSET Field'
        /\ sel \in SUBSET Hosts /\ drop \in SUBSET Hosts
    BY <1>3, AsksTyped, Grows
  <2>2. spent.calls + 1 \in 1..spent'.calls /\ told \in 0..told' /\ spent.others \in 0..spent'.others
    BY <1>1, <1>2, <1>3 DEF Spending
  <2>3. page.basis \in Basis /\ (calls = {}) \in BOOLEAN
    BY DEF EditInv, Opened, PageOf
  <2> QED
    BY <2>1, <2>2, <2>3 DEF Call, CallOf
<1>6. Sound(c)
  BY <1>4, AsksTyped DEF Sound
<1> QED
  BY <1>1, <1>3, <1>5, <1>6

LEMMA RequestKeeps ==
  ASSUME EditInv, Requests
  PROVE  EditInv'
<1>1. PICK op \in Ops, i \in Nat, r \in Copy, typed \in SUBSET Field, sel, drop \in SUBSET Hosts :
        Asks(op, i, r, typed, sel, drop) /\ Request(op, i, r, typed, sel, drop)
  BY DEF Requests
<1>0. PICK c : c = Call(op, i, r, typed, sel, drop)
  OBVIOUS
<1>2. /\ Later /\ spent'.rows = spent.rows /\ spent'.calls = spent.calls + 1
      /\ calls' = calls \cup {c} /\ c \in CallOf' /\ Sound(c)
      /\ UNCHANGED <<section, row, nodesOf, doc, page, cache, own, kept, told, made>>
  BY <1>0, <1>1, CallIs
<1>3. Sent'
  <2>1. \A d \in calls : Sound(d)' /\ d \in CallOf'
    BY <1>2, Grows DEF Sent, EditInv, Sound, Later
  <2>2. Sound(c)'
    BY <1>2 DEF Sound
  <2> QED
    BY <1>2, <2>1, <2>2 DEF Sent
<1>4. Room'
  <2>1. IsFiniteSet(calls') /\ IsFiniteSet(Posting) /\ Posting' \subseteq Posting \cup {c}
    BY <1>2, FS_Subset, FS_AddElement DEF EditInv, Room, Posting
  <2>2. IsFiniteSet(Posting \cup {c}) /\ Cardinality(Posting \cup {c}) <= Cardinality(Posting) + 1
    <3>1. IsFiniteSet(Posting) /\ Cardinality(Posting) \in Nat
      BY <2>1, FS_CardinalityType
    <3>2. /\ IsFiniteSet(Posting \cup {c})
          /\ Cardinality(Posting \cup {c}) =
               IF c \in Posting THEN Cardinality(Posting) ELSE Cardinality(Posting) + 1
      BY <3>1, FS_AddElement
    <3> QED
      BY <3>1, <3>2
  <2>3. IsFiniteSet(Posting') /\ Cardinality(Posting') <= Cardinality(Posting \cup {c})
    BY <2>1, <2>2, FS_Subset
  <2>4. /\ Cardinality(Posting') \in Nat /\ Cardinality(Posting) \in Nat
        /\ Cardinality(Posting \cup {c}) \in Nat
    BY <2>1, <2>2, <2>3, FS_CardinalityType
  <2>5. spent.rows + Cardinality(Posting) <= spent.calls + 1
    BY DEF EditInv, Room
  <2>6. spent \in Spending /\ spent' \in Spending
    BY <1>2 DEF EditInv, Room, Later
  <2> QED
    BY <1>2, <2>1, <2>2, <2>3, <2>4, <2>5, <2>6, Bounds DEF Room, Spending
<1> QED
  BY <1>2, <1>3, <1>4, StoredKept, OpenedKept, CachedKept, ToldKept DEF EditInv

-----------------------------------------------------------------------------
(* GETs. *)

LEMMA GetsKeep ==
  ASSUME EditInv, NEW k \in Key, HandleGet(k) \/ Land(k) \/ GetFails(k) \/ Refetch(k)
  PROVE  EditInv'
<1>0. /\ DOMAIN cache = Key /\ \A j \in Key : cache[j] \in Entry(DataOf(j))
      /\ Key = {"list", "item", "nodes"}
      /\ cache[k] \in Entry(DataOf(k))
      /\ cache["list"].known => Present(cache["list"].data)
      /\ cache["list"].fetch = "answered" => Present(cache["list"].got)
      /\ cache["item"].known => cache["item"].data # Gone
      /\ \A j \in {"item", "nodes"} : cache[j].fetch # "idle" => doc.id # 0
  BY DEF EditInv, Cached, Key
<1>1. ASSUME NEW e \in Entry(DataOf(k)), cache' = [cache EXCEPT ![k] = e],
             UNCHANGED spent \/ Act \/ Event,
             UNCHANGED <<section, row, nodesOf, doc, page, calls, history>>,
             k = "list" /\ e.known => Present(e.data),
             k = "list" /\ e.fetch = "answered" => Present(e.got),
             k = "item" /\ e.known => e.data # Gone,
             k # "list" /\ e.fetch # "idle" => doc.id # 0
      PROVE  EditInv'
  <2>1. Later
    BY <1>1, Counted DEF history
  <2>2. /\ DOMAIN cache' = Key /\ cache'[k] = e
        /\ \A j \in Key : j # k => cache'[j] = cache[j]
    BY <1>0, <1>1
  <2>3. \A j \in Key : cache'[j] \in Entry(DataOf(j)')
    BY <1>0, <2>1, <2>2, Grows
  <2>4. section' = section /\ doc' = doc
    BY <1>1
  <2>5. Cached'
    BY <1>0, <1>1, <2>2, <2>3, <2>4 DEF Cached, Present
  <2> QED
    BY <1>1, <2>5, CacheChanges
<1>2. CASE HandleGet(k)
  <2>1. /\ cache[k].fetch = "asked"
        /\ cache' = [cache EXCEPT ![k] = [cache[k] EXCEPT !.fetch = "answered", !.got = HubReads(k)]]
        /\ UNCHANGED <<section, row, nodesOf, doc, page, calls, spent, own, history>>
    BY <1>2 DEF HandleGet, history
  <2>2. HubReads(k) \in DataOf(k)
    <3>1. row \in Listing /\ nodesOf \in [Id -> SUBSET Hosts]
      BY DEF EditInv, Stored
    <3>2. k # "list" => doc.id \in Id
      BY <1>0, <2>1, IdsUsed DEF EditInv, Opened, PageOf, Used
    <3> QED
      BY <1>0, <3>1, <3>2 DEF HubReads, DataOf, Listing
  <2> DEFINE e == [cache[k] EXCEPT !.fetch = "answered", !.got = HubReads(k)]
  <2>3. /\ e \in Entry(DataOf(k)) /\ e.known = cache[k].known /\ e.data = cache[k].data
        /\ e.got = HubReads(k) /\ e.fetch = "answered"
    BY <1>0, <2>2 DEF Entry
  <2>4. k = "list" => Present(e.got)
    BY <2>3 DEF EditInv, Stored, HubReads
  <2> HIDE DEF e
  <2>5. cache' = [cache EXCEPT ![k] = e]
    BY <2>1 DEF e
  <2> QED
    BY <1>0, <1>1, <2>1, <2>3, <2>4, <2>5
<1>3. CASE Land(k)
  <2>0. cache[k].fetch = "answered" /\ UNCHANGED <<section, row, nodesOf, doc, page, calls, spent, history>>
    BY <1>3 DEF Land, history
  <2>1. CASE k = "item" /\ cache[k].got = Gone
    <3> DEFINE e == [cache[k] EXCEPT !.fetch = "idle", !.error = TRUE]
    <3>1. /\ e \in Entry(DataOf(k)) /\ e.known = cache[k].known /\ e.data = cache[k].data
          /\ e.fetch = "idle"
      BY <1>0 DEF Entry
    <3>2. cache' = [cache EXCEPT ![k] = e]
      BY <1>3, <2>1 DEF Land
    <3> HIDE DEF e
    <3> QED
      BY <1>0, <1>1, <2>0, <2>1, <3>1, <3>2
  <2>2. CASE ~(k = "item" /\ cache[k].got = Gone)
    <3> DEFINE e == [Unloaded(cache[k].got) EXCEPT !.known = TRUE, !.missed = cache[k].missed]
    <3>1. /\ e \in Entry(DataOf(k)) /\ e.data = cache[k].got /\ e.fetch = "idle"
      BY <1>0 DEF Entry, Unloaded
    <3>2. cache' = [cache EXCEPT ![k] = e]
      BY <1>3, <2>2 DEF Land
    <3> HIDE DEF e
    <3> QED
      BY <1>0, <1>1, <2>0, <2>2, <3>1, <3>2
  <2> QED
    BY <2>1, <2>2
<1>4. CASE GetFails(k)
  <2> DEFINE e == [cache[k] EXCEPT !.fetch = "idle", !.error = TRUE]
  <2>1. /\ e \in Entry(DataOf(k)) /\ e.known = cache[k].known /\ e.data = cache[k].data
        /\ e.fetch = "idle"
    BY <1>0 DEF Entry
  <2>2. cache' = [cache EXCEPT ![k] = e] /\ Event
        /\ UNCHANGED <<section, row, nodesOf, doc, page, calls, history>>
    BY <1>4 DEF GetFails, history
  <2> HIDE DEF e
  <2> QED
    BY <1>0, <1>1, <2>1, <2>2
<1>5. CASE Refetch(k)
  <2> DEFINE e == Ask(cache[k])
  <2>1. /\ e \in Entry(DataOf(k)) /\ e.known = cache[k].known /\ e.data = cache[k].data
        /\ e.fetch = "asked"
    BY <1>0, EntryIs
  <2>2. cache' = [cache EXCEPT ![k] = e] /\ Act /\ k \in Active(page)
        /\ UNCHANGED <<section, row, nodesOf, doc, page, calls, history>>
    BY <1>5 DEF Refetch, history
  <2>3. k # "list" => doc.id # 0
    BY <1>0, <2>2, ActiveIs DEF EditInv, Opened
  <2> HIDE DEF e
  <2> QED
    BY <1>0, <1>1, <2>1, <2>2, <2>3
<1> QED
  BY <1>2, <1>3, <1>4, <1>5

-----------------------------------------------------------------------------
(* The Hub serves a call. *)

(* The answer to a served call replaces it. *)
LEMMA ServedIs ==
  ASSUME NEW c \in calls, NEW i, Served(c, i), c \in CallOf
  PROVE  \A d \in calls' :
           \/ d \in calls /\ d # c
           \/ /\ c.live /\ d.stage = "done" /\ d.id = i
              /\ d.n = c.n /\ d.op = c.op /\ d.row = c.row /\ d.typed = c.typed /\ d.sel = c.sel
              /\ d.drop = c.drop /\ d.before = c.before /\ d.others = c.others
              /\ d.alone = c.alone /\ d.basis = c.basis /\ d.live = c.live
BY DEF Served, CallOf

(* A call that was served has the id of its row, which may be new. *)
LEMMA ServedKeeps ==
  ASSUME EditInv, Later, spent'.calls = spent.calls,
         NEW c \in calls, c.stage = "sent", NEW i \in 1..spent'.rows, Served(c, i),
         c.op \in {"clone", "create", "upload"} => i # 1,
         \/ spent'.rows = spent.rows
         \/ c.id = 0 /\ spent'.rows = spent.rows + 1
  PROVE  Sent' /\ Room'
<1>0. /\ \A d \in calls : d \in CallOf /\ Sound(d) /\ d \in CallOf'
      /\ section' = section /\ spent'.rows \in Nat /\ spent.rows \in Nat
  BY Grows DEF EditInv, Sent, Later, Spending, Room
<1> DEFINE done == [c EXCEPT !.stage = "done", !.id = i]
<1>1. done \in CallOf' /\ calls' \subseteq (calls \ {c}) \cup {done}
  <2>1. i \in 0..spent'.rows /\ c \in CallOf'
    BY <1>0
  <2>2. done \in CallOf'
    BY <2>1 DEF CallOf
  <2>3. calls' \subseteq (calls \ {c}) \cup {done}
    BY DEF Served
  <2>4. calls' \subseteq CallOf'
    BY <1>0, <2>2, <2>3
  <2> QED
    BY <2>2, <2>3, <2>4
<1> HIDE DEF done
<1>2. \A d \in calls' : Sound(d)'
  <2>1. Sound(c) /\ c \in CallOf /\ i # 0
    BY <1>0
  <2>2. ASSUME NEW d \in calls, d # c PROVE Sound(d)'
    BY <1>0, <2>2 DEF Sound
  <2>3. ASSUME NEW d, d.stage = "done", d.id = i, d.op = c.op, d.row = c.row, d.typed = c.typed,
               d.sel = c.sel, d.drop = c.drop
        PROVE  Sound(d)'
    BY <1>0, <2>1, <2>3 DEF Sound
  <2>4. ASSUME NEW d \in calls' PROVE Sound(d)'
    <3>1. CASE d \in calls /\ d # c
      BY <2>2, <3>1
    <3>2. CASE ~(d \in calls /\ d # c)
      <4>1. /\ d.stage = "done" /\ d.id = i /\ d.op = c.op /\ d.row = c.row /\ d.typed = c.typed
            /\ d.sel = c.sel /\ d.drop = c.drop
        BY <2>1, <2>4, <3>2, ServedIs
      <4> QED
        BY <2>3, <4>1
    <3> QED
      BY <3>1, <3>2
  <2> QED
    BY <2>4
<1>3. Sent'
  BY <1>0, <1>1, <1>2 DEF Sent
<1>4. IsFiniteSet(calls) /\ IsFiniteSet(calls')
  <2>1. IsFiniteSet(calls \ {c})
    BY FS_Subset DEF EditInv, Room
  <2>2. IsFiniteSet((calls \ {c}) \cup {done})
    BY <2>1, FS_AddElement
  <2> QED
    BY <1>1, <2>2, FS_Subset DEF EditInv, Room
<1>5. IsFiniteSet(Posting) /\ IsFiniteSet(Posting') /\ Posting' \subseteq Posting \ {c}
  <2>1. Posting' \subseteq Posting \ {c}
    BY <1>0, ServedIs DEF Posting
  <2> QED
    BY <1>4, <2>1, FS_Subset DEF Posting
<1>6. /\ Cardinality(Posting) \in Nat /\ Cardinality(Posting') \in Nat
      /\ IF c \in Posting THEN Cardinality(Posting') <= Cardinality(Posting) - 1
                          ELSE Cardinality(Posting') <= Cardinality(Posting)
  <2>1. /\ IsFiniteSet(Posting \ {c}) /\ Cardinality(Posting \ {c}) \in Nat
        /\ Cardinality(Posting) \in Nat /\ Cardinality(Posting') \in Nat
    BY <1>5, FS_Subset, FS_CardinalityType
  <2>2. Cardinality(Posting') <= Cardinality(Posting \ {c})
    BY <1>5, <2>1, FS_Subset
  <2>3. Cardinality(Posting \ {c}) = IF c \in Posting THEN Cardinality(Posting) - 1
                                                      ELSE Cardinality(Posting)
    BY <1>5, FS_RemoveElement
  <2> QED
    BY <2>1, <2>2, <2>3
<1>7. spent.rows + Cardinality(Posting) <= spent.calls + 1 /\ spent \in Spending /\ spent' \in Spending
  BY DEF EditInv, Room, Later
<1>8. c.id = 0 => c \in Posting
  BY DEF Posting
<1>9. Room'
  BY <1>4, <1>6, <1>7, <1>8, Bounds DEF Room, Spending
<1> QED
  BY <1>3, <1>9

(* A row can be created only as long as there is an id for it. *)
LEMMA RoomForRow ==
  ASSUME EditInv, NEW c \in calls, c.stage = "sent", c.id = 0
  PROVE  spent.rows + 1 \in Id /\ spent.rows \in Nat \ {0}
<1>1. c \in Posting /\ IsFiniteSet(Posting)
  BY FS_Subset DEF EditInv, Room, Posting
<1>2. Cardinality(Posting) \in Nat /\ Cardinality(Posting) # 0
  BY <1>1, FS_CardinalityType, FS_EmptySet
<1>3. spent.rows + Cardinality(Posting) <= spent.calls + 1 /\ spent.calls \in 0..MaxCalls
      /\ spent.rows \in Nat \ {0}
  BY DEF EditInv, Room, Spending
<1> QED
  BY <1>2, <1>3, Bounds DEF Id

(* A row of the Hub's is written. *)
LEMMA RowWritten ==
  ASSUME EditInv, Later, NEW i \in Used', i \in Id, NEW r \in Copy, section = "settings" => r # Gone,
         row' = [row EXCEPT ![i] = r]
  PROVE  row' \in Listing' /\ (section' = "settings" => row'[1] # Gone)
<1>1. row \in [Id -> Copy] /\ \A j \in Id : row[j] # Gone => j \in Used
  BY DEF EditInv, Stored, Listing
<1>2. row' \in [Id -> Copy] /\ \A j \in Id : row'[j] # Gone => j \in Used'
  BY <1>1, Grows
<1>3. row' \in Listing'
  BY <1>2, Grows DEF Listing
<1>4. section' = "settings" => row'[1] # Gone
  BY <1>1, Bounds DEF EditInv, Stored, Present, Later
<1> QED
  BY <1>3, <1>4

(* What the operator was told stays true of what is kept. *)
LEMMA ToldKeeps ==
  ASSUME EditInv, Later, Keep, UNCHANGED <<own, told, made>>
  PROVE  Told'
BY Grows DEF EditInv, Told, Keep

(* Each handler of the Hub stores a whole row, or none. *)
LEMMA HandleKeeps ==
  ASSUME EditInv, Handle
  PROVE  EditInv'
<1>0. /\ Keep /\ UNCHANGED <<section, doc, page, cache, own, told, made>>
      /\ spent \in Spending /\ told \in Nat /\ row \in [Id -> Copy] /\ nodesOf \in [Id -> SUBSET Hosts]
      /\ spent.rows \in Nat
  BY DEF Handle, EditInv, Room, Told, Stored, Listing, Spending
<1>1. PICK c \in calls : \/ HandlePut(c) \/ HandlePutRole(c) \/ HandlePost(c)
                         \/ HandleDelete(c) \/ HandleAssign(c) \/ HandleDeploy(c)
  BY DEF Handle
<1>2. c \in CallOf /\ Sound(c) /\ c.stage = "sent" /\ c.id \in 0..spent.rows /\ c.row \in Copy
  BY <1>1 DEF EditInv, Sent, CallOf, HandlePut, HandlePutRole, HandlePost, HandleDelete,
              HandleAssign, HandleDeploy
<1>3. c.id # 0 => c.id \in Used /\ c.id \in Id /\ c.id \in 1..spent.rows
  BY <1>2, IdsUsed DEF Used
<1>4. ASSUME UNCHANGED spent PROVE Later /\ Used' = Used
  BY <1>0, <1>4 DEF Later, Spending, Used
<1>5. ASSUME Later, Stored', Sent', Room' PROVE EditInv'
  BY <1>0, <1>5, OpenedKept, CachedKept, ToldKeeps DEF EditInv
<1>6. ASSUME UNCHANGED spent, NEW r \in Copy, section = "settings" => r # Gone, c.id # 0,
             row' = [row EXCEPT ![c.id] = r], UNCHANGED nodesOf
      PROVE  Later /\ Stored'
  <2>1. Later /\ c.id \in Used' /\ c.id \in Id
    BY <1>3, <1>4, <1>6
  <2>2. row' \in Listing' /\ (section' = "settings" => row'[1] # Gone)
    BY <1>6, <2>1, RowWritten
  <2> QED
    BY <1>0, <1>6, <2>1, <2>2 DEF Stored, EditInv, Present
<1>7. ASSUME c.op \in {"toggle", "save", "role", "delete", "assign", "unassign"}, c.id # 0,
             UNCHANGED spent, Served(c, c.id)
      PROVE  Sent' /\ Room'
  <2>1. Later /\ spent'.rows = spent.rows /\ spent'.calls = spent.calls /\ c.id \in 1..spent'.rows
    BY <1>3, <1>4, <1>7
  <2>2. c.op \in {"clone", "create", "upload"} => c.id # 1
    BY <1>7
  <2> QED
    BY <1>2, <1>7, <2>1, <2>2, ServedKeeps
<1>8. CASE HandlePut(c)
  <2>1. c.row # Gone /\ c.id # 0 /\ UNCHANGED <<nodesOf, spent>> /\ c.op \in {"toggle", "save"}
    BY <1>2, <1>8 DEF HandlePut, Sound
  <2>2. CASE row' = row /\ Failed(c)
    <3>1. Later /\ calls' \subseteq calls
      BY <1>4, <2>1, <2>2 DEF Failed
    <3> QED
      BY <1>5, <2>1, <2>2, <3>1, StoredKept, SentKept, RoomKept
  <2>3. CASE row' = [row EXCEPT ![c.id] = c.row] /\ Served(c, c.id)
    BY <1>2, <1>5, <1>6, <1>7, <2>1, <2>3
  <2> QED
    BY <1>8, <2>2, <2>3 DEF HandlePut
<1>9. CASE HandlePutRole(c)
  <2>1. /\ c.row # Gone /\ c.id # 0 /\ UNCHANGED <<nodesOf, spent>> /\ c.op = "role" /\ Served(c, c.id)
        /\ section # "settings" /\ section \in AllSections
    BY <1>2, <1>9 DEF HandlePutRole, Sound, EditInv, Stored
  <2>2. Later /\ Sent' /\ Room'
    BY <1>4, <1>7, <2>1
  <2>3. CASE row[c.id] = Gone
    <3>1. row' = row
      BY <1>9, <2>3 DEF HandlePutRole
    <3> QED
      BY <1>5, <2>1, <2>2, <3>1, StoredKept
  <2>4. CASE row[c.id] # Gone
    <3>1. row[c.id] \in Full /\ c.row["on"] \in {0, 1}
      BY <1>0, <1>2, <1>3, <2>1, <2>4, CopyIs, FullIs
    <3>2. [row[c.id] EXCEPT !["on"] = c.row["on"]] \in Copy
      BY <2>1, <3>1, FieldWritten, FullIs
    <3>3. row' = [row EXCEPT ![c.id] = [row[c.id] EXCEPT !["on"] = c.row["on"]]]
      BY <1>9, <2>4 DEF HandlePutRole
    <3> QED
      BY <1>5, <1>6, <2>1, <2>2, <3>2, <3>3
  <2> QED
    BY <2>3, <2>4
<1>10. CASE HandlePost(c)
  <2> DEFINE i == spent.rows + 1
  <2>1. /\ row' = [row EXCEPT ![i] = c.row] /\ Served(c, i) /\ spent' = [spent EXCEPT !.rows = i]
        /\ UNCHANGED nodesOf /\ c.id = 0 /\ c.op \in {"save", "clone", "create", "upload"}
    BY <1>10 DEF HandlePost
  <2>2. i \in Id /\ i \in Nat /\ i # 1 /\ i # 0 /\ spent.rows \in Nat \ {0}
    BY <1>2, <2>1, RoomForRow
  <2>3. spent' \in Spending /\ spent'.rows = i /\ spent'.calls = spent.calls
        /\ spent'.others = spent.others
    BY <1>0, <2>1, <2>2 DEF Spending
  <2>4. Later
    BY <1>0, <2>2, <2>3 DEF Later, Spending
  <2>5. i \in Used' /\ i \in 1..spent'.rows
    BY <2>2, <2>3 DEF Used
  <2> HIDE DEF i
  <2>6. section # "settings"
    BY <1>2, <2>1 DEF Sound
  <2>7. row' \in Listing' /\ (section' = "settings" => row'[1] # Gone)
    BY <1>2, <2>1, <2>2, <2>4, <2>5, <2>6, RowWritten
  <2>8. Stored'
    BY <1>0, <2>1, <2>7 DEF Stored, EditInv, Present
  <2>9. Sent' /\ Room'
    BY <1>2, <2>1, <2>2, <2>3, <2>4, <2>5, ServedKeeps DEF i
  <2> QED
    BY <1>5, <2>4, <2>8, <2>9
<1>11. CASE HandleDelete(c)
  <2>1. /\ c.id # 0 /\ section # "settings" /\ c.op = "delete" /\ row' = [row EXCEPT ![c.id] = Gone]
        /\ Served(c, c.id) /\ UNCHANGED <<nodesOf, spent>>
    BY <1>2, <1>11 DEF HandleDelete, Sound
  <2> QED
    BY <1>5, <1>6, <1>7, <2>1, CopyIs
<1>12. CASE HandleAssign(c)
  <2>1. /\ c.id # 0 /\ c.op \in {"assign", "unassign"} /\ Served(c, c.id) /\ UNCHANGED <<row, spent>>
        /\ nodesOf' = [nodesOf EXCEPT ![c.id] = IF c.op = "assign" THEN @ \cup c.sel ELSE @ \ c.drop]
        /\ c.sel \subseteq Hosts
    BY <1>2, <1>12 DEF HandleAssign, Sound, CallOf
  <2>2. Later /\ Sent' /\ Room'
    BY <1>4, <1>7, <2>1
  <2>3. nodesOf' \in [Id -> SUBSET Hosts]
    BY <1>0, <1>3, <2>1
  <2>4. row' \in Listing' /\ row' = row
    BY <2>1, <2>2, Grows DEF EditInv, Stored
  <2>5. Stored'
    BY <1>0, <2>3, <2>4 DEF Stored, EditInv, Present
  <2> QED
    BY <1>5, <2>2, <2>5
<1>13. CASE HandleDeploy(c)
  <2>1. UNCHANGED <<row, nodesOf, spent>> /\ calls' \subseteq calls
    BY <1>13 DEF HandleDeploy
  <2> QED
    BY <1>4, <1>5, <2>1, StoredKept, SentKept, RoomKept
<1> QED
  BY <1>1, <1>8, <1>9, <1>10, <1>11, <1>12, <1>13

LEMMA TroubleKeeps ==
  ASSUME EditInv, CallFails \/ OtherOperator
  PROVE  EditInv'
<1>1. CASE CallFails
  <2>1. /\ Event /\ calls' \subseteq calls
        /\ UNCHANGED <<section, row, nodesOf, doc, page, cache, own, kept, told, made>>
    BY <1>1 DEF CallFails, Failed, history
  <2>2. Later /\ spent'.rows = spent.rows
    BY <2>1, Counted
  <2> QED
    BY <2>1, <2>2, StoredKept, OpenedKept, CachedKept, SentKept, RoomKept, ToldKept DEF EditInv
<1>2. CASE OtherOperator
  <2>0. /\ row \in [Id -> Copy] /\ nodesOf \in [Id -> SUBSET Hosts] /\ spent \in Spending /\ told \in Nat
        /\ 1 \in Id /\ 1 \in Used /\ section \in AllSections
    BY Bounds, IdsUsed DEF EditInv, Stored, Listing, Room, Told
  <2>1. /\ spent' = [spent EXCEPT !.events = @ + 1, !.others = @ + 1]
        /\ Keep /\ UNCHANGED <<section, doc, page, cache, calls, own, told, made>>
    BY <1>2 DEF OtherOperator
  <2>2. spent' \in Spending /\ spent'.rows = spent.rows /\ spent'.calls = spent.calls
        /\ spent'.others = spent.others + 1
    <3>1. /\ spent.events \in Nat /\ spent.others \in Nat
          /\ spent.events + 1 \in Nat /\ spent.others + 1 \in Nat
      BY <2>0 DEF Spending
    <3> QED
      BY <2>0, <2>1, <3>1 DEF Spending
  <2>3. Later
    BY <2>0, <2>1, <2>2 DEF Later, Spending
  <2>4. 1 \in Used'
    BY <2>0, <2>2 DEF Used
  <2>5. ASSUME row[1] # Gone, row' = [row EXCEPT ![1]["on"] = 1 - @], UNCHANGED nodesOf
        PROVE  Stored'
    <3>1. [row[1] EXCEPT !["on"] = 1 - @] \in Full
      BY <2>0, <2>5, CopyIs, FieldWritten
    <3>2. row' = [row EXCEPT ![1] = [row[1] EXCEPT !["on"] = 1 - @]]
      BY <2>5
    <3>3. row' \in Listing' /\ (section' = "settings" => row'[1] # Gone)
      BY <2>0, <2>3, <2>4, <3>1, <3>2, FullIs, RowWritten
    <3> QED
      BY <2>0, <2>1, <2>5, <3>3 DEF Stored, EditInv, Present
  <2>6. ASSUME section # "settings", row' = [row EXCEPT ![1] = Gone], UNCHANGED nodesOf
        PROVE  Stored'
    <3>1. row' \in Listing' /\ (section' = "settings" => row'[1] # Gone)
      BY <2>0, <2>3, <2>4, <2>6, CopyIs, RowWritten
    <3> QED
      BY <2>0, <2>1, <2>6, <3>1 DEF Stored, EditInv, Present
  <2>7. ASSUME NEW h \in Hosts, UNCHANGED row,
               nodesOf' = [nodesOf EXCEPT ![1] = IF h \in @ THEN @ \ {h} ELSE @ \cup {h}]
        PROVE  Stored'
    <3>1. nodesOf' \in [Id -> SUBSET Hosts]
      BY <2>0, <2>7
    <3>2. row' \in Listing'
      BY <2>3, <2>7, Grows DEF EditInv, Stored
    <3> QED
      BY <2>1, <2>7, <3>1, <3>2 DEF Stored, EditInv, Present
  <2>8. Stored'
    BY <1>2, <2>5, <2>6, <2>7 DEF OtherOperator
  <2>9. Told'
    BY <2>1, <2>3, ToldKeeps
  <2> QED
    BY <2>1, <2>2, <2>3, <2>8, <2>9, OpenedKept, CachedKept, SentKept, RoomKept DEF EditInv
<1> QED
  BY <1>1, <1>2

-----------------------------------------------------------------------------
(* Answers. *)

LEMMA AcknowledgeKeeps ==
  ASSUME EditInv, NEW c \in calls, c.stage = "done", Acknowledge(c), UNCHANGED <<section, row, spent>>
  PROVE  Later /\ Told' /\ c.id \in Used /\ c.id # 0
<1>1. /\ c \in CallOf /\ c.id # 0 /\ c.id \in 0..spent.rows /\ told \in Nat /\ spent \in Spending
      /\ spent.rows \in Nat /\ spent.calls \in Nat /\ spent.others \in Nat
  BY Bounds DEF EditInv, Sent, Sound, CallOf, Told, Room, Spending
<1>2. told' \in {told, told + 1} /\ c.id \in Used /\ Used' = Used
  BY <1>1 DEF Acknowledge, Used
<1>3. Later
  BY <1>1, <1>2 DEF Later
<1>4. made' \subseteq Used' \ {1}
  BY <1>2 DEF EditInv, Told, Acknowledge
<1>5. kept' \subseteq DOMAIN own' /\ \A f \in kept' : row'[1] # Gone /\ row'[1][f] = own'[f]
  <2>1. CASE c.id # 1
    BY <2>1 DEF EditInv, Told, Acknowledge
  <2>2. CASE c.id = 1 /\ (c.op = "delete" \/ row[1] = Gone)
    BY <2>2 DEF Acknowledge
  <2>3. CASE c.id = 1 /\ c.op # "delete" /\ row[1] # Gone
    <3>1. DOMAIN own' = DOMAIN own \cup c.typed /\ kept' = {f \in kept \cup c.typed : row[1][f] = own'[f]}
      BY <2>3 DEF Acknowledge
    <3> QED
      BY <2>3, <3>1 DEF EditInv, Told
  <2> QED
    BY <2>1, <2>2, <2>3
<1>6. Told'
  BY <1>1, <1>2, <1>4, <1>5 DEF Told
<1> QED
  BY <1>1, <1>2, <1>3, <1>6

(* An invalidated entry, asked for again or not. *)
Stale(e) == [e EXCEPT !.stale = TRUE]
Marked(e) == [e EXCEPT !.stale = TRUE, !.missed = @ \/ e.fetch = "answered"]

LEMMA InvalidateIs ==
  ASSUME NEW p, NEW c, DOMAIN c = Key
  PROVE  /\ DOMAIN Invalidate(c, p) = Key
         /\ \A k \in Key : k # "list" => Invalidate(c, p)[k] = c[k]
         /\ "list" \in Active(p) /\ (c["list"].known \/ c["list"].fetch = "idle")
            => Invalidate(c, p)["list"] = Ask(Stale(c["list"]))
         /\ ~("list" \in Active(p) /\ (c["list"].known \/ c["list"].fetch = "idle"))
            => Invalidate(c, p)["list"] = Marked(c["list"])
<1>1. "list" \in Key
  BY DEF Key
<1> QED
  BY <1>1 DEF Invalidate, Stale, Marked

LEMMA StaleIs ==
  ASSUME NEW D, NEW e \in Entry(D)
  PROVE  /\ LET a == Ask(Stale(e)) IN
              /\ a \in Entry(D) /\ a.known = e.known /\ a.data = e.data /\ a.fetch = "asked"
              /\ a.stale /\ ~a.missed /\ a.error = e.error
         /\ LET m == Marked(e) IN
              /\ m \in Entry(D) /\ m.known = e.known /\ m.data = e.data /\ m.fetch = e.fetch
              /\ m.got = e.got /\ m.stale /\ m.error = e.error
              /\ (m.missed <=> e.missed \/ e.fetch = "answered")
<1> DEFINE s == [e EXCEPT !.stale = TRUE]
           b == e.missed \/ e.fetch = "answered"
           m == [e EXCEPT !.stale = TRUE, !.missed = b]
<1>1. /\ s \in Entry(D) /\ s.known = e.known /\ s.data = e.data /\ s.error = e.error /\ s.stale = TRUE
  BY DEF Entry
<1>2. b \in BOOLEAN
  BY DEF Entry
<1>3. /\ m \in Entry(D) /\ m.known = e.known /\ m.data = e.data /\ m.fetch = e.fetch
      /\ m.got = e.got /\ m.stale = TRUE /\ m.error = e.error /\ m.missed = b
  <2> HIDE DEF b
  <2> QED
    BY <1>2 DEF Entry
<1>4. /\ Ask(s) \in Entry(D) /\ Ask(s).known = s.known /\ Ask(s).data = s.data /\ Ask(s).fetch = "asked"
      /\ Ask(s).stale = s.stale /\ Ask(s).missed = FALSE /\ Ask(s).error = s.error
  BY <1>1 DEF Ask, Entry
<1>5. s = Stale(e) /\ m = Marked(e)
  BY DEF Stale, Marked
<1> HIDE DEF s, m
<1> QED
  BY <1>1, <1>3, <1>4, <1>5

LEMMA InvalidateKeeps ==
  ASSUME EditInv, Later, UNCHANGED doc, NEW p, cache' = Invalidate(cache, p)
  PROVE  Cached'
<1>0. /\ DOMAIN cache = Key /\ Key = {"list", "item", "nodes"}
      /\ \A k \in Key : cache[k] \in Entry(DataOf(k)')
      /\ cache["list"] \in Entry(DataOf("list")')
  BY Grows DEF EditInv, Cached, Key
<1>1. DOMAIN cache' = Key /\ \A k \in Key : k # "list" => cache'[k] = cache[k]
  BY <1>0, InvalidateIs
<1>2. /\ cache'["list"] \in Entry(DataOf("list")')
      /\ cache'["list"].known = cache["list"].known /\ cache'["list"].data = cache["list"].data
      /\ cache'["list"].fetch = "answered"
         => cache["list"].fetch = "answered" /\ cache'["list"].got = cache["list"].got
  <2>1. CASE "list" \in Active(p) /\ (cache["list"].known \/ cache["list"].fetch = "idle")
    BY <1>0, <2>1, InvalidateIs, StaleIs
  <2>2. CASE ~("list" \in Active(p) /\ (cache["list"].known \/ cache["list"].fetch = "idle"))
    BY <1>0, <2>2, InvalidateIs, StaleIs
  <2> QED
    BY <2>1, <2>2
<1>3. section' = section /\ doc' = doc
  BY DEF Later
<1>4. \A k \in Key : cache'[k] \in Entry(DataOf(k)')
  BY <1>0, <1>1, <1>2
<1> QED
  BY <1>0, <1>1, <1>2, <1>3, <1>4 DEF EditInv, Cached, Present

LEMMA ListChangedKeeps ==
  ASSUME EditInv, NEW c \in calls, ListChanged(c)
  PROVE  EditInv'
<1>1. /\ c.stage = "done" /\ calls' \subseteq calls /\ cache' = Invalidate(cache, page) /\ Acknowledge(c)
      /\ page' = IF c.op = "create" THEN [page EXCEPT !.form = Gone, !.typed = {}] ELSE page
      /\ UNCHANGED <<section, row, nodesOf, doc, spent>>
  BY DEF ListChanged, Answered
<1>2. Later /\ Told' /\ spent'.rows = spent.rows
  BY <1>1, AcknowledgeKeeps
<1>3. page' \in PageOf /\ page'.at = page.at /\ page'.id = page.id
  BY <1>1, CopyIs DEF EditInv, Opened, PageOf
<1>4. Opened'
  BY <1>1, <1>2, <1>3, Grows DEF EditInv, Opened
<1> QED
  BY <1>1, <1>2, <1>4, StoredKept, InvalidateKeeps, SentKept, RoomKept DEF EditInv

(* The next call of a saved application. *)
LEMMA NextIs ==
  ASSUME EditInv, NEW c \in calls, NextCall(c) # "none"
  PROVE  /\ NextCall(c) \in {"assign", "unassign"} /\ c.op \in {"save", "assign"}
         /\ NextCall(c) = "assign" => c.op = "save"
         /\ section # "settings"
         /\ NextCall(c) = "unassign" => c.op = "assign" \/ c.sel = {}
BY DEF NextCall, EditInv, Sent, Sound

LEMMA ContinueIs ==
  ASSUME EditInv, NEW c \in calls, Continue(c)
  PROVE  \E d : /\ calls' = (calls \ {c}) \cup {d} /\ d \in CallOf /\ d.stage = "sent" /\ d.op = NextCall(c)
                /\ d.n = c.n /\ d.id = c.id /\ d.row = c.row /\ d.typed = c.typed /\ d.sel = c.sel
                /\ d.drop = c.drop /\ d.before = c.before /\ d.others = c.others
                /\ d.alone = c.alone /\ d.basis = c.basis /\ d.live = c.live
<1>1. PICK o : o = NextCall(c)
  OBVIOUS
<1>2. c \in CallOf /\ o \in Ops
  BY <1>1, NextIs DEF EditInv, Sent, Ops, Continue
<1>3. calls' = (calls \ {c}) \cup {[c EXCEPT !.op = o, !.stage = "sent"]}
  BY <1>1 DEF Continue
<1> DEFINE e == [c EXCEPT !.op = o, !.stage = "sent"]
<1>4. /\ e \in CallOf /\ e.stage = "sent" /\ e.op = o
      /\ e.n = c.n /\ e.id = c.id /\ e.row = c.row /\ e.typed = c.typed /\ e.sel = c.sel
      /\ e.drop = c.drop /\ e.before = c.before /\ e.others = c.others
      /\ e.alone = c.alone /\ e.basis = c.basis /\ e.live = c.live
  BY <1>2 DEF CallOf
<1> HIDE DEF e
<1> QED
  BY <1>1, <1>3, <1>4 DEF e

LEMMA ContinueKeeps ==
  ASSUME EditInv, NEW c \in calls, Continue(c)
  PROVE  EditInv'
<1>1. /\ c.stage = "done" /\ NextCall(c) # "none"
      /\ UNCHANGED <<section, row, nodesOf, doc, page, cache, spent, own, kept, told, made>>
  BY DEF Continue, Answered, history
<1>2. Later /\ spent'.rows = spent.rows /\ CallOf' = CallOf
  BY <1>1, Counted DEF CallOf, Copy, Full, Field
<1>3. PICK d : /\ calls' = (calls \ {c}) \cup {d} /\ d \in CallOf /\ d.stage = "sent" /\ d.op = NextCall(c)
               /\ d.id = c.id /\ d.sel = c.sel /\ d.drop = c.drop
  BY ContinueIs
<1>4. c \in CallOf /\ Sound(c) /\ c.id # 0
  BY <1>1 DEF EditInv, Sent, Sound
<1>5. Sent'
  <2>1. Sound(d)'
    BY <1>1, <1>3, <1>4, NextIs DEF Sound
  <2>2. \A b \in calls : b \in CallOf' /\ Sound(b)'
    BY <1>1, <1>2 DEF EditInv, Sent, Sound
  <2> QED
    BY <1>2, <1>3, <2>1, <2>2 DEF Sent
<1>6. Room'
  <2>1. IsFiniteSet(calls \ {c}) /\ IsFiniteSet(Posting)
    BY FS_Subset DEF EditInv, Room, Posting
  <2>2. IsFiniteSet(calls') /\ Posting' \subseteq Posting
    BY <1>3, <1>4, <2>1, FS_AddElement DEF Posting
  <2>3. IsFiniteSet(Posting') /\ Cardinality(Posting') <= Cardinality(Posting)
    BY <2>1, <2>2, FS_Subset
  <2>4. Cardinality(Posting') \in Nat /\ Cardinality(Posting) \in Nat
    BY <2>1, <2>3, FS_CardinalityType
  <2>5. spent.rows + Cardinality(Posting) <= spent.calls + 1 /\ spent \in Spending /\ spent' = spent
    BY <1>1 DEF EditInv, Room
  <2> QED
    BY <2>2, <2>3, <2>4, <2>5, Bounds DEF Room, Spending
<1> QED
  BY <1>1, <1>2, <1>5, <1>6, StoredKept, OpenedKept, CachedKept, ToldKept DEF EditInv

LEMMA LeaveKeeps ==
  ASSUME EditInv, NEW c \in calls, Leave(c)
  PROVE  EditInv'
<1>1. /\ c.stage = "done" /\ calls' = Orphans(calls \ {c}) /\ Acknowledge(c)
      /\ UNCHANGED <<section, row, nodesOf, spent>>
      /\ Load(NewPage("editor", c.id)) \/ Load(NewPage("list", 0))
  BY DEF Leave, Answered
<1>2. Later /\ Told' /\ spent'.rows = spent.rows /\ c.id # 0 /\ c.id \in Used
  BY <1>1, AcknowledgeKeeps
<1>3. c.id \in 0..spent'.rows /\ 0 \in 0..spent'.rows
  BY <1>2, IdsUsed DEF Used
<1>4. Opened' /\ Cached'
  <2>1. CASE Load(NewPage("editor", c.id))
    BY <1>2, <1>3, <2>1, NewPageIs, LoadKeeps
  <2>2. CASE Load(NewPage("list", 0))
    BY <1>2, <1>3, <2>2, NewPageIs, LoadKeeps
  <2> QED
    BY <1>1, <2>1, <2>2
<1> QED
  BY <1>1, <1>2, <1>4, StoredKept, OrphansKeep DEF EditInv

LEMMA EditInvInit == QueriesInit => EditInv
<1> SUFFICES ASSUME QueriesInit PROVE EditInv
  OBVIOUS
<1>1. /\ section \in Sections /\ section \in AllSections
      /\ row = [i \in Id |-> IF i = 1 THEN [f \in Field |-> 1] ELSE Gone]
      /\ nodesOf = [i \in Id |-> IF i = 1 /\ section = "applications"
                                 THEN {CHOOSE h \in Hosts : TRUE} ELSE {}]
      /\ page = NewPage("list", 0) /\ doc = page
      /\ cache = Mount(EmptyCache, page)
      /\ calls = {} /\ own = <<>> /\ kept = {} /\ told = 0 /\ made = {}
      /\ spent = [acts |-> 0, calls |-> 0, events |-> 0, others |-> 0, rows |-> 1]
  BY QueriesAssumption DEF QueriesInit, Field
<1>2. [f \in Field |-> 1] \in Full
  BY Bounds DEF Full, Row, Field
<1>3. spent \in Spending /\ Used = {1} /\ 0 \in 0..spent.rows
  BY <1>1, Bounds DEF Spending, Used
<1>4. Stored
  <2>1. row \in Listing
    BY <1>1, <1>2, <1>3, CopyIs, FullIs DEF Listing
  <2>2. nodesOf \in [Id -> SUBSET Hosts]
    <3>1. (CHOOSE h \in Hosts : TRUE) \in Hosts
      BY QueriesAssumption
    <3> QED
      BY <1>1, <3>1
  <2>3. Present(row)
    BY <1>1, <1>2, FullIs, Bounds DEF Present
  <2> QED
    BY <1>1, <2>1, <2>2, <2>3 DEF Stored
<1>5. Opened
  <2>1. page \in PageOf /\ page.at = "list" /\ page.id = 0
    BY <1>1, <1>3, CopyIs DEF NewPage, PageOf, Basis
  <2> QED
    BY <1>1, <2>1 DEF Opened
<1>6. Cached
  <2>1. Key = {"list", "item", "nodes"} /\ DOMAIN cache = Key
    BY <1>1, MountIs DEF Key
  <2>2. [i \in Id |-> Gone] \in DataOf("list") /\ Gone \in DataOf("item") /\ {} \in DataOf("nodes")
    BY CopyIs DEF DataOf, Listing
  <2>3. /\ EmptyCache["list"] = Unloaded([i \in Id |-> Gone])
        /\ EmptyCache["item"] = Unloaded(Gone) /\ EmptyCache["nodes"] = Unloaded({})
    BY DEF EmptyCache, Key
  <2>4. ASSUME NEW k \in Key
        PROVE  /\ EmptyCache[k] \in Entry(DataOf(k)) /\ ~EmptyCache[k].known
               /\ EmptyCache[k].fetch = "idle"
    <3>1. PICK d \in DataOf(k) : EmptyCache[k] = Unloaded(d)
      BY <2>1, <2>2, <2>3
    <3> QED
      BY <3>1 DEF Unloaded, Entry
  <2>5. page.at = "list"
    BY <1>1 DEF NewPage
  <2>6. ASSUME NEW k \in Key
        PROVE  /\ cache[k] \in Entry(DataOf(k)) /\ ~cache[k].known /\ cache[k].fetch # "answered"
               /\ k \in {"item", "nodes"} => cache[k].fetch = "idle"
    <3>1. CASE cache[k] = EmptyCache[k]
      BY <2>4, <3>1
    <3>2. CASE k \in Active(page) /\ cache[k] = Ask(EmptyCache[k])
      BY <2>4, <2>5, <3>2, EntryIs, ActiveIs
    <3> QED
      BY <1>1, <3>1, <3>2, MountIs
  <2> QED
    BY <2>1, <2>6 DEF Cached
<1>7. Sent /\ Told
  BY <1>1 DEF Sent, Told
<1>8. Room
  <2>1. Posting = {} /\ IsFiniteSet(calls) /\ Cardinality(Posting) = 0
    BY <1>1, FS_EmptySet DEF Posting
  <2> QED
    BY <1>1, <1>3, <2>1 DEF Room
<1> QED
  BY <1>4, <1>5, <1>6, <1>7, <1>8 DEF EditInv

(* The types are inductive. *)
LEMMA EditStepKeeps == EditInv /\ [EditStep]_queryVars => EditInv'
<1> SUFFICES ASSUME EditInv, [EditStep]_queryVars PROVE EditInv'
  OBVIOUS
<1>1. CASE EditStep
  <2>1. CASE Types \/ Sets \/ Ticks
    BY <2>1, FormsKeep
  <2>2. CASE Follows
    BY <2>2, FollowsKeeps
  <2>3. CASE Requests
    BY <2>3, RequestKeeps
  <2>4. CASE Answers
    BY <2>4, ListChangedKeeps, ContinueKeeps, LeaveKeeps DEF Answers
  <2>5. CASE QueryStep
    BY <2>5, GetsKeep, FollowsKeeps, HandleKeeps, TroubleKeeps DEF QueryStep
  <2> QED
    BY <1>1, <2>1, <2>2, <2>3, <2>4, <2>5, EditSteps
<1>2. CASE UNCHANGED queryVars
  <2>1. /\ UNCHANGED <<section, row, nodesOf, doc, page, cache, calls, spent, own, kept, told, made>>
    BY <1>2 DEF queryVars
  <2>2. Later /\ spent'.rows = spent.rows
    BY <2>1, Counted
  <2> QED
    BY <2>1, <2>2, StoredKept, OpenedKept, CachedKept, SentKept, RoomKept, ToldKept DEF EditInv
<1> QED
  BY <1>1, <1>2

-----------------------------------------------------------------------------
(* What lists show. *)

(* What a list shows is still right after a step in which nobody is told   *)
(* of a change.                                                            *)
Untold ==
    /\ UNCHANGED <<section, own, made, told>> /\ kept' \subseteq kept
    /\ \A i \in made : row'[i] # Gone => row[i] # Gone

(* A list goes wrong only when a row is written. *)
LEMMA ShowsKept ==
  ASSUME Untold, NEW d, Shows(d)
  PROVE  Shows(d)'
BY DEF Untold, Shows

LEMMA ShownOf ==
  ASSUME NEW e, cache'["list"] = e,
         Steady(e) /\ ~e.stale /\ ~e.missed => Shows(e.data)',
         e.fetch = "answered" /\ ~e.missed => Shows(e.got)',
         page'.at = "list" /\ Steady(e) => ~e.stale
  PROVE  ShownInv'
BY DEF ShownInv, Shows, Steady

LEMMA ShownKept ==
  ASSUME ShownInv, Untold, cache'["list"] = cache["list"],
         page'.at = "list" /\ Steady(cache["list"]) => ~cache["list"].stale
  PROVE  ShownInv'
<1>1. PICK e : e = cache["list"]
  OBVIOUS
<1>2. Steady(e) /\ ~e.stale /\ ~e.missed => Shows(e.data)'
  BY <1>1, ShowsKept DEF ShownInv
<1>3. e.fetch = "answered" /\ ~e.missed => Shows(e.got)'
  BY <1>1, ShowsKept DEF ShownInv
<1> QED
  BY <1>1, <1>2, <1>3, ShownOf

(* A list that is being asked for, or not known, promises nothing. *)
LEMMA ShownNot ==
  ASSUME ~Steady(cache'["list"]), cache'["list"].fetch # "answered"
  PROVE  ShownInv'
BY DEF ShownInv, Steady

LEMMA LoadShows ==
  ASSUME EditInv, Later, NEW p, Load(p)
  PROVE  ShownInv'
<1>1. "list" \in Key /\ cache' = Mount(EmptyCache, p)
  BY DEF Load, Key
<1>2. PICK e : e = EmptyCache["list"]
  OBVIOUS
<1>3. e \in Entry(DataOf("list")') /\ e.fetch = "idle" /\ ~e.known
  BY <1>1, <1>2, EmptyIs
<1>4. cache'["list"] = e \/ cache'["list"] = Ask(e)
  BY <1>1, <1>2, MountIs
<1> QED
  BY <1>3, <1>4, EntryIs, ShownNot DEF Steady

LEMMA ShowShows ==
  ASSUME EditInv, ShownInv, NEW p, Show(p)
  PROVE  ShownInv'
<1>1. /\ page' = p /\ cache' = Mount(cache, p)
      /\ UNCHANGED <<section, row, nodesOf, doc, calls, own, kept, told, made>>
  BY DEF Show, history
<1>2. Untold
  BY <1>1 DEF Untold
<1>3. "list" \in Key /\ cache["list"] \in Entry(DataOf("list"))
  BY DEF EditInv, Cached, Key
<1>4. CASE "list" \in Active(p) /\ cache["list"].fetch = "idle" /\ cache'["list"] = Ask(cache["list"])
  BY <1>3, <1>4, EntryIs, ShownNot DEF Steady
<1>5. CASE cache'["list"] = cache["list"] /\ ~("list" \in Active(p) /\ cache["list"].fetch = "idle"
                                               /\ cache'["list"] = Ask(cache["list"]))
  <2>1. p.at = "list" /\ Steady(cache["list"]) => ~cache["list"].stale
    BY <1>1, <1>3, <1>5, MountIs, ActiveIs DEF Steady
  <2> QED
    BY <1>1, <1>2, <1>5, <2>1, ShownKept
<1> QED
  BY <1>1, <1>3, <1>4, <1>5, MountIs

LEMMA InvalidateShows ==
  ASSUME EditInv, cache' = Invalidate(cache, page), page'.at = page.at
  PROVE  ShownInv'
<1>1. "list" \in Key /\ cache["list"] \in Entry(DataOf("list")) /\ DOMAIN cache = Key
  BY DEF EditInv, Cached, Key
<1>2. CASE "list" \in Active(page) /\ (cache["list"].known \/ cache["list"].fetch = "idle")
  <2>1. cache'["list"] = Ask(Stale(cache["list"]))
    BY <1>1, <1>2, InvalidateIs
  <2> QED
    BY <1>1, <2>1, StaleIs, ShownNot DEF Steady
<1>3. CASE ~("list" \in Active(page) /\ (cache["list"].known \/ cache["list"].fetch = "idle"))
  <2>1. cache'["list"] = Marked(cache["list"])
    BY <1>1, <1>3, InvalidateIs
  <2>2. PICK e : e = cache'["list"]
    OBVIOUS
  <2>3. /\ e.stale /\ e.known = cache["list"].known /\ e.fetch = cache["list"].fetch
        /\ (e.missed <=> cache["list"].missed \/ cache["list"].fetch = "answered")
    BY <1>1, <2>1, <2>2, StaleIs
  <2>4. page'.at = "list" => ~Steady(e)
    BY <1>3, <2>3, ActiveIs DEF Steady
  <2> QED
    BY <2>2, <2>3, <2>4, ShownOf
<1> QED
  BY <1>2, <1>3

LEMMA GetsShow ==
  ASSUME EditInv, ShownInv, NEW k \in Key, HandleGet(k) \/ Land(k) \/ GetFails(k) \/ Refetch(k)
  PROVE  ShownInv'
<1>0. /\ UNCHANGED <<section, row, nodesOf, doc, page, calls, own, kept, told, made>>
      /\ "list" \in Key /\ DOMAIN cache = Key /\ cache["list"] \in Entry(DataOf("list"))
  BY DEF HandleGet, Land, GetFails, Refetch, history, EditInv, Cached, Key
<1>1. Untold
  BY <1>0 DEF Untold
<1>2. CASE k # "list"
  <2>1. cache'["list"] = cache["list"]
    BY <1>0, <1>2 DEF HandleGet, Land, GetFails, Refetch
  <2> QED
    BY <1>0, <1>1, <2>1, ShownKept DEF ShownInv
<1>3. CASE k = "list" /\ HandleGet(k)
  <2>1. PICK e : e = cache'["list"]
    OBVIOUS
  <2>2. e.fetch = "answered" /\ e.got = row
    BY <1>0, <1>3, <2>1 DEF HandleGet, HubReads, Entry
  <2>3. Shows(e.got)'
    <3>1. row' = row /\ made' = made /\ kept' = kept /\ own' = own
      BY <1>0
    <3> QED
      BY <2>2, <3>1 DEF EditInv, Told, Shows
  <2> QED
    BY <2>1, <2>2, <2>3, ShownOf DEF Steady
<1>4. CASE k = "list" /\ Land(k)
  <2>1. PICK e : e = cache'["list"]
    OBVIOUS
  <2>2. /\ cache["list"].fetch = "answered"
        /\ e = [Unloaded(cache["list"].got) EXCEPT !.known = TRUE, !.missed = cache["list"].missed]
    BY <1>0, <1>4, <2>1 DEF Land
  <2>3. PICK g, m : g = cache["list"].got /\ m = cache["list"].missed
    OBVIOUS
  <2>4. e = [Unloaded(g) EXCEPT !.known = TRUE, !.missed = m]
    BY <2>2, <2>3
  <2>5. e.data = g /\ ~e.stale /\ e.missed = m /\ e.fetch = "idle"
    BY <2>4 DEF Unloaded
  <2>6. ~m => Shows(g)'
    BY <1>1, <2>2, <2>3, ShowsKept DEF ShownInv
  <2> QED
    BY <2>1, <2>5, <2>6, ShownOf
<1>5. CASE k = "list" /\ GetFails(k)
  <2>1. cache'["list"].fetch = "idle" /\ cache'["list"].error
    BY <1>0, <1>5 DEF GetFails, Entry
  <2> QED
    BY <2>1, ShownNot DEF Steady
<1>6. CASE k = "list" /\ Refetch(k)
  <2>1. cache'["list"] = Ask(cache["list"])
    BY <1>0, <1>6 DEF Refetch
  <2> QED
    BY <1>0, <2>1, EntryIs, ShownNot DEF Steady
<1> QED
  BY <1>2, <1>3, <1>4, <1>5, <1>6

(* The Hub brings no row back. *)
LEMMA HubUntold ==
  ASSUME EditInv, Handle \/ CallFails \/ OtherOperator
  PROVE  Untold /\ UNCHANGED <<doc, page, cache>>
<1>0. kept' \subseteq kept /\ UNCHANGED <<section, own, made, told, doc, page, cache>>
  BY DEF Handle, CallFails, OtherOperator, Keep, history
<1>1. /\ row \in [Id -> Copy] /\ made \subseteq Used \ {1} /\ spent.rows \in Nat
      /\ 1 \in Id /\ spent.rows + 1 \notin Used /\ Used \subseteq Id
  BY Bounds, IdsUsed DEF EditInv, Stored, Listing, Told, Room, Spending, Used
<1>2. ASSUME NEW i \in made, row'[i] # Gone PROVE row[i] # Gone
  <2>1. CASE Handle
    <3>1. PICK c \in calls : \/ HandlePut(c) \/ HandlePutRole(c) \/ HandlePost(c)
                             \/ HandleDelete(c) \/ HandleAssign(c) \/ HandleDeploy(c)
      BY <2>1 DEF Handle
    <3>2. CASE HandlePut(c)
      BY <1>1, <1>2, <3>2 DEF HandlePut
    <3>3. CASE HandlePutRole(c)
      BY <1>1, <1>2, <3>3 DEF HandlePutRole
    <3>4. CASE HandlePost(c)
      BY <1>1, <1>2, <3>4 DEF HandlePost
    <3>5. CASE HandleDelete(c)
      BY <1>1, <1>2, <3>5 DEF HandleDelete
    <3>6. CASE HandleAssign(c) \/ HandleDeploy(c)
      BY <1>2, <3>6 DEF HandleAssign, HandleDeploy
    <3> QED
      BY <3>1, <3>2, <3>3, <3>4, <3>5, <3>6
  <2>2. CASE CallFails
    BY <1>2, <2>2 DEF CallFails, history
  <2>3. CASE OtherOperator
    BY <1>1, <1>2, <2>3 DEF OtherOperator
  <2> QED
    BY <2>1, <2>2, <2>3
<1> QED
  BY <1>0, <1>2 DEF Untold

(* What lists show is right after every step. *)
LEMMA ShownStep == EditInv /\ ShownInv /\ [EditStep]_queryVars => ShownInv'
<1> SUFFICES ASSUME EditInv, ShownInv, [EditStep]_queryVars PROVE ShownInv'
  OBVIOUS
<1>1. ASSUME UNCHANGED <<section, row, cache, own, kept, told, made>>, page'.at = page.at
      PROVE  ShownInv'
  <2>1. Untold
    BY <1>1 DEF Untold
  <2> QED
    BY <1>1, <2>1, ShownKept DEF ShownInv
<1>2. CASE Types \/ Sets \/ Ticks
  <2>1. /\ UNCHANGED <<section, row, cache, own, kept, told, made>>
    BY <1>2 DEF Types, Sets, Ticks, Type, Switch, EditSetting, SelectNode, history
  <2>2. page'.at = page.at
    BY <1>2 DEF Types, Sets, Ticks, Type, Switch, Edited, EditSetting, SelectNode, EditInv, Opened, PageOf
  <2> QED
    BY <1>1, <2>1, <2>2
<1>3. CASE Follows
  <2>1. ASSUME NEW at, NEW i, Href(at, i) PROVE ShownInv'
    <3>1. Load(NewPage(at, i)) /\ Later
      BY <2>1, Counted DEF Href, history
    <3> QED
      BY <3>1, LoadShows
  <2>2. ASSUME NEW at, Link(at, 0) PROVE ShownInv'
    BY <2>2, ShowShows DEF Link
  <2> QED
    BY <1>3, <2>1, <2>2 DEF Follows
<1>4. CASE Requests
  <2>1. UNCHANGED <<section, row, cache, page, own, kept, told, made>>
    BY <1>4 DEF Requests, Request, history
  <2> QED
    BY <1>1, <2>1
<1>5. CASE Answers
  <2>1. PICK c \in calls : ListChanged(c) \/ Continue(c) \/ Leave(c)
    BY <1>5 DEF Answers
  <2>2. CASE ListChanged(c)
    <3>1. cache' = Invalidate(cache, page) /\ page'.at = page.at
      BY <2>2 DEF ListChanged, EditInv, Opened, PageOf
    <3> QED
      BY <3>1, InvalidateShows
  <2>3. CASE Continue(c)
    BY <1>1, <2>3 DEF Continue, history
  <2>4. CASE Leave(c)
    <3>1. Later
      BY <2>4, AcknowledgeKeeps DEF Leave, Answered
    <3>2. Load(NewPage("editor", c.id)) \/ Load(NewPage("list", 0))
      BY <2>4 DEF Leave
    <3> QED
      BY <3>1, <3>2, LoadShows
  <2> QED
    BY <2>1, <2>2, <2>3, <2>4
<1>6. CASE QueryStep
  <2>1. CASE \E k \in Key : HandleGet(k) \/ Land(k) \/ GetFails(k) \/ Refetch(k)
    BY <2>1, GetsShow
  <2>2. CASE Back
    BY <2>2, ShowShows DEF Back
  <2>3. CASE Handle \/ CallFails \/ OtherOperator
    <3>1. Untold /\ page' = page /\ cache' = cache
      BY <2>3, HubUntold
    <3> QED
      BY <3>1, ShownKept DEF ShownInv
  <2> QED
    BY <1>6, <2>1, <2>2, <2>3 DEF QueryStep
<1>7. CASE UNCHANGED queryVars
  BY <1>1, <1>7 DEF queryVars
<1> QED
  BY <1>2, <1>3, <1>4, <1>5, <1>6, <1>7, EditSteps

LEMMA ShownInit == QueriesInit /\ EditInv => ShownInv
<1> SUFFICES ASSUME QueriesInit, EditInv PROVE ShownInv
  OBVIOUS
<1>1. cache = Mount(EmptyCache, page) /\ "list" \in Key
      /\ EmptyCache["list"] = Unloaded([i \in Id |-> Gone])
  BY DEF QueriesInit, EmptyCache, Key
<1>2. EmptyCache["list"].fetch = "idle" /\ ~EmptyCache["list"].known
  BY <1>1 DEF Unloaded
<1>3. cache["list"].fetch # "answered" /\ ~Steady(cache["list"])
  <2>1. CASE cache["list"] = EmptyCache["list"]
    BY <1>2, <2>1 DEF Steady
  <2>2. CASE cache["list"] = Ask(EmptyCache["list"])
    <3>1. cache["list"].fetch = "asked"
      BY <1>1, <2>2 DEF Ask, Unloaded
    <3> QED
      BY <3>1 DEF Steady
  <2> QED
    BY <1>1, <2>1, <2>2, MountIs
<1> QED
  BY <1>3 DEF ShownInv

LEMMA ShownIs == ShownInv => OwnChangesShown
BY DEF ShownInv, Steady, Shows, OwnChangesShown, Rows

-----------------------------------------------------------------------------
(* Copies of row 1 are current where they have to be. *)

(* Nobody is told of a change of row 1. *)
Unheard == UNCHANGED <<section, own, told>> /\ kept' \subseteq kept

LEMMA AgreesKept ==
  ASSUME Unheard, NEW r, NEW fs, NEW gs, fs \subseteq gs, Agrees(r, fs)
  PROVE  Agrees(r, gs)'
BY DEF Unheard, Agrees

LEMMA ListKept ==
  ASSUME EditInv, SurviveInv, Unheard, cache'["list"] \in {cache["list"], Ask(cache["list"])}
  PROVE  ListCurrent'
<1>1. PICK e, g : e = cache["list"] /\ g = cache'["list"]
  OBVIOUS
<1>2. e \in Entry(DataOf("list"))
  BY <1>1 DEF EditInv, Cached, Key
<1>3. /\ g.known = e.known /\ g.data = e.data
      /\ g.fetch = "answered" => e.fetch = "answered" /\ g.got = e.got
  BY <1>1, <1>2, EntryIs
<1>4. section' = section
  BY DEF Unheard
<1>5. section # "settings" => ListAgrees(g)'
  BY <1>1, <1>3, AgreesKept DEF SurviveInv, ListCurrent, ListAgrees
<1> QED
  BY <1>1, <1>4, <1>5 DEF ListCurrent, ListAgrees

LEMMA ItemKept ==
  ASSUME EditInv, SurviveInv, Unheard, Loaded, cache'["item"] \in {cache["item"], Ask(cache["item"])}
  PROVE  ItemAgrees(cache["item"])'
<1>1. PICK e, g : e = cache["item"] /\ g = cache'["item"]
  OBVIOUS
<1>2. e \in Entry(DataOf("item"))
  BY <1>1 DEF EditInv, Cached, Key
<1>3. /\ g.known = e.known /\ g.data = e.data
      /\ g.fetch = "answered" => e.fetch = "answered" /\ g.got = e.got
  BY <1>1, <1>2, EntryIs
<1>4. ItemAgrees(g)'
  BY <1>1, <1>3, AgreesKept DEF SurviveInv, FormCurrent, ItemAgrees
<1> QED
  BY <1>1, <1>4 DEF ItemAgrees

(* A call that is there already, or its answer, or the next one of the     *)
(* same save.                                                              *)
From(c) ==
    \E d \in calls :
        /\ c.typed = d.typed /\ c.before = d.before /\ c.basis = d.basis /\ c.row = d.row
        /\ c.live => d.live
        /\ c.op = d.op \/ c.op \in {"assign", "unassign"}
        /\ c.stage = "sent" => c.id = d.id /\ (c.op = d.op => d.stage = "sent")

LEMMA CallsKept ==
  ASSUME SurviveInv, Unheard, \A c \in calls' : From(c)
  PROVE  CallsCurrent'
<1> SUFFICES ASSUME NEW c \in calls', Current(c)' PROVE Agrees(c.row, c.typed)'
  BY DEF CallsCurrent
<1>1. PICK d \in calls :
        /\ c.typed = d.typed /\ c.before = d.before /\ c.basis = d.basis /\ c.row = d.row
        /\ c.op = d.op \/ c.op \in {"assign", "unassign"}
        /\ c.stage = "sent" => c.id = d.id /\ (c.op = d.op => d.stage = "sent")
  BY DEF From
<1>2. Current(d)
  BY <1>1 DEF Current, Unheard
<1>3. Agrees(d.row, d.typed)
  BY <1>2 DEF SurviveInv, CallsCurrent
<1> QED
  BY <1>1, <1>3, AgreesKept

LEMMA LeftKept ==
  ASSUME SurviveInv, \A c \in calls' : From(c),
         page'.id # 0 /\ page'.basis = "loaded" => page.id # 0 /\ page.basis = "loaded"
  PROVE  ListLeft'
BY DEF SurviveInv, ListLeft, From, OnListing

LEMMA SettingsKept ==
  ASSUME SurviveInv, Unheard, \A c \in calls' : From(c),
         section = "settings" => UNCHANGED doc /\ page'.at = page.at /\ page.typed \subseteq page'.typed
  PROVE  SettingsTyped'
<1> SUFFICES ASSUME section = "settings" PROVE SettingsTyped'
  BY DEF SettingsTyped, Unheard
<1>1. /\ DOMAIN own \subseteq page.typed /\ page.at = "list" /\ doc.id = 0
      /\ \A c \in calls : c.typed \subseteq page.typed /\ (c.before = told => DOMAIN own \subseteq c.typed)
  BY DEF SurviveInv, SettingsTyped
<1>2. ASSUME NEW c \in calls'
      PROVE  c.typed \subseteq page'.typed /\ (c.before = told' => DOMAIN own' \subseteq c.typed)
  <2>1. PICK d \in calls : c.typed = d.typed /\ c.before = d.before
    BY DEF From
  <2> QED
    BY <1>1, <2>1 DEF Unheard
<1> QED
  BY <1>1, <1>2 DEF SettingsTyped, Unheard

(* Steps that leave page, cache and calls alone in what matters here. *)
LEMMA SurviveKept ==
  ASSUME EditInv, SurviveInv, Unheard, \A c \in calls' : From(c),
         UNCHANGED doc, page'.at = page.at, page'.id = page.id, page'.basis = page.basis,
         page'.form = page.form, page'.typed = page.typed,
         cache'["list"] \in {cache["list"], Ask(cache["list"])},
         cache'["item"] \in {cache["item"], Ask(cache["item"])}
  PROVE  SurviveInv'
<1>1. Loaded' <=> Loaded
  BY DEF Loaded
<1>2. ListCurrent' /\ CallsCurrent' /\ ListLeft' /\ SettingsTyped'
  BY ListKept, CallsKept, LeftKept, SettingsKept
<1>3. ASSUME Loaded PROVE ItemAgrees(cache["item"])' /\ Agrees(page.form, page.typed)'
  <2>1. PICK r, fs : r = page.form /\ fs = page.typed
    OBVIOUS
  <2>2. Agrees(r, fs)'
    BY <1>3, <2>1, AgreesKept DEF SurviveInv, FormCurrent
  <2>3. page'.form = r /\ page'.typed = fs
    BY <2>1
  <2> QED
    BY <1>3, <2>2, <2>3, ItemKept DEF Agrees
<1> QED
  BY <1>1, <1>2, <1>3 DEF SurviveInv, FormCurrent

LEMMA SameCalls == \A c \in calls : From(c)
BY DEF From

-----------------------------------------------------------------------------
(* A new document. *)

LEMMA LoadSurvives ==
  ASSUME EditInv, Later, section # "settings", NEW at, NEW i, Load(NewPage(at, i)),
         NEW cs \in SUBSET calls, calls' = Orphans(cs), CallsCurrent'
  PROVE  SurviveInv'
<1>0. /\ "list" \in Key /\ "item" \in Key /\ cache' = Mount(EmptyCache, NewPage(at, i))
      /\ page' = NewPage(at, i) /\ page'.form = Gone /\ section' = section
  BY DEF Load, Key, NewPage, Later
<1>1. ASSUME NEW k \in Key
      PROVE  ~cache'[k].known /\ cache'[k].fetch # "answered"
  <2>1. PICK e : e = EmptyCache[k]
    OBVIOUS
  <2>2. e \in Entry(DataOf(k)') /\ e.fetch = "idle" /\ ~e.known
    BY <2>1, EmptyIs
  <2>3. cache'[k] = e \/ cache'[k] = Ask(e)
    BY <1>0, <2>1, MountIs
  <2> QED
    BY <2>2, <2>3, EntryIs
<1>2. SettingsTyped' /\ ListCurrent'
  BY <1>0, <1>1 DEF SettingsTyped, ListCurrent, ListAgrees
<1>3. FormCurrent'
  BY <1>0, <1>1 DEF FormCurrent, ItemAgrees, Agrees
<1>4. ListLeft'
  <2>1. \A c \in cs : c \in CallOf
    BY DEF EditInv, Sent
  <2> QED
    BY <2>1, OrphansAre DEF ListLeft
<1> QED
  BY <1>2, <1>3, <1>4 DEF SurviveInv

LEMMA OrphansFrom ==
  ASSUME EditInv, NEW cs \in SUBSET calls, NEW c \in Orphans(cs)
  PROVE  From(c)
<1>1. \A d \in cs : d \in CallOf
  BY DEF EditInv, Sent
<1> QED
  BY <1>1, OrphansAre DEF From

(* A page that is opened has no copy of a row that is not current. *)
LEMMA FollowsSurvive ==
  ASSUME EditInv, SurviveInv, Follows \/ Back
  PROVE  SurviveInv'
<1>1. ASSUME NEW at, NEW i, Href(at, i), section # "settings" PROVE SurviveInv'
  <2>1. /\ Act /\ Load(NewPage(at, i)) /\ calls' = Orphans(calls)
        /\ UNCHANGED <<section, row, nodesOf, own, kept, told, made>>
    BY <1>1 DEF Href, history
  <2>2. Later /\ Unheard
    BY <2>1, Counted DEF Unheard
  <2>3. CallsCurrent'
    BY <2>1, <2>2, OrphansFrom, CallsKept
  <2> QED
    BY <1>1, <2>1, <2>2, <2>3, LoadSurvives
<1>2. ASSUME NEW p, Show(p), section # "settings", p.id = 0 \/ p.basis # "loaded"
      PROVE  SurviveInv'
  <2>1. /\ page' = p /\ cache' = Mount(cache, p)
        /\ UNCHANGED <<section, row, nodesOf, doc, calls, own, kept, told, made>>
    BY <1>2 DEF Show, history
  <2>2. Unheard /\ \A c \in calls' : From(c)
    BY <2>1, SameCalls DEF Unheard
  <2>3. cache'["list"] \in {cache["list"], Ask(cache["list"])}
    BY <2>1, MountIs DEF Key
  <2>4. ListCurrent' /\ CallsCurrent'
    BY <2>2, <2>3, ListKept, CallsKept
  <2>5. SettingsTyped' /\ ListLeft' /\ FormCurrent'
    BY <1>2, <2>1 DEF SettingsTyped, ListLeft, FormCurrent, Loaded
  <2> QED
    BY <2>4, <2>5 DEF SurviveInv
<1>3. CASE Follows
  <2>1. \A at : NewPage(at, 0).id = 0
    BY DEF NewPage
  <2> QED
    BY <1>1, <1>2, <1>3, <2>1 DEF Follows, Link
<1>4. CASE Back
  <2> DEFINE p == [NewPage(doc.at, doc.id) EXCEPT !.basis = "cached"]
  <2>1. Show(p) /\ doc.id # 0
    BY <1>4 DEF Back
  <2>2. p.basis = "cached" /\ section # "settings"
    BY <2>1 DEF NewPage, SurviveInv, SettingsTyped
  <2> HIDE DEF p
  <2> QED
    BY <1>2, <2>1, <2>2
<1> QED
  BY <1>3, <1>4

-----------------------------------------------------------------------------
(* Forms. *)

(* What a form shows of row 1 and was not typed. *)
LEMMA FormCurrentIs ==
  ASSUME EditInv, SurviveInv, Loaded, page.form # Gone \/ cache["item"].known
  PROVE  Agrees(Form, page.typed)
<1>1. CASE page.form # Gone
  BY <1>1 DEF SurviveInv, FormCurrent, Form
<1>2. CASE page.form = Gone
  <2>1. Form = cache["item"].data /\ Agrees(cache["item"].data, {})
    BY <1>2 DEF SurviveInv, FormCurrent, Form, Loaded, ItemAgrees, Editing
  <2> QED
    BY <2>1 DEF Agrees
<1> QED
  BY <1>1, <1>2

LEMMA EditSurvives ==
  ASSUME EditInv, SurviveInv, NEW f \in Field, NEW v, page' = Edited(f, v), section # "settings",
         UNCHANGED <<section, row, nodesOf, doc, cache, calls, history>>
  PROVE  SurviveInv'
<1>0. Unheard /\ UNCHANGED <<section, doc, cache, calls, own, kept, told>>
  BY DEF Unheard, history
<1>1. /\ page'.at = page.at /\ page'.id = page.id /\ page'.basis = Begun
      /\ page'.typed = page.typed \cup {f} /\ page'.form = [Form EXCEPT ![f] = v]
  BY DEF EditInv, Opened, PageOf, Edited
<1>2. page'.basis = "loaded" =>
        page.basis = "loaded" /\ (page.form # Gone \/ page.id = 0 \/ cache["item"].known)
  BY <1>1 DEF Begun, Editing
<1>3. ListCurrent' /\ CallsCurrent' /\ ListLeft' /\ SettingsTyped'
  BY <1>0, <1>1, <1>2, SameCalls, ListKept, CallsKept, LeftKept, SettingsKept
<1>4. ASSUME Loaded' PROVE ItemAgrees(cache["item"])' /\ Agrees(page.form, page.typed)'
  <2>1. Loaded /\ (page.form # Gone \/ cache["item"].known)
    BY <1>1, <1>2, <1>4 DEF Loaded
  <2>2. ItemAgrees(cache["item"])'
    BY <1>0, <2>1, ItemKept
  <2>3. Agrees(Form, page.typed) /\ Form # Gone /\ DOMAIN Form = Field
    BY <2>1, FormCurrentIs, FormIs, FullIs
  <2>4. \A x \in kept' \ page'.typed : page'.form[x] = own'[x]
    <3>1. \A x \in kept \ page.typed : Form[x] = own[x]
      BY <2>3 DEF Agrees
    <3>2. \A x : x # f => page'.form[x] = Form[x]
      BY <1>1, <2>3
    <3> QED
      BY <1>0, <1>1, <3>1, <3>2
  <2> QED
    BY <2>2, <2>4 DEF Agrees
<1> QED
  BY <1>3, <1>4 DEF SurviveInv, FormCurrent

LEMMA FormsSurvive ==
  ASSUME EditInv, SurviveInv, Types \/ Sets \/ Ticks
  PROVE  SurviveInv'
<1>1. CASE Types
  <2>1. /\ UNCHANGED <<section, row, nodesOf, doc, cache, calls, history>> /\ section # "settings"
        /\ \E f \in Field : \E v : page' = Edited(f, v)
    BY <1>1 DEF Types, Type, Switch, Field
  <2> QED
    BY <2>1, EditSurvives
<1>2. CASE Sets
  <2>1. PICK f \in Fields(section) : EditSetting(f)
    BY <1>2 DEF Sets
  <2>2. /\ UNCHANGED <<section, doc, cache, calls, own, kept, told>> /\ section = "settings" /\ page.at = "list"
        /\ page' = [page EXCEPT !.form = [SettingsForm EXCEPT ![f] = spent.acts + 2], !.typed = @ \cup {f}]
    BY <1>2, <2>1 DEF Sets, EditSetting, history
  <2>3. /\ page'.at = page.at /\ page'.id = page.id /\ page'.basis = page.basis
        /\ page.typed \subseteq page'.typed
    BY <2>2 DEF EditInv, Opened, PageOf
  <2>4. Unheard /\ page'.id = 0
    BY <2>2, <2>3 DEF Unheard, EditInv, Opened
  <2>5. ListCurrent' /\ CallsCurrent' /\ ListLeft' /\ SettingsTyped'
    BY <2>2, <2>3, <2>4, SameCalls, ListKept, CallsKept, LeftKept, SettingsKept
  <2>6. FormCurrent'
    BY <2>4 DEF FormCurrent, Loaded
  <2> QED
    BY <2>5, <2>6 DEF SurviveInv
<1>3. CASE Ticks
  <2>1. PICK h \in Hosts : SelectNode(h)
    BY <1>3 DEF Ticks
  <2>2. UNCHANGED <<section, doc, cache, calls, own, kept, told>>
    BY <2>1 DEF SelectNode, history
  <2>3. /\ page'.at = page.at /\ page'.id = page.id /\ page'.basis = page.basis
        /\ page'.form = page.form /\ page'.typed = page.typed
    BY <2>1 DEF SelectNode, EditInv, Opened, PageOf
  <2>4. Unheard
    BY <2>2 DEF Unheard
  <2> QED
    BY <2>2, <2>3, <2>4, SameCalls, SurviveKept
<1> QED
  BY <1>1, <1>2, <1>3

-----------------------------------------------------------------------------
(* Calls and their answers. *)

LEMMA RequestSurvives ==
  ASSUME EditInv, SurviveInv, Requests
  PROVE  SurviveInv'
<1>1. PICK op \in Ops, i \in Nat, r \in Copy, typed \in SUBSET Field, sel, drop \in SUBSET Hosts :
        Asks(op, i, r, typed, sel, drop) /\ Request(op, i, r, typed, sel, drop)
  BY DEF Requests
<1>2. PICK c : c = Call(op, i, r, typed, sel, drop)
  OBVIOUS
<1>3. /\ calls' = calls \cup {c} /\ UNCHANGED <<section, row, doc, page, cache, own, kept, told>>
  BY <1>1, <1>2, CallIs
<1>4. /\ c.op = op /\ c.id = i /\ c.row = r /\ c.typed = typed /\ c.before = told /\ c.basis = page.basis
      /\ c.stage = "sent"
  BY <1>2 DEF Call
<1>5. Unheard
  BY <1>3 DEF Unheard
<1>6. ListCurrent' /\ FormCurrent'
  <2>1. ListCurrent'
    BY <1>3, <1>5, ListKept
  <2>2. FormCurrent'
    BY <1>3 DEF SurviveInv, FormCurrent, Loaded, ItemAgrees, Agrees
  <2> QED
    BY <2>1, <2>2
<1>7. ASSUME section = "settings" PROVE typed = page.typed /\ op = "toggle"
  BY <1>1, <1>7 DEF Asks, AsksListed, AsksSettings, AsksNew, AsksForm
<1>8. SettingsTyped'
  BY <1>3, <1>4, <1>7 DEF SurviveInv, SettingsTyped
<1>9. ListLeft'
  <2>1. op \in OnListing => page.at = "list"
    BY <1>1 DEF Asks, AsksListed, AsksSettings, AsksNew, AsksForm, OnListing
  <2>2. page.at = "list" => page.id = 0
    BY DEF EditInv, Opened
  <2> QED
    BY <1>3, <1>4, <2>1, <2>2 DEF SurviveInv, ListLeft
<1>10. ASSUME op \in {"toggle", "save"}, i = 1, page.basis = "loaded" PROVE Agrees(r, typed)
  <2>1. CASE AsksListed(op, i, r, typed, sel, drop)
    <3>1. /\ section # "settings" /\ Listed(1) /\ r = [Rows[1] EXCEPT !["on"] = 1 - @] /\ typed = {"on"}
      BY <1>10, <2>1 DEF AsksListed
    <3>2. Agrees(Rows[1], {"on"}) /\ Rows[1] # Gone
      BY <3>1 DEF SurviveInv, ListCurrent, ListAgrees, Listed, Rows
    <3>3. PICK q : q = Rows[1]
      OBVIOUS
    <3>4. \A f : f # "on" => r[f] = q[f]
      <4>1. q \in Full
        BY <3>2, <3>3, ListIs, Bounds
      <4> QED
        BY <3>1, <3>3, <4>1, FullIs
    <3> QED
      BY <3>1, <3>2, <3>3, <3>4 DEF Agrees
  <2>2. CASE AsksSettings(op, i, r, typed, sel, drop)
    <3>1. kept \subseteq typed
      BY <2>2 DEF AsksSettings, SurviveInv, SettingsTyped, EditInv, Told
    <3> QED
      BY <3>1 DEF Agrees
  <2>3. CASE AsksForm(op, i, r, typed, sel, drop)
    <3>1. r = Form /\ typed = page.typed /\ i = page.id /\ Form[Required(section)] # 0 /\ section # "settings"
      BY <1>10, <2>3 DEF AsksForm
    <3>2. Loaded
      BY <1>10, <3>1 DEF Loaded
    <3>3. page.form # Gone \/ cache["item"].known
      <4>1. Required(section) \in Fields(section)
        BY <3>1, SectionFields DEF EditInv, Stored
      <4>2. ASSUME Form = Blank(section) PROVE FALSE
        <5>1. Required(section) # "on" /\ Required(section) \in Field
          BY <4>1, SectionFields DEF EditInv, Stored, Field
        <5>2. Blank(section)[Required(section)] = 0
          BY <5>1 DEF Blank, Field
        <5> QED
          BY <3>1, <4>2, <5>2
      <4> QED
        BY <4>2 DEF Form
    <3> QED
      BY <3>1, <3>2, <3>3, FormCurrentIs
  <2> QED
    BY <1>1, <1>10, <2>1, <2>2, <2>3 DEF Asks, AsksNew
<1>11. CallsCurrent'
  <2>1. \A d \in calls : Current(d)' => Agrees(d.row, d.typed)'
    BY <1>3 DEF SurviveInv, CallsCurrent, Current, Agrees
  <2>2. Current(c)' => Agrees(c.row, c.typed)'
    <3>1. Current(c) => Agrees(c.row, c.typed)
      BY <1>4, <1>10 DEF Current
    <3> QED
      BY <1>3, <3>1 DEF Current, Agrees
  <2> QED
    BY <1>3, <2>1, <2>2 DEF CallsCurrent
<1> QED
  BY <1>6, <1>8, <1>9, <1>11 DEF SurviveInv

LEMMA GetsSurvive ==
  ASSUME EditInv, SurviveInv, NEW k \in Key, HandleGet(k) \/ Land(k) \/ GetFails(k) \/ Refetch(k)
  PROVE  SurviveInv'
<1>0. /\ UNCHANGED <<section, row, nodesOf, doc, page, calls, own, kept, told, made>>
      /\ DOMAIN cache = Key /\ cache[k] \in Entry(DataOf(k)) /\ Key = {"list", "item", "nodes"}
  BY DEF HandleGet, Land, GetFails, Refetch, history, EditInv, Cached, Key
<1>1. Unheard
  BY <1>0 DEF Unheard
<1>2. \A j \in Key : j # k => cache'[j] = cache[j]
  BY <1>0 DEF HandleGet, Land, GetFails, Refetch
<1>3. CallsCurrent' /\ ListLeft' /\ SettingsTyped'
  BY <1>0, <1>1, SameCalls, CallsKept, LeftKept, SettingsKept
<1>4. PICK e, g : e = cache[k] /\ g = cache'[k]
  OBVIOUS
<1>5. \/ g.known = e.known /\ g.data = e.data /\ g.fetch = "answered" /\ g.got = HubReads(k) /\ e.fetch = "asked"
      \/ g.data = e.got /\ e.fetch = "answered" /\ g.fetch = "idle"
      \/ g.known = e.known /\ g.data = e.data /\ g.fetch # "answered"
  <2>1. CASE HandleGet(k)
    <3>1. PICK h : h = HubReads(k)
      OBVIOUS
    <3>2. cache'[k] = [cache[k] EXCEPT !.fetch = "answered", !.got = h] /\ cache[k].fetch = "asked"
      BY <1>0, <2>1, <3>1 DEF HandleGet
    <3>3. g.known = e.known /\ g.data = e.data /\ g.fetch = "answered" /\ g.got = h
      BY <1>0, <1>4, <3>2 DEF Entry
    <3> QED
      BY <1>4, <3>1, <3>2, <3>3
  <2>2. CASE Land(k)
    <3>1. CASE k = "item" /\ e.got = Gone
      <4>1. g = [e EXCEPT !.fetch = "idle", !.error = TRUE]
        BY <1>0, <1>4, <2>2, <3>1 DEF Land
      <4> QED
        BY <1>0, <1>4, <4>1 DEF Entry
    <3>2. CASE ~(k = "item" /\ e.got = Gone)
      <4>1. g = [Unloaded(e.got) EXCEPT !.known = TRUE, !.missed = e.missed] /\ e.fetch = "answered"
        BY <1>0, <1>4, <2>2, <3>2 DEF Land
      <4> QED
        BY <4>1 DEF Unloaded
    <3> QED
      BY <3>1, <3>2
  <2>3. CASE GetFails(k)
    <3>1. g = [e EXCEPT !.fetch = "idle", !.error = TRUE]
      BY <1>0, <1>4, <2>3 DEF GetFails
    <3> QED
      BY <1>0, <1>4, <3>1 DEF Entry
  <2>4. CASE Refetch(k)
    <3>1. g = Ask(e)
      BY <1>0, <1>4, <2>4 DEF Refetch
    <3> QED
      BY <1>0, <1>4, <3>1, EntryIs
  <2> QED
    BY <2>1, <2>2, <2>3, <2>4
<1>6. \A f \in kept : row[1] # Gone /\ row[1][f] = own[f]
  BY DEF EditInv, Told
<1>7. ListCurrent'
  <2>1. CASE k # "list"
    BY <1>0, <1>1, <1>2, <2>1, ListKept
  <2>2. CASE k = "list"
    <3> SUFFICES ASSUME section # "settings" PROVE ListAgrees(g)'
      BY <1>0, <1>4, <2>2 DEF ListCurrent, ListAgrees
    <3>1. ListAgrees(e)
      BY <1>4, <2>2 DEF SurviveInv, ListCurrent
    <3>2. HubReads(k) = row
      BY <2>2 DEF HubReads
    <3>3. g.known => Agrees(g.data[1], {"on"})
      BY <1>5, <3>1 DEF ListAgrees
    <3>4. g.fetch = "answered" => Agrees(g.got[1], {"on"})
      BY <1>5, <1>6, <3>2 DEF Agrees
    <3> QED
      BY <1>1, <3>3, <3>4, AgreesKept DEF ListAgrees
  <2> QED
    BY <2>1, <2>2
<1>8. ASSUME Loaded PROVE ItemAgrees(cache["item"])'
  <2>1. CASE k # "item"
    BY <1>0, <1>1, <1>2, <1>8, <2>1, ItemKept
  <2>2. CASE k = "item"
    <3>1. ItemAgrees(e)
      BY <1>4, <1>8, <2>2 DEF SurviveInv, FormCurrent
    <3>2. HubReads(k) = row[1]
      BY <1>8, <2>2 DEF HubReads, Loaded, EditInv, Opened
    <3>3. g.known => Agrees(g.data, {})
      BY <1>5, <3>1 DEF ItemAgrees
    <3>4. g.fetch = "answered" => Agrees(g.got, {})
      BY <1>5, <1>6, <3>2 DEF Agrees
    <3>5. ItemAgrees(g)'
      BY <1>1, <3>3, <3>4, AgreesKept DEF ItemAgrees
    <3> QED
      BY <1>4, <2>2, <3>5 DEF ItemAgrees
  <2> QED
    BY <2>1, <2>2
<1>9. FormCurrent'
  <2>1. Loaded' <=> Loaded
    BY <1>0 DEF Loaded
  <2>2. Loaded => Agrees(page.form, page.typed)'
    BY <1>0 DEF SurviveInv, FormCurrent, Agrees
  <2> QED
    BY <1>8, <2>1, <2>2 DEF FormCurrent
<1> QED
  BY <1>3, <1>7, <1>9 DEF SurviveInv

LEMMA HandleFrom ==
  ASSUME EditInv, Handle \/ CallFails \/ OtherOperator
  PROVE  \A d \in calls' : From(d)
<1>1. CASE OtherOperator
  BY <1>1, SameCalls DEF OtherOperator
<1>2. CASE CallFails
  BY <1>2, SameCalls DEF CallFails, Failed
<1>3. CASE Handle
  <2>1. PICK c \in calls : \/ HandlePut(c) \/ HandlePutRole(c) \/ HandlePost(c)
                           \/ HandleDelete(c) \/ HandleAssign(c) \/ HandleDeploy(c)
    BY <1>3 DEF Handle
  <2>2. calls' \subseteq calls \/ \E i : Served(c, i)
    BY <2>1 DEF HandlePut, HandlePutRole, HandlePost, HandleDelete, HandleAssign, HandleDeploy, Failed
  <2>3. ASSUME NEW i, Served(c, i), NEW d \in calls' PROVE From(d)
    <3>1. c \in CallOf
      BY DEF EditInv, Sent
    <3> QED
      BY <2>3, <3>1, ServedIs, SameCalls DEF From
  <2> QED
    BY <2>2, <2>3, SameCalls
<1> QED
  BY <1>1, <1>2, <1>3

(* What the Hub overwrites is not kept, so that the copies stay current. *)
LEMMA HubSurvives ==
  ASSUME EditInv, SurviveInv, Handle \/ CallFails \/ OtherOperator
  PROVE  SurviveInv'
<1>1. Untold /\ UNCHANGED <<doc, page, cache>>
  BY HubUntold
<1>2. Unheard
  BY <1>1 DEF Untold, Unheard
<1> QED
  BY <1>1, <1>2, HandleFrom, SurviveKept

(* The copy of an invalidated list stays. *)
LEMMA InvalidateData ==
  ASSUME EditInv, NEW p, cache' = Invalidate(cache, p)
  PROVE  /\ cache'["list"].known = cache["list"].known /\ cache'["list"].data = cache["list"].data
         /\ cache'["list"].fetch = "answered"
            => cache["list"].fetch = "answered" /\ cache'["list"].got = cache["list"].got
         /\ cache'["item"] = cache["item"]
<1>1. /\ DOMAIN cache = Key /\ "list" \in Key /\ "item" \in Key
      /\ cache["list"] \in Entry(DataOf("list"))
  BY DEF EditInv, Cached, Key
<1>2. CASE "list" \in Active(p) /\ (cache["list"].known \/ cache["list"].fetch = "idle")
  <2>1. cache'["list"] = Ask(Stale(cache["list"])) /\ cache'["item"] = cache["item"]
    BY <1>1, <1>2, InvalidateIs
  <2> QED
    BY <1>1, <2>1, StaleIs
<1>3. CASE ~("list" \in Active(p) /\ (cache["list"].known \/ cache["list"].fetch = "idle"))
  <2>1. cache'["list"] = Marked(cache["list"]) /\ cache'["item"] = cache["item"]
    BY <1>1, <1>3, InvalidateIs
  <2> QED
    BY <1>1, <2>1, StaleIs
<1> QED
  BY <1>2, <1>3

LEMMA ListChangedSurvives ==
  ASSUME EditInv, SurviveInv, NEW c \in calls, ListChanged(c)
  PROVE  SurviveInv'
<1>1. /\ c.live /\ c.stage = "done" /\ c.op \in OnListing /\ calls' = calls \ {c}
      /\ cache' = Invalidate(cache, page) /\ Acknowledge(c)
      /\ page' = IF c.op = "create" THEN [page EXCEPT !.form = Gone, !.typed = {}] ELSE page
      /\ UNCHANGED <<section, row, nodesOf, doc, spent>>
  BY DEF ListChanged, Answered, OnListing
<1>2. page'.at = page.at /\ page'.id = page.id /\ page'.basis = page.basis
      /\ (section = "settings" => page' = page) /\ c \in CallOf /\ Sound(c)
  BY <1>1 DEF EditInv, Opened, PageOf, Sent, Sound
<1>3. ~(page.id # 0 /\ page.basis = "loaded")
  BY <1>1 DEF SurviveInv, ListLeft
<1>4. FormCurrent' /\ ListLeft'
  BY <1>2, <1>3 DEF FormCurrent, Loaded, ListLeft
<1>5. \A d \in calls : d.before \in 0..told /\ told \in Nat
  BY DEF EditInv, Sent, CallOf, Told
<1>6. CallsCurrent'
  <2>1. CASE c.id = 1
    <3>1. told' = told + 1
      BY <1>1, <2>1 DEF Acknowledge
    <3> QED
      BY <1>1, <1>5, <3>1 DEF CallsCurrent, Current
  <2>2. CASE c.id # 1
    <3>1. Unheard /\ \A d \in calls' : From(d)
      BY <1>1, <2>2, SameCalls DEF Acknowledge, Unheard
    <3> QED
      BY <3>1, CallsKept
  <2> QED
    BY <2>1, <2>2
<1>7. SettingsTyped'
  <2> SUFFICES ASSUME section = "settings" PROVE SettingsTyped'
    BY <1>1 DEF SettingsTyped
  <2>1. c.op = "toggle" /\ page' = page /\ doc' = doc /\ page.at = "list" /\ doc.id = 0
    BY <1>1, <1>2 DEF Sound, SurviveInv, SettingsTyped
  <2>2. DOMAIN own \subseteq page.typed
        /\ \A d \in calls : d.typed \subseteq page.typed /\ (d.before = told => DOMAIN own \subseteq d.typed)
    BY DEF SurviveInv, SettingsTyped
  <2>3. CASE c.id = 1
    <3>1. told' = told + 1 /\ DOMAIN own' = DOMAIN own \cup c.typed
      BY <1>1, <2>1, <2>3 DEF Acknowledge
    <3> QED
      BY <1>1, <1>5, <2>1, <2>2, <3>1 DEF SettingsTyped
  <2>4. CASE c.id # 1
    <3>1. told' = told /\ own' = own
      BY <1>1, <2>4 DEF Acknowledge
    <3> QED
      BY <1>1, <2>1, <2>2, <3>1 DEF SettingsTyped
  <2> QED
    BY <2>3, <2>4
<1>8. ListCurrent'
  <2> SUFFICES ASSUME section # "settings" PROVE ListAgrees(cache["list"])'
    BY <1>1 DEF ListCurrent
  <2>1. \A f \in kept' \ {"on"} : f \in kept \ {"on"} /\ own'[f] = own[f]
    <3>1. CASE c.id # 1
      BY <1>1, <3>1 DEF Acknowledge
    <3>2. CASE c.id = 1 /\ c.op \in {"toggle", "role"}
      <4>1. c.typed = {"on"}
        BY <1>2, <3>2 DEF Sound
      <4>2. /\ own' = [f \in DOMAIN own \cup {"on"} |-> IF f \in {"on"} THEN c.row[f] ELSE own[f]]
            /\ kept' \subseteq kept \cup {"on"}
        BY <1>1, <3>2, <4>1 DEF Acknowledge
      <4> QED
        BY <4>2 DEF EditInv, Told
    <3>3. CASE c.id = 1 /\ c.op = "delete"
      BY <1>1, <3>3 DEF Acknowledge
    <3>4. CASE c.id = 1 /\ c.op = "create"
      BY <1>2, <3>4 DEF Sound
    <3> QED
      BY <1>1, <3>1, <3>2, <3>3, <3>4 DEF OnListing
  <2>2. \A r : Agrees(r, {"on"}) => Agrees(r, {"on"})'
    BY <2>1 DEF Agrees
  <2>3. PICK e, g : e = cache["list"] /\ g = cache'["list"]
    OBVIOUS
  <2>4. ListAgrees(e)
    BY <2>3 DEF SurviveInv, ListCurrent
  <2>5. /\ g.known = e.known /\ g.data = e.data
        /\ g.fetch = "answered" => e.fetch = "answered" /\ g.got = e.got
    BY <1>1, <2>3, InvalidateData
  <2>6. ListAgrees(g)'
    BY <2>2, <2>4, <2>5 DEF ListAgrees
  <2> QED
    BY <2>3, <2>6 DEF ListAgrees
<1> QED
  BY <1>4, <1>6, <1>7, <1>8 DEF SurviveInv

LEMMA ContinueSurvives ==
  ASSUME EditInv, SurviveInv, NEW c \in calls, Continue(c)
  PROVE  SurviveInv'
<1>1. /\ NextCall(c) # "none"
      /\ UNCHANGED <<section, row, nodesOf, doc, page, cache, spent, own, kept, told, made>>
  BY DEF Continue, history
<1>2. PICK d : /\ calls' = (calls \ {c}) \cup {d} /\ d \in CallOf /\ d.stage = "sent" /\ d.op = NextCall(c)
               /\ d.n = c.n /\ d.id = c.id /\ d.row = c.row /\ d.typed = c.typed /\ d.sel = c.sel
               /\ d.drop = c.drop /\ d.before = c.before /\ d.others = c.others
               /\ d.alone = c.alone /\ d.basis = c.basis /\ d.live = c.live
  BY ContinueIs
<1>3. NextCall(c) \in {"assign", "unassign"} /\ NextCall(c) # c.op
  BY <1>1, NextIs
<1>4. From(d)
  BY <1>2, <1>3 DEF From
<1>5. \A b \in calls' : From(b)
  BY <1>2, <1>4, SameCalls
<1>6. Unheard
  BY <1>1 DEF Unheard
<1> QED
  BY <1>1, <1>5, <1>6, SurviveKept

LEMMA LeaveSurvives ==
  ASSUME EditInv, SurviveInv, NEW c \in calls, Leave(c)
  PROVE  SurviveInv'
<1>1. /\ c.stage = "done" /\ calls' = Orphans(calls \ {c}) /\ Acknowledge(c)
      /\ UNCHANGED <<section, row, nodesOf, spent>>
      /\ Load(NewPage("editor", c.id)) \/ Load(NewPage("list", 0))
      /\ c.op \in {"save", "assign", "unassign", "clone", "upload"}
  BY DEF Leave, Answered
<1>2. Later /\ section # "settings" /\ calls \ {c} \in SUBSET calls
  BY <1>1, AcknowledgeKeeps DEF EditInv, Sent, Sound
<1>3. CallsCurrent'
  <2>1. told \in Nat /\ \A d \in calls \ {c} : d \in CallOf
    BY DEF EditInv, Sent, Told
  <2>2. CASE c.id = 1
    <3>1. told' = told + 1
      BY <1>1, <2>2 DEF Acknowledge
    <3>2. \A d \in calls' : d.before \in 0..told
      <4> SUFFICES ASSUME NEW d \in calls' PROVE d.before \in 0..told
        OBVIOUS
      <4>1. PICK b \in calls \ {c} : d.before = b.before
        <5>1. d \in Orphans(calls \ {c}) /\ \A b \in calls \ {c} : b \in CallOf
          BY <1>1, <2>1
        <5> QED
          BY <5>1, OrphansAre
      <4> QED
        BY <2>1, <4>1 DEF CallOf
    <3> QED
      BY <2>1, <3>1, <3>2 DEF CallsCurrent, Current
  <2>3. CASE c.id # 1
    <3>1. Unheard /\ \A d \in calls' : From(d)
      BY <1>1, <1>2, <2>3, OrphansFrom DEF Acknowledge, Unheard
    <3> QED
      BY <3>1, CallsKept
  <2> QED
    BY <2>2, <2>3
<1> QED
  BY <1>1, <1>2, <1>3, LoadSurvives

(* Copies of row 1 are current after every step. *)
LEMMA SurviveStep == EditInv /\ SurviveInv /\ [EditStep]_queryVars => SurviveInv'
<1> SUFFICES ASSUME EditInv, SurviveInv, [EditStep]_queryVars PROVE SurviveInv'
  OBVIOUS
<1>1. CASE EditStep
  <2>1. CASE Types \/ Sets \/ Ticks
    BY <2>1, FormsSurvive
  <2>2. CASE Follows
    BY <2>2, FollowsSurvive
  <2>3. CASE Requests
    BY <2>3, RequestSurvives
  <2>4. CASE Answers
    BY <2>4, ListChangedSurvives, ContinueSurvives, LeaveSurvives DEF Answers
  <2>5. CASE QueryStep
    BY <2>5, GetsSurvive, FollowsSurvive, HubSurvives DEF QueryStep
  <2> QED
    BY <1>1, <2>1, <2>2, <2>3, <2>4, <2>5, EditSteps
<1>2. CASE UNCHANGED queryVars
  <2>1. UNCHANGED <<section, row, nodesOf, doc, page, cache, calls, spent, own, kept, told, made>>
    BY <1>2 DEF queryVars
  <2>2. Unheard /\ \A c \in calls' : From(c)
    BY <2>1, SameCalls DEF Unheard
  <2> QED
    BY <2>1, <2>2, SurviveKept
<1> QED
  BY <1>1, <1>2

LEMMA SurviveInit == QueriesInit /\ EditInv => SurviveInv
<1> SUFFICES ASSUME QueriesInit, EditInv PROVE SurviveInv
  OBVIOUS
<1>1. /\ page.id = 0 /\ page.at = "list" /\ doc = page /\ calls = {} /\ own = <<>> /\ kept = {}
  BY DEF QueriesInit, NewPage
<1>2. DOMAIN own = {}
  BY <1>1
<1>3. ListCurrent
  BY <1>1 DEF ListCurrent, ListAgrees, Agrees
<1> QED
  BY <1>1, <1>2, <1>3 DEF SurviveInv, SettingsTyped, FormCurrent, Loaded, ListLeft, CallsCurrent

(* Only a write of the Hub's undoes what it has kept. *)
LEMMA SurviveIs ==
  EditInv /\ SurviveInv /\ [EditStep]_queryVars => \A f \in kept : Undone(f) => Meant(f)
<1> SUFFICES ASSUME EditInv, SurviveInv, [EditStep]_queryVars, NEW f \in kept, Undone(f), ~Meant(f)
             PROVE  FALSE
  OBVIOUS
<1>1. /\ row[1] # Gone /\ row[1][f] = own[f] /\ row'[1] # Gone /\ row'[1][f] # own[f]
      /\ spent'.others = spent.others /\ row \in [Id -> Copy] /\ 1 \in Id
      /\ \A c \in calls \ calls' : f \notin c.typed /\ c.basis = "loaded" /\ c.before = told
  BY Bounds DEF EditInv, Told, Undone, Meant, Stored, Listing
<1>2. Handle \/ OtherOperator
  <2>1. row' # row
    BY <1>1
  <2>2. ~(UNCHANGED queryVars)
    BY <2>1 DEF queryVars
  <2>3. ~(Types \/ Sets \/ Ticks \/ Follows \/ Requests)
    BY <2>1 DEF Types, Sets, Ticks, Follows, Requests, Type, Switch, EditSetting, SelectNode, Href,
                Link, Show, Request
  <2>4. ~Answers
    BY <2>1 DEF Answers, ListChanged, Continue, Leave
  <2>5. ~(Back \/ CallFails) /\ \A k \in Key : ~(HandleGet(k) \/ Land(k) \/ GetFails(k) \/ Refetch(k))
    BY <2>1 DEF Back, Show, CallFails, HandleGet, Land, GetFails, Refetch
  <2> QED
    BY <2>2, <2>3, <2>4, <2>5, EditSteps DEF QueryStep
<1>3. ~OtherOperator
  <2>1. /\ spent.others \in Nat /\ spent.others + 1 # spent.others
        /\ DOMAIN spent = {"acts", "calls", "events", "others", "rows"}
    BY DEF EditInv, Room, Spending
  <2> QED
    BY <1>1, <2>1 DEF OtherOperator
<1>4. PICK c \in calls : \/ HandlePut(c) \/ HandlePutRole(c) \/ HandlePost(c)
                         \/ HandleDelete(c) \/ HandleAssign(c) \/ HandleDeploy(c)
  BY <1>2, <1>3 DEF Handle
<1>5. c.stage = "sent" /\ c \in CallOf /\ Sound(c)
  BY <1>4 DEF EditInv, Sent, HandlePut, HandlePutRole, HandlePost, HandleDelete, HandleAssign, HandleDeploy
<1>6. ASSUME NEW i, Served(c, i) PROVE c \notin calls'
  BY <1>5, <1>6, ServedIs
<1>7. ~HandlePut(c)
  <2> SUFFICES ASSUME HandlePut(c) PROVE FALSE
    OBVIOUS
  <2>1. c.id = 1 /\ row'[1] = c.row /\ Served(c, 1) /\ c.op \in {"toggle", "save"}
    BY <1>1 DEF HandlePut
  <2>2. c \in calls \ calls'
    BY <1>6, <2>1
  <2>3. Agrees(c.row, c.typed)
    BY <1>1, <1>5, <2>1, <2>2 DEF SurviveInv, CallsCurrent, Current
  <2> QED
    BY <1>1, <2>1, <2>2, <2>3 DEF Agrees
<1>8. ~HandlePutRole(c)
  <2> SUFFICES ASSUME HandlePutRole(c) PROVE FALSE
    OBVIOUS
  <2>1. c.op = "role" /\ c.id = 1 /\ row' = [row EXCEPT ![1]["on"] = c.row["on"]] /\ Served(c, 1)
    BY <1>1 DEF HandlePutRole
  <2>2. c \in calls \ calls' /\ c.typed = {"on"}
    BY <1>5, <1>6, <2>1 DEF Sound
  <2>3. row[1] \in Full /\ f # "on"
    BY <1>1, <2>2, CopyIs
  <2>4. row'[1] = [row[1] EXCEPT !["on"] = c.row["on"]]
    BY <1>1, <2>1
  <2> QED
    BY <1>1, <2>3, <2>4, FullIs
<1>9. ~HandlePost(c)
  <2> SUFFICES ASSUME HandlePost(c) PROVE FALSE
    OBVIOUS
  <2>1. spent.rows + 1 # 1
    BY DEF EditInv, Room, Spending
  <2> QED
    BY <1>1, <2>1 DEF HandlePost
<1>10. ~HandleDelete(c) /\ ~HandleAssign(c) /\ ~HandleDeploy(c)
  BY <1>1 DEF HandleDelete, HandleAssign, HandleDeploy
<1> QED
  BY <1>4, <1>7, <1>8, <1>9, <1>10

-----------------------------------------------------------------------------
(* A saved application and its nodes. *)

(* Steps that leave the calls alone. *)
LEMMA AssignKept ==
  ASSUME AssignInv, UNCHANGED <<section, nodesOf, calls>>,
         spent'.calls = spent.calls, spent'.others = spent.others
  PROVE  AssignInv'
BY DEF AssignInv, Unhindered

(* One of the calls is gone; or it is answered and no other is there. *)
LEMMA AssignLess ==
  ASSUME AssignInv, UNCHANGED section, NEW c \in calls, calls' \subseteq calls \ {c},
         spent'.calls = spent.calls, spent'.others = spent.others
  PROVE  AssignInv'
BY DEF AssignInv, Unhindered

LEMMA OrphansAssign ==
  ASSUME EditInv, AssignInv, UNCHANGED <<section, nodesOf>>,
         spent'.calls = spent.calls, spent'.others = spent.others, calls' = Orphans(calls)
  PROVE  AssignInv'
<1> SUFFICES ASSUME NEW c \in calls', Unhindered(c)'
             PROVE  /\ calls' = {c} /\ c.stage = "sent"
                    /\ c.op = "unassign" => c.sel \subseteq nodesOf[c.id]
  BY DEF AssignInv
<1>1. \A d \in calls : d \in CallOf
  BY DEF EditInv, Sent
<1>2. /\ c.stage = "sent"
      /\ \E d \in calls : /\ d.stage = "sent" /\ c.n = d.n /\ c.op = d.op /\ c.id = d.id
                          /\ c.sel = d.sel /\ c.others = d.others /\ c.alone = d.alone
  BY <1>1, OrphansAre
<1>3. PICK d \in calls : /\ c.n = d.n /\ c.op = d.op /\ c.id = d.id
                         /\ c.sel = d.sel /\ c.others = d.others /\ c.alone = d.alone
  BY <1>2
<1>4. Unhindered(d)
  BY <1>3 DEF Unhindered
<1>5. calls = {d} /\ (d.op = "unassign" => d.sel \subseteq nodesOf[d.id])
  BY <1>4 DEF AssignInv
<1>6. calls' \subseteq {[d EXCEPT !.live = FALSE]}
  BY <1>5 DEF Orphans
<1> QED
  BY <1>2, <1>3, <1>5, <1>6

LEMMA AnswersAssign ==
  ASSUME EditInv, AssignInv, Answers
  PROVE  AssignInv'
<1>1. PICK c \in calls : ListChanged(c) \/ Continue(c) \/ Leave(c)
  BY DEF Answers
<1>2. CASE ListChanged(c)
  BY <1>2, AssignLess DEF ListChanged
<1>3. CASE Continue(c)
  <2>1. PICK d : /\ calls' = (calls \ {c}) \cup {d} /\ d \in CallOf /\ d.stage = "sent" /\ d.op = NextCall(c)
                 /\ d.n = c.n /\ d.id = c.id /\ d.sel = c.sel /\ d.drop = c.drop /\ d.others = c.others
                 /\ d.alone = c.alone
    BY <1>3, ContinueIs
  <2>2. UNCHANGED <<section, nodesOf, spent>> /\ NextCall(c) # "none" /\ c.stage = "done"
    BY <1>3 DEF Continue, Answered
  <2>3. /\ c.op \in {"save", "assign"} /\ d.op \in {"assign", "unassign"}
        /\ d.op = "unassign" => c.op = "assign" \/ c.sel = {}
    BY <2>1, <2>2, NextIs
  <2>4. ASSUME NEW b \in calls \ {c}, Unhindered(b)' PROVE FALSE
    BY <2>2, <2>4 DEF AssignInv, Unhindered
  <2>5. ASSUME Unhindered(d)' PROVE calls' = {d} /\ (d.op = "unassign" => d.sel \subseteq nodesOf[d.id])
    <3>1. Unhindered(c)
      BY <2>1, <2>2, <2>3, <2>5 DEF Unhindered
    <3>2. calls = {c} /\ (c.op = "assign" => c.sel \subseteq nodesOf[c.id])
      BY <2>2, <3>1 DEF AssignInv
    <3> QED
      BY <2>1, <2>3, <3>2
  <2> QED
    BY <2>1, <2>2, <2>4, <2>5 DEF AssignInv
<1>4. CASE Leave(c)
  <2>1. /\ UNCHANGED <<section, nodesOf, spent>> /\ calls' = Orphans(calls \ {c})
        /\ \A d \in calls \ {c} : d \in CallOf
    BY <1>4 DEF Leave, EditInv, Sent
  <2>2. ASSUME NEW b \in calls', Unhindered(b)' PROVE FALSE
    <3>1. PICK d \in calls \ {c} : /\ b.n = d.n /\ b.op = d.op /\ b.others = d.others /\ b.alone = d.alone
      <4>1. b \in Orphans(calls \ {c})
        BY <2>1
      <4> QED
        BY <2>1, <4>1, OrphansAre
    <3>2. Unhindered(d)
      BY <2>1, <2>2, <3>1 DEF Unhindered
    <3> QED
      BY <3>1, <3>2 DEF AssignInv
  <2> QED
    BY <2>2 DEF AssignInv
<1> QED
  BY <1>1, <1>2, <1>3, <1>4

(* The Hub assigns and takes away what the call names. *)
LEMMA HandleAssigns ==
  ASSUME EditInv, AssignInv, Handle
  PROVE  AssignInv'
<1>1. PICK c \in calls : \/ HandlePut(c) \/ HandlePutRole(c) \/ HandlePost(c)
                         \/ HandleDelete(c) \/ HandleAssign(c) \/ HandleDeploy(c)
  BY DEF Handle
<1>0. section' = section
  BY DEF Handle
<1>2. /\ c \in CallOf /\ Sound(c) /\ spent \in Spending /\ nodesOf \in [Id -> SUBSET Hosts]
      /\ c.id # 0 => c.id \in Id
  BY IdsUsed DEF EditInv, Sent, Room, Stored, CallOf, Used
<1>3. spent'.calls = spent.calls /\ spent'.others = spent.others
  BY <1>1, <1>2 DEF HandlePut, HandlePutRole, HandlePost, HandleDelete, HandleAssign, HandleDeploy, Spending
<1>4. ASSUME NEW i, Served(c, i),
             c.op = "assign" => c.sel \subseteq nodesOf'[i],
             c.op = "unassign" => (Unhindered(c) => c.sel \subseteq nodesOf'[i]) /\ c.drop \cap nodesOf'[i] = {}
      PROVE  AssignInv'
  <2>1. ASSUME NEW d \in calls', d \in calls, d # c, Unhindered(d)' PROVE FALSE
    BY <1>0, <1>3, <2>1 DEF AssignInv, Unhindered
  <2>2. ASSUME NEW d \in calls', ~(d \in calls /\ d # c), Unhindered(d)'
        PROVE  /\ calls' = {d} /\ d.id = i /\ d.op = c.op /\ d.sel = c.sel /\ d.drop = c.drop /\ Unhindered(c)
    <3>1. /\ d.id = i /\ d.n = c.n /\ d.op = c.op /\ d.sel = c.sel /\ d.drop = c.drop
          /\ d.others = c.others /\ d.alone = c.alone
      BY <1>2, <1>4, <2>2, ServedIs
    <3>2. Unhindered(c)
      BY <1>0, <1>3, <2>2, <3>1 DEF Unhindered
    <3>3. calls = {c}
      BY <3>2 DEF AssignInv
    <3>4. calls' \subseteq {[c EXCEPT !.stage = "done", !.id = i]}
      BY <1>4, <3>3 DEF Served
    <3> DEFINE e == [c EXCEPT !.stage = "done", !.id = i]
    <3>5. calls' \subseteq {e}
      BY <3>4
    <3> HIDE DEF e
    <3> QED
      BY <2>2, <3>1, <3>2, <3>5
  <2>3. ASSUME NEW d \in calls', Unhindered(d)'
        PROVE  /\ calls' = {d}
               /\ d.op = "assign" => d.sel \subseteq nodesOf'[d.id]
               /\ d.op = "unassign" => d.sel \subseteq nodesOf'[d.id] /\ d.drop \cap nodesOf'[d.id] = {}
    BY <1>4, <2>1, <2>2, <2>3
  <2> QED
    BY <2>3 DEF AssignInv
<1>5. CASE HandlePut(c)
  BY <1>0, <1>3, <1>4, <1>5, AssignLess DEF HandlePut, Failed
<1>6. CASE HandlePutRole(c) \/ HandlePost(c) \/ HandleDelete(c)
  BY <1>4, <1>6 DEF HandlePutRole, HandlePost, HandleDelete
<1>7. CASE HandleAssign(c)
  <2>1. /\ c.op \in {"assign", "unassign"} /\ Served(c, c.id) /\ c.stage = "sent" /\ c.id \in Id
        /\ nodesOf' = [nodesOf EXCEPT ![c.id] = IF c.op = "assign" THEN @ \cup c.sel ELSE @ \ c.drop]
    BY <1>2, <1>7 DEF HandleAssign, Sound
  <2>2. nodesOf'[c.id] = IF c.op = "assign" THEN nodesOf[c.id] \cup c.sel ELSE nodesOf[c.id] \ c.drop
    BY <1>2, <2>1
  <2>3. c.op = "unassign" /\ Unhindered(c) => c.sel \subseteq nodesOf[c.id] \ c.drop
    BY <1>2 DEF AssignInv, Sound
  <2> QED
    BY <1>4, <2>1, <2>2, <2>3
<1>8. CASE HandleDeploy(c)
  BY <1>0, <1>3, <1>8, AssignLess DEF HandleDeploy
<1> QED
  BY <1>1, <1>5, <1>6, <1>7, <1>8

LEMMA RequestAssigns ==
  ASSUME EditInv, AssignInv, Requests
  PROVE  AssignInv'
<1>1. PICK op \in Ops, i \in Nat, r \in Copy, typed \in SUBSET Field, sel, drop \in SUBSET Hosts :
        Asks(op, i, r, typed, sel, drop) /\ Request(op, i, r, typed, sel, drop)
  BY DEF Requests
<1>2. PICK c : c = Call(op, i, r, typed, sel, drop)
  OBVIOUS
<1>3. /\ calls' = calls \cup {c} /\ spent'.calls = spent.calls + 1
  BY <1>1, <1>2, CallIs
<1>4. c.op = op /\ (c.alone <=> calls = {})
  BY <1>2 DEF Call
<1>5. op \notin {"assign", "unassign"}
  BY <1>1 DEF Asks, AsksListed, AsksSettings, AsksNew, AsksForm
<1>6. \A d \in calls : d.n \in 1..spent.calls
  BY DEF EditInv, Sent, CallOf
<1>7. spent.calls \in Nat
  BY Bounds DEF EditInv, Room, Spending
<1>8. ASSUME NEW d \in calls', Unhindered(d)' PROVE d = c /\ calls = {}
  BY <1>3, <1>4, <1>6, <1>7, <1>8 DEF Unhindered
<1> QED
  BY <1>3, <1>4, <1>5, <1>8 DEF AssignInv

(* The three calls of a save keep their order. *)
LEMMA AssignStep == EditInv /\ AssignInv /\ [EditStep]_queryVars => AssignInv'
<1> SUFFICES ASSUME EditInv, AssignInv, [EditStep]_queryVars PROVE AssignInv'
  OBVIOUS
<1>0. spent \in Spending
  BY DEF EditInv, Room
<1>1. CASE Types \/ Sets \/ Ticks
  BY <1>0, <1>1, AssignKept
  DEF Types, Sets, Ticks, Type, Switch, EditSetting, SelectNode, Act, Spending
<1>2. ASSUME NEW at, NEW i, Href(at, i) PROVE AssignInv'
  BY <1>0, <1>2, OrphansAssign DEF Href, Act, Spending
<1>3. ASSUME NEW p, Show(p) PROVE AssignInv'
  BY <1>0, <1>3, AssignKept DEF Show, Act, Spending
<1>4. CASE Follows
  BY <1>2, <1>3, <1>4 DEF Follows, Link
<1>5. CASE Requests
  BY <1>5, RequestAssigns
<1>6. CASE Answers
  BY <1>6, AnswersAssign
<1>7. CASE QueryStep
  <2>1. ASSUME NEW k \in Key, HandleGet(k) \/ Land(k) \/ GetFails(k) \/ Refetch(k) PROVE AssignInv'
    BY <1>0, <2>1, AssignKept DEF HandleGet, Land, GetFails, Refetch, Act, Event, Spending
  <2>2. CASE Back
    BY <1>3, <2>2 DEF Back
  <2>3. CASE CallFails
    BY <1>0, <2>3, AssignLess DEF CallFails, Failed, Event, Spending
  <2>4. CASE OtherOperator
    <3>1. /\ spent.others \in Nat /\ spent'.others = spent.others + 1 /\ calls' = calls
          /\ \A c \in calls : c.others \in 0..spent.others
      BY <1>0, <2>4 DEF OtherOperator, Spending, EditInv, Sent, CallOf
    <3> QED
      BY <3>1 DEF AssignInv, Unhindered
  <2> QED
    BY <1>7, <2>1, <2>2, <2>3, <2>4, HandleAssigns DEF QueryStep
<1>8. CASE UNCHANGED queryVars
  BY <1>8, AssignKept DEF queryVars
<1> QED
  BY <1>1, <1>4, <1>5, <1>6, <1>7, <1>8, EditSteps

LEMMA AssignInit == QueriesInit => AssignInv
BY DEF QueriesInit, AssignInv

LEMMA AssignIs ==
  ASSUME AssignInv, NEW c \in calls,
         section = "applications", c.op \in {"save", "assign", "unassign"},
         c.alone, c.n = spent.calls, c.others = spent.others, Leave(c)
  PROVE  c.sel \subseteq nodesOf[c.id] /\ c.drop \cap nodesOf[c.id] = {}
BY DEF AssignInv, Unhindered, Leave, Answered, NextCall

-----------------------------------------------------------------------------
(* Runs and transfers: the types. *)

ScreenOf == [at : Screen, id : Run \cup {0}, tab : {"", "running", "logs"}]
PressOf == [n : Nat, op : Op, id : Run \cup {0}, stage : {"sent", "done"}, live : BOOLEAN]
UsedOf == [moves : Nat, presses : Nat, troubles : Nat, runs : Nat]
RunTypes ==
    /\ run \in [Run -> RunStatus] /\ transfer \in TransferStatus
    /\ screen \in ScreenOf /\ press \subseteq PressOf /\ used \in UsedOf

LEMMA RunsInitially == RunsInit => RunTypes
<1> SUFFICES ASSUME RunsInit PROVE RunTypes
  OBVIOUS
<1>1. 1 \in Run
  BY RunsAssumption DEF Run
<1>2. run \in [Run -> RunStatus] /\ transfer \in TransferStatus
  <2>1. PICK s \in {"none", "PENDING"} : run = [i \in Run |-> IF i = 1 THEN s ELSE "none"]
    BY DEF RunsInit
  <2>2. \A i \in Run : (IF i = 1 THEN s ELSE "none") \in RunStatus
    BY DEF RunStatus
  <2>3. run \in [Run -> RunStatus]
    BY <2>1, <2>2
  <2>4. transfer \in TransferStatus
    BY DEF RunsInit, TransferStatus
  <2> QED
    BY <2>3, <2>4
<1>3. screen \in ScreenOf
  <2>1. PICK at \in Screen :
          screen = [at |-> at, id |-> IF at = "execution" THEN 1 ELSE 0, tab |-> ""]
    BY DEF RunsInit
  <2>2. (IF at = "execution" THEN 1 ELSE 0) \in Run \cup {0}
    BY <1>1
  <2> QED
    BY <2>1, <2>2 DEF ScreenOf
<1>4. used \in UsedOf /\ press = {}
  BY DEF RunsInit, UsedOf
<1> QED
  BY <1>2, <1>3, <1>4 DEF RunTypes

LEMMA OrphanedAre == press \subseteq PressOf => Orphaned \subseteq PressOf
BY DEF Orphaned, PressOf

LEMMA TakenKeeps ==
  ASSUME press \subseteq PressOf, NEW c \in press, NEW ok \in BOOLEAN, Taken(c, ok)
  PROVE  press' \subseteq PressOf
<1>1. c \in PressOf
  OBVIOUS
<1>2. [c EXCEPT !.stage = "done"] \in PressOf
  BY <1>1 DEF PressOf
<1> QED
  BY <1>2 DEF Taken

LEMMA PressKeeps ==
  ASSUME RunTypes, NEW o \in Op, Press(o)
  PROVE  RunTypes'
<1> DEFINE new == [n |-> used.presses, op |-> o, id |-> screen.id, stage |-> "sent", live |-> TRUE]
<1>0. /\ used \in UsedOf /\ screen \in ScreenOf /\ press \subseteq PressOf
      /\ run \in [Run -> RunStatus] /\ transfer \in TransferStatus
  BY DEF RunTypes
<1>1. press' = press \cup {new}
  BY DEF Press
<1>2. used' = [used EXCEPT !.presses = @ + 1]
  BY DEF Press
<1>3. run' = run /\ transfer' = transfer /\ screen' = screen
  BY DEF Press
<1>4. used.presses \in Nat /\ used.presses + 1 \in Nat
  BY <1>0 DEF UsedOf
<1>5. used' \in UsedOf
  BY <1>0, <1>2, <1>4 DEF UsedOf
<1>6. screen.id \in Run \cup {0}
  BY <1>0 DEF ScreenOf
<1>7. new \in PressOf
  BY <1>4, <1>6 DEF PressOf
<1>8. press' \subseteq PressOf
  BY <1>0, <1>1, <1>7
<1> QED
  BY <1>0, <1>3, <1>5, <1>8 DEF RunTypes

LEMMA OpensKeep ==
  ASSUME RunTypes,
         \/ \E at \in Screen, i \in Run \cup {0} : Open(at, i) /\ press' = Orphaned
         \/ \E at \in Screen : Visit(at)
         \/ FilterStatus \/ OpenLogs
  PROVE  screen' \in ScreenOf /\ press' \subseteq PressOf
<1>0. screen \in ScreenOf /\ press \subseteq PressOf /\ screen.id \in Run \cup {0}
  BY DEF RunTypes, ScreenOf
<1>1. ASSUME NEW at \in Screen, NEW i \in Run \cup {0}, Open(at, i), press' = Orphaned
      PROVE  screen' \in ScreenOf /\ press' \subseteq PressOf
  BY <1>0, <1>1, OrphanedAre DEF Open, ScreenOf
<1>2. ASSUME NEW at \in Screen, Visit(at)
      PROVE  screen' \in ScreenOf /\ press' \subseteq PressOf
  BY <1>0, <1>2 DEF Visit, ScreenOf
<1>3. CASE FilterStatus \/ OpenLogs
  <2>1. press' = press
    BY <1>3 DEF FilterStatus, OpenLogs
  <2>2. \E x \in {"", "running", "logs"} : screen' = [screen EXCEPT !.tab = x]
    BY <1>3 DEF FilterStatus, OpenLogs
  <2> QED
    BY <1>0, <2>1, <2>2 DEF ScreenOf
<1> QED
  BY <1>1, <1>2, <1>3

LEMMA MoveKeeps ==
  ASSUME RunTypes, Move
  PROVE  RunTypes'
<1>1. used.moves + 1 \in Nat
  BY DEF RunTypes, UsedOf
<1>2. used' \in UsedOf /\ UNCHANGED <<run, transfer>>
  BY <1>1 DEF RunTypes, UsedOf, Move
<1>3. {"dashboard", "executions", "execution", "task", "run", "transfers"} = Screen
  BY DEF Screen
<1>4. \/ \E at \in Screen, i \in Run \cup {0} : Open(at, i) /\ press' = Orphaned
      \/ \E at \in Screen : Visit(at)
      \/ FilterStatus \/ OpenLogs
  BY <1>3 DEF Move, Sidebar, Dashboard, Executions, TaskPage, ExecutionHistory, RunPage, Click
<1> QED
  BY <1>2, <1>4, OpensKeep DEF RunTypes

LEMMA HandlePressKeeps ==
  ASSUME RunTypes, HandlePress
  PROVE  RunTypes'
<1>1. PICK c \in press : HandleRun(c) \/ HandleStop(c) \/ HandleTransferCall(c)
  BY DEF HandlePress
<1>0. screen' = screen /\ press \subseteq PressOf /\ used \in UsedOf /\ transfer \in TransferStatus
      /\ run \in [Run -> RunStatus] /\ screen \in ScreenOf
  BY DEF HandlePress, RunTypes
<1>2. CASE HandleRun(c)
  <2>1. PICK n \in 0..2 :
          /\ run' = [i \in Run |-> IF i \in used.runs + 1..used.runs + n THEN "PENDING" ELSE run[i]]
          /\ used' = [used EXCEPT !.runs = @ + n] /\ Taken(c, n = 2)
    BY <1>2 DEF HandleRun
  <2>2. used.runs + n \in Nat /\ used' \in UsedOf
    BY <1>0, <2>1 DEF UsedOf
  <2>3. run' \in [Run -> RunStatus]
    BY <1>0, <2>1 DEF RunStatus
  <2>4. press' \subseteq PressOf
    BY <1>0, <2>1, TakenKeeps
  <2> QED
    BY <1>0, <1>2, <2>2, <2>3, <2>4 DEF HandleRun, RunTypes
<1>3. CASE HandleStop(c)
  <2>1. press' \subseteq PressOf
    BY <1>0, <1>3, TakenKeeps DEF HandleStop
  <2> QED
    BY <1>0, <1>3, <2>1 DEF HandleStop, RunTypes
<1>4. CASE HandleTransferCall(c)
  <2>1. press' \subseteq PressOf
    BY <1>0, <1>4, TakenKeeps DEF HandleTransferCall
  <2>2. transfer' \in TransferStatus
    BY <1>0, <1>4 DEF HandleTransferCall, TransferStatus
  <2>3. used' \in UsedOf
    <3>1. PICK n \in {0, 1} : used' = [used EXCEPT !.runs = @ + n]
      BY <1>4 DEF HandleTransferCall
    <3>2. used.runs + n \in Nat
      BY <1>0 DEF UsedOf
    <3> QED
      BY <1>0, <3>1, <3>2 DEF UsedOf
  <2> QED
    BY <1>0, <1>4, <2>1, <2>2, <2>3 DEF HandleTransferCall, RunTypes
<1> QED
  BY <1>1, <1>2, <1>3, <1>4

(* Runs, transfers, screens and buttons keep their types. *)
LEMMA RunsKeep ==
  ASSUME RunTypes, [RunsStep]_runVars
  PROVE  RunTypes'
<1>0. used.troubles + 1 \in Nat
  BY DEF RunTypes, UsedOf
<1>1. CASE UNCHANGED runVars
  BY <1>1 DEF runVars, RunTypes
<1>2. ASSUME NEW v \in View, HandleView(v) \/ LandView(v) \/ Poll(v) \/ RetryView(v) PROVE RunTypes'
  BY <1>2 DEF HandleView, LandView, Poll, RetryView, RunTypes
<1>3. ASSUME NEW v \in View, ViewFails(v) PROVE RunTypes'
  BY <1>0, <1>3 DEF ViewFails, RunTypes, UsedOf
<1>4. CASE ComeBack \/ TurnAway
  BY <1>0, <1>4 DEF ComeBack, TurnAway, RunTypes, UsedOf
<1>5. CASE Move
  BY <1>5, MoveKeeps
<1>6. CASE RunTask \/ ExecutionDetail \/ FileTransfers
  BY <1>6, PressKeeps DEF RunTask, ExecutionDetail, FileTransfers, CreateTransfer, Op
<1>7. CASE HandlePress
  BY <1>7, HandlePressKeeps
<1>8. CASE PressFails
  <2>1. press' \subseteq PressOf
    BY <1>8, TakenKeeps DEF PressFails, RunTypes
  <2> QED
    BY <1>0, <1>8, <2>1 DEF PressFails, RunTypes, UsedOf
<1>9. CASE AnswerPress
  <2>1. PICK c \in press : Answer(c)
    BY <1>9 DEF AnswerPress
  <2>2. UNCHANGED <<run, transfer, used>>
    BY <1>9 DEF AnswerPress
  <2>3. CASE Open("executions", 0) /\ press' = Orphaned
    <3>1. "executions" \in Screen /\ 0 \in Run \cup {0}
      BY DEF Screen
    <3> QED
      BY <2>2, <2>3, <3>1, OpensKeep DEF RunTypes
  <2>4. CASE press' = press \ {c} /\ UNCHANGED screen
    BY <2>2, <2>4 DEF RunTypes
  <2> QED
    BY <2>1, <2>3, <2>4 DEF Answer
<1>10. ASSUME NEW i \in Run, RunProceeds(i) PROVE RunTypes'
  <2>1. \E s \in RunStatus : run' = [run EXCEPT ![i] = s]
    BY <1>10 DEF RunProceeds, RunStatus
  <2> QED
    BY <1>10, <2>1 DEF RunProceeds, RunTypes
<1>11. CASE TransferProceeds
  BY <1>11 DEF TransferProceeds, TransferStatus, RunTypes
<1> QED
  BY <1>1, <1>2, <1>3, <1>4, <1>5, <1>6, <1>7, <1>8, <1>9, <1>10, <1>11 DEF RunsStep

LEMMA PressIs == RunTypes => screen.at \in Screen /\ \A c \in press : c.op \in Op
BY DEF RunTypes, ScreenOf, PressOf

(* What TypeOK says of rows and pages. *)
LEMMA EditIs ==
  ASSUME EditInv
  PROVE  /\ section \in Sections
         /\ \A i \in Id : Whole(row[i]) /\ Whole(Rows[i]) /\ nodesOf[i] \subseteq Hosts
         /\ Whole(cache["item"].data) /\ Whole(page.form)
         /\ \A k \in Key : cache[k].fetch \in {"idle", "asked", "answered"}
<1>1. \A r \in Copy : Whole(r)
  BY DEF Copy, Full, Whole
<1>2. \A i \in Id : row[i] \in Copy /\ Rows[i] \in Copy /\ nodesOf[i] \in SUBSET Hosts
  BY ListIs DEF EditInv, Stored, Listing
<1>3. cache["item"].data \in Copy /\ page.form \in Copy
  BY DEF EditInv, Opened, PageOf, Cached, Key, Entry, DataOf
<1>4. \A k \in Key : cache[k].fetch \in {"idle", "asked", "answered"}
  BY DEF EditInv, Cached, Entry
<1> QED
  BY <1>1, <1>2, <1>3, <1>4 DEF EditInv, Stored

-----------------------------------------------------------------------------
(* Who is signed in. *)

Known == 0..Len(owner)
Asking == [tab : Tabs, kind : {"me", "page", "login"}, token : Known,
           user : Accounts \cup {None}, mounted : BOOLEAN]
TabState == [client : Known, access : Known, user : Accounts \cup {None},
             at : {"in", "sign-in"}, leaving : BOOLEAN]

SessionTypes ==
    /\ owner \in Seq(Accounts)
    /\ valid \subseteq 1..Len(owner)
    /\ stored \in Known
    /\ tab \in [Tabs -> TabState]
    /\ asked \subseteq Asking

(* An effect that is still mounted has asked with the token its document   *)
(* has, unless the document has lost it since; and a document that waits   *)
(* for a sign-in has no such effect, since it is on another page.          *)
MountedAsks ==
    \A r \in asked : r.kind = "me" /\ r.mounted =>
        tab[r.tab].at = "in" /\ tab[r.tab].client \in {None, r.token}
LoginsWait ==
    \A r \in asked : r.kind = "login" => tab[r.tab].at = "sign-in" /\ r.user \in Accounts

SessionInv == SessionTypes /\ MountedAsks /\ LoginsWait /\ UserIsTokens

(* It holds at the start: nothing was asked and nobody is shown.           *)
LEMMA SessionInitially == SessionInit => SessionInv
<1> SUFFICES ASSUME SessionInit PROVE SessionInv
  OBVIOUS
<1>1. owner \in Seq(Accounts) /\ Len(owner) \in Nat
  <2>1. CASE owner = <<>>
    BY <2>1
  <2>2. ASSUME NEW u \in Accounts, owner = <<u>> PROVE owner \in Seq(Accounts)
    BY <2>2
  <2> QED
    BY <2>1, <2>2 DEF SessionInit
<1>2. stored \in Known /\ 0 \in Known
  BY <1>1 DEF SessionInit, Known
<1>3. valid \subseteq 1..Len(owner)
  BY <1>1, SessionAssumption DEF SessionInit, Token
<1>4. tab \in [Tabs -> TabState]
  BY <1>2 DEF SessionInit, TabState, Document, None
<1>5. asked = {} /\ \A t \in Tabs : tab[t].user = None
  BY DEF SessionInit, Document
<1> QED
  BY <1>1, <1>2, <1>3, <1>4, <1>5
  DEF SessionInv, SessionTypes, MountedAsks, LoginsWait, UserIsTokens

(* The cleanup of a tab's effects keeps every request and changes nothing  *)
(* but the mark of those effects.                                          *)
LEMMA CleanupIs ==
  ASSUME NEW t, NEW rs \in SUBSET Asking, NEW r \in Cleanup(rs, t)
  PROVE  /\ r \in Asking
         /\ \E q \in rs : r.tab = q.tab /\ r.kind = q.kind /\ r.token = q.token
                         /\ r.user = q.user /\ (r.mounted => q.mounted)
         /\ r.tab = t /\ r.kind = "me" => ~r.mounted
<1>1. PICK q \in rs : r = [q EXCEPT !.mounted = (q.tab # t \/ q.kind # "me") /\ @]
  BY DEF Cleanup
<1>2. r \in Asking /\ r.tab = q.tab /\ r.kind = q.kind /\ r.token = q.token /\ r.user = q.user
  BY <1>1 DEF Asking
<1>3. r.mounted = ((q.tab # t \/ q.kind # "me") /\ q.mounted)
  BY <1>1 DEF Asking
<1> QED
  BY <1>2, <1>3

(* A load mounts the layout on a fresh document with the stored token; a   *)
(* change of path mounts it again.                                         *)
LEMMA LayoutKeeps ==
  ASSUME SessionInv, NEW t \in Tabs, NEW d \in TabState, NEW rs \in SUBSET asked,
         Layout(t, d, rs), UNCHANGED <<stored, owner, valid>>,
         \A r \in rs : r.tab = t => r.kind # "login",
         d.user # None /\ d.client # None => owner[d.client] = d.user
  PROVE  SessionInv'
<1> DEFINE at == IF d.access = None THEN "sign-in" ELSE "in"
           new == AskAs(t, "me", d.client, None)
<1>0. Known' = Known /\ Asking' = Asking /\ TabState' = TabState /\ None \in Known
  BY DEF Known, Asking, TabState, SessionInv, SessionTypes, None
<1>1. tab' = [tab EXCEPT ![t] = [d EXCEPT !.at = at]]
  BY DEF Layout
<1>2. tab' \in [Tabs -> TabState] /\ tab'[t].at = at /\ tab'[t].client = d.client
      /\ tab'[t].user = d.user /\ \A u \in Tabs : u # t => tab'[u] = tab[u]
  BY <1>1 DEF TabState, SessionInv, SessionTypes
<1>3. new \in Asking /\ new.kind = "me" /\ new.tab = t /\ new.token = d.client
  BY DEF AskAs, Asking, TabState
<1>4. rs \subseteq Asking
  BY DEF SessionInv, SessionTypes
<1>5. asked' = Cleanup(rs, t) \cup (IF d.access = None THEN {} ELSE {new})
  BY DEF Layout
<1>6. SessionTypes'
  BY <1>0, <1>2, <1>3, <1>4, <1>5, CleanupIs DEF SessionInv, SessionTypes
<1>7. MountedAsks'
  <2> SUFFICES ASSUME NEW r \in asked', r.kind = "me", r.mounted
               PROVE  tab'[r.tab].at = "in" /\ tab'[r.tab].client \in {None, r.token}
    BY DEF MountedAsks
  <2>1. CASE r \in Cleanup(rs, t)
    BY <2>1, <1>2, <1>4, CleanupIs DEF SessionInv, SessionTypes, MountedAsks, Asking
  <2>2. CASE r = new /\ d.access # None
    BY <2>2, <1>2, <1>3
  <2> QED
    BY <2>1, <2>2, <1>5
<1>8. LoginsWait'
  <2> SUFFICES ASSUME NEW r \in asked', r.kind = "login"
               PROVE  tab'[r.tab].at = "sign-in" /\ r.user \in Accounts
    BY DEF LoginsWait
  <2>1. r \in Cleanup(rs, t)
    BY <1>3, <1>5
  <2> QED
    BY <2>1, <1>2, <1>4, CleanupIs DEF SessionInv, SessionTypes, LoginsWait, Asking
<1>9. UserIsTokens'
  BY <1>2 DEF UserIsTokens, SessionInv
<1> QED
  BY <1>6, <1>7, <1>8, <1>9 DEF SessionInv

(* Steps that change no token of the Hub's: a tab may lose its own token,  *)
(* its user and its effects, and requests may end.                         *)
LEMMA DropKeeps ==
  ASSUME SessionInv, NEW t \in Tabs, UNCHANGED owner, valid' \subseteq valid,
         stored' \in {stored, None},
         tab' \in [Tabs -> TabState], \A u \in Tabs : u # t => tab'[u] = tab[u],
         tab'[t].client \in {tab[t].client, None}, tab'[t].user \in {tab[t].user, None},
         asked' \subseteq Asking,
         \A r \in asked' : \E q \in asked :
             /\ r.tab = q.tab /\ r.kind = q.kind /\ r.token = q.token /\ r.user = q.user
             /\ r.mounted => q.mounted,
         tab'[t].at # tab[t].at =>
             /\ tab'[t].at = "sign-in"
             /\ \A r \in asked' : r.tab = t /\ r.kind = "me" => ~r.mounted
  PROVE  SessionInv'
<1>1. SessionTypes'
  BY DEF SessionInv, SessionTypes, Known, None, Asking, TabState
<1>2. MountedAsks'
  <2> SUFFICES ASSUME NEW r \in asked', r.kind = "me", r.mounted
               PROVE  tab'[r.tab].at = "in" /\ tab'[r.tab].client \in {None, r.token}
    BY DEF MountedAsks
  <2>1. PICK q \in asked : r.tab = q.tab /\ r.kind = q.kind /\ r.token = q.token
                           /\ (r.mounted => q.mounted)
    OBVIOUS
  <2>2. tab[r.tab].at = "in" /\ tab[r.tab].client \in {None, r.token} /\ r.tab \in Tabs
    BY <2>1 DEF SessionInv, MountedAsks, SessionTypes, Asking
  <2> QED
    BY <2>2
<1>3. LoginsWait'
  <2> SUFFICES ASSUME NEW r \in asked', r.kind = "login"
               PROVE  tab'[r.tab].at = "sign-in" /\ r.user \in Accounts
    BY DEF LoginsWait
  <2>1. PICK q \in asked : r.tab = q.tab /\ r.kind = q.kind /\ r.user = q.user
    OBVIOUS
  <2>2. tab[r.tab].at = "sign-in" /\ r.user \in Accounts /\ r.tab \in Tabs
    BY <2>1 DEF SessionInv, LoginsWait, SessionTypes, Asking
  <2> QED
    BY <2>2
<1>4. UserIsTokens'
  BY DEF UserIsTokens, SessionInv, None
<1> QED
  BY <1>1, <1>2, <1>3, <1>4 DEF SessionInv

(* What a tab does: it is loaded, moves, asks, signs in and out.           *)
LEMMA TabKeeps ==
  ASSUME SessionInv, NEW t \in Tabs,
         \/ LoadTab(t) \/ LoadSignIn(t) \/ ChangePath(t) \/ PageAsks(t)
         \/ SignIn(t) \/ SignOut(t)
  PROVE  SessionInv'
<1>0. /\ SessionTypes /\ MountedAsks /\ LoginsWait /\ UserIsTokens
      /\ tab \in [Tabs -> TabState] /\ tab[t] \in TabState /\ stored \in Known /\ None \in Known
      /\ asked \subseteq Asking
  BY DEF SessionInv, SessionTypes, Known, None
<1>1. CASE LoadTab(t)
  <2>1. Document(stored) \in TabState /\ Document(stored).user = None
    BY <1>0 DEF Document, TabState
  <2>2. {r \in asked : r.tab # t} \in SUBSET asked
    OBVIOUS
  <2> QED
    BY <1>1, <2>1, <2>2, LayoutKeeps DEF LoadTab
<1>2. CASE LoadSignIn(t)
  <2>1. tab' = [tab EXCEPT ![t] = [Document(stored) EXCEPT !.at = "sign-in"]]
        /\ asked' = {r \in asked : r.tab # t} /\ UNCHANGED <<stored, owner, valid>>
    BY <1>2 DEF LoadSignIn
  <2>2. tab' \in [Tabs -> TabState] /\ tab'[t].user = None
        /\ \A u \in Tabs : u # t => tab'[u] = tab[u]
    BY <2>1, <1>0 DEF Document, TabState, None
  <2>3. SessionTypes'
    BY <2>1, <2>2, <1>0 DEF SessionTypes, Known, Asking, TabState
  <2>4. MountedAsks' /\ LoginsWait'
    BY <2>1, <2>2, <1>0 DEF MountedAsks, LoginsWait, Asking
  <2>5. UserIsTokens'
    BY <2>1, <2>2, <1>0 DEF UserIsTokens
  <2> QED
    BY <2>3, <2>4, <2>5 DEF SessionInv
<1>3. CASE ChangePath(t)
  <2>1. \A r \in asked : r.tab = t => r.kind # "login"
    BY <1>3, <1>0 DEF ChangePath, LoginsWait
  <2>2. tab[t].user # None /\ tab[t].client # None => owner[tab[t].client] = tab[t].user
    BY <1>0 DEF UserIsTokens
  <2> QED
    BY <1>3, <1>0, <2>1, <2>2, LayoutKeeps DEF ChangePath
<1>4. CASE PageAsks(t)
  <2>1. AskAs(t, "page", tab[t].client, None) \in Asking
        /\ AskAs(t, "page", tab[t].client, None).kind = "page"
    BY <1>0 DEF AskAs, Asking, TabState
  <2> QED
    BY <1>4, <1>0, <2>1
    DEF PageAsks, SessionInv, SessionTypes, MountedAsks, LoginsWait, UserIsTokens, Known,
        Asking, TabState
<1>5. CASE SignIn(t)
  <2>1. PICK u \in Accounts : asked' = asked \cup {AskAs(t, "login", tab[t].client, u)}
    BY <1>5 DEF SignIn
  <2> DEFINE new == AskAs(t, "login", tab[t].client, u)
  <2>2. new \in Asking /\ new.kind = "login" /\ new.tab = t /\ new.user = u
    BY <1>0 DEF AskAs, Asking, TabState
  <2>3. tab[t].at = "sign-in" /\ UNCHANGED <<stored, owner, valid, tab>>
    BY <1>5 DEF SignIn
  <2> HIDE DEF new
  <2>4. asked' = asked \cup {new}
    BY <2>1 DEF new
  <2> QED
    BY <1>0, <2>2, <2>3, <2>4
    DEF SessionInv, SessionTypes, MountedAsks, LoginsWait, UserIsTokens, Known, Asking, TabState
<1>6. CASE SignOut(t)
  <2>1. /\ tab' = [tab EXCEPT ![t] = [[Reset(tab[t]) EXCEPT !.at = "sign-in"] EXCEPT !.client = None]]
        /\ stored' = None /\ asked' = Cleanup(asked, t) /\ UNCHANGED <<owner, valid>>
    BY <1>6 DEF SignOut, SetToken
  <2>2. tab' \in [Tabs -> TabState] /\ \A u \in Tabs : u # t => tab'[u] = tab[u]
    BY <2>1, <1>0 DEF Reset, TabState
  <2>3. tab'[t].client = None /\ tab'[t].user = None /\ tab'[t].at = "sign-in"
    BY <2>1, <1>0 DEF Reset, TabState
  <2>4. \A r \in asked' : /\ r \in Asking
                          /\ \E q \in asked : r.tab = q.tab /\ r.kind = q.kind /\ r.token = q.token
                                   /\ r.user = q.user /\ (r.mounted => q.mounted)
                          /\ r.tab = t /\ r.kind = "me" => ~r.mounted
    BY <2>1, <1>0, CleanupIs
  <2> QED
    BY <2>1, <2>2, <2>3, <2>4, DropKeeps
<1> QED
  BY <1>1, <1>2, <1>3, <1>4, <1>5, <1>6

(* What an answer does.                                                    *)
LEMMA AnswerKeeps ==
  ASSUME SessionInv, NEW r \in asked,
         SignedIn(r) \/ MeAnswers(r) \/ MeFails(r) \/ PageAnswered(r) \/ Unauthorized(r)
  PROVE  SessionInv'
<1> DEFINE t == r.tab
<1>0. /\ SessionTypes /\ MountedAsks /\ LoginsWait /\ UserIsTokens
      /\ tab \in [Tabs -> TabState] /\ tab[t] \in TabState /\ t \in Tabs
      /\ stored \in Known /\ None \in Known /\ asked \subseteq Asking /\ r \in Asking
      /\ owner \in Seq(Accounts) /\ Len(owner) \in Nat
  BY DEF SessionInv, SessionTypes, Known, None, Asking
<1>1. CASE SignedIn(r)
  <2> DEFINE token == Len(owner) + 1
  <2>1. /\ r.kind = "login" /\ owner' = Append(owner, r.user) /\ valid' = valid \cup {token}
        /\ tab' = [tab EXCEPT ![t] = [[tab[t] EXCEPT !.access = token, !.user = r.user,
                                                   !.leaving = TRUE] EXCEPT !.client = token]]
        /\ stored' = token /\ asked' = asked \ {r}
    BY <1>1 DEF SignedIn, SetToken
  <2>2. tab[t].at = "sign-in" /\ r.user \in Accounts
    BY <2>1, <1>0 DEF LoginsWait
  <2>3. /\ owner' \in Seq(Accounts) /\ Len(owner') = token
        /\ \A i \in 1..Len(owner) : owner'[i] = owner[i]
        /\ owner'[token] = r.user
    BY <2>1, <2>2, <1>0
  <2>4. Known \subseteq Known' /\ token \in Known'
    BY <2>3, <1>0 DEF Known
  <2>5. \A u \in Tabs : u # t => tab'[u] = tab[u]
    BY <2>1, <1>0
  <2>6. /\ tab'[t].client = token /\ tab'[t].access = token /\ tab'[t].user = r.user
        /\ tab'[t].at = "sign-in" /\ tab'[t].leaving = TRUE
        /\ tab'[t] = [client |-> token, access |-> token, user |-> r.user, at |-> "sign-in",
                      leaving |-> TRUE]
    BY <2>1, <2>2, <1>0 DEF TabState
  <2>7. SessionTypes'
    <3>1. TabState \subseteq TabState' /\ Asking \subseteq Asking'
      BY <2>4 DEF TabState, Asking
    <3>2. tab'[t] \in TabState'
      BY <2>2, <2>4, <2>6 DEF TabState
    <3>3. DOMAIN tab' = Tabs /\ tab' = [u \in Tabs |-> tab'[u]]
      BY <2>1, <1>0
    <3>4. tab' \in [Tabs -> TabState']
      BY <3>1, <3>2, <3>3, <2>5, <1>0
    <3>5. valid' \subseteq 1..Len(owner')
      BY <2>1, <2>3, <1>0 DEF SessionTypes
    <3> QED
      BY <3>1, <3>4, <3>5, <2>1, <2>3, <2>4, <1>0 DEF SessionTypes
  <2>8. MountedAsks' /\ LoginsWait'
    BY <2>1, <2>2, <2>5, <2>6, <1>0 DEF MountedAsks, LoginsWait, Asking
  <2>9. UserIsTokens'
    <3> SUFFICES ASSUME NEW u \in Tabs, tab'[u].user # None, tab'[u].client # None
                 PROVE  owner'[tab'[u].client] = tab'[u].user
      BY DEF UserIsTokens
    <3>1. CASE u = t
      BY <3>1, <2>3, <2>6
    <3>2. CASE u # t
      <4>1. tab[u].client \in 1..Len(owner)
        BY <3>2, <2>5, <1>0 DEF TabState, Known, None
      <4> QED
        BY <4>1, <3>2, <2>3, <2>5, <1>0 DEF UserIsTokens
    <3> QED
      BY <3>1, <3>2
  <2> QED
    BY <2>7, <2>8, <2>9 DEF SessionInv
<1>2. CASE MeAnswers(r) /\ ~r.mounted
  BY <1>2, <1>0
  DEF MeAnswers, SessionInv, SessionTypes, MountedAsks, LoginsWait, UserIsTokens, Known,
      Asking, TabState
<1>3. CASE MeAnswers(r) /\ r.mounted
  <2>1. /\ r.kind = "me" /\ r.token \in valid /\ asked' = asked \ {r}
        /\ tab' = [tab EXCEPT ![t].user = owner[r.token]] /\ UNCHANGED <<stored, owner, valid>>
    BY <1>3 DEF MeAnswers
  <2>2. tab[t].client \in {None, r.token}
    BY <2>1, <1>3, <1>0 DEF MountedAsks
  <2>3. owner[r.token] \in Accounts
    BY <2>1, <1>0 DEF SessionTypes
  <2>4. /\ tab' \in [Tabs -> TabState] /\ \A u \in Tabs : u # t => tab'[u] = tab[u]
        /\ tab'[t].user = owner[r.token] /\ tab'[t].client = tab[t].client
        /\ tab'[t].at = tab[t].at
    BY <2>1, <2>3, <1>0 DEF TabState
  <2>5. SessionTypes'
    BY <2>1, <2>4, <1>0 DEF SessionTypes, Known, Asking, TabState
  <2>6. MountedAsks' /\ LoginsWait'
    BY <2>1, <2>4, <1>0 DEF MountedAsks, LoginsWait, Asking
  <2>7. UserIsTokens'
    BY <2>1, <2>2, <2>4, <1>0 DEF UserIsTokens
  <2> QED
    BY <2>5, <2>6, <2>7 DEF SessionInv
<1>4. CASE MeFails(r)
  <2> DEFINE at == IF tab[t].leaving THEN tab[t].at ELSE "sign-in"
  <2>1. /\ tab' = [tab EXCEPT ![t] = [[Reset(tab[t]) EXCEPT !.at = IF tab[t].leaving THEN @ ELSE "sign-in"]
                                        EXCEPT !.client = None]]
        /\ stored' = None /\ asked' = Cleanup(asked \ {r}, t) /\ UNCHANGED <<owner, valid>>
    BY <1>4 DEF MeFails, SetToken
  <2>2. tab' \in [Tabs -> TabState] /\ \A u \in Tabs : u # t => tab'[u] = tab[u]
    BY <2>1, <1>0 DEF Reset, TabState
  <2>3. tab'[t].client = None /\ tab'[t].user = None /\ tab'[t].at \in {tab[t].at, "sign-in"}
    BY <2>1, <1>0 DEF Reset, TabState
  <2>4. \A q \in asked' : /\ q \in Asking
                          /\ \E p \in asked : q.tab = p.tab /\ q.kind = p.kind /\ q.token = p.token
                                   /\ q.user = p.user /\ (q.mounted => p.mounted)
                          /\ q.tab = t /\ q.kind = "me" => ~q.mounted
    BY <2>1, <1>0, CleanupIs
  <2>5. /\ UNCHANGED owner /\ valid' \subseteq valid /\ stored' \in {stored, None}
        /\ tab'[t].client \in {tab[t].client, None} /\ tab'[t].user \in {tab[t].user, None}
    BY <2>1, <2>3
  <2>6. tab'[t].at # tab[t].at =>
            /\ tab'[t].at = "sign-in"
            /\ \A q \in asked' : q.tab = t /\ q.kind = "me" => ~q.mounted
    BY <2>3, <2>4
  <2>7. /\ asked' \subseteq Asking
        /\ \A q \in asked' : \E p \in asked :
              /\ q.tab = p.tab /\ q.kind = p.kind /\ q.token = p.token /\ q.user = p.user
              /\ q.mounted => p.mounted
    BY <2>4
  <2> HIDE DEF t
  <2> QED
    BY <2>2, <2>5, <2>6, <2>7, <1>0, DropKeeps
<1>5. CASE PageAnswered(r)
  BY <1>5, <1>0
  DEF PageAnswered, SessionInv, SessionTypes, MountedAsks, LoginsWait, UserIsTokens, Known,
      Asking, TabState
<1>6. CASE Unauthorized(r)
  <2>1. /\ tab' = [tab EXCEPT ![t] = [tab[t] EXCEPT !.client = None]]
        /\ stored' = None /\ asked' = asked \ {r} /\ UNCHANGED <<owner, valid>>
    BY <1>6 DEF Unauthorized, SetToken
  <2>2. tab' \in [Tabs -> TabState] /\ \A u \in Tabs : u # t => tab'[u] = tab[u]
    BY <2>1, <1>0 DEF TabState
  <2>3. tab'[t].client = None /\ tab'[t].user = tab[t].user /\ tab'[t].at = tab[t].at
    BY <2>1, <1>0 DEF TabState
  <2>4. asked' \subseteq asked
    BY <2>1
  <2> QED
    BY <2>1, <2>2, <2>3, <2>4, <1>0, DropKeeps
<1> QED
  BY <1>1, <1>2, <1>3, <1>4, <1>5, <1>6

LEMMA SessionKeeps ==
  ASSUME SessionInv, [SessionStep]_sessionVars
  PROVE  SessionInv'
<1>1. CASE UNCHANGED sessionVars
  BY <1>1
  DEF sessionVars, SessionInv, SessionTypes, MountedAsks, LoginsWait, UserIsTokens, Known,
      Asking, TabState
<1>2. CASE SessionsEnd
  BY <1>2
  DEF SessionsEnd, SessionInv, SessionTypes, MountedAsks, LoginsWait, UserIsTokens, Known,
      Asking, TabState
<1>3. CASE SessionStep /\ ~SessionsEnd
  BY <1>3, TabKeeps, AnswerKeeps DEF SessionStep
<1> QED
  BY <1>1, <1>2, <1>3

(* The bound on sessions bounds the tokens. *)
TokensBounded == Len(owner) <= MaxTokens

LEMMA TokensKeep ==
  /\ SessionInit => TokensBounded
  /\ SessionInv /\ TokensBounded /\ [SessionStep]_sessionVars => TokensBounded'
  /\ SessionInv /\ TokensBounded => stored \in Token \cup {None} /\ valid \subseteq Token
<1>1. SessionInit => TokensBounded
  BY SessionAssumption DEF SessionInit, TokensBounded
<1>2. ASSUME SessionInv, TokensBounded, [SessionStep]_sessionVars PROVE TokensBounded'
  <2>1. owner \in Seq(Accounts) /\ Len(owner) \in Nat
    BY <1>2 DEF SessionInv, SessionTypes
  <2>2. ASSUME NEW r \in asked, SignedIn(r) PROVE TokensBounded'
    <3>1. r.user \in Accounts
      BY <1>2, <2>2 DEF SignedIn, SessionInv, LoginsWait
    <3> QED
      BY <2>1, <2>2, <3>1, SessionAssumption DEF SignedIn, TokensBounded
  <2>3. CASE UNCHANGED owner
    BY <1>2, <2>3 DEF TokensBounded
  <2>4. CASE SessionsEnd \/ UNCHANGED sessionVars
    BY <2>3, <2>4 DEF SessionsEnd, sessionVars
  <2>5. ASSUME NEW t \in Tabs,
               LoadTab(t) \/ LoadSignIn(t) \/ ChangePath(t) \/ PageAsks(t) \/ SignIn(t) \/ SignOut(t)
        PROVE  TokensBounded'
    BY <2>3, <2>5 DEF LoadTab, LoadSignIn, ChangePath, PageAsks, SignIn, SignOut
  <2>6. ASSUME NEW r \in asked, MeAnswers(r) \/ MeFails(r) \/ PageAnswered(r) \/ Unauthorized(r)
        PROVE  TokensBounded'
    BY <2>3, <2>6 DEF MeAnswers, MeFails, PageAnswered, Unauthorized
  <2> QED
    BY <1>2, <2>2, <2>4, <2>5, <2>6 DEF SessionStep
<1>3. ASSUME SessionInv, TokensBounded PROVE stored \in Token \cup {None} /\ valid \subseteq Token
  <2>1. Len(owner) \in Nat /\ MaxTokens \in Nat
    BY <1>3, SessionAssumption DEF SessionInv, SessionTypes
  <2> QED
    BY <1>3, <2>1 DEF SessionInv, SessionTypes, TokensBounded, Known, Token, None
<1> QED
  BY <1>1, <1>2, <1>3

-----------------------------------------------------------------------------
(* Which tasks are a node's. *)

TargetTypes ==
    /\ label \in {Absent} \cup Text /\ group \in {NoGroup} \cup Group
    /\ target \in Target /\ draft \in {NoDraft} \cup Target

LEMMA TargetsKeep ==
  ASSUME TargetTypes, [TargetsStep]_targetVars
  PROVE  TargetTypes'
<1>1. CASE UNCHANGED targetVars
  BY <1>1 DEF targetVars, TargetTypes
<1>2. CASE EditTarget
  <2>1. ShownTarget \in Target
    BY DEF ShownTarget, TargetTypes
  <2>2. \A type \in TargetType : ChangeType(type) => TargetTypes'
    BY <2>1 DEF ChangeType, SetTarget, TargetTypes, Target
  <2>3. ToggleNode \/ ToggleGroup => TargetTypes'
    BY <2>1 DEF ToggleNode, ToggleGroup, SetTarget, TargetTypes, Target
  <2>4. TypeLabel => TargetTypes'
    BY <2>1 DEF TypeLabel, SetTarget, TargetTypes, Target
  <2>5. SaveTarget => TargetTypes'
    BY <2>1 DEF SaveTarget, TargetTypes
  <2> QED
    BY <1>2, <2>2, <2>3, <2>4, <2>5 DEF EditTarget
<1>3. CASE DeleteGroup
  <2>1. ASSUME NEW t \in Target PROVE WithoutGroup(t) \in Target
    BY DEF WithoutGroup, Target
  <2>2. WithoutGroup(NoDraft) = NoDraft
    <3>1. NoDraft.gone = FALSE /\ NoDraft.group = FALSE
      BY DEF NoDraft
    <3>2. (NoDraft.gone \/ NoDraft.group) = FALSE
      BY <3>1
    <3>3. WithoutGroup(NoDraft) = [NoDraft EXCEPT !.group = FALSE, !.gone = FALSE]
      BY <3>2, Zenon DEF WithoutGroup
    <3> QED
      BY <3>3 DEF NoDraft
  <2> QED
    BY <1>3, <2>1, <2>2 DEF DeleteGroup, TargetTypes
<1>4. ASSUME NEW v \in Text, SetLabel(v) PROVE TargetTypes'
  BY <1>4 DEF SetLabel, TargetTypes
<1>5. ASSUME NEW g \in Group, SaveGroup(g) PROVE TargetTypes'
  BY <1>5 DEF SaveGroup, TargetTypes
<1> QED
  BY <1>1, <1>2, <1>3, <1>4, <1>5 DEF TargetsStep

(* Where a value is wanted, an absent label, an empty one and a field that *)
(* was left out of the JSON are told apart by both or by neither.          *)
LEMMA TypedTargetsAgree == TargetTypes => TargetsAgree
<1> SUFFICES ASSUME TargetTypes, Resolvable PROVE taskTargetsNode <=> ResolveTarget
  BY DEF TargetsAgree
<1>1. Empty # Absent
  BY DEF Empty, Absent
<1>2. CASE target.type = "node"
  BY <1>2 DEF taskTargetsNode, ResolveTarget
<1>3. CASE target.type = "label"
  <2>1. target.value \in LabelValue
    BY <1>3 DEF Resolvable, TargetTypes, Target, Text
  <2>2. ((IF target.key THEN label ELSE Absent) = target.value)
          <=> (target.key /\ label # Absent /\ label = target.value)
    BY <2>1, LabelAssumption
  <2> QED
    BY <1>1, <1>3, <2>1, <2>2, LabelAssumption DEF taskTargetsNode, ResolveTarget, Json, LabelMatches
<1>4. CASE target.type = "group"
  <2>1. CASE group.type = "label"
    <3>1. group.value \in LabelValue
      BY <1>4, <2>1 DEF Resolvable, TargetTypes, Group, NoGroup, Text
    <3> QED
      BY <1>1, <1>4, <2>1, <3>1, LabelAssumption
      DEF taskTargetsNode, ResolveTarget, Resolvable, Json, LabelMatches, GroupMatches
  <2>2. CASE group.type # "label"
    BY <1>4, <2>2 DEF taskTargetsNode, ResolveTarget, Resolvable, GroupMatches
  <2> QED
    BY <2>1, <2>2
<1> QED
  BY <1>2, <1>3, <1>4 DEF TargetTypes, Target, TargetType

-----------------------------------------------------------------------------
(* The console: a step is one area's and leaves the others' variables.     *)

LEMMA AreasApart ==
  [Next]_vars =>
    /\ [EditStep]_queryVars /\ [RunsStep]_runVars
    /\ [SessionStep]_sessionVars /\ [TargetsStep]_targetVars
  BY DEF Next, vars

LEMMA EditAlways == Spec => []EditInv
<1>1. Init => EditInv
  BY EditInvInit DEF Init
<1>2. EditInv /\ [Next]_vars => EditInv'
  BY AreasApart, EditStepKeeps
<1> QED
  BY <1>1, <1>2, PTL DEF Spec

(* Whatever the pages of the console do and whichever answers are lost,    *)
(* every row the handlers of api.go store, and every copy of it in a form, *)
(* is a whole row of its section: the lists of catalog/index.tsx and the   *)
(* forms of tasks/index.tsx and editors/index.tsx send nothing less, even  *)
(* if nothing was loaded.  Runs, tokens and targets are typed as well.     *)
THEOREM TypesHold == Spec => []TypeOK
<1> DEFINE RestTyped == RunTypes /\ SessionInv /\ TokensBounded /\ TargetTypes
<1>1. Init => RestTyped
  BY RunsInitially, SessionInitially, TokensKeep DEF Init, TargetsInit, TargetTypes
<1>2. RestTyped /\ [Next]_vars => RestTyped'
  BY AreasApart, RunsKeep, SessionKeeps, TokensKeep, TargetsKeep
<1>3. EditInv /\ RestTyped => TypeOK
  BY EditIs, PressIs, TokensKeep DEF TypeOK, RunTypes, TargetTypes
<1> QED
  BY <1>1, <1>2, <1>3, EditAlways, PTL DEF Spec

(* A list that has loaded again since the last change shows the rows this  *)
(* operator has created and the values it has saved: the lists of          *)
(* catalog/index.tsx and tasks/index.tsx invalidate their queries when a   *)
(* call is answered, and a form loads the list in full after a save.       *)
THEOREM OwnChangesShownHolds == Spec => []OwnChangesShown
<1>1. Init /\ EditInv => ShownInv
  BY ShownInit DEF Init
<1>2. EditInv /\ ShownInv /\ [Next]_vars => ShownInv'
  BY AreasApart, ShownStep
<1>3. ShownInv => OwnChangesShown
  BY ShownIs
<1> QED
  BY <1>1, <1>2, <1>3, EditAlways, PTL DEF Spec

(* A value this operator was told is saved is lost only to somebody else,  *)
(* or to a call of the operator's that was about it or was built on an old *)
(* copy: switches (toggleTask of tasks/index.tsx) and forms send whole     *)
(* rows with all they do not change, and api.go stores them whole.         *)
THEOREM OwnChangeSurvivesHolds == Spec => OwnChangeSurvives
<1>1. Init /\ EditInv => SurviveInv
  BY SurviveInit DEF Init
<1>2. EditInv /\ SurviveInv /\ [Next]_vars => SurviveInv'
  BY AreasApart, SurviveStep
<1>3. EditInv /\ SurviveInv /\ [Next]_vars => [\A f \in kept : Undone(f) => Meant(f)]_vars
  BY AreasApart, SurviveIs
<1> QED
  BY <1>1, <1>2, <1>3, EditAlways, PTL DEF Spec, OwnChangeSurvives

(* When the editor of an application leaves after a save, the Hub's        *)
(* assignments are the ticked nodes', though they were changed by three    *)
(* calls (ApplicationEditor of editors/index.tsx) of which any may fail.   *)
THEOREM SavedMeansAssignedHolds == Spec => SavedMeansAssigned
<1>1. Init => AssignInv
  BY AssignInit DEF Init
<1>2. EditInv /\ AssignInv /\ [Next]_vars => AssignInv'
  BY AreasApart, AssignStep
<1>3. AssignInv => \A c \in calls :
         /\ section = "applications" /\ c.op \in {"save", "assign", "unassign"}
         /\ c.alone /\ c.n = spent.calls /\ c.others = spent.others
         /\ Leave(c)
         => c.sel \subseteq nodesOf[c.id] /\ c.drop \cap nodesOf[c.id] = {}
  BY AssignIs
<1> QED
  BY <1>1, <1>2, <1>3, EditAlways, PTL DEF Spec, SavedMeansAssigned

(* A tab never shows one user and acts with another one's token, although  *)
(* the API client keeps a token of its own (lib/api.ts) beside the store's *)
(* (auth-store.ts) and answers of /me may come after signing in again.     *)
THEOREM UserIsTokensHolds == Spec => []UserIsTokens
<1>1. Init => SessionInv
  BY SessionInitially DEF Init
<1>2. SessionInv /\ [Next]_vars => SessionInv'
  BY AreasApart, SessionKeeps
<1>3. SessionInv => UserIsTokens
  BY DEF SessionInv
<1> QED
  BY <1>1, <1>2, <1>3, PTL DEF Spec

(* A node's page lists the tasks that the Hub would send to the node:      *)
(* taskTargetsNode of catalog/index.tsx and ResolveTarget of node.go.      *)
THEOREM TargetsAgreeHolds == Spec => []TargetsAgree
<1>1. Init => TargetTypes
  BY DEF Init, TargetsInit, TargetTypes
<1>2. TargetTypes /\ [Next]_vars => TargetTypes'
  BY AreasApart, TargetsKeep
<1>3. TargetTypes => TargetsAgree
  BY TypedTargetsAgree
<1> QED
  BY <1>1, <1>2, <1>3, PTL DEF Spec

=============================================================================
