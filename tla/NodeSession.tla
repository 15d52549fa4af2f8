----------------------------- MODULE NodeSession -----------------------------
(***************************************************************************)
(* An Agent's registration and connections at the Hub, the node's record   *)
(* there, and the console's pages about the node.                          *)
(*                                                                         *)
(* Every connection has a handler of its own at the Hub: it reads HELLO,   *)
(* heartbeats and inventories, and on its end takes the connection out of  *)
(* the session map.  The heartbeat checker and the operators' requests     *)
(* work on the same map and the same rows at the same time; what one of    *)
(* them reads and the write that depends on it are separate steps.         *)
(*                                                                         *)
(* A node's labels are the set of their keys.  "disabled", a status that   *)
(* nothing in the console sets, behaves as "maintenance".                  *)
(***************************************************************************)
EXTENDS Naturals, Sequences, FiniteSets

CONSTANTS
    MaxConn,    \* bound: connections the Agent opens
    Label,      \* the label keys an operator may add
    Tab,        \* browser tabs with a page about nodes
    MaxPosts,   \* bound: operator requests
    MaxEvents   \* bound: connections and operator requests together

ASSUME ConstantsAssumption == MaxConn \in Nat \ {0} /\ {MaxPosts, MaxEvents} \subseteq Nat

Conn == 1..MaxConn
Node == 1..MaxConn     \* at most one row is created per connection
NoConn == 0
NoNode == 0

Status == {"absent", "online", "offline", "maintenance"}
Row == [status : Status, labels : SUBSET Label, cred : BOOLEAN]
AbsentRow == [status |-> "absent", labels |-> {}, cred |-> FALSE]

Message == [type : {"HELLO", "ENROL", "HEARTBEAT", "INVENTORY"}, node : Node \cup {NoNode}]
Msg(type, n) == [type |-> type, node |-> n]
Ack == [ok : BOOLEAN, node : Node \cup {NoNode}, cred : BOOLEAN]
NoAck == [ok |-> FALSE, node |-> NoNode, cred |-> TRUE]
Rejected == [ok |-> FALSE, node |-> NoNode, cred |-> FALSE]

Step == {"NEW", "READ", "ENROL", "INVENTORY", "LOOK", "UNREGISTER", "OFFLINE",
         "ENDED"}

NoPage == [node |-> NoNode]
Page == [node : Node, status : Status]             \* a row of the list
        \cup [node : Node, labels : SUBSET Label]   \* the node's own page

VARIABLES
    (* Hub *)
    row,        \* the nodes table, with the setting cred:<id>
    rev,        \* global revisions recorded for label changes
    sessions,   \* SessionManager.sessions
    step,       \* per connection: where its handler is
    ident,      \* per connection: connMeta.nodeID
    copy,       \* per connection: the labels of the row it is about to write back
    wire,       \* per connection: "up", "cut" (the Agent has left it), "closed" by the Hub
    checker,    \* the heartbeat checker: [op, node]
    (* Agent *)
    agent,      \* its identity: [node, cred]
    link,       \* the connection it is on
    up, ack,    \* per connection: messages to the Hub, and the HELLO_ACK
    (* console *)
    page,       \* per tab: what it shows
    posts,      \* requests so far
    (* history *)
    acked,      \* connections whose HELLO_ACK the Agent has taken
    author,     \* per node: who wrote the status last
    announced,  \* per node: its labels at the last revision recorded for them
    overtaken,  \* nodes whose labels an older copy has been written over
    usurped     \* an Unregister has removed the session of another connection

hubVars == <<row, rev, sessions, step, ident, copy, wire, checker>>
agentVars == <<agent, link, up, ack>>
consoleVars == <<page, posts>>
history == <<acked, author, announced, overtaken, usurped>>
vars == <<hubVars, agentVars, consoleVars, history>>

Idle == [op |-> "IDLE", node |-> NoNode]

(* A fresh Agent, or one that has enrolled before and whose credential has *)
(* been revoked since.                                                     *)
Init ==
    /\ \/ /\ agent = [node |-> NoNode, cred |-> FALSE]
          /\ row = [n \in Node |-> AbsentRow]
       \/ /\ agent = [node |-> 1, cred |-> TRUE]
          /\ row = [n \in Node |-> IF n # 1 THEN AbsentRow
                                   ELSE [status |-> "offline", labels |-> {}, cred |-> FALSE]]
    /\ rev = 0
    /\ sessions = [n \in Node |-> NoConn]
    /\ step = [c \in Conn |-> "NEW"] /\ ident = [c \in Conn |-> NoNode]
    /\ copy = [c \in Conn |-> {}] /\ wire = [c \in Conn |-> "up"]
    /\ checker = Idle
    /\ link = NoConn
    /\ up = [c \in Conn |-> <<>>] /\ ack = [c \in Conn |-> NoAck]
    /\ page = [t \in Tab |-> NoPage] /\ posts = 0
    /\ acked = {} /\ author = [n \in Node |-> "hub"]
    /\ announced = [n \in Node |-> {}] /\ overtaken = {} /\ usurped = FALSE

Exists(n) == row[n].status # "absent"

(* One more of the events that MaxEvents bounds.  Pages are forgotten once *)
(* no request can come from them any more.                                 *)
Events == Cardinality({c \in Conn : step[c] # "NEW"}) + posts
PagesMatter == posts < MaxPosts /\ Events < MaxEvents
Event ==
    /\ Events < MaxEvents
    /\ page' = IF PagesMatter' THEN page ELSE [t \in Tab |-> NoPage]
AfterHeartbeat_Always(s) == "online"    \* mutant: no CASE in the UPDATE
AfterHeartbeat(s) == IF s = "maintenance" THEN s ELSE "online"

(***************************************************************************)
(* Agent: the connection manager and the handlers it calls.                *)
(***************************************************************************)

(* connectAndServe: the first message says who the Agent is; with no       *)
(* credential it enrols, under its persisted Agent ID if it has one.       *)
Dial(c) ==
    /\ link = NoConn /\ step[c] = "NEW" /\ \A d \in 1..(c - 1) : step[d] # "NEW"
    /\ link' = c
    /\ step' = [step EXCEPT ![c] = "READ"]
    /\ up' = [up EXCEPT ![c] = <<Msg(IF agent.cred THEN "HELLO" ELSE "ENROL", agent.node)>>]
    /\ UNCHANGED <<row, rev, sessions, ident, copy, wire, checker, agent, ack, posts, history>>
    /\ Event

(* The network fails, the Agent restarts, or it reads that the Hub has     *)
(* closed.  What it has sent may still arrive; HELLO_ACK no longer can.    *)
LoseLink ==
    /\ link # NoConn
    /\ link' = NoConn
    /\ wire' = [wire EXCEPT ![link] = IF @ = "up" THEN "cut" ELSE @]
    /\ ack' = [ack EXCEPT ![link] = NoAck]
    /\ UNCHANGED <<row, rev, sessions, step, ident, copy, checker, agent, up,
                   consoleVars, history>>

(* Mutant: the identity of the answer is not kept. *)
OnHelloAck_ForgetsNode ==
    /\ link # NoConn /\ ack[link] # NoAck
    /\ ack' = [ack EXCEPT ![link] = NoAck]
    /\ agent' = IF ack[link].ok THEN agent ELSE [agent EXCEPT !.cred = FALSE]
    /\ acked' = IF ack[link].ok THEN acked \cup {link} ELSE acked
    /\ UNCHANGED <<hubVars, link, up, consoleVars, author, announced, overtaken, usurped>>

OnHelloAck ==
    /\ link # NoConn /\ ack[link] # NoAck
    /\ ack' = [ack EXCEPT ![link] = NoAck]
    /\ IF ack[link].ok
       THEN /\ agent' = [node |-> ack[link].node, cred |-> ack[link].cred \/ agent.cred]
            /\ acked' = acked \cup {link}
            /\ up' = [up EXCEPT ![link] = Append(@, Msg("INVENTORY", ack[link].node))]
       ELSE /\ agent' = [agent EXCEPT !.cred = FALSE]
            /\ UNCHANGED <<acked, up>>
    /\ UNCHANGED <<hubVars, link, consoleVars, author, announced, overtaken, usurped>>

(* periodicLoop: sendHeartbeat and reportInventory, with the node ID the   *)
(* Agent knows (bound: one of each under way).                             *)
Tick(type) ==
    /\ link # NoConn /\ agent.node # NoNode /\ wire[link] = "up"
    /\ \A i \in DOMAIN up[link] : up[link][i].type # type
    /\ type = "INVENTORY" => link \in acked
    /\ up' = [up EXCEPT ![link] = Append(@, Msg(type, agent.node))]
    /\ UNCHANGED <<hubVars, agent, link, ack, consoleVars, history>>

(***************************************************************************)
(* Hub: the handler of connection c.                                       *)
(***************************************************************************)
Reads(c, type) ==
    /\ step[c] = "READ" /\ wire[c] # "closed"
    /\ up[c] # <<>> /\ Head(up[c]).type = type
    /\ up' = [up EXCEPT ![c] = Tail(@)]

Answer(c, a) == ack' = IF link = c THEN [ack EXCEPT ![c] = a] ELSE ack

(* Mutant: a connection that is there already is kept. *)
Register_KeepsOld(c, n, cred) ==
    /\ ident' = [ident EXCEPT ![c] = n]
    /\ sessions' = [sessions EXCEPT ![n] = IF @ = NoConn THEN c ELSE @]
    /\ UNCHANGED wire
    /\ Answer(c, [ok |-> TRUE, node |-> n, cred |-> cred])

(* SessionManager.Register closes the connection it replaces; then         *)
(* HELLO_ACK with whatever credential is stored.                           *)
Register(c, n, cred) ==
    /\ ident' = [ident EXCEPT ![c] = n]
    /\ sessions' = [sessions EXCEPT ![n] = c]
    /\ wire' = [d \in Conn |-> IF d = sessions[n] THEN "closed" ELSE wire[d]]
    /\ Answer(c, [ok |-> TRUE, node |-> n, cred |-> cred])

(* handleHello of a registered Agent.  A wrong credential is answered      *)
(* before the handler ends; nobody is registered.                          *)
HandleHello(c) ==
    /\ Reads(c, "HELLO")
    /\ IF row[Head(up[c]).node].cred
       THEN /\ Register(c, Head(up[c]).node, TRUE)
            /\ UNCHANGED step
       ELSE /\ step' = [step EXCEPT ![c] = "LOOK"]
            /\ Answer(c, Rejected)
            /\ UNCHANGED <<ident, sessions, wire>>
    /\ UNCHANGED <<row, rev, copy, checker, agent, link, consoleVars, history>>

(* RegisterOrUpdate: an unknown Agent ID gets a row and a credential of    *)
(* its own ...                                                             *)
HandleEnrol(c) ==
    /\ Reads(c, "ENROL") /\ Head(up[c]).node = NoNode
    /\ \E n \in Node :
          /\ ~Exists(n) /\ \A m \in 1..(n - 1) : Exists(m)
          /\ row' = [row EXCEPT ![n] = [status |-> "online", labels |-> {}, cred |-> TRUE]]
          /\ author' = [author EXCEPT ![n] = "hub"]
          /\ Register(c, n, TRUE)
    /\ UNCHANGED <<rev, step, copy, checker, agent, link, consoleVars,
                   acked, announced, overtaken, usurped>>

(* ... the row of a known one is read ...                                  *)
HandleEnrolAgain(c) ==
    /\ Reads(c, "ENROL") /\ Head(up[c]).node # NoNode
    /\ step' = [step EXCEPT ![c] = "ENROL"]
    /\ ident' = [ident EXCEPT ![c] = Head(up[c]).node]
    /\ copy' = [copy EXCEPT ![c] = row[Head(up[c]).node].labels]
    /\ UNCHANGED <<row, rev, sessions, wire, checker, agent, link, ack, consoleVars, history>>

(* ... and written back (UpsertNode of an existing row: every column but   *)
(* status, revision and sync status), as handleInventory does too.         *)
WriteBack(c, n) ==
    /\ step' = [step EXCEPT ![c] = "READ"]
    /\ row' = [row EXCEPT ![n].labels = copy[c]]
    /\ overtaken' = IF copy[c] = row[n].labels THEN overtaken ELSE overtaken \cup {n}
    /\ copy' = [copy EXCEPT ![c] = {}]
    /\ UNCHANGED <<rev, checker, agent, link, up, consoleVars, acked, author, announced,
                   usurped>>
EnrolUpsert(c) ==
    /\ step[c] = "ENROL"
    /\ WriteBack(c, ident[c]) /\ Register(c, ident[c], row[ident[c]].cred)
InventoryUpsert(c) ==
    step[c] = "INVENTORY" /\ WriteBack(c, ident[c]) /\ UNCHANGED <<ident, sessions, wire, ack>>

(* UpdateNodeHeartbeat of the node the message names. *)
HandleHeartbeat(c) ==
    /\ Reads(c, "HEARTBEAT")
    /\ LET n == Head(up[c]).node
       IN /\ row' = [row EXCEPT ![n].status = AfterHeartbeat(@)]
          /\ author' = [author EXCEPT ![n] = "hub"]
    /\ UNCHANGED <<rev, sessions, step, ident, copy, wire, checker, agent, link, ack,
                   consoleVars, acked, announced, overtaken, usurped>>

HandleInventory(c) ==
    /\ Reads(c, "INVENTORY")
    /\ step' = [step EXCEPT ![c] = "INVENTORY"]
    /\ copy' = [copy EXCEPT ![c] = row[ident[c]].labels]
    /\ UNCHANGED <<row, rev, sessions, ident, wire, checker, agent, link, ack,
                   consoleVars, history>>

(* The read fails: the Hub has closed the connection, or the Agent has.    *)
(* Messages not read yet are lost.                                         *)
ReadError(c) ==
    /\ step[c] = "READ" /\ wire[c] # "up"
    /\ step' = [step EXCEPT ![c] = "LOOK"]
    /\ up' = [up EXCEPT ![c] = <<>>]
    /\ UNCHANGED <<row, rev, sessions, ident, copy, wire, checker, agent, link, ack,
                   consoleVars, history>>

(* Mutant: a missing session needs no handling. *)
LookUp_NoneIsDone(c) ==
    /\ step[c] = "LOOK"
    /\ LET n == ident[c]
           next == IF n # NoNode /\ sessions[n] = c THEN "UNREGISTER" ELSE "ENDED"
       IN /\ step' = [step EXCEPT ![c] = next]
          /\ wire' = IF next = "ENDED" THEN [wire EXCEPT ![c] = "closed"] ELSE wire
    /\ UNCHANGED <<row, rev, sessions, ident, copy, checker, agentVars, consoleVars, history>>

(* Mutant: the session is taken for this connection's whoever holds it. *)
LookUp_Mine(c) ==
    /\ step[c] = "LOOK"
    /\ step' = [step EXCEPT ![c] = IF ident[c] = NoNode THEN "ENDED" ELSE "OFFLINE"]
    /\ UNCHANGED <<row, rev, sessions, ident, copy, wire, checker, agentVars, consoleVars,
                   history>>

(* handleDisconnect: look who is registered ...                            *)
LookUp(c) ==
    /\ step[c] = "LOOK"
    /\ LET n == ident[c]
           next == CASE n = NoNode -> "ENDED"
                     [] n # NoNode /\ sessions[n] = NoConn -> "OFFLINE"
                     [] n # NoNode /\ sessions[n] = c -> "UNREGISTER"
                     [] OTHER -> "ENDED"
       IN /\ step' = [step EXCEPT ![c] = next]
          /\ wire' = IF next = "ENDED" THEN [wire EXCEPT ![c] = "closed"] ELSE wire
    /\ UNCHANGED <<row, rev, sessions, ident, copy, checker, agentVars, consoleVars, history>>

(* ... then take the node, not the connection, out of the session map ...  *)
Unregister(c) ==
    /\ step[c] = "UNREGISTER"
    /\ step' = [step EXCEPT ![c] = "OFFLINE"]
    /\ sessions' = [sessions EXCEPT ![ident[c]] = NoConn]
    /\ usurped' = (usurped \/ sessions[ident[c]] \notin {c, NoConn})
    /\ UNCHANGED <<row, rev, ident, copy, wire, checker, agentVars, consoleVars,
                   acked, author, announced, overtaken>>

(* ... and mark it offline. *)
MarkOffline(c) ==
    /\ step[c] = "OFFLINE"
    /\ step' = [step EXCEPT ![c] = "ENDED"]
    /\ wire' = [wire EXCEPT ![c] = "closed"]
    /\ row' = [row EXCEPT ![ident[c]].status = "offline"]
    /\ author' = [author EXCEPT ![ident[c]] = "hub"]
    /\ UNCHANGED <<rev, sessions, ident, copy, checker, agentVars, consoleVars,
                   acked, announced, overtaken, usurped>>

(***************************************************************************)
(* Hub: StartHeartbeatChecker.  A connection is stale when its Agent has   *)
(* been off it for longer than the timeout.                                *)
(***************************************************************************)
FindStale(n) ==
    /\ checker = Idle
    /\ sessions[n] # NoConn /\ link # sessions[n]
    /\ checker' = [op |-> "OFFLINE", node |-> n]
    /\ UNCHANGED <<row, rev, sessions, step, ident, copy, wire, agentVars, consoleVars, history>>

OnTimeout ==
    /\ checker.op = "OFFLINE"
    /\ checker' = [checker EXCEPT !.op = "CLOSE"]
    /\ row' = [row EXCEPT ![checker.node].status = "offline"]
    /\ author' = [author EXCEPT ![checker.node] = "hub"]
    /\ UNCHANGED <<rev, sessions, step, ident, copy, wire, agentVars, consoleVars,
                   acked, announced, overtaken, usurped>>

CloseStale ==
    /\ checker.op = "CLOSE"
    /\ checker' = [checker EXCEPT !.op = "UNREGISTER"]
    /\ wire' = [c \in Conn |-> IF c = sessions[checker.node] THEN "closed" ELSE wire[c]]
    /\ UNCHANGED <<row, rev, sessions, step, ident, copy, agentVars, consoleVars, history>>

UnregisterStale ==
    /\ checker.op = "UNREGISTER"
    /\ checker' = Idle
    /\ LET c == sessions[checker.node]
       IN usurped' = (usurped \/ (c # NoConn /\ wire[c] # "closed"))
    /\ sessions' = [sessions EXCEPT ![checker.node] = NoConn]
    /\ UNCHANGED <<row, rev, step, ident, copy, wire, agentVars, consoleVars,
                   acked, author, announced, overtaken>>

(***************************************************************************)
(* Console: the list of nodes (Agents) and a node's page (AgentDetail),    *)
(* and the Hub's handler of their requests.                                *)
(***************************************************************************)

(* A query is answered: on opening the page, after a request of the tab    *)
(* has succeeded, on focus.  The page may stay as it is for any time.      *)
Fetch(t, n) ==
    /\ Exists(n) /\ PagesMatter
    /\ \E p \in {[node |-> n, status |-> row[n].status], [node |-> n, labels |-> row[n].labels]} :
          page[t] # p /\ page' = [page EXCEPT ![t] = p]
    /\ UNCHANGED <<hubVars, agentVars, posts, history>>

Request ==
    /\ posts < MaxPosts
    /\ posts' = posts + 1
    /\ UNCHANGED <<sessions, step, ident, copy, wire, checker, agentVars,
                   acked, overtaken, usurped>>
    /\ Event

(* handleNodeByID: SetNodeStatus ... *)
PostStatus(n, s) ==
    /\ Request
    /\ row' = [row EXCEPT ![n].status = s]
    /\ author' = [author EXCEPT ![n] = "operator"]
    /\ UNCHANGED <<rev, announced>>

(* Mutant: the change of the labels is not recorded. *)
PostLabels_NoRevision(n, labels) ==
    /\ Request
    /\ row' = [row EXCEPT ![n].labels = labels]
    /\ UNCHANGED <<rev, announced, author>>

(* ... or SetLabels, the whole map, with a revision of its own.            *)
PostLabels(n, labels) ==
    /\ Request
    /\ row' = [row EXCEPT ![n].labels = labels]
    /\ rev' = rev + 1
    /\ announced' = [announced EXCEPT ![n] = labels]
    /\ UNCHANGED author

(* Mutant: the menu sends the name of its entry. *)
Agents_SendsEntry(t) ==
    /\ "status" \in DOMAIN page[t]
    /\ \E s \in {"online", IF page[t].status = "maintenance" THEN "resume" ELSE "maintenance"} :
          PostStatus(page[t].node, s)

(* The row's menu: the status the toggle asks for is the opposite of the   *)
(* one shown; "set online" is offered whatever the node is.                *)
Agents(t) ==
    /\ "status" \in DOMAIN page[t]
    /\ \E s \in {"online", IF page[t].status = "maintenance" THEN "online" ELSE "maintenance"} :
          PostStatus(page[t].node, s)

(* Mutant: only the new label goes out. *)
AgentDetail_NewOnly(t) ==
    /\ "labels" \in DOMAIN page[t]
    /\ \E l \in Label : PostLabels(page[t].node, {l})

(* updateLabels: the map the page shows goes out with the new key.         *)
AddLabel(t, l) == PostLabels(page[t].node, page[t].labels \cup {l})
AgentDetail(t) == "labels" \in DOMAIN page[t] /\ \E l \in Label : AddLabel(t, l)

(* revoke-credential, by an administrator. *)
RevokeCredential(n) ==
    /\ row[n].cred
    /\ Request
    /\ row' = [row EXCEPT ![n].cred = FALSE]
    /\ UNCHANGED <<rev, author, announced>>

-----------------------------------------------------------------------------

Handler(c) ==
    \/ HandleHello(c) \/ HandleEnrol(c) \/ HandleEnrolAgain(c) \/ EnrolUpsert(c)
    \/ HandleHeartbeat(c) \/ HandleInventory(c) \/ InventoryUpsert(c)
    \/ LookUp(c) \/ Unregister(c) \/ MarkOffline(c)

Next ==
    \/ \E c \in Conn : Dial(c) \/ Handler(c) \/ ReadError(c)
    \/ LoseLink \/ OnHelloAck \/ \E type \in {"HEARTBEAT", "INVENTORY"} : Tick(type)
    \/ \E n \in Node : FindStale(n) \/ RevokeCredential(n)
    \/ OnTimeout \/ CloseStale \/ UnregisterStale
    \/ \E t \in Tab : Agents(t) \/ AgentDetail(t)
                      \/ \E n \in Node : Fetch(t, n)

Spec == Init /\ [][Next]_vars

(***************************************************************************)
(* The handlers and the checker go on; a closed connection is noticed on   *)
(* both sides (one the Agent has only left, by the checker alone); the     *)
(* Agent redials and sends heartbeats.  Nobody has to do anything.         *)
(***************************************************************************)
Fairness ==
    /\ \A c \in Conn : /\ WF_vars(Dial(c)) /\ WF_vars(Handler(c))
                       /\ WF_vars(wire[c] = "closed" /\ ReadError(c))
    /\ WF_vars(link # NoConn /\ wire[link] = "closed" /\ LoseLink)
    /\ WF_vars(OnHelloAck) /\ WF_vars(Tick("HEARTBEAT"))
    /\ \A n \in Node : WF_vars(FindStale(n))
    /\ WF_vars(OnTimeout) /\ WF_vars(CloseStale) /\ WF_vars(UnregisterStale)

FairSpec == Spec /\ Fairness

-----------------------------------------------------------------------------

(* Every variable holds a value of its kind. *)
TypeOK ==
    /\ row \in [Node -> Row] /\ rev \in 0..MaxPosts
    /\ sessions \in [Node -> Conn \cup {NoConn}]
    /\ step \in [Conn -> Step] /\ ident \in [Conn -> Node \cup {NoNode}]
    /\ copy \in [Conn -> SUBSET Label] /\ wire \in [Conn -> {"up", "cut", "closed"}]
    /\ checker \in [op : {"IDLE", "OFFLINE", "CLOSE", "UNREGISTER"}, node : Node \cup {NoNode}]
    /\ agent \in [node : Node \cup {NoNode}, cred : BOOLEAN] /\ link \in Conn \cup {NoConn}
    /\ up \in [Conn -> Seq(Message)] /\ ack \in [Conn -> Ack]
    /\ page \in [Tab -> Page \cup {NoPage}]
    /\ posts \in 0..MaxPosts
    /\ acked \subseteq Conn /\ author \in [Node -> {"hub", "operator"}]
    /\ announced \in [Node -> SUBSET Label] /\ overtaken \subseteq Node
    /\ usurped \in BOOLEAN

(* A connection whose handler has ended is in the session map under no     *)
(* node, in whatever order HELLOs, ends and the checker come: the Hub      *)
(* never goes on sending to it (Register, handleDisconnect).               *)
NoDeadSession ==
    \A c \in Conn : step[c] = "ENDED" => \A n \in Node : sessions[n] # c

(* Once every connection of a node has ended, its record says offline,     *)
(* unless an operator has set the status since: no handler that comes late *)
(* leaves the node online (handleDisconnect, handleHeartbeat, the checker).*)
DownIsShown ==
    \A n \in Node :
        Exists(n) /\ (\A c \in Conn : ident[c] = n => step[c] \in {"NEW", "ENDED"}) =>
            row[n].status = "offline" \/ author[n] = "operator"

(* A node's labels are those of the last revision recorded for them, so    *)
(* that Agents have been told, unless an inventory or an enrolment has     *)
(* written back a row it had read before (SetLabels, UpsertNode).          *)
LabelsAnnounced ==
    \A n \in Node : row[n].labels = announced[n] \/ n \in overtaken

(* A label disappears from the record only because a row read before is    *)
(* written back, or because a page that does not show the record's labels  *)
(* sends its own (updateLabels, handleInventory, RegisterOrUpdate).        *)
LabelsLostByStaleCopies ==
    [][\A n \in Node : ~(row[n].labels \subseteq row'[n].labels) =>
          \/ n \in overtaken'
          \/ \E t \in Tab : /\ page[t].node = n /\ "labels" \in DOMAIN page[t]
                            /\ page[t].labels # row[n].labels]_vars

(* A row that is not the Agent's own comes from an enrolment whose answer  *)
(* the Agent has not taken (RegisterOrUpdate, OnHelloAck).                 *)
OneRowPerAgent ==
    \A n \in Node : Exists(n) =>
        \/ n = agent.node
        \/ \E c \in Conn : ident[c] = n /\ c \notin acked

(* A node in maintenance leaves it by an operator, or by being marked      *)
(* offline: heartbeats and enrolments keep it (UpdateNodeHeartbeat).       *)
MaintenanceKept ==
    [][\A n \in Node : row[n].status = "maintenance" /\ row'[n].status # "maintenance" =>
          author'[n] = "operator" \/ row'[n].status = "offline"]_vars

(* Once an Agent stays on a connection, the Hub has that connection for    *)
(* its node for good, and shows the node as up again and again, whatever   *)
(* ended before, unless an Unregister has hit the wrong connection.        *)
Reachable ==
    (\E c \in Conn : <>[](link = c /\ c \in acked)) =>
        \E n \in Node :
            /\ <>[](agent.node = n /\ (usurped \/ sessions[n] = link))
            /\ []<>(row[n].status \in {"online", "maintenance"})

=============================================================================
