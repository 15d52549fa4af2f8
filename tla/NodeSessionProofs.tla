-------------------------- MODULE NodeSessionProofs --------------------------
(***************************************************************************)
(* Invariants of an Agent's connections for every number of connections,   *)
(* tabs, labels and requests: the types, that no ended connection stays in *)
(* the session map, that labels are those announced unless an older copy   *)
(* was written over them, that a record says offline once the connections  *)
(* of its node have ended, and what can take a node out of maintenance or  *)
(* a label off a record.                                                   *)
(***************************************************************************)
EXTENDS NodeSession, SequenceTheorems, TLAPS

-----------------------------------------------------------------------------
(* The inductive invariant. *)

(* The revision counts requests; a connection the Agent is on was dialled, *)
(* and a credential belongs to a node.                                     *)
Counted == rev <= posts
Linked ==
    /\ link # NoConn => step[link] # "NEW"
    /\ agent.cred => agent.node \in Node

(* In the queue q of a connection identified as n: who the Agent is comes  *)
(* first and only once, and inventories follow the answer to it.           *)
Queue(q, n) ==
    \A i \in DOMAIN q :
        /\ q[i].type = "HELLO" => q[i].node \in Node
        /\ q[i].type = "INVENTORY" => n \in Node
        /\ q[i].type \in {"HELLO", "ENROL"} => i = 1 /\ n = NoNode

(* A connection is identified when its handler needs it to be. *)
Identified(c) ==
    /\ step[c] = "NEW" => ident[c] = NoNode /\ up[c] = <<>>
    /\ step[c] \in {"ENROL", "INVENTORY", "UNREGISTER", "OFFLINE"} => ident[c] \in Node
    /\ c \in acked \/ ack[c].ok => ident[c] \in Node
    /\ ack[c].ok => ack[c].node \in Node
    /\ Queue(up[c], ident[c])

(* The session map holds a connection under its own node only, and none    *)
(* whose handler is past Unregister.                                       *)
Registered ==
    \A n \in Node, c \in Conn : sessions[n] = c =>
        ident[c] = n /\ step[c] \in {"READ", "INVENTORY", "LOOK", "UNREGISTER"}

(* A page is of a node that has a record.  Labels of a node without one    *)
(* come only from a copy written back.                                     *)
PagesExist == \A t \in Tab : page[t] # NoPage => Exists(page[t].node)
Unlabelled ==
    \A n \in Node : ~Exists(n) =>
        n \in overtaken \/ (row[n].labels = {} /\ announced[n] = {})

NodeInv ==
    /\ TypeOK /\ Counted /\ Linked
    /\ \A c \in Conn : Identified(c)
    /\ Registered

LabelInv == PagesExist /\ Unlabelled /\ LabelsAnnounced

-----------------------------------------------------------------------------
(* Facts about the constants and the queues. *)

(* The constants of the records have the types of their fields. *)
LEMMA Kinds ==
  /\ NoAck \in Ack /\ Rejected \in Ack /\ AbsentRow \in Row
  /\ NoAck.ok = FALSE /\ Rejected.ok = FALSE
  /\ AbsentRow.status = "absent" /\ AbsentRow.labels = {}
  /\ 1 \in Node /\ Conn = Node /\ NoNode \notin Node /\ NoConn \notin Conn
  /\ Conn \subseteq Nat
  /\ NoPage \notin Page /\ DOMAIN NoPage = {"node"} /\ NoPage.node = NoNode
BY ConstantsAssumption
DEF NoAck, Rejected, Ack, AbsentRow, Row, Status, NoPage, Page, Node, Conn, NoNode, NoConn

(* A message and an answer are made of their parts. *)
LEMMA Parts ==
  /\ \A type \in {"HELLO", "ENROL", "HEARTBEAT", "INVENTORY"}, n \in Node \cup {NoNode} :
        Msg(type, n) \in Message /\ Msg(type, n).type = type /\ Msg(type, n).node = n
  /\ \A n \in Node \cup {NoNode}, c \in BOOLEAN :
        LET a == [ok |-> TRUE, node |-> n, cred |-> c] IN a \in Ack /\ a.ok /\ a.node = n
  /\ \A a \in Ack : a.ok \in BOOLEAN /\ a.node \in Node \cup {NoNode} /\ a.cred \in BOOLEAN
  /\ \A r \in Row : r.status \in Status /\ r.labels \subseteq Label /\ r.cred \in BOOLEAN
BY DEF Msg, Message, Ack, Row

(* A page that is shown is of a node, with a status or with labels. *)
LEMMA PageFields ==
  ASSUME TypeOK, NEW t \in Tab
  PROVE  /\ page[t] # NoPage => page[t].node \in Node
         /\ "status" \in DOMAIN page[t] => page[t] # NoPage /\ page[t].status \in Status
         /\ "labels" \in DOMAIN page[t] => page[t] # NoPage /\ page[t].labels \subseteq Label
<1>1. page[t] \in Page \cup {NoPage}
  BY DEF TypeOK
<1> QED
  BY <1>1, Kinds DEF Page

(* Taking a message from a queue leaves a queue that says nothing of who   *)
(* the Agent is, and is one for any node from then on.                     *)
LEMMA ReadIs ==
  ASSUME NodeInv, NEW c \in Conn, NEW type, Reads(c, type)
  PROVE  /\ Head(up[c]) \in Message /\ Head(up[c]).type = type
         /\ Head(up[c]).node \in Node \cup {NoNode}
         /\ type = "HELLO" => Head(up[c]).node \in Node
         /\ type = "INVENTORY" => ident[c] \in Node
         /\ type \in {"HELLO", "ENROL"} => ident[c] = NoNode
         /\ up' = [up EXCEPT ![c] = Tail(@)] /\ up' \in [Conn -> Seq(Message)]
         /\ \A n \in Node \cup {ident[c]} : Queue(up'[c], n)
         /\ step[c] = "READ"
<1>1. up[c] \in Seq(Message) /\ up[c] # <<>> /\ Queue(up[c], ident[c])
  BY DEF NodeInv, TypeOK, Reads, Identified
<1>2. Head(up[c]) \in Message /\ Tail(up[c]) \in Seq(Message)
  BY <1>1
<1>3. 1 \in DOMAIN up[c] /\ Head(up[c]) = up[c][1]
  BY <1>1
<1>4. \A i \in DOMAIN Tail(up[c]) :
          i + 1 \in DOMAIN up[c] /\ Tail(up[c])[i] = up[c][i + 1] /\ i + 1 # 1
  BY <1>1
<1>5. up' = [up EXCEPT ![c] = Tail(@)] /\ up'[c] = Tail(up[c]) /\ Head(up[c]).type = type
  BY DEF Reads, NodeInv, TypeOK
<1>6. ASSUME NEW n \in Node \cup {ident[c]} PROVE Queue(up'[c], n)
  <2> SUFFICES ASSUME NEW i \in DOMAIN Tail(up[c])
               PROVE  LET m == Tail(up[c])[i] IN
                      /\ m.type = "HELLO" => m.node \in Node
                      /\ m.type = "INVENTORY" => n \in Node
                      /\ m.type \in {"HELLO", "ENROL"} => i = 1 /\ n = NoNode
    BY <1>5 DEF Queue
  <2>1. i + 1 \in DOMAIN up[c] /\ Tail(up[c])[i] = up[c][i + 1] /\ i + 1 # 1
    BY <1>4
  <2> QED
    BY <1>1, <2>1 DEF Queue
<1>7. up' \in [Conn -> Seq(Message)]
  BY <1>2, <1>5 DEF NodeInv, TypeOK
<1> QED
  BY <1>1, <1>2, <1>3, <1>5, <1>6, <1>7 DEF Reads, Message, Queue

(* Sending one of the later messages keeps a queue one. *)
LEMMA AppendIs ==
  ASSUME NEW q \in Seq(Message), NEW n, Queue(q, n), NEW m \in Message,
         m.type \in {"HEARTBEAT", "INVENTORY"}, m.type = "INVENTORY" => n \in Node
  PROVE  Append(q, m) \in Seq(Message) /\ Queue(Append(q, m), n)
<1>1. \A i \in DOMAIN Append(q, m) :
          Append(q, m)[i] = m \/ (i \in DOMAIN q /\ Append(q, m)[i] = q[i])
  OBVIOUS
<1> QED
  BY <1>1 DEF Queue

(* At the start everything is empty. *)
LEMMA NodeInit == Init => NodeInv /\ LabelInv
<1> SUFFICES ASSUME Init PROVE NodeInv /\ LabelInv
  OBVIOUS
<1>1. /\ agent \in [node : Node \cup {NoNode}, cred : BOOLEAN] /\ (agent.cred => agent.node \in Node)
      /\ row \in [Node -> Row] /\ \A n \in Node : row[n].labels = {}
  <2> DEFINE known == [status |-> "offline", labels |-> {}, cred |-> FALSE]
  <2>1. known \in Row /\ known.labels = {}
    BY DEF Row, Status
  <2>2. row \in [Node -> {AbsentRow, known}]
    BY DEF Init
  <2>3. row \in [Node -> Row] /\ \A n \in Node : row[n].labels = {}
    BY <2>1, <2>2, Kinds
  <2>4. \/ agent = [node |-> NoNode, cred |-> FALSE]
        \/ agent = [node |-> 1, cred |-> TRUE]
    BY DEF Init
  <2>5. NoNode \in Node \cup {NoNode} /\ 1 \in Node \cup {NoNode} /\ 1 \in Node
    BY Kinds
  <2>6. agent \in [node : Node \cup {NoNode}, cred : BOOLEAN]
    <3>1. \A n \in Node \cup {NoNode}, b \in BOOLEAN :
              [node |-> n, cred |-> b] \in [node : Node \cup {NoNode}, cred : BOOLEAN]
      OBVIOUS
    <3>2. CASE agent = [node |-> NoNode, cred |-> FALSE]
      BY <2>5, <3>1, <3>2, Zenon
    <3>3. CASE agent = [node |-> 1, cred |-> TRUE]
      BY <2>5, <3>1, <3>3, Zenon
    <3> QED
      BY <2>4, <3>2, <3>3
  <2>7. agent.cred => agent.node \in Node
    BY <2>4, <2>5
  <2> QED
    BY <2>3, <2>6, <2>7
<1>2. TypeOK /\ Counted
  <2>1. 0 \in 0..MaxPosts
    BY ConstantsAssumption
  <2>2. /\ step \in [Conn -> Step] /\ wire \in [Conn -> {"up", "cut", "closed"}]
        /\ checker \in [op : {"IDLE", "OFFLINE", "CLOSE", "UNREGISTER"}, node : Node \cup {NoNode}]
        /\ up \in [Conn -> Seq(Message)] /\ ack \in [Conn -> Ack]
        /\ page \in [Tab -> Page \cup {NoPage}]
    BY Kinds DEF Init, Step, Idle
  <2>3. /\ rev \in 0..MaxPosts /\ posts \in 0..MaxPosts /\ rev <= posts
        /\ sessions \in [Node -> Conn \cup {NoConn}] /\ ident \in [Conn -> Node \cup {NoNode}]
        /\ copy \in [Conn -> SUBSET Label] /\ link \in Conn \cup {NoConn}
    BY <2>1 DEF Init
  <2>4. /\ acked \subseteq Conn /\ author \in [Node -> {"hub", "operator"}]
        /\ announced \in [Node -> SUBSET Label] /\ overtaken \subseteq Node /\ usurped \in BOOLEAN
    BY DEF Init
  <2> QED
    BY <1>1, <2>2, <2>3, <2>4 DEF TypeOK, Counted
<1>3. \A c \in Conn : Identified(c)
  BY Kinds DEF Init, Identified, Queue
<1>4. Linked /\ Registered
  BY <1>1, Kinds DEF Init, Linked, Registered
<1>5. LabelInv
  BY <1>1, Kinds DEF Init, LabelInv, PagesExist, Unlabelled, LabelsAnnounced
<1> QED
  BY <1>2, <1>3, <1>4, <1>5 DEF NodeInv

-----------------------------------------------------------------------------
(* Steps: connections and the session map. *)

(* A connection that a step leaves alone, or only takes an answer from.    *)
LEMMA IdentifiedKept ==
  ASSUME NEW d \in Conn, Identified(d), step'[d] = step[d], ident'[d] = ident[d],
         up'[d] = up[d], ack'[d] = ack[d] \/ ~ack'[d].ok, d \in acked' => d \in acked
  PROVE  Identified(d)'
BY DEF Identified, Queue

(* Steps that change nothing of the connections and the session map.       *)
LEMMA QuietStep ==
  ASSUME NodeInv, TypeOK', Counted', UNCHANGED <<step, ident, up, ack, acked, agent, link>>,
         \A n \in Node : sessions'[n] \in {sessions[n], NoConn}
  PROVE  NodeInv'
<1>1. \A c \in Conn : Identified(c)'
  BY IdentifiedKept DEF NodeInv
<1>2. Linked' /\ Registered'
  BY Kinds DEF NodeInv, Linked, Registered
<1> QED
  BY <1>1, <1>2 DEF NodeInv

LEMMA DialStep ==
  ASSUME NodeInv, NEW c \in Conn, Dial(c)
  PROVE  NodeInv'
<1> DEFINE m == Msg(IF agent.cred THEN "HELLO" ELSE "ENROL", agent.node)
<1>1. /\ agent.node \in Node \cup {NoNode} /\ agent.cred \in BOOLEAN
      /\ m \in Message /\ m.type = (IF agent.cred THEN "HELLO" ELSE "ENROL") /\ m.node = agent.node
  BY Parts DEF NodeInv, TypeOK
<1>2. /\ up' = [up EXCEPT ![c] = <<m>>] /\ <<m>> \in Seq(Message)
      /\ step' = [step EXCEPT ![c] = "READ"] /\ step[c] = "NEW" /\ link' = c
      /\ UNCHANGED <<row, rev, sessions, ident, copy, wire, checker, agent, ack, posts,
                     acked, author, announced, overtaken, usurped>>
      /\ page' \in [Tab -> Page \cup {NoPage}]
  BY <1>1 DEF Dial, Event, history, NodeInv, TypeOK
<1>3. TypeOK' /\ Counted'
  BY <1>2 DEF NodeInv, TypeOK, Counted, Step
<1>4. ASSUME NEW d \in Conn PROVE Identified(d)'
  <2>1. CASE d # c
    BY <2>1, <1>2, IdentifiedKept DEF NodeInv, TypeOK
  <2>2. CASE d = c
    <3>1. ident[c] = NoNode /\ step'[c] = "READ" /\ up'[c] = <<m>> /\ Identified(c)
      BY <1>2 DEF NodeInv, TypeOK, Identified
    <3>2. Queue(<<m>>, NoNode)
      BY <1>1 DEF Queue, NodeInv, Linked
    <3> QED
      BY <2>2, <1>2, <3>1, <3>2, Kinds DEF Identified
  <2> QED
    BY <2>1, <2>2
<1>5. Linked' /\ Registered'
  BY <1>2, Kinds DEF NodeInv, TypeOK, Linked, Registered
<1> QED
  BY <1>3, <1>4, <1>5 DEF NodeInv

LEMMA LoseLinkStep ==
  ASSUME NodeInv, LoseLink
  PROVE  NodeInv'
<1>1. TypeOK' /\ Counted'
  BY Kinds DEF NodeInv, TypeOK, Counted, LoseLink, consoleVars, history
<1>2. \A d \in Conn : Identified(d)'
  BY IdentifiedKept, Kinds DEF NodeInv, TypeOK, LoseLink, history
<1>3. Linked' /\ Registered'
  BY DEF NodeInv, LoseLink, Linked, Registered
<1> QED
  BY <1>1, <1>2, <1>3 DEF NodeInv

LEMMA OnHelloAckStep ==
  ASSUME NodeInv, OnHelloAck
  PROVE  NodeInv'
<1>1. link \in Conn /\ ack[link] \in Ack /\ Identified(link) /\ up[link] \in Seq(Message)
      /\ step[link] # "NEW"
  BY DEF OnHelloAck, NodeInv, TypeOK, Linked
<1>2. ack' = [ack EXCEPT ![link] = NoAck] /\ ack' \in [Conn -> Ack]
  BY Kinds DEF OnHelloAck, NodeInv, TypeOK
<1>3. UNCHANGED <<row, rev, sessions, step, ident, copy, wire, checker, link, page, posts,
                  author, announced, overtaken, usurped>>
  BY DEF OnHelloAck, hubVars, consoleVars
<1>4. CASE ack[link].ok
  <2> DEFINE n == ack[link].node
             m == Msg("INVENTORY", n)
  <2>1. n \in Node /\ ident[link] \in Node /\ m \in Message /\ m.type = "INVENTORY"
    BY <1>1, <1>4, Parts DEF Identified
  <2>2. /\ agent' = [node |-> n, cred |-> ack[link].cred \/ agent.cred]
        /\ acked' = acked \cup {link} /\ up' = [up EXCEPT ![link] = Append(@, m)]
    BY <1>4 DEF OnHelloAck
  <2>3. Append(up[link], m) \in Seq(Message) /\ Queue(Append(up[link], m), ident[link])
    BY <1>1, <2>1, AppendIs DEF Identified
  <2>4. up' \in [Conn -> Seq(Message)] /\ acked' \subseteq Conn
    BY <1>1, <2>2, <2>3 DEF NodeInv, TypeOK
  <2>5. agent' \in [node : Node \cup {NoNode}, cred : BOOLEAN] /\ agent'.node \in Node
    BY <1>1, <2>1, <2>2, Parts DEF NodeInv, TypeOK
  <2>6. TypeOK' /\ Counted'
    BY <1>2, <1>3, <2>4, <2>5 DEF NodeInv, TypeOK, Counted
  <2>7. ASSUME NEW d \in Conn PROVE Identified(d)'
    <3>1. CASE d # link
      BY <3>1, <1>2, <1>3, <2>2, IdentifiedKept DEF NodeInv, TypeOK
    <3>2. CASE d = link
      BY <3>2, <1>1, <1>2, <1>3, <2>1, <2>2, <2>3, Kinds DEF NodeInv, TypeOK, Identified
    <3> QED
      BY <3>1, <3>2
  <2>8. Linked' /\ Registered'
    BY <1>3, <2>5 DEF NodeInv, Linked, Registered
  <2> QED
    BY <2>6, <2>7, <2>8 DEF NodeInv
<1>5. CASE ~ack[link].ok
  <2>1. agent' = [agent EXCEPT !.cred = FALSE] /\ UNCHANGED <<acked, up>>
    BY <1>5 DEF OnHelloAck
  <2>2. TypeOK' /\ Counted'
    BY <1>2, <1>3, <2>1 DEF NodeInv, TypeOK, Counted
  <2>3. \A d \in Conn : Identified(d)'
    BY <1>2, <1>3, <2>1, IdentifiedKept, Kinds DEF NodeInv, TypeOK
  <2>4. Linked' /\ Registered'
    BY <1>3, <2>1 DEF NodeInv, TypeOK, Linked, Registered
  <2> QED
    BY <2>2, <2>3, <2>4 DEF NodeInv
<1> QED
  BY <1>4, <1>5

LEMMA TickStep ==
  ASSUME NodeInv, NEW type \in {"HEARTBEAT", "INVENTORY"}, Tick(type)
  PROVE  NodeInv'
<1> DEFINE m == Msg(type, agent.node)
<1>1. /\ link \in Conn /\ step[link] # "NEW" /\ up[link] \in Seq(Message) /\ Identified(link)
      /\ type = "INVENTORY" => ident[link] \in Node
  BY DEF Tick, NodeInv, TypeOK, Linked, Identified
<1>2. m \in Message /\ m.type = type
  BY Parts DEF NodeInv, TypeOK
<1>3. Append(up[link], m) \in Seq(Message) /\ Queue(Append(up[link], m), ident[link])
  BY <1>1, <1>2, AppendIs DEF Identified
<1>4. /\ up' = [up EXCEPT ![link] = Append(@, m)]
      /\ UNCHANGED <<row, rev, sessions, step, ident, copy, wire, checker, agent, link, ack,
                     page, posts, acked, author, announced, overtaken, usurped>>
  BY DEF Tick, hubVars, consoleVars, history
<1>5. up' \in [Conn -> Seq(Message)]
  BY <1>1, <1>3, <1>4 DEF NodeInv, TypeOK
<1>6. TypeOK' /\ Counted'
  BY <1>4, <1>5 DEF NodeInv, TypeOK, Counted
<1>7. ASSUME NEW d \in Conn PROVE Identified(d)'
  <2>1. CASE d # link
    BY <2>1, <1>4, IdentifiedKept DEF NodeInv, TypeOK
  <2>2. CASE d = link
    BY <2>2, <1>1, <1>3, <1>4 DEF NodeInv, TypeOK, Identified
  <2> QED
    BY <2>1, <2>2
<1>8. Linked' /\ Registered'
  BY <1>4 DEF NodeInv, Linked, Registered
<1> QED
  BY <1>6, <1>7, <1>8 DEF NodeInv

-----------------------------------------------------------------------------
(* Steps: the handler of a connection. *)

(* Registering a connection that is not in the session map.                *)
LEMMA RegisterIs ==
  ASSUME NodeInv, NEW c \in Conn, NEW n \in Node, NEW cred \in BOOLEAN, Register(c, n, cred),
         \A k \in Node : sessions[k] # c,
         step'[c] = "READ", \A d \in Conn : d # c => step'[d] = step[d] /\ up'[d] = up[d],
         Queue(up'[c], n), UNCHANGED <<agent, link, acked>>
  PROVE  /\ sessions' \in [Node -> Conn \cup {NoConn}]
         /\ ident' \in [Conn -> Node \cup {NoNode}]
         /\ wire' \in [Conn -> {"up", "cut", "closed"}]
         /\ ack' \in [Conn -> Ack]
         /\ \A d \in Conn : Identified(d)'
         /\ Linked' /\ Registered'
<1> DEFINE a == [ok |-> TRUE, node |-> n, cred |-> cred]
<1>1. a \in Ack /\ a.ok /\ a.node = n
  BY Parts
<1>2. /\ ident' = [ident EXCEPT ![c] = n] /\ sessions' = [sessions EXCEPT ![n] = c]
      /\ ack' = (IF link = c THEN [ack EXCEPT ![c] = a] ELSE ack)
  BY DEF Register, Answer
<1>3. /\ sessions' \in [Node -> Conn \cup {NoConn}] /\ ident' \in [Conn -> Node \cup {NoNode}]
      /\ ack' \in [Conn -> Ack]
  BY <1>1, <1>2 DEF NodeInv, TypeOK
<1>4. wire' \in [Conn -> {"up", "cut", "closed"}]
  BY DEF Register, NodeInv, TypeOK
<1>5. ASSUME NEW d \in Conn PROVE Identified(d)'
  <2>1. CASE d # c
    BY <2>1, <1>2, IdentifiedKept DEF NodeInv, TypeOK
  <2>2. CASE d = c
    <3>1. ident'[c] = n /\ (ack'[c] = a \/ ack'[c] = ack[c]) /\ Identified(c)
      BY <1>2 DEF NodeInv, TypeOK
    <3> QED
      BY <2>2, <3>1, <1>1 DEF Identified
  <2> QED
    BY <2>1, <2>2
<1>6. Linked' /\ Registered'
  <2>1. Linked'
    BY DEF NodeInv, TypeOK, Linked
  <2>2. ASSUME NEW k \in Node, NEW d \in Conn, sessions'[k] = d
        PROVE  ident'[d] = k /\ step'[d] \in {"READ", "INVENTORY", "LOOK", "UNREGISTER"}
    <3>1. CASE k = n
      BY <2>2, <3>1, <1>2 DEF NodeInv, TypeOK
    <3>2. CASE k # n
      <4>1. sessions[k] = d /\ d # c
        BY <2>2, <3>2, <1>2 DEF NodeInv, TypeOK
      <4> QED
        BY <4>1, <1>2 DEF NodeInv, TypeOK, Registered
    <3> QED
      BY <3>1, <3>2
  <2> QED
    BY <2>1, <2>2 DEF Registered
<1> QED
  BY <1>3, <1>4, <1>5, <1>6

(* A connection with no identity, or in an enrolment, is not in the map.   *)
LEMMA NotRegistered ==
  ASSUME NodeInv, NEW c \in Conn,
         ident[c] = NoNode \/ step[c] \in {"NEW", "ENROL", "OFFLINE", "ENDED"}
  PROVE  \A n \in Node : sessions[n] # c
BY Kinds DEF NodeInv, Registered

(* A handler that goes to its next step, with the queue it leaves.         *)
LEMMA HandlerMoves ==
  ASSUME NodeInv, TypeOK', Counted', NEW c \in Conn,
         UNCHANGED <<ident, agent, link, acked>>,
         \A d \in Conn : d # c => step'[d] = step[d] /\ up'[d] = up[d] /\ ack'[d] = ack[d],
         step'[c] # "NEW", Queue(up'[c], ident[c]), ack'[c] = ack[c] \/ ~ack'[c].ok,
         step'[c] \in {"ENROL", "INVENTORY", "UNREGISTER", "OFFLINE"} => ident[c] \in Node,
         \A n \in Node : sessions'[n] \in {sessions[n], NoConn},
         \/ step'[c] \in {"READ", "INVENTORY", "LOOK", "UNREGISTER"}
         \/ \A n \in Node : sessions'[n] # c
  PROVE  NodeInv'
<1>1. ASSUME NEW d \in Conn PROVE Identified(d)'
  <2>1. CASE d # c
    BY <2>1, IdentifiedKept DEF NodeInv
  <2>2. CASE d = c
    BY <2>2 DEF NodeInv, Identified
  <2> QED
    BY <2>1, <2>2
<1>2. Linked'
  BY DEF NodeInv, TypeOK, Linked
<1>3. Registered'
  BY Kinds DEF NodeInv, Registered
<1> QED
  BY <1>1, <1>2, <1>3 DEF NodeInv

LEMMA HandleHelloStep ==
  ASSUME NodeInv, NEW c \in Conn, HandleHello(c)
  PROVE  NodeInv'
<1> DEFINE n == Head(up[c]).node
<1>1. /\ n \in Node /\ ident[c] = NoNode /\ step[c] = "READ"
      /\ up' = [up EXCEPT ![c] = Tail(@)] /\ up' \in [Conn -> Seq(Message)]
      /\ Queue(up'[c], n) /\ Queue(up'[c], ident[c])
  BY ReadIs DEF HandleHello
<1>2. UNCHANGED <<row, rev, copy, checker, agent, link, page, posts, acked, author, announced,
                  overtaken, usurped>>
  BY DEF HandleHello, consoleVars, history
<1>3. CASE row[n].cred
  <2>1. Register(c, n, TRUE) /\ UNCHANGED step
    BY <1>3 DEF HandleHello
  <2>2. /\ sessions' \in [Node -> Conn \cup {NoConn}] /\ ident' \in [Conn -> Node \cup {NoNode}]
        /\ wire' \in [Conn -> {"up", "cut", "closed"}] /\ ack' \in [Conn -> Ack]
        /\ (\A d \in Conn : Identified(d)') /\ Linked' /\ Registered'
    BY <1>1, <1>2, <2>1, RegisterIs, NotRegistered DEF NodeInv, TypeOK
  <2>3. TypeOK' /\ Counted'
    BY <1>1, <1>2, <2>1, <2>2 DEF NodeInv, TypeOK, Counted
  <2> QED
    BY <2>2, <2>3 DEF NodeInv
<1>4. CASE ~row[n].cred
  <2>1. /\ step' = [step EXCEPT ![c] = "LOOK"] /\ UNCHANGED <<ident, sessions, wire>>
        /\ ack' = (IF link = c THEN [ack EXCEPT ![c] = Rejected] ELSE ack)
    BY <1>4 DEF HandleHello, Answer
  <2>2. ack' \in [Conn -> Ack] /\ step' \in [Conn -> Step] /\ step'[c] = "LOOK"
        /\ (ack'[c] = ack[c] \/ ~ack'[c].ok)
    BY <2>1, Kinds DEF NodeInv, TypeOK, Step
  <2>3. TypeOK' /\ Counted'
    BY <1>1, <1>2, <2>1, <2>2 DEF NodeInv, TypeOK, Counted
  <2>4. \A d \in Conn : d # c => step'[d] = step[d] /\ up'[d] = up[d] /\ ack'[d] = ack[d]
    BY <1>1, <2>1 DEF NodeInv, TypeOK
  <2> QED
    BY <1>1, <1>2, <2>1, <2>2, <2>3, <2>4, HandlerMoves
<1> QED
  BY <1>3, <1>4

LEMMA HandleEnrolStep ==
  ASSUME NodeInv, NEW c \in Conn, HandleEnrol(c)
  PROVE  NodeInv'
<1>1. /\ ident[c] = NoNode /\ step[c] = "READ"
      /\ up' = [up EXCEPT ![c] = Tail(@)] /\ up' \in [Conn -> Seq(Message)]
      /\ \A n \in Node : Queue(up'[c], n)
  BY ReadIs DEF HandleEnrol
<1>2. UNCHANGED <<rev, step, copy, checker, agent, link, page, posts, acked, announced,
                  overtaken, usurped>>
  BY DEF HandleEnrol, consoleVars
<1>3. PICK n \in Node : /\ row' = [row EXCEPT ![n] = [status |-> "online", labels |-> {}, cred |-> TRUE]]
                        /\ author' = [author EXCEPT ![n] = "hub"]
                        /\ Register(c, n, TRUE)
  BY DEF HandleEnrol
<1>4. row' \in [Node -> Row] /\ author' \in [Node -> {"hub", "operator"}]
  <2>1. [status |-> "online", labels |-> {}, cred |-> TRUE] \in Row
    BY DEF Row, Status
  <2> QED
    BY <1>3, <2>1 DEF NodeInv, TypeOK
<1>5. /\ sessions' \in [Node -> Conn \cup {NoConn}] /\ ident' \in [Conn -> Node \cup {NoNode}]
      /\ wire' \in [Conn -> {"up", "cut", "closed"}] /\ ack' \in [Conn -> Ack]
      /\ (\A d \in Conn : Identified(d)') /\ Linked' /\ Registered'
  BY <1>1, <1>2, <1>3, RegisterIs, NotRegistered DEF NodeInv, TypeOK
<1>6. TypeOK' /\ Counted'
  BY <1>1, <1>2, <1>4, <1>5 DEF NodeInv, TypeOK, Counted
<1> QED
  BY <1>5, <1>6 DEF NodeInv

LEMMA HandleEnrolAgainStep ==
  ASSUME NodeInv, NEW c \in Conn, HandleEnrolAgain(c)
  PROVE  NodeInv'
<1> DEFINE n == Head(up[c]).node
<1>1. /\ n \in Node /\ ident[c] = NoNode /\ step[c] = "READ" /\ Identified(c)
      /\ up' = [up EXCEPT ![c] = Tail(@)] /\ up' \in [Conn -> Seq(Message)]
      /\ Queue(up'[c], n)
  BY ReadIs DEF HandleEnrolAgain, NodeInv
<1>2. /\ UNCHANGED <<row, rev, sessions, wire, checker, agent, link, ack, page, posts, acked,
                     author, announced, overtaken, usurped>>
      /\ step' = [step EXCEPT ![c] = "ENROL"] /\ ident' = [ident EXCEPT ![c] = n]
      /\ copy' = [copy EXCEPT ![c] = row[n].labels]
  BY DEF HandleEnrolAgain, consoleVars, history
<1>3. row[n].labels \subseteq Label
  BY <1>1, Parts DEF NodeInv, TypeOK
<1>4. TypeOK' /\ Counted'
  BY <1>1, <1>2, <1>3 DEF NodeInv, TypeOK, Counted, Step
<1>5. ASSUME NEW d \in Conn PROVE Identified(d)'
  <2>1. CASE d # c
    BY <2>1, <1>1, <1>2, IdentifiedKept DEF NodeInv, TypeOK
  <2>2. CASE d = c
    <3>1. step'[c] = "ENROL" /\ ident'[c] = n
      BY <1>2 DEF NodeInv, TypeOK
    <3> QED
      BY <2>2, <3>1, <1>1, <1>2 DEF Identified
  <2> QED
    BY <2>1, <2>2
<1>6. Linked'
  BY <1>2 DEF NodeInv, TypeOK, Linked
<1>7. Registered'
  BY <1>1, <1>2, NotRegistered DEF NodeInv, TypeOK, Registered
<1> QED
  BY <1>4, <1>5, <1>6, <1>7 DEF NodeInv

(* Writing back a node's row.                                              *)
LEMMA WriteBackIs ==
  ASSUME NodeInv, NEW c \in Conn, NEW n \in Node, WriteBack(c, n)
  PROVE  /\ row' \in [Node -> Row] /\ step' \in [Conn -> Step] /\ copy' \in [Conn -> SUBSET Label]
         /\ overtaken' \subseteq Node /\ step' = [step EXCEPT ![c] = "READ"]
         /\ UNCHANGED <<rev, checker, agent, link, up, page, posts, acked, author, announced,
                        usurped>>
<1>1. row[n] \in Row /\ copy[c] \subseteq Label
  BY DEF NodeInv, TypeOK
<1>2. [row[n] EXCEPT !.labels = copy[c]] \in Row
  BY <1>1 DEF Row
<1>3. row' = [row EXCEPT ![n] = [row[n] EXCEPT !.labels = copy[c]]]
  BY DEF WriteBack, NodeInv, TypeOK
<1>4. row' \in [Node -> Row]
  BY <1>2, <1>3 DEF NodeInv, TypeOK
<1> QED
  BY <1>4 DEF WriteBack, NodeInv, TypeOK, Step, consoleVars

LEMMA EnrolUpsertStep ==
  ASSUME NodeInv, NEW c \in Conn, EnrolUpsert(c)
  PROVE  NodeInv'
<1> DEFINE n == ident[c]
<1>1. /\ n \in Node /\ step[c] = "ENROL" /\ Queue(up[c], n) /\ row[n].cred \in BOOLEAN
      /\ WriteBack(c, n) /\ Register(c, n, row[n].cred)
  BY Parts DEF EnrolUpsert, NodeInv, TypeOK, Identified
<1>2. /\ row' \in [Node -> Row] /\ step' \in [Conn -> Step] /\ copy' \in [Conn -> SUBSET Label]
      /\ overtaken' \subseteq Node /\ step' = [step EXCEPT ![c] = "READ"]
      /\ UNCHANGED <<rev, checker, agent, link, up, page, posts, acked, author, announced,
                     usurped>>
  BY <1>1, WriteBackIs
<1>3. step'[c] = "READ" /\ \A d \in Conn : d # c => step'[d] = step[d] /\ up'[d] = up[d]
  BY <1>2 DEF NodeInv, TypeOK
<1>4. /\ sessions' \in [Node -> Conn \cup {NoConn}] /\ ident' \in [Conn -> Node \cup {NoNode}]
      /\ wire' \in [Conn -> {"up", "cut", "closed"}] /\ ack' \in [Conn -> Ack]
      /\ (\A d \in Conn : Identified(d)') /\ Linked' /\ Registered'
  BY <1>1, <1>2, <1>3, RegisterIs, NotRegistered
<1>5. TypeOK' /\ Counted'
  BY <1>2, <1>4 DEF NodeInv, TypeOK, Counted
<1> QED
  BY <1>4, <1>5 DEF NodeInv

LEMMA InventoryUpsertStep ==
  ASSUME NodeInv, NEW c \in Conn, InventoryUpsert(c)
  PROVE  NodeInv'
<1>1. /\ ident[c] \in Node /\ step[c] = "INVENTORY" /\ Queue(up[c], ident[c])
      /\ WriteBack(c, ident[c]) /\ UNCHANGED <<ident, sessions, wire, ack>>
  BY DEF InventoryUpsert, NodeInv, Identified
<1>2. /\ row' \in [Node -> Row] /\ step' \in [Conn -> Step] /\ copy' \in [Conn -> SUBSET Label]
      /\ overtaken' \subseteq Node /\ step' = [step EXCEPT ![c] = "READ"]
      /\ UNCHANGED <<rev, checker, agent, link, up, page, posts, acked, author, announced,
                     usurped>>
  BY <1>1, WriteBackIs
<1>3. TypeOK' /\ Counted'
  BY <1>1, <1>2 DEF NodeInv, TypeOK, Counted
<1>4. step'[c] = "READ" /\ \A d \in Conn : d # c => step'[d] = step[d]
  BY <1>2 DEF NodeInv, TypeOK
<1> QED
  BY <1>1, <1>2, <1>3, <1>4, HandlerMoves

(* Writing a status that is one, of whatever node.                         *)
LEMMA StatusIs ==
  ASSUME TypeOK, NEW n, NEW s \in Status, row' = [row EXCEPT ![n].status = s]
  PROVE  row' \in [Node -> Row]
<1>1. ASSUME n \in Node PROVE [row[n] EXCEPT !.status = s] \in Row
  <2>1. row[n] \in Row
    BY <1>1 DEF TypeOK
  <2> QED
    BY <2>1 DEF Row
<1>2. row' = [row EXCEPT ![n] = [row[n] EXCEPT !.status = s]]
  OBVIOUS
<1> QED
  BY <1>1, <1>2 DEF TypeOK

LEMMA HandleHeartbeatStep ==
  ASSUME NodeInv, NEW c \in Conn, HandleHeartbeat(c)
  PROVE  NodeInv'
<1> DEFINE n == Head(up[c]).node
           s == AfterHeartbeat(row[n].status)
<1>1. /\ step[c] = "READ" /\ Identified(c)
      /\ up' = [up EXCEPT ![c] = Tail(@)] /\ up' \in [Conn -> Seq(Message)]
      /\ Queue(up'[c], ident[c])
  BY ReadIs DEF HandleHeartbeat, NodeInv
<1>2. /\ row' = [row EXCEPT ![n].status = s] /\ author' = [author EXCEPT ![n] = "hub"]
      /\ UNCHANGED <<rev, sessions, step, ident, copy, wire, checker, agent, link, ack, page,
                     posts, acked, announced, overtaken, usurped>>
  BY DEF HandleHeartbeat, consoleVars
<1>3. s \in Status
  BY DEF AfterHeartbeat, Status
<1>4. row' \in [Node -> Row]
  BY <1>2, <1>3, StatusIs DEF NodeInv
<1>5. TypeOK' /\ Counted'
  BY <1>1, <1>2, <1>4 DEF NodeInv, TypeOK, Counted
<1>6. \A d \in Conn : d # c => up'[d] = up[d]
  BY <1>1 DEF NodeInv, TypeOK
<1> QED
  BY <1>1, <1>2, <1>5, <1>6, HandlerMoves

LEMMA HandleInventoryStep ==
  ASSUME NodeInv, NEW c \in Conn, HandleInventory(c)
  PROVE  NodeInv'
<1>1. /\ ident[c] \in Node /\ up' = [up EXCEPT ![c] = Tail(@)]
      /\ up' \in [Conn -> Seq(Message)] /\ Queue(up'[c], ident[c])
  BY ReadIs DEF HandleInventory
<1>2. /\ step' = [step EXCEPT ![c] = "INVENTORY"]
      /\ copy' = [copy EXCEPT ![c] = row[ident[c]].labels]
      /\ UNCHANGED <<row, rev, sessions, ident, wire, checker, agent, link, ack, page, posts,
                     acked, author, announced, overtaken, usurped>>
  BY DEF HandleInventory, consoleVars, history
<1>3. row[ident[c]].labels \subseteq Label
  BY <1>1, Parts DEF NodeInv, TypeOK
<1>4. TypeOK' /\ Counted'
  BY <1>1, <1>2, <1>3 DEF NodeInv, TypeOK, Counted, Step
<1>5. step'[c] = "INVENTORY" /\ \A d \in Conn : d # c => step'[d] = step[d] /\ up'[d] = up[d]
  BY <1>1, <1>2 DEF NodeInv, TypeOK
<1> QED
  BY <1>1, <1>2, <1>4, <1>5, HandlerMoves

LEMMA ReadErrorStep ==
  ASSUME NodeInv, NEW c \in Conn, ReadError(c)
  PROVE  NodeInv'
<1>1. /\ step' = [step EXCEPT ![c] = "LOOK"] /\ up' = [up EXCEPT ![c] = <<>>]
      /\ UNCHANGED <<row, rev, sessions, ident, copy, wire, checker, agent, link, ack, page,
                     posts, acked, author, announced, overtaken, usurped>>
  BY DEF ReadError, consoleVars, history
<1>2. TypeOK' /\ Counted'
  BY <1>1 DEF NodeInv, TypeOK, Counted, Step
<1>3. /\ step'[c] = "LOOK" /\ up'[c] = <<>>
      /\ \A d \in Conn : d # c => step'[d] = step[d] /\ up'[d] = up[d]
  BY <1>1 DEF NodeInv, TypeOK
<1>4. Queue(up'[c], ident[c])
  BY <1>3 DEF Queue
<1> QED
  BY <1>1, <1>2, <1>3, <1>4, HandlerMoves

LEMMA LookUpStep ==
  ASSUME NodeInv, NEW c \in Conn, LookUp(c)
  PROVE  NodeInv'
<1>1. /\ ident[c] \in Node \cup {NoNode} /\ step[c] = "LOOK" /\ Queue(up[c], ident[c])
      /\ UNCHANGED <<row, rev, sessions, ident, copy, checker, agent, link, up, ack, page, posts,
                     acked, author, announced, overtaken, usurped>>
  BY DEF LookUp, NodeInv, TypeOK, Identified, agentVars, consoleVars, history
<1>2. PICK next \in {"UNREGISTER", "OFFLINE", "ENDED"} :
          /\ step' = [step EXCEPT ![c] = next]
          /\ wire' = IF next = "ENDED" THEN [wire EXCEPT ![c] = "closed"] ELSE wire
          /\ next \in {"UNREGISTER", "OFFLINE"} => ident[c] \in Node
          /\ next = "UNREGISTER" \/ \A n \in Node : sessions[n] # c
  <2>1. CASE ident[c] = NoNode
    BY <2>1, NotRegistered DEF LookUp
  <2>2. CASE ident[c] # NoNode /\ sessions[ident[c]] = c
    BY <2>2, <1>1, Kinds DEF LookUp
  <2>3. CASE ident[c] # NoNode /\ sessions[ident[c]] # c
    <3>1. \A n \in Node : sessions[n] # c
      BY <2>3 DEF NodeInv, Registered
    <3>2. CASE sessions[ident[c]] = NoConn
      BY <2>3, <3>1, <3>2, <1>1 DEF LookUp
    <3>3. CASE sessions[ident[c]] # NoConn
      BY <2>3, <3>1, <3>3, <1>1 DEF LookUp
    <3> QED
      BY <3>2, <3>3
  <2> QED
    BY <2>1, <2>2, <2>3
<1>3. TypeOK' /\ Counted'
  BY <1>1, <1>2 DEF NodeInv, TypeOK, Counted, Step
<1>4. step'[c] = next /\ \A d \in Conn : d # c => step'[d] = step[d]
  BY <1>2 DEF NodeInv, TypeOK
<1> QED
  BY <1>1, <1>2, <1>3, <1>4, HandlerMoves

LEMMA UnregisterStep ==
  ASSUME NodeInv, NEW c \in Conn, Unregister(c)
  PROVE  NodeInv'
<1>1. /\ ident[c] \in Node /\ step[c] = "UNREGISTER" /\ Queue(up[c], ident[c])
      /\ step' = [step EXCEPT ![c] = "OFFLINE"]
      /\ sessions' = [sessions EXCEPT ![ident[c]] = NoConn]
      /\ usurped' \in BOOLEAN
      /\ UNCHANGED <<row, rev, ident, copy, wire, checker, agent, link, up, ack, page, posts,
                     acked, author, announced, overtaken>>
  BY DEF Unregister, NodeInv, TypeOK, Identified, agentVars, consoleVars
<1>2. TypeOK' /\ Counted'
  BY <1>1 DEF NodeInv, TypeOK, Counted, Step
<1>3. step'[c] = "OFFLINE" /\ \A d \in Conn : d # c => step'[d] = step[d]
  BY <1>1 DEF NodeInv, TypeOK
<1>4. \A n \in Node : sessions'[n] \in {sessions[n], NoConn} /\ sessions'[n] # c
  BY <1>1, Kinds DEF NodeInv, TypeOK, Registered
<1> QED
  BY <1>1, <1>2, <1>3, <1>4, HandlerMoves

LEMMA MarkOfflineStep ==
  ASSUME NodeInv, NEW c \in Conn, MarkOffline(c)
  PROVE  NodeInv'
<1>1. /\ ident[c] \in Node /\ step[c] = "OFFLINE" /\ Queue(up[c], ident[c])
      /\ step' = [step EXCEPT ![c] = "ENDED"] /\ wire' = [wire EXCEPT ![c] = "closed"]
      /\ row' = [row EXCEPT ![ident[c]].status = "offline"]
      /\ author' = [author EXCEPT ![ident[c]] = "hub"]
      /\ UNCHANGED <<rev, sessions, ident, copy, checker, agent, link, up, ack, page, posts,
                     acked, announced, overtaken, usurped>>
  BY DEF MarkOffline, NodeInv, Identified, agentVars, consoleVars
<1>2. row' \in [Node -> Row]
  BY <1>1, StatusIs DEF NodeInv, Status
<1>3. TypeOK' /\ Counted'
  BY <1>1, <1>2 DEF NodeInv, TypeOK, Counted, Step
<1>4. step'[c] = "ENDED" /\ \A d \in Conn : d # c => step'[d] = step[d]
  BY <1>1 DEF NodeInv, TypeOK
<1>5. \A n \in Node : sessions'[n] # c
  BY <1>1, NotRegistered
<1> QED
  BY <1>1, <1>3, <1>4, <1>5, HandlerMoves

-----------------------------------------------------------------------------
(* Steps: the heartbeat checker and the operators.                         *)

LEMMA CheckerStep ==
  ASSUME NodeInv, (\E n \in Node : FindStale(n)) \/ OnTimeout \/ CloseStale \/ UnregisterStale
  PROVE  NodeInv'
<1>1. ASSUME NEW n \in Node, FindStale(n) PROVE NodeInv'
  <2>1. TypeOK' /\ Counted'
    BY <1>1 DEF FindStale, NodeInv, TypeOK, Counted, agentVars, consoleVars, history
  <2> QED
    BY <1>1, <2>1, QuietStep DEF FindStale, agentVars, history
<1>2. CASE OnTimeout
  <2>1. row' \in [Node -> Row]
    BY <1>2, StatusIs DEF OnTimeout, NodeInv, Status
  <2>2. TypeOK' /\ Counted'
    BY <1>2, <2>1 DEF OnTimeout, NodeInv, TypeOK, Counted, agentVars, consoleVars
  <2> QED
    BY <1>2, <2>2, QuietStep DEF OnTimeout, agentVars
<1>3. CASE CloseStale
  <2>1. TypeOK' /\ Counted'
    BY <1>3 DEF CloseStale, NodeInv, TypeOK, Counted, agentVars, consoleVars, history
  <2> QED
    BY <1>3, <2>1, QuietStep DEF CloseStale, agentVars, history
<1>4. CASE UnregisterStale
  <2>1. sessions' = [sessions EXCEPT ![checker.node] = NoConn] /\ checker' = Idle
        /\ usurped' \in BOOLEAN
    BY <1>4 DEF UnregisterStale, NodeInv, TypeOK
  <2>2. sessions' \in [Node -> Conn \cup {NoConn}] /\ \A n \in Node : sessions'[n] \in {sessions[n], NoConn}
    BY <2>1 DEF NodeInv, TypeOK
  <2>3. TypeOK' /\ Counted'
    BY <1>4, <2>1, <2>2 DEF UnregisterStale, NodeInv, TypeOK, Counted, Idle, agentVars, consoleVars
  <2> QED
    BY <1>4, <2>2, <2>3, QuietStep DEF UnregisterStale, agentVars
<1> QED
  BY <1>1, <1>2, <1>3, <1>4

(* What is common to the operators' requests.                              *)
LEMMA RequestIs ==
  ASSUME NodeInv, Request
  PROVE  /\ posts' = posts + 1 /\ posts' \in 0..MaxPosts
         /\ page' \in [Tab -> Page \cup {NoPage}] /\ \A t \in Tab : page'[t] \in {page[t], NoPage}
         /\ UNCHANGED <<sessions, step, ident, copy, wire, checker, agent, link, up, ack, acked,
                        overtaken, usurped>>
BY ConstantsAssumption DEF Request, Event, NodeInv, TypeOK, agentVars

LEMMA RequestStep ==
  ASSUME NodeInv, Request, row' \in [Node -> Row], rev' \in {rev, rev + 1},
         author' \in [Node -> {"hub", "operator"}], announced' \in [Node -> SUBSET Label]
  PROVE  NodeInv'
<1>1. rev' \in 0..MaxPosts /\ Counted'
  <2>1. rev \in Nat /\ posts \in Nat /\ rev <= posts
    BY DEF NodeInv, TypeOK, Counted
  <2>2. posts' = posts + 1 /\ posts' \in 0..MaxPosts /\ MaxPosts \in Nat
    BY RequestIs, ConstantsAssumption
  <2> QED
    BY <2>1, <2>2 DEF Counted
<1>2. TypeOK'
  BY <1>1, RequestIs DEF NodeInv, TypeOK
<1> QED
  BY <1>1, <1>2, RequestIs, QuietStep

LEMMA ConsoleStep ==
  ASSUME NodeInv,
         \/ \E t \in Tab : Agents(t) \/ AgentDetail(t) \/ \E n \in Node : Fetch(t, n)
         \/ \E n \in Node : RevokeCredential(n)
  PROVE  NodeInv'
<1>1. ASSUME NEW t \in Tab, Agents(t) PROVE NodeInv'
  <2>1. PICK s \in {"online", "maintenance"} : PostStatus(page[t].node, s)
    BY <1>1 DEF Agents
  <2>2. row' \in [Node -> Row]
    BY <2>1, StatusIs DEF PostStatus, NodeInv, Status
  <2> QED
    BY <2>1, <2>2, RequestStep DEF PostStatus, NodeInv, TypeOK
<1>2. ASSUME NEW t \in Tab, AgentDetail(t) PROVE NodeInv'
  <2> DEFINE n == page[t].node
  <2>1. PICK l \in Label : PostLabels(n, page[t].labels \cup {l})
    BY <1>2 DEF AgentDetail, AddLabel
  <2> DEFINE ls == page[t].labels \cup {l}
  <2>2. n \in Node /\ ls \subseteq Label
    BY <1>2, PageFields DEF AgentDetail, NodeInv
  <2>3. [row[n] EXCEPT !.labels = ls] \in Row
    <3>1. row[n] \in Row
      BY <2>2 DEF NodeInv, TypeOK
    <3> QED
      BY <2>2, <3>1 DEF Row
  <2>4. row' = [row EXCEPT ![n] = [row[n] EXCEPT !.labels = ls]]
    BY <2>1 DEF PostLabels
  <2>5. row' \in [Node -> Row]
    BY <2>3, <2>4 DEF NodeInv, TypeOK
  <2> QED
    BY <2>1, <2>2, <2>5, RequestStep DEF PostLabels, NodeInv, TypeOK
<1>3. ASSUME NEW t \in Tab, NEW n \in Node, Fetch(t, n) PROVE NodeInv'
  <2>1. row[n].status \in Status /\ row[n].labels \subseteq Label
    BY Parts DEF NodeInv, TypeOK
  <2>2. \A p \in {[node |-> n, status |-> row[n].status], [node |-> n, labels |-> row[n].labels]} :
            p \in Page
    BY <2>1 DEF Page
  <2>3. page' \in [Tab -> Page \cup {NoPage}]
    BY <1>3, <2>2 DEF Fetch, NodeInv, TypeOK
  <2>4. TypeOK' /\ Counted'
    BY <1>3, <2>3 DEF Fetch, NodeInv, TypeOK, Counted, hubVars, agentVars, history
  <2> QED
    BY <1>3, <2>4, QuietStep DEF Fetch, hubVars, agentVars, history
<1>4. ASSUME NEW n \in Node, RevokeCredential(n) PROVE NodeInv'
  <2>1. [row[n] EXCEPT !.cred = FALSE] \in Row
    <3>1. row[n] \in Row
      BY DEF NodeInv, TypeOK
    <3> QED
      BY <3>1 DEF Row
  <2>2. row' = [row EXCEPT ![n] = [row[n] EXCEPT !.cred = FALSE]]
    BY <1>4 DEF RevokeCredential
  <2>3. row' \in [Node -> Row]
    BY <2>1, <2>2 DEF NodeInv, TypeOK
  <2> QED
    BY <1>4, <2>3, RequestStep DEF RevokeCredential, NodeInv, TypeOK
<1> QED
  BY <1>1, <1>2, <1>3, <1>4

LEMMA NodeInvStep == NodeInv /\ [Next]_vars => NodeInv'
<1> SUFFICES ASSUME NodeInv, [Next]_vars PROVE NodeInv'
  OBVIOUS
<1>1. CASE UNCHANGED vars
  <2>1. TypeOK' /\ Counted'
    BY <1>1 DEF NodeInv, TypeOK, Counted, vars, hubVars, agentVars, consoleVars, history
  <2> QED
    BY <1>1, <2>1, QuietStep DEF vars, hubVars, agentVars, history
<1>2. ASSUME NEW c \in Conn, Handler(c) PROVE NodeInv'
  BY <1>2, HandleHelloStep, HandleEnrolStep, HandleEnrolAgainStep, EnrolUpsertStep,
     HandleHeartbeatStep, HandleInventoryStep, InventoryUpsertStep, LookUpStep, UnregisterStep,
     MarkOfflineStep DEF Handler
<1> QED
  BY <1>1, <1>2, DialStep, ReadErrorStep, LoseLinkStep, OnHelloAckStep, TickStep, CheckerStep,
     ConsoleStep DEF Next

-----------------------------------------------------------------------------
(* Steps: labels.                                                          *)

(* Steps that change no labels and take no record away.                    *)
LEMMA LabelsKept ==
  ASSUME NodeInv, LabelInv,
         \A n \in Node : row'[n].labels = row[n].labels /\ (Exists(n) => row'[n].status # "absent"),
         UNCHANGED <<announced, overtaken>>, \A t \in Tab : page'[t] \in {page[t], NoPage}
  PROVE  LabelInv'
<1>1. PagesExist'
  BY PageFields DEF NodeInv, LabelInv, PagesExist, Exists
<1>2. Unlabelled' /\ LabelsAnnounced'
  BY DEF LabelInv, Unlabelled, LabelsAnnounced, Exists
<1> QED
  BY <1>1, <1>2 DEF LabelInv

(* Steps that leave the records and the pages alone.                       *)
LEMMA RecordsKept ==
  ASSUME NodeInv, LabelInv, UNCHANGED <<row, announced, overtaken>>,
         \A t \in Tab : page'[t] \in {page[t], NoPage}
  PROVE  LabelInv'
BY LabelsKept DEF Exists

(* A status is written over a status.                                      *)
LEMMA StatusKeepsLabels ==
  ASSUME NodeInv, LabelInv, NEW m, NEW s, s # "absent", row' = [row EXCEPT ![m].status = s],
         UNCHANGED <<announced, overtaken>>, \A t \in Tab : page'[t] \in {page[t], NoPage}
  PROVE  LabelInv'
<1>1. ASSUME NEW n \in Node
      PROVE  row'[n].labels = row[n].labels /\ (Exists(n) => row'[n].status # "absent")
  <2>1. row[n] \in Row
    BY DEF NodeInv, TypeOK
  <2>2. CASE n = m
    <3>1. row'[n] = [row[n] EXCEPT !.status = s]
      BY <2>2 DEF NodeInv, TypeOK
    <3> QED
      BY <2>1, <3>1 DEF Row
  <2>3. CASE n # m
    BY <2>3 DEF NodeInv, TypeOK, Exists
  <2> QED
    BY <2>2, <2>3
<1> QED
  BY <1>1, LabelsKept

(* A copy is written back: the labels are the same, or overtaken.          *)
LEMMA WriteBackLabels ==
  ASSUME NodeInv, LabelInv, NEW c \in Conn, NEW m \in Node, WriteBack(c, m)
  PROVE  LabelInv'
<1>1. /\ row' = [row EXCEPT ![m].labels = copy[c]] /\ UNCHANGED <<announced, page>>
      /\ overtaken' = IF copy[c] = row[m].labels THEN overtaken ELSE overtaken \cup {m}
  BY DEF WriteBack, consoleVars
<1>2. ASSUME NEW n \in Node
      PROVE  /\ row'[n].status = row[n].status
             /\ row'[n].labels = row[n].labels \/ n \in overtaken'
             /\ n \in overtaken => n \in overtaken'
  <2>1. row[n] \in Row
    BY DEF NodeInv, TypeOK
  <2>2. CASE n = m
    <3>1. row'[n] = [row[n] EXCEPT !.labels = copy[c]]
      BY <1>1, <2>2 DEF NodeInv, TypeOK
    <3>2. row'[n].status = row[n].status /\ row'[n].labels = copy[c]
      BY <2>1, <3>1 DEF Row
    <3> QED
      BY <1>1, <2>2, <3>2
  <2>3. CASE n # m
    BY <1>1, <2>3 DEF NodeInv, TypeOK
  <2> QED
    BY <2>2, <2>3
<1>3. PagesExist'
  BY <1>1, <1>2, PageFields DEF NodeInv, LabelInv, PagesExist, Exists
<1>4. Unlabelled' /\ LabelsAnnounced'
  BY <1>1, <1>2 DEF LabelInv, Unlabelled, LabelsAnnounced, Exists
<1> QED
  BY <1>3, <1>4 DEF LabelInv

(* A new record has no labels, and none were announced for it.             *)
LEMMA EnrolLabels ==
  ASSUME NodeInv, LabelInv, NEW c \in Conn, HandleEnrol(c)
  PROVE  LabelInv'
<1>1. UNCHANGED <<page, announced, overtaken>>
  BY DEF HandleEnrol, consoleVars
<1>2. PICK m \in Node : /\ ~Exists(m)
                        /\ row' = [row EXCEPT ![m] = [status |-> "online", labels |-> {}, cred |-> TRUE]]
  BY DEF HandleEnrol
<1>3. /\ row'[m].status = "online" /\ row'[m].labels = {}
      /\ \A n \in Node : n # m => row'[n] = row[n]
  BY <1>2 DEF NodeInv, TypeOK
<1>4. PagesExist'
  BY <1>1, <1>3, PageFields DEF NodeInv, LabelInv, PagesExist, Exists
<1>5. Unlabelled' /\ LabelsAnnounced'
  BY <1>1, <1>2, <1>3 DEF LabelInv, Unlabelled, LabelsAnnounced, Exists
<1> QED
  BY <1>4, <1>5 DEF LabelInv

(* What an operator sets is announced with it.                             *)
LEMMA PostLabelsLabels ==
  ASSUME NodeInv, LabelInv, NEW t \in Tab, AgentDetail(t)
  PROVE  LabelInv'
<1> DEFINE m == page[t].node
<1>1. PICK l \in Label : PostLabels(m, page[t].labels \cup {l})
  BY DEF AgentDetail, AddLabel
<1> DEFINE ls == page[t].labels \cup {l}
<1>2. m \in Node /\ Exists(m)
  BY PageFields DEF AgentDetail, NodeInv, LabelInv, PagesExist
<1>3. /\ row' = [row EXCEPT ![m].labels = ls] /\ announced' = [announced EXCEPT ![m] = ls]
      /\ UNCHANGED overtaken /\ \A u \in Tab : page'[u] \in {page[u], NoPage}
  BY <1>1, RequestIs DEF PostLabels
<1>4. ASSUME NEW n \in Node
      PROVE  /\ row'[n].status = row[n].status
             /\ n = m => row'[n].labels = ls /\ announced'[n] = ls
             /\ n # m => row'[n] = row[n] /\ announced'[n] = announced[n]
  <2>1. row[n] \in Row
    BY DEF NodeInv, TypeOK
  <2>2. CASE n = m
    <3>1. row'[n] = [row[n] EXCEPT !.labels = ls] /\ announced'[n] = ls
      BY <1>3, <2>2 DEF NodeInv, TypeOK
    <3> QED
      BY <2>1, <2>2, <3>1 DEF Row
  <2>3. CASE n # m
    BY <1>3, <2>3 DEF NodeInv, TypeOK
  <2> QED
    BY <2>2, <2>3
<1>5. PagesExist'
  BY <1>3, <1>4, PageFields DEF NodeInv, LabelInv, PagesExist, Exists
<1>6. Unlabelled' /\ LabelsAnnounced'
  <2>1. ASSUME NEW n \in Node, row'[n].status = "absent"
        PROVE  n \in overtaken' \/ (row'[n].labels = {} /\ announced'[n] = {})
    <3>1. row[n].status = "absent" /\ n # m
      BY <1>2, <1>4, <2>1 DEF Exists
    <3>2. n \in overtaken \/ (row[n].labels = {} /\ announced[n] = {})
      BY <3>1 DEF LabelInv, Unlabelled, Exists
    <3> QED
      BY <1>3, <1>4, <3>1, <3>2
  <2>2. ASSUME NEW n \in Node PROVE row'[n].labels = announced'[n] \/ n \in overtaken'
    BY <1>3, <1>4 DEF LabelInv, LabelsAnnounced
  <2> QED
    BY <2>1, <2>2 DEF Unlabelled, LabelsAnnounced, Exists
<1> QED
  BY <1>5, <1>6 DEF LabelInv

LEMMA LabelInvStep == NodeInv /\ LabelInv /\ [Next]_vars => LabelInv'
<1> SUFFICES ASSUME NodeInv, LabelInv, [Next]_vars PROVE LabelInv'
  OBVIOUS
<1>1. CASE UNCHANGED vars
  BY <1>1, RecordsKept DEF vars, hubVars, consoleVars, history
<1>2. ASSUME NEW c \in Conn, Dial(c) PROVE LabelInv'
  <2>1. \A t \in Tab : page'[t] \in {page[t], NoPage}
    BY <1>2 DEF Dial, Event
  <2> QED
    BY <1>2, <2>1, RecordsKept DEF Dial, history
<1>3. ASSUME NEW c \in Conn, Handler(c) PROVE LabelInv'
  <2>1. CASE HandleHello(c)
    BY <2>1, RecordsKept DEF HandleHello, consoleVars, history
  <2>2. CASE HandleEnrol(c)
    BY <2>2, EnrolLabels
  <2>3. CASE HandleEnrolAgain(c)
    BY <2>3, RecordsKept DEF HandleEnrolAgain, consoleVars, history
  <2>4. CASE EnrolUpsert(c)
    BY <2>4, WriteBackLabels DEF EnrolUpsert, NodeInv, Identified
  <2>5. CASE InventoryUpsert(c)
    BY <2>5, WriteBackLabels DEF InventoryUpsert, NodeInv, Identified
  <2>6. CASE HandleHeartbeat(c)
    <3> DEFINE s == AfterHeartbeat(row[Head(up[c]).node].status)
    <3>1. s # "absent"
      BY DEF AfterHeartbeat
    <3>2. /\ row' = [row EXCEPT ![Head(up[c]).node].status = s]
          /\ UNCHANGED <<announced, overtaken, page>>
      BY <2>6 DEF HandleHeartbeat, consoleVars
    <3> QED
      BY <3>1, <3>2, StatusKeepsLabels
  <2>7. CASE HandleInventory(c)
    BY <2>7, RecordsKept DEF HandleInventory, consoleVars, history
  <2>8. CASE LookUp(c)
    BY <2>8, RecordsKept DEF LookUp, consoleVars, history
  <2>9. CASE Unregister(c)
    BY <2>9, RecordsKept DEF Unregister, consoleVars
  <2>10. CASE MarkOffline(c)
    BY <2>10, StatusKeepsLabels DEF MarkOffline, consoleVars
  <2> QED
    BY <1>3, <2>1, <2>2, <2>3, <2>4, <2>5, <2>6, <2>7, <2>8, <2>9, <2>10 DEF Handler
<1>4. ASSUME NEW c \in Conn, ReadError(c) PROVE LabelInv'
  BY <1>4, RecordsKept DEF ReadError, consoleVars, history
<1>5. CASE LoseLink \/ OnHelloAck
  BY <1>5, RecordsKept DEF LoseLink, OnHelloAck, hubVars, consoleVars, history
<1>6. ASSUME NEW type \in {"HEARTBEAT", "INVENTORY"}, Tick(type) PROVE LabelInv'
  BY <1>6, RecordsKept DEF Tick, hubVars, consoleVars, history
<1>7. CASE (\E n \in Node : FindStale(n)) \/ CloseStale \/ UnregisterStale
  BY <1>7, RecordsKept DEF FindStale, CloseStale, UnregisterStale, consoleVars, history
<1>8. CASE OnTimeout
  BY <1>8, StatusKeepsLabels DEF OnTimeout, consoleVars
<1>9. ASSUME NEW n \in Node, RevokeCredential(n) PROVE LabelInv'
  <2>1. /\ row' = [row EXCEPT ![n].cred = FALSE] /\ UNCHANGED <<announced, overtaken>>
        /\ \A t \in Tab : page'[t] \in {page[t], NoPage}
    BY <1>9, RequestIs DEF RevokeCredential
  <2>2. ASSUME NEW k \in Node PROVE row'[k].labels = row[k].labels /\ row'[k].status = row[k].status
    <3>1. row[k] \in Row
      BY DEF NodeInv, TypeOK
    <3>2. row'[k] = row[k] \/ row'[k] = [row[k] EXCEPT !.cred = FALSE]
      BY <2>1 DEF NodeInv, TypeOK
    <3> QED
      BY <3>1, <3>2 DEF Row
  <2> QED
    BY <2>1, <2>2, LabelsKept DEF Exists
<1>10. ASSUME NEW t \in Tab, Agents(t) PROVE LabelInv'
  <2>1. PICK s \in {"online", "maintenance"} : PostStatus(page[t].node, s)
    BY <1>10 DEF Agents
  <2>2. /\ row' = [row EXCEPT ![page[t].node].status = s] /\ UNCHANGED <<announced, overtaken>>
        /\ \A u \in Tab : page'[u] \in {page[u], NoPage}
    BY <2>1, RequestIs DEF PostStatus
  <2> QED
    BY <2>2, StatusKeepsLabels
<1>11. ASSUME NEW t \in Tab, NEW n \in Node, Fetch(t, n) PROVE LabelInv'
  <2>1. Exists(n) /\ UNCHANGED <<row, announced, overtaken>>
    BY <1>11 DEF Fetch, hubVars, history
  <2>2. \A u \in Tab : page'[u] = page[u] \/ page'[u].node = n
    BY <1>11 DEF Fetch, NodeInv, TypeOK
  <2> QED
    BY <2>1, <2>2 DEF LabelInv, PagesExist, Unlabelled, LabelsAnnounced, Exists
<1> QED
  BY <1>1, <1>2, <1>3, <1>4, <1>5, <1>6, <1>7, <1>8, <1>9, <1>10, <1>11, PostLabelsLabels DEF Next

-----------------------------------------------------------------------------

(* The invariant that is inductive: types, the order of the messages, and  *)
(* which connections the session map can hold.                             *)
THEOREM NodeInvHolds == Spec => [](NodeInv /\ LabelInv)
BY NodeInit, NodeInvStep, LabelInvStep, PTL DEF Spec

(* Every variable of the model of connections has its type.                *)
THEOREM TypeCorrect == Spec => []TypeOK
<1>1. NodeInv => TypeOK
  BY DEF NodeInv
<1> QED
  BY <1>1, NodeInvHolds, PTL

(* The session map never holds a connection whose handler has ended        *)
(* (Register, handleDisconnect, the heartbeat checker).                    *)
THEOREM NoDeadSessionHolds == Spec => []NoDeadSession
<1>1. NodeInv => NoDeadSession
  BY NotRegistered DEF NoDeadSession
<1> QED
  BY <1>1, NodeInvHolds, PTL

(* A node's labels are those announced last, unless an inventory or an     *)
(* enrolment has written back an older copy (SetLabels, UpsertNode).       *)
THEOREM LabelsAnnouncedHolds == Spec => []LabelsAnnounced
<1>1. LabelInv => LabelsAnnounced
  BY DEF LabelInv
<1> QED
  BY <1>1, NodeInvHolds, PTL

-----------------------------------------------------------------------------
(* Who a connection is of.  A late heartbeat must not leave a node online  *)
(* whose connections have all ended: every heartbeat is on a connection of *)
(* the node it names, and that node has a record.                          *)

(* What the first message of c says, or said, about who the Agent is; a    *)
(* handler that has left its read loop unidentified remains so.            *)
Over(c) == ident[c] = NoNode /\ step[c] \in {"LOOK", "ENDED"}
First(q, n) == q # <<>> /\ q[1].type \in {"HELLO", "ENROL"} /\ q[1].node = n
Speaks(c, n) == ident[c] = n \/ First(up[c], n) \/ Over(c)

(* Heartbeats come on connections of the node they name, and whatever      *)
(* names a node names one that has a record.                               *)
Names(c, m) ==
    /\ m.type = "HEARTBEAT" => m.node \in Node /\ Speaks(c, m.node)
    /\ m.node \in Node => Exists(m.node)
Speaking ==
    /\ \A c \in Conn : \A i \in DOMAIN up[c] : Names(c, up[c][i])
    /\ link # NoConn /\ agent.node \in Node => Speaks(link, agent.node)
    /\ \A c \in Conn : ack[c].ok => ack[c].node = ident[c]
Recorded ==
    /\ agent.node \in Node => Exists(agent.node)
    /\ \A c \in Conn : ident[c] \in Node => Exists(ident[c])
    /\ checker.op # "IDLE" => checker.node \in Node /\ Exists(checker.node)

(* A connection that has been dialled and has not ended. *)
Going(c) == step[c] \notin {"NEW", "ENDED"}

IdentityInv == Speaking /\ Recorded /\ OneRowPerAgent /\ DownIsShown

(* What a step may make of the status of node n. *)
Changes(n) ==
    \/ row'[n].status = row[n].status /\ author'[n] = author[n]
    \/ Exists(n) /\ row'[n].status = "offline"
    \/ Exists(n) /\ author'[n] = "operator" /\ row'[n].status # "absent"
    \/ /\ Exists(n) /\ row'[n].status = AfterHeartbeat(row[n].status)
       /\ \E c \in Conn : ident'[c] = n /\ step'[c] = "READ"
    \/ /\ ~Exists(n) /\ row'[n].status = "online"
       /\ \E c \in Conn : ident'[c] = n /\ step'[c] = "READ" /\ c \notin acked'

(* Writing one part of a record. *)
SetStatus(m, s) == row' = [row EXCEPT ![m].status = s]
SetLabels(m, l) == row' = [row EXCEPT ![m].labels = l]
SetCred(m, b) == row' = [row EXCEPT ![m].cred = b]
-----------------------------------------------------------------------------
(* Who the connections belong to. *)

LEMMA IdentityInit == Init => IdentityInv
<1> SUFFICES ASSUME Init PROVE IdentityInv
  OBVIOUS
<1>1. /\ \A c \in Conn : up[c] = <<>> /\ ack[c] = NoAck /\ ident[c] = NoNode
      /\ link = NoConn /\ checker.op = "IDLE" /\ NoAck.ok = FALSE
  BY Kinds DEF Init, Idle
<1>2. /\ agent.node = NoNode \/ agent.node = 1
      /\ \A n \in Node : Exists(n) => n = agent.node /\ row[n].status = "offline"
      /\ agent.node = 1 => Exists(1)
  BY Kinds DEF Init, Exists
<1>3. Speaking
  BY <1>1 DEF Speaking
<1>4. Recorded
  BY <1>1, <1>2, Kinds DEF Recorded
<1>5. OneRowPerAgent /\ DownIsShown
  BY <1>2 DEF OneRowPerAgent, DownIsShown
<1> QED
  BY <1>3, <1>4, <1>5 DEF IdentityInv

(* What every step keeps: who a connection is of, what is said of it, and  *)
(* that a node has a record.                                               *)
IdentityGrows ==
    /\ \A c \in Conn : ident[c] \in Node => ident'[c] = ident[c]
    /\ \A c \in Conn, n \in Node : Speaks(c, n) => Speaks(c, n)'
    /\ \A n \in Node : Exists(n) => Exists(n)'

(* A step on one connection, that keeps what its first message says.       *)
LEMMA GrowsOne ==
  ASSUME NodeInv, NEW c \in Conn,
         \A d \in Conn : d # c => UNCHANGED <<ident[d], up[d], step[d]>>,
         ident[c] \in Node => ident'[c] = ident[c],
         Over(c) => Over(c)',
         \A n \in Node : First(up[c], n) => ident'[c] = n \/ First(up'[c], n) \/ Over(c)',
         \A n \in Node : Exists(n) => row'[n].status # "absent"
  PROVE  IdentityGrows
<1>1. \A n \in Node : Speaks(c, n) => Speaks(c, n)'
  BY DEF Speaks, First
<1>2. \A d \in Conn : d # c => \A n \in Node : Speaks(d, n) => Speaks(d, n)'
  BY DEF Speaks, First, Over
<1> QED
  BY <1>1, <1>2 DEF IdentityGrows, Exists

(* A step that leaves the connections alone. *)
LEMMA GrowsNone ==
  ASSUME UNCHANGED <<ident, up, step>>, \A n \in Node : Exists(n) => row'[n].status # "absent"
  PROVE  IdentityGrows
BY DEF IdentityGrows, Speaks, First, Over, Exists

(* Writing a status, labels or a credential leaves every record one.       *)
LEMMA RecordsStay ==
  ASSUME NodeInv, NEW n,
         \/ row' = row
         \/ \E s : s # "absent" /\ row' = [row EXCEPT ![n].status = s]
         \/ \E l : row' = [row EXCEPT ![n].labels = l]
         \/ \E b : row' = [row EXCEPT ![n].cred = b]
  PROVE  \A k \in Node : Exists(k) => row'[k].status # "absent"
<1> SUFFICES ASSUME NEW k \in Node, Exists(k) PROVE row'[k].status # "absent"
  OBVIOUS
<1>1. row[k] \in Row /\ row \in [Node -> Row]
  BY DEF NodeInv, TypeOK
<1>2. CASE row' = row \/ k # n
  BY <1>1, <1>2 DEF Exists
<1>3. ASSUME k = n, NEW s, s # "absent", row' = [row EXCEPT ![n].status = s]
      PROVE  row'[k].status # "absent"
  <2>1. row'[k] = [row[k] EXCEPT !.status = s]
    BY <1>1, <1>3
  <2> QED
    BY <1>1, <1>3, <2>1 DEF Row
<1>4. ASSUME k = n, NEW l, row' = [row EXCEPT ![n].labels = l]
      PROVE  row'[k].status # "absent"
  <2>1. row'[k] = [row[k] EXCEPT !.labels = l]
    BY <1>1, <1>4
  <2> QED
    BY <1>1, <2>1 DEF Row, Exists
<1>5. ASSUME k = n, NEW b, row' = [row EXCEPT ![n].cred = b]
      PROVE  row'[k].status # "absent"
  <2>1. row'[k] = [row[k] EXCEPT !.cred = b]
    BY <1>1, <1>5
  <2> QED
    BY <1>1, <2>1 DEF Row, Exists
<1> QED
  BY <1>2, <1>3, <1>4, <1>5

(* Sending keeps the first message, reading takes it.                      *)
LEMMA FirstIs ==
  ASSUME NEW q \in Seq(Message), NEW n
  PROVE  /\ \A m \in Message : First(q, n) => First(Append(q, m), n)
         /\ First(q, n) => Head(q).type \in {"HELLO", "ENROL"} /\ Head(q).node = n
<1>1. ASSUME First(q, n), NEW m \in Message PROVE First(Append(q, m), n)
  <2>1. q # <<>> /\ q[1].type \in {"HELLO", "ENROL"} /\ q[1].node = n
    BY <1>1 DEF First
  <2>2. Append(q, m) # <<>> /\ Append(q, m)[1] = q[1]
    BY <2>1
  <2> QED
    BY <2>1, <2>2 DEF First
<1>2. First(q, n) => Head(q).type \in {"HELLO", "ENROL"} /\ Head(q).node = n
  BY DEF First
<1> QED
  BY <1>1, <1>2

LEMMA HandlerGrows ==
  ASSUME NodeInv, NEW c \in Conn, Handler(c) \/ ReadError(c) \/ Dial(c)
  PROVE  IdentityGrows
<1>0. /\ up \in [Conn -> Seq(Message)] /\ step \in [Conn -> Step]
      /\ ident \in [Conn -> Node \cup {NoNode}] /\ up[c] \in Seq(Message)
      /\ row \in [Node -> Row] /\ NoNode \notin Node /\ Identified(c)
  BY Kinds DEF NodeInv, TypeOK
<1> DEFINE m == Head(up[c])
<1>1. ASSUME HandleHello(c) \/ HandleEnrolAgain(c)
      PROVE  IdentityGrows
  <2>1. /\ up' = [up EXCEPT ![c] = Tail(@)] /\ ident[c] = NoNode /\ step[c] = "READ"
        /\ UNCHANGED row
    BY <1>1, ReadIs DEF HandleHello, HandleEnrolAgain
  <2>2. /\ \A d \in Conn : d # c => UNCHANGED <<ident[d], up[d], step[d]>>
        /\ ident'[c] = m.node \/ Over(c)'
    BY <1>0, <1>1, <2>1 DEF HandleHello, HandleEnrolAgain, Register, Over
  <2>3. \A n \in Node : First(up[c], n) => ident'[c] = n \/ Over(c)'
    BY <1>0, <2>2, FirstIs
  <2> QED
    BY <1>0, <2>1, <2>2, <2>3, GrowsOne DEF Over, Exists
<1>2. CASE HandleEnrol(c)
  <2>1. /\ up' = [up EXCEPT ![c] = Tail(@)] /\ ident[c] = NoNode /\ step[c] = "READ"
        /\ m.node = NoNode /\ step' = step
    BY <1>2, ReadIs DEF HandleEnrol
  <2>2. PICK n \in Node : /\ row' = [row EXCEPT ![n] = [status |-> "online", labels |-> {}, cred |-> TRUE]]
                          /\ ident' = [ident EXCEPT ![c] = n]
    BY <1>2 DEF HandleEnrol, Register
  <2>3. \A k \in Node : Exists(k) => row'[k].status # "absent"
    BY <1>0, <2>2 DEF Exists
  <2>4. \A k \in Node : ~First(up[c], k)
    BY <1>0, <2>1, FirstIs
  <2> QED
    BY <1>0, <2>1, <2>2, <2>3, <2>4, GrowsOne DEF Over
<1>3. CASE EnrolUpsert(c) \/ InventoryUpsert(c)
  <2>1. ident[c] \in Node /\ WriteBack(c, ident[c])
    BY <1>0, <1>3 DEF EnrolUpsert, InventoryUpsert, Identified
  <2>2. /\ step' = [step EXCEPT ![c] = "READ"] /\ row' = [row EXCEPT ![ident[c]].labels = copy[c]]
        /\ UNCHANGED up /\ step[c] \in {"ENROL", "INVENTORY"}
    BY <1>3, <2>1 DEF WriteBack, EnrolUpsert, InventoryUpsert
  <2>3. ident' = ident
    BY <1>0, <1>3 DEF EnrolUpsert, InventoryUpsert, Register
  <2>4. \A k \in Node : Exists(k) => row'[k].status # "absent"
    BY <2>2, RecordsStay
  <2> QED
    BY <1>0, <2>2, <2>3, <2>4, GrowsOne DEF Over
<1>4. CASE HandleHeartbeat(c) \/ HandleInventory(c)
  <2>1. /\ up' = [up EXCEPT ![c] = Tail(@)] /\ UNCHANGED ident
        /\ m.type \in {"HEARTBEAT", "INVENTORY"} /\ step[c] = "READ"
        /\ step' \in {step, [step EXCEPT ![c] = "INVENTORY"]}
    BY <1>4 DEF HandleHeartbeat, HandleInventory, Reads
  <2>2. \A k \in Node : ~First(up[c], k)
    BY <1>0, <2>1, FirstIs
  <2>3. \A k \in Node : Exists(k) => row'[k].status # "absent"
    <3>1. \/ row' = row
          \/ \E n, s : s # "absent" /\ row' = [row EXCEPT ![n].status = s]
      BY <1>4 DEF HandleHeartbeat, HandleInventory, AfterHeartbeat
    <3> QED
      BY <3>1, RecordsStay
  <2> QED
    BY <1>0, <2>1, <2>2, <2>3, GrowsOne DEF Over
<1>5. CASE LookUp(c) \/ Unregister(c) \/ MarkOffline(c)
  <2>1. /\ UNCHANGED <<ident, up>>
        /\ \E s \in {"UNREGISTER", "OFFLINE", "ENDED"} : step' = [step EXCEPT ![c] = s]
    BY <1>5 DEF LookUp, Unregister, MarkOffline, agentVars
  <2>2. \A k \in Node : Exists(k) => row'[k].status # "absent"
    <3>1. \/ row' = row
          \/ \E n, s : s # "absent" /\ row' = [row EXCEPT ![n].status = s]
      BY <1>5 DEF LookUp, Unregister, MarkOffline
    <3> QED
      BY <3>1, RecordsStay
  <2>3. Over(c) => Over(c)'
    <3>1. Over(c) => LookUp(c) /\ step' = [step EXCEPT ![c] = "ENDED"]
      BY <1>0, <1>5 DEF Over, LookUp, Unregister, MarkOffline, Identified
    <3> QED
      BY <1>0, <2>1, <3>1 DEF Over
  <2>4. ASSUME NEW k \in Node, First(up[c], k) PROVE First(up'[c], k)
    BY <2>1, <2>4 DEF First
  <2> QED
    BY <1>0, <2>1, <2>2, <2>3, <2>4, GrowsOne
<1>6. CASE ReadError(c)
  <2>1. /\ UNCHANGED <<ident, row>> /\ step' = [step EXCEPT ![c] = "LOOK"]
        /\ up' = [up EXCEPT ![c] = <<>>]
    BY <1>6 DEF ReadError
  <2>2. ASSUME NEW k \in Node, First(up[c], k) PROVE ident[c] = NoNode
    BY <1>0, <2>2 DEF First, Identified, Queue
  <2> QED
    BY <1>0, <2>1, <2>2, GrowsOne DEF Over, Exists
<1>7. CASE Dial(c)
  <2>1. /\ UNCHANGED <<ident, row>> /\ step' = [step EXCEPT ![c] = "READ"] /\ step[c] = "NEW"
        /\ \A d \in Conn : d # c => up'[d] = up[d]
    BY <1>0, <1>7 DEF Dial
  <2>2. \A n \in Node : ~First(up[c], n)
    BY <1>0, <2>1 DEF Identified, First
  <2> QED
    BY <1>0, <2>1, <2>2, GrowsOne DEF Over, Exists
<1> QED
  BY <1>1, <1>2, <1>3, <1>4, <1>5, <1>6, <1>7 DEF Handler

LEMMA IdentityStepGrows == NodeInv /\ [Next]_vars => IdentityGrows
<1> SUFFICES ASSUME NodeInv, [Next]_vars PROVE IdentityGrows
  OBVIOUS
<1>0. /\ up \in [Conn -> Seq(Message)] /\ link \in Conn \cup {NoConn}
      /\ agent.node \in Node \cup {NoNode} /\ ack \in [Conn -> Ack]
  BY DEF NodeInv, TypeOK
<1>1. CASE LoseLink \/ UNCHANGED vars \/ (\E n \in Node : FindStale(n)) \/ CloseStale
           \/ UnregisterStale \/ \E t \in Tab, n \in Node : Fetch(t, n)
  BY <1>1, GrowsNone DEF LoseLink, vars, hubVars, agentVars, FindStale, CloseStale, UnregisterStale,
                         Fetch, Exists
<1>2. ASSUME UNCHANGED <<ident, step, row>>, NEW m \in Message, link \in Conn,
             up' = [up EXCEPT ![link] = Append(@, m)]
      PROVE  IdentityGrows
  <2>1. \A n \in Node : First(up[link], n) => First(up'[link], n)
    BY <1>0, <1>2, FirstIs
  <2> QED
    BY <1>0, <1>2, <2>1, GrowsOne DEF Over, Exists
<1>3. CASE OnHelloAck
  <2>1. link \in Conn /\ UNCHANGED <<ident, step, row>> /\ ack[link] \in Ack
    BY <1>0, <1>3 DEF OnHelloAck, hubVars
  <2>2. CASE ack[link].ok
    <3>1. /\ Msg("INVENTORY", ack[link].node) \in Message
          /\ up' = [up EXCEPT ![link] = Append(@, Msg("INVENTORY", ack[link].node))]
      BY <1>3, <2>1, <2>2, Parts DEF OnHelloAck
    <3> QED
      BY <1>2, <2>1, <3>1
  <2>3. CASE ~ack[link].ok
    BY <1>3, <2>1, <2>3, GrowsNone DEF OnHelloAck, Exists
  <2> QED
    BY <2>2, <2>3
<1>4. ASSUME NEW type \in {"HEARTBEAT", "INVENTORY"}, Tick(type) PROVE IdentityGrows
  <2>1. /\ link \in Conn /\ UNCHANGED <<ident, step, row>> /\ Msg(type, agent.node) \in Message
        /\ up' = [up EXCEPT ![link] = Append(@, Msg(type, agent.node))]
    BY <1>0, <1>4, Parts DEF Tick, hubVars
  <2> QED
    BY <1>2, <2>1
<1>5. CASE OnTimeout
  <2>1. UNCHANGED <<ident, up, step>> /\ row' = [row EXCEPT ![checker.node].status = "offline"]
    BY <1>5 DEF OnTimeout, agentVars
  <2> QED
    BY <2>1, RecordsStay, GrowsNone
<1>6. ASSUME NEW n \in Node, RevokeCredential(n) PROVE IdentityGrows
  <2>1. UNCHANGED <<ident, up, step>> /\ row' = [row EXCEPT ![n].cred = FALSE]
    BY <1>6, RequestIs DEF RevokeCredential
  <2> QED
    BY <2>1, RecordsStay, GrowsNone
<1>7. ASSUME NEW t \in Tab, Agents(t) PROVE IdentityGrows
  <2>1. PICK s \in {"online", "maintenance"} : PostStatus(page[t].node, s)
    BY <1>7 DEF Agents
  <2>2. UNCHANGED <<ident, up, step>> /\ row' = [row EXCEPT ![page[t].node].status = s]
    BY <2>1, RequestIs DEF PostStatus
  <2> QED
    BY <2>2, RecordsStay, GrowsNone
<1>8. ASSUME NEW t \in Tab, AgentDetail(t) PROVE IdentityGrows
  <2>1. PICK l \in Label : PostLabels(page[t].node, page[t].labels \cup {l})
    BY <1>8 DEF AgentDetail, AddLabel
  <2>2. /\ UNCHANGED <<ident, up, step>>
        /\ row' = [row EXCEPT ![page[t].node].labels = page[t].labels \cup {l}]
    BY <2>1, RequestIs DEF PostLabels
  <2> QED
    BY <2>2, RecordsStay, GrowsNone
<1> QED
  BY <1>1, <1>3, <1>4, <1>5, <1>6, <1>7, <1>8, HandlerGrows DEF Next

(* What is left of a queue was in it.                                      *)
LEMMA TailFrom ==
  ASSUME NEW q \in Seq(Message), NEW r, r = q \/ r = <<>> \/ (q # <<>> /\ r = Tail(q)),
         NEW i \in DOMAIN r
  PROVE  \E j \in DOMAIN q : r[i] = q[j]
<1>1. CASE r = q \/ r = <<>>
  BY <1>1
<1>2. CASE q # <<>> /\ r = Tail(q)
  <2>1. i + 1 \in DOMAIN q /\ Tail(q)[i] = q[i + 1]
    BY <1>2
  <2> QED
    BY <1>2, <2>1
<1> QED
  BY <1>1, <1>2

(* A step whose new messages name who they should.                         *)
LEMMA SpeakingKept ==
  ASSUME NodeInv, Speaking, IdentityGrows,
         \A c \in Conn : \A i \in DOMAIN up'[c] :
              \/ \E j \in DOMAIN up[c] : up'[c][i] = up[c][j]
              \/ \E m : up'[c][i] = m /\ Names(c, m)',
         \/ link' = link /\ agent'.node = agent.node
         \/ link' # NoConn /\ agent'.node \in Node => Speaks(link, agent.node)',
         \A c \in Conn : ack'[c] = ack[c] \/ ~ack'[c].ok \/ ack'[c].node = ident'[c]
  PROVE  Speaking'
<1>1. ASSUME NEW c \in Conn, NEW j \in DOMAIN up[c], NEW x, x = up[c][j] PROVE Names(c, x)'
  <2>1. Names(c, x)
    BY <1>1 DEF Speaking
  <2> QED
    BY <2>1 DEF Names, IdentityGrows
<1>2. \A c \in Conn : \A i \in DOMAIN up'[c] : \A x : x = up'[c][i] => Names(c, x)'
  BY <1>1
<1>3. \A c \in Conn : \A i \in DOMAIN up'[c] : Names(c, up[c][i])'
  BY <1>2 DEF Names
<1>4. link' # NoConn /\ agent'.node \in Node => Speaks(link, agent.node)'
  <2>1. CASE link' = link /\ agent'.node = agent.node /\ link # NoConn /\ agent.node \in Node
    <3>1. link \in Conn /\ Speaks(link, agent.node)
      BY <2>1 DEF Speaking, NodeInv, TypeOK
    <3>2. \A c, n : c = link /\ n = agent.node => Speaks(c, n)'
      BY <2>1, <3>1 DEF IdentityGrows
    <3> QED
      BY <2>1, <3>2 DEF Speaks, First, Over
  <2> QED
    BY <2>1
<1>5. \A c \in Conn : ack'[c].ok => ack'[c].node = ident'[c]
  BY DEF Speaking, NodeInv, Identified, IdentityGrows
<1> QED
  BY <1>3, <1>4, <1>5 DEF Speaking

(* Steps that neither send nor answer.                                     *)
LEMMA SpeakingQuiet ==
  ASSUME NodeInv, Speaking, IdentityGrows, UNCHANGED <<link, agent, ack>>,
         \A c \in Conn : \/ up'[c] = up[c]
                         \/ up'[c] = <<>>
                         \/ up[c] # <<>> /\ up'[c] = Tail(up[c])
  PROVE  Speaking'
<1>1. \A c \in Conn : \A i \in DOMAIN up'[c] : \E j \in DOMAIN up[c] : up'[c][i] = up[c][j]
  <2> SUFFICES ASSUME NEW c \in Conn, NEW i \in DOMAIN up'[c]
               PROVE  \E j \in DOMAIN up[c] : up'[c][i] = up[c][j]
    OBVIOUS
  <2>1. up[c] \in Seq(Message)
    BY DEF NodeInv, TypeOK
  <2>2. up'[c] = up[c] \/ up'[c] = <<>> \/ (up[c] # <<>> /\ up'[c] = Tail(up[c]))
    OBVIOUS
  <2> DEFINE q == up[c]
             r == up'[c]
  <2>3. q \in Seq(Message) /\ i \in DOMAIN r /\ (r = q \/ r = <<>> \/ (q # <<>> /\ r = Tail(q)))
    BY <2>1, <2>2
  <2> HIDE DEF q, r
  <2>4. \E j \in DOMAIN q : r[i] = q[j]
    BY <2>3, TailFrom
  <2> QED
    BY <2>4 DEF q, r
<1> QED
  BY <1>1, SpeakingKept

(* The answer to who the Agent is names the node it is registered as.      *)
LEMMA SpeakingRegister ==
  ASSUME NodeInv, Speaking, IdentityGrows, NEW c \in Conn, UNCHANGED <<link, agent>>,
         \/ up' = up
         \/ up[c] # <<>> /\ up' = [up EXCEPT ![c] = Tail(@)],
         \/ \E n \in Node, b \in BOOLEAN : Register(c, n, b)
         \/ Answer(c, Rejected)
  PROVE  Speaking'
<1>1. \A d \in Conn : \A i \in DOMAIN up'[d] : \E j \in DOMAIN up[d] : up'[d][i] = up[d][j]
  <2>1. \A d \in Conn : up[d] \in Seq(Message) /\ up \in [Conn -> Seq(Message)]
    BY DEF NodeInv, TypeOK
  <2>2. \A d \in Conn : up'[d] = up[d] \/ (up[d] # <<>> /\ up'[d] = Tail(up[d]))
    BY <2>1
  <2> QED
    BY <2>1, <2>2, TailFrom
<1> DEFINE Answers == \A d \in Conn : ack'[d] = ack[d] \/ ~ack'[d].ok \/ ack'[d].node = ident'[d]
<1>2. Answers
  <2>0. ident \in [Conn -> Node \cup {NoNode}] /\ ack \in [Conn -> Ack]
    BY DEF NodeInv, TypeOK
  <2>1. ASSUME NEW n \in Node, NEW b \in BOOLEAN, Register(c, n, b) PROVE Answers
    BY <2>0, <2>1, Parts DEF Register, Answer
  <2> QED
    BY <2>0, <2>1, Kinds DEF Answer
<1> HIDE DEF Answers
<1>3. agent'.node = agent.node /\ link' = link
  OBVIOUS
<1> QED
  BY <1>1, <1>2, <1>3, SpeakingKept DEF Answers

(* The first message of a connection says who the Agent takes itself for.  *)
LEMMA DialSpeaks ==
  ASSUME NodeInv, Speaking, Recorded, IdentityGrows, NEW c \in Conn, Dial(c)
  PROVE  Speaking'
<1> DEFINE m == Msg(IF agent.cred THEN "HELLO" ELSE "ENROL", agent.node)
<1>1. /\ agent.node \in Node \cup {NoNode} /\ agent.cred \in BOOLEAN
      /\ m.type \in {"HELLO", "ENROL"} /\ m.node = agent.node
  BY Parts DEF NodeInv, TypeOK
<1>2. /\ up' = [up EXCEPT ![c] = <<m>>] /\ link' = c /\ UNCHANGED <<agent, ack>>
      /\ up'[c] = <<m>> /\ \A d \in Conn : d # c => up'[d] = up[d]
  BY DEF Dial, NodeInv, TypeOK
<1>3. \A x : x = m => Names(c, x)'
  BY <1>1, <1>2 DEF Names, Recorded, IdentityGrows
<1>4. \A k : (k = agent.node => Speaks(c, k)')
  BY <1>1, <1>2 DEF Speaks, First
<1>5. \A k : (k = agent.node /\ link' # NoConn => Speaks(link, k)')
  BY <1>2, <1>4 DEF Speaks, First, Over
<1>6. \A d \in Conn : \A i \in DOMAIN up'[d] :
          \/ \E j \in DOMAIN up[d] : up'[d][i] = up[d][j]
          \/ \E x : up'[d][i] = x /\ Names(d, x)'
  <2> SUFFICES ASSUME NEW d \in Conn, NEW i \in DOMAIN up'[d]
               PROVE  \/ \E j \in DOMAIN up[d] : up'[d][i] = up[d][j]
                      \/ \E x : up'[d][i] = x /\ Names(d, x)'
    OBVIOUS
  <2>1. CASE d # c
    BY <2>1, <1>2
  <2>2. CASE d = c
    <3>1. up'[c][i] = m
      BY <2>2, <1>2
    <3> HIDE DEF m
    <3> QED
      BY <2>2, <3>1, <1>3
  <2> QED
    BY <2>1, <2>2
<1>7. link' # NoConn /\ agent'.node \in Node => Speaks(link, agent.node)'
  BY <1>2, <1>5 DEF Speaks, First, Over
<1> QED
  BY <1>2, <1>6, <1>7, SpeakingKept

(* Sending on the connection the Agent is on.                              *)
LEMMA SendSpeaks ==
  ASSUME NodeInv, Speaking, IdentityGrows, NEW m, link \in Conn,
         \A c, x : c = link /\ x = m => Names(c, x)',
         up' = [up EXCEPT ![link] = Append(@, m)], m \in Message,
         \/ link' = link /\ agent'.node = agent.node
         \/ link' # NoConn /\ agent'.node \in Node => Speaks(link, agent.node)',
         \A c \in Conn : ack'[c] = ack[c] \/ ~ack'[c].ok \/ ack'[c].node = ident'[c],
         link' = link
  PROVE  Speaking'
<1>1. \A d \in Conn : \A i \in DOMAIN up'[d] :
          \/ \E j \in DOMAIN up[d] : up'[d][i] = up[d][j]
          \/ \E x : up'[d][i] = x /\ Names(d, x)'
  <2> SUFFICES ASSUME NEW d \in Conn, NEW i \in DOMAIN up'[d]
               PROVE  \/ \E j \in DOMAIN up[d] : up'[d][i] = up[d][j]
                      \/ \E x : up'[d][i] = x /\ Names(d, x)'
    OBVIOUS
  <2>0. up \in [Conn -> Seq(Message)] /\ up[d] \in Seq(Message)
    BY DEF NodeInv, TypeOK
  <2>1. CASE d # link
    BY <2>0, <2>1
  <2>2. CASE d = link
    <3>1. up'[d] = Append(up[d], m)
      BY <2>0, <2>2
    <3>2. up'[d][i] = m \/ (i \in DOMAIN up[d] /\ up'[d][i] = up[d][i])
      BY <2>0, <3>1
    <3> QED
      BY <2>2, <3>2
  <2> QED
    BY <2>1, <2>2
<1> QED
  BY <1>1, SpeakingKept

LEMMA OnHelloAckSpeaks ==
  ASSUME NodeInv, Speaking, Recorded, IdentityGrows, OnHelloAck
  PROVE  Speaking'
<1>1. /\ link \in Conn /\ ack[link] \in Ack /\ Identified(link) /\ ack \in [Conn -> Ack]
      /\ link' = link /\ ident' = ident /\ ack' = [ack EXCEPT ![link] = NoAck]
      /\ UNCHANGED row
  BY DEF OnHelloAck, NodeInv, TypeOK, hubVars
<1>2. \A c \in Conn : ack'[c] = ack[c] \/ ~ack'[c].ok \/ ack'[c].node = ident'[c]
  BY <1>1, Kinds
<1>3. CASE ack[link].ok
  <2> DEFINE n == ack[link].node
             m == Msg("INVENTORY", n)
  <2>1. n \in Node /\ ident[link] = n /\ m \in Message /\ m.type = "INVENTORY" /\ m.node = n
    BY <1>1, <1>3, Parts DEF Identified, Speaking
  <2>2. agent'.node = n /\ up' = [up EXCEPT ![link] = Append(@, m)]
    BY <1>3 DEF OnHelloAck
  <2>3. Exists(n) /\ ident'[link] = n
    BY <1>1, <2>1 DEF Recorded
  <2>4. \A c, x : c = link /\ x = m => Names(c, x)'
    BY <1>1, <2>1, <2>3 DEF Names, Exists
  <2>5. Speaks(link, agent.node)'
    BY <1>1, <2>2, <2>3 DEF Speaks
  <2> HIDE DEF m
  <2> QED
    BY <1>1, <1>2, <2>1, <2>2, <2>4, <2>5, SendSpeaks
<1>4. CASE ~ack[link].ok
  <2>1. agent' = [agent EXCEPT !.cred = FALSE] /\ UNCHANGED up
    BY <1>4 DEF OnHelloAck
  <2>2. agent'.node = agent.node
    BY <2>1 DEF NodeInv, TypeOK
  <2>3. \A d \in Conn : \A i \in DOMAIN up'[d] : \E j \in DOMAIN up[d] : up'[d][i] = up[d][j]
    BY <2>1
  <2> QED
    BY <1>1, <1>2, <2>2, <2>3, SpeakingKept
<1> QED
  BY <1>3, <1>4

LEMMA TickSpeaks ==
  ASSUME NodeInv, Speaking, Recorded, IdentityGrows, NEW type \in {"HEARTBEAT", "INVENTORY"}, Tick(type)
  PROVE  Speaking'
<1> DEFINE m == Msg(type, agent.node)
<1>1. /\ link \in Conn /\ agent.node \in Node
      /\ UNCHANGED <<row, agent, link, ack, ident>>
      /\ up' = [up EXCEPT ![link] = Append(@, m)]
  BY DEF Tick, NodeInv, TypeOK, hubVars
<1>2. m \in Message /\ m.type = type /\ m.node = agent.node
  BY <1>1, Parts
<1>3. Speaks(link, agent.node) /\ link # NoConn /\ Exists(agent.node)
  BY <1>1, Kinds DEF Speaking, Recorded
<1>4. \A c, k : c = link /\ k = agent.node => Speaks(c, k)'
  BY <1>1, <1>3 DEF IdentityGrows
<1>5. \A c, k : c = link /\ k = m.node => Speaks(c, k)'
  BY <1>2, <1>4
<1> HIDE DEF m
<1>6. m.node \in Node /\ Exists(m.node)
  BY <1>1, <1>2, <1>3
<1>7. \A c, x : c = link /\ x = m => Names(c, x)'
  BY <1>1, <1>5, <1>6 DEF Names, Exists
<1> QED
  BY <1>1, <1>2, <1>7, SendSpeaks

LEMMA SpeakingStep == NodeInv /\ Speaking /\ Recorded /\ [Next]_vars => Speaking'
<1> SUFFICES ASSUME NodeInv, Speaking, Recorded, [Next]_vars PROVE Speaking'
  OBVIOUS
<1>0. IdentityGrows
  BY IdentityStepGrows
<1>a. up \in [Conn -> Seq(Message)] /\ row \in [Node -> Row] /\ ident \in [Conn -> Node \cup {NoNode}]
  BY DEF NodeInv, TypeOK
<1>1. ASSUME NEW c \in Conn, HandleHello(c) \/ HandleEnrol(c) \/ EnrolUpsert(c)
      PROVE  Speaking'
  <2>1. CASE HandleHello(c)
    <3>1. UNCHANGED <<link, agent>> /\ up[c] # <<>> /\ up' = [up EXCEPT ![c] = Tail(@)]
      BY <2>1 DEF HandleHello, Reads
    <3>2. \/ \E n \in Node, b \in BOOLEAN : Register(c, n, b)
          \/ Answer(c, Rejected)
      BY <2>1, ReadIs DEF HandleHello
    <3> QED
      BY <1>0, <3>1, <3>2, SpeakingRegister
  <2>2. CASE HandleEnrol(c)
    <3>1. UNCHANGED <<link, agent>> /\ up[c] # <<>> /\ up' = [up EXCEPT ![c] = Tail(@)]
      BY <2>2 DEF HandleEnrol, Reads
    <3>2. \E n \in Node, b \in BOOLEAN : Register(c, n, b)
      BY <2>2 DEF HandleEnrol
    <3> QED
      BY <1>0, <3>1, <3>2, SpeakingRegister
  <2>3. CASE EnrolUpsert(c)
    <3>1. ident[c] \in Node /\ row[ident[c]].cred \in BOOLEAN
      BY <1>a, <2>3, Parts DEF EnrolUpsert, NodeInv, Identified
    <3>2. Register(c, ident[c], row[ident[c]].cred) /\ UNCHANGED <<link, agent, up>>
      BY <2>3 DEF EnrolUpsert, WriteBack
    <3> QED
      BY <1>0, <3>1, <3>2, SpeakingRegister
  <2> QED
    BY <1>1, <2>1, <2>2, <2>3
<1>2. ASSUME NEW c \in Conn,
             HandleEnrolAgain(c) \/ HandleHeartbeat(c) \/ HandleInventory(c)
      PROVE  Speaking'
  <2>1. UNCHANGED <<link, agent, ack>> /\ up[c] # <<>> /\ up' = [up EXCEPT ![c] = Tail(@)]
    BY <1>2 DEF HandleEnrolAgain, HandleHeartbeat, HandleInventory, Reads
  <2>2. \A d \in Conn : up'[d] = up[d] \/ (up[d] # <<>> /\ up'[d] = Tail(up[d]))
    BY <1>a, <2>1
  <2> QED
    BY <1>0, <2>1, <2>2, SpeakingQuiet
<1>3. ASSUME NEW c \in Conn, ReadError(c) PROVE Speaking'
  <2>1. UNCHANGED <<link, agent, ack>> /\ up' = [up EXCEPT ![c] = <<>>]
    BY <1>3 DEF ReadError
  <2>2. \A d \in Conn : up'[d] = up[d] \/ up'[d] = <<>>
    BY <1>a, <2>1
  <2> QED
    BY <1>0, <2>1, <2>2, SpeakingQuiet
<1>4. CASE UNCHANGED <<link, agent, ack, up>>
  BY <1>0, <1>4, SpeakingQuiet
<1>5. ASSUME NEW c \in Conn, InventoryUpsert(c) \/ LookUp(c) \/ Unregister(c) \/ MarkOffline(c)
      PROVE  Speaking'
  BY <1>4, <1>5 DEF InventoryUpsert, WriteBack, LookUp, Unregister, MarkOffline, agentVars
<1>6. CASE (\E n \in Node : FindStale(n)) \/ OnTimeout \/ CloseStale \/ UnregisterStale
  BY <1>4, <1>6 DEF FindStale, OnTimeout, CloseStale, UnregisterStale, agentVars
<1>7. ASSUME NEW t \in Tab, Agents(t) \/ AgentDetail(t) \/ (\E n \in Node : Fetch(t, n))
      PROVE  Speaking'
  BY <1>4, <1>7 DEF Agents, AgentDetail, AddLabel, PostStatus, PostLabels, Fetch, Request, agentVars
<1>8. CASE \E n \in Node : RevokeCredential(n)
  BY <1>4, <1>8 DEF RevokeCredential, Request, agentVars
<1>9. CASE UNCHANGED vars
  BY <1>4, <1>9 DEF vars, agentVars
<1>10. CASE LoseLink
  <2>1. /\ UNCHANGED <<agent, up>> /\ link' = NoConn /\ ack' = [ack EXCEPT ![link] = NoAck]
    BY <1>10 DEF LoseLink
  <2>2. \A d \in Conn : \A i \in DOMAIN up'[d] : \E j \in DOMAIN up[d] : up'[d][i] = up[d][j]
    BY <2>1
  <2>3. \A d \in Conn : ack'[d] = ack[d] \/ ~ack'[d].ok
    BY <2>1, Kinds DEF NodeInv, TypeOK
  <2> QED
    BY <1>0, <2>1, <2>2, <2>3, SpeakingKept
<1>11. ASSUME NEW c \in Conn, Handler(c) PROVE Speaking'
  BY <1>11, <1>1, <1>2, <1>5 DEF Handler
<1> QED
  BY <1>0, <1>3, <1>6, <1>7, <1>8, <1>9, <1>10, <1>11, DialSpeaks, OnHelloAckSpeaks, TickSpeaks DEF Next

(* Whatever names a node names one that has a record. *)
LEMMA RecordedKept ==
  ASSUME NodeInv, Recorded, IdentityGrows,
         \/ agent'.node = agent.node
         \/ agent'.node \in Node => row'[agent'.node].status # "absent",
         \A c \in Conn : \/ ident'[c] = ident[c]
                         \/ ident'[c] \in Node => row'[ident'[c]].status # "absent",
         checker' = checker \/ checker'.op = "IDLE" \/ (checker'.node \in Node /\ Exists(checker'.node))
  PROVE  Recorded'
BY DEF Recorded, IdentityGrows, Exists

LEMMA RecordedStep == NodeInv /\ Speaking /\ Recorded /\ [Next]_vars => Recorded'
<1> SUFFICES ASSUME NodeInv, Speaking, Recorded, [Next]_vars PROVE Recorded'
  OBVIOUS
<1>0. IdentityGrows
  BY IdentityStepGrows
<1>a. /\ ident \in [Conn -> Node \cup {NoNode}] /\ row \in [Node -> Row] /\ NoNode \notin Node
      /\ checker \in [op : {"IDLE", "OFFLINE", "CLOSE", "UNREGISTER"}, node : Node \cup {NoNode}]
  BY Kinds DEF NodeInv, TypeOK
<1>1. CASE UNCHANGED <<agent, ident, checker>>
  BY <1>0, <1>1, RecordedKept
<1>b. ASSUME NEW c \in Conn, NEW n \in Node, ident' = [ident EXCEPT ![c] = n],
             row'[n].status # "absent", UNCHANGED <<agent, checker>>
      PROVE  Recorded'
  <2>1. \A d \in Conn : ident'[d] = ident[d] \/ row'[ident'[d]].status # "absent"
    BY <1>a, <1>b
  <2> QED
    BY <1>0, <1>b, <2>1, RecordedKept
<1>c. ASSUME NEW c \in Conn, NEW type, Reads(c, type), Head(up[c]).node \in Node
      PROVE  Exists(Head(up[c]).node)
  <2>1. up[c] \in Seq(Message) /\ up[c] # <<>>
    BY <1>c DEF Reads, NodeInv, TypeOK
  <2>2. 1 \in DOMAIN up[c] /\ Head(up[c]) = up[c][1]
    BY <2>1
  <2> QED
    BY <1>c, <2>2 DEF Speaking, Names
<1>2. ASSUME NEW c \in Conn, HandleHello(c) PROVE Recorded'
  <2> DEFINE n == Head(up[c]).node
  <2>1. n \in Node /\ Exists(n) /\ UNCHANGED <<agent, checker, row>>
    BY <1>c, <1>2, ReadIs DEF HandleHello
  <2>2. ident' = ident \/ ident' = [ident EXCEPT ![c] = n]
    BY <1>2 DEF HandleHello, Register
  <2> QED
    BY <1>1, <1>b, <2>1, <2>2 DEF Exists
<1>3. ASSUME NEW c \in Conn, HandleEnrol(c) PROVE Recorded'
  <2>1. PICK n \in Node : /\ row' = [row EXCEPT ![n] = [status |-> "online", labels |-> {}, cred |-> TRUE]]
                          /\ ident' = [ident EXCEPT ![c] = n]
    BY <1>3 DEF HandleEnrol, Register
  <2>2. row'[n].status = "online" /\ UNCHANGED <<agent, checker>>
    BY <1>a, <1>3, <2>1 DEF HandleEnrol
  <2> QED
    BY <1>b, <2>1, <2>2
<1>4. ASSUME NEW c \in Conn, HandleEnrolAgain(c) PROVE Recorded'
  <2> DEFINE n == Head(up[c]).node
  <2>1. n \in Node /\ Exists(n) /\ UNCHANGED <<agent, checker, row>>
    BY <1>c, <1>4, ReadIs DEF HandleEnrolAgain
  <2>2. ident' = [ident EXCEPT ![c] = n]
    BY <1>4 DEF HandleEnrolAgain
  <2> QED
    BY <1>b, <2>1, <2>2 DEF Exists
<1>5. ASSUME NEW c \in Conn, EnrolUpsert(c) PROVE Recorded'
  <2>1. UNCHANGED <<agent, checker>> /\ ident' = [ident EXCEPT ![c] = ident[c]]
    BY <1>5 DEF EnrolUpsert, WriteBack, Register
  <2>2. ident' = ident
    BY <1>a, <2>1
  <2> QED
    BY <1>1, <2>1, <2>2
<1>6. ASSUME NEW c \in Conn,
             \/ HandleHeartbeat(c) \/ HandleInventory(c) \/ InventoryUpsert(c)
             \/ LookUp(c) \/ Unregister(c) \/ MarkOffline(c) \/ ReadError(c) \/ Dial(c)
      PROVE  Recorded'
  BY <1>1, <1>6 DEF HandleHeartbeat, HandleInventory, InventoryUpsert, WriteBack, LookUp, Unregister,
                    MarkOffline, ReadError, Dial, agentVars
<1>7. CASE UNCHANGED vars \/ LoseLink \/ \E type \in {"HEARTBEAT", "INVENTORY"} : Tick(type)
  BY <1>1, <1>7 DEF vars, hubVars, agentVars, LoseLink, Tick
<1>8. ASSUME NEW t \in Tab, Agents(t) \/ AgentDetail(t) \/ (\E n \in Node : Fetch(t, n))
      PROVE  Recorded'
  BY <1>1, <1>8 DEF Agents, AgentDetail, AddLabel, PostStatus, PostLabels, Fetch, Request, hubVars,
                    agentVars
<1>9. CASE \E n \in Node : RevokeCredential(n)
  BY <1>1, <1>9 DEF RevokeCredential, Request, agentVars
<1>10. CASE OnHelloAck
  <2>1. link \in Conn /\ UNCHANGED <<row, ident, checker>> /\ ack[link] \in Ack
    BY <1>10 DEF OnHelloAck, hubVars, NodeInv, TypeOK
  <2>2. CASE ack[link].ok
    <3>1. agent'.node = ident[link]
      BY <1>10, <2>1, <2>2 DEF OnHelloAck, Speaking
    <3>2. agent'.node \in Node => row'[agent'.node].status # "absent"
      BY <2>1, <3>1 DEF Recorded, Exists
    <3> QED
      BY <1>0, <2>1, <3>2, RecordedKept
  <2>3. CASE ~ack[link].ok
    <3>1. agent'.node = agent.node
      BY <1>10, <2>3 DEF OnHelloAck, NodeInv, TypeOK
    <3> QED
      BY <1>0, <2>1, <3>1, RecordedKept
  <2> QED
    BY <2>2, <2>3
<1>11. ASSUME NEW n \in Node, FindStale(n) PROVE Recorded'
  <2>1. /\ checker' = [op |-> "OFFLINE", node |-> n] /\ sessions[n] \in Conn
        /\ UNCHANGED <<agent, ident>>
    BY <1>11 DEF FindStale, NodeInv, TypeOK, agentVars
  <2>2. Exists(n)
    BY <2>1 DEF NodeInv, Registered, Recorded
  <2> QED
    BY <1>0, <2>1, <2>2, RecordedKept
<1>12. CASE OnTimeout \/ CloseStale \/ UnregisterStale
  <2>1. UNCHANGED <<agent, ident>>
    BY <1>12 DEF OnTimeout, CloseStale, UnregisterStale, agentVars
  <2>2. checker'.op = "IDLE" \/ (checker'.node = checker.node /\ checker.op # "IDLE")
    BY <1>a, <1>12 DEF OnTimeout, CloseStale, UnregisterStale, Idle
  <2> QED
    BY <1>0, <2>1, <2>2, RecordedKept DEF Recorded
<1>13. ASSUME NEW c \in Conn, Handler(c) PROVE Recorded'
  BY <1>13, <1>2, <1>3, <1>4, <1>5, <1>6 DEF Handler
<1> QED
  BY <1>6, <1>7, <1>8, <1>9, <1>10, <1>11, <1>12, <1>13 DEF Next

-----------------------------------------------------------------------------
(* What steps make of the records. *)

(* Writing one part of a record leaves the others, and the other records.  *)
LEMMA StatusWritten ==
  ASSUME NodeInv, NEW n \in Node, NEW m, NEW s, SetStatus(m, s)
  PROVE  row'[n].status = (IF n = m THEN s ELSE row[n].status) /\ row'[n].labels = row[n].labels
<1>1. row \in [Node -> Row] /\ row[n] \in Row
  BY DEF NodeInv, TypeOK
<1>2. row'[n] = IF n = m THEN [row[n] EXCEPT !.status = s] ELSE row[n]
  BY <1>1 DEF SetStatus
<1> QED
  BY <1>1, <1>2 DEF Row

LEMMA LabelsWritten ==
  ASSUME NodeInv, NEW n \in Node, NEW m, NEW l, SetLabels(m, l)
  PROVE  row'[n].status = row[n].status /\ row'[n].labels = IF n = m THEN l ELSE row[n].labels
<1>1. row \in [Node -> Row] /\ row[n] \in Row
  BY DEF NodeInv, TypeOK
<1>2. row'[n] = IF n = m THEN [row[n] EXCEPT !.labels = l] ELSE row[n]
  BY <1>1 DEF SetLabels
<1> QED
  BY <1>1, <1>2 DEF Row

LEMMA CredWritten ==
  ASSUME NodeInv, NEW n \in Node, NEW m, NEW b, SetCred(m, b)
  PROVE  row'[n].status = row[n].status /\ row'[n].labels = row[n].labels
<1>1. row \in [Node -> Row] /\ row[n] \in Row
  BY DEF NodeInv, TypeOK
<1>2. row'[n] = IF n = m THEN [row[n] EXCEPT !.cred = b] ELSE row[n]
  BY <1>1 DEF SetCred
<1> QED
  BY <1>1, <1>2 DEF Row

(* Steps that write no status. *)
LEMMA NoStatus ==
  ASSUME NodeInv, NEW n \in Node, UNCHANGED author,
         UNCHANGED row \/ (\E m, l : SetLabels(m, l)) \/ \E m, b : SetCred(m, b)
  PROVE  Changes(n)
BY LabelsWritten, CredWritten DEF Changes

LEMMA StatusChanges ==
  NodeInv /\ PagesExist /\ Speaking /\ Recorded /\ [Next]_vars => \A n \in Node : Changes(n)
<1> SUFFICES ASSUME NodeInv, PagesExist, Speaking, Recorded, [Next]_vars, NEW n \in Node
             PROVE  Changes(n)
  OBVIOUS
<1>a. /\ row \in [Node -> Row] /\ author \in [Node -> {"hub", "operator"}]
      /\ ident \in [Conn -> Node \cup {NoNode}] /\ NoNode \notin Node
  BY Kinds DEF NodeInv, TypeOK
<1>1. ASSUME NEW c \in Conn, HandleEnrol(c) PROVE Changes(n)
  <2>1. PICK m \in Node : /\ ~Exists(m)
                          /\ row' = [row EXCEPT ![m] = [status |-> "online", labels |-> {}, cred |-> TRUE]]
                          /\ author' = [author EXCEPT ![m] = "hub"]
                          /\ ident' = [ident EXCEPT ![c] = m]
    BY <1>1 DEF HandleEnrol, Register
  <2>2. c \notin acked /\ step[c] = "READ" /\ UNCHANGED <<acked, step>>
    BY <1>1, <1>a, ReadIs DEF HandleEnrol, NodeInv, Identified
  <2>3. CASE n = m
    BY <1>a, <2>1, <2>2, <2>3 DEF Changes
  <2>4. CASE n # m
    BY <1>a, <2>1, <2>4 DEF Changes
  <2> QED
    BY <2>3, <2>4
<1>2. ASSUME NEW c \in Conn, HandleHeartbeat(c) PROVE Changes(n)
  <2> DEFINE m == Head(up[c])
  <2>1. up[c] \in Seq(Message) /\ up[c] # <<>> /\ step[c] = "READ" /\ m.type = "HEARTBEAT"
    BY <1>2 DEF HandleHeartbeat, Reads, NodeInv, TypeOK
  <2>2. 1 \in DOMAIN up[c] /\ m = up[c][1]
    BY <2>1
  <2>3. m.node \in Node /\ Exists(m.node) /\ Speaks(c, m.node)
    BY <2>1, <2>2 DEF Speaking, Names
  <2>4. ident[c] = m.node
    BY <2>1, <2>2, <2>3 DEF Speaks, First, Over
  <2>5. /\ row' = [row EXCEPT ![m.node].status = AfterHeartbeat(row[m.node].status)]
        /\ author' = [author EXCEPT ![m.node] = "hub"] /\ UNCHANGED <<ident, step>>
    BY <1>2, <1>a, <2>3 DEF HandleHeartbeat
  <2>6. row'[n].status = IF n = m.node THEN AfterHeartbeat(row[m.node].status) ELSE row[n].status
    <3>1. SetStatus(m.node, AfterHeartbeat(row[m.node].status))
      BY <2>5 DEF SetStatus
    <3> QED
      BY <3>1, StatusWritten
  <2>7. CASE n = m.node
    BY <2>1, <2>3, <2>4, <2>5, <2>6, <2>7 DEF Changes
  <2>8. CASE n # m.node
    BY <1>a, <2>5, <2>6, <2>8 DEF Changes
  <2> QED
    BY <2>7, <2>8
<1>b. ASSUME NEW m \in Node, Exists(m), row' = [row EXCEPT ![m].status = "offline"],
             author' = [author EXCEPT ![m] = "hub"]
      PROVE  Changes(n)
  <2>1. row'[n].status = IF n = m THEN "offline" ELSE row[n].status
    <3>1. SetStatus(m, "offline")
      BY <1>b DEF SetStatus
    <3> QED
      BY <3>1, StatusWritten
  <2> QED
    BY <1>a, <1>b, <2>1 DEF Changes
<1>3. ASSUME NEW c \in Conn, MarkOffline(c) PROVE Changes(n)
  <2>1. ident[c] \in Node /\ Exists(ident[c])
    BY <1>3 DEF MarkOffline, NodeInv, Identified, Recorded
  <2> QED
    BY <1>b, <1>3, <2>1 DEF MarkOffline
<1>4. CASE OnTimeout
  <2>1. checker.node \in Node /\ Exists(checker.node)
    BY <1>4 DEF OnTimeout, Recorded
  <2> QED
    BY <1>b, <1>4, <2>1 DEF OnTimeout
<1>5. ASSUME NEW t \in Tab, Agents(t) PROVE Changes(n)
  <2> DEFINE m == page[t].node
  <2>1. PICK s \in {"online", "maintenance"} : PostStatus(m, s)
    BY <1>5 DEF Agents
  <2>2. m \in Node /\ Exists(m)
    BY <1>5, PageFields DEF Agents, PagesExist, NodeInv
  <2>3. row' = [row EXCEPT ![m].status = s] /\ author' = [author EXCEPT ![m] = "operator"]
    BY <2>1 DEF PostStatus
  <2>4. row'[n].status = IF n = m THEN s ELSE row[n].status
    <3>1. SetStatus(m, s)
      BY <2>3 DEF SetStatus
    <3> QED
      BY <3>1, StatusWritten
  <2> QED
    BY <1>a, <2>2, <2>3, <2>4 DEF Changes
<1>6. ASSUME NEW t \in Tab, AgentDetail(t) PROVE Changes(n)
  <2>1. PICK l \in Label : PostLabels(page[t].node, page[t].labels \cup {l})
    BY <1>6 DEF AgentDetail, AddLabel
  <2> QED
    BY <2>1, NoStatus DEF PostLabels, SetLabels
<1>7. ASSUME NEW m \in Node, RevokeCredential(m) PROVE Changes(n)
  BY <1>7, NoStatus DEF RevokeCredential, SetCred
<1>8. ASSUME NEW c \in Conn, EnrolUpsert(c) \/ InventoryUpsert(c) PROVE Changes(n)
  BY <1>8, NoStatus DEF EnrolUpsert, InventoryUpsert, WriteBack, SetLabels
<1>9. CASE UNCHANGED <<row, author>>
  BY <1>9, NoStatus
<1>10. ASSUME NEW c \in Conn,
              \/ HandleHello(c) \/ HandleEnrolAgain(c) \/ HandleInventory(c) \/ LookUp(c)
              \/ Unregister(c) \/ ReadError(c) \/ Dial(c)
       PROVE  Changes(n)
  BY <1>9, <1>10 DEF HandleHello, HandleEnrolAgain, HandleInventory, LookUp, Unregister, ReadError,
                     Dial, history
<1>11. ASSUME NEW t \in Tab, NEW m \in Node, Fetch(t, m) PROVE Changes(n)
  BY <1>9, <1>11 DEF Fetch, hubVars, history
<1>12. CASE \/ UNCHANGED vars \/ LoseLink \/ OnHelloAck \/ CloseStale \/ UnregisterStale
            \/ \E type \in {"HEARTBEAT", "INVENTORY"} : Tick(type)
            \/ \E m \in Node : FindStale(m)
  BY <1>9, <1>12 DEF vars, hubVars, history, LoseLink, OnHelloAck, CloseStale, UnregisterStale, Tick,
                     FindStale
<1>13. ASSUME NEW c \in Conn, Handler(c) PROVE Changes(n)
  BY <1>13, <1>1, <1>2, <1>3, <1>8, <1>10 DEF Handler
<1> QED
  BY <1>4, <1>5, <1>6, <1>7, <1>10, <1>11, <1>12, <1>13 DEF Next

(* A connection that is going on goes on, or its node is marked offline, or *)
(* another one of the node is in the session map.                          *)
LEMMA GoingOn ==
  ASSUME NodeInv, [Next]_vars, NEW c \in Conn, Going(c), ident[c] \in Node, ~Going(c)'
  PROVE  \/ row'[ident[c]].status = "offline"
         \/ \E d \in Conn : ident[d] = ident[c] /\ Going(d)'
<1>a. /\ step \in [Conn -> Step] /\ row \in [Node -> Row] /\ ident \in [Conn -> Node \cup {NoNode}]
      /\ sessions \in [Node -> Conn \cup {NoConn}] /\ NoNode \notin Node
  BY Kinds DEF NodeInv, TypeOK
<1>1. \E d \in Conn : LookUp(d) \/ MarkOffline(d)
  <2>1. (step'[c] = "ENDED" /\ step[c] # "ENDED") \/ (step'[c] = "NEW" /\ step[c] # "NEW")
    BY DEF Going
  <2>2. ASSUME NEW d \in Conn, NEW s \in {"READ", "ENROL", "INVENTORY", "LOOK", "OFFLINE"},
               step' = [step EXCEPT ![d] = s] \/ step' = step
        PROVE  FALSE
    BY <1>a, <2>1, <2>2
  <2>3. ASSUME NEW d \in Conn, Handler(d) PROVE LookUp(d) \/ MarkOffline(d)
    <3>1. ASSUME HandleHello(d) PROVE FALSE
      <4>1. step' = step \/ step' = [step EXCEPT ![d] = "LOOK"]
        BY <3>1 DEF HandleHello
      <4> QED
        BY <2>2, <4>1
    <3>2. ASSUME HandleEnrol(d) \/ HandleHeartbeat(d) PROVE FALSE
      BY <2>1, <3>2 DEF HandleEnrol, HandleHeartbeat
    <3>3. ASSUME HandleEnrolAgain(d) PROVE FALSE
      BY <2>2, <3>3 DEF HandleEnrolAgain
    <3>4. ASSUME EnrolUpsert(d) \/ InventoryUpsert(d) PROVE FALSE
      BY <2>2, <3>4 DEF EnrolUpsert, InventoryUpsert, WriteBack
    <3>5. ASSUME HandleInventory(d) PROVE FALSE
      BY <2>2, <3>5 DEF HandleInventory
    <3>6. ASSUME Unregister(d) PROVE FALSE
      BY <2>2, <3>6 DEF Unregister
    <3> QED
      BY <2>3, <3>1, <3>2, <3>3, <3>4, <3>5, <3>6 DEF Handler
  <2>4. ASSUME NEW d \in Conn, Dial(d) \/ ReadError(d) PROVE FALSE
    BY <2>2, <2>4 DEF Dial, ReadError
  <2>5. step' # step
    BY <2>1
  <2>6. ASSUME NEW t \in Tab, Agents(t) \/ AgentDetail(t) \/ (\E n \in Node : Fetch(t, n))
        PROVE  FALSE
    BY <2>5, <2>6 DEF Agents, AgentDetail, AddLabel, PostStatus, PostLabels, Fetch, Request, hubVars
  <2>7. CASE \/ UNCHANGED vars \/ LoseLink \/ OnHelloAck \/ CloseStale \/ UnregisterStale \/ OnTimeout
             \/ \E type \in {"HEARTBEAT", "INVENTORY"} : Tick(type)
             \/ \E m \in Node : FindStale(m) \/ RevokeCredential(m)
    BY <2>5, <2>7 DEF vars, hubVars, LoseLink, OnHelloAck, CloseStale, UnregisterStale, OnTimeout,
                      Tick, FindStale, RevokeCredential, Request
  <2> QED
    BY <2>3, <2>4, <2>6, <2>7 DEF Next
<1>2. PICK d \in Conn : LookUp(d) \/ MarkOffline(d)
  BY <1>1
<1>3. d = c
  <2>1. \E s : step' = [step EXCEPT ![d] = s]
    BY <1>2 DEF LookUp, MarkOffline
  <2> QED
    BY <1>a, <2>1 DEF Going
<1>4. CASE MarkOffline(d)
  <2>1. row' = [row EXCEPT ![ident[c]].status = "offline"]
    BY <1>3, <1>4 DEF MarkOffline
  <2>2. SetStatus(ident[c], "offline")
    BY <2>1 DEF SetStatus
  <2>3. row'[ident[c]].status = "offline"
    BY <2>2, StatusWritten
  <2> QED
    BY <2>3
<1>5. CASE LookUp(d)
  <2> DEFINE n == ident[c]
             e == sessions[n]
  <2>1. e # NoConn /\ e # c
    <3>1. CASE e = NoConn
      BY <1>3, <1>5, <1>a, <3>1 DEF LookUp, Going
    <3>2. CASE e = c
      BY <1>3, <1>5, <1>a, <3>2, Kinds DEF LookUp, Going
    <3> QED
      BY <3>1, <3>2
  <2>2. e \in Conn /\ ident[e] = n /\ Going(e)
    BY <1>a, <2>1 DEF NodeInv, Registered, Going
  <2>3. step'[e] = step[e]
    BY <1>3, <1>5, <1>a, <2>1, <2>2 DEF LookUp
  <2>4. \A k : k = e => Going(k)'
    <3>1. \A k : k = e => step'[k] = step[k]
      BY <2>3
    <3>2. \A k : k = e => (step'[k] \notin {"NEW", "ENDED"})
      BY <2>2, <3>1 DEF Going
    <3> QED
      BY <3>2 DEF Going
  <2> HIDE DEF e
  <2> QED
    BY <2>2, <2>4
<1> QED
  BY <1>2, <1>4, <1>5

-----------------------------------------------------------------------------
(* The records follow the connections. *)

LEMMA DownIsShownStep ==
  NodeInv /\ PagesExist /\ Speaking /\ Recorded /\ DownIsShown /\ [Next]_vars => DownIsShown'
<1> SUFFICES ASSUME NodeInv, PagesExist, Speaking, Recorded, DownIsShown, [Next]_vars, NEW n \in Node,
                    row'[n].status # "absent", \A c \in Conn : ident'[c] = n => ~Going(c)'
             PROVE  row'[n].status = "offline" \/ author'[n] = "operator"
  BY DEF DownIsShown, Exists, Going
<1>1. Changes(n) /\ IdentityGrows
  BY StatusChanges, IdentityStepGrows
<1>2. CASE row'[n].status = row[n].status /\ author'[n] = author[n]
  <2>1. CASE \E c \in Conn : ident[c] = n /\ Going(c)
    <3>1. PICK c \in Conn : ident[c] = n /\ Going(c)
      BY <2>1
    <3>2. ident'[c] = n /\ ~Going(c)'
      BY <1>1, <3>1 DEF IdentityGrows
    <3>3. \/ row'[n].status = "offline"
          \/ \E d \in Conn : ident[d] = n /\ Going(d)'
      BY <3>1, <3>2, GoingOn
    <3> QED
      BY <1>1, <3>3 DEF IdentityGrows
  <2>2. CASE ~\E c \in Conn : ident[c] = n /\ Going(c)
    BY <1>2, <2>2 DEF DownIsShown, Going, Exists
  <2> QED
    BY <2>1, <2>2
<1>3. ASSUME NEW c \in Conn, ident'[c] = n, step'[c] = "READ" PROVE FALSE
  BY <1>3 DEF Going
<1> QED
  BY <1>1, <1>2, <1>3 DEF Changes

LEMMA OneRowPerAgentStep ==
  NodeInv /\ PagesExist /\ Speaking /\ Recorded /\ OneRowPerAgent /\ [Next]_vars => OneRowPerAgent'
<1> SUFFICES ASSUME NodeInv, PagesExist, Speaking, Recorded, OneRowPerAgent, [Next]_vars,
                    NEW n \in Node, row'[n].status # "absent"
             PROVE  n = agent'.node \/ \E c \in Conn : ident'[c] = n /\ c \notin acked'
  BY DEF OneRowPerAgent, Exists
<1>1. Changes(n) /\ IdentityGrows
  BY StatusChanges, IdentityStepGrows
<1>2. CASE ~Exists(n)
  BY <1>1, <1>2 DEF Changes, Exists
<1>3. CASE Exists(n) /\ agent'.node = agent.node /\ acked' = acked
  BY <1>1, <1>3 DEF OneRowPerAgent, IdentityGrows
<1>4. CASE Exists(n) /\ OnHelloAck
  <2>1. /\ link \in Conn /\ ack[link] \in Ack /\ Identified(link) /\ ident' = ident
        /\ up[link] \in Seq(Message)
    BY <1>4 DEF OnHelloAck, NodeInv, TypeOK, hubVars
  <2>2. CASE ~ack[link].ok
    <3>1. agent'.node = agent.node /\ acked' = acked
      BY <1>4, <2>2 DEF OnHelloAck, NodeInv, TypeOK
    <3> QED
      BY <1>3, <1>4, <3>1
  <2>3. CASE ack[link].ok
    <3>1. /\ agent'.node = ident[link] /\ acked' = acked \cup {link} /\ ident[link] \in Node
      BY <1>4, <2>1, <2>3 DEF OnHelloAck, Speaking, Identified
    <3>2. CASE n = agent.node
      <4>1. Speaks(link, n) /\ link # NoConn
        BY <1>4, <3>2 DEF Speaking, OnHelloAck
      <4>2. ~Over(link) /\ ~First(up[link], n)
        BY <2>1, <3>1, Kinds DEF Over, First, Identified, Queue
      <4> QED
        BY <3>1, <4>1, <4>2 DEF Speaks
    <3>3. CASE \E c \in Conn : ident[c] = n /\ c \notin acked
      <4>1. PICK c \in Conn : ident[c] = n /\ c \notin acked
        BY <3>3
      <4> QED
        BY <2>1, <3>1, <4>1
    <3> QED
      BY <1>4, <3>2, <3>3 DEF OneRowPerAgent
  <2> QED
    BY <2>2, <2>3
<1>5. (agent'.node = agent.node /\ acked' = acked) \/ OnHelloAck
  <2>1. CASE UNCHANGED <<agent, acked>>
    BY <2>1
  <2>2. ASSUME NEW c \in Conn, Handler(c) PROVE UNCHANGED <<agent, acked>>
    <3>1. CASE HandleHello(c) \/ HandleEnrol(c) \/ HandleEnrolAgain(c) \/ EnrolUpsert(c)
      BY <3>1 DEF HandleHello, HandleEnrol, HandleEnrolAgain, EnrolUpsert, WriteBack, history
    <3>2. CASE HandleHeartbeat(c) \/ HandleInventory(c) \/ InventoryUpsert(c)
      BY <3>2 DEF HandleHeartbeat, HandleInventory, InventoryUpsert, WriteBack, history
    <3>3. CASE LookUp(c) \/ Unregister(c) \/ MarkOffline(c)
      BY <3>3 DEF LookUp, Unregister, MarkOffline, agentVars, history
    <3> QED
      BY <2>2, <3>1, <3>2, <3>3 DEF Handler
  <2>3. ASSUME NEW c \in Conn, Dial(c) \/ ReadError(c) PROVE UNCHANGED <<agent, acked>>
    BY <2>3 DEF Dial, ReadError, history
  <2>4. ASSUME NEW t \in Tab, Agents(t) \/ AgentDetail(t) \/ (\E m \in Node : Fetch(t, m))
        PROVE  UNCHANGED <<agent, acked>>
    BY <2>4 DEF Agents, AgentDetail, AddLabel, PostStatus, PostLabels, Fetch, Request, agentVars,
                history
  <2>5. CASE \/ UNCHANGED vars \/ LoseLink \/ CloseStale \/ UnregisterStale \/ OnTimeout
             \/ \E type \in {"HEARTBEAT", "INVENTORY"} : Tick(type)
             \/ \E m \in Node : FindStale(m) \/ RevokeCredential(m)
    BY <2>5 DEF vars, agentVars, history, LoseLink, CloseStale, UnregisterStale, OnTimeout, Tick,
                FindStale, RevokeCredential, Request
  <2> QED
    BY <2>1, <2>2, <2>3, <2>4, <2>5 DEF Next
<1> QED
  BY <1>2, <1>3, <1>4, <1>5

(* Who the connections belong to, with the invariants it rests on.         *)
LEMMA IdentityHolds == Spec => [](NodeInv /\ LabelInv /\ IdentityInv)
<1>1. Init => NodeInv /\ LabelInv /\ IdentityInv
  BY NodeInit, IdentityInit
<1>2. NodeInv /\ LabelInv /\ IdentityInv /\ [Next]_vars => (NodeInv /\ LabelInv /\ IdentityInv)'
  BY NodeInvStep, LabelInvStep, SpeakingStep, RecordedStep, OneRowPerAgentStep, DownIsShownStep
     DEF IdentityInv, LabelInv
<1> QED
  BY <1>1, <1>2, PTL DEF Spec

(* Once all of a node's connections have ended, its record says offline,   *)
(* unless an operator has set the status since (handleDisconnect,          *)
(* handleHeartbeat, StartHeartbeatChecker).                                *)
THEOREM DownIsShownHolds == Spec => []DownIsShown
<1>1. IdentityInv => DownIsShown
  BY DEF IdentityInv
<1> QED
  BY <1>1, IdentityHolds, PTL

(* A row that is not the Agent's own comes from an enrolment whose answer  *)
(* it has not taken (RegisterOrUpdate, OnHelloAck).                        *)
THEOREM OneRowPerAgentHolds == Spec => []OneRowPerAgent
<1>1. IdentityInv => OneRowPerAgent
  BY DEF IdentityInv
<1> QED
  BY <1>1, IdentityHolds, PTL

(* A node leaves maintenance by an operator or by being marked offline:    *)
(* heartbeats and enrolments keep it (UpdateNodeHeartbeat, UpsertNode).    *)
THEOREM MaintenanceIsKept == Spec => MaintenanceKept
<1>1. NodeInv /\ LabelInv /\ IdentityInv /\ [Next]_vars =>
         [\A n \in Node : row[n].status = "maintenance" /\ row'[n].status # "maintenance" =>
             author'[n] = "operator" \/ row'[n].status = "offline"]_vars
  BY StatusChanges DEF IdentityInv, LabelInv, Changes, AfterHeartbeat, Exists
<1> QED
  BY <1>1, IdentityHolds, PTL DEF Spec, MaintenanceKept

(* Which steps take a label from a record. *)
LEMMA LabelsChange ==
  ASSUME NodeInv, LabelInv, [Next]_vars, NEW n \in Node, ~(row[n].labels \subseteq row'[n].labels)
  PROVE  \/ n \in overtaken'
         \/ \E t \in Tab : /\ page[t].node = n /\ "labels" \in DOMAIN page[t]
                           /\ page[t].labels # row[n].labels
<1>a. row \in [Node -> Row] /\ row[n] \in Row
  BY DEF NodeInv, TypeOK
<1>1. row'[n].labels # row[n].labels
  OBVIOUS
<1>2. ASSUME NEW c \in Conn, HandleEnrol(c) PROVE n \in overtaken'
  <2>1. PICK m \in Node : /\ ~Exists(m)
                          /\ row' = [row EXCEPT ![m] = [status |-> "online", labels |-> {}, cred |-> TRUE]]
    BY <1>2 DEF HandleEnrol
  <2>2. n = m /\ row[n].labels # {}
    BY <1>a, <1>1, <2>1
  <2> QED
    BY <1>2, <2>1, <2>2 DEF LabelInv, Unlabelled, HandleEnrol
<1>3. ASSUME NEW c \in Conn, EnrolUpsert(c) \/ InventoryUpsert(c) PROVE n \in overtaken'
  <2>1. /\ SetLabels(ident[c], copy[c])
        /\ overtaken' = IF copy[c] = row[ident[c]].labels THEN overtaken ELSE overtaken \cup {ident[c]}
    BY <1>3 DEF EnrolUpsert, InventoryUpsert, WriteBack, SetLabels
  <2>2. row'[n].labels = IF n = ident[c] THEN copy[c] ELSE row[n].labels
    BY <2>1, LabelsWritten
  <2> QED
    BY <1>1, <2>1, <2>2
<1>4. ASSUME NEW t \in Tab, AgentDetail(t)
      PROVE  page[t].node = n /\ "labels" \in DOMAIN page[t] /\ page[t].labels # row[n].labels
  <2>1. PICK l \in Label : PostLabels(page[t].node, page[t].labels \cup {l})
    BY <1>4 DEF AgentDetail, AddLabel
  <2>2. SetLabels(page[t].node, page[t].labels \cup {l})
    BY <2>1 DEF PostLabels, SetLabels
  <2>3. row'[n].labels = IF n = page[t].node THEN page[t].labels \cup {l} ELSE row[n].labels
    BY <2>2, LabelsWritten
  <2> QED
    BY <1>4, <2>3 DEF AgentDetail
<1>5. ASSUME NEW m, NEW s, SetStatus(m, s) PROVE FALSE
  BY <1>1, <1>5, StatusWritten
<1>6. ASSUME NEW c \in Conn, HandleHeartbeat(c) \/ MarkOffline(c) PROVE FALSE
  BY <1>5, <1>6 DEF HandleHeartbeat, MarkOffline, SetStatus
<1>7. ASSUME OnTimeout PROVE FALSE
  BY <1>5, <1>7 DEF OnTimeout, SetStatus
<1>8. ASSUME NEW t \in Tab, Agents(t) PROVE FALSE
  <2>1. \E s : PostStatus(page[t].node, s)
    BY <1>8 DEF Agents
  <2> QED
    BY <1>5, <2>1 DEF PostStatus, SetStatus
<1>9. ASSUME NEW m \in Node, RevokeCredential(m) PROVE FALSE
  <2>1. SetCred(m, FALSE)
    BY <1>9 DEF RevokeCredential, SetCred
  <2> QED
    BY <1>1, <2>1, CredWritten
<1>10. row' # row
  BY <1>1
<1>11. ASSUME NEW c \in Conn,
              \/ HandleHello(c) \/ HandleEnrolAgain(c) \/ HandleInventory(c) \/ LookUp(c)
              \/ Unregister(c) \/ ReadError(c) \/ Dial(c)
       PROVE  FALSE
  BY <1>10, <1>11 DEF HandleHello, HandleEnrolAgain, HandleInventory, LookUp, Unregister, ReadError,
                      Dial
<1>12. ASSUME NEW t \in Tab, NEW m \in Node, Fetch(t, m) PROVE FALSE
  BY <1>10, <1>12 DEF Fetch, hubVars
<1>13. CASE \/ UNCHANGED vars \/ LoseLink \/ OnHelloAck \/ CloseStale \/ UnregisterStale
            \/ \E type \in {"HEARTBEAT", "INVENTORY"} : Tick(type)
            \/ \E m \in Node : FindStale(m)
  BY <1>10, <1>13 DEF vars, hubVars, LoseLink, OnHelloAck, CloseStale, UnregisterStale, Tick, FindStale
<1>14. ASSUME NEW c \in Conn, Handler(c) PROVE n \in overtaken'
  BY <1>14, <1>2, <1>3, <1>6, <1>11 DEF Handler
<1> QED
  BY <1>4, <1>7, <1>8, <1>9, <1>11, <1>12, <1>13, <1>14 DEF Next

(* A label is lost only by an older row written back, or by a page that    *)
(* does not show the record's labels (updateLabels, handleInventory,       *)
(* RegisterOrUpdate).                                                      *)
THEOREM LabelsLostOnlyByStaleCopies == Spec => LabelsLostByStaleCopies
<1>1. NodeInv /\ LabelInv /\ [Next]_vars =>
        [\A n \in Node : ~(row[n].labels \subseteq row'[n].labels) =>
          \/ n \in overtaken'
          \/ \E t \in Tab : /\ page[t].node = n /\ "labels" \in DOMAIN page[t]
                            /\ page[t].labels # row[n].labels]_vars
  BY LabelsChange
<1> QED
  BY <1>1, NodeInvHolds, PTL DEF Spec, LabelsLostByStaleCopies

=============================================================================
