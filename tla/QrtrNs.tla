------------------------------- MODULE QrtrNs -------------------------------
(***************************************************************************)
(* The QRTR name service of one node (qrtr/src/ns.c): the servers it knows *)
(* of on every node, the lookups of local observers, and the messages it   *)
(* sends to observers, to other nodes and to local services. It handles    *)
(* one packet at a time; the packets of sockets and of other nodes wait in *)
(* the queue of its control socket while the world moves on.               *)
(*                                                                         *)
(* The sockets, the kernel and the name services of other nodes are not    *)
(* code of ns.c; they are modelled by what it relies on (the definitions   *)
(* of the second section).                                                 *)
(***************************************************************************)
EXTENDS QrtrMap

CONSTANTS LocalNode, RemoteNode,
          Port,        \* port numbers, the same set on every node
          Service, Instance,
          Env,         \* what users and other nodes may do beyond the ordinary
          MaxInbox,    \* bound: sockets and nodes act while the queue is shorter
          MaxLookups   \* bound: lookups held by the service or on their way

Node == {LocalNode} \cup RemoteNode

ASSUME NodeAssumption == LocalNode \notin RemoteNode
\* Port and service 0 are refused by server_add and mean "any" in a lookup.
ASSUME NumberAssumption ==
  Port \subseteq Nat \ {0} /\ Service \subseteq Nat \ {0}
  /\ Instance \subseteq Nat \ {0}
ASSUME EnvAssumption == Env \subseteq {"repeat"}
ASSUME BoundAssumption == MaxInbox \in Nat /\ MaxLookups \in Nat

Server == [node : Node, port : Port, service : Service, instance : Instance]
Filter == [service : Service \cup {0}, instance : Instance \cup {0}]
Lookup == [port : Port, service : Service \cup {0}, instance : Instance \cup {0}]
Item   == [key : Port, server : Server]

ASSUME ItemAssumption == NoItem \notin Item

VARIABLES
  \* the name service
  services,  \* per node, the map from ports to servers
  lookups,   \* the lookups of local observers
  inbox,     \* packets waiting in the control socket
  \* sockets and other nodes
  open,      \* the open sockets, as pairs of node and port
  offers,    \* the servers whose sockets mean to be registered
  link,      \* of a remote node: "down", "hello" (its HELLO is on the way), "up"
  \* what others learned from the messages of the name service
  view,      \* per local port, the servers an observer was told of
  known,     \* per remote node, the servers it was told of
  clients    \* per local port, the peers a service believes to be alive

ns     == <<services, lookups>>
world  == <<open, offers, link>>
others == <<view, known, clients>>
vars   == <<ns, inbox, world, others>>

Init ==
  /\ services = [n \in Node |-> EmptyMap]
  /\ lookups = {} /\ inbox = <<>>
  /\ open = {} /\ offers = {}
  /\ link = [r \in RemoteNode |-> "down"]
  /\ view = [p \in Port |-> {}]
  /\ known = [r \in RemoteNode |-> {}]
  /\ clients = [p \in Port |-> {}]

SameSocket(s, t) == s.node = t.node /\ s.port = t.port

\* This node is always there.
Link(n) == IF n = LocalNode THEN "up" ELSE link[n]

Registered(n) == {x.server : x \in Items(services[n])}
Registry == UNION {Registered(n) : n \in Node}

------------------------------------------------------------------------------
(* Sockets, kernel and other name services.                                *)

Nothing == [service |-> 0, instance |-> 0]
Packet(kind, n, p, body) == [type |-> kind, node |-> n, port |-> p, body |-> body]
Announcement(s) == Packet("new_server", s.node, s.port,
                          [service |-> s.service, instance |-> s.instance])

MayAct == Len(inbox) < MaxInbox
Waiting(kind) == {m \in ToSet(inbox) : m.type = kind}

\* The packet is queued if its node is this one or linked to it.
Post(packet) ==
  inbox' = IF Link(packet.node) = "down" THEN inbox ELSE Append(inbox, packet)

\* Port numbers are allotted in turn: one is not reused while packets of its
\* last owner are waiting.
OpenSocket(n, p) ==
  /\ <<n, p>> \notin open
  /\ \A m \in ToSet(inbox) : <<m.node, m.port>> # <<n, p>>
  /\ open' = open \cup {<<n, p>>}
  /\ UNCHANGED <<ns, inbox, offers, link, others>>

\* The kernel reports every closed socket to the name services.
CloseSocket(n, p) ==
  /\ MayAct /\ <<n, p>> \in open
  /\ open' = open \ {<<n, p>>}
  /\ offers' = {s \in offers : <<s.node, s.port>> # <<n, p>>}
  /\ Post(Packet("del_client", n, p, Nothing))
  /\ IF n = LocalNode
     THEN /\ view' = [view EXCEPT ![p] = {}]
          /\ clients' = [clients EXCEPT ![p] = {}]
     ELSE UNCHANGED <<view, clients>>
  /\ UNCHANGED <<ns, link, known>>

\* A socket registers its server. A remote node that has said HELLO and is
\* about to announce all its servers registers none meanwhile, unless "repeat"
\* is allowed.
Offer(s) ==
  /\ MayAct /\ <<s.node, s.port>> \in open
  /\ \A o \in offers : ~SameSocket(o, s)
  /\ "repeat" \in Env \/ Link(s.node) # "hello"
  /\ offers' = offers \cup {s}
  /\ Post(Announcement(s))
  /\ UNCHANGED <<ns, open, link, others>>

\* Every HELLO is answered with all servers, so a name service hears of the
\* same server again.
OfferAgain(s) ==
  /\ "repeat" \in Env /\ MayAct
  /\ s \in offers /\ s.node # LocalNode /\ Link(s.node) = "up"
  /\ Post(Announcement(s))
  /\ UNCHANGED <<ns, world, others>>

\* The server is deregistered and its service forgets its clients.
Withdraw(s) ==
  /\ MayAct /\ s \in offers
  /\ offers' = offers \ {s}
  /\ Post(Packet("del_server", s.node, s.port, Nothing))
  /\ clients' = IF s.node = LocalNode THEN [clients EXCEPT ![s.port] = {}]
                ELSE clients
  /\ UNCHANGED <<ns, open, link, view, known>>

\* An observer keeps one lookup per service.
Observe(p, f) ==
  /\ MayAct /\ <<LocalNode, p>> \in open
  /\ Cardinality(lookups) + Cardinality(Waiting("new_lookup")) < MaxLookups
  /\ \A l \in lookups : l.port = p => l.service # f.service
  /\ \A m \in Waiting("new_lookup") : m.port = p => m.body.service # f.service
  /\ Post(Packet("new_lookup", LocalNode, p, f))
  /\ UNCHANGED <<ns, world, others>>

StopObserving(p, f) ==
  /\ MayAct /\ <<LocalNode, p>> \in open
  /\ [port |-> p, service |-> f.service, instance |-> f.instance]
       \in lookups
  /\ \A m \in Waiting("del_lookup") : m.port # p
  /\ Post(Packet("del_lookup", LocalNode, p, f))
  /\ UNCHANGED <<ns, world, others>>

\* A node comes up: its name service says HELLO.
LinkUp(r) ==
  /\ MayAct /\ link[r] = "down"
  /\ link' = [link EXCEPT ![r] = "hello"]
  /\ inbox' = Append(inbox, Packet("hello", r, 0, Nothing))
  /\ UNCHANGED <<ns, open, offers, others>>

\* The link is lost; the kernel says BYE in the name of the node.
LinkDown(r) ==
  /\ MayAct /\ link[r] # "down"
  /\ "repeat" \in Env \/ link[r] = "up"
  /\ link' = [link EXCEPT ![r] = "down"]
  /\ known' = [known EXCEPT ![r] = {}]
  /\ Post(Packet("bye", r, 0, Nothing))
  /\ UNCHANGED <<ns, open, offers, view, clients>>

\* A socket that was told of a local server sends it a message, and the
\* service keeps it as a client.
Talk(n, p, s) ==
  /\ <<n, p>> \in open /\ s \in offers /\ <<n, p>> # <<LocalNode, s.port>>
  /\ s.node = LocalNode
  /\ s \in IF n = LocalNode THEN view[p] ELSE known[n]
  /\ clients' = [clients EXCEPT ![s.port] = @ \cup {<<n, p>>}]
  /\ UNCHANGED <<ns, inbox, world, view, known>>

------------------------------------------------------------------------------
(* The helpers of ns.c.                                                    *)

\* The test before every lookup_notify about a server that came or went.
Concerns(l, s) == /\ l.service \in {0, s.service}
                  /\ l.instance \in {0, s.instance}

\* Fault: the mask is left at zero when the filter names an instance.
ServerMatch_NoMask(s, f) == /\ f.service \in {0, s.service}
                            /\ f.instance = 0

\* server_match: the mask left at zero by its only caller compares the whole
\* instance, or nothing if the filter has none.
ServerMatch(s, f) == /\ f.service \in {0, s.service}
                     /\ f.instance \in {0, s.instance}

\* lookup_notify of servers that are gone, then of new ones, to the observers
\* they concern.
Notify(gone, fresh) ==
  view' = [p \in Port |->
             LET Hears(s) == \E l \in lookups : l.port = p /\ Concerns(l, s)
             IN  IF <<LocalNode, p>> \notin open THEN view[p]
                 ELSE (view[p] \ {s \in gone : Hears(s)})
                      \cup {s \in fresh : Hears(s)}]

\* What another name service makes of an announcement: the server replaces
\* the one of its port.
Learn(S, fresh) ==
  {s \in S : \A f \in fresh : ~SameSocket(s, f)} \cup fresh

\* Local servers that come or go are broadcast to the nodes that are linked.
Broadcast(gone, fresh) ==
  LET Local(S) == {s \in S : s.node = LocalNode}
      Update(S) == Learn({s \in S : \A g \in Local(gone) : ~SameSocket(s, g)},
                         Local(fresh))
  IN  known' = [r \in RemoteNode |-> IF link[r] = "down" THEN known[r]
                                     ELSE Update(known[r])]

\* Fault: the services are not told.
Propagate_Nobody(m, gone) == UNCHANGED clients

\* A packet to the local services in map m says which sockets are gone.
Propagate(m, gone) ==
  clients' = [p \in Port |->
                IF MapGet(m, p) = NoItem THEN clients[p]
                ELSE clients[p] \ gone]

\* server_add: a server of the same port is replaced.
ServerAdd(s) ==
  services' = [services EXCEPT ![s.node] =
                 MapPut(@, [key |-> s.port, server |-> s])]

Found(n, p) == LET x == MapGet(services[n], p)
               IN  IF x = NoItem THEN {} ELSE {x.server}

\* server_del: whatever server is found under the port.
ServerDel(n, p) ==
  /\ services' = [services EXCEPT ![n] = MapRemove(@, p)]
  /\ Notify(Found(n, p), {})
  /\ Broadcast(Found(n, p), {})

------------------------------------------------------------------------------
(* The packet handlers, one per command.                                   *)

Handle(kind) == inbox # <<>> /\ Head(inbox).type = kind
From     == Head(inbox).node
FromPort == Head(inbox).port
Body     == Head(inbox).body
Read     == inbox' = Tail(inbox)

\* annouce_servers: what a node is told when it says HELLO.
AnnouncedTo(r) == {s \in Registry : s.node # r}

\* The sender of the HELLO gets it back with all servers of other nodes, and
\* announces its own in turn.
Answered(r) ==
  LET S == {s \in offers : s.node = r}
  IN  [i \in 1..Cardinality(S) |-> Announcement(SetToSeq(S)[i])]

\* Fault: the HELLO is returned but no server is announced.
CtrlCmdHello_Bare ==
  /\ Handle("hello")
  /\ IF link[From] = "down" THEN Read /\ UNCHANGED <<link, known>>
     ELSE /\ link' = [link EXCEPT ![From] = "up"]
          /\ inbox' = Tail(inbox) \o Answered(From)
          /\ UNCHANGED known
  /\ UNCHANGED <<ns, open, offers, view, clients>>

CtrlCmdHello ==
  /\ Handle("hello")
  /\ IF link[From] = "down" THEN Read /\ UNCHANGED <<link, known>>
     ELSE /\ link' = [link EXCEPT ![From] = "up"]
          /\ known' = [known EXCEPT ![From] = Learn(@, AnnouncedTo(From))]
          /\ inbox' = Tail(inbox) \o Answered(From)
  /\ UNCHANGED <<ns, open, offers, view, clients>>

\* Fault: the walk ends with the entry it removed.
Sweep_First(m) ==
  LET i == CHOOSE i \in Used(m) : \A j \in Used(m) : i <= j
  IN  IF Used(m) = {} THEN m ELSE MapRemove(m, m.data[i].key)

\* The servers of the node are deleted while its map is walked; left[k] is the
\* map when k slots have been visited.
Sweep(m) ==
  LET left[k \in 0..m.size] ==
        IF k = 0 THEN m
        ELSE IF left[k - 1].data[k - 1] = NoItem THEN left[k - 1]
        ELSE MapRemove(left[k - 1], left[k - 1].data[k - 1].key)
  IN  left[m.size]

\* Fault: the observers are not told.
CtrlCmdBye_Silent ==
  /\ Handle("bye")
  /\ services' = [services EXCEPT ![From] = Sweep(@)]
  /\ Propagate(services[LocalNode], {From} \X Port)
  /\ Read
  /\ UNCHANGED <<lookups, world, view, known>>

CtrlCmdBye ==
  /\ Handle("bye")
  /\ LET m == services[From]
     IN  /\ services' = [services EXCEPT ![From] = Sweep(m)]
         /\ Notify({m.data[i].server : i \in Used(m) \ Used(Sweep(m))}, {})
  /\ Propagate(services[LocalNode], {From} \X Port)
  /\ Read
  /\ UNCHANGED <<lookups, world, known>>

\* Fault: only lookups are cleaned up.
CtrlCmdDelClient_KeepServer ==
  /\ Handle("del_client")
  /\ lookups' = IF From # LocalNode THEN lookups
                ELSE {l \in lookups : l.port # FromPort}
  /\ Propagate(services[LocalNode], {<<From, FromPort>>})
  /\ Read
  /\ UNCHANGED <<services, world, view, known>>

\* A closed socket: its lookups, then its server, then a word to the services.
CtrlCmdDelClient ==
  /\ Handle("del_client")
  /\ lookups' = IF From # LocalNode THEN lookups
                ELSE {l \in lookups : l.port # FromPort}
  /\ ServerDel(From, FromPort)
  /\ Propagate(services'[LocalNode], {<<From, FromPort>>})
  /\ Read
  /\ UNCHANGED world

CtrlCmdNewServer ==
  /\ Handle("new_server")
  /\ LET s == [node |-> From, port |-> FromPort, service |-> Body.service,
               instance |-> Body.instance]
     IN  /\ ServerAdd(s)
         /\ Notify({}, {s})
         /\ Broadcast({}, {s})
  /\ Read
  /\ UNCHANGED <<lookups, world, clients>>

CtrlCmdDelServer ==
  /\ Handle("del_server")
  /\ ServerDel(From, FromPort)
  /\ Read
  /\ UNCHANGED <<lookups, world, clients>>

\* Fault: the address of the observer is not kept.
CtrlCmdNewLookup_NoSender ==
  /\ Handle("new_lookup")
  /\ lookups' = lookups \cup {[port |-> 0, service |-> Body.service,
                               instance |-> Body.instance]}
  /\ Read
  /\ UNCHANGED <<services, world, others>>

\* The lookup is kept and answered at once with all servers that match.
CtrlCmdNewLookup ==
  /\ Handle("new_lookup")
  /\ lookups' = lookups \cup {[port |-> FromPort, service |-> Body.service,
                               instance |-> Body.instance]}
  /\ view' = IF <<LocalNode, FromPort>> \notin open THEN view
             ELSE [view EXCEPT ![FromPort] =
                     @ \cup {s \in Registry : ServerMatch(s, Body)}]
  /\ Read
  /\ UNCHANGED <<services, world, known, clients>>

\* The observer forgets the servers no other lookup of its covers.
Forget(p, remaining) ==
  view' = [view EXCEPT ![p] =
             {s \in @ : \E l \in remaining : l.port = p /\ Concerns(l, s)}]

CtrlCmdDelLookup ==
  /\ Handle("del_lookup")
  /\ lookups' = {l \in lookups :
                  ~ /\ l.port = FromPort /\ l.service = Body.service
                    /\ l.instance \in {0, Body.instance}}
  /\ Forget(FromPort, lookups')
  /\ Read
  /\ UNCHANGED <<services, world, known, clients>>

------------------------------------------------------------------------------
NsStep ==
  \/ CtrlCmdHello \/ CtrlCmdBye \/ CtrlCmdDelClient \/ CtrlCmdNewServer
  \/ CtrlCmdDelServer \/ CtrlCmdNewLookup \/ CtrlCmdDelLookup

SocketStep ==
  \/ \E n \in Node, p \in Port : OpenSocket(n, p) \/ CloseSocket(n, p)
  \/ \E s \in Server : Offer(s) \/ OfferAgain(s) \/ Withdraw(s)
  \/ \E p \in Port, f \in Filter : Observe(p, f) \/ StopObserving(p, f)
  \/ \E r \in RemoteNode : LinkUp(r) \/ LinkDown(r)
  \/ \E n \in Node, p \in Port, s \in offers : Talk(n, p, s)

Next == NsStep \/ SocketStep

Spec == Init /\ [][Next]_vars

------------------------------------------------------------------------------
(* Properties.                                                             *)

TypeOK ==
  /\ \A n \in Node : Items(services[n]) \subseteq Item
  /\ lookups \subseteq Lookup
  /\ \A m \in ToSet(inbox) : m.node \in Node /\ m.port \in Port \cup {0}
  /\ open \subseteq Node \X Port /\ offers \subseteq Server
  /\ link \in [RemoteNode -> {"down", "hello", "up"}]
  /\ view \in [Port -> SUBSET Server]
  /\ known \in [RemoteNode -> SUBSET Server]
  /\ clients \in [Port -> SUBSET (Node \X Port)]

\* When all packets are handled the registry holds exactly the servers of open
\* sockets on nodes that are linked: nothing of a closed socket or a lost node
\* stays behind, nothing offered is missing.
RegistryExact ==
  inbox = <<>> => Registry = {s \in offers : Link(s.node) = "up"}

\* What an observer has been told of its lookup is, at every moment, what the
\* registry holds for it: the answer to the lookup and the later messages fit
\* together.
ObserverView ==
  \A l \in lookups : <<LocalNode, l.port>> \in open =>
    {s \in view[l.port] : Concerns(l, s)} = {s \in Registry : Concerns(l, s)}

\* A linked node whose HELLO was answered knows exactly the servers of this
\* node: the broadcasts and the answer to HELLO fit together.
NodesKnow ==
  \A r \in RemoteNode :
    link[r] = "up" /\ (\A m \in Waiting("hello") : m.node # r)
      => {s \in known[r] : s.node = LocalNode} = Registered(LocalNode)

\* When all packets are handled, no registered service believes in a client
\* whose socket is closed or whose node is gone.
NoStaleClient ==
  inbox = <<>> =>
    \A s \in Registered(LocalNode) : \A c \in clients[s.port] :
      c \in open /\ Link(c[1]) = "up"

\* "Remove the server belonging to this port" (ctrl_cmd_del_client): once the
\* packet of a closed or deregistered port is handled no server of the port is
\* left.
PortRemoved ==
  [][inbox # <<>> /\ Head(inbox).type \in {"del_client", "del_server"}
       /\ inbox' = Tail(inbox)
     => \A s \in Registry' : ~ (s.node = From /\ s.port = FromPort)]_vars

=============================================================================
