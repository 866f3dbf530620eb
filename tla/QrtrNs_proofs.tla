---------------------------- MODULE QrtrNs_proofs ----------------------------
(***************************************************************************)
(* What the name service promises (qrtr/src/ns.c), for any nodes, ports,   *)
(* services and bounds: its registry follows the sockets, and observers,   *)
(* other nodes and local services follow the registry.                     *)
(*                                                                         *)
(* This is so as long as no two ports compete for a slot of the hash map,  *)
(* or no server is announced again while it is registered (Tame): else a   *)
(* server can be stored twice, see the run ns_ghost.                       *)
(***************************************************************************)
EXTENDS QrtrNs, QrtrMap_proofs

------------------------------------------------------------------------------
(* The sweep of ctrl_cmd_bye, slot by slot.                                *)

\* A visit of slot i when t is left of the map.
Dropped(t, i) == IF t.data[i] = NoItem THEN t ELSE MapRemove(t, t.data[i].key)

\* f[j] is left of m when j of its first k slots have been visited.
SweepTo(m, f, k) ==
  f = [j \in 0..k |-> IF j = 0 THEN m ELSE Dropped(f[j - 1], j - 1)]

LEMMA SweepToExists ==
  ASSUME NEW m, NEW k \in Nat
  PROVE  \E f : SweepTo(m, f, k)
<1> DEFINE S == {i \in Nat : \E f : SweepTo(m, f, i)}
<1>1. 0 \in S
  <2> DEFINE f == [j \in 0..0 |-> m]
  <2>1. SweepTo(m, f, 0)
    BY DEF SweepTo
  <2> QED
    BY <2>1
<1>2. ASSUME NEW i \in S PROVE i + 1 \in S
  <2>1. PICK f : SweepTo(m, f, i)
    OBVIOUS
  <2> DEFINE g == [j \in 0..i + 1 |-> IF j <= i THEN f[j] ELSE Dropped(f[i], i)]
  <2>2. i \in Nat
    OBVIOUS
  <2>3. \A j \in 0..i : f[j] = IF j = 0 THEN m ELSE Dropped(f[j - 1], j - 1)
    BY <2>1, <2>2 DEF SweepTo
  <2>4. \A j \in 0..i : g[j] = f[j]
    BY <2>2
  <2>5. g[i + 1] = Dropped(f[i], i)
    BY <2>2
  <2>6. g = [j \in 0..i + 1 |-> g[j]]
    OBVIOUS
  <2> HIDE DEF g
  <2>7. \A j \in 0..i + 1 :
          g[j] = IF j = 0 THEN m ELSE Dropped(g[j - 1], j - 1)
    <3> SUFFICES ASSUME NEW j \in 0..i + 1
                 PROVE  g[j] = IF j = 0 THEN m ELSE Dropped(g[j - 1], j - 1)
      OBVIOUS
    <3>1. CASE j = i + 1
      <4>1. j # 0 /\ j - 1 = i /\ i \in 0..i
        BY <3>1, <2>2
      <4> QED
        BY <3>1, <4>1, <2>4, <2>5
    <3>2. CASE j = 0
      <4>1. 0 \in 0..i
        BY <2>2
      <4> QED
        BY <3>2, <4>1, <2>3, <2>4
    <3>3. CASE j # 0 /\ j # i + 1
      <4>1. j \in 0..i /\ j - 1 \in 0..i
        BY <3>3, <2>2
      <4> QED
        BY <3>3, <4>1, <2>3, <2>4
    <3> QED
      BY <3>1, <3>2, <3>3
  <2>8. SweepTo(m, g, i + 1)
    BY <2>6, <2>7 DEF SweepTo
  <2> QED
    BY <2>2, <2>8
<1>3. S = Nat
  <2> HIDE DEF S
  <2>1. S \in SUBSET Nat
    BY DEF S
  <2> QED
    BY <1>1, <1>2, <2>1, SetInduction
<1> QED
  BY <1>3

\* The recursive definition of the sweep has the values it states.
LEMMA SweepDef ==
  ASSUME NEW m, m.size \in Nat
  PROVE  \E f : SweepTo(m, f, m.size) /\ Sweep(m) = f[m.size]
<1> DEFINE g == CHOOSE f : SweepTo(m, f, m.size)
<1>1. SweepTo(m, g, m.size)
  BY SweepToExists
<1>2. Sweep(m) = g[m.size]
  BY DEF Sweep, SweepTo, Dropped
<1> QED
  BY <1>1, <1>2

\* What is left of m when k slots have been visited.
Swept(m, I, t, k) ==
  /\ MapOver(t, I) /\ t.size = m.size
  /\ \A i \in Used(t) : i >= k

\* Although map_remove is called during the walk, no entry is skipped.
LEMMA SweepEmpties ==
  ASSUME NEW I, Keyed(I), NEW m, MapOver(m, I)
  PROVE  MapOver(Sweep(m), I) /\ Used(Sweep(m)) = {} /\ Items(Sweep(m)) = {}
<1>1. m.size \in Nat
  BY DEF MapOver
<1>2. PICK f : SweepTo(m, f, m.size) /\ Sweep(m) = f[m.size]
  BY <1>1, SweepDef
<1>3. \A j \in 0..m.size : f[j] = IF j = 0 THEN m ELSE Dropped(f[j - 1], j - 1)
  BY <1>2 DEF SweepTo
<1> DEFINE S == {k \in Nat : k <= m.size => Swept(m, I, f[k], k)}
<1>4. 0 \in S
  <2>1. f[0] = m
    BY <1>1, <1>3
  <2>2. \A i \in Used(m) : i >= 0
    BY <1>1 DEF Used, Slots
  <2> QED
    BY <2>1, <2>2 DEF Swept
<1>5. ASSUME NEW k \in S PROVE k + 1 \in S
  <2>1. k \in Nat
    OBVIOUS
  <2>2. SUFFICES ASSUME k + 1 <= m.size PROVE Swept(m, I, f[k + 1], k + 1)
    BY <2>1
  <2>3. k <= m.size /\ k \in 0..m.size - 1 /\ k + 1 \in 0..m.size /\ k + 1 # 0
        /\ k + 1 - 1 = k
    BY <2>1, <2>2, <1>1
  <2>4. f[k + 1] = Dropped(f[k], k)
    BY <2>3, <1>3
  <2> DEFINE t == f[k]
  <2>5. Swept(m, I, t, k)
    BY <2>3
  <2> HIDE DEF t, S
  <2>6. CASE t.data[k] = NoItem
    <3>1. f[k + 1] = t
      BY <2>4, <2>6 DEF Dropped, t
    <3>2. k \notin Used(t)
      BY <2>6 DEF Used
    <3>3. \A i \in Used(t) : i >= k + 1
      <4>1. \A i \in Used(t) : i \in Int
        BY <2>5, <1>1 DEF Swept, Used, Slots
      <4> QED
        BY <4>1, <3>2, <2>1, <2>5 DEF Swept
    <3> QED
      BY <3>1, <3>3, <2>5 DEF Swept
  <2>7. CASE t.data[k] # NoItem
    <3> DEFINE key == t.data[k].key
    <3>1. f[k + 1] = MapRemove(t, key)
      BY <2>4, <2>7 DEF Dropped, t
    <3>2. k \in Used(t) /\ t.data[k] \in I
      BY <2>3, <2>5, <2>7 DEF Used, Slots, Swept, MapOver
    <3>3. key \in Nat /\ k \in SlotsOf(t, key)
      BY <3>2 DEF Keyed, SlotsOf
    <3> HIDE DEF key
    <3>4. MapOver(t, I)
      BY <2>5 DEF Swept
    <3>5. RemoveDone(I, t, key, MapRemove(t, key))
      BY <3>3, <3>4, RemoveKeeps
    <3>6. Used(MapRemove(t, key)) \subseteq Used(t) \ {k}
      BY <3>3, <3>5 DEF RemoveDone
    <3>7. \A i \in Used(t) \ {k} : i >= k + 1
      <4>1. \A i \in Used(t) : i \in Int
        BY <2>5, <1>1 DEF Swept, Used, Slots
      <4> QED
        BY <4>1, <2>1, <2>5 DEF Swept
    <3> QED
      BY <3>1, <3>5, <3>6, <3>7, <2>5 DEF Swept, RemoveDone
  <2> QED
    BY <2>6, <2>7
<1>6. S = Nat
  <2> HIDE DEF S
  <2>1. S \in SUBSET Nat
    BY DEF S
  <2> QED
    BY <1>4, <1>5, <2>1, SetInduction
<1>7. Swept(m, I, Sweep(m), m.size)
  BY <1>1, <1>2, <1>6
<1>8. Used(Sweep(m)) = {}
  <2> DEFINE t == Sweep(m)
  <2> HIDE DEF t
  <2>1. \A i \in Used(t) : i >= m.size /\ i \in 0..m.size - 1
    BY <1>7 DEF Swept, Used, Slots, t
  <2> QED
    BY <2>1, <1>1 DEF t
<1> QED
  BY <1>7, <1>8 DEF Swept, Items

------------------------------------------------------------------------------
(* The maps of the nodes.                                                  *)

\* What may be stored in the map of node n.
ItemsAt(n) == {[key |-> s.port, server |-> s] : s \in {t \in Server : t.node = n}}

\* The servers registered at a port: one or none.
RegAt(n, p) == {s \in Registered(n) : s.port = p}

\* Every node has a map of servers of its own.
MapsOK ==
  /\ services \in [Node -> {services[n] : n \in Node}]
  /\ \A n \in Node : MapOver(services[n], ItemsAt(n))

LEMMA ServerFields ==
  ASSUME NEW s \in Server
  PROVE  /\ s.node \in Node /\ s.port \in Port /\ s.service \in Service
         /\ s.instance \in Instance
         /\ s.port \in Nat /\ s.port # 0 /\ s.service # 0 /\ s.instance # 0
BY NumberAssumption DEF Server

LEMMA ItemsAtIn ==
  ASSUME NEW n
  PROVE  /\ Keyed(ItemsAt(n)) /\ ItemsAt(n) \subseteq Item
         /\ \A x \in ItemsAt(n) : /\ x.server \in Server /\ x.server.node = n
                                  /\ x.key = x.server.port
                                  /\ x = [key |-> x.server.port, server |-> x.server]
<1>1. \A x \in ItemsAt(n) : \E s \in Server :
         s.node = n /\ x = [key |-> s.port, server |-> s]
  BY DEF ItemsAt
<1>2. ASSUME NEW x \in ItemsAt(n)
      PROVE  /\ x \in Item /\ x.key \in Nat
             /\ x.server \in Server /\ x.server.node = n
             /\ x.key = x.server.port
             /\ x = [key |-> x.server.port, server |-> x.server]
  <2>1. PICK s \in Server : s.node = n /\ x = [key |-> s.port, server |-> s]
    BY <1>1
  <2>2. s.port \in Port /\ s.port \in Nat
    BY ServerFields
  <2>3. x.key = s.port /\ x.server = s
    BY <2>1
  <2>4. x \in Item
    BY <2>1, <2>2 DEF Item
  <2> QED
    BY <2>1, <2>2, <2>3, <2>4
<1> QED
  BY <1>2, ItemAssumption DEF Keyed

\* What the walk over the map of a node yields, one server per port.
LEMMA RegisteredIs ==
  ASSUME MapsOK, NEW n \in Node
  PROVE  /\ MapOver(services[n], ItemsAt(n))
         /\ \A s \in Registered(n) : s \in Server /\ s.node = n
         /\ \A s \in Server : s.node = n =>
              (s \in Registered(n)
                 <=> [key |-> s.port, server |-> s] \in Items(services[n]))
         /\ \A s, t \in Registered(n) : s.port = t.port => s = t
<1> DEFINE m == services[n]
<1>1. MapOver(m, ItemsAt(n))
  BY DEF MapsOK
<1>2. Items(m) \subseteq ItemsAt(n)
  BY <1>1, ItemsAtIn, ItemsTyped
<1>3. \A x \in Items(m) : /\ x.server \in Server /\ x.server.node = n
                          /\ x.key = x.server.port
                          /\ x = [key |-> x.server.port, server |-> x.server]
  BY <1>2, ItemsAtIn
<1>4. Registered(n) = {x.server : x \in Items(m)}
  BY DEF Registered
<1> HIDE DEF m
<1>5. \A s \in Registered(n) : s \in Server /\ s.node = n
                               /\ [key |-> s.port, server |-> s] \in Items(m)
  BY <1>3, <1>4
<1>6. ASSUME NEW s, [key |-> s.port, server |-> s] \in Items(m)
      PROVE  s \in Registered(n)
  <2> DEFINE x == [key |-> s.port, server |-> s]
  <2>1. x.server = s /\ x \in Items(m)
    BY <1>6
  <2> QED
    BY <2>1, <1>4
<1>7. ASSUME NEW s \in Registered(n), NEW t \in Registered(n), s.port = t.port
      PROVE  s = t
  <2> DEFINE x == [key |-> s.port, server |-> s]
             y == [key |-> t.port, server |-> t]
  <2>1. x \in Items(m) /\ y \in Items(m) /\ x.key = y.key
    BY <1>5, <1>7
  <2>2. x.server = s /\ y.server = t
    OBVIOUS
  <2> HIDE DEF x, y
  <2>3. x = y
    BY <1>1, <2>1, OneItemPerKey
  <2> QED
    BY <2>2, <2>3
<1> QED
  BY <1>1, <1>5, <1>6, <1>7 DEF m

\* map_get finds the server that is registered at the port.
LEMMA FoundIs ==
  ASSUME MapsOK, NEW n \in Node, NEW p \in Port
  PROVE  /\ Found(n, p) = RegAt(n, p)
         /\ (MapGet(services[n], p) = NoItem) <=> (RegAt(n, p) = {})
<1> DEFINE m == services[n]
           x == MapGet(m, p)
<1>1. MapOver(m, ItemsAt(n)) /\ Keyed(ItemsAt(n)) /\ p \in Nat
  BY ItemsAtIn, NumberAssumption DEF MapsOK
<1> HIDE DEF m
<1>2. /\ x = NoItem => \A y \in Items(m) : y.key # p
      /\ x # NoItem => x \in Items(m) /\ x.key = p
      /\ \A y \in Items(m) : y.key = p => x = y
  BY <1>1, GetFinds
<1>3. Items(m) \subseteq ItemsAt(n)
  BY <1>1, ItemsTyped
<1>4. \A y \in Items(m) : y.key = y.server.port
  BY <1>3, ItemsAtIn
<1>5. RegAt(n, p) = {y.server : y \in {z \in Items(m) : z.key = p}}
  BY <1>4 DEF RegAt, Registered, m
<1>6. Found(n, p) = IF x = NoItem THEN {} ELSE {x.server}
  BY DEF Found, m
<1> HIDE DEF x
<1>7. CASE x = NoItem
  BY <1>2, <1>5, <1>6, <1>7 DEF x, m
<1>8. CASE x # NoItem
  <2>1. {z \in Items(m) : z.key = p} = {x}
    BY <1>2, <1>8
  <2> QED
    BY <1>5, <1>6, <1>8, <2>1 DEF x, m
<1> QED
  BY <1>7, <1>8

\* The servers of a map registered at a port.
RegOf(m, p) == {x.server : x \in {y \in Items(m) : y.key = p}}

LEMMA RegOfIs ==
  ASSUME NEW n, NEW m, MapOver(m, ItemsAt(n)), NEW p
  PROVE  {s \in {x.server : x \in Items(m)} : s.port = p} = RegOf(m, p)
<1>1. Items(m) \subseteq ItemsAt(n)
  BY ItemsAtIn, ItemsTyped
<1>2. \A x \in Items(m) : x.key = x.server.port
  BY <1>1, ItemsAtIn
<1> QED
  BY <1>2 DEF RegOf

LEMMA RegAtIs ==
  ASSUME MapsOK, NEW n \in Node, NEW p
  PROVE  RegAt(n, p) = RegOf(services[n], p)
<1>1. MapOver(services[n], ItemsAt(n))
  BY DEF MapsOK
<1> QED
  BY <1>1, RegOfIs DEF RegAt, Registered

\* One map is replaced by m.
LEMMA MapReplaced ==
  ASSUME MapsOK, NEW n \in Node, NEW m, MapOver(m, ItemsAt(n)),
         services' = [services EXCEPT ![n] = m]
  PROVE  /\ MapsOK'
         /\ \A q \in Node, p \in Port :
              RegAt(q, p)' = IF q = n THEN RegOf(m, p) ELSE RegAt(q, p)
<1>1. /\ services'[n] = m
      /\ \A q \in Node : q # n => services'[q] = services[q]
      /\ services' = [q \in Node |-> services'[q]]
  BY DEF MapsOK
<1>2. \A q \in Node : MapOver(services'[q], ItemsAt(q))
  BY <1>1 DEF MapsOK
<1>3. MapsOK'
  BY <1>1, <1>2 DEF MapsOK
<1>4. ASSUME NEW q \in Node, NEW p \in Port
      PROVE  RegAt(q, p)' = IF q = n THEN RegOf(m, p) ELSE RegAt(q, p)
  <2>1. MapOver(services'[q], ItemsAt(q))
    BY <1>2
  <2>2. RegAt(q, p)' = RegOf(services'[q], p)
    BY <2>1, RegOfIs DEF RegAt, Registered
  <2>3. RegAt(q, p) = RegOf(services[q], p)
    BY RegAtIs
  <2> QED
    BY <1>1, <2>2, <2>3
<1> QED
  BY <1>3, <1>4

\* No two ports fall into one slot, in a table of whatever size.
PortsApart ==
  \A k \in Nat \ {0} : \A p, q \in Port : p % (k * Step) = q % (k * Step) => p = q

LEMMA PortsApartItems ==
  ASSUME PortsApart, NEW n
  PROVE  NoCollision(ItemsAt(n))
<1> SUFFICES ASSUME NEW k \in Nat \ {0}, NEW x \in ItemsAt(n), NEW y \in ItemsAt(n),
                    x.key % (k * Step) = y.key % (k * Step)
             PROVE  x.key = y.key
  BY DEF NoCollision
<1>1. x.key \in Port /\ y.key \in Port
  BY ItemsAtIn, ServerFields
<1> QED
  BY <1>1 DEF PortsApart

\* server_add leaves its server alone at the port, and other ports alone.
LEMMA AddEffect ==
  ASSUME MapsOK, NEW s \in Server, ServerAdd(s),
         PortsApart \/ RegAt(s.node, s.port) = {}
  PROVE  /\ MapsOK'
         /\ \A n \in Node, p \in Port :
              RegAt(n, p)' = IF n = s.node /\ p = s.port THEN {s} ELSE RegAt(n, p)
<1> DEFINE n == s.node
           it == [key |-> s.port, server |-> s]
           m == services[n]
           r == MapPut(m, it)
<1>1. n \in Node /\ s.port \in Port
  BY ServerFields
<1>2. it \in ItemsAt(n) /\ it.key = s.port /\ it.server = s
  BY DEF ItemsAt
<1>3. services' = [services EXCEPT ![n] = r]
  BY <1>1 DEF ServerAdd, MapsOK
<1>4. MapOver(m, ItemsAt(n)) /\ Keyed(ItemsAt(n))
  BY <1>1, ItemsAtIn DEF MapsOK
<1>5. RegAt(n, s.port) = RegOf(m, s.port)
  BY <1>1, RegAtIs
<1> HIDE DEF it, m
<1>6. NoCollision(ItemsAt(n)) \/ \A x \in Items(m) : x.key # it.key
  <2>1. CASE PortsApart
    BY <2>1, PortsApartItems
  <2>2. CASE RegAt(n, s.port) = {}
    BY <2>2, <1>2, <1>5 DEF RegOf
  <2> QED
    BY <2>1, <2>2
<1>7. PutDone(ItemsAt(n), m, it, r)
  BY <1>2, <1>4, <1>6, PutStores
<1> HIDE DEF r, n
<1>8. MapOver(r, ItemsAt(n)) /\ Items(r) = WithoutKey(Items(m), it.key) \cup {it}
  BY <1>7 DEF PutDone
<1>9. \A p \in Port : RegOf(r, p) = IF p = s.port THEN {s} ELSE RegOf(m, p)
  BY <1>2, <1>8 DEF RegOf, WithoutKey
<1>10. /\ MapsOK'
       /\ \A q \in Node, p \in Port :
              RegAt(q, p)' = IF q = n THEN RegOf(r, p) ELSE RegAt(q, p)
  BY <1>1, <1>3, <1>8, MapReplaced
<1>11. \A p \in Port : RegAt(n, p) = RegOf(m, p)
  BY <1>1, RegAtIs DEF m
<1> QED
  BY <1>9, <1>10, <1>11 DEF n

\* server_del leaves no server at the port.
LEMMA DelEffect ==
  ASSUME MapsOK, NEW n \in Node, NEW p \in Port, ServerDel(n, p)
  PROVE  /\ MapsOK'
         /\ \A q \in Node, r \in Port :
              RegAt(q, r)' = IF q = n /\ r = p THEN {} ELSE RegAt(q, r)
<1> DEFINE m == services[n]
           t == MapRemove(m, p)
<1>1. services' = [services EXCEPT ![n] = t]
  BY DEF ServerDel, MapsOK
<1>2. MapOver(m, ItemsAt(n)) /\ Keyed(ItemsAt(n)) /\ p \in Nat
  BY ItemsAtIn, NumberAssumption DEF MapsOK
<1> HIDE DEF m
<1>3. RemoveDone(ItemsAt(n), m, p, t)
  BY <1>2, RemoveKeeps
<1> HIDE DEF t
<1>4. MapOver(t, ItemsAt(n)) /\ Items(t) = WithoutKey(Items(m), p)
  BY <1>3 DEF RemoveDone
<1>5. \A r \in Port : RegOf(t, r) = IF r = p THEN {} ELSE RegOf(m, r)
  BY <1>4 DEF RegOf, WithoutKey
<1>6. /\ MapsOK'
      /\ \A q \in Node, r \in Port :
              RegAt(q, r)' = IF q = n THEN RegOf(t, r) ELSE RegAt(q, r)
  BY <1>1, <1>4, MapReplaced
<1>7. \A r \in Port : RegAt(n, r) = RegOf(m, r)
  BY RegAtIs DEF m
<1> QED
  BY <1>5, <1>6, <1>7

\* ctrl_cmd_bye leaves no server of the node, and tells of all of them.
LEMMA SweepEffect ==
  ASSUME MapsOK, NEW n \in Node,
         services' = [services EXCEPT ![n] = Sweep(services[n])]
  PROVE  /\ MapsOK'
         /\ \A q \in Node, r \in Port :
              RegAt(q, r)' = IF q = n THEN {} ELSE RegAt(q, r)
         /\ {services[n].data[i].server :
               i \in Used(services[n]) \ Used(Sweep(services[n]))} = Registered(n)
<1> DEFINE m == services[n]
           t == Sweep(m)
<1>1. MapOver(m, ItemsAt(n)) /\ Keyed(ItemsAt(n))
  BY ItemsAtIn DEF MapsOK
<1>2. MapOver(t, ItemsAt(n)) /\ Used(t) = {} /\ Items(t) = {}
  <2> HIDE DEF m
  <2> QED
    BY <1>1, SweepEmpties
<1>3. services' = [services EXCEPT ![n] = t]
  OBVIOUS
<1> HIDE DEF t
<1>4. /\ MapsOK'
      /\ \A q \in Node, r \in Port :
              RegAt(q, r)' = IF q = n THEN RegOf(t, r) ELSE RegAt(q, r)
  BY <1>2, <1>3, MapReplaced
<1>5. \A r \in Port : RegOf(t, r) = {}
  BY <1>2 DEF RegOf
<1>6. {m.data[i].server : i \in Used(m) \ Used(t)} = Registered(n)
  <2>1. Used(m) \ Used(t) = Used(m)
    BY <1>2
  <2> QED
    BY <2>1 DEF Registered, Items
<1> QED
  BY <1>4, <1>5, <1>6 DEF t

------------------------------------------------------------------------------
(* What the packets in a queue will make of the registry.                  *)

\* The packets a name service receives.
PacketSet ==
  {m \in [type : {"new_server", "del_server", "del_client", "bye", "hello",
                  "new_lookup", "del_lookup"},
          node : Node, port : Port \cup {0}, body : Filter] :
     /\ m.type \in {"bye", "hello"} => m.node \in RemoteNode
     /\ m.type \notin {"bye", "hello"} => m.port \in Port
     /\ m.type \in {"new_lookup", "del_lookup"} => m.node = LocalNode
     /\ m.type = "new_server" => /\ m.body.service \in Service
                                 /\ m.body.instance \in Instance}

\* A packet that decides which server is registered at a port.
SetterOf(m, n, p) ==
  /\ m.node = n
  /\ \/ m.type = "bye"
     \/ m.type \in {"new_server", "del_server", "del_client"} /\ m.port = p

\* The server an announcement is about, and what a packet leaves at its port.
ServerIn(m) == [node |-> m.node, port |-> m.port,
                service |-> m.body.service, instance |-> m.body.instance]

Effect(m) == IF m.type = "new_server" THEN {ServerIn(m)} ELSE {}

\* X is registered at a port where R is registered now when the packets of q
\* before the k-th are handled.
EndsAt(q, R, k, n, p, X) ==
  \/ \E i \in 1..k - 1 : /\ SetterOf(q[i], n, p) /\ Effect(q[i]) = X
                         /\ \A j \in i + 1..k - 1 : ~ SetterOf(q[j], n, p)
  \/ /\ \A i \in 1..k - 1 : ~ SetterOf(q[i], n, p)
     /\ R = X

\* The same for all packets of q; g is the registry by node and port.
EndOf(q, g, n, p, X) == EndsAt(q, g[n][p], Len(q) + 1, n, p, X)

\* No announcement meets another server at its port.
FreshAt(q, g, i) ==
  \/ EndsAt(q, g[q[i].node][q[i].port], i, q[i].node, q[i].port, {})
  \/ /\ "repeat" \in Env
     /\ EndsAt(q, g[q[i].node][q[i].port], i, q[i].node, q[i].port, Effect(q[i]))

\* That is so of every announcement in the queue.
FreshAll(q, g) ==
  \A i \in 1..Len(q) : q[i].type = "new_server" => FreshAt(q, g, i)

\* The registry when packet m is handled.
After(g, m) == [n \in Node |-> [p \in Port |->
                  IF SetterOf(m, n, p) THEN Effect(m) ELSE g[n][p]]]

\* The registry by node and port.
RegMap == [n \in Node |-> [p \in Port |-> RegAt(n, p)]]

\* What the packets before the k-th do depends on them alone.
LEMMA EndsSame ==
  ASSUME NEW q, NEW q2, NEW k \in Nat, \A i \in 1..k - 1 : q2[i] = q[i],
         NEW R, NEW n, NEW p, NEW X, EndsAt(q, R, k, n, p, X)
  PROVE  EndsAt(q2, R, k, n, p, X)
<1>1. CASE \E i \in 1..k - 1 : /\ SetterOf(q[i], n, p) /\ Effect(q[i]) = X
                               /\ \A j \in i + 1..k - 1 : ~ SetterOf(q[j], n, p)
  <2>1. PICK i \in 1..k - 1 : /\ SetterOf(q[i], n, p) /\ Effect(q[i]) = X
                              /\ \A j \in i + 1..k - 1 : ~ SetterOf(q[j], n, p)
    BY <1>1
  <2>2. q2[i] = q[i] /\ \A j \in i + 1..k - 1 : q2[j] = q[j]
    OBVIOUS
  <2>3. SetterOf(q2[i], n, p) /\ Effect(q2[i]) = X
        /\ \A j \in i + 1..k - 1 : ~ SetterOf(q2[j], n, p)
    BY <2>1, <2>2
  <2> QED
    BY <2>3 DEF EndsAt
<1>2. CASE (\A i \in 1..k - 1 : ~ SetterOf(q[i], n, p)) /\ R = X
  <2>1. \A i \in 1..k - 1 : ~ SetterOf(q2[i], n, p)
    BY <1>2
  <2> QED
    BY <1>2, <2>1 DEF EndsAt
<1> QED
  BY <1>1, <1>2 DEF EndsAt

\* Packets that are no setters of the port change nothing.
LEMMA EndsBeyond ==
  ASSUME NEW q, NEW k \in Nat \ {0}, NEW l \in Nat, k <= l, NEW n, NEW p,
         \A i \in k..l - 1 : ~ SetterOf(q[i], n, p),
         NEW R, NEW X, EndsAt(q, R, k, n, p, X)
  PROVE  EndsAt(q, R, l, n, p, X)
<1>1. CASE \E i \in 1..k - 1 : /\ SetterOf(q[i], n, p) /\ Effect(q[i]) = X
                               /\ \A j \in i + 1..k - 1 : ~ SetterOf(q[j], n, p)
  <2>1. PICK i \in 1..k - 1 : /\ SetterOf(q[i], n, p) /\ Effect(q[i]) = X
                              /\ \A j \in i + 1..k - 1 : ~ SetterOf(q[j], n, p)
    BY <1>1
  <2>2. i \in 1..l - 1 /\ \A j \in i + 1..l - 1 : j \in i + 1..k - 1 \/ j \in k..l - 1
    OBVIOUS
  <2>3. \A j \in i + 1..l - 1 : ~ SetterOf(q[j], n, p)
    BY <2>1, <2>2
  <2> QED
    BY <2>1, <2>2, <2>3 DEF EndsAt
<1>2. CASE (\A i \in 1..k - 1 : ~ SetterOf(q[i], n, p)) /\ R = X
  <2>1. \A i \in 1..l - 1 : i \in 1..k - 1 \/ i \in k..l - 1
    OBVIOUS
  <2>2. \A i \in 1..l - 1 : ~ SetterOf(q[i], n, p)
    BY <1>2, <2>1
  <2> QED
    BY <1>2, <2>2 DEF EndsAt
<1> QED
  BY <1>1, <1>2 DEF EndsAt

\* The last setter of a port decides.
LEMMA EndsSetter ==
  ASSUME NEW q, NEW l \in Nat, NEW i \in 1..l - 1, NEW n, NEW p, NEW R,
         SetterOf(q[i], n, p), \A j \in i + 1..l - 1 : ~ SetterOf(q[j], n, p)
  PROVE  EndsAt(q, R, l, n, p, Effect(q[i]))
BY DEF EndsAt

\* When the first packet is handled the others do what they would have done.
LEMMA EndsTail ==
  ASSUME NEW q \in Seq(PacketSet), q # <<>>, NEW k \in 1..Len(q), NEW R,
         NEW n, NEW p, NEW X, EndsAt(q, R, k + 1, n, p, X)
  PROVE  EndsAt(Tail(q), IF SetterOf(q[1], n, p) THEN Effect(q[1]) ELSE R,
                k, n, p, X)
<1> DEFINE t == Tail(q)
           R2 == IF SetterOf(q[1], n, p) THEN Effect(q[1]) ELSE R
<1>1. \A i \in 1..k - 1 : t[i] = q[i + 1]
  OBVIOUS
<1>2. k \in Nat /\ k >= 1
  OBVIOUS
<1> HIDE DEF t
<1>3. CASE \E i \in 1..k : /\ SetterOf(q[i], n, p) /\ Effect(q[i]) = X
                           /\ \A j \in i + 1..k : ~ SetterOf(q[j], n, p)
  <2>1. PICK i \in 1..k : /\ SetterOf(q[i], n, p) /\ Effect(q[i]) = X
                          /\ \A j \in i + 1..k : ~ SetterOf(q[j], n, p)
    BY <1>3
  <2>2. CASE i = 1
    <3>1. R2 = X
      BY <2>1, <2>2
    <3>2. \A j \in 1..k - 1 : j + 1 \in i + 1..k
      BY <2>2, <1>2
    <3>3. \A j \in 1..k - 1 : ~ SetterOf(t[j], n, p)
      BY <1>1, <2>1, <3>2
    <3> QED
      BY <3>1, <3>3 DEF EndsAt, t
  <2>3. CASE i # 1
    <3> DEFINE h == i - 1
    <3>1. h \in 1..k - 1 /\ h + 1 = i
      BY <2>3, <1>2
    <3>2. \A j \in h + 1..k - 1 : j \in 1..k - 1 /\ j + 1 \in i + 1..k
      BY <3>1, <1>2
    <3>3. t[h] = q[i]
      BY <1>1, <3>1
    <3>4. \A j \in h + 1..k - 1 : ~ SetterOf(t[j], n, p)
      BY <1>1, <2>1, <3>2
    <3> HIDE DEF h
    <3> QED
      BY <2>1, <3>1, <3>3, <3>4 DEF EndsAt, t
  <2> QED
    BY <2>2, <2>3
<1>4. CASE (\A i \in 1..k : ~ SetterOf(q[i], n, p)) /\ R = X
  <2>1. R2 = X
    BY <1>2, <1>4
  <2>2. \A j \in 1..k - 1 : j + 1 \in 1..k
    BY <1>2
  <2>3. \A j \in 1..k - 1 : ~ SetterOf(t[j], n, p)
    BY <1>1, <1>4, <2>2
  <2> QED
    BY <2>1, <2>3 DEF EndsAt, t
<1>5. k + 1 - 1 = k
  BY <1>2
<1> QED
  BY <1>3, <1>4, <1>5 DEF EndsAt

LEMMA PacketFacts ==
  ASSUME NEW m \in PacketSet
  PROVE  /\ m.node \in Node
         /\ m.type \in {"new_server", "del_server", "del_client"} => m.port \in Port
         /\ m.type = "new_server" => /\ SetterOf(m, m.node, m.port)
                                     /\ ServerIn(m) \in Server
                                     /\ ServerIn(m).node = m.node
                                     /\ ServerIn(m).port = m.port
                                     /\ Effect(m) = {ServerIn(m)}
         /\ m.type # "new_server" => Effect(m) = {}
BY DEF PacketSet, SetterOf, ServerIn, Server, Effect

\* A packet is appended.
LEMMA AppendEnd ==
  ASSUME NEW q \in Seq(PacketSet), NEW m, NEW g, NEW n, NEW p,
         NEW X, EndOf(q, g, n, p, X)
  PROVE  EndOf(Append(q, m), g, n, p,
               IF SetterOf(m, n, p) THEN Effect(m) ELSE X)
<1> DEFINE t == Append(q, m)
           k == Len(q) + 1
<1>1. Len(q) \in Nat /\ Len(t) = k /\ k \in Nat \ {0} /\ t[k] = m
      /\ \A i \in 1..k - 1 : t[i] = q[i]
  OBVIOUS
<1> HIDE DEF t, k
<1>2. EndsAt(q, g[n][p], k, n, p, X)
  BY DEF EndOf, k
<1>3. EndsAt(t, g[n][p], k, n, p, X)
  BY <1>1, <1>2, EndsSame
<1>4. CASE SetterOf(m, n, p)
  <2>1. k \in 1..k + 1 - 1 /\ k + 1 \in Nat /\ k + 1..k + 1 - 1 = {}
    BY <1>1
  <2>2. SetterOf(t[k], n, p) /\ \A j \in k + 1..k + 1 - 1 : ~ SetterOf(t[j], n, p)
    BY <1>1, <1>4, <2>1
  <2>3. EndsAt(t, g[n][p], k + 1, n, p, Effect(t[k]))
    BY <2>1, <2>2, EndsSetter
  <2> QED
    BY <1>1, <1>4, <2>3 DEF EndOf, t
<1>5. CASE ~ SetterOf(m, n, p)
  <2>1. \A i \in k..k + 1 - 1 : ~ SetterOf(t[i], n, p)
    <3>1. \A i \in k..k + 1 - 1 : i = k
      BY <1>1
    <3> QED
      BY <1>1, <1>5, <3>1
  <2>2. k + 1 \in Nat /\ k <= k + 1
    BY <1>1
  <2>3. EndsAt(t, g[n][p], k + 1, n, p, X)
    BY <1>1, <1>3, <2>1, <2>2, EndsBeyond
  <2> QED
    BY <1>1, <1>5, <2>3 DEF EndOf, t
<1> QED
  BY <1>4, <1>5

\* What a new announcement must meet at its port.
Welcome(q, g, m) ==
  m.type = "new_server" =>
    \/ EndOf(q, g, m.node, m.port, {})
    \/ "repeat" \in Env /\ EndOf(q, g, m.node, m.port, Effect(m))

LEMMA FreshSame ==
  ASSUME NEW q, NEW t, NEW g, NEW i \in Nat, \A j \in 1..i : t[j] = q[j], i > 0,
         FreshAt(q, g, i)
  PROVE  FreshAt(t, g, i)
<1>1. t[i] = q[i] /\ \A j \in 1..i - 1 : t[j] = q[j]
  OBVIOUS
<1> QED
  BY <1>1, EndsSame DEF FreshAt

LEMMA AppendFresh ==
  ASSUME NEW q \in Seq(PacketSet), NEW m, NEW g, FreshAll(q, g), Welcome(q, g, m)
  PROVE  FreshAll(Append(q, m), g)
<1> DEFINE t == Append(q, m)
           k == Len(q) + 1
<1>1. Len(q) \in Nat /\ Len(t) = k /\ k \in Nat \ {0} /\ t[k] = m
      /\ \A i \in 1..k - 1 : t[i] = q[i]
  OBVIOUS
<1>2. SUFFICES ASSUME NEW i \in 1..k, t[i].type = "new_server"
               PROVE  FreshAt(t, g, i)
  BY <1>1 DEF FreshAll
<1> HIDE DEF t
<1>3. CASE i # k
  <2>1. i \in 1..Len(q) /\ i \in Nat /\ i > 0 /\ t[i] = q[i]
        /\ \A j \in 1..i : t[j] = q[j]
    BY <1>1, <1>3
  <2>2. FreshAt(q, g, i)
    BY <1>2, <2>1 DEF FreshAll
  <2> QED
    BY <2>1, <2>2, FreshSame
<1>4. CASE i = k
  <2>1. m.type = "new_server" /\ t[k] = m
    BY <1>1, <1>2, <1>4
  <2> HIDE DEF k
  <2>2. \/ EndsAt(q, g[m.node][m.port], k, m.node, m.port, {})
        \/ /\ "repeat" \in Env
           /\ EndsAt(q, g[m.node][m.port], k, m.node, m.port, Effect(m))
    BY <2>1 DEF Welcome, EndOf, k
  <2>3. \/ EndsAt(t, g[m.node][m.port], k, m.node, m.port, {})
        \/ /\ "repeat" \in Env
           /\ EndsAt(t, g[m.node][m.port], k, m.node, m.port, Effect(m))
    BY <1>1, <2>2, EndsSame
  <2> QED
    BY <1>4, <2>1, <2>3 DEF FreshAt
<1> QED
  BY <1>3, <1>4

\* The first packet is handled.
LEMMA TailEnd ==
  ASSUME NEW q \in Seq(PacketSet), q # <<>>, NEW g, NEW n \in Node, NEW p \in Port,
         NEW X, EndOf(q, g, n, p, X)
  PROVE  EndOf(Tail(q), After(g, q[1]), n, p, X)
<1> DEFINE k == Len(q)
           R == g[n][p]
<1>1. k \in 1..Len(q) /\ Len(Tail(q)) + 1 = k
  OBVIOUS
<1>2. EndsAt(q, R, k + 1, n, p, X)
  BY DEF EndOf
<1> HIDE DEF k
<1>3. EndsAt(Tail(q), IF SetterOf(q[1], n, p) THEN Effect(q[1]) ELSE R,
             k, n, p, X)
  BY <1>1, <1>2, EndsTail
<1>4. After(g, q[1])[n][p] = IF SetterOf(q[1], n, p) THEN Effect(q[1]) ELSE R
  BY DEF After
<1> HIDE DEF R
<1> QED
  BY <1>1, <1>3, <1>4 DEF EndOf

LEMMA TailFresh ==
  ASSUME NEW q \in Seq(PacketSet), q # <<>>, NEW g, FreshAll(q, g)
  PROVE  FreshAll(Tail(q), After(g, q[1]))
<1> DEFINE t == Tail(q)
           g2 == After(g, q[1])
<1>1. SUFFICES ASSUME NEW i \in 1..Len(t), t[i].type = "new_server"
               PROVE  FreshAt(t, g2, i)
  BY DEF FreshAll
<1>2. i + 1 \in 1..Len(q) /\ t[i] = q[i + 1] /\ i \in 1..Len(q)
      /\ q[i + 1] \in PacketSet
  OBVIOUS
<1> DEFINE n == t[i].node
           p == t[i].port
           R == g[n][p]
<1>3. n \in Node /\ p \in Port
  BY <1>1, <1>2, PacketFacts
<1>4. FreshAt(q, g, i + 1)
  BY <1>1, <1>2 DEF FreshAll
<1>5. \/ EndsAt(q, R, i + 1, n, p, {})
      \/ "repeat" \in Env /\ EndsAt(q, R, i + 1, n, p, Effect(t[i]))
  BY <1>2, <1>4 DEF FreshAt
<1>6. g2[n][p] = IF SetterOf(q[1], n, p) THEN Effect(q[1]) ELSE R
  BY <1>3 DEF After
<1>7. \A X : EndsAt(q, R, i + 1, n, p, X) =>
        EndsAt(t, IF SetterOf(q[1], n, p) THEN Effect(q[1]) ELSE R, i, n, p, X)
  <2> HIDE DEF R, n, p
  <2> QED
    BY <1>2, EndsTail
<1>8. \A X : EndsAt(q, R, i + 1, n, p, X) => EndsAt(t, g2[n][p], i, n, p, X)
  BY <1>6, <1>7
<1> HIDE DEF g2, R
<1>9. \/ EndsAt(t, g2[n][p], i, n, p, {})
      \/ "repeat" \in Env /\ EndsAt(t, g2[n][p], i, n, p, Effect(t[i]))
  BY <1>5, <1>8
<1> QED
  BY <1>9 DEF FreshAt

------------------------------------------------------------------------------
(* The announcements that answer a HELLO.                                  *)

\* A announces every server of O once.
Answers(A, r, O) ==
  /\ A \in Seq(PacketSet)
  /\ \A j \in 1..Len(A) : /\ A[j].type = "new_server" /\ A[j].node = r
                          /\ ServerIn(A[j]) \in O
  /\ \A s \in O : \E j \in 1..Len(A) : ServerIn(A[j]) = s
  /\ \A i, j \in 1..Len(A) : A[i].port = A[j].port => i = j

LEMMA AnnouncementIs ==
  ASSUME NEW s \in Server
  PROVE  /\ Announcement(s) \in PacketSet
         /\ Announcement(s).type = "new_server" /\ Announcement(s).node = s.node
         /\ Announcement(s).port = s.port /\ ServerIn(Announcement(s)) = s
         /\ Effect(Announcement(s)) = {s}
<1>1. /\ s.node \in Node /\ s.port \in Port /\ s.service \in Service
      /\ s.instance \in Instance
      /\ s = [node |-> s.node, port |-> s.port, service |-> s.service,
              instance |-> s.instance]
  BY DEF Server
<1> QED
  BY <1>1 DEF Announcement, Packet, PacketSet, ServerIn, Filter, Effect

\* announce_servers of the other node covers its servers, each once.
LEMMA AnsweredIs ==
  ASSUME IsFiniteSet(offers), offers \subseteq Server, NEW r \in RemoteNode,
         \A s, t \in offers : SameSocket(s, t) => s = t
  PROVE  Answers(Answered(r), r, {s \in offers : s.node = r})
<1> DEFINE S == {s \in offers : s.node = r}
           c == Cardinality(S)
           f == SetToSeq(S)
           A == Answered(r)
<1>1. S \subseteq offers
  OBVIOUS
<1>2. IsFiniteSet(S)
  BY <1>1, FS_Subset
<1>3. c \in Nat /\ ExistsBijection(1..c, S)
  BY <1>2, FS_CardinalityType
<1>4. f \in [1..c -> S] /\ IsInjective(f)
  <2>1. \E b \in [1..c -> S] : IsInjective(b)
    <3>1. PICK b : b \in Bijection(1..c, S)
      BY <1>3 DEF ExistsBijection
    <3> QED
      BY <3>1 DEF Bijection, Injection, IsInjective
  <2> QED
    BY <2>1 DEF SetToSeq
<1>5. \A s \in S : \E i \in 1..c : f[i] = s
  <2>1. PICK b : b \in Bijection(1..c, S)
    BY <1>3 DEF ExistsBijection
  <2>2. f \in Injection(1..c, S)
    BY <1>4 DEF Injection, IsInjective
  <2>3. IsFiniteSet(1..c) /\ Cardinality(1..c) = c
    <3>1. IsFiniteSet(1..c)
          /\ Cardinality(1..c) = IF 1 > c THEN 0 ELSE c - 1 + 1
      BY <1>3, FS_Interval
    <3> QED
      BY <1>3, <3>1
  <2>4. f \in Surjection(1..c, S)
    <3> HIDE DEF f, c, S
    <3> QED
      BY <1>2, <2>2, <2>3, FS_Injection DEF c
  <2> QED
    BY <2>4 DEF Surjection
<1>6. A = [i \in 1..c |-> Announcement(f[i])]
  BY DEF Answered
<1> HIDE DEF f, c, A
<1>7. \A i \in 1..c : f[i] \in S /\ f[i] \in Server /\ f[i].node = r
  BY <1>4
<1>8. \A i \in 1..c : /\ A[i] \in PacketSet /\ A[i].type = "new_server"
                      /\ A[i].node = r /\ A[i].port = f[i].port
                      /\ ServerIn(A[i]) = f[i]
  BY <1>6, <1>7, AnnouncementIs
<1>9. A \in Seq(PacketSet) /\ Len(A) = c
  BY <1>3, <1>6, <1>8
<1>10. \A i, j \in 1..c : f[i].port = f[j].port => i = j
  <2> SUFFICES ASSUME NEW i \in 1..c, NEW j \in 1..c, f[i].port = f[j].port
               PROVE  i = j
    OBVIOUS
  <2>1. SameSocket(f[i], f[j]) /\ f[i] \in offers /\ f[j] \in offers
    BY <1>7 DEF SameSocket
  <2>2. f[i] = f[j]
    BY <2>1
  <2> QED
    BY <1>4, <2>2 DEF IsInjective
<1> HIDE DEF S
<1>11. Answers(A, r, S)
  BY <1>5, <1>7, <1>8, <1>9, <1>10 DEF Answers
<1> QED
  BY <1>11 DEF A, S

LEMMA AnswersShape ==
  ASSUME NEW q \in Seq(PacketSet), NEW A, NEW r, NEW O, Answers(A, r, O)
  PROVE  /\ q \o A \in Seq(PacketSet) /\ Len(q) \in Nat /\ Len(A) \in Nat
         /\ Len(q \o A) = Len(q) + Len(A)
         /\ \A i \in 1..Len(q) : (q \o A)[i] = q[i]
         /\ \A j \in 1..Len(A) : (q \o A)[Len(q) + j] = A[j]
BY DEF Answers

\* One of these announcements.
AnswerIs(a, r, O) ==
  /\ a.type = "new_server" /\ a.node = r
  /\ SetterOf(a, r, a.port)
  /\ \A n, p : SetterOf(a, n, p) => n = r /\ p = a.port
  /\ Effect(a) = {ServerIn(a)} /\ ServerIn(a).port = a.port
  /\ ServerIn(a) \in O

LEMMA AnswerFacts ==
  ASSUME NEW A, NEW r, NEW O, Answers(A, r, O), NEW j \in 1..Len(A)
  PROVE  AnswerIs(A[j], r, O)
BY DEF Answers, SetterOf, Effect, ServerIn, AnswerIs

\* Ports without a server of O stay as they are.
LEMMA AnswersLeave ==
  ASSUME NEW q \in Seq(PacketSet), NEW A, NEW r, NEW O, Answers(A, r, O),
         NEW g, NEW n, NEW p, NEW X, EndOf(q, g, n, p, X),
         \A s \in O : ~ (n = r /\ s.port = p)
  PROVE  EndOf(q \o A, g, n, p, X)
<1> DEFINE t == q \o A
           k == Len(q) + 1
           l == Len(t) + 1
<1>1. /\ Len(q) \in Nat /\ Len(A) \in Nat /\ Len(t) = Len(q) + Len(A)
      /\ \A i \in 1..Len(q) : t[i] = q[i]
      /\ \A j \in 1..Len(A) : t[Len(q) + j] = A[j]
  BY AnswersShape
<1> HIDE DEF t
<1>2. EndsAt(q, g[n][p], k, n, p, X)
  BY DEF EndOf
<1>3. k \in Nat \ {0} /\ l \in Nat /\ k <= l /\ \A i \in 1..k - 1 : t[i] = q[i]
  BY <1>1
<1>4. ASSUME NEW i \in k..l - 1 PROVE ~ SetterOf(t[i], n, p)
  <2> DEFINE j == i - Len(q)
  <2>1. j \in 1..Len(A) /\ Len(q) + j = i
    BY <1>1
  <2>2. t[i] = A[j]
    BY <1>1, <2>1
  <2> HIDE DEF j
  <2>3. AnswerIs(A[j], r, O)
    BY <2>1, AnswerFacts
  <2> QED
    BY <2>2, <2>3 DEF AnswerIs
<1> HIDE DEF k, l
<1>5. EndsAt(t, g[n][p], k, n, p, X)
  BY <1>2, <1>3, EndsSame
<1>6. EndsAt(t, g[n][p], l, n, p, X)
  BY <1>3, <1>4, <1>5, EndsBeyond
<1> QED
  BY <1>6 DEF EndOf, t, l

\* A server of O is registered in the end.
LEMMA AnswersEnd ==
  ASSUME NEW q \in Seq(PacketSet), NEW A, NEW r, NEW O, Answers(A, r, O),
         NEW g, NEW s \in O
  PROVE  EndOf(q \o A, g, r, s.port, {s})
<1> DEFINE t == q \o A
           l == Len(t) + 1
<1>1. /\ Len(q) \in Nat /\ Len(A) \in Nat /\ Len(t) = Len(q) + Len(A)
      /\ \A i \in 1..Len(q) : t[i] = q[i]
      /\ \A j \in 1..Len(A) : t[Len(q) + j] = A[j]
  BY AnswersShape
<1> HIDE DEF t
<1>2. PICK j \in 1..Len(A) : ServerIn(A[j]) = s
  BY DEF Answers
<1> DEFINE h == Len(q) + j
<1>3. h \in 1..l - 1 /\ l \in Nat /\ t[h] = A[j]
  BY <1>1
<1>4. SetterOf(A[j], r, s.port) /\ Effect(A[j]) = {s} /\ A[j].port = s.port
  <2>1. AnswerIs(A[j], r, O)
    BY AnswerFacts
  <2> QED
    BY <1>2, <2>1 DEF AnswerIs
<1>5. ASSUME NEW i \in h + 1..l - 1 PROVE ~ SetterOf(t[i], r, s.port)
  <2> DEFINE e == i - Len(q)
  <2>1. e \in 1..Len(A) /\ Len(q) + e = i /\ e # j
    BY <1>1
  <2>2. t[i] = A[e]
    BY <1>1, <2>1
  <2> HIDE DEF e
  <2>3. A[e].port # A[j].port
    BY <2>1 DEF Answers
  <2>4. AnswerIs(A[e], r, O)
    BY <2>1, AnswerFacts
  <2> QED
    BY <1>4, <2>2, <2>3, <2>4 DEF AnswerIs
<1> HIDE DEF h, l
<1>6. EndsAt(t, g[r][s.port], l, r, s.port, Effect(t[h]))
  BY <1>3, <1>4, <1>5, EndsSetter
<1> QED
  BY <1>3, <1>4, <1>6 DEF EndOf, t, l

\* No answer meets a foreign server.
LEMMA AnswersFresh ==
  ASSUME NEW q \in Seq(PacketSet), NEW A, NEW r, NEW O, Answers(A, r, O),
         NEW g, FreshAll(q, g),
         \A s \in O : \/ EndOf(q, g, r, s.port, {})
                      \/ "repeat" \in Env /\ EndOf(q, g, r, s.port, {s})
  PROVE  FreshAll(q \o A, g)
<1> DEFINE t == q \o A
<1>1. /\ Len(q) \in Nat /\ Len(A) \in Nat /\ Len(t) = Len(q) + Len(A)
      /\ \A i \in 1..Len(q) : t[i] = q[i]
      /\ \A j \in 1..Len(A) : t[Len(q) + j] = A[j]
  BY AnswersShape
<1>2. SUFFICES ASSUME NEW i \in 1..Len(t), t[i].type = "new_server"
               PROVE  FreshAt(t, g, i)
  BY DEF FreshAll
<1> HIDE DEF t
<1>3. CASE i \in 1..Len(q)
  <2>1. i \in Nat /\ i > 0 /\ t[i] = q[i] /\ \A j \in 1..i : t[j] = q[j]
    BY <1>1, <1>3
  <2>2. FreshAt(q, g, i)
    BY <1>2, <1>3, <2>1 DEF FreshAll
  <2> QED
    BY <2>1, <2>2, FreshSame
<1>4. CASE i \notin 1..Len(q)
  <2> DEFINE j == i - Len(q)
             k == Len(q) + 1
             s == ServerIn(A[j])
             p == s.port
  <2>1. j \in 1..Len(A) /\ Len(q) + j = i
    BY <1>1, <1>4
  <2>2. t[i] = A[j]
    BY <1>1, <2>1
  <2>3. s \in O /\ t[i].node = r /\ t[i].port = p /\ Effect(t[i]) = {s}
    <3> HIDE DEF j
    <3>1. AnswerIs(A[j], r, O)
      BY <2>1, AnswerFacts
    <3> QED
      BY <2>2, <3>1 DEF AnswerIs
  <2>4. k \in Nat \ {0} /\ i \in Nat /\ k <= i /\ \A e \in 1..k - 1 : t[e] = q[e]
    BY <1>1, <2>1
  <2>5. ASSUME NEW e \in k..i - 1 PROVE ~ SetterOf(t[e], r, p)
    <3> DEFINE d == e - Len(q)
    <3>1. d \in 1..Len(A) /\ Len(q) + d = e /\ d # j
      BY <1>1, <2>1
    <3>2. t[e] = A[d]
      BY <1>1, <3>1
    <3> HIDE DEF d, j
    <3>3. A[d].port # A[j].port
      BY <3>1, <2>1 DEF Answers
    <3>4. AnswerIs(A[j], r, O) /\ AnswerIs(A[d], r, O)
      BY <2>1, <3>1, AnswerFacts
    <3>5. A[j].port = p
      BY <3>4 DEF AnswerIs
    <3> QED
      BY <3>2, <3>3, <3>4, <3>5 DEF AnswerIs
  <2> HIDE DEF k, p, s, j
  <2>6. \/ EndsAt(q, g[r][p], k, r, p, {})
        \/ "repeat" \in Env /\ EndsAt(q, g[r][p], k, r, p, {s})
    BY <2>3 DEF EndOf, k, p
  <2>7. ASSUME NEW X, EndsAt(q, g[r][p], k, r, p, X)
        PROVE  EndsAt(t, g[r][p], i, r, p, X)
    <3>1. EndsAt(t, g[r][p], k, r, p, X)
      BY <2>4, <2>7, EndsSame
    <3> QED
      BY <2>4, <2>5, <3>1, EndsBeyond
  <2> QED
    BY <2>3, <2>6, <2>7 DEF FreshAt
<1> QED
  BY <1>3, <1>4

------------------------------------------------------------------------------
(* The invariant of the registry.                                          *)

\* The table cannot store a port twice: either no two ports compete for a slot,
\* or no port is announced that is registered.
Tame == PortsApart \/ "repeat" \notin Env

\* Types, with those of the packets.
TypeInv ==
  /\ inbox \in Seq(PacketSet)
  /\ lookups \in SUBSET Lookup
  /\ open \in SUBSET (Node \X Port)
  /\ offers \in SUBSET Server
  /\ link \in [RemoteNode -> {"down", "hello", "up"}]
  /\ view \in [Port -> SUBSET Server]
  /\ known \in [RemoteNode -> SUBSET Server]
  /\ clients \in [Port -> SUBSET (Node \X Port)]

\* The server a socket means to be registered: one or none.
OfferAt(n, p) == {s \in offers : s.node = n /\ s.port = p}

\* A socket has one server at most, and only while it is open.
OffersOK ==
  /\ IsFiniteSet(offers)
  /\ \A s, t \in offers : SameSocket(s, t) => s = t
  /\ \A s \in offers : <<s.node, s.port>> \in open

\* What the registry will hold at a port when all packets are handled.
End(n, p, X) == EndOf(inbox, RegMap, n, p, X)

\* What the registry should then hold.
Fits(n, p, X) ==
  /\ Link(n) = "up" => X = OfferAt(n, p)
  /\ Link(n) = "down" => X = {}
  /\ Link(n) = "hello" => X = {} \/ ("repeat" \in Env /\ X = OfferAt(n, p))

\* The packets on their way will bring the registry to what it should hold.
Settled(n, p) == \E X : Fits(n, p, X) /\ End(n, p, X)

IsHello(m, r) == m.type = "hello" /\ m.node = r

\* A node that has said HELLO is answered, and without repetitions there is one
\* HELLO of it and none of an earlier link.
Greeted(r) ==
  /\ link[r] = "hello" => \E i \in 1..Len(inbox) : IsHello(inbox[i], r)
  /\ "repeat" \notin Env => \A i \in 1..Len(inbox) : IsHello(inbox[i], r) =>
       /\ link[r] = "hello"
       /\ \A j \in 1..Len(inbox) : IsHello(inbox[j], r) => j = i

\* No announcement will meet a foreign server at its port.
Fresh == FreshAll(inbox, RegMap)

\* The inductive invariant.
RegInv ==
  /\ TypeInv /\ MapsOK /\ OffersOK
  /\ \A n \in Node, p \in Port : Settled(n, p)
  /\ Fresh
  /\ \A r \in RemoteNode : Greeted(r)

LEMMA RegMapIs ==
  /\ \A n \in Node, p \in Port : RegMap[n][p] = RegAt(n, p)
  /\ \A n \in Node, p \in Port : RegMap'[n][p] = RegAt(n, p)'
BY DEF RegMap

\* Effects port by port make the effect on the registry.
LEMMA RegMapAfter ==
  ASSUME NEW m, \A n \in Node, p \in Port :
           RegAt(n, p)' = IF SetterOf(m, n, p) THEN Effect(m) ELSE RegAt(n, p)
  PROVE  RegMap' = After(RegMap, m)
<1>1. RegMap' = [n \in Node |-> [p \in Port |-> RegAt(n, p)']]
  BY DEF RegMap
<1>2. \A n \in Node, p \in Port : RegMap[n][p] = RegAt(n, p)
  BY RegMapIs
<1>3. After(RegMap, m) = [n \in Node |-> [p \in Port |->
                  IF SetterOf(m, n, p) THEN Effect(m) ELSE RegAt(n, p)]]
  BY <1>2 DEF After
<1> QED
  BY <1>1, <1>3

LEMMA RegMapSame == services' = services => RegMap' = RegMap /\ (MapsOK => MapsOK')
BY DEF RegMap, RegAt, Registered, MapsOK

\* The first packet.
LEMMA HeadIs ==
  ASSUME TypeInv, inbox # <<>>
  PROVE  /\ Head(inbox) = inbox[1] /\ inbox[1] \in PacketSet
         /\ Len(inbox) \in Nat \ {0} /\ 1 \in 1..Len(inbox)
         /\ Tail(inbox) \in Seq(PacketSet) /\ Len(Tail(inbox)) = Len(inbox) - 1
         /\ \A i \in 1..Len(Tail(inbox)) : Tail(inbox)[i] = inbox[i + 1]
                                           /\ i + 1 \in 1..Len(inbox)
BY DEF TypeInv

\* Every packet has the effect on the registry that its kind stands for.
LEMMA HeadEffect ==
  ASSUME Tame, TypeInv, MapsOK, Fresh, NsStep
  PROVE  /\ inbox # <<>> /\ MapsOK' /\ RegMap' = After(RegMap, inbox[1])
         /\ UNCHANGED <<open, offers>>
<1> DEFINE m == inbox[1]
<1>1. inbox # <<>> /\ UNCHANGED <<open, offers>>
  BY DEF NsStep, Handle, CtrlCmdHello, CtrlCmdBye, CtrlCmdDelClient, CtrlCmdNewServer,
         CtrlCmdDelServer, CtrlCmdNewLookup, CtrlCmdDelLookup, world
<1>2. Head(inbox) = m /\ m \in PacketSet
  BY <1>1, HeadIs
<1>3. From = m.node /\ FromPort = m.port /\ Body = m.body
  BY <1>2 DEF From, FromPort, Body
<1> HIDE DEF m
<1> SUFFICES /\ MapsOK'
             /\ \A n \in Node, p \in Port :
                  RegAt(n, p)' = IF SetterOf(m, n, p) THEN Effect(m) ELSE RegAt(n, p)
  BY <1>1, RegMapAfter DEF m
<1>4. CASE services' = services /\ m.type \in {"hello", "new_lookup", "del_lookup"}
  <2>1. \A n, p : ~ SetterOf(m, n, p)
    BY <1>4 DEF SetterOf
  <2>2. MapsOK' /\ RegMap' = RegMap
    BY <1>4, RegMapSame
  <2>3. \A n \in Node, p \in Port : RegAt(n, p)' = RegAt(n, p)
    BY <2>2, RegMapIs
  <2> QED
    BY <2>1, <2>2, <2>3
<1>5. CASE CtrlCmdHello
  <2>1. services' = services /\ m.type = "hello"
    BY <1>2, <1>5 DEF CtrlCmdHello, Handle, ns
  <2> QED
    BY <1>4, <2>1
<1>6. CASE CtrlCmdBye
  <2>1. /\ m.type = "bye" /\ m.node \in Node
        /\ services' = [services EXCEPT ![m.node] = Sweep(services[m.node])]
    BY <1>2, <1>3, <1>6, PacketFacts DEF CtrlCmdBye, Handle
  <2>2. /\ MapsOK'
        /\ \A n \in Node, p \in Port :
             RegAt(n, p)' = IF n = m.node THEN {} ELSE RegAt(n, p)
    BY <2>1, SweepEffect
  <2>3. \A n, p : SetterOf(m, n, p) <=> n = m.node
    BY <2>1 DEF SetterOf
  <2>4. Effect(m) = {}
    BY <2>1 DEF Effect
  <2> QED
    BY <2>2, <2>3, <2>4
<1>7. CASE ServerDel(m.node, m.port) /\ m.type \in {"del_client", "del_server"}
  <2>1. m.node \in Node /\ m.port \in Port
    BY <1>2, <1>7, PacketFacts
  <2>2. /\ MapsOK'
        /\ \A n \in Node, p \in Port :
             RegAt(n, p)' = IF n = m.node /\ p = m.port THEN {} ELSE RegAt(n, p)
    BY <1>7, <2>1, DelEffect
  <2>3. \A n, p : SetterOf(m, n, p) <=> n = m.node /\ p = m.port
    BY <1>7 DEF SetterOf
  <2>4. Effect(m) = {}
    BY <1>7 DEF Effect
  <2> QED
    BY <2>2, <2>3, <2>4
<1>8. CASE CtrlCmdDelClient
  BY <1>2, <1>3, <1>7, <1>8 DEF CtrlCmdDelClient, Handle
<1>9. CASE CtrlCmdDelServer
  BY <1>2, <1>3, <1>7, <1>9 DEF CtrlCmdDelServer, Handle
<1>10. CASE CtrlCmdNewServer
  <2> DEFINE s == ServerIn(m)
  <2>1. m.type = "new_server"
    BY <1>2, <1>10 DEF CtrlCmdNewServer, Handle
  <2>2. /\ s \in Server /\ s.node = m.node /\ s.port = m.port
        /\ m.node \in Node /\ m.port \in Port /\ Effect(m) = {s}
    BY <1>2, <2>1, PacketFacts
  <2>3. ServerAdd(s)
    BY <1>3, <1>10 DEF CtrlCmdNewServer, ServerIn
  <2>4. PortsApart \/ RegAt(s.node, s.port) = {}
    <3>1. CASE "repeat" \notin Env
      <4>1. FreshAt(inbox, RegMap, 1)
        BY <1>1, <2>1, HeadIs DEF Fresh, FreshAll, m
      <4>2. EndsAt(inbox, RegMap[m.node][m.port], 1, m.node, m.port, {})
        BY <3>1, <4>1 DEF FreshAt, m
      <4>3. RegMap[m.node][m.port] = {}
        BY <4>2 DEF EndsAt
      <4> QED
        BY <2>2, <4>3, RegMapIs
    <3> QED
      BY <3>1 DEF Tame
  <2> HIDE DEF s
  <2>5. /\ MapsOK'
        /\ \A n \in Node, p \in Port :
             RegAt(n, p)' = IF n = s.node /\ p = s.port THEN {s} ELSE RegAt(n, p)
    BY <2>2, <2>3, <2>4, AddEffect
  <2>6. \A n, p : SetterOf(m, n, p) <=> n = m.node /\ p = m.port
    BY <2>1 DEF SetterOf
  <2> QED
    BY <2>2, <2>5, <2>6
<1>11. CASE CtrlCmdNewLookup
  BY <1>2, <1>4, <1>11 DEF CtrlCmdNewLookup, Handle
<1>12. CASE CtrlCmdDelLookup
  BY <1>2, <1>4, <1>12 DEF CtrlCmdDelLookup, Handle
<1> QED
  BY <1>5, <1>6, <1>8, <1>9, <1>10, <1>11, <1>12 DEF NsStep

------------------------------------------------------------------------------
(* Types.                                                                  *)

LEMMA RegistryIs ==
  ASSUME MapsOK
  PROVE  /\ Registry \subseteq Server
         /\ \A s : s \in Registry <=> s.node \in Node /\ s \in Registered(s.node)
<1>1. \A n \in Node : \A s \in Registered(n) : s \in Server /\ s.node = n
  BY RegisteredIs
<1>2. \A s : s \in Registry <=> \E n \in Node : s \in Registered(n)
  BY DEF Registry
<1> QED
  BY <1>1, <1>2

LEMMA NotifyType ==
  ASSUME view \in [Port -> SUBSET Server], NEW gone, NEW fresh \in SUBSET Server,
         Notify(gone, fresh)
  PROVE  view' \in [Port -> SUBSET Server]
<1> DEFINE Hears(p, s) == \E l \in lookups : l.port = p /\ Concerns(l, s)
           v(p) == IF <<LocalNode, p>> \notin open THEN view[p]
                   ELSE (view[p] \ {s \in gone : Hears(p, s)})
                        \cup {s \in fresh : Hears(p, s)}
<1>1. view' = [p \in Port |-> v(p)]
  BY DEF Notify
<1>2. \A p \in Port : v(p) \in SUBSET Server
  <2> HIDE DEF Hears
  <2> QED
    OBVIOUS
<1> HIDE DEF v
<1> QED
  BY <1>1, <1>2

LEMMA BroadcastType ==
  ASSUME known \in [RemoteNode -> SUBSET Server], NEW gone,
         NEW fresh \in SUBSET Server, Broadcast(gone, fresh)
  PROVE  known' \in [RemoteNode -> SUBSET Server]
<1> DEFINE Local(S) == {s \in S : s.node = LocalNode}
           Update(S) == Learn({s \in S : \A g \in Local(gone) : ~SameSocket(s, g)},
                              Local(fresh))
           v(r) == IF link[r] = "down" THEN known[r] ELSE Update(known[r])
<1>1. known' = [r \in RemoteNode |-> v(r)]
  BY DEF Broadcast
<1>2. \A S \in SUBSET Server : Update(S) \in SUBSET Server
  BY DEF Learn
<1> HIDE DEF Update
<1>3. \A r \in RemoteNode : v(r) \in SUBSET Server
  BY <1>2
<1> HIDE DEF v
<1> QED
  BY <1>1, <1>3

LEMMA PropagateType ==
  ASSUME clients \in [Port -> SUBSET (Node \X Port)], NEW m, NEW gone,
         Propagate(m, gone)
  PROVE  clients' \in [Port -> SUBSET (Node \X Port)]
<1> DEFINE v(p) == IF MapGet(m, p) = NoItem THEN clients[p] ELSE clients[p] \ gone
<1>1. clients' = [p \in Port |-> v(p)]
  BY DEF Propagate
<1>2. \A p \in Port : v(p) \in SUBSET (Node \X Port)
  OBVIOUS
<1> HIDE DEF v
<1> QED
  BY <1>1, <1>2

LEMMA PostType ==
  ASSUME inbox \in Seq(PacketSet), NEW m \in PacketSet, Post(m)
  PROVE  inbox' \in Seq(PacketSet)
BY DEF Post

\* The packets of sockets and other nodes.
LEMMA PacketsTyped ==
  /\ \A n \in Node, p \in Port :
       /\ Packet("del_client", n, p, Nothing) \in PacketSet
       /\ Packet("del_server", n, p, Nothing) \in PacketSet
  /\ \A p \in Port, f \in Filter :
       /\ Packet("new_lookup", LocalNode, p, f) \in PacketSet
       /\ Packet("del_lookup", LocalNode, p, f) \in PacketSet
  /\ \A r \in RemoteNode : /\ Packet("hello", r, 0, Nothing) \in PacketSet
                           /\ Packet("bye", r, 0, Nothing) \in PacketSet
<1>1. Nothing \in Filter
  BY DEF Nothing, Filter
<1> QED
  BY <1>1 DEF Packet, PacketSet, Node

LEMMA TypeNsStep ==
  ASSUME TypeInv, MapsOK, OffersOK, NsStep
  PROVE  TypeInv'
<1> DEFINE m == inbox[1]
<1>1. inbox # <<>> /\ UNCHANGED <<open, offers>>
  BY DEF NsStep, Handle, CtrlCmdHello, CtrlCmdBye, CtrlCmdDelClient, CtrlCmdNewServer,
         CtrlCmdDelServer, CtrlCmdNewLookup, CtrlCmdDelLookup, world
<1>2. Head(inbox) = m /\ m \in PacketSet
  BY <1>1, HeadIs
<1>3. From = m.node /\ FromPort = m.port /\ Body = m.body
  BY <1>2 DEF From, FromPort, Body
<1>4. Tail(inbox) \in Seq(PacketSet)
  BY <1>1, HeadIs
<1>5. Read => inbox' \in Seq(PacketSet)
  BY <1>4 DEF Read
<1>6. open' \in SUBSET (Node \X Port) /\ offers' \in SUBSET Server
  BY <1>1 DEF TypeInv
<1> HIDE DEF m
<1>7. CASE CtrlCmdHello
  <2>1. m.type = "hello" /\ UNCHANGED <<lookups, view, clients>>
    BY <1>2, <1>7 DEF CtrlCmdHello, Handle, ns
  <2>2. m.node \in RemoteNode
    BY <1>2, <2>1 DEF PacketSet
  <2>3. CASE link[From] = "down"
    BY <1>5, <1>6, <1>7, <2>1, <2>3 DEF CtrlCmdHello, TypeInv
  <2>4. CASE link[From] # "down"
    <3>1. /\ link' = [link EXCEPT ![m.node] = "up"]
          /\ known' = [known EXCEPT ![m.node] =
                         Learn(known[m.node], AnnouncedTo(m.node))]
          /\ inbox' = Tail(inbox) \o Answered(m.node)
      BY <1>3, <1>7, <2>4 DEF CtrlCmdHello
    <3>2. Answered(m.node) \in Seq(PacketSet)
      BY <2>2, AnsweredIs DEF OffersOK, TypeInv, Answers
    <3>3. inbox' \in Seq(PacketSet)
      BY <1>4, <3>1, <3>2
    <3>4. Learn(known[m.node], AnnouncedTo(m.node)) \in SUBSET Server
      BY <2>2, RegistryIs DEF Learn, AnnouncedTo, TypeInv
    <3>5. known' \in [RemoteNode -> SUBSET Server]
      BY <3>1, <3>4 DEF TypeInv
    <3>6. link' \in [RemoteNode -> {"down", "hello", "up"}]
      BY <3>1 DEF TypeInv
    <3> QED
      BY <1>6, <2>1, <3>3, <3>5, <3>6 DEF TypeInv
  <2> QED
    BY <2>3, <2>4
<1>8. CASE CtrlCmdBye
  <2>1. /\ UNCHANGED <<lookups, link, known>>
        /\ Read /\ Propagate(services[LocalNode], {From} \X Port)
        /\ \E gone : Notify(gone, {})
    BY <1>8 DEF CtrlCmdBye, world
  <2>2. view' \in [Port -> SUBSET Server]
    BY <2>1, NotifyType DEF TypeInv
  <2>3. clients' \in [Port -> SUBSET (Node \X Port)]
    BY <2>1, PropagateType DEF TypeInv
  <2> QED
    BY <1>5, <1>6, <2>1, <2>2, <2>3 DEF TypeInv
<1>9. CASE CtrlCmdDelClient
  <2>1. /\ UNCHANGED link
        /\ Read /\ Propagate(services'[LocalNode], {<<From, FromPort>>})
        /\ Notify(Found(From, FromPort), {}) /\ Broadcast(Found(From, FromPort), {})
        /\ lookups' \subseteq lookups
    BY <1>9 DEF CtrlCmdDelClient, ServerDel, world
  <2>2. view' \in [Port -> SUBSET Server]
    BY <2>1, NotifyType DEF TypeInv
  <2>3. clients' \in [Port -> SUBSET (Node \X Port)]
    BY <2>1, PropagateType DEF TypeInv
  <2>4. known' \in [RemoteNode -> SUBSET Server]
    BY <2>1, BroadcastType DEF TypeInv
  <2> QED
    BY <1>5, <1>6, <2>1, <2>2, <2>3, <2>4 DEF TypeInv
<1>10. CASE CtrlCmdNewServer
  <2> DEFINE s == ServerIn(m)
  <2>1. /\ UNCHANGED <<lookups, link, clients>> /\ Read
        /\ Notify({}, {s}) /\ Broadcast({}, {s})
    BY <1>3, <1>10 DEF CtrlCmdNewServer, ServerIn, world
  <2>2. {s} \in SUBSET Server
    <3>1. m.type = "new_server"
      BY <1>2, <1>10 DEF CtrlCmdNewServer, Handle
    <3> QED
      BY <1>2, <3>1, PacketFacts
  <2> HIDE DEF s
  <2>3. view' \in [Port -> SUBSET Server]
    BY <2>1, <2>2, NotifyType DEF TypeInv
  <2>4. known' \in [RemoteNode -> SUBSET Server]
    BY <2>1, <2>2, BroadcastType DEF TypeInv
  <2> QED
    BY <1>5, <1>6, <2>1, <2>3, <2>4 DEF TypeInv
<1>11. CASE CtrlCmdDelServer
  <2>1. /\ UNCHANGED <<lookups, link, clients>> /\ Read
        /\ Notify(Found(From, FromPort), {}) /\ Broadcast(Found(From, FromPort), {})
    BY <1>11 DEF CtrlCmdDelServer, ServerDel, world
  <2>2. view' \in [Port -> SUBSET Server]
    BY <2>1, NotifyType DEF TypeInv
  <2>3. known' \in [RemoteNode -> SUBSET Server]
    BY <2>1, BroadcastType DEF TypeInv
  <2> QED
    BY <1>5, <1>6, <2>1, <2>2, <2>3 DEF TypeInv
<1>12. CASE CtrlCmdNewLookup
  <2> DEFINE l == [port |-> m.port, service |-> m.body.service,
                   instance |-> m.body.instance]
             new == {s \in Registry : ServerMatch(s, m.body)}
  <2>1. /\ UNCHANGED <<link, known, clients>> /\ Read
        /\ lookups' = lookups \cup {l}
        /\ \/ view' = view
           \/ view' = [view EXCEPT ![m.port] = view[m.port] \cup new]
    BY <1>3, <1>12 DEF CtrlCmdNewLookup, world
  <2>2. m.port \in Port /\ m.body \in Filter
    <3>1. m.type = "new_lookup"
      BY <1>2, <1>12 DEF CtrlCmdNewLookup, Handle
    <3> QED
      BY <1>2, <3>1 DEF PacketSet
  <2>3. l \in Lookup
    BY <2>2 DEF Lookup, Filter
  <2>4. new \subseteq Server
    BY RegistryIs
  <2> HIDE DEF l, new
  <2>5. view' \in [Port -> SUBSET Server]
    BY <2>1, <2>2, <2>4 DEF TypeInv
  <2> QED
    BY <1>5, <1>6, <2>1, <2>3, <2>5 DEF TypeInv
<1>13. CASE CtrlCmdDelLookup
  <2>1. /\ UNCHANGED <<link, known, clients>> /\ Read /\ lookups' \subseteq lookups
        /\ view' = [view EXCEPT ![FromPort] =
             {s \in view[FromPort] :
                \E l \in lookups' : l.port = FromPort /\ Concerns(l, s)}]
    BY <1>13 DEF CtrlCmdDelLookup, Forget, world
  <2>2. \E S : /\ view' = [view EXCEPT ![FromPort] = S]
               /\ S \subseteq view[FromPort]
    BY <2>1
  <2>3. FromPort \in Port
    <3>1. m.type = "del_lookup"
      BY <1>2, <1>13 DEF CtrlCmdDelLookup, Handle
    <3> QED
      BY <1>2, <1>3, <3>1 DEF PacketSet
  <2>4. view' \in [Port -> SUBSET Server]
    BY <2>2, <2>3 DEF TypeInv
  <2> QED
    BY <1>5, <1>6, <2>1, <2>4 DEF TypeInv
<1> QED
  BY <1>7, <1>8, <1>9, <1>10, <1>11, <1>12, <1>13 DEF NsStep

LEMMA TypeSocketStep ==
  ASSUME TypeInv, SocketStep
  PROVE  TypeInv' /\ UNCHANGED ns
<1>1. ASSUME NEW n \in Node, NEW p \in Port, OpenSocket(n, p)
      PROVE  TypeInv' /\ UNCHANGED ns
  BY <1>1 DEF OpenSocket, TypeInv, ns, others
<1>2. ASSUME NEW n \in Node, NEW p \in Port, CloseSocket(n, p)
      PROVE  TypeInv' /\ UNCHANGED ns
  <2>1. inbox' \in Seq(PacketSet)
    BY <1>2, PostType, PacketsTyped DEF CloseSocket, TypeInv
  <2>2. /\ view' \in [Port -> SUBSET Server]
        /\ clients' \in [Port -> SUBSET (Node \X Port)]
    BY <1>2 DEF CloseSocket, TypeInv
  <2>3. open' \subseteq open /\ offers' \subseteq offers /\ UNCHANGED <<ns, link, known>>
    BY <1>2 DEF CloseSocket
  <2> QED
    BY <2>1, <2>2, <2>3 DEF TypeInv, ns
<1>3. ASSUME NEW s \in Server, Offer(s)
      PROVE  TypeInv' /\ UNCHANGED ns
  <2>1. inbox' \in Seq(PacketSet)
    BY <1>3, PostType, AnnouncementIs DEF Offer, TypeInv
  <2> QED
    BY <1>3, <2>1 DEF Offer, TypeInv, ns, others
<1>4. ASSUME NEW s \in Server, OfferAgain(s)
      PROVE  TypeInv' /\ UNCHANGED ns
  <2>1. inbox' \in Seq(PacketSet)
    BY <1>4, PostType, AnnouncementIs DEF OfferAgain, TypeInv
  <2> QED
    BY <1>4, <2>1 DEF OfferAgain, TypeInv, ns, others, world
<1>5. ASSUME NEW s \in Server, Withdraw(s)
      PROVE  TypeInv' /\ UNCHANGED ns
  <2>1. inbox' \in Seq(PacketSet)
    BY <1>5, PostType, PacketsTyped, ServerFields DEF Withdraw, TypeInv
  <2>2. clients' \in [Port -> SUBSET (Node \X Port)]
    BY <1>5 DEF Withdraw, TypeInv
  <2> QED
    BY <1>5, <2>1, <2>2 DEF Withdraw, TypeInv, ns
<1>6. ASSUME NEW p \in Port, NEW f \in Filter, Observe(p, f)
      PROVE  TypeInv' /\ UNCHANGED ns
  <2>1. inbox' \in Seq(PacketSet)
    BY <1>6, PostType, PacketsTyped DEF Observe, TypeInv
  <2> QED
    BY <1>6, <2>1 DEF Observe, TypeInv, ns, others, world
<1>7. ASSUME NEW p \in Port, NEW f \in Filter, StopObserving(p, f)
      PROVE  TypeInv' /\ UNCHANGED ns
  <2>1. inbox' \in Seq(PacketSet)
    BY <1>7, PostType, PacketsTyped DEF StopObserving, TypeInv
  <2> QED
    BY <1>7, <2>1 DEF StopObserving, TypeInv, ns, others, world
<1>8. ASSUME NEW r \in RemoteNode, LinkUp(r)
      PROVE  TypeInv' /\ UNCHANGED ns
  <2> DEFINE h == Packet("hello", r, 0, Nothing)
  <2>1. h \in PacketSet
    BY PacketsTyped
  <2>2. inbox' = Append(inbox, h)
    BY <1>8 DEF LinkUp
  <2> HIDE DEF h
  <2>3. inbox' \in Seq(PacketSet)
    BY <2>1, <2>2 DEF TypeInv
  <2> QED
    BY <1>8, <2>3 DEF LinkUp, TypeInv, ns, others
<1>9. ASSUME NEW r \in RemoteNode, LinkDown(r)
      PROVE  TypeInv' /\ UNCHANGED ns
  <2>1. inbox' \in Seq(PacketSet)
    <3> DEFINE b == Packet("bye", r, 0, Nothing)
    <3>1. b \in PacketSet /\ Link(b.node)' = Link(b.node)' /\ Post(b)
      BY <1>9, PacketsTyped DEF LinkDown
    <3> HIDE DEF b
    <3> QED
      BY <3>1, PostType DEF TypeInv
  <2> QED
    BY <1>9, <2>1 DEF LinkDown, TypeInv, ns
<1>10. ASSUME NEW n \in Node, NEW p \in Port, NEW s \in offers, Talk(n, p, s)
       PROVE  TypeInv' /\ UNCHANGED ns
  <2>1. clients' \in [Port -> SUBSET (Node \X Port)]
    BY <1>10 DEF Talk, TypeInv
  <2> QED
    BY <1>10, <2>1 DEF Talk, TypeInv, ns, world
<1> QED
  BY <1>1, <1>2, <1>3, <1>4, <1>5, <1>6, <1>7, <1>8, <1>9, <1>10 DEF SocketStep

------------------------------------------------------------------------------
(* The invariant of the registry is inductive.                             *)

LEMMA EndPosted ==
  ASSUME TypeInv, UNCHANGED services, NEW m, inbox' = Append(inbox, m)
  PROVE  /\ \A n \in Node, p \in Port : \A X :
              End(n, p, X) => End(n, p, IF SetterOf(m, n, p) THEN Effect(m) ELSE X)'
         /\ Fresh /\ Welcome(inbox, RegMap, m) => Fresh'
<1>1. RegMap' = RegMap
  BY RegMapSame
<1>2. inbox \in Seq(PacketSet)
  BY DEF TypeInv
<1>3. ASSUME NEW n \in Node, NEW p \in Port, NEW X, End(n, p, X)
      PROVE  End(n, p, IF SetterOf(m, n, p) THEN Effect(m) ELSE X)'
  <2>1. EndOf(inbox, RegMap, n, p, X)
    BY <1>3 DEF End
  <2>2. EndOf(inbox', RegMap', n, p, IF SetterOf(m, n, p) THEN Effect(m) ELSE X)
    BY <1>1, <1>2, <2>1, AppendEnd
  <2> QED
    BY <2>2 DEF End, SetterOf, Effect, ServerIn
<1>4. ASSUME Fresh, Welcome(inbox, RegMap, m) PROVE Fresh'
  <2>1. FreshAll(inbox', RegMap')
    BY <1>1, <1>2, <1>4, AppendFresh DEF Fresh
  <2> QED
    BY <2>1 DEF Fresh
<1> QED
  BY <1>3, <1>4

LEMMA EndSame ==
  ASSUME UNCHANGED <<services, inbox>>
  PROVE  /\ \A n \in Node, p \in Port : \A X : End(n, p, X) => End(n, p, X)'
         /\ Fresh => Fresh'
<1>1. RegMap' = RegMap
  BY RegMapSame
<1> QED
  BY <1>1 DEF End, Fresh

\* A packet m of a socket or of another node is queued, unless its node is not
\* linked.
Posted(m) == inbox' = IF Link(m.node) = "down" THEN inbox ELSE Append(inbox, m)

LEMMA PostedReg ==
  ASSUME RegInv, TypeInv', OffersOK', UNCHANGED services, NEW m \in PacketSet,
         Posted(m), m.type # "hello",
         Link(m.node) # "down" => Welcome(inbox, RegMap, m),
         \A n \in Node, p \in Port :
           IF SetterOf(m, n, p) /\ Link(n) # "down" THEN Fits(n, p, Effect(m))'
           ELSE \A X : Fits(n, p, X) => Fits(n, p, X)',
         \A r \in RemoteNode :
           \/ link'[r] = link[r]
           \/ link'[r] = "down" /\ ("repeat" \in Env \/ link[r] # "hello")
  PROVE  RegInv'
<1>1. TypeInv /\ inbox \in Seq(PacketSet)
  BY DEF RegInv, TypeInv
<1>2. MapsOK'
  BY RegMapSame DEF RegInv
<1>3. CASE Link(m.node) = "down"
  <2>1. inbox' = inbox
    BY <1>3 DEF Posted
  <2>2. Fresh'
    BY <2>1, EndSame DEF RegInv
  <2>3. ASSUME NEW n \in Node, NEW p \in Port PROVE Settled(n, p)'
    <3>1. PICK X : Fits(n, p, X) /\ End(n, p, X)
      BY DEF RegInv, Settled
    <3>2. SetterOf(m, n, p) => Link(n) = "down"
      BY <1>3 DEF SetterOf
    <3>3. Fits(n, p, X)'
      BY <3>1, <3>2
    <3>4. End(n, p, X)'
      BY <2>1, <3>1, EndSame
    <3> QED
      BY <3>3, <3>4 DEF Settled
  <2>4. ASSUME NEW r \in RemoteNode PROVE Greeted(r)'
    <3>1. Greeted(r)
      BY DEF RegInv
    <3> QED
      BY <2>1, <3>1 DEF Greeted
  <2> QED
    BY <1>2, <2>2, <2>3, <2>4 DEF RegInv
<1>4. CASE Link(m.node) # "down"
  <2>1. inbox' = Append(inbox, m)
    BY <1>4 DEF Posted
  <2>2. Fresh'
    BY <1>1, <1>4, <2>1, EndPosted DEF RegInv
  <2>3. ASSUME NEW n \in Node, NEW p \in Port PROVE Settled(n, p)'
    <3>1. PICK X : Fits(n, p, X) /\ End(n, p, X)
      BY DEF RegInv, Settled
    <3>2. End(n, p, IF SetterOf(m, n, p) THEN Effect(m) ELSE X)'
      BY <1>1, <2>1, <3>1, EndPosted
    <3>3. CASE SetterOf(m, n, p)
      <4>1. Fits(n, p, Effect(m))'
        BY <1>4, <3>3 DEF SetterOf
      <4>2. End(n, p, Effect(m))'
        BY <3>2, <3>3
      <4> QED
        BY <4>1, <4>2 DEF Settled
    <3>4. CASE ~ SetterOf(m, n, p)
      <4>1. Fits(n, p, X)'
        BY <3>1, <3>4
      <4>2. End(n, p, X)'
        BY <3>2, <3>4
      <4> QED
        BY <4>1, <4>2 DEF Settled
    <3> QED
      BY <3>3, <3>4
  <2>4. ASSUME NEW r \in RemoteNode PROVE Greeted(r)'
    <3>1. Greeted(r)
      BY DEF RegInv
    <3>2. /\ Len(inbox) \in Nat /\ Len(inbox') = Len(inbox) + 1
          /\ \A i \in 1..Len(inbox) : inbox'[i] = inbox[i]
          /\ inbox'[Len(inbox) + 1] = m
      BY <1>1, <2>1
    <3>3. \A i \in 1..Len(inbox') : IsHello(inbox'[i], r) =>
            i \in 1..Len(inbox) /\ IsHello(inbox[i], r)
      <4>1. \A i \in 1..Len(inbox') : i \in 1..Len(inbox) \/ i = Len(inbox) + 1
        BY <3>2
      <4> QED
        BY <3>2, <4>1 DEF IsHello
    <3>4. link'[r] = "hello" => \E i \in 1..Len(inbox') : IsHello(inbox'[i], r)
      <4> SUFFICES ASSUME link'[r] = "hello"
                   PROVE  \E i \in 1..Len(inbox') : IsHello(inbox'[i], r)
        OBVIOUS
      <4>1. link[r] = "hello"
        OBVIOUS
      <4>2. PICK i \in 1..Len(inbox) : IsHello(inbox[i], r)
        BY <3>1, <4>1 DEF Greeted
      <4>3. i \in 1..Len(inbox') /\ inbox'[i] = inbox[i]
        BY <3>2
      <4> QED
        BY <4>2, <4>3
    <3>5. ASSUME "repeat" \notin Env, NEW i \in 1..Len(inbox'), IsHello(inbox'[i], r)
          PROVE  /\ link'[r] = "hello"
                 /\ \A j \in 1..Len(inbox') : IsHello(inbox'[j], r) => j = i
      <4>1. i \in 1..Len(inbox) /\ IsHello(inbox[i], r)
        BY <3>3, <3>5
      <4>2. /\ link[r] = "hello"
            /\ \A j \in 1..Len(inbox) : IsHello(inbox[j], r) => j = i
        BY <3>1, <3>5, <4>1 DEF Greeted
      <4> QED
        BY <3>3, <3>5, <4>2
    <3> QED
      BY <3>4, <3>5 DEF Greeted
  <2> QED
    BY <1>2, <2>2, <2>3, <2>4 DEF RegInv
<1> QED
  BY <1>3, <1>4

LEMMA PacketIs ==
  ASSUME NEW k, NEW n, NEW p, NEW b
  PROVE  /\ Packet(k, n, p, b).type = k /\ Packet(k, n, p, b).node = n
         /\ Packet(k, n, p, b).port = p /\ Packet(k, n, p, b).body = b
BY DEF Packet

\* A closed or a withdrawn server, deregistered at its port.
LEMMA GoneReg ==
  ASSUME RegInv, TypeInv', OffersOK', UNCHANGED <<services, link>>,
         NEW n \in Node, NEW p \in Port, NEW k \in {"del_client", "del_server"},
         Post(Packet(k, n, p, Nothing)),
         \A q \in Node, r \in Port :
           OfferAt(q, r)' = IF q = n /\ r = p THEN {} ELSE OfferAt(q, r)
  PROVE  RegInv'
<1> DEFINE m == Packet(k, n, p, Nothing)
<1>1. m \in PacketSet /\ m.type = k /\ m.node = n /\ m.port = p
  BY PacketsTyped, PacketIs
<1>2. Posted(m)
  BY DEF Post, Posted
<1> HIDE DEF m
<1>3. Welcome(inbox, RegMap, m) /\ Effect(m) = {}
  BY <1>1 DEF Welcome, Effect
<1>4. ASSUME NEW q \in Node, NEW r \in Port
      PROVE  IF SetterOf(m, q, r) /\ Link(q) # "down" THEN Fits(q, r, Effect(m))'
             ELSE \A X : Fits(q, r, X) => Fits(q, r, X)'
  <2>1. SetterOf(m, q, r) <=> q = n /\ r = p
    BY <1>1 DEF SetterOf
  <2>2. Link(q)' = Link(q)
    BY DEF Link
  <2>3. CASE q = n /\ r = p
    <3>1. OfferAt(q, r)' = {}
      BY <2>3
    <3>2. Fits(q, r, {})'
      BY <3>1 DEF Fits
    <3>3. Effect(m)' = {}
      BY <1>3 DEF Effect, ServerIn
    <3>4. Link(q) = "down" => \A X : Fits(q, r, X) => Fits(q, r, X)'
      BY <2>2 DEF Fits
    <3> QED
      BY <1>3, <2>1, <2>3, <3>2, <3>3, <3>4 DEF Fits
  <2>4. CASE ~ (q = n /\ r = p)
    <3>1. OfferAt(q, r)' = OfferAt(q, r)
      BY <2>4
    <3> QED
      BY <2>1, <2>2, <2>4, <3>1 DEF Fits
  <2> QED
    BY <2>3, <2>4
<1> QED
  BY <1>1, <1>2, <1>3, <1>4, PostedReg

\* A server is announced at its port.
LEMMA OfferReg ==
  ASSUME RegInv, TypeInv', OffersOK', UNCHANGED <<services, link>>,
         NEW s \in Server, Post(Announcement(s)),
         \/ OfferAt(s.node, s.port) = {}
         \/ "repeat" \in Env /\ OfferAt(s.node, s.port) = {s},
         "repeat" \in Env \/ Link(s.node) # "hello",
         OfferAt(s.node, s.port)' = {s},
         \A q \in Node, r \in Port :
           ~ (q = s.node /\ r = s.port) => OfferAt(q, r)' = OfferAt(q, r)
  PROVE  RegInv'
<1> DEFINE m == Announcement(s)
<1>1. /\ m \in PacketSet /\ m.type = "new_server" /\ m.node = s.node
      /\ m.port = s.port /\ Effect(m) = {s}
  BY AnnouncementIs
<1>2. Posted(m)
  BY DEF Post, Posted
<1> HIDE DEF m
<1>3. s.node \in Node /\ s.port \in Port
  BY ServerFields
<1>4. TypeInv
  BY DEF RegInv
<1>5. ASSUME Link(s.node) # "down" PROVE Welcome(inbox, RegMap, m)
  <2> DEFINE n == s.node
             p == s.port
  <2>1. Link(n) \in {"up", "down", "hello"}
    BY <1>3, <1>4 DEF Link, TypeInv, Node
  <2>2. PICK X : Fits(n, p, X) /\ End(n, p, X)
    BY <1>3 DEF RegInv, Settled
  <2>3. X = {} \/ ("repeat" \in Env /\ X = {s})
    BY <1>5, <2>1, <2>2 DEF Fits
  <2>4. EndOf(inbox, RegMap, n, p, X)
    BY <2>2 DEF End
  <2> QED
    BY <1>1, <2>3, <2>4 DEF Welcome
<1>6. ASSUME NEW q \in Node, NEW r \in Port
      PROVE  IF SetterOf(m, q, r) /\ Link(q) # "down" THEN Fits(q, r, Effect(m))'
             ELSE \A X : Fits(q, r, X) => Fits(q, r, X)'
  <2>1. SetterOf(m, q, r) <=> q = s.node /\ r = s.port
    BY <1>1 DEF SetterOf
  <2>2. Link(q)' = Link(q)
    BY DEF Link
  <2>3. CASE q = s.node /\ r = s.port
    <3>1. Link(q) # "down" => Fits(q, r, {s})'
      BY <2>2, <2>3 DEF Fits
    <3>2. Effect(m) = {s}
      BY <1>1
    <3>3. Link(q) = "down" => \A X : Fits(q, r, X) => Fits(q, r, X)'
      BY <2>2 DEF Fits
    <3>4. Link(q) # "down" => Fits(q, r, Effect(m))'
      <4>1. Effect(m)' = {s}
        BY <3>2 DEF Effect, ServerIn
      <4> QED
        BY <3>1, <4>1 DEF Fits
    <3> QED
      BY <2>1, <2>3, <3>3, <3>4
  <2>4. CASE ~ (q = s.node /\ r = s.port)
    <3>1. OfferAt(q, r)' = OfferAt(q, r)
      BY <2>4
    <3> QED
      BY <2>1, <2>2, <2>4, <3>1 DEF Fits
  <2> QED
    BY <2>3, <2>4
<1> QED
  BY <1>1, <1>2, <1>5, <1>6, PostedReg

LEMMA QuietReg ==
  ASSUME RegInv, TypeInv', UNCHANGED <<services, inbox, offers, link>>,
         open \subseteq open'
  PROVE  RegInv'
<1>1. MapsOK'
  BY RegMapSame DEF RegInv
<1>2. OffersOK'
  BY DEF RegInv, OffersOK
<1>3. Fresh'
  BY EndSame DEF RegInv
<1>4. ASSUME NEW n \in Node, NEW p \in Port PROVE Settled(n, p)'
  <2>1. PICK X : Fits(n, p, X) /\ End(n, p, X)
    BY DEF RegInv, Settled
  <2>2. End(n, p, X)'
    BY <2>1, EndSame
  <2>3. Fits(n, p, X)'
    BY <2>1 DEF Fits, Link, OfferAt
  <2> QED
    BY <2>2, <2>3 DEF Settled
<1>5. \A r \in RemoteNode : Greeted(r)'
  BY DEF RegInv, Greeted
<1> QED
  BY <1>1, <1>2, <1>3, <1>4, <1>5 DEF RegInv

\* A packet that is about no server.
LEMMA OtherReg ==
  ASSUME RegInv, TypeInv', UNCHANGED <<services, offers, link, open>>,
         NEW m \in PacketSet, Post(m), m.type \in {"new_lookup", "del_lookup"}
  PROVE  RegInv'
<1>1. Posted(m)
  BY DEF Post, Posted
<1>2. OffersOK'
  BY DEF RegInv, OffersOK
<1>3. Welcome(inbox, RegMap, m)
  BY DEF Welcome
<1>4. \A n \in Node, p \in Port : ~ SetterOf(m, n, p)
  BY DEF SetterOf
<1>5. \A n \in Node, p \in Port : \A X : Fits(n, p, X) => Fits(n, p, X)'
  BY DEF Fits, Link, OfferAt
<1> QED
  BY <1>1, <1>2, <1>3, <1>4, <1>5, PostedReg

LEMMA LinkUpReg ==
  ASSUME RegInv, TypeInv', NEW r \in RemoteNode, LinkUp(r)
  PROVE  RegInv'
<1> DEFINE m == Packet("hello", r, 0, Nothing)
<1>1. m.type = "hello" /\ m.node = r
  BY PacketIs
<1>2. /\ link[r] = "down" /\ link' = [link EXCEPT ![r] = "hello"]
      /\ inbox' = Append(inbox, m)
      /\ UNCHANGED <<services, open, offers>>
  BY DEF LinkUp, ns
<1> HIDE DEF m
<1>3. TypeInv /\ inbox \in Seq(PacketSet) /\ link \in [RemoteNode -> {"down", "hello", "up"}]
  BY DEF RegInv, TypeInv
<1>4. MapsOK' /\ OffersOK'
  BY <1>2, RegMapSame DEF RegInv, OffersOK
<1>5. Fresh'
  <2>1. Welcome(inbox, RegMap, m)
    BY <1>1 DEF Welcome
  <2> QED
    BY <1>2, <1>3, <2>1, EndPosted DEF RegInv
<1>6. ASSUME NEW n \in Node, NEW p \in Port PROVE Settled(n, p)'
  <2>1. PICK X : Fits(n, p, X) /\ End(n, p, X)
    BY DEF RegInv, Settled
  <2>2. ~ SetterOf(m, n, p)
    BY <1>1 DEF SetterOf
  <2>3. End(n, p, IF SetterOf(m, n, p) THEN Effect(m) ELSE X)'
    BY <1>2, <1>3, <2>1, EndPosted
  <2>4. End(n, p, X)'
    BY <2>2, <2>3
  <2>5. CASE n = r
    <3>1. n # LocalNode
      BY <2>5, NodeAssumption
    <3>2. Link(n) = "down" /\ Link(n)' = "hello"
      BY <1>2, <1>3, <2>5, <3>1 DEF Link
    <3>3. X = {}
      BY <2>1, <3>2 DEF Fits
    <3>4. Fits(n, p, X)'
      BY <3>2, <3>3 DEF Fits
    <3> QED
      BY <2>4, <3>4 DEF Settled
  <2>6. CASE n # r
    <3>1. Link(n)' = Link(n)
      BY <1>2, <1>3, <2>6 DEF Link, Node
    <3>2. OfferAt(n, p)' = OfferAt(n, p)
      BY <1>2 DEF OfferAt
    <3>3. Fits(n, p, X)'
      BY <2>1, <3>1, <3>2 DEF Fits
    <3> QED
      BY <2>4, <3>3 DEF Settled
  <2> QED
    BY <2>5, <2>6
<1>7. ASSUME NEW q \in RemoteNode PROVE Greeted(q)'
  <2>1. Greeted(q)
    BY DEF RegInv
  <2>2. /\ Len(inbox) \in Nat /\ Len(inbox') = Len(inbox) + 1
        /\ \A i \in 1..Len(inbox) : inbox'[i] = inbox[i]
        /\ inbox'[Len(inbox) + 1] = m
    BY <1>2, <1>3
  <2>3. \A i \in 1..Len(inbox') : i \in 1..Len(inbox) \/ i = Len(inbox) + 1
    BY <2>2
  <2>4. CASE q = r
    <3>1. link'[q] = "hello"
      BY <1>2, <1>3, <2>4
    <3>2. Len(inbox) + 1 \in 1..Len(inbox') /\ IsHello(inbox'[Len(inbox) + 1], q)
      BY <1>1, <2>2, <2>4 DEF IsHello
    <3>3. "repeat" \notin Env => \A i \in 1..Len(inbox) : ~ IsHello(inbox[i], q)
      BY <1>2, <2>1, <2>4 DEF Greeted
    <3>4. "repeat" \notin Env => \A i \in 1..Len(inbox) : ~ IsHello(inbox'[i], q)
      BY <2>2, <3>3
    <3>5. "repeat" \notin Env =>
            \A i \in 1..Len(inbox') : IsHello(inbox'[i], q) => i = Len(inbox) + 1
      BY <2>3, <3>4
    <3> QED
      BY <3>1, <3>2, <3>5 DEF Greeted
  <2>5. CASE q # r
    <3>1. link'[q] = link[q]
      BY <1>2, <1>3, <2>5
    <3>2. \A i \in 1..Len(inbox') : IsHello(inbox'[i], q) =>
            i \in 1..Len(inbox) /\ IsHello(inbox[i], q)
      BY <1>1, <2>2, <2>3, <2>5 DEF IsHello
    <3>3. ASSUME link'[q] = "hello" PROVE \E i \in 1..Len(inbox') : IsHello(inbox'[i], q)
      <4>1. PICK i \in 1..Len(inbox) : IsHello(inbox[i], q)
        BY <2>1, <3>1, <3>3 DEF Greeted
      <4>2. i \in 1..Len(inbox') /\ inbox'[i] = inbox[i]
        BY <2>2
      <4> QED
        BY <4>1, <4>2
    <3>4. ASSUME "repeat" \notin Env, NEW i \in 1..Len(inbox'), IsHello(inbox'[i], q)
          PROVE  /\ link'[q] = "hello"
                 /\ \A j \in 1..Len(inbox') : IsHello(inbox'[j], q) => j = i
      <4>1. i \in 1..Len(inbox) /\ IsHello(inbox[i], q)
        BY <3>2, <3>4
      <4>2. /\ link[q] = "hello"
            /\ \A j \in 1..Len(inbox) : IsHello(inbox[j], q) => j = i
        BY <2>1, <3>4, <4>1 DEF Greeted
      <4> QED
        BY <3>1, <3>2, <4>2
    <3> QED
      BY <3>3, <3>4 DEF Greeted
  <2> QED
    BY <2>4, <2>5
<1> QED
  BY <1>4, <1>5, <1>6, <1>7 DEF RegInv

LEMMA LinkDownReg ==
  ASSUME RegInv, TypeInv', NEW r \in RemoteNode, LinkDown(r)
  PROVE  RegInv'
<1> DEFINE m == Packet("bye", r, 0, Nothing)
<1>1. m.type = "bye" /\ m.node = r /\ m \in PacketSet
  BY PacketIs, PacketsTyped
<1>2. /\ link[r] # "down" /\ link' = [link EXCEPT ![r] = "down"]
      /\ "repeat" \in Env \/ link[r] = "up"
      /\ Post(m) /\ UNCHANGED <<services, open, offers>>
  BY DEF LinkDown, ns
<1>3. Posted(m)
  BY <1>2 DEF Post, Posted
<1> HIDE DEF m
<1>4. link \in [RemoteNode -> {"down", "hello", "up"}]
  BY DEF RegInv, TypeInv
<1>5. OffersOK'
  BY <1>2 DEF RegInv, OffersOK
<1>6. Welcome(inbox, RegMap, m) /\ Effect(m) = {} /\ Effect(m)' = {}
  BY <1>1 DEF Welcome, Effect
<1>7. ASSUME NEW n \in Node, NEW p \in Port
      PROVE  IF SetterOf(m, n, p) /\ Link(n) # "down" THEN Fits(n, p, Effect(m))'
             ELSE \A X : Fits(n, p, X) => Fits(n, p, X)'
  <2>1. SetterOf(m, n, p) <=> n = r
    BY <1>1 DEF SetterOf
  <2>2. CASE n = r
    <3>1. Link(n) # "down" /\ Link(n)' = "down"
      BY <1>2, <1>4, <2>2, NodeAssumption DEF Link
    <3>2. Fits(n, p, Effect(m))'
      BY <1>6, <3>1 DEF Fits
    <3> QED
      BY <2>1, <2>2, <3>1, <3>2
  <2>3. CASE n # r
    <3>1. Link(n)' = Link(n)
      BY <1>2, <1>4, <2>3 DEF Link, Node
    <3>2. OfferAt(n, p)' = OfferAt(n, p)
      BY <1>2 DEF OfferAt
    <3> QED
      BY <2>1, <2>3, <3>1, <3>2 DEF Fits
  <2> QED
    BY <2>2, <2>3
<1>8. \A q \in RemoteNode :
           \/ link'[q] = link[q]
           \/ link'[q] = "down" /\ ("repeat" \in Env \/ link[q] # "hello")
  BY <1>2, <1>4
<1> QED
  BY <1>1, <1>2, <1>3, <1>5, <1>6, <1>7, <1>8, PostedReg

LEMMA RegSocketStep ==
  ASSUME RegInv, SocketStep
  PROVE  RegInv'
<1>1. TypeInv /\ OffersOK
  BY DEF RegInv
<1>2. TypeInv' /\ UNCHANGED services
  BY <1>1, TypeSocketStep DEF ns
<1>3. ASSUME NEW n \in Node, NEW p \in Port, OpenSocket(n, p) PROVE RegInv'
  BY <1>2, <1>3, QuietReg DEF OpenSocket
<1>4. ASSUME NEW n \in Node, NEW p \in Port, CloseSocket(n, p) PROVE RegInv'
  <2>1. /\ open' = open \ {<<n, p>>} /\ UNCHANGED link
        /\ offers' = {s \in offers : <<s.node, s.port>> # <<n, p>>}
        /\ Post(Packet("del_client", n, p, Nothing))
    BY <1>4 DEF CloseSocket
  <2>2. OffersOK'
    <3>1. offers' \subseteq offers
      BY <2>1
    <3>2. IsFiniteSet(offers')
      BY <1>1, <3>1, FS_Subset DEF OffersOK
    <3>3. \A s \in offers' : <<s.node, s.port>> \in open'
      BY <1>1, <2>1 DEF OffersOK
    <3> QED
      BY <1>1, <3>1, <3>2, <3>3 DEF OffersOK
  <2>3. \A q \in Node, r \in Port :
           OfferAt(q, r)' = IF q = n /\ r = p THEN {} ELSE OfferAt(q, r)
    BY <2>1 DEF OfferAt
  <2> QED
    BY <1>2, <2>1, <2>2, <2>3, GoneReg
<1>5. ASSUME NEW s \in Server, Offer(s) PROVE RegInv'
  <2>1. /\ UNCHANGED <<open, link>> /\ <<s.node, s.port>> \in open
        /\ \A o \in offers : ~ SameSocket(o, s)
        /\ "repeat" \in Env \/ Link(s.node) # "hello"
        /\ offers' = offers \cup {s}
        /\ Post(Announcement(s))
    BY <1>5 DEF Offer
  <2>2. OffersOK'
    <3>1. IsFiniteSet(offers')
      BY <1>1, <2>1, FS_AddElement DEF OffersOK
    <3>2. \A t, u \in offers' : SameSocket(t, u) => t = u
      BY <1>1, <2>1 DEF OffersOK, SameSocket
    <3> QED
      BY <1>1, <2>1, <3>1, <3>2 DEF OffersOK
  <2>3. OfferAt(s.node, s.port) = {} /\ OfferAt(s.node, s.port)' = {s}
    BY <2>1 DEF OfferAt, SameSocket
  <2>4. \A q \in Node, r \in Port :
           ~ (q = s.node /\ r = s.port) => OfferAt(q, r)' = OfferAt(q, r)
    BY <2>1 DEF OfferAt
  <2> QED
    BY <1>2, <2>1, <2>2, <2>3, <2>4, OfferReg
<1>6. ASSUME NEW s \in Server, OfferAgain(s) PROVE RegInv'
  <2>1. /\ UNCHANGED <<open, offers, link>> /\ "repeat" \in Env /\ s \in offers
        /\ Post(Announcement(s))
    BY <1>6 DEF OfferAgain, world
  <2>2. OffersOK'
    BY <1>1, <2>1 DEF OffersOK
  <2>3. OfferAt(s.node, s.port) = {s}
    BY <1>1, <2>1 DEF OfferAt, OffersOK, SameSocket
  <2>4. \A q \in Node, r \in Port : OfferAt(q, r)' = OfferAt(q, r)
    BY <2>1 DEF OfferAt
  <2>5. OfferAt(s.node, s.port)' = {s}
    BY <2>1, <2>3 DEF OfferAt
  <2> QED
    BY <1>2, <2>1, <2>2, <2>3, <2>4, <2>5, OfferReg
<1>7. ASSUME NEW s \in Server, Withdraw(s) PROVE RegInv'
  <2>1. /\ UNCHANGED <<open, link>> /\ s \in offers
        /\ offers' = offers \ {s}
        /\ Post(Packet("del_server", s.node, s.port, Nothing))
    BY <1>7 DEF Withdraw
  <2>2. OffersOK'
    <3>1. offers' \subseteq offers
      BY <2>1
    <3>2. IsFiniteSet(offers')
      BY <1>1, <3>1, FS_Subset DEF OffersOK
    <3> QED
      BY <1>1, <2>1, <3>1, <3>2 DEF OffersOK
  <2>3. \A q \in Node, r \in Port :
           OfferAt(q, r)' = IF q = s.node /\ r = s.port THEN {} ELSE OfferAt(q, r)
    BY <1>1, <2>1 DEF OfferAt, OffersOK, SameSocket
  <2>4. s.node \in Node /\ s.port \in Port
    BY ServerFields
  <2> QED
    BY <1>2, <2>1, <2>2, <2>3, <2>4, GoneReg
<1>8. ASSUME NEW p \in Port, NEW f \in Filter, Observe(p, f) PROVE RegInv'
  <2>1. /\ UNCHANGED <<open, offers, link>>
        /\ Post(Packet("new_lookup", LocalNode, p, f))
    BY <1>8 DEF Observe, world
  <2> QED
    BY <1>2, <2>1, PacketsTyped, PacketIs, OtherReg
<1>9. ASSUME NEW p \in Port, NEW f \in Filter, StopObserving(p, f) PROVE RegInv'
  <2>1. /\ UNCHANGED <<open, offers, link>>
        /\ Post(Packet("del_lookup", LocalNode, p, f))
    BY <1>9 DEF StopObserving, world
  <2> QED
    BY <1>2, <2>1, PacketsTyped, PacketIs, OtherReg
<1>10. ASSUME NEW r \in RemoteNode, LinkUp(r) PROVE RegInv'
  BY <1>2, <1>10, LinkUpReg
<1>11. ASSUME NEW r \in RemoteNode, LinkDown(r) PROVE RegInv'
  BY <1>2, <1>11, LinkDownReg
<1>12. ASSUME NEW n \in Node, NEW p \in Port, NEW s \in offers, Talk(n, p, s)
       PROVE  RegInv'
  BY <1>2, <1>12, QuietReg DEF Talk, world
<1> QED
  BY <1>3, <1>4, <1>5, <1>6, <1>7, <1>8, <1>9, <1>10, <1>11, <1>12 DEF SocketStep

LEMMA EndHandled ==
  ASSUME TypeInv, inbox # <<>>, RegMap' = After(RegMap, inbox[1]),
         inbox' = Tail(inbox)
  PROVE  /\ \A n \in Node, p \in Port : \A X : End(n, p, X) => End(n, p, X)'
         /\ Fresh => Fresh'
<1>1. inbox \in Seq(PacketSet)
  BY DEF TypeInv
<1>2. ASSUME NEW n \in Node, NEW p \in Port, NEW X, End(n, p, X)
      PROVE  End(n, p, X)'
  <2>1. EndOf(inbox, RegMap, n, p, X)
    BY <1>2 DEF End
  <2>2. EndOf(inbox', RegMap', n, p, X)
    BY <1>1, <2>1, TailEnd
  <2> QED
    BY <2>2 DEF End
<1>3. ASSUME Fresh PROVE Fresh'
  <2>1. FreshAll(inbox', RegMap')
    BY <1>1, <1>3, TailFresh DEF Fresh
  <2> QED
    BY <2>1 DEF Fresh
<1> QED
  BY <1>2, <1>3

\* The first packet is read and nothing is put in its place.
LEMMA ReadReg ==
  ASSUME RegInv, TypeInv', MapsOK', inbox # <<>>, RegMap' = After(RegMap, inbox[1]),
         Read, UNCHANGED <<open, offers, link>>,
         inbox[1].type = "hello" => link[inbox[1].node] = "down"
  PROVE  RegInv'
<1>1. TypeInv
  BY DEF RegInv
<1>2. inbox' = Tail(inbox)
  BY DEF Read
<1>3. OffersOK'
  BY DEF RegInv, OffersOK
<1>4. Fresh'
  BY <1>1, <1>2, EndHandled DEF RegInv
<1>5. ASSUME NEW n \in Node, NEW p \in Port PROVE Settled(n, p)'
  <2>1. PICK X : Fits(n, p, X) /\ End(n, p, X)
    BY DEF RegInv, Settled
  <2>2. End(n, p, X)'
    BY <1>1, <1>2, <2>1, EndHandled
  <2>3. Fits(n, p, X)'
    BY <2>1 DEF Fits, Link, OfferAt
  <2> QED
    BY <2>2, <2>3 DEF Settled
<1>6. ASSUME NEW r \in RemoteNode PROVE Greeted(r)'
  <2>1. Greeted(r)
    BY DEF RegInv
  <2>2. /\ Len(inbox) \in Nat /\ Len(inbox') = Len(inbox) - 1
        /\ \A i \in 1..Len(inbox') : inbox'[i] = inbox[i + 1] /\ i + 1 \in 1..Len(inbox)
                                     /\ i \in Nat
    BY <1>1, <1>2, HeadIs
  <2>3. ASSUME link'[r] = "hello" PROVE \E i \in 1..Len(inbox') : IsHello(inbox'[i], r)
    <3>1. PICK i \in 1..Len(inbox) : IsHello(inbox[i], r)
      BY <2>1, <2>3 DEF Greeted
    <3>2. i # 1
      BY <2>3, <3>1 DEF IsHello
    <3>3. i - 1 \in 1..Len(inbox') /\ i - 1 + 1 = i
      BY <2>2, <3>2
    <3> QED
      BY <2>2, <3>1, <3>3
  <2>4. ASSUME "repeat" \notin Env, NEW i \in 1..Len(inbox'), IsHello(inbox'[i], r)
        PROVE  /\ link'[r] = "hello"
               /\ \A j \in 1..Len(inbox') : IsHello(inbox'[j], r) => j = i
    <3>1. i + 1 \in 1..Len(inbox) /\ IsHello(inbox[i + 1], r)
      BY <2>2, <2>4
    <3>2. /\ link[r] = "hello"
          /\ \A j \in 1..Len(inbox) : IsHello(inbox[j], r) => j = i + 1
      BY <2>1, <2>4, <3>1 DEF Greeted
    <3>3. ASSUME NEW j \in 1..Len(inbox'), IsHello(inbox'[j], r) PROVE j = i
      <4>1. j + 1 = i + 1
        BY <2>2, <3>2, <3>3
      <4> QED
        BY <4>1
    <3> QED
      BY <3>2, <3>3
  <2> QED
    BY <2>3, <2>4 DEF Greeted
<1> QED
  BY <1>3, <1>4, <1>5, <1>6 DEF RegInv

\* A HELLO is read and its sender announces its servers.
LEMMA HelloReg ==
  ASSUME RegInv, TypeInv', MapsOK', inbox # <<>>, RegMap' = After(RegMap, inbox[1]),
         UNCHANGED <<open, offers>>, NEW r \in RemoteNode, IsHello(inbox[1], r),
         link[r] # "down", link' = [link EXCEPT ![r] = "up"],
         inbox' = Tail(inbox) \o Answered(r)
  PROVE  RegInv'
<1> DEFINE O == {s \in offers : s.node = r}
           A == Answered(r)
           t == Tail(inbox)
           g == After(RegMap, inbox[1])
<1>1. TypeInv /\ OffersOK /\ inbox \in Seq(PacketSet) /\ t \in Seq(PacketSet)
  BY HeadIs DEF RegInv, TypeInv
<1>2. Answers(A, r, O)
  BY <1>1, AnsweredIs DEF OffersOK, TypeInv
<1>3. /\ link \in [RemoteNode -> {"down", "hello", "up"}]
      /\ link'[r] = "up" /\ \A q \in RemoteNode : q # r => link'[q] = link[q]
      /\ r # LocalNode
  BY <1>1, NodeAssumption DEF TypeInv
<1>4. /\ Len(inbox) \in Nat /\ Len(t) = Len(inbox) - 1
      /\ \A i \in 1..Len(t) : t[i] = inbox[i + 1] /\ i + 1 \in 1..Len(inbox)
  BY <1>1, HeadIs
<1>5. inbox' = t \o A /\ RegMap' = g
  OBVIOUS
<1>6. \A n \in Node, p \in Port : \A X : End(n, p, X) => EndOf(t, g, n, p, X)
  BY <1>1, TailEnd DEF End
<1> HIDE DEF A, t, g
<1>7. ASSUME NEW p \in Port
      PROVE  /\ OfferAt(r, p) = {} => EndOf(t, g, r, p, {})
             /\ EndOf(t, g, r, p, {})
                \/ ("repeat" \in Env /\ EndOf(t, g, r, p, OfferAt(r, p)))
  <2>1. r \in Node
    BY DEF Node
  <2>2. PICK X : Fits(r, p, X) /\ End(r, p, X)
    BY <2>1 DEF RegInv, Settled
  <2>3. Link(r) = "hello" \/ (Link(r) = "up" /\ "repeat" \in Env)
    <3>1. "repeat" \notin Env => link[r] = "hello"
      BY <1>1, HeadIs DEF RegInv, Greeted
    <3>2. Link(r) = link[r] /\ link[r] \in {"up", "hello"}
      BY <1>3 DEF Link
    <3> QED
      BY <3>1, <3>2
  <2>4. X = {} \/ ("repeat" \in Env /\ X = OfferAt(r, p))
    BY <2>2, <2>3 DEF Fits
  <2>5. EndOf(t, g, r, p, X)
    BY <1>6, <2>1, <2>2
  <2> QED
    BY <2>4, <2>5
<1>8. ASSUME NEW s \in O
      PROVE  s.port \in Port /\ OfferAt(r, s.port) = {s} /\ s \in Server
  BY <1>1, ServerFields DEF OfferAt, OffersOK, TypeInv, SameSocket
<1> HIDE DEF O
<1>9. Fresh'
  <2>1. FreshAll(t, g)
    BY <1>1, TailFresh DEF RegInv, Fresh, t, g
  <2>2. \A s \in O : \/ EndOf(t, g, r, s.port, {})
                     \/ "repeat" \in Env /\ EndOf(t, g, r, s.port, {s})
    BY <1>7, <1>8
  <2>3. FreshAll(t \o A, g)
    BY <1>1, <1>2, <2>1, <2>2, AnswersFresh
  <2> QED
    BY <1>5, <2>3 DEF Fresh
<1>10. ASSUME NEW n \in Node, NEW p \in Port PROVE Settled(n, p)'
  <2>1. OfferAt(n, p)' = OfferAt(n, p)
    BY DEF OfferAt
  <2>2. CASE n # r
    <3>1. PICK X : Fits(n, p, X) /\ End(n, p, X)
      BY DEF RegInv, Settled
    <3>2. EndOf(t \o A, g, n, p, X)
      BY <1>1, <1>2, <1>6, <2>2, <3>1, AnswersLeave
    <3>3. Link(n)' = Link(n)
      BY <1>3, <2>2 DEF Link, Node
    <3>4. Fits(n, p, X)'
      BY <2>1, <3>1, <3>3 DEF Fits
    <3>5. End(n, p, X)'
      BY <1>5, <3>2 DEF End
    <3> QED
      BY <3>4, <3>5 DEF Settled
  <2>3. CASE n = r /\ OfferAt(n, p) = {}
    <3>1. \A s \in O : ~ (n = r /\ s.port = p)
      BY <2>3 DEF O, OfferAt
    <3>2. EndOf(t, g, r, p, {})
      BY <1>7, <2>3
    <3>3. EndOf(t \o A, g, n, p, {})
      BY <1>1, <1>2, <2>3, <3>1, <3>2, AnswersLeave
    <3>4. End(n, p, {})'
      BY <1>5, <3>3 DEF End
    <3>5. Fits(n, p, {})'
      BY <2>1, <2>3 DEF Fits
    <3> QED
      BY <3>4, <3>5 DEF Settled
  <2>4. CASE n = r /\ OfferAt(n, p) # {}
    <3>1. PICK s \in O : s.port = p
      BY <2>4 DEF OfferAt, O
    <3>2. EndOf(t \o A, g, r, s.port, {s})
      BY <1>1, <1>2, AnswersEnd
    <3>3. End(n, p, {s})'
      BY <1>5, <2>4, <3>1, <3>2 DEF End
    <3>4. OfferAt(n, p)' = {s}
      BY <1>8, <2>1, <2>4, <3>1
    <3>5. Link(n)' = "up"
      BY <1>3, <2>4 DEF Link
    <3>6. Fits(n, p, {s})'
      BY <3>4, <3>5 DEF Fits
    <3> QED
      BY <3>3, <3>6 DEF Settled
  <2> QED
    BY <2>2, <2>3, <2>4
<1>11. ASSUME NEW q \in RemoteNode PROVE Greeted(q)'
  <2>1. Greeted(q)
    BY DEF RegInv
  <2>2. /\ Len(A) \in Nat /\ Len(inbox') = Len(t) + Len(A) /\ Len(t) \in Nat
        /\ \A i \in 1..Len(t) : inbox'[i] = t[i]
        /\ \A j \in 1..Len(A) : inbox'[Len(t) + j] = A[j]
    <3>1. /\ Len(A) \in Nat /\ Len(t \o A) = Len(t) + Len(A) /\ Len(t) \in Nat
          /\ \A i \in 1..Len(t) : (t \o A)[i] = t[i]
          /\ \A j \in 1..Len(A) : (t \o A)[Len(t) + j] = A[j]
      BY <1>1, <1>2, AnswersShape
    <3> QED
      BY <1>5, <3>1
  <2>3. \A i \in 1..Len(inbox') :
          IsHello(inbox'[i], q) => /\ i \in 1..Len(t) /\ i + 1 \in 1..Len(inbox)
                                   /\ IsHello(inbox[i + 1], q)
    <3> SUFFICES ASSUME NEW i \in 1..Len(inbox'), IsHello(inbox'[i], q)
                 PROVE  /\ i \in 1..Len(t) /\ i + 1 \in 1..Len(inbox)
                        /\ IsHello(inbox[i + 1], q)
      OBVIOUS
    <3>1. CASE i \in 1..Len(t)
      BY <1>4, <2>2, <3>1
    <3>2. CASE i \notin 1..Len(t)
      <4> DEFINE j == i - Len(t)
      <4>1. j \in 1..Len(A) /\ Len(t) + j = i
        BY <2>2, <3>2
      <4>2. inbox'[i] = A[j]
        BY <2>2, <4>1
      <4>3. A[j].type = "new_server"
        BY <1>2, <4>1 DEF Answers
      <4> QED
        BY <4>2, <4>3 DEF IsHello
    <3> QED
      BY <3>1, <3>2
  <2>4. ASSUME link'[q] = "hello" PROVE \E i \in 1..Len(inbox') : IsHello(inbox'[i], q)
    <3>1. q # r /\ link[q] = "hello"
      BY <1>3, <2>4
    <3>2. PICK i \in 1..Len(inbox) : IsHello(inbox[i], q)
      BY <2>1, <3>1 DEF Greeted
    <3>3. i # 1
      BY <3>1, <3>2 DEF IsHello
    <3>4. i - 1 \in 1..Len(t) /\ i - 1 + 1 = i
      BY <1>4, <3>3
    <3>5. t[i - 1] = inbox[i] /\ inbox'[i - 1] = t[i - 1] /\ i - 1 \in 1..Len(inbox')
      BY <1>4, <2>2, <3>4
    <3> QED
      BY <3>2, <3>5
  <2>5. ASSUME "repeat" \notin Env, NEW i \in 1..Len(inbox'), IsHello(inbox'[i], q)
        PROVE  /\ link'[q] = "hello"
               /\ \A j \in 1..Len(inbox') : IsHello(inbox'[j], q) => j = i
    <3>1. /\ i \in 1..Len(t) /\ i + 1 \in 1..Len(inbox)
          /\ IsHello(inbox[i + 1], q)
      BY <2>3, <2>5
    <3>2. /\ link[q] = "hello"
          /\ \A j \in 1..Len(inbox) : IsHello(inbox[j], q) => j = i + 1
      BY <2>1, <2>5, <3>1 DEF Greeted
    <3>3. q # r
      <4>1. q = r => 1 = i + 1
        BY <1>1, <3>2, HeadIs
      <4> QED
        BY <3>1, <4>1
    <3>4. ASSUME NEW j \in 1..Len(inbox'), IsHello(inbox'[j], q) PROVE j = i
      <4>1. j + 1 = i + 1
        BY <2>3, <3>2, <3>4
      <4> QED
        BY <4>1
    <3> QED
      BY <1>3, <3>2, <3>3, <3>4
  <2> QED
    BY <2>4, <2>5 DEF Greeted
<1>12. OffersOK'
  BY <1>1 DEF OffersOK
<1> QED
  BY <1>9, <1>10, <1>11, <1>12 DEF RegInv

LEMMA RegNsStep ==
  ASSUME Tame, RegInv, NsStep
  PROVE  RegInv'
<1>1. TypeInv /\ MapsOK /\ OffersOK /\ Fresh
  BY DEF RegInv
<1>2. /\ inbox # <<>> /\ MapsOK' /\ RegMap' = After(RegMap, inbox[1])
      /\ UNCHANGED <<open, offers>>
  BY <1>1, HeadEffect
<1>3. TypeInv'
  BY <1>1, TypeNsStep
<1>4. Head(inbox) = inbox[1] /\ inbox[1] \in PacketSet
  BY <1>1, <1>2, HeadIs
<1>5. CASE CtrlCmdHello
  <2> DEFINE r == inbox[1].node
  <2>1. /\ inbox[1].type = "hello" /\ From = r
        /\ IF link[r] = "down" THEN Read /\ UNCHANGED <<link, known>>
           ELSE /\ link' = [link EXCEPT ![r] = "up"]
                /\ inbox' = Tail(inbox) \o Answered(r)
    BY <1>4, <1>5 DEF CtrlCmdHello, Handle, From
  <2>2. r \in RemoteNode /\ IsHello(inbox[1], r)
    BY <1>4, <2>1 DEF PacketSet, IsHello
  <2> HIDE DEF r
  <2>3. CASE link[r] = "down"
    BY <1>2, <1>3, <2>1, <2>3, ReadReg DEF r
  <2>4. CASE link[r] # "down"
    <3>1. link' = [link EXCEPT ![r] = "up"] /\ inbox' = Tail(inbox) \o Answered(r)
      BY <2>1, <2>4
    <3> QED
      BY <1>2, <1>3, <2>2, <2>4, <3>1, HelloReg
  <2> QED
    BY <2>3, <2>4
<1>6. CASE Read /\ UNCHANGED link /\ inbox[1].type # "hello"
  BY <1>2, <1>3, <1>6, ReadReg
<1>7. CASE CtrlCmdBye
  BY <1>4, <1>6, <1>7 DEF CtrlCmdBye, Handle, world
<1>8. CASE CtrlCmdDelClient
  BY <1>4, <1>6, <1>8 DEF CtrlCmdDelClient, Handle, world
<1>9. CASE CtrlCmdNewServer
  BY <1>4, <1>6, <1>9 DEF CtrlCmdNewServer, Handle, world
<1>10. CASE CtrlCmdDelServer
  BY <1>4, <1>6, <1>10 DEF CtrlCmdDelServer, Handle, world
<1>11. CASE CtrlCmdNewLookup
  BY <1>4, <1>6, <1>11 DEF CtrlCmdNewLookup, Handle, world
<1>12. CASE CtrlCmdDelLookup
  BY <1>4, <1>6, <1>12 DEF CtrlCmdDelLookup, Handle, world
<1> QED
  BY <1>5, <1>7, <1>8, <1>9, <1>10, <1>11, <1>12 DEF NsStep

LEMMA RegInit == Init => RegInv
<1> SUFFICES ASSUME Init PROVE RegInv
  OBVIOUS
<1>1. TypeInv
  BY DEF Init, TypeInv
<1>2. \A n \in Node : services[n] = EmptyMap
  BY DEF Init
<1>3. MapsOK
  <2>1. ASSUME NEW n \in Node PROVE MapOver(services[n], ItemsAt(n))
    BY <1>2, EmptyMapIs
  <2>2. services \in [Node -> {services[n] : n \in Node}]
    <3>1. services = [n \in Node |-> services[n]]
      BY DEF Init
    <3> QED
      BY <3>1
  <2> QED
    BY <2>1, <2>2 DEF MapsOK
<1>4. OffersOK
  BY FS_EmptySet DEF Init, OffersOK
<1>5. inbox = <<>> /\ offers = {}
  BY DEF Init
<1>6. ASSUME NEW n \in Node, NEW p \in Port PROVE Settled(n, p)
  <2>1. Items(services[n]) = {}
    <3>1. Items(EmptyMap) = {}
      BY EmptyMapIs
    <3> QED
      BY <1>2, <3>1
  <2>2. RegAt(n, p) = {}
    BY <2>1 DEF RegAt, Registered
  <2>3. RegMap[n][p] = {}
    BY <2>2, RegMapIs
  <2>4. End(n, p, {})
    BY <1>5, <2>3 DEF End, EndOf, EndsAt
  <2>5. Fits(n, p, {})
    BY <1>5 DEF Fits, OfferAt
  <2> QED
    BY <2>4, <2>5 DEF Settled
<1>7. Fresh
  BY <1>5 DEF Fresh, FreshAll
<1>8. \A r \in RemoteNode : Greeted(r)
  BY <1>5 DEF Init, Greeted
<1> QED
  BY <1>1, <1>3, <1>4, <1>6, <1>7, <1>8 DEF RegInv

LEMMA RegStutter == RegInv /\ UNCHANGED vars => RegInv'
<1> SUFFICES ASSUME RegInv, UNCHANGED vars PROVE RegInv'
  OBVIOUS
<1>1. UNCHANGED <<services, lookups, inbox, open, offers, link, view, known, clients>>
  BY DEF vars, ns, world, others
<1>2. TypeInv'
  BY <1>1 DEF RegInv, TypeInv
<1> QED
  BY <1>1, <1>2, QuietReg

\* The invariant holds throughout every behaviour.
LEMMA RegAlways == ASSUME Tame PROVE Spec => []RegInv
<1>1. Init => RegInv
  BY RegInit
<1>2. RegInv /\ [Next]_vars => RegInv'
  BY RegNsStep, RegSocketStep, RegStutter DEF Next
<1> QED
  BY <1>1, <1>2, PTL DEF Spec

------------------------------------------------------------------------------
(* What follows from it.                                                   *)

LEMMA ServersOver ==
  ASSUME NEW n, NEW m, MapOver(m, ItemsAt(n))
  PROVE  \A s \in {x.server : x \in Items(m)} : s \in Server /\ s.node = n
BY ItemsAtIn, ItemsTyped

\* The registry after a step, port by port.
LEMMA RegistryNext ==
  ASSUME MapsOK'
  PROVE  /\ Registry' \subseteq Server
         /\ \A n \in Node : \A s \in Registered(n)' : s \in Server /\ s.node = n
         /\ \A s \in Registry' : s \in RegAt(s.node, s.port)'
<1>1. \A n \in Node : Registered(n)' = {x.server : x \in Items(services'[n])}
  BY DEF Registered
<1>2. \A n \in Node : MapOver(services'[n], ItemsAt(n))
  BY DEF MapsOK
<1>3. \A n \in Node : \A s \in Registered(n)' : s \in Server /\ s.node = n
  BY <1>1, <1>2, ServersOver
<1>4. Registry' = UNION {Registered(n)' : n \in Node}
  BY DEF Registry
<1>5. \A s \in Registry' : \E n \in Node : s \in Registered(n)'
  BY <1>4
<1>6. ASSUME NEW s \in Registry' PROVE s \in RegAt(s.node, s.port)' /\ s \in Server
  <2>1. PICK n \in Node : s \in Registered(n)'
    BY <1>5
  <2>2. s \in Server /\ s.node = n
    BY <1>3, <2>1
  <2> QED
    BY <2>1, <2>2 DEF RegAt
<1> QED
  BY <1>3, <1>6

LEMMA ExactHolds == RegInv => RegistryExact
<1> SUFFICES ASSUME RegInv, inbox = <<>>
             PROVE  Registry = {s \in offers : Link(s.node) = "up"}
  BY DEF RegistryExact
<1>1. TypeInv /\ MapsOK
  BY DEF RegInv
<1>2. ASSUME NEW n \in Node, NEW p \in Port
      PROVE  RegAt(n, p) = IF Link(n) = "up" THEN OfferAt(n, p) ELSE {}
  <2>1. PICK X : Fits(n, p, X) /\ End(n, p, X)
    BY DEF RegInv, Settled
  <2>2. RegAt(n, p) = X
    <3>1. RegMap[n][p] = X
      BY <2>1 DEF End, EndOf, EndsAt
    <3> QED
      BY <3>1, RegMapIs
  <2>3. Link(n) # "hello"
    <3>1. CASE n = LocalNode
      BY <3>1 DEF Link
    <3>2. CASE n \in RemoteNode
      <4>1. link[n] # "hello"
        BY <3>2 DEF RegInv, Greeted
      <4> QED
        BY <3>2, <4>1, NodeAssumption DEF Link
    <3> QED
      BY <3>1, <3>2 DEF Node
  <2>4. Link(n) \in {"up", "down", "hello"}
    BY <1>1 DEF TypeInv, Link, Node
  <2> QED
    BY <2>1, <2>2, <2>3, <2>4 DEF Fits
<1>3. ASSUME NEW s \in Server
      PROVE  /\ s \in Registry <=> s \in RegAt(s.node, s.port)
             /\ s \in OfferAt(s.node, s.port) <=> s \in offers
  BY <1>1, RegistryIs, ServerFields DEF RegAt, OfferAt
<1>4. ASSUME NEW s \in Server
      PROVE  s \in Registry <=> s \in offers /\ Link(s.node) = "up"
  <2>1. s.node \in Node /\ s.port \in Port
    BY ServerFields
  <2> QED
    BY <1>2, <1>3, <2>1
<1>5. Registry \subseteq Server /\ offers \subseteq Server
  BY <1>1, RegistryIs DEF TypeInv
<1> QED
  BY <1>4, <1>5

\* When ctrl_port_fn has handled all packets, the registry holds exactly the
\* servers of open sockets on this node and on nodes whose link is up: no
\* order of registrations, closed sockets, HELLO and BYE packets leaves a
\* server behind or loses one.
THEOREM RegistryIsExact == ASSUME Tame PROVE Spec => []RegistryExact
<1>1. RegInv => RegistryExact
  BY ExactHolds
<1> QED
  BY <1>1, RegAlways, PTL

LEMMA TypeHolds == RegInv => TypeOK
<1> SUFFICES ASSUME RegInv PROVE TypeOK
  OBVIOUS
<1>1. TypeInv /\ MapsOK
  BY DEF RegInv
<1>2. \A n \in Node : Items(services[n]) \subseteq Item
  <2> SUFFICES ASSUME NEW n \in Node PROVE Items(services[n]) \subseteq Item
    OBVIOUS
  <2>1. MapOver(services[n], ItemsAt(n))
    BY <1>1 DEF MapsOK
  <2>2. Items(services[n]) \subseteq ItemsAt(n)
    BY <2>1, ItemsAtIn, ItemsTyped
  <2> QED
    BY <2>2, ItemsAtIn
<1>3. \A m \in ToSet(inbox) : m.node \in Node /\ m.port \in Port \cup {0}
  <2>1. ToSet(inbox) \subseteq PacketSet
    BY <1>1 DEF TypeInv, ToSet
  <2> QED
    BY <2>1 DEF PacketSet
<1> QED
  BY <1>1, <1>2, <1>3 DEF TypeInv, TypeOK

\* Maps hold servers under their ports, lookups come from real sockets, and
\* packets, views and clients are what the handlers of ns.c take them for.
THEOREM TypeCorrect == ASSUME Tame PROVE Spec => []TypeOK
<1>1. RegInv => TypeOK
  BY TypeHolds
<1> QED
  BY <1>1, RegAlways, PTL

\* Only the name service takes packets from its queue.
LEMMA SocketsQueue ==
  ASSUME TypeInv, SocketStep \/ UNCHANGED vars
  PROVE  inbox' = inbox \/ \E m : inbox' = Append(inbox, m)
BY DEF SocketStep, OpenSocket, CloseSocket, Offer, OfferAgain, Withdraw, Observe,
       StopObserving, LinkUp, LinkDown, Talk, Post, vars

\* The handler of a closed or deregistered port leaves no server there.
LEMMA RemovedStep ==
  ASSUME Tame, RegInv, [Next]_vars, inbox # <<>>,
         Head(inbox).type \in {"del_client", "del_server"}, inbox' = Tail(inbox)
  PROVE  \A s \in Registry' : ~ (s.node = From /\ s.port = FromPort)
<1>1. TypeInv /\ MapsOK /\ Fresh
  BY DEF RegInv
<1>2. Head(inbox) = inbox[1] /\ inbox[1] \in PacketSet
      /\ Len(inbox) \in Nat /\ Len(Tail(inbox)) = Len(inbox) - 1
  BY <1>1, HeadIs
<1>3. NsStep
  <2>1. ASSUME SocketStep \/ UNCHANGED vars PROVE FALSE
    <3>1. inbox' = inbox \/ \E m : inbox' = Append(inbox, m)
      BY <1>1, <2>1, SocketsQueue
    <3>2. inbox \in Seq(PacketSet) /\ Len(inbox) \in Nat
      BY <1>1 DEF TypeInv
    <3>3. ASSUME NEW m, inbox' = Append(inbox, m) PROVE FALSE
      <4>1. Len(inbox') = Len(inbox) + 1
        BY <3>2, <3>3
      <4>2. Len(inbox') = Len(inbox) - 1
        BY <1>2
      <4> QED
        BY <3>2, <4>1, <4>2
    <3>4. inbox' # inbox
      <4>1. inbox' = inbox => Len(inbox) = Len(inbox) - 1
        BY <1>2
      <4> QED
        BY <3>2, <4>1
    <3> QED
      BY <3>1, <3>3, <3>4
  <2> QED
    BY <2>1 DEF Next
<1> DEFINE m == inbox[1]
<1>4. MapsOK' /\ RegMap' = After(RegMap, m)
  BY <1>1, <1>3, HeadEffect
<1>5. From = m.node /\ FromPort = m.port
  BY <1>2 DEF From, FromPort
<1>6. PICK n \in Node, p \in Port : n = m.node /\ p = m.port
  BY <1>2, PacketFacts
<1>7. m.type \in {"del_client", "del_server"}
  BY <1>2
<1> HIDE DEF m
<1>8. SetterOf(m, n, p) /\ Effect(m) = {}
  BY <1>6, <1>7 DEF SetterOf, Effect
<1>9. RegAt(n, p)' = {}
  <2>1. RegMap'[n][p] = {}
    BY <1>4, <1>8 DEF After
  <2> QED
    BY <2>1, RegMapIs
<1>10. \A s \in Registry' : ~ (s.node = n /\ s.port = p)
  BY <1>4, <1>9, RegistryNext
<1> QED
  BY <1>5, <1>6, <1>10

\* Once ctrl_cmd_del_client or ctrl_cmd_del_server has run no server of the
\* port is left, as the comment "Remove the server belonging to this port"
\* says.
THEOREM PortIsRemoved == ASSUME Tame PROVE Spec => PortRemoved
<1>1. RegInv /\ [Next]_vars =>
        (inbox # <<>> /\ Head(inbox).type \in {"del_client", "del_server"}
           /\ inbox' = Tail(inbox)
         => \A s \in Registry' : ~ (s.node = From /\ s.port = FromPort))
  BY RemovedStep
<1> QED
  BY <1>1, RegAlways, PTL DEF Spec, PortRemoved

------------------------------------------------------------------------------
(* How a packet changes the registry.                                      *)

\* The registry as a set when packet m is handled.
LEMMA RegistryAfter ==
  ASSUME MapsOK, MapsOK', NEW m \in PacketSet, RegMap' = After(RegMap, m)
  PROVE  /\ Registry \subseteq Server /\ Registry' \subseteq Server
         /\ \A s \in Server : s \in Registry' <=>
              IF SetterOf(m, s.node, s.port) THEN s \in Effect(m) ELSE s \in Registry
<1>1. Registry \subseteq Server /\ Registry' \subseteq Server
  BY RegistryIs, RegistryNext
<1>2. ASSUME NEW s \in Server
      PROVE  s \in Registry' <=>
              IF SetterOf(m, s.node, s.port) THEN s \in Effect(m) ELSE s \in Registry
  <2>1. s.node \in Node /\ s.port \in Port
    BY ServerFields
  <2> DEFINE n == s.node
             p == s.port
  <2>2. RegAt(n, p)' = IF SetterOf(m, n, p) THEN Effect(m) ELSE RegAt(n, p)
    <3>1. After(RegMap, m)[n][p] = IF SetterOf(m, n, p) THEN Effect(m) ELSE RegMap[n][p]
      BY <2>1 DEF After
    <3> QED
      BY <2>1, <3>1, RegMapIs
  <2>3. s \in Registry <=> s \in RegAt(n, p)
    BY <2>1, RegistryIs DEF RegAt
  <2>4. s \in Registry' <=> s \in RegAt(n, p)'
    <3>1. s \in Registry' => s \in RegAt(s.node, s.port)'
      BY RegistryNext
    <3>2. RegAt(s.node, s.port)' \subseteq Registered(s.node)'
      BY DEF RegAt
    <3>3. Registered(s.node)' \subseteq Registry'
      BY <2>1 DEF Registry
    <3> QED
      BY <3>1, <3>2, <3>3
  <2> QED
    BY <2>2, <2>3, <2>4
<1> QED
  BY <1>1, <1>2

LEMMA RegistrySame ==
  services' = services => Registry' = Registry /\ Registered(LocalNode)' = Registered(LocalNode)
BY DEF Registry, Registered

\* The gone set and the fresh set that a packet's handler tells the observers
\* and the nodes of.
Gone == CASE Head(inbox).type = "bye" -> Registered(From)
          [] Head(inbox).type \in {"del_client", "del_server"} -> RegAt(From, FromPort)
          [] OTHER -> {}

FreshOnes == Effect(Head(inbox))

\* The registry loses what the handler calls gone and gains what it calls
\* fresh, and a fresh server takes nobody's place: who is told of both sets
\* knows the registry.
LEMMA RegistryChange ==
  ASSUME Tame, RegInv, NsStep
  PROVE  /\ Registry \subseteq Server /\ Gone \subseteq Registry
         /\ Registry' = (Registry \ Gone) \cup FreshOnes
         /\ \A s \in FreshOnes : \A t \in Registry : SameSocket(s, t) => s = t
<1> DEFINE m == inbox[1]
<1>1. TypeInv /\ MapsOK /\ Fresh
  BY DEF RegInv
<1>2. inbox # <<>> /\ MapsOK' /\ RegMap' = After(RegMap, m)
  BY <1>1, HeadEffect
<1>3. Head(inbox) = m /\ m \in PacketSet /\ From = m.node /\ FromPort = m.port
      /\ 1 \in 1..Len(inbox)
  BY <1>1, <1>2, HeadIs DEF From, FromPort
<1>4. /\ Gone = CASE m.type = "bye" -> Registered(m.node)
                  [] m.type \in {"del_client", "del_server"} -> RegAt(m.node, m.port)
                  [] OTHER -> {}
      /\ FreshOnes = Effect(m)
  BY <1>3 DEF Gone, FreshOnes
<1>5. m.type = "new_server" => FreshAt(inbox, RegMap, 1)
  BY <1>1, <1>3 DEF Fresh, FreshAll
<1>6. m.type = "new_server" => /\ m.node \in Node /\ m.port \in Port
                               /\ RegAt(m.node, m.port) \subseteq Effect(m)
  <2> SUFFICES ASSUME m.type = "new_server"
               PROVE  /\ m.node \in Node /\ m.port \in Port
                      /\ RegAt(m.node, m.port) \subseteq Effect(m)
    OBVIOUS
  <2>1. m.node \in Node /\ m.port \in Port
    BY <1>3, PacketFacts
  <2>2. RegMap[m.node][m.port] \in {{}, Effect(m)}
    BY <1>5 DEF FreshAt, EndsAt
  <2> QED
    BY <2>1, <2>2, RegMapIs
<1> HIDE DEF m
<1>7. /\ Registry \subseteq Server /\ Registry' \subseteq Server
      /\ \A s \in Server : s \in Registry' <=>
              IF SetterOf(m, s.node, s.port) THEN s \in Effect(m) ELSE s \in Registry
  BY <1>1, <1>2, <1>3, RegistryAfter
<1>8. \A s \in Server : s \in Registry <=> s \in Registered(s.node)
  BY <1>1, RegistryIs, ServerFields
<1>9. m.node \in Node
  BY <1>3, PacketFacts
<1>10. \A s \in Registered(m.node) : s \in Server /\ s.node = m.node
  BY <1>1, <1>9, RegisteredIs
<1>11. CASE m.type = "bye"
  <2>1. Gone = Registered(m.node) /\ FreshOnes = {} /\ Effect(m) = {}
    BY <1>4, <1>11 DEF Effect
  <2>2. \A s \in Server : SetterOf(m, s.node, s.port) <=> s.node = m.node
    BY <1>11 DEF SetterOf
  <2>3. \A s \in Server : s \in Gone <=> s \in Registry /\ s.node = m.node
    BY <1>8, <1>10, <2>1
  <2> QED
    BY <1>7, <1>10, <2>1, <2>2, <2>3
<1>12. CASE m.type \in {"del_client", "del_server"}
  <2>1. Gone = RegAt(m.node, m.port) /\ FreshOnes = {} /\ Effect(m) = {}
    BY <1>4, <1>12 DEF Effect
  <2>2. \A s \in Server : SetterOf(m, s.node, s.port) <=> s.node = m.node /\ s.port = m.port
    BY <1>12 DEF SetterOf
  <2>3. \A s \in Server : s \in Gone <=> s \in Registry /\ s.node = m.node /\ s.port = m.port
    BY <1>8, <1>10, <2>1 DEF RegAt
  <2>4. Gone \subseteq Server
    BY <1>10, <2>1 DEF RegAt
  <2> QED
    BY <1>7, <2>1, <2>2, <2>3, <2>4
<1>13. CASE m.type = "new_server"
  <2> DEFINE s == ServerIn(m)
  <2>1. /\ Gone = {} /\ FreshOnes = {s} /\ Effect(m) = {s}
        /\ s \in Server /\ s.node = m.node /\ s.port = m.port
    BY <1>3, <1>4, <1>13, PacketFacts
  <2> HIDE DEF s
  <2>2. \A t \in Server : SetterOf(m, t.node, t.port) <=> t.node = s.node /\ t.port = s.port
    BY <1>13, <2>1 DEF SetterOf
  <2>3. \A t \in Registry : t.node = s.node /\ t.port = s.port => t = s
    BY <1>6, <1>7, <1>8, <1>13, <2>1 DEF RegAt
  <2>4. Registry' = Registry \cup {s}
    BY <1>7, <2>1, <2>2, <2>3
  <2> QED
    BY <1>7, <2>1, <2>3, <2>4 DEF SameSocket
<1>14. CASE m.type \notin {"bye", "del_client", "del_server", "new_server"}
  <2>1. Gone = {} /\ FreshOnes = {}
    BY <1>4, <1>14 DEF Effect
  <2>2. \A n, p : ~ SetterOf(m, n, p)
    BY <1>14 DEF SetterOf
  <2> QED
    BY <1>7, <2>1, <2>2
<1> QED
  BY <1>11, <1>12, <1>13, <1>14

------------------------------------------------------------------------------
(* What observers have been told.                                          *)

\* The i-th packet tells of the end of a local socket.
DelClientAt(q, i, p) ==
  q[i].type = "del_client" /\ q[i].node = LocalNode /\ q[i].port = p

\* A socket is open, or the packet of its closing waits at k or later.
Covered(q, k, o, p) ==
  \/ <<LocalNode, p>> \in o
  \/ \E j \in k..Len(q) : DelClientAt(q, j, p)

\* The packets and the lookups of closed sockets.
QueueOK(q, L, o) ==
  /\ \A i \in 1..Len(q) : q[i].type = "del_client" => <<q[i].node, q[i].port>> \notin o
  /\ \A l \in L : Covered(q, 1, o, l.port)
  /\ \A i \in 1..Len(q) : q[i].type = "new_lookup" => Covered(q, i + 1, o, q[i].port)

\* t is q with packets appended.
Extends(q, t) ==
  /\ Len(q) \in Nat /\ Len(t) \in Nat /\ Len(t) >= Len(q)
  /\ \A i \in 1..Len(q) : t[i] = q[i]

\* Packets are appended, and sockets closed whose packet is the last of them.
LEMMA QueueGrows ==
  ASSUME NEW q, NEW t, Extends(q, t), NEW L, NEW o, NEW o2, QueueOK(q, L, o),
         \A i \in Len(q) + 1..Len(t) :
           /\ t[i].type = "del_client" => <<t[i].node, t[i].port>> \notin o2
           /\ t[i].type = "new_lookup" => <<LocalNode, t[i].port>> \in o2,
         o2 \subseteq o,
         \A p : <<LocalNode, p>> \in o \ o2 =>
                  Len(t) > Len(q) /\ DelClientAt(t, Len(t), p)
  PROVE  QueueOK(t, L, o2)
<1>1. /\ Len(q) \in Nat /\ Len(t) \in Nat /\ Len(t) >= Len(q)
      /\ \A i \in 1..Len(q) : t[i] = q[i] /\ i \in 1..Len(t) /\ i \in Nat
      /\ \A i \in 1..Len(t) : i \in 1..Len(q) \/ i \in Len(q) + 1..Len(t)
  BY DEF Extends
<1>2. ASSUME NEW k \in Nat, 1 <= k, k <= Len(q) + 1, NEW p, Covered(q, k, o, p)
      PROVE  Covered(t, k, o2, p)
  <2>1. CASE <<LocalNode, p>> \in o2
    BY <2>1 DEF Covered
  <2>2. CASE <<LocalNode, p>> \in o \ o2
    <3>1. Len(t) \in k..Len(t) /\ DelClientAt(t, Len(t), p)
      BY <1>1, <1>2, <2>2
    <3> QED
      BY <3>1 DEF Covered
  <2>3. CASE <<LocalNode, p>> \notin o
    <3>1. PICK j \in k..Len(q) : DelClientAt(q, j, p)
      BY <1>2, <2>3 DEF Covered
    <3>2. j \in 1..Len(q) /\ j \in k..Len(t)
      BY <1>1, <1>2
    <3>3. DelClientAt(t, j, p)
      BY <1>1, <3>1, <3>2 DEF DelClientAt
    <3> QED
      BY <3>2, <3>3 DEF Covered
  <2> QED
    BY <2>1, <2>2, <2>3
<1>3. ASSUME NEW i \in 1..Len(t), t[i].type = "del_client"
      PROVE  <<t[i].node, t[i].port>> \notin o2
  BY <1>1, <1>3 DEF QueueOK
<1>4. ASSUME NEW l \in L PROVE Covered(t, 1, o2, l.port)
  BY <1>1, <1>2 DEF QueueOK
<1>5. ASSUME NEW i \in 1..Len(t), t[i].type = "new_lookup"
      PROVE  Covered(t, i + 1, o2, t[i].port)
  <2>1. CASE i \in 1..Len(q)
    <3>1. Covered(q, i + 1, o, t[i].port)
      BY <1>1, <1>5, <2>1 DEF QueueOK
    <3>2. i + 1 \in Nat /\ 1 <= i + 1 /\ i + 1 <= Len(q) + 1
      BY <1>1, <2>1
    <3> QED
      BY <1>2, <3>1, <3>2
  <2>2. CASE i \in Len(q) + 1..Len(t)
    BY <1>5, <2>2 DEF Covered
  <2> QED
    BY <1>1, <2>1, <2>2
<1> QED
  BY <1>3, <1>4, <1>5 DEF QueueOK

\* A socket is opened that no packet in the queue is about.
LEMMA QueueOpens ==
  ASSUME NEW q, NEW L, NEW o, NEW x, QueueOK(q, L, o),
         \A i \in 1..Len(q) : <<q[i].node, q[i].port>> # x
  PROVE  QueueOK(q, L, o \cup {x})
BY DEF QueueOK, Covered

\* The first packet is read; the lookups are K afterwards.
LEMMA QueueTail ==
  ASSUME NEW q \in Seq(PacketSet), q # <<>>, NEW L, NEW o, QueueOK(q, L, o), NEW K,
         \A l \in K : \/ l \in L /\ ~ DelClientAt(q, 1, l.port)
                      \/ q[1].type = "new_lookup" /\ l.port = q[1].port
  PROVE  QueueOK(Tail(q), K, o)
<1> DEFINE t == Tail(q)
<1>1. /\ Len(q) \in Nat /\ Len(t) = Len(q) - 1 /\ 1 \in 1..Len(q) /\ Len(q) >= 1
      /\ \A i \in 1..Len(t) : t[i] = q[i + 1] /\ i + 1 \in 1..Len(q) /\ i \in Nat
  OBVIOUS
<1> HIDE DEF t
<1>2. ASSUME NEW k \in Nat, 1 <= k, NEW p, Covered(q, k + 1, o, p)
      PROVE  Covered(t, k, o, p)
  <2>1. CASE \E j \in k + 1..Len(q) : DelClientAt(q, j, p)
    <3>1. PICK j \in k + 1..Len(q) : DelClientAt(q, j, p)
      BY <2>1
    <3>2. j - 1 \in k..Len(t) /\ j - 1 \in 1..Len(t) /\ j - 1 + 1 = j
      BY <1>1, <1>2
    <3>3. DelClientAt(t, j - 1, p)
      BY <1>1, <3>1, <3>2 DEF DelClientAt
    <3> QED
      BY <3>2, <3>3 DEF Covered
  <2> QED
    BY <1>2, <2>1 DEF Covered
<1>3. \A i \in 1..Len(t) : t[i].type = "del_client" => <<t[i].node, t[i].port>> \notin o
  BY <1>1 DEF QueueOK
<1>4. ASSUME NEW l \in K PROVE Covered(t, 1, o, l.port)
  <2>1. Covered(q, 1 + 1, o, l.port)
    <3>1. CASE l \in L /\ ~ DelClientAt(q, 1, l.port)
      <4>1. Covered(q, 1, o, l.port)
        BY <3>1 DEF QueueOK
      <4>2. \A j \in 1..Len(q) : j = 1 \/ j \in 1 + 1..Len(q)
        BY <1>1
      <4> QED
        BY <3>1, <4>1, <4>2 DEF Covered
    <3>2. CASE q[1].type = "new_lookup" /\ l.port = q[1].port
      BY <1>1, <3>2 DEF QueueOK
    <3> QED
      BY <3>1, <3>2
  <2> QED
    BY <1>2, <2>1
<1>5. ASSUME NEW i \in 1..Len(t), t[i].type = "new_lookup"
      PROVE  Covered(t, i + 1, o, t[i].port)
  <2>1. Covered(q, i + 1 + 1, o, t[i].port)
    BY <1>1, <1>5 DEF QueueOK
  <2>2. i + 1 \in Nat /\ 1 <= i + 1
    BY <1>1
  <2> QED
    BY <1>2, <2>1, <2>2
<1>6. QueueOK(t, K, o)
  BY <1>3, <1>4, <1>5 DEF QueueOK
<1> QED
  BY <1>6 DEF t

\* One of the lookups of the observer at p matches the server.
Concerned(L, p, s) == \E l \in L : l.port = p /\ Concerns(l, s)

\* What an observer is to know when the registry is R.
Seen(R, L, o, p) ==
  IF <<LocalNode, p>> \in o THEN {s \in R : Concerned(L, p, s)} ELSE {}

\* Observers of open sockets know of the registry what their lookups match.
ViewInv ==
  /\ QueueOK(inbox, lookups, open)
  /\ \A p \in Port : view[p] = Seen(Registry, lookups, open, p)

\* lookup_notify keeps an observer up to date when the registry changes.
LEMMA NotifySees ==
  ASSUME NEW gone, NEW fresh, Notify(gone, fresh), NEW R, NEW S,
         S = (R \ gone) \cup fresh,
         NEW p \in Port, view[p] = Seen(R, lookups, open, p)
  PROVE  view'[p] = Seen(S, lookups, open, p)
<1>1. view'[p] = IF <<LocalNode, p>> \notin open THEN view[p]
                 ELSE (view[p] \ {s \in gone : Concerned(lookups, p, s)})
                      \cup {s \in fresh : Concerned(lookups, p, s)}
  BY DEF Notify, Concerned
<1>2. CASE <<LocalNode, p>> \notin open
  BY <1>1, <1>2 DEF Seen
<1>3. CASE <<LocalNode, p>> \in open
  <2>1. view[p] = {s \in R : Concerned(lookups, p, s)}
    BY <1>3 DEF Seen
  <2>2. view'[p] = {s \in S : Concerned(lookups, p, s)}
    BY <1>1, <1>3, <2>1
  <2> QED
    BY <1>3, <2>2 DEF Seen
<1> QED
  BY <1>2, <1>3

LEMMA ViewNsStep ==
  ASSUME Tame, RegInv, ViewInv, NsStep
  PROVE  ViewInv'
<1> DEFINE m == inbox[1]
<1>1. TypeInv /\ MapsOK /\ OffersOK
  BY DEF RegInv
<1>2. inbox # <<>> /\ UNCHANGED <<open, offers>>
  BY <1>1, HeadEffect DEF RegInv
<1>3. /\ Head(inbox) = m /\ m \in PacketSet /\ 1 \in 1..Len(inbox)
      /\ From = m.node /\ FromPort = m.port /\ Body = m.body
      /\ inbox \in Seq(PacketSet)
  BY <1>1, <1>2, HeadIs DEF From, FromPort, Body, TypeInv
<1>4. /\ Registry \subseteq Server
      /\ Registry' = (Registry \ Gone) \cup FreshOnes
      /\ Gone = CASE m.type = "bye" -> Registered(From)
                  [] m.type \in {"del_client", "del_server"} -> RegAt(From, FromPort)
                  [] OTHER -> {}
      /\ FreshOnes = Effect(m)
  BY <1>3, RegistryChange DEF Gone, FreshOnes
<1>5. /\ QueueOK(inbox, lookups, open)
      /\ \A p \in Port : view[p] = Seen(Registry, lookups, open, p)
  BY DEF ViewInv
<1>6. view \in [Port -> SUBSET Server]
  BY <1>1 DEF TypeInv
<1> HIDE DEF m
<1>7. ASSUME NEW K, lookups' = K, Read,
             \A l \in K : \/ l \in lookups /\ ~ DelClientAt(inbox, 1, l.port)
                          \/ m.type = "new_lookup" /\ l.port = m.port
      PROVE  QueueOK(inbox', lookups', open')
  <2>1. QueueOK(Tail(inbox), K, open)
    BY <1>2, <1>3, <1>5, <1>7, QueueTail DEF m
  <2> QED
    BY <1>2, <1>7, <2>1 DEF Read
<1>8. ASSUME m.type # "del_client", lookups' = lookups, Read
      PROVE  QueueOK(inbox', lookups', open')
  <2>1. \A p : ~ DelClientAt(inbox, 1, p)
    BY <1>8 DEF DelClientAt, m
  <2> QED
    BY <1>7, <1>8, <2>1
<1>9. CASE CtrlCmdHello
  <2>1. m.type = "hello" /\ UNCHANGED <<lookups, view, services>>
    BY <1>3, <1>9 DEF CtrlCmdHello, Handle, ns
  <2>2. Registry' = Registry
    BY <2>1, RegistrySame
  <2>3. QueueOK(inbox', lookups', open')
    <3>1. CASE link[From] = "down"
      BY <1>8, <1>9, <2>1, <3>1 DEF CtrlCmdHello
    <3>2. CASE link[From] # "down"
      <4> DEFINE A == Answered(From)
                 O == {s \in offers : s.node = From}
                 t == Tail(inbox)
      <4>1. inbox' = t \o A
        BY <1>9, <3>2 DEF CtrlCmdHello
      <4>2. Answers(A, From, O)
        <5>1. From \in RemoteNode
          BY <1>3, <2>1 DEF PacketSet
        <5> QED
          BY <1>1, <5>1, AnsweredIs DEF OffersOK, TypeInv
      <4>3. QueueOK(t, lookups, open)
        <5>1. \A p : ~ DelClientAt(inbox, 1, p)
          BY <2>1 DEF DelClientAt, m
        <5> QED
          BY <1>2, <1>3, <1>5, <5>1, QueueTail
      <4>4. t \in Seq(PacketSet)
        BY <1>1, <1>2, HeadIs
      <4> HIDE DEF A, O, t
      <4> DEFINE u == t \o A
      <4>5. /\ Len(t) \in Nat /\ Len(A) \in Nat /\ Len(u) = Len(t) + Len(A)
            /\ \A i \in 1..Len(t) : u[i] = t[i]
            /\ \A j \in 1..Len(A) : u[Len(t) + j] = A[j]
        BY <4>2, <4>4, AnswersShape
      <4> HIDE DEF u
      <4>6. \A i \in Len(t) + 1..Len(u) : u[i].type = "new_server"
        <5> SUFFICES ASSUME NEW i \in Len(t) + 1..Len(u) PROVE u[i].type = "new_server"
          OBVIOUS
        <5>1. i - Len(t) \in 1..Len(A) /\ Len(t) + (i - Len(t)) = i
          BY <4>5
        <5>2. u[i] = A[i - Len(t)]
          BY <4>5, <5>1
        <5> QED
          BY <4>2, <5>1, <5>2 DEF Answers
      <4>7. Extends(t, u)
        BY <4>5 DEF Extends
      <4>8. QueueOK(u, lookups, open)
        BY <4>3, <4>6, <4>7, QueueGrows
      <4> QED
        BY <1>2, <2>1, <4>1, <4>8 DEF u
    <3> QED
      BY <3>1, <3>2
  <2> QED
    BY <1>2, <1>5, <2>1, <2>2, <2>3 DEF ViewInv
<1>10. CASE CtrlCmdBye
  <2> DEFINE gone == {services[From].data[i].server :
                        i \in Used(services[From]) \ Used(Sweep(services[From]))}
  <2>1. /\ m.type = "bye" /\ Read /\ lookups' = lookups
        /\ services' = [services EXCEPT ![From] = Sweep(services[From])]
        /\ Notify(gone, {})
    BY <1>3, <1>10 DEF CtrlCmdBye, Handle
  <2>2. From \in Node
    BY <1>3, PacketFacts
  <2>3. gone = Registered(From)
    BY <1>1, <2>1, <2>2, SweepEffect
  <2> HIDE DEF gone
  <2>4. Gone = gone /\ FreshOnes = {}
    BY <1>4, <2>1, <2>3 DEF Effect
  <2>5. ASSUME NEW p \in Port PROVE view'[p] = Seen(Registry', lookups, open, p)
    <3>1. Registry' = (Registry \ gone) \cup {}
      BY <1>4, <2>4
    <3>2. view[p] = Seen(Registry, lookups, open, p)
      BY <1>5
    <3> QED
      BY <2>1, <3>1, <3>2, NotifySees
  <2> QED
    BY <1>2, <1>8, <2>1, <2>5 DEF ViewInv
<1>11. ASSUME m.type \in {"del_client", "del_server"}, ServerDel(From, FromPort),
              NEW p \in Port
       PROVE  view'[p] = Seen(Registry', lookups, open, p)
  <2>1. Notify(Found(From, FromPort), {})
    BY <1>11 DEF ServerDel
  <2>2. From \in Node /\ FromPort \in Port
    BY <1>3, <1>11, PacketFacts
  <2>3. Found(From, FromPort) = RegAt(From, FromPort)
    BY <1>1, <2>2, FoundIs
  <2> DEFINE gone == RegAt(From, FromPort)
  <2>4. Registry' = (Registry \ gone) \cup {}
    BY <1>4, <1>11 DEF Effect
  <2>5. view[p] = Seen(Registry, lookups, open, p) /\ Notify(gone, {})
    BY <1>5, <2>1, <2>3
  <2> HIDE DEF gone
  <2> QED
    BY <2>4, <2>5, NotifySees
<1>12. CASE CtrlCmdDelClient
  <2>1. /\ m.type = "del_client" /\ Read /\ ServerDel(From, FromPort)
        /\ lookups' = IF m.node # LocalNode THEN lookups
                      ELSE {l \in lookups : l.port # m.port}
    BY <1>3, <1>12 DEF CtrlCmdDelClient, Handle
  <2>2. QueueOK(inbox', lookups', open')
    <3>1. \A l \in lookups' : l \in lookups /\ ~ DelClientAt(inbox, 1, l.port)
      BY <2>1 DEF DelClientAt, m
    <3> QED
      BY <1>7, <2>1, <3>1
  <2>3. <<m.node, m.port>> \notin open
    BY <1>3, <1>5, <2>1 DEF QueueOK, m
  <2>4. ASSUME NEW p \in Port PROVE view'[p] = Seen(Registry', lookups', open, p)
    <3>1. view'[p] = Seen(Registry', lookups, open, p)
      BY <1>11, <2>1
    <3>2. CASE <<LocalNode, p>> \in open
      <4>1. \A l : l.port = p => (l \in lookups <=> l \in lookups')
        BY <2>1, <2>3, <3>2
      <4>2. \A s : Concerned(lookups, p, s) <=> Concerned(lookups', p, s)
        BY <4>1 DEF Concerned
      <4> QED
        BY <3>1, <3>2, <4>2 DEF Seen
    <3>3. CASE <<LocalNode, p>> \notin open
      BY <3>1, <3>3 DEF Seen
    <3> QED
      BY <3>2, <3>3
  <2> QED
    BY <1>2, <2>2, <2>4 DEF ViewInv
<1>13. CASE CtrlCmdNewServer
  <2> DEFINE s == ServerIn(m)
  <2>1. m.type = "new_server" /\ Read /\ lookups' = lookups /\ Notify({}, {s})
    BY <1>3, <1>13 DEF CtrlCmdNewServer, Handle, ServerIn
  <2>2. Registry' = (Registry \ {}) \cup {s}
    BY <1>4, <2>1 DEF Effect
  <2> HIDE DEF s
  <2>3. \A p \in Port : view'[p] = Seen(Registry', lookups, open, p)
    BY <1>5, <2>1, <2>2, NotifySees
  <2> QED
    BY <1>2, <1>8, <2>1, <2>3 DEF ViewInv
<1>14. CASE CtrlCmdDelServer
  <2>1. /\ m.type = "del_server" /\ Read /\ lookups' = lookups
        /\ ServerDel(From, FromPort)
    BY <1>3, <1>14 DEF CtrlCmdDelServer, Handle
  <2>2. \A p \in Port : view'[p] = Seen(Registry', lookups, open, p)
    BY <1>11, <2>1
  <2> QED
    BY <1>2, <1>8, <2>1, <2>2 DEF ViewInv
<1>15. CASE CtrlCmdNewLookup
  <2> DEFINE l == [port |-> m.port, service |-> m.body.service,
                   instance |-> m.body.instance]
             new == {s \in Registry : ServerMatch(s, m.body)}
  <2>1. /\ m.type = "new_lookup" /\ Read /\ lookups' = lookups \cup {l}
        /\ services' = services
        /\ view' = IF <<LocalNode, m.port>> \notin open THEN view
                   ELSE [view EXCEPT ![m.port] = view[m.port] \cup new]
    BY <1>3, <1>15 DEF CtrlCmdNewLookup, Handle
  <2>2. l.port = m.port /\ \A s \in Server : ServerMatch(s, m.body) <=> Concerns(l, s)
    <3>1. \A s \in Server : s.service # 0 /\ s.instance # 0
      BY ServerFields
    <3> QED
      BY DEF ServerMatch, Concerns
  <2>3. Registry' = Registry
    BY <2>1, RegistrySame
  <2> HIDE DEF l
  <2>4. QueueOK(inbox', lookups', open')
    <3>1. \A k \in lookups : ~ DelClientAt(inbox, 1, k.port)
      BY <2>1 DEF DelClientAt, m
    <3> QED
      BY <1>7, <2>1, <2>2, <3>1
  <2>5. ASSUME NEW p \in Port PROVE view'[p] = Seen(Registry, lookups', open, p)
    <3>1. view[p] = Seen(Registry, lookups, open, p)
      BY <1>5
    <3>2. CASE <<LocalNode, p>> \notin open
      BY <1>6, <2>1, <3>1, <3>2 DEF Seen
    <3>3. CASE <<LocalNode, p>> \in open /\ p # m.port
      <4>1. \A s : Concerned(lookups', p, s) <=> Concerned(lookups, p, s)
        BY <2>1, <2>2, <3>3 DEF Concerned
      <4>2. view'[p] = view[p]
        BY <1>6, <2>1, <3>3
      <4> QED
        BY <3>1, <3>3, <4>1, <4>2 DEF Seen
    <3>4. CASE <<LocalNode, p>> \in open /\ p = m.port
      <4>1. \A s \in Server : Concerned(lookups', p, s) <=>
                                Concerned(lookups, p, s) \/ ServerMatch(s, m.body)
        BY <2>1, <2>2, <3>4 DEF Concerned
      <4>2. view'[p] = view[p] \cup new
        BY <1>6, <2>1, <3>4
      <4>3. view[p] = {s \in Registry : Concerned(lookups, p, s)}
        BY <3>1, <3>4 DEF Seen
      <4>4. view'[p] = {s \in Registry : Concerned(lookups', p, s)}
        BY <1>4, <4>1, <4>2, <4>3
      <4> QED
        BY <3>4, <4>4 DEF Seen
    <3> QED
      BY <3>2, <3>3, <3>4
  <2> QED
    BY <1>2, <2>3, <2>4, <2>5 DEF ViewInv
<1>16. CASE CtrlCmdDelLookup
  <2>1. /\ m.type = "del_lookup" /\ Read /\ lookups' \subseteq lookups
        /\ \A l \in lookups : l.port # m.port => l \in lookups'
        /\ services' = services
        /\ view' = [view EXCEPT ![m.port] =
             {s \in view[m.port] : Concerned(lookups', m.port, s)}]
    BY <1>3, <1>16 DEF CtrlCmdDelLookup, Handle, Forget, Concerned
  <2>2. Registry' = Registry
    BY <2>1, RegistrySame
  <2>3. QueueOK(inbox', lookups', open')
    <3>1. \A k \in lookups' : k \in lookups /\ ~ DelClientAt(inbox, 1, k.port)
      BY <2>1 DEF DelClientAt, m
    <3> QED
      BY <1>7, <2>1, <3>1
  <2>4. ASSUME NEW p \in Port PROVE view'[p] = Seen(Registry, lookups', open, p)
    <3>1. view[p] = Seen(Registry, lookups, open, p)
      BY <1>5
    <3>2. CASE p # m.port
      <4>1. \A s : Concerned(lookups', p, s) <=> Concerned(lookups, p, s)
        BY <2>1, <3>2 DEF Concerned
      <4>2. view'[p] = view[p]
        BY <1>6, <2>1, <3>2
      <4> QED
        BY <3>1, <4>1, <4>2 DEF Seen
    <3>3. CASE p = m.port
      <4>1. \A s : Concerned(lookups', p, s) => Concerned(lookups, p, s)
        BY <2>1 DEF Concerned
      <4>2. view'[p] = {s \in view[p] : Concerned(lookups', p, s)}
        <5> DEFINE V == {s \in view[m.port] : Concerned(lookups', m.port, s)}
        <5>1. view' = [view EXCEPT ![m.port] = V]
          BY <2>1
        <5> HIDE DEF V
        <5>2. view'[p] = V
          BY <1>6, <3>3, <5>1
        <5> QED
          BY <3>3, <5>2 DEF V
      <4> QED
        BY <3>1, <4>1, <4>2 DEF Seen
    <3> QED
      BY <3>2, <3>3
  <2> QED
    BY <1>2, <2>2, <2>3, <2>4 DEF ViewInv
<1> QED
  BY <1>9, <1>10, <1>12, <1>13, <1>14, <1>15, <1>16 DEF NsStep

\* A packet is queued that is about no socket's end.
LEMMA ViewPosted ==
  ASSUME TypeInv, ViewInv, UNCHANGED <<services, lookups, view, open>>, NEW m,
         inbox' = inbox \/ inbox' = Append(inbox, m),
         m.type # "del_client",
         m.type = "new_lookup" => <<LocalNode, m.port>> \in open
  PROVE  ViewInv'
<1>1. Registry' = Registry
  BY RegistrySame
<1>2. QueueOK(inbox, lookups, open) /\ inbox \in Seq(PacketSet)
  BY DEF ViewInv, TypeInv
<1>3. QueueOK(inbox', lookups, open)
  <2>1. CASE inbox' = Append(inbox, m)
    <3> DEFINE q == inbox
               t == inbox'
    <3>1. /\ Len(q) \in Nat /\ Len(t) = Len(q) + 1 /\ t[Len(q) + 1] = m
          /\ \A i \in 1..Len(q) : t[i] = q[i]
      BY <1>2, <2>1
    <3> HIDE DEF q, t
    <3>2. Extends(q, t)
      BY <3>1 DEF Extends
    <3>3. \A i \in Len(q) + 1..Len(t) : t[i] = m
      BY <3>1
    <3>4. QueueOK(q, lookups, open)
      BY <1>2 DEF q
    <3>5. QueueOK(t, lookups, open)
      BY <3>2, <3>3, <3>4, QueueGrows
    <3> QED
      BY <3>5 DEF t
  <2> QED
    BY <1>2, <2>1
<1>4. \A p \in Port : view'[p] = Seen(Registry', lookups', open', p)
  BY <1>1 DEF ViewInv
<1> QED
  BY <1>3, <1>4 DEF ViewInv

LEMMA ViewSocketStep ==
  ASSUME TypeInv, ViewInv, SocketStep
  PROVE  ViewInv'
<1>1. UNCHANGED <<services, lookups>> /\ Registry' = Registry
  BY TypeSocketStep, RegistrySame DEF ns
<1>2. ASSUME NEW n \in Node, NEW p \in Port, OpenSocket(n, p) PROVE ViewInv'
  <2> DEFINE x == <<n, p>>
  <2>1. /\ x \notin open /\ open' = open \cup {x} /\ UNCHANGED <<inbox, view>>
        /\ \A m \in ToSet(inbox) : <<m.node, m.port>> # x
    BY <1>2 DEF OpenSocket, others
  <2>2. \A i \in 1..Len(inbox) : inbox[i] \in ToSet(inbox)
    BY DEF ToSet, TypeInv
  <2>3. \A i \in 1..Len(inbox) : <<inbox[i].node, inbox[i].port>> # x
    BY <2>1, <2>2
  <2>4. QueueOK(inbox, lookups, open)
    BY DEF ViewInv
  <2>5. QueueOK(inbox, lookups, open \cup {x})
    <3> HIDE DEF x
    <3> QED
      BY <2>3, <2>4, QueueOpens
  <2>6. ASSUME NEW q \in Port PROVE view[q] = Seen(Registry, lookups, open \cup {x}, q)
    <3>1. view[q] = Seen(Registry, lookups, open, q)
      BY DEF ViewInv
    <3>2. CASE <<LocalNode, q>> = x
      <4>1. \A j \in 1..Len(inbox) : ~ DelClientAt(inbox, j, q)
        BY <2>3, <3>2 DEF DelClientAt
      <4>2. \A l \in lookups : l.port # q
        BY <2>1, <2>4, <3>2, <4>1 DEF QueueOK, Covered
      <4>3. \A s : ~ Concerned(lookups, q, s)
        BY <4>2 DEF Concerned
      <4> QED
        BY <2>1, <3>1, <3>2, <4>3 DEF Seen
    <3>3. CASE <<LocalNode, q>> # x
      BY <3>1, <3>3 DEF Seen
    <3> QED
      BY <3>2, <3>3
  <2> QED
    BY <1>1, <2>1, <2>5, <2>6 DEF ViewInv
<1>3. ASSUME NEW n \in Node, NEW p \in Port, CloseSocket(n, p) PROVE ViewInv'
  <2> DEFINE m == Packet("del_client", n, p, Nothing)
             x == <<n, p>>
             o == open \ {x}
  <2>1. m.type = "del_client" /\ m.node = n /\ m.port = p
    BY PacketIs
  <2>2. /\ open' = o
        /\ inbox' = IF Link(n) = "down" THEN inbox ELSE Append(inbox, m)
        /\ view' = IF n = LocalNode THEN [view EXCEPT ![p] = {}] ELSE view
    BY <1>3, <2>1 DEF CloseSocket, Post
  <2> HIDE DEF m
  <2>3. QueueOK(inbox, lookups, open) /\ inbox \in Seq(PacketSet)
    BY DEF ViewInv, TypeInv
  <2>4. n = LocalNode => Link(n) # "down"
    BY DEF Link
  <2>5. QueueOK(inbox', lookups, o)
    <3> DEFINE q == inbox
               t == inbox'
    <3>1. /\ Len(q) \in Nat /\ Len(t) \in Nat /\ Len(t) >= Len(q)
          /\ \A i \in 1..Len(q) : t[i] = q[i]
          /\ \A i \in Len(q) + 1..Len(t) : t[i] = m
          /\ n = LocalNode => Len(t) > Len(q) /\ t[Len(t)] = m
      BY <2>2, <2>3, <2>4
    <3> HIDE DEF q, t
    <3>2. Extends(q, t)
      BY <3>1 DEF Extends
    <3>3. \A i \in Len(q) + 1..Len(t) :
           /\ t[i].type = "del_client" => <<t[i].node, t[i].port>> \notin o
           /\ t[i].type = "new_lookup" => <<LocalNode, t[i].port>> \in o
      BY <2>1, <3>1
    <3>4. \A r : <<LocalNode, r>> \in open \ o =>
                  Len(t) > Len(q) /\ DelClientAt(t, Len(t), r)
      BY <2>1, <3>1 DEF DelClientAt
    <3>5. QueueOK(q, lookups, open) /\ o \subseteq open
      BY <2>3 DEF q
    <3> HIDE DEF o
    <3>6. QueueOK(t, lookups, o)
      BY <3>2, <3>3, <3>4, <3>5, QueueGrows
    <3> QED
      BY <3>6 DEF t
  <2>6. ASSUME NEW q \in Port PROVE view'[q] = Seen(Registry, lookups, o, q)
    <3>1. view[q] = Seen(Registry, lookups, open, q) /\ view \in [Port -> SUBSET Server]
      BY DEF ViewInv, TypeInv
    <3>2. CASE n = LocalNode /\ q = p
      <4>1. view'[q] = {}
        BY <2>2, <3>1, <3>2
      <4> QED
        BY <3>2, <4>1 DEF Seen
    <3>3. CASE ~ (n = LocalNode /\ q = p)
      <4>1. view'[q] = view[q]
        BY <2>2, <3>1, <3>3
      <4>2. <<LocalNode, q>> \in o <=> <<LocalNode, q>> \in open
        BY <3>3
      <4> QED
        BY <3>1, <4>1, <4>2 DEF Seen
    <3> QED
      BY <3>2, <3>3
  <2> QED
    BY <1>1, <2>2, <2>5, <2>6 DEF ViewInv
<1>4. ASSUME NEW m, Post(m), UNCHANGED <<view, open>>, m.type # "del_client",
             m.type = "new_lookup" => <<LocalNode, m.port>> \in open
      PROVE  ViewInv'
  BY <1>1, <1>4, ViewPosted DEF Post
<1>5. ASSUME NEW s \in Server, Offer(s) PROVE ViewInv'
  <2>1. Post(Announcement(s)) /\ UNCHANGED <<view, open>>
    BY <1>5 DEF Offer, others
  <2>2. Announcement(s).type = "new_server"
    BY AnnouncementIs
  <2> QED
    BY <1>4, <2>1, <2>2
<1>6. ASSUME NEW s \in Server, OfferAgain(s) PROVE ViewInv'
  <2>1. Post(Announcement(s)) /\ UNCHANGED <<view, open>>
    BY <1>6 DEF OfferAgain, others, world
  <2>2. Announcement(s).type = "new_server"
    BY AnnouncementIs
  <2> QED
    BY <1>4, <2>1, <2>2
<1>7. ASSUME NEW s \in Server, Withdraw(s) PROVE ViewInv'
  <2>1. Post(Packet("del_server", s.node, s.port, Nothing)) /\ UNCHANGED <<view, open>>
    BY <1>7 DEF Withdraw
  <2>2. Packet("del_server", s.node, s.port, Nothing).type = "del_server"
    BY PacketIs
  <2> QED
    BY <1>4, <2>1, <2>2
<1>8. ASSUME NEW p \in Port, NEW f \in Filter, Observe(p, f) PROVE ViewInv'
  <2> DEFINE m == Packet("new_lookup", LocalNode, p, f)
  <2>1. Post(m) /\ UNCHANGED <<view, open>> /\ <<LocalNode, p>> \in open
    BY <1>8 DEF Observe, others, world
  <2>2. m.type = "new_lookup" /\ m.port = p
    BY PacketIs
  <2> HIDE DEF m
  <2> QED
    BY <1>4, <2>1, <2>2
<1>9. ASSUME NEW p \in Port, NEW f \in Filter, StopObserving(p, f) PROVE ViewInv'
  <2> DEFINE m == Packet("del_lookup", LocalNode, p, f)
  <2>1. Post(m) /\ UNCHANGED <<view, open>>
    BY <1>9 DEF StopObserving, others, world
  <2>2. m.type = "del_lookup"
    BY PacketIs
  <2> HIDE DEF m
  <2> QED
    BY <1>4, <2>1, <2>2
<1>10. ASSUME NEW r \in RemoteNode, LinkUp(r) PROVE ViewInv'
  <2> DEFINE m == Packet("hello", r, 0, Nothing)
  <2>1. inbox' = Append(inbox, m) /\ UNCHANGED <<view, open>>
    BY <1>10 DEF LinkUp, others
  <2>2. m.type = "hello"
    BY PacketIs
  <2> HIDE DEF m
  <2> QED
    BY <1>1, <2>1, <2>2, ViewPosted
<1>11. ASSUME NEW r \in RemoteNode, LinkDown(r) PROVE ViewInv'
  <2> DEFINE m == Packet("bye", r, 0, Nothing)
  <2>1. Post(m) /\ UNCHANGED <<view, open>>
    BY <1>11 DEF LinkDown
  <2>2. m.type = "bye"
    BY PacketIs
  <2> HIDE DEF m
  <2> QED
    BY <1>4, <2>1, <2>2
<1>12. ASSUME NEW n \in Node, NEW p \in Port, NEW s \in offers, Talk(n, p, s)
       PROVE  ViewInv'
  BY <1>1, <1>12 DEF Talk, world, ViewInv
<1> QED
  BY <1>2, <1>3, <1>5, <1>6, <1>7, <1>8, <1>9, <1>10, <1>11, <1>12 DEF SocketStep

LEMMA ViewInit == Init => ViewInv
<1> SUFFICES ASSUME Init PROVE ViewInv
  OBVIOUS
<1>1. QueueOK(inbox, lookups, open)
  BY DEF Init, QueueOK
<1>2. ASSUME NEW p \in Port PROVE view[p] = Seen(Registry, lookups, open, p)
  BY DEF Init, Seen
<1> QED
  BY <1>1, <1>2 DEF ViewInv

LEMMA ViewAlways == ASSUME Tame PROVE Spec => []ViewInv
<1>1. Init => ViewInv
  BY ViewInit
<1>2. RegInv /\ ViewInv /\ [Next]_vars => ViewInv'
  <2>1. RegInv => TypeInv
    BY DEF RegInv
  <2>2. ViewInv /\ UNCHANGED vars => ViewInv'
    BY DEF ViewInv, vars, ns, world, others, Registry, Registered
  <2> QED
    BY <2>1, <2>2, ViewNsStep, ViewSocketStep DEF Next
<1> QED
  BY <1>1, <1>2, RegAlways, PTL DEF Spec

LEMMA ViewHolds == TypeInv /\ ViewInv => ObserverView
<1> SUFFICES ASSUME TypeInv, ViewInv, NEW l \in lookups, <<LocalNode, l.port>> \in open
             PROVE  {s \in view[l.port] : Concerns(l, s)}
                      = {s \in Registry : Concerns(l, s)}
  BY DEF ObserverView
<1>1. l.port \in Port
  BY DEF TypeInv, Lookup
<1>2. view[l.port] = {s \in Registry : Concerned(lookups, l.port, s)}
  BY <1>1 DEF ViewInv, Seen
<1>3. \A s : Concerns(l, s) => Concerned(lookups, l.port, s)
  BY DEF Concerned
<1> QED
  BY <1>2, <1>3

\* At every moment an observer has been told exactly the registered servers
\* that its lookups match: the answer to a new lookup (ctrl_cmd_new_lookup)
\* and the notifications of servers that come and go (lookup_notify) leave no
\* gap and repeat nothing that is gone.
THEOREM ObserversSee == ASSUME Tame PROVE Spec => []ObserverView
<1>1. RegInv /\ ViewInv => ObserverView
  BY ViewHolds DEF RegInv
<1> QED
  BY <1>1, RegAlways, ViewAlways, PTL

------------------------------------------------------------------------------
(* What the name services of other nodes have been told.                   *)

\* What a remote node believes of the servers of this one.
KnownLocal(r) == {s \in known[r] : s.node = LocalNode}

\* Before its HELLO is answered a node knows at most what there is.
Informed(r) ==
  /\ link[r] = "down" => known[r] = {}
  /\ link[r] = "hello" => KnownLocal(r) \subseteq Registered(LocalNode)
  /\ link[r] = "up" => KnownLocal(r) = Registered(LocalNode)

KnowInv == \A r \in RemoteNode : Informed(r)

LocalOf(S) == {s \in S : s.node = LocalNode}

\* A node that knows the local servers of R hears of the change to S.
Retold(gone, fresh, K) ==
  Learn({s \in K : \A g \in LocalOf(gone) : ~ SameSocket(s, g)}, LocalOf(fresh))

\* Registry R loses gone and gains fresh.
Changes(R, gone, fresh) ==
  /\ gone \subseteq R
  /\ \A s, t \in R : SameSocket(s, t) => s = t
  /\ \A s \in fresh : \A t \in R : SameSocket(s, t) => s = t

\* Local servers of K and of R change alike.
Followed(R, gone, fresh, K) ==
  /\ LocalOf(Retold(gone, fresh, K)) = (LocalOf(K) \ LocalOf(gone)) \cup LocalOf(fresh)
  /\ LocalOf((R \ gone) \cup fresh) = (LocalOf(R) \ LocalOf(gone)) \cup LocalOf(fresh)

LEMMA RetoldIs ==
  ASSUME NEW R, NEW gone, NEW fresh, Changes(R, gone, fresh), NEW K,
         LocalOf(K) \subseteq LocalOf(R)
  PROVE  Followed(R, gone, fresh, K)
<1>1. \A t \in LocalOf(K) : t \in R
  BY DEF LocalOf
<1>2. \A t \in LocalOf(K) :
        (\A g \in LocalOf(gone) : ~ SameSocket(t, g)) <=> t \notin LocalOf(gone)
  BY <1>1 DEF LocalOf, SameSocket, Changes
<1>3. \A t \in LocalOf(K) :
        (\A f \in LocalOf(fresh) : ~ SameSocket(t, f)) <=> t \notin LocalOf(fresh)
  BY <1>1 DEF LocalOf, SameSocket, Changes
<1>4. \A t : t \in LocalOf(Retold(gone, fresh, K)) <=>
        \/ t \in LocalOf(fresh)
        \/ /\ t \in LocalOf(K)
           /\ \A g \in LocalOf(gone) : ~ SameSocket(t, g)
           /\ \A f \in LocalOf(fresh) : ~ SameSocket(t, f)
  BY DEF Retold, Learn, LocalOf
<1>5. \A t : t \in LocalOf(Retold(gone, fresh, K)) <=>
        t \in (LocalOf(K) \ LocalOf(gone)) \cup LocalOf(fresh)
  BY <1>2, <1>3, <1>4
<1>6. LocalOf((R \ gone) \cup fresh) = (LocalOf(R) \ LocalOf(gone)) \cup LocalOf(fresh)
  BY DEF LocalOf
<1>7. LocalOf(Retold(gone, fresh, K)) = (LocalOf(K) \ LocalOf(gone)) \cup LocalOf(fresh)
  BY <1>5
<1> QED
  BY <1>6, <1>7 DEF Followed

LEMMA LocalRegistry ==
  /\ MapsOK => /\ Registered(LocalNode) = LocalOf(Registry)
               /\ \A s, t \in Registry : SameSocket(s, t) => s = t
  /\ MapsOK' => Registered(LocalNode)' = LocalOf(Registry')
<1>1. LocalNode \in Node
  BY DEF Node
<1>2. ASSUME MapsOK PROVE Registered(LocalNode) = LocalOf(Registry)
  <2>1. \A s \in Registered(LocalNode) : s \in Server /\ s.node = LocalNode
    BY <1>1, <1>2, RegisteredIs
  <2>2. \A s : s \in Registry <=> s.node \in Node /\ s \in Registered(s.node)
    BY <1>2, RegistryIs
  <2> QED
    BY <1>1, <2>1, <2>2 DEF LocalOf
<1>3. ASSUME MapsOK, NEW s \in Registry, NEW t \in Registry, SameSocket(s, t)
      PROVE  s = t
  <2>1. s.node \in Node /\ s \in Registered(s.node) /\ t \in Registered(t.node)
    BY <1>3, RegistryIs
  <2>2. t \in Registered(s.node) /\ s.port = t.port
    BY <1>3, <2>1 DEF SameSocket
  <2> DEFINE n == s.node
  <2>3. n \in Node /\ s \in Registered(n) /\ t \in Registered(n)
    BY <2>1, <2>2
  <2> HIDE DEF n
  <2> QED
    BY <1>3, <2>2, <2>3, RegisteredIs
<1>4. ASSUME MapsOK' PROVE Registered(LocalNode)' = LocalOf(Registry')
  <2>1. \A n \in Node : \A s \in Registered(n)' : s \in Server /\ s.node = n
    BY <1>4, RegistryNext
  <2>2. Registry' = UNION {Registered(n)' : n \in Node}
    BY DEF Registry
  <2>3. \A s : s \in Registry' <=> \E n \in Node : s \in Registered(n)'
    BY <2>2
  <2>4. \A s : s \in Registered(LocalNode)' <=> s \in LocalOf(Registry')
    BY <1>1, <2>1, <2>3 DEF LocalOf
  <2> QED
    BY <2>4
<1> QED
  BY <1>2, <1>3, <1>4

\* The broadcasts of a handler, as one node hears them.
LEMMA BroadcastIs ==
  ASSUME NEW gone, NEW fresh, Broadcast(gone, fresh), NEW r \in RemoteNode
  PROVE  known'[r] = IF link[r] = "down" THEN known[r]
                     ELSE Retold(gone, fresh, known[r])
BY DEF Broadcast, Retold, LocalOf

\* The registry changes and every linked node is told.
LEMMA ToldStep ==
  ASSUME Tame, RegInv, KnowInv, NsStep, UNCHANGED link,
         \/ Broadcast(Gone, FreshOnes)
         \/ known' = known /\ LocalOf(Gone) = {} /\ LocalOf(FreshOnes) = {}
  PROVE  KnowInv'
<1>1. MapsOK
  BY DEF RegInv
<1>2. MapsOK'
  BY <1>1, HeadEffect DEF RegInv
<1>3. /\ Gone \subseteq Registry
      /\ Registry' = (Registry \ Gone) \cup FreshOnes
      /\ \A s \in FreshOnes : \A t \in Registry : SameSocket(s, t) => s = t
  BY RegistryChange
<1>4. /\ Registered(LocalNode) = LocalOf(Registry)
      /\ Registered(LocalNode)' = LocalOf(Registry')
      /\ \A s, t \in Registry : SameSocket(s, t) => s = t
  BY <1>1, <1>2, LocalRegistry
<1> SUFFICES ASSUME NEW r \in RemoteNode PROVE Informed(r)'
  BY DEF KnowInv
<1>5. /\ Informed(r)
      /\ KnownLocal(r) = LocalOf(known[r]) /\ KnownLocal(r)' = LocalOf(known'[r])
  BY DEF KnowInv, KnownLocal, LocalOf
<1>6. \/ known'[r] = IF link[r] = "down" THEN known[r]
                     ELSE Retold(Gone, FreshOnes, known[r])
      \/ known'[r] = known[r] /\ LocalOf(Gone) = {} /\ LocalOf(FreshOnes) = {}
  BY BroadcastIs
<1>7. CASE link[r] = "down"
  BY <1>5, <1>6, <1>7 DEF Informed
<1>8. CASE link[r] # "down"
  <2>1. link[r] \in {"hello", "up"}
    BY <1>8 DEF RegInv, TypeInv
  <2>2. LocalOf(known[r]) \subseteq LocalOf(Registry)
    BY <1>4, <1>5, <2>1 DEF Informed
  <2>3. /\ LocalOf(Retold(Gone, FreshOnes, known[r])) =
              (LocalOf(known[r]) \ LocalOf(Gone)) \cup LocalOf(FreshOnes)
        /\ LocalOf((Registry \ Gone) \cup FreshOnes) =
              (LocalOf(Registry) \ LocalOf(Gone)) \cup LocalOf(FreshOnes)
    <3>1. Changes(Registry, Gone, FreshOnes)
      BY <1>3, <1>4 DEF Changes
    <3>2. Followed(Registry, Gone, FreshOnes, known[r])
      BY <2>2, <3>1, RetoldIs
    <3> QED
      BY <3>2 DEF Followed
  <2>4. LocalOf(known'[r]) = (LocalOf(known[r]) \ LocalOf(Gone)) \cup LocalOf(FreshOnes)
    <3>1. CASE known'[r] = Retold(Gone, FreshOnes, known[r])
      BY <2>3, <3>1
    <3>2. CASE known'[r] = known[r] /\ LocalOf(Gone) = {} /\ LocalOf(FreshOnes) = {}
      BY <3>2
    <3> QED
      BY <1>6, <1>8, <3>1, <3>2
  <2>5. Registered(LocalNode)' =
          (Registered(LocalNode) \ LocalOf(Gone)) \cup LocalOf(FreshOnes)
    BY <1>3, <1>4, <2>3
  <2>6. /\ link[r] = "hello" => KnownLocal(r)' \subseteq Registered(LocalNode)'
        /\ link[r] = "up" => KnownLocal(r)' = Registered(LocalNode)'
    BY <1>4, <1>5, <2>4, <2>5 DEF Informed
  <2> QED
    BY <1>8, <2>6 DEF Informed
<1> QED
  BY <1>7, <1>8

LEMMA KnowNsStep ==
  ASSUME Tame, RegInv, KnowInv, NsStep
  PROVE  KnowInv'
<1> DEFINE m == inbox[1]
<1>1. TypeInv /\ MapsOK
  BY DEF RegInv
<1>2. inbox # <<>> /\ MapsOK'
  BY <1>1, HeadEffect DEF RegInv
<1>3. /\ Head(inbox) = m /\ m \in PacketSet
      /\ From = m.node /\ FromPort = m.port /\ Body = m.body
  BY <1>1, <1>2, HeadIs DEF From, FromPort, Body
<1>4. /\ Gone = CASE m.type = "bye" -> Registered(From)
                  [] m.type \in {"del_client", "del_server"} -> RegAt(From, FromPort)
                  [] OTHER -> {}
      /\ FreshOnes = Effect(m)
  BY <1>3 DEF Gone, FreshOnes
<1> HIDE DEF m
<1>5. CASE CtrlCmdHello
  <2>1. m.type = "hello" /\ services' = services
    BY <1>3, <1>5 DEF CtrlCmdHello, Handle, ns
  <2>2. From \in RemoteNode
    BY <1>3, <2>1 DEF PacketSet
  <2>3. Registered(LocalNode)' = Registered(LocalNode)
    BY <2>1, RegistrySame
  <2>4. CASE link[From] = "down"
    <3>1. UNCHANGED <<link, known>>
      BY <1>5, <2>4 DEF CtrlCmdHello
    <3> QED
      BY <2>3, <3>1 DEF KnowInv, Informed, KnownLocal
  <2>5. CASE link[From] # "down"
    <3> DEFINE K == Learn(known[From], AnnouncedTo(From))
    <3>1. /\ link' = [link EXCEPT ![From] = "up"] /\ known' = [known EXCEPT ![From] = K]
      BY <1>5, <2>5 DEF CtrlCmdHello
    <3>2. link \in [RemoteNode -> {"down", "hello", "up"}]
          /\ known \in [RemoteNode -> SUBSET Server]
      BY <1>1 DEF TypeInv
    <3>3. LocalOf(K) = Registered(LocalNode)
      <4>1. /\ Registered(LocalNode) = LocalOf(Registry)
            /\ \A s, t \in Registry : SameSocket(s, t) => s = t
        BY <1>1, LocalRegistry
      <4>2. LocalOf(known[From]) \subseteq LocalOf(Registry)
        BY <2>2, <2>5, <3>2, <4>1 DEF KnowInv, Informed, KnownLocal, LocalOf
      <4>3. LocalOf(AnnouncedTo(From)) = LocalOf(Registry)
        BY <2>2, NodeAssumption DEF AnnouncedTo, LocalOf
      <4>4. \A t : t \in LocalOf(K) <=>
              \/ t \in LocalOf(AnnouncedTo(From))
              \/ /\ t \in LocalOf(known[From])
                 /\ \A f \in AnnouncedTo(From) : ~ SameSocket(t, f)
        BY DEF Learn, LocalOf
      <4>5. \A t : t \in LocalOf(K) <=> t \in LocalOf(Registry)
        <5>1. ASSUME NEW t \in LocalOf(known[From]) PROVE t \in LocalOf(Registry)
          BY <4>2, <5>1
        <5> HIDE DEF K
        <5> QED
          BY <4>3, <4>4, <5>1
      <4> QED
        BY <4>1, <4>5
    <3> HIDE DEF K
    <3>4. ASSUME NEW r \in RemoteNode PROVE Informed(r)'
      <4>1. CASE r = From
        <5>1. link'[r] = "up" /\ known'[r] = K
          BY <2>2, <3>1, <3>2, <4>1
        <5>2. KnownLocal(r)' = Registered(LocalNode)'
          BY <2>3, <3>3, <5>1 DEF KnownLocal, LocalOf
        <5> QED
          BY <5>1, <5>2 DEF Informed
      <4>2. CASE r # From
        <5>1. link'[r] = link[r] /\ known'[r] = known[r]
          BY <3>1, <3>2, <4>2
        <5> QED
          BY <2>3, <5>1 DEF KnowInv, Informed, KnownLocal
      <4> QED
        BY <4>1, <4>2
    <3> QED
      BY <3>4 DEF KnowInv
  <2> QED
    BY <2>4, <2>5
<1>6. CASE CtrlCmdBye
  <2>1. m.type = "bye" /\ UNCHANGED <<link, known>>
    BY <1>3, <1>6 DEF CtrlCmdBye, Handle, world
  <2>2. From \in RemoteNode
    BY <1>3, <2>1 DEF PacketSet
  <2>3. \A s \in Registered(From) : s.node = From
    BY <1>1, <2>2, RegisteredIs DEF Node
  <2>4. LocalOf(Gone) = {} /\ LocalOf(FreshOnes) = {}
    BY <1>4, <2>1, <2>2, <2>3, NodeAssumption DEF LocalOf, Effect
  <2> QED
    BY <2>1, <2>4, ToldStep
<1>7. ASSUME m.type \in {"del_client", "del_server"}, ServerDel(From, FromPort)
      PROVE  Broadcast(Gone, FreshOnes)
  <2>1. From \in Node /\ FromPort \in Port
    BY <1>3, <1>7, PacketFacts
  <2>2. Found(From, FromPort) = Gone
    BY <1>1, <1>4, <1>7, <2>1, FoundIs
  <2>3. FreshOnes = {}
    BY <1>4, <1>7 DEF Effect
  <2>4. Broadcast(Found(From, FromPort), {})
    BY <1>7 DEF ServerDel
  <2> QED
    BY <2>2, <2>3, <2>4
<1>8. CASE CtrlCmdDelClient
  <2>1. m.type = "del_client" /\ ServerDel(From, FromPort) /\ UNCHANGED link
    BY <1>3, <1>8 DEF CtrlCmdDelClient, Handle, world
  <2> QED
    BY <1>7, <2>1, ToldStep
<1>9. CASE CtrlCmdNewServer
  <2>1. m.type = "new_server" /\ Broadcast({}, {ServerIn(m)}) /\ UNCHANGED link
    BY <1>3, <1>9 DEF CtrlCmdNewServer, Handle, ServerIn, world
  <2>2. Gone = {} /\ FreshOnes = {ServerIn(m)}
    BY <1>4, <2>1 DEF Effect
  <2> QED
    BY <2>1, <2>2, ToldStep
<1>10. CASE CtrlCmdDelServer
  <2>1. m.type = "del_server" /\ ServerDel(From, FromPort) /\ UNCHANGED link
    BY <1>3, <1>10 DEF CtrlCmdDelServer, Handle, world
  <2> QED
    BY <1>7, <2>1, ToldStep
<1>11. ASSUME m.type \in {"new_lookup", "del_lookup"}, UNCHANGED <<link, known>>
       PROVE  KnowInv'
  <2>1. Gone = {} /\ FreshOnes = {}
    BY <1>4, <1>11 DEF Effect
  <2> QED
    BY <1>11, <2>1, ToldStep DEF LocalOf
<1>12. CASE CtrlCmdNewLookup
  BY <1>3, <1>11, <1>12 DEF CtrlCmdNewLookup, Handle, world
<1>13. CASE CtrlCmdDelLookup
  BY <1>3, <1>11, <1>13 DEF CtrlCmdDelLookup, Handle, world
<1> QED
  BY <1>5, <1>6, <1>8, <1>9, <1>10, <1>12, <1>13 DEF NsStep

LEMMA KnowSocketStep ==
  ASSUME TypeInv, KnowInv, SocketStep
  PROVE  KnowInv'
<1>1. Registered(LocalNode)' = Registered(LocalNode)
  BY TypeSocketStep, RegistrySame DEF ns
<1>2. ASSUME UNCHANGED <<link, known>> PROVE KnowInv'
  BY <1>1, <1>2 DEF KnowInv, Informed, KnownLocal
<1>3. ASSUME NEW r \in RemoteNode, LinkUp(r) PROVE KnowInv'
  <2>1. link[r] = "down" /\ link' = [link EXCEPT ![r] = "hello"] /\ known' = known
    BY <1>3 DEF LinkUp, others
  <2>2. link \in [RemoteNode -> {"down", "hello", "up"}]
    BY DEF TypeInv
  <2>3. ASSUME NEW q \in RemoteNode PROVE Informed(q)'
    <3>1. CASE q = r
      <4>1. known[q] = {} /\ link'[q] = "hello"
        BY <2>1, <2>2, <3>1 DEF KnowInv, Informed
      <4> QED
        BY <2>1, <4>1 DEF Informed, KnownLocal
    <3>2. CASE q # r
      <4>1. link'[q] = link[q]
        BY <2>1, <2>2, <3>2
      <4> QED
        BY <1>1, <2>1, <4>1 DEF KnowInv, Informed, KnownLocal
    <3> QED
      BY <3>1, <3>2
  <2> QED
    BY <2>3 DEF KnowInv
<1>4. ASSUME NEW r \in RemoteNode, LinkDown(r) PROVE KnowInv'
  <2>1. /\ link' = [link EXCEPT ![r] = "down"]
        /\ known' = [known EXCEPT ![r] = {}]
    BY <1>4 DEF LinkDown
  <2>2. link \in [RemoteNode -> {"down", "hello", "up"}]
        /\ known \in [RemoteNode -> SUBSET Server]
    BY DEF TypeInv
  <2>3. ASSUME NEW q \in RemoteNode PROVE Informed(q)'
    <3>1. CASE q = r
      <4>1. known'[q] = {} /\ link'[q] = "down"
        BY <2>1, <2>2, <3>1
      <4> QED
        BY <4>1 DEF Informed
    <3>2. CASE q # r
      <4>1. link'[q] = link[q] /\ known'[q] = known[q]
        BY <2>1, <2>2, <3>2
      <4> QED
        BY <1>1, <4>1 DEF KnowInv, Informed, KnownLocal
    <3> QED
      BY <3>1, <3>2
  <2> QED
    BY <2>3 DEF KnowInv
<1> QED
  BY <1>2, <1>3, <1>4
     DEF SocketStep, OpenSocket, CloseSocket, Offer, OfferAgain, Withdraw, Observe,
         StopObserving, Talk, world, others

LEMMA KnowAlways == ASSUME Tame PROVE Spec => []KnowInv
<1>1. Init => KnowInv
  BY DEF Init, KnowInv, Informed
<1>2. RegInv /\ KnowInv /\ [Next]_vars => KnowInv'
  <2>1. RegInv => TypeInv
    BY DEF RegInv
  <2>2. KnowInv /\ UNCHANGED vars => KnowInv'
    BY DEF KnowInv, Informed, KnownLocal, Registered, vars, ns, world, others
  <2> QED
    BY <2>1, <2>2, KnowNsStep, KnowSocketStep DEF Next
<1> QED
  BY <1>1, <1>2, RegAlways, PTL DEF Spec

\* A linked node whose HELLO was answered knows exactly the servers of this
\* node: annouce_servers in ctrl_cmd_hello and the broadcasts of server_add and
\* server_del (service_announce_new, service_announce_del) fit together,
\* whatever happens while the HELLO waits.
THEOREM NodesAreInformed == ASSUME Tame PROVE Spec => []NodesKnow
<1>1. KnowInv => NodesKnow
  BY DEF KnowInv, Informed, KnownLocal, NodesKnow
<1> QED
  BY <1>1, KnowAlways, PTL

------------------------------------------------------------------------------
(* The clients of local services.                                          *)

\* The packet tells of the end of socket c.
Kills(m, c) ==
  m.node = c[1] /\ (m.type = "bye" \/ (m.type = "del_client" /\ m.port = c[2]))

\* The socket is closed or out of reach.
Stale(c) == c \notin open \/ Link(c[1]) = "down"

\* No packet from the i-th on touches the service at the port.
Untouched(q, i, p) == \A j \in i..Len(q) : ~ SetterOf(q[j], LocalNode, p)

\* The packet that ends a client's life waits, and the service will still be
\* registered when it is handled.
Doomed(q, c, p) == \E i \in 1..Len(q) : Kills(q[i], c) /\ Untouched(q, i, p)

\* A client of the service at port p.
ClientOK(p, c) ==
  /\ c # <<LocalNode, p>>
  /\ OfferAt(LocalNode, p) # {}
  /\ Stale(c) => Doomed(inbox, c, p)

ClientInv == \A p \in Port : \A c \in clients[p] : ClientOK(p, c)

\* Packets are appended that leave the service alone.
LEMMA DoomedGrows ==
  ASSUME NEW q, NEW t, Extends(q, t), NEW c, NEW p, Doomed(q, c, p),
         Untouched(t, Len(q) + 1, p)
  PROVE  Doomed(t, c, p)
<1>1. PICK i \in 1..Len(q) : Kills(q[i], c) /\ Untouched(q, i, p)
  BY DEF Doomed
<1>2. /\ Len(q) \in Nat /\ Len(t) \in Nat /\ Len(t) >= Len(q)
      /\ \A j \in 1..Len(q) : t[j] = q[j]
  BY DEF Extends
<1>3. i \in 1..Len(t) /\ t[i] = q[i]
  BY <1>2
<1>4. Untouched(t, i, p)
  <2> SUFFICES ASSUME NEW j \in i..Len(t) PROVE ~ SetterOf(t[j], LocalNode, p)
    BY DEF Untouched
  <2>1. CASE j \in i..Len(q)
    <3>1. t[j] = q[j]
      BY <1>2, <2>1
    <3> QED
      BY <1>1, <2>1, <3>1 DEF Untouched
  <2>2. CASE j \notin i..Len(q)
    <3>1. j \in Len(q) + 1..Len(t)
      BY <1>2, <2>2
    <3> QED
      BY <3>1 DEF Untouched
  <2> QED
    BY <2>1, <2>2
<1> QED
  BY <1>1, <1>3, <1>4 DEF Doomed

\* Another packet is read.
LEMMA DoomedTail ==
  ASSUME NEW q \in Seq(PacketSet), q # <<>>, NEW c, NEW p, Doomed(q, c, p),
         ~ (Kills(q[1], c) /\ Untouched(q, 1, p))
  PROVE  Doomed(Tail(q), c, p)
<1> DEFINE t == Tail(q)
<1>1. /\ Len(q) \in Nat /\ Len(t) = Len(q) - 1
      /\ \A j \in 1..Len(t) : t[j] = q[j + 1] /\ j \in Nat
  OBVIOUS
<1> HIDE DEF t
<1>2. PICK i \in 1..Len(q) : Kills(q[i], c) /\ Untouched(q, i, p)
  BY DEF Doomed
<1>3. i # 1
  BY <1>2
<1> DEFINE h == i - 1
<1>4. h \in 1..Len(t) /\ h + 1 = i /\ t[h] = q[i]
  <2>1. h \in 1..Len(t) /\ h + 1 = i
    BY <1>1, <1>3
  <2> HIDE DEF h
  <2> QED
    BY <1>1, <2>1
<1> HIDE DEF h
<1>5. Untouched(t, h, p)
  <2> SUFFICES ASSUME NEW j \in h..Len(t) PROVE ~ SetterOf(t[j], LocalNode, p)
    BY DEF Untouched
  <2>1. j \in 1..Len(t) /\ j + 1 \in i..Len(q)
    BY <1>1, <1>4
  <2>2. t[j] = q[j + 1]
    BY <1>1, <2>1
  <2> QED
    BY <1>2, <2>1, <2>2 DEF Untouched
<1>6. Doomed(t, c, p)
  BY <1>2, <1>4, <1>5 DEF Doomed
<1> QED
  BY <1>6 DEF t

\* A service that no packet touches is registered.
LEMMA UntouchedIs ==
  ASSUME RegInv, NEW p \in Port, Untouched(inbox, 1, p)
  PROVE  RegAt(LocalNode, p) = OfferAt(LocalNode, p)
<1>1. LocalNode \in Node /\ Link(LocalNode) = "up"
  BY DEF Node, Link
<1>2. PICK X : Fits(LocalNode, p, X) /\ End(LocalNode, p, X)
  BY <1>1 DEF RegInv, Settled
<1>3. X = OfferAt(LocalNode, p)
  BY <1>1, <1>2 DEF Fits
<1>4. Len(inbox) \in Nat
  BY DEF RegInv, TypeInv
<1>5. \A i \in 1..Len(inbox) : ~ SetterOf(inbox[i], LocalNode, p)
  BY DEF Untouched
<1>6. \A i \in 1..Len(inbox) + 1 - 1 : i \in 1..Len(inbox)
  BY <1>4
<1>7. RegMap[LocalNode][p] = X
  BY <1>2, <1>5, <1>6 DEF End, EndOf, EndsAt
<1> QED
  BY <1>1, <1>3, <1>7, RegMapIs

\* What map_get does not find is not registered.
LEMMA GetOver ==
  ASSUME NEW n, NEW m, MapOver(m, ItemsAt(n)), NEW p \in Port,
         MapGet(m, p) = NoItem
  PROVE  RegOf(m, p) = {}
<1>1. Keyed(ItemsAt(n)) /\ p \in Nat
  BY ItemsAtIn, NumberAssumption
<1>2. MapGet(m, p) = NoItem => \A y \in Items(m) : y.key # p
  BY <1>1, GetFinds
<1> QED
  BY <1>2 DEF RegOf

\* A packet that names a socket or a node reaches every registered service.
LEMMA PropagateReaches ==
  ASSUME NEW m, MapOver(m, ItemsAt(LocalNode)), NEW gone, Propagate(m, gone),
         NEW p \in Port
  PROVE  /\ clients'[p] \subseteq clients[p]
         /\ RegOf(m, p) # {} => clients'[p] = clients[p] \ gone
<1>1. clients'[p] = IF MapGet(m, p) = NoItem THEN clients[p] ELSE clients[p] \ gone
  BY DEF Propagate
<1> QED
  BY <1>1, GetOver

\* The queue moves on and every client that is left stays well.
LEMMA ClientRead ==
  ASSUME RegInv, ClientInv, inbox # <<>>, UNCHANGED <<open, offers, link>>, Read,
         \A p \in Port : clients'[p] \subseteq clients[p],
         \A p \in Port : \A c \in clients'[p] :
           ~ (Kills(inbox[1], c) /\ Untouched(inbox, 1, p)
              /\ OfferAt(LocalNode, p) # {})
  PROVE  ClientInv'
<1> SUFFICES ASSUME NEW p \in Port, NEW c \in clients'[p] PROVE ClientOK(p, c)'
  BY DEF ClientInv
<1>1. c \in clients[p] /\ ClientOK(p, c)
  BY DEF ClientInv
<1>2. OfferAt(LocalNode, p)' = OfferAt(LocalNode, p) /\ (Stale(c)' <=> Stale(c))
  BY DEF OfferAt, Stale, Link
<1>3. ASSUME Stale(c) PROVE Doomed(inbox', c, p)
  <2>1. Doomed(inbox, c, p) /\ OfferAt(LocalNode, p) # {}
    BY <1>1, <1>3 DEF ClientOK
  <2>2. ~ (Kills(inbox[1], c) /\ Untouched(inbox, 1, p))
    BY <2>1
  <2>3. inbox \in Seq(PacketSet)
    BY DEF RegInv, TypeInv
  <2>4. Doomed(Tail(inbox), c, p)
    BY <2>1, <2>2, <2>3, DoomedTail
  <2> QED
    BY <2>4 DEF Read
<1>4. Doomed(inbox, c, p)' <=> Doomed(inbox', c, p)
  BY DEF Doomed, Kills, Untouched, SetterOf
<1> QED
  BY <1>1, <1>2, <1>3, <1>4 DEF ClientOK

LEMMA ClientNsStep ==
  ASSUME Tame, RegInv, ClientInv, NsStep
  PROVE  ClientInv'
<1> DEFINE m == inbox[1]
<1>1. TypeInv /\ MapsOK /\ OffersOK
  BY DEF RegInv
<1>2. /\ inbox # <<>> /\ MapsOK' /\ UNCHANGED <<open, offers>>
      /\ RegMap' = After(RegMap, inbox[1])
  BY <1>1, HeadEffect DEF RegInv
<1>3. /\ Head(inbox) = m /\ m \in PacketSet /\ 1 \in 1..Len(inbox)
      /\ From = m.node /\ FromPort = m.port /\ inbox \in Seq(PacketSet)
  BY <1>1, <1>2, HeadIs DEF From, FromPort, TypeInv
<1>4. clients \in [Port -> SUBSET (Node \X Port)]
  BY <1>1 DEF TypeInv
<1>5. LocalNode \in Node
  BY DEF Node
<1> HIDE DEF m
<1>6. ASSUME m.type \notin {"bye", "del_client"} PROVE \A c : ~ Kills(m, c)
  BY <1>6 DEF Kills
<1>7. ASSUME m.type \notin {"bye", "del_client"}, UNCHANGED <<link, clients>>, Read
      PROVE  ClientInv'
  BY <1>2, <1>6, <1>7, ClientRead DEF m
<1>8. CASE CtrlCmdHello
  <2>1. m.type = "hello" /\ clients' = clients
    BY <1>3, <1>8 DEF CtrlCmdHello, Handle
  <2>2. CASE link[From] = "down"
    BY <1>7, <1>8, <2>1, <2>2 DEF CtrlCmdHello
  <2>3. CASE link[From] # "down"
    <3> DEFINE A == Answered(From)
               O == {s \in offers : s.node = From}
               t == Tail(inbox)
    <3>1. inbox' = t \o A /\ link' = [link EXCEPT ![From] = "up"]
      BY <1>8, <2>3 DEF CtrlCmdHello
    <3>2. From \in RemoteNode
      BY <1>3, <2>1 DEF PacketSet
    <3>3. Answers(A, From, O)
      BY <1>1, <3>2, AnsweredIs DEF OffersOK, TypeInv
    <3>4. t \in Seq(PacketSet)
      BY <1>1, <1>2, HeadIs
    <3> HIDE DEF A, O, t
    <3> DEFINE u == t \o A
    <3>5. /\ Len(t) \in Nat /\ Len(A) \in Nat /\ Len(u) = Len(t) + Len(A)
          /\ \A i \in 1..Len(t) : u[i] = t[i]
          /\ \A j \in 1..Len(A) : u[Len(t) + j] = A[j]
      BY <3>3, <3>4, AnswersShape
    <3> HIDE DEF u
    <3>6. Extends(t, u)
      BY <3>5 DEF Extends
    <3>7. ASSUME NEW p PROVE Untouched(u, Len(t) + 1, p)
      <4> SUFFICES ASSUME NEW i \in Len(t) + 1..Len(u)
                   PROVE  ~ SetterOf(u[i], LocalNode, p)
        BY DEF Untouched
      <4>1. i - Len(t) \in 1..Len(A) /\ Len(t) + (i - Len(t)) = i
        BY <3>5
      <4>2. u[i] = A[i - Len(t)]
        BY <3>5, <4>1
      <4>3. u[i].node = From
        BY <3>3, <4>1, <4>2 DEF Answers
      <4> QED
        BY <3>2, <4>3, NodeAssumption DEF SetterOf
    <3>8. ASSUME NEW p \in Port, NEW c \in clients[p] PROVE ClientOK(p, c)'
      <4>1. ClientOK(p, c)
        BY DEF ClientInv
      <4>2. OfferAt(LocalNode, p)' = OfferAt(LocalNode, p)
        BY <1>2 DEF OfferAt
      <4>3. Stale(c)' => Stale(c)
        <5>1. c[1] \in Node
          BY <1>4
        <5>2. link \in [RemoteNode -> {"down", "hello", "up"}]
          BY <1>1 DEF TypeInv
        <5>3. Link(c[1])' = "down" => Link(c[1]) = "down"
          BY <3>1, <3>2, <5>1, <5>2 DEF Link, Node
        <5> QED
          BY <1>2, <5>3 DEF Stale
      <4>4. ASSUME Stale(c) PROVE Doomed(u, c, p)
        <5>1. Doomed(inbox, c, p) /\ ~ Kills(m, c)
          BY <1>6, <2>1, <4>1, <4>4 DEF ClientOK
        <5>2. Doomed(t, c, p)
          BY <1>2, <1>3, <5>1, DoomedTail DEF m, t
        <5> QED
          BY <3>6, <3>7, <5>2, DoomedGrows
      <4>5. Doomed(inbox, c, p)' <=> Doomed(u, c, p)
        BY <3>1 DEF Doomed, Kills, Untouched, SetterOf, u
      <4> QED
        BY <4>1, <4>2, <4>3, <4>4, <4>5 DEF ClientOK
    <3> QED
      BY <2>1, <3>8 DEF ClientInv
  <2> QED
    BY <2>2, <2>3
<1>9. CASE CtrlCmdBye
  <2> DEFINE gone == {From} \X Port
             l == services[LocalNode]
  <2>1. m.type = "bye" /\ Read /\ UNCHANGED link /\ Propagate(l, gone)
    BY <1>3, <1>9 DEF CtrlCmdBye, Handle, world
  <2>2. MapOver(l, ItemsAt(LocalNode))
    BY <1>1, <1>5 DEF MapsOK
  <2>3. ASSUME NEW p \in Port
        PROVE  /\ clients'[p] \subseteq clients[p]
               /\ RegAt(LocalNode, p) # {} => clients'[p] = clients[p] \ gone
    <3>1. RegAt(LocalNode, p) = RegOf(l, p)
      BY <1>1, <1>5, RegAtIs
    <3> HIDE DEF gone, l
    <3> QED
      BY <2>1, <2>2, <3>1, PropagateReaches
  <2>4. ASSUME NEW p \in Port, NEW c \in clients'[p], Kills(m, c),
               Untouched(inbox, 1, p), OfferAt(LocalNode, p) # {}
        PROVE  FALSE
    <3>1. clients'[p] = clients[p] \ gone
      BY <2>3, <2>4, UntouchedIs
    <3>2. c \in Node \X Port /\ c[1] = From
      BY <1>3, <1>4, <2>3, <2>4 DEF Kills
    <3>3. c \in gone
      BY <3>2
    <3> QED
      BY <3>1, <3>3
  <2> QED
    BY <1>2, <2>1, <2>3, <2>4, ClientRead DEF m
<1>10. CASE CtrlCmdDelClient
  <2> DEFINE gone == {<<From, FromPort>>}
             l == services'[LocalNode]
  <2>1. m.type = "del_client" /\ Read /\ UNCHANGED link /\ Propagate(l, gone)
    BY <1>3, <1>10 DEF CtrlCmdDelClient, Handle, world
  <2>2. MapOver(l, ItemsAt(LocalNode))
    BY <1>2, <1>5 DEF MapsOK
  <2>3. ASSUME NEW p \in Port
        PROVE  /\ clients'[p] \subseteq clients[p]
               /\ RegAt(LocalNode, p)' # {} => clients'[p] = clients[p] \ gone
    <3>1. RegAt(LocalNode, p)' = RegOf(l, p)
      BY <2>2, RegOfIs DEF RegAt, Registered
    <3> HIDE DEF gone, l
    <3> QED
      BY <2>1, <2>2, <3>1, PropagateReaches
  <2>4. ASSUME NEW p \in Port, NEW c \in clients'[p], Kills(m, c),
               Untouched(inbox, 1, p), OfferAt(LocalNode, p) # {}
        PROVE  FALSE
    <3>1. RegAt(LocalNode, p) # {}
      BY <2>4, UntouchedIs
    <3>2. ~ SetterOf(m, LocalNode, p)
      BY <1>3, <2>4 DEF Untouched, m
    <3>3. RegAt(LocalNode, p)' = RegAt(LocalNode, p)
      <4>1. RegMap'[LocalNode][p] = RegMap[LocalNode][p]
        BY <1>2, <1>5, <3>2 DEF After, m
      <4> QED
        BY <1>5, <4>1, RegMapIs
    <3>4. clients'[p] = clients[p] \ gone
      BY <2>3, <3>1, <3>3
    <3>5. c \in Node \X Port /\ c[1] = From /\ c[2] = FromPort
      BY <1>3, <1>4, <2>1, <2>3, <2>4 DEF Kills
    <3>6. c = <<From, FromPort>>
      BY <3>5
    <3> QED
      BY <3>4, <3>6
  <2> QED
    BY <1>2, <2>1, <2>3, <2>4, ClientRead DEF m
<1>11. CASE CtrlCmdNewServer
  BY <1>3, <1>7, <1>11 DEF CtrlCmdNewServer, Handle, world
<1>12. CASE CtrlCmdDelServer
  BY <1>3, <1>7, <1>12 DEF CtrlCmdDelServer, Handle, world
<1>13. CASE CtrlCmdNewLookup
  BY <1>3, <1>7, <1>13 DEF CtrlCmdNewLookup, Handle, world
<1>14. CASE CtrlCmdDelLookup
  BY <1>3, <1>7, <1>14 DEF CtrlCmdDelLookup, Handle, world
<1> QED
  BY <1>8, <1>9, <1>10, <1>11, <1>12, <1>13, <1>14 DEF NsStep

\* A packet m is queued, or would have been had its node been linked, and no
\* client of a service it is about is left.
LEMMA ClientPosted ==
  ASSUME TypeInv, ClientInv, NEW m, Posted(m),
         \A p \in Port : clients'[p] \subseteq clients[p],
         \A p \in Port : SetterOf(m, LocalNode, p) => clients'[p] = {},
         \A p \in Port : clients'[p] # {} =>
           OfferAt(LocalNode, p)' = OfferAt(LocalNode, p),
         \A p \in Port : \A c \in clients[p] :
           Stale(c)' => Stale(c) \/ (Link(m.node) # "down" /\ Kills(m, c))
  PROVE  ClientInv'
<1> SUFFICES ASSUME NEW p \in Port, NEW c \in clients'[p] PROVE ClientOK(p, c)'
  BY DEF ClientInv
<1>1. c \in clients[p] /\ ClientOK(p, c)
  BY DEF ClientInv
<1>2. ~ SetterOf(m, LocalNode, p) /\ OfferAt(LocalNode, p)' = OfferAt(LocalNode, p)
  OBVIOUS
<1> DEFINE q == inbox
           t == inbox'
<1>3. /\ Len(q) \in Nat /\ Len(t) \in Nat /\ Len(t) >= Len(q)
      /\ \A i \in 1..Len(q) : t[i] = q[i]
      /\ \A i \in Len(q) + 1..Len(t) : t[i] = m
      /\ Link(m.node) # "down" => Len(t) = Len(q) + 1
  BY DEF TypeInv, Posted
<1>4. ClientOK(p, c) => (Stale(c) => Doomed(q, c, p))
  BY DEF ClientOK
<1>5. Doomed(inbox, c, p)' <=> Doomed(t, c, p)
  BY DEF Doomed, Kills, Untouched, SetterOf
<1> HIDE DEF q, t
<1>6. Extends(q, t)
  BY <1>3 DEF Extends
<1>7. Untouched(t, Len(q) + 1, p)
  BY <1>2, <1>3 DEF Untouched
<1>8. ASSUME Stale(c)' PROVE Doomed(t, c, p)
  <2>1. CASE Stale(c)
    BY <1>1, <1>4, <1>6, <1>7, <2>1, DoomedGrows
  <2>2. CASE Link(m.node) # "down" /\ Kills(m, c)
    <3>1. Len(q) + 1 \in 1..Len(t) /\ Len(q) + 1 \in Len(q) + 1..Len(t)
      BY <1>3, <2>2
    <3>2. t[Len(q) + 1] = m
      BY <1>3, <3>1
    <3> QED
      BY <1>7, <2>2, <3>1, <3>2 DEF Doomed
  <2> QED
    BY <1>1, <1>8, <2>1, <2>2
<1> QED
  BY <1>1, <1>2, <1>5, <1>8 DEF ClientOK

LEMMA ClientSocketStep ==
  ASSUME RegInv, KnowInv, ClientInv, SocketStep
  PROVE  ClientInv'
<1>1. TypeInv /\ OffersOK
  BY DEF RegInv
<1>2. /\ clients \in [Port -> SUBSET (Node \X Port)]
      /\ link \in [RemoteNode -> {"down", "hello", "up"}]
      /\ open \in SUBSET (Node \X Port)
  BY <1>1 DEF TypeInv
<1>3. ASSUME NEW m, Post(m), UNCHANGED <<open, link, clients>>,
             m.node # LocalNode \/ m.type \in {"new_lookup", "del_lookup"},
             \A p \in Port : OfferAt(LocalNode, p)' = OfferAt(LocalNode, p)
      PROVE  ClientInv'
  <2>1. Posted(m)
    BY <1>3 DEF Post, Posted
  <2>2. \A p \in Port : ~ SetterOf(m, LocalNode, p)
    BY <1>3 DEF SetterOf
  <2>3. \A c : Stale(c)' => Stale(c)
    BY <1>3 DEF Stale, Link
  <2> QED
    BY <1>1, <1>3, <2>1, <2>2, <2>3, ClientPosted
<1>4. ASSUME NEW n \in Node, NEW p \in Port, OpenSocket(n, p) PROVE ClientInv'
  <2>1. open \subseteq open' /\ UNCHANGED <<inbox, offers, link, clients>>
    BY <1>4 DEF OpenSocket, others
  <2>2. ASSUME NEW q \in Port, NEW c \in clients[q] PROVE ClientOK(q, c)'
    <3>1. ClientOK(q, c)
      BY DEF ClientInv
    <3>2. Stale(c)' => Stale(c)
      BY <2>1 DEF Stale, Link
    <3> QED
      BY <2>1, <3>1, <3>2 DEF ClientOK, OfferAt, Doomed, Kills, Untouched, SetterOf
  <2> QED
    BY <2>1, <2>2 DEF ClientInv
<1>5. ASSUME NEW n \in Node, NEW p \in Port, CloseSocket(n, p) PROVE ClientInv'
  <2> DEFINE m == Packet("del_client", n, p, Nothing)
  <2>1. m.type = "del_client" /\ m.node = n /\ m.port = p
    BY PacketIs
  <2>2. /\ open' = open \ {<<n, p>>} /\ UNCHANGED link
        /\ offers' = {s \in offers : <<s.node, s.port>> # <<n, p>>}
        /\ Posted(m)
        /\ clients' = IF n = LocalNode THEN [clients EXCEPT ![p] = {}] ELSE clients
    BY <1>5 DEF CloseSocket, Post, Posted
  <2> HIDE DEF m
  <2>3. \A q \in Port : clients'[q] = IF n = LocalNode /\ q = p THEN {} ELSE clients[q]
    BY <1>2, <2>2
  <2>4. \A q \in Port : SetterOf(m, LocalNode, q) <=> n = LocalNode /\ q = p
    BY <2>1 DEF SetterOf
  <2>5. \A q \in Port : ~ (n = LocalNode /\ q = p) =>
           OfferAt(LocalNode, q)' = OfferAt(LocalNode, q)
    BY <2>2 DEF OfferAt
  <2>6. ASSUME NEW q \in Port, NEW c \in clients[q], Stale(c)'
        PROVE  Stale(c) \/ (Link(m.node) # "down" /\ Kills(m, c))
    <3>1. c = <<c[1], c[2]>>
      BY <1>2
    <3>2. c # <<n, p>> => Stale(c)
      BY <2>2, <2>6 DEF Stale, Link
    <3>3. CASE c = <<n, p>>
      BY <2>1, <3>3 DEF Kills, Stale
    <3> QED
      BY <3>2, <3>3
  <2> QED
    BY <1>1, <2>2, <2>3, <2>4, <2>5, <2>6, ClientPosted
<1>6. ASSUME NEW s \in Server, Offer(s) PROVE ClientInv'
  <2> DEFINE m == Announcement(s)
  <2>1. /\ UNCHANGED <<open, link, clients>>
        /\ \A o \in offers : ~ SameSocket(o, s)
        /\ offers' = offers \cup {s} /\ Posted(m)
    BY <1>6 DEF Offer, others, Post, Posted
  <2>2. m.type = "new_server" /\ m.node = s.node /\ m.port = s.port
    BY AnnouncementIs
  <2> HIDE DEF m
  <2>3. ASSUME NEW p \in Port, clients[p] # {}
        PROVE  /\ ~ (s.node = LocalNode /\ s.port = p)
               /\ OfferAt(LocalNode, p)' = OfferAt(LocalNode, p)
    <3>1. OfferAt(LocalNode, p) # {}
      BY <2>3 DEF ClientInv, ClientOK
    <3>2. ~ (s.node = LocalNode /\ s.port = p)
      BY <2>1, <3>1 DEF OfferAt, SameSocket
    <3> QED
      BY <2>1, <3>2 DEF OfferAt
  <2>4. \A p \in Port : SetterOf(m, LocalNode, p) => clients'[p] = {}
    BY <2>1, <2>2, <2>3 DEF SetterOf
  <2>5. \A c : Stale(c)' => Stale(c)
    BY <2>1 DEF Stale, Link
  <2> QED
    BY <1>1, <2>1, <2>3, <2>4, <2>5, ClientPosted
<1>7. ASSUME NEW s \in Server, OfferAgain(s) PROVE ClientInv'
  <2>1. /\ Post(Announcement(s)) /\ UNCHANGED <<open, link, clients, offers>>
        /\ s.node # LocalNode
    BY <1>7 DEF OfferAgain, others, world
  <2>2. Announcement(s).node = s.node
    BY AnnouncementIs
  <2>3. \A p \in Port : OfferAt(LocalNode, p)' = OfferAt(LocalNode, p)
    BY <2>1 DEF OfferAt
  <2> QED
    BY <1>3, <2>1, <2>2, <2>3
<1>8. ASSUME NEW s \in Server, Withdraw(s) PROVE ClientInv'
  <2> DEFINE m == Packet("del_server", s.node, s.port, Nothing)
  <2>1. m.type = "del_server" /\ m.node = s.node /\ m.port = s.port
    BY PacketIs
  <2>2. /\ UNCHANGED <<open, link>> /\ offers' = offers \ {s} /\ Posted(m)
        /\ clients' = IF s.node = LocalNode THEN [clients EXCEPT ![s.port] = {}]
                      ELSE clients
    BY <1>8 DEF Withdraw, Post, Posted
  <2> HIDE DEF m
  <2>3. \A q \in Port : clients'[q] = IF s.node = LocalNode /\ q = s.port THEN {}
                                      ELSE clients[q]
    BY <1>2, <2>2
  <2>4. \A q \in Port : SetterOf(m, LocalNode, q) <=> s.node = LocalNode /\ q = s.port
    BY <2>1 DEF SetterOf
  <2>5. \A q \in Port : ~ (s.node = LocalNode /\ q = s.port) =>
           OfferAt(LocalNode, q)' = OfferAt(LocalNode, q)
    BY <2>2 DEF OfferAt
  <2>6. \A c : Stale(c)' => Stale(c)
    BY <2>2 DEF Stale, Link
  <2> QED
    BY <1>1, <2>2, <2>3, <2>4, <2>5, <2>6, ClientPosted
<1>9. ASSUME NEW p \in Port, NEW f \in Filter, Observe(p, f) PROVE ClientInv'
  <2>1. /\ Post(Packet("new_lookup", LocalNode, p, f))
        /\ UNCHANGED <<open, link, clients, offers>>
    BY <1>9 DEF Observe, others, world
  <2>2. \A q \in Port : OfferAt(LocalNode, q)' = OfferAt(LocalNode, q)
    BY <2>1 DEF OfferAt
  <2>3. Packet("new_lookup", LocalNode, p, f).type = "new_lookup"
    BY PacketIs
  <2> QED
    BY <1>3, <2>1, <2>2, <2>3
<1>10. ASSUME NEW p \in Port, NEW f \in Filter, StopObserving(p, f) PROVE ClientInv'
  <2>1. /\ Post(Packet("del_lookup", LocalNode, p, f))
        /\ UNCHANGED <<open, link, clients, offers>>
    BY <1>10 DEF StopObserving, others, world
  <2>2. \A q \in Port : OfferAt(LocalNode, q)' = OfferAt(LocalNode, q)
    BY <2>1 DEF OfferAt
  <2>3. Packet("del_lookup", LocalNode, p, f).type = "del_lookup"
    BY PacketIs
  <2> QED
    BY <1>3, <2>1, <2>2, <2>3
<1>11. ASSUME NEW r \in RemoteNode, LinkUp(r) PROVE ClientInv'
  <2> DEFINE m == Packet("hello", r, 0, Nothing)
  <2>1. m.type = "hello" /\ m.node = r
    BY PacketIs
  <2>2. /\ link[r] = "down" /\ link' = [link EXCEPT ![r] = "hello"]
        /\ inbox' = Append(inbox, m) /\ UNCHANGED <<open, offers, clients>>
    BY <1>11 DEF LinkUp, others
  <2> HIDE DEF m
  <2>3. inbox \in Seq(PacketSet) /\ r # LocalNode
    BY <1>1, NodeAssumption DEF TypeInv
  <2>4. ASSUME NEW p \in Port, NEW c \in clients[p] PROVE ClientOK(p, c)'
    <3> DEFINE q == inbox
               t == inbox'
    <3>1. ClientOK(p, c) /\ c[1] \in Node
      BY <1>2 DEF ClientInv
    <3>2. Stale(c)' => Stale(c)
      BY <1>2, <2>2, <3>1 DEF Stale, Link, Node
    <3>3. /\ Len(q) \in Nat /\ Len(t) = Len(q) + 1 /\ t[Len(q) + 1] = m
          /\ \A i \in 1..Len(q) : t[i] = q[i]
      BY <2>2, <2>3
    <3>4. Doomed(inbox, c, p)' <=> Doomed(t, c, p)
      BY DEF Doomed, Kills, Untouched, SetterOf
    <3>5. Stale(c) => Doomed(q, c, p)
      BY <3>1 DEF ClientOK
    <3> HIDE DEF q, t
    <3>6. Extends(q, t)
      BY <3>3 DEF Extends
    <3>7. Untouched(t, Len(q) + 1, p)
      BY <2>1, <3>3 DEF Untouched, SetterOf
    <3>8. Stale(c) => Doomed(t, c, p)
      BY <3>5, <3>6, <3>7, DoomedGrows
    <3> QED
      BY <2>2, <3>1, <3>2, <3>4, <3>8 DEF ClientOK, OfferAt
  <2> QED
    BY <2>2, <2>4 DEF ClientInv
<1>12. ASSUME NEW r \in RemoteNode, LinkDown(r) PROVE ClientInv'
  <2> DEFINE m == Packet("bye", r, 0, Nothing)
  <2>1. m.type = "bye" /\ m.node = r
    BY PacketIs
  <2>2. /\ link[r] # "down" /\ link' = [link EXCEPT ![r] = "down"]
        /\ Posted(m) /\ UNCHANGED <<open, offers, clients>>
    BY <1>12 DEF LinkDown, Post, Posted
  <2> HIDE DEF m
  <2>3. r # LocalNode
    BY NodeAssumption
  <2>4. \A p \in Port : ~ SetterOf(m, LocalNode, p)
    BY <2>1, <2>3 DEF SetterOf
  <2>5. ASSUME NEW p \in Port, NEW c \in clients[p], Stale(c)'
        PROVE  Stale(c) \/ (Link(m.node) # "down" /\ Kills(m, c))
    <3>1. CASE c[1] = r
      BY <2>1, <2>2, <2>3, <3>1 DEF Kills, Link
    <3>2. CASE c[1] # r
      <4>1. Link(c[1])' = Link(c[1])
        BY <1>2, <2>2, <3>2 DEF Link, Node
      <4> QED
        BY <2>2, <2>5, <4>1 DEF Stale
    <3> QED
      BY <3>1, <3>2
  <2>6. \A p \in Port : OfferAt(LocalNode, p)' = OfferAt(LocalNode, p)
    BY <2>2 DEF OfferAt
  <2> QED
    BY <1>1, <2>2, <2>4, <2>5, <2>6, ClientPosted
<1>13. ASSUME NEW n \in Node, NEW p \in Port, NEW s \in offers, Talk(n, p, s)
       PROVE  ClientInv'
  <2> DEFINE x == <<n, p>>
  <2>1. /\ x \in open /\ x # <<LocalNode, s.port>> /\ s.node = LocalNode
        /\ s \in IF n = LocalNode THEN view[p] ELSE known[n]
        /\ clients' = [clients EXCEPT ![s.port] = clients[s.port] \cup {x}]
        /\ UNCHANGED <<inbox, open, offers, link>>
    BY <1>13 DEF Talk, world
  <2>2. ~ Stale(x)
    <3>1. Link(n) # "down"
      <4>1. CASE n = LocalNode
        BY <4>1 DEF Link
      <4>2. CASE n # LocalNode
        <5>1. n \in RemoteNode /\ known[n] # {}
          BY <2>1, <4>2 DEF Node
        <5> QED
          BY <4>2, <5>1 DEF KnowInv, Informed, Link
      <4> QED
        BY <4>1, <4>2
    <3> QED
      BY <2>1, <3>1 DEF Stale
  <2>3. s \in OfferAt(LocalNode, s.port)
    BY <2>1 DEF OfferAt
  <2>4. ASSUME NEW q \in Port, NEW c \in clients'[q] PROVE ClientOK(q, c)
    <3>1. c \in clients[q] \/ (q = s.port /\ c = x)
      BY <1>2, <2>1
    <3>2. CASE c \in clients[q]
      BY <3>2 DEF ClientInv
    <3>3. CASE q = s.port /\ c = x
      BY <2>1, <2>2, <2>3, <3>3 DEF ClientOK
    <3> QED
      BY <3>1, <3>2, <3>3
  <2>5. \A q \in Port : \A c \in clients'[q] : ClientOK(q, c) => ClientOK(q, c)'
    BY <2>1 DEF ClientOK, OfferAt, Stale, Link, Doomed, Kills, Untouched, SetterOf
  <2> QED
    BY <2>4, <2>5 DEF ClientInv
<1> QED
  BY <1>4, <1>5, <1>6, <1>7, <1>8, <1>9, <1>10, <1>11, <1>12, <1>13 DEF SocketStep

LEMMA ClientAlways == ASSUME Tame PROVE Spec => []ClientInv
<1>1. Init => ClientInv
  BY DEF Init, ClientInv
<1>2. RegInv /\ KnowInv /\ ClientInv /\ [Next]_vars => ClientInv'
  <2>1. ClientInv /\ UNCHANGED vars => ClientInv'
    BY DEF ClientInv, ClientOK, OfferAt, Stale, Link, Doomed, Kills, Untouched,
           SetterOf, vars, ns, world, others
  <2> QED
    BY <2>1, ClientNsStep, ClientSocketStep DEF Next
<1> QED
  BY <1>1, <1>2, RegAlways, KnowAlways, PTL DEF Spec

LEMMA ClientsHold == RegInv /\ ClientInv => NoStaleClient
<1> SUFFICES ASSUME RegInv, ClientInv, inbox = <<>>,
                    NEW s \in Registered(LocalNode), NEW c \in clients[s.port]
             PROVE  c \in open /\ Link(c[1]) = "up"
  BY DEF NoStaleClient
<1>1. TypeInv /\ MapsOK /\ LocalNode \in Node
  BY DEF RegInv, Node
<1>2. s.port \in Port
  BY <1>1, RegisteredIs, ServerFields
<1>3. ~ Stale(c)
  BY <1>2 DEF ClientInv, ClientOK, Doomed
<1>4. c[1] \in Node
  BY <1>1, <1>2 DEF TypeInv
<1>5. Link(c[1]) \in {"up", "hello"}
  BY <1>1, <1>3, <1>4 DEF Stale, Link, TypeInv, Node
<1>6. c[1] \in RemoteNode => link[c[1]] # "hello"
  BY DEF RegInv, Greeted
<1> QED
  BY <1>3, <1>4, <1>5, <1>6 DEF Stale, Link, Node

\* When all packets are handled no registered service believes in a client
\* that is gone: the word that ctrl_cmd_bye and ctrl_cmd_del_client send to the
\* local services reaches every service that has such a client, because a
\* service that is registered later has none.
THEOREM ClientsAreAlive == ASSUME Tame PROVE Spec => []NoStaleClient
<1>1. RegInv /\ ClientInv => NoStaleClient
  BY ClientsHold
<1> QED
  BY <1>1, RegAlways, ClientAlways, PTL
=============================================================================
