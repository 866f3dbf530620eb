----------------------- MODULE QcsiService_queue_proofs -----------------------
(***************************************************************************)
(* What the sending half of a service's transport promises, for any number *)
(* of clients and every bound: messages reach the client they are meant    *)
(* for, in order, and none is lost or left behind.  This is so as long as  *)
(* the event thread sends no error responses of its own, whose queue keeps *)
(* the address of its local variable (see the run qcsi_stray).             *)
(***************************************************************************)
EXTENDS QcsiService_proofs

\* The events that end in encode_and_send_resp.
NoErrorResponses == Env \cap {"malformed", "refuse", "reject"} = {}

------------------------------------------------------------------------------
(* Destinations, for any memory m and list q.                              *)

Dest == [dest_addr : Slot, bufs : Seq(Message), dest_busy : BOOLEAN]

\* Where the destinations with address a are.
HitsOf(m, q, a) == {i \in 1..Len(q) : m[q[i].dest_addr] = a}

\* The messages that wait for address a.
BufsOf(m, q, a) ==
  LET i == IF HitsOf(m, q, a) = {} THEN 0
           ELSE CHOOSE i \in HitsOf(m, q, a) :
                  \A j \in HitsOf(m, q, a) : i <= j
  IN  IF i = 0 THEN <<>> ELSE q[i].bufs

\* Its client will be told to resume.
BusyOf(m, q, a) == \E d \in Elems(q) : m[d.dest_addr] = a /\ d.dest_busy

\* Destinations point into L, none is empty, and an address has one.
Proper(m, q, L) ==
  /\ q \in Seq(Dest) /\ NoDup(q)
  /\ \A d \in Elems(q) : d.dest_addr \in L /\ d.bufs # <<>>
  /\ \A d, e \in Elems(q) : m[d.dest_addr] = m[e.dest_addr] => d = e

------------------------------------------------------------------------------
(* The mail of one port p: what was sent, what waits, what was lost.       *)

Asc(s) == \A i, j \in 1..Len(s) : i < j => s[i].no < s[j].no

\* w was sent, q waits, n messages were accepted.
Mail(p, w, q, n) ==
  /\ w \in Seq(Message) /\ q \in Seq(Message) /\ n \in Nat
  /\ \A m \in Elems(w) \cup Elems(q) : m.to = p /\ m.no \in 1..n
  /\ Asc(w) /\ Asc(q)
  /\ \A m \in Elems(w), l \in Elems(q) : m.no < l.no

\* Every message is accounted for, once.
Accounted(p, w, q, n, L) ==
  /\ \A l \in L : l.to = p => l.no \in 1..n
  /\ \A i \in 1..n :
       LET m == [to |-> p, no |-> i]
       IN  m \in Elems(w) \cup Elems(q) <=> m \notin L

------------------------------------------------------------------------------
(* The invariant.                                                          *)

QueueType ==
  /\ open \subseteq Port /\ blocked \subseteq open
  /\ sent \in [Port -> Nat] /\ wire \in [Port -> Seq(Message)]
  /\ lost \subseteq Message /\ bcast \in Seq(Slot) /\ blocks \in Nat
  /\ \A s \in Live : mem[s] \in Port

\* Every destination points into the object of a client that is alive.
PointerPart == Proper(mem, tx_q, Live)

\* A client whose departure is handled is gone, and so is its queue.
DepartPart ==
  /\ del_evt \cap open = {}
  /\ bye_evt \/ walking => Remote \cap open = {}
  /\ ev = "bye" => walking
  /\ ev \in {"del", "del_free"} =>
       peer \in Port \ open /\ BufsOf(mem, tx_q, peer) = <<>>

ThreadPart == ev # "bail" /\ Elems(bcast) \subseteq Listed

TendPart ==
  \A p \in open : BufsOf(mem, tx_q, p) # <<>> => p \in waiter \cup resume_evt

MailPart ==
  \A p \in Port : Mail(p, wire[p], BufsOf(mem, tx_q, p), sent[p])

LossPart ==
  \A p \in Port :
    Accounted(p, wire[p], BufsOf(mem, tx_q, p), sent[p], lost)

QueuePart == /\ QueueType /\ PointerPart /\ DepartPart /\ ThreadPart
             /\ TendPart /\ MailPart /\ LossPart

QueueInv == OwnInv /\ QueuePart

\* Without resets and the end of the service, nothing is lost of a client
\* that is still there, but by sends that fail ...
KeptPart == \A m \in lost : m.to \in open => "send_err" \in Env

\* ... and who was refused an indication is remembered.
ToldPart ==
  \A s \in told_busy :
    /\ s \in Live
    /\ \/ BusyOf(mem, tx_q, mem[s])
       \/ ev = "resume_cb" /\ mem[Loop] = mem[s]
       \/ mem[s] \notin open

------------------------------------------------------------------------------
(* Destinations: what the operations on the list do.                       *)

\* What lists of destinations hold.
LEMMA DestTypes ==
  ASSUME NEW q \in Seq(Dest)
  PROVE  /\ Len(q) \in Nat
         /\ \A i \in 1..Len(q) : q[i] \in Dest /\ q[i] \in Elems(q)
         /\ \A d \in Elems(q) : /\ d \in Dest
                                /\ \E i \in 1..Len(q) : d = q[i]
BY DEF Elems

LEMMA OneHit ==
  ASSUME NEW m, NEW q, NEW L, Proper(m, q, L), NEW i \in 1..Len(q)
  PROVE  HitsOf(m, q, m[q[i].dest_addr]) = {i}
<1>1. \A j \in 1..Len(q) : q[j] \in Elems(q)
  BY DEF Elems
<1>2. ASSUME NEW j \in 1..Len(q), m[q[j].dest_addr] = m[q[i].dest_addr]
      PROVE  j = i
  <2>1. q[j] = q[i]
    BY <1>1, <1>2 DEF Proper
  <2> QED BY <2>1 DEF Proper, NoDup
<1> QED BY <1>2 DEF HitsOf

LEMMA FoundAt ==
  ASSUME NEW i \in Int
  PROVE  (CHOOSE j \in {i} : \A l \in {i} : j <= l) = i
OBVIOUS

\* What waits for an address is what its destination holds.
LEMMA Lookup ==
  ASSUME NEW m, NEW q, NEW L, Proper(m, q, L)
  PROVE  /\ \A d \in Elems(q) : BufsOf(m, q, m[d.dest_addr]) = d.bufs
         /\ \A a : (\A d \in Elems(q) : m[d.dest_addr] # a)
                     => BufsOf(m, q, a) = <<>>
         /\ \A a : BufsOf(m, q, a) = <<>>
                     => \A d \in Elems(q) : m[d.dest_addr] # a
         /\ \A a : BufsOf(m, q, a) \in Seq(Message)
<1>1. Len(q) \in Nat /\ \A d \in Elems(q) : d \in Dest
  BY DestTypes DEF Proper
<1>2. ASSUME NEW d \in Elems(q)
      PROVE  BufsOf(m, q, m[d.dest_addr]) = d.bufs
  <2>1. PICK i \in 1..Len(q) : d = q[i]
    BY DEF Elems
  <2>2. HitsOf(m, q, m[d.dest_addr]) = {i} /\ i \in Int /\ i # 0
    BY <1>1, <2>1, OneHit
  <2> QED BY <2>1, <2>2, FoundAt DEF BufsOf
<1>3. ASSUME NEW a, \A d \in Elems(q) : m[d.dest_addr] # a
      PROVE  BufsOf(m, q, a) = <<>>
  <2>1. HitsOf(m, q, a) = {}
    BY <1>3 DEF HitsOf, Elems
  <2> QED BY <2>1 DEF BufsOf
<1>4. ASSUME NEW a, BufsOf(m, q, a) = <<>>, NEW d \in Elems(q)
      PROVE  m[d.dest_addr] # a
  BY <1>2, <1>4 DEF Proper
<1>5. ASSUME NEW a PROVE BufsOf(m, q, a) \in Seq(Message)
  <2>0. <<>> \in Seq(Message)
    OBVIOUS
  <2>1. CASE \A d \in Elems(q) : m[d.dest_addr] # a
    BY <1>3, <2>0, <2>1
  <2>2. ASSUME NEW d \in Elems(q), m[d.dest_addr] = a
        PROVE  BufsOf(m, q, a) \in Seq(Message)
    BY <1>1, <1>2, <2>2 DEF Dest
  <2> QED BY <2>1, <2>2
<1> QED BY <1>2, <1>3, <1>4, <1>5

\* The place find_tx_q finds.
LEMMA Found ==
  ASSUME NEW m, NEW a, NEW L, Proper(m, tx_q, L)
  PROVE  \/ /\ FindTxQ(m, a) = 0 /\ BufsOf(m, tx_q, a) = <<>>
            /\ \A d \in Elems(tx_q) : m[d.dest_addr] # a
         \/ /\ FindTxQ(m, a) \in 1..Len(tx_q)
            /\ tx_q[FindTxQ(m, a)] \in Elems(tx_q)
            /\ m[tx_q[FindTxQ(m, a)].dest_addr] = a
            /\ BufsOf(m, tx_q, a) = tx_q[FindTxQ(m, a)].bufs
<1>1. tx_q \in Seq(Dest) /\ Len(tx_q) \in Nat
  BY DestTypes DEF Proper
<1>2. FindTxQ(m, a) = IF HitsOf(m, tx_q, a) = {} THEN 0
                      ELSE CHOOSE i \in HitsOf(m, tx_q, a) :
                             \A j \in HitsOf(m, tx_q, a) : i <= j
  BY DEF FindTxQ, HitsOf
<1>3. CASE HitsOf(m, tx_q, a) = {}
  BY <1>2, <1>3 DEF HitsOf, Elems, BufsOf
<1>4. ASSUME NEW i \in HitsOf(m, tx_q, a)
      PROVE  /\ FindTxQ(m, a) = i /\ i \in 1..Len(tx_q)
             /\ m[tx_q[i].dest_addr] = a /\ tx_q[i] \in Elems(tx_q)
  <2>1. i \in 1..Len(tx_q) /\ m[tx_q[i].dest_addr] = a
    BY DEF HitsOf
  <2>2. HitsOf(m, tx_q, a) = {i}
    BY <2>1, OneHit
  <2>3. FindTxQ(m, a) = i
    BY <1>1, <1>2, <2>1, <2>2, FoundAt
  <2> QED BY <2>1, <2>3 DEF Elems
<1> QED BY <1>3, <1>4, Lookup

\* r is q and a destination d for a new address.
Added(m, q, L, d, r) ==
  /\ Proper(m, q, L) /\ d \in Dest /\ d.dest_addr \in L /\ d.bufs # <<>>
  /\ \A e \in Elems(q) : m[e.dest_addr] # m[d.dest_addr]
  /\ r = Append(q, d)

\* r is q with e for the destination at i, whose address it keeps.
Changed(m, q, L, i, e, r) ==
  /\ Proper(m, q, L) /\ i \in 1..Len(q)
  /\ e \in Dest /\ e.dest_addr = q[i].dest_addr /\ e.bufs # <<>>
  /\ r \in Seq(Dest) /\ Len(r) = Len(q) /\ r[i] = e
  /\ \A j \in 1..Len(q) : j # i => r[j] = q[j]

\* A destination is added ...
LEMMA AddDest ==
  ASSUME NEW m, NEW q, NEW L, NEW d, NEW r, Added(m, q, L, d, r)
  PROVE  /\ Proper(m, r, L)
         /\ \A a : BufsOf(m, r, a) = IF a = m[d.dest_addr] THEN d.bufs
                                     ELSE BufsOf(m, q, a)
         /\ \A a : BusyOf(m, q, a) => BusyOf(m, r, a)
<1>0. /\ Proper(m, q, L) /\ d \in Dest /\ d.dest_addr \in L /\ d.bufs # <<>>
      /\ \A e \in Elems(q) : m[e.dest_addr] # m[d.dest_addr]
      /\ r = Append(q, d)
  BY DEF Added
<1>1. r \in Seq(Dest) /\ Elems(r) = Elems(q) \cup {d} /\ NoDup(r)
  BY <1>0, ElemsAppend DEF Proper
<1>2. Proper(m, r, L)
  BY <1>0, <1>1 DEF Proper
<1>3. ASSUME NEW a PROVE BufsOf(m, r, a) = IF a = m[d.dest_addr] THEN d.bufs
                                           ELSE BufsOf(m, q, a)
  <2>1. CASE a = m[d.dest_addr]
    BY <1>0, <1>1, <1>2, <2>1, Lookup
  <2>2. CASE a # m[d.dest_addr]
    <3>1. CASE \A e \in Elems(q) : m[e.dest_addr] # a
      BY <1>0, <1>1, <1>2, <2>2, <3>1, Lookup
    <3>2. ASSUME NEW e \in Elems(q), m[e.dest_addr] = a
          PROVE  BufsOf(m, r, a) = BufsOf(m, q, a)
      BY <1>0, <1>1, <1>2, <3>2, Lookup
    <3> QED BY <2>2, <3>1, <3>2
  <2> QED BY <2>1, <2>2
<1>4. ASSUME NEW a, BusyOf(m, q, a) PROVE BusyOf(m, r, a)
  BY <1>0, <1>1, <1>4 DEF BusyOf
<1> QED BY <1>2, <1>3, <1>4

\* ... changed ...
LEMMA ChangeDest ==
  ASSUME NEW m, NEW q, NEW L, NEW i, NEW e, NEW r, Changed(m, q, L, i, e, r)
  PROVE  /\ Proper(m, r, L)
         /\ \A a : BufsOf(m, r, a) = IF a = m[e.dest_addr] THEN e.bufs
                                     ELSE BufsOf(m, q, a)
         /\ \A a : BusyOf(m, q, a) /\ (a = m[e.dest_addr] => e.dest_busy)
                     => BusyOf(m, r, a)
         /\ e.dest_busy => BusyOf(m, r, m[e.dest_addr])
<1> DEFINE d == q[i]
<1>0. /\ Proper(m, q, L) /\ i \in 1..Len(q)
      /\ e \in Dest /\ e.dest_addr = d.dest_addr /\ e.bufs # <<>>
  BY DEF Changed
<1>1. /\ q \in Seq(Dest) /\ Len(q) \in Nat /\ d \in Dest /\ d \in Elems(q)
      /\ e.dest_addr = d.dest_addr
  BY <1>0, DestTypes DEF Proper
<1> HIDE DEF d
<1>2. /\ r \in Seq(Dest) /\ Len(r) = Len(q) /\ r[i] = e
      /\ \A j \in 1..Len(q) : j # i => r[j] = q[j]
  BY DEF Changed
<1>3. \A j \in 1..Len(q) : j # i => m[q[j].dest_addr] # m[d.dest_addr]
  <2> SUFFICES ASSUME NEW j \in 1..Len(q), m[q[j].dest_addr] = m[d.dest_addr]
               PROVE  j = i
    OBVIOUS
  <2>1. q[j] = d
    BY <1>0, <1>1 DEF Proper, Elems
  <2> QED BY <1>0, <2>1 DEF Proper, NoDup, d
<1>4. Elems(r) = (Elems(q) \ {d}) \cup {e}
  <2>1. ASSUME NEW x \in Elems(r) PROVE x \in (Elems(q) \ {d}) \cup {e}
    <3>1. PICK j \in 1..Len(q) : x = r[j]
      BY <1>0, <1>2 DEF Elems
    <3>2. CASE j = i
      BY <1>0, <1>2, <3>1, <3>2
    <3>3. CASE j # i
      BY <1>0, <1>2, <1>3, <3>1, <3>3 DEF Elems
    <3> QED BY <3>2, <3>3
  <2>2. ASSUME NEW x \in Elems(q), x # d PROVE x \in Elems(r)
    <3>1. PICK j \in 1..Len(q) : x = q[j]
      BY DEF Elems
    <3>2. j # i
      BY <2>2, <3>1 DEF d
    <3> QED BY <1>0, <1>2, <3>1, <3>2 DEF Elems
  <2>3. e \in Elems(r)
    BY <1>0, <1>2 DEF Elems
  <2> QED BY <2>1, <2>2, <2>3
<1>5. NoDup(r)
  <2> SUFFICES ASSUME NEW j \in 1..Len(q), NEW l \in 1..Len(q), r[j] = r[l]
               PROVE  j = l
    BY <1>0, <1>2 DEF NoDup
  <2>1. /\ m[r[j].dest_addr] = m[q[j].dest_addr]
        /\ m[r[l].dest_addr] = m[q[l].dest_addr]
    BY <1>0, <1>1, <1>2 DEF d
  <2>2. q[j] = q[l]
    BY <1>0, <2>1 DEF Proper, Elems
  <2> QED BY <1>0, <2>2 DEF Proper, NoDup
<1>6. Proper(m, r, L)
  BY <1>0, <1>1, <1>2, <1>4, <1>5 DEF Proper
<1>7. ASSUME NEW a PROVE BufsOf(m, r, a) = IF a = m[d.dest_addr] THEN e.bufs
                                           ELSE BufsOf(m, q, a)
  <2>1. CASE a = m[d.dest_addr]
    BY <1>0, <1>1, <1>4, <1>6, <2>1, Lookup
  <2>2. CASE a # m[d.dest_addr]
    <3>1. CASE \A x \in Elems(q) : m[x.dest_addr] # a
      BY <1>0, <1>1, <1>4, <1>6, <2>2, <3>1, Lookup
    <3>2. ASSUME NEW x \in Elems(q), m[x.dest_addr] = a
          PROVE  BufsOf(m, r, a) = BufsOf(m, q, a)
      BY <1>0, <1>4, <1>6, <2>2, <3>2, Lookup
    <3> QED BY <2>2, <3>1, <3>2
  <2> QED BY <2>1, <2>2
<1>8. ASSUME NEW a, BusyOf(m, q, a), a = m[e.dest_addr] => e.dest_busy
      PROVE  BusyOf(m, r, a)
  BY <1>0, <1>1, <1>4, <1>8 DEF BusyOf
<1>9. e.dest_busy => BusyOf(m, r, m[d.dest_addr])
  BY <1>0, <1>1, <1>4 DEF BusyOf
<1> QED BY <1>0, <1>1, <1>6, <1>7, <1>8, <1>9

\* ... and removed.
LEMMA RemoveDest ==
  ASSUME NEW m, NEW q, NEW L, Proper(m, q, L), NEW i \in 1..Len(q),
         NEW r, r = Without(q, i)
  PROVE  /\ Proper(m, r, L)
         /\ \A a : BufsOf(m, r, a) = IF a = m[q[i].dest_addr] THEN <<>>
                                     ELSE BufsOf(m, q, a)
         /\ \A a : BusyOf(m, q, a) /\ a # m[q[i].dest_addr]
                     => BusyOf(m, r, a)
<1> DEFINE d == q[i]
<1>1. q \in Seq(Dest) /\ d \in Elems(q)
  BY DEF Proper, Elems
<1>2. r \in Seq(Dest) /\ NoDup(r) /\ Elems(r) = Elems(q) \ {d}
  BY <1>1, ElemsWithout DEF Proper
<1> HIDE DEF d
<1>3. Proper(m, r, L)
  BY <1>2 DEF Proper
<1>4. ASSUME NEW a PROVE BufsOf(m, r, a) = IF a = m[d.dest_addr] THEN <<>>
                                           ELSE BufsOf(m, q, a)
  <2>1. CASE a = m[d.dest_addr]
    <3>1. \A x \in Elems(r) : m[x.dest_addr] # a
      BY <1>1, <1>2, <2>1 DEF Proper
    <3> QED BY <1>3, <2>1, <3>1, Lookup
  <2>2. CASE a # m[d.dest_addr]
    <3>1. CASE \A x \in Elems(q) : m[x.dest_addr] # a
      BY <1>2, <1>3, <2>2, <3>1, Lookup
    <3>2. ASSUME NEW x \in Elems(q), m[x.dest_addr] = a
          PROVE  BufsOf(m, r, a) = BufsOf(m, q, a)
      BY <1>2, <1>3, <2>2, <3>2, Lookup
    <3> QED BY <2>2, <3>1, <3>2
  <2> QED BY <2>1, <2>2
<1>5. ASSUME NEW a, BusyOf(m, q, a), a # m[d.dest_addr] PROVE BusyOf(m, r, a)
  BY <1>2, <1>5 DEF BusyOf
<1> QED BY <1>3, <1>4, <1>5 DEF d

\* The addresses of the destinations are all that matters of memory.
Alike(m, n, q, L, K) ==
  /\ Proper(m, q, L)
  /\ \A d \in Elems(q) : d.dest_addr \in K /\ n[d.dest_addr] = m[d.dest_addr]

LEMMA OtherMemory ==
  ASSUME NEW m, NEW n, NEW q, NEW L, NEW K, Alike(m, n, q, L, K)
  PROVE  /\ Proper(n, q, K)
         /\ \A a : BufsOf(n, q, a) = BufsOf(m, q, a)
         /\ \A a : BusyOf(n, q, a) = BusyOf(m, q, a)
<1>1. Proper(n, q, K)
  BY DEF Proper, Alike
<1>2. ASSUME NEW a PROVE BufsOf(n, q, a) = BufsOf(m, q, a)
  <2>1. \A i \in 1..Len(q) : q[i] \in Elems(q)
    BY DEF Elems
  <2>2. HitsOf(n, q, a) = HitsOf(m, q, a)
    BY <2>1 DEF HitsOf, Alike
  <2> QED BY <2>2 DEF BufsOf
<1>3. ASSUME NEW a PROVE BusyOf(n, q, a) = BusyOf(m, q, a)
  BY DEF BusyOf, Alike
<1> QED BY <1>1, <1>2, <1>3

\* No destinations.
LEMMA NoDest ==
  ASSUME NEW m, NEW L
  PROVE  /\ Proper(m, <<>>, L)
         /\ \A a : BufsOf(m, <<>>, a) = <<>>
<1>1. Elems(<<>>) = {} /\ <<>> \in Seq(Dest) /\ NoDup(<<>>)
  BY DEF Elems, NoDup
<1>2. Proper(m, <<>>, L)
  BY <1>1 DEF Proper
<1> QED BY <1>1, <1>2, Lookup

------------------------------------------------------------------------------
(* The mail of a port: what sending, queueing, dropping and resuming do.   *)

\* The message with number n for p.
Msg(p, n) == [to |-> p, no |-> n]

LEMMA MailTypes ==
  ASSUME NEW p \in Port, NEW w, NEW q, NEW n, Mail(p, w, q, n)
  PROVE  /\ Len(w) \in Nat /\ Len(q) \in Nat
         /\ \A i \in 1..Len(w) : w[i] \in Elems(w) /\ w[i] \in Message
         /\ \A i \in 1..Len(q) : q[i] \in Elems(q) /\ q[i] \in Message
         /\ \A m \in Elems(w) : \E i \in 1..Len(w) : m = w[i]
         /\ \A m \in Elems(q) : \E i \in 1..Len(q) : m = q[i]
         /\ \A m \in Elems(w) \cup Elems(q) :
              m \in Message /\ m.no \in 1..n /\ m = Msg(p, m.no)
<1>1. w \in Seq(Message) /\ q \in Seq(Message)
  BY DEF Mail
<1>2. /\ Len(w) \in Nat /\ \A i \in 1..Len(w) : w[i] \in Message
      /\ Len(q) \in Nat /\ \A i \in 1..Len(q) : q[i] \in Message
  BY <1>1
<1>3. /\ \A i \in 1..Len(w) : w[i] \in Elems(w)
      /\ \A i \in 1..Len(q) : q[i] \in Elems(q)
      /\ \A m \in Elems(w) : \E i \in 1..Len(w) : m = w[i]
      /\ \A m \in Elems(q) : \E i \in 1..Len(q) : m = q[i]
  BY DEF Elems
<1>4. ASSUME NEW m \in Elems(w) \cup Elems(q)
      PROVE  m \in Message /\ m.no \in 1..n /\ m = Msg(p, m.no)
  <2>1. m \in Message
    BY <1>2, <1>3
  <2>2. m.to = p /\ m.no \in 1..n
    BY DEF Mail
  <2>3. m = Msg(p, m.no)
    BY <2>1, <2>2 DEF Message, Msg
  <2> QED BY <2>1, <2>2, <2>3
<1> QED BY <1>2, <1>3, <1>4

\* A list in ascending order has no message twice, and stays in order when a
\* later one is added.
LEMMA AscAppend ==
  ASSUME NEW s \in Seq(Message), Asc(s), NEW e \in Message,
         \A m \in Elems(s) : m.no < e.no
  PROVE  Asc(Append(s, e))
<1>1. /\ Len(s) \in Nat /\ Len(Append(s, e)) = Len(s) + 1
      /\ Append(s, e)[Len(s) + 1] = e
      /\ \A i \in 1..Len(s) : Append(s, e)[i] = s[i] /\ s[i] \in Elems(s)
  BY DEF Elems
<1> QED BY <1>1 DEF Asc

LEMMA ListAppend ==
  ASSUME NEW s \in Seq(Message), NEW e \in Message
  PROVE  /\ Append(s, e) \in Seq(Message) /\ Append(s, e) # <<>>
         /\ Elems(Append(s, e)) = Elems(s) \cup {e}
BY ElemsAppend

\* A message is handed to the socket ...
LEMMA MailSent ==
  ASSUME NEW p \in Port, NEW w, NEW n, Mail(p, w, <<>>, n),
         NEW L, Accounted(p, w, <<>>, n, L)
  PROVE  /\ Mail(p, Append(w, Msg(p, n + 1)), <<>>, n + 1)
         /\ Accounted(p, Append(w, Msg(p, n + 1)), <<>>, n + 1, L)
<1> DEFINE e == Msg(p, n + 1)
           r == Append(w, e)
<1>1. /\ w \in Seq(Message) /\ n \in Nat /\ Asc(w) /\ Elems(<<>>) = {}
      /\ \A m \in Elems(w) : m.to = p /\ m.no \in 1..n
  BY DEF Mail, Elems
<1>2. e \in Message /\ e.to = p /\ e.no = n + 1
  BY <1>1 DEF Message, Msg
<1>3. r \in Seq(Message) /\ Elems(r) = Elems(w) \cup {e}
  BY <1>1, <1>2, ListAppend
<1>4. Asc(r)
  BY <1>1, <1>2, AscAppend
<1>5. \A m \in L : m.to = p => m.no \in 1..n
  BY DEF Accounted
<1>6. ASSUME NEW i \in 1..n + 1
      PROVE  Msg(p, i) \in Elems(r) \cup Elems(<<>>) <=> Msg(p, i) \notin L
  <2>1. Msg(p, i).to = p /\ Msg(p, i).no = i
    BY DEF Msg
  <2>2. CASE i = n + 1
    BY <1>1, <1>3, <1>5, <2>1, <2>2
  <2>3. CASE i # n + 1
    <3>1. i \in 1..n /\ Msg(p, i) # e
      BY <1>1, <1>2, <2>1, <2>3
    <3>2. Msg(p, i) \in Elems(w) \cup Elems(<<>>) <=> Msg(p, i) \notin L
      BY <3>1 DEF Accounted, Msg
    <3> QED BY <1>3, <3>1, <3>2
  <2> QED BY <2>2, <2>3
<1> HIDE DEF r, e
<1>7. Mail(p, r, <<>>, n + 1)
  <2>1. <<>> \in Seq(Message) /\ Asc(<<>>)
    BY DEF Asc
  <2> QED BY <1>1, <1>2, <1>3, <1>4, <2>1 DEF Mail
<1>8. Accounted(p, r, <<>>, n + 1, L)
  BY <1>1, <1>5, <1>6 DEF Accounted, Msg
<1> QED BY <1>7, <1>8 DEF r, e

\* ... or joins the queue.
LEMMA MailQueued ==
  ASSUME NEW p \in Port, NEW w, NEW q, NEW n, Mail(p, w, q, n),
         NEW L, Accounted(p, w, q, n, L)
  PROVE  /\ Mail(p, w, Append(q, Msg(p, n + 1)), n + 1)
         /\ Accounted(p, w, Append(q, Msg(p, n + 1)), n + 1, L)
<1> DEFINE e == Msg(p, n + 1)
           r == Append(q, e)
<1>1. /\ w \in Seq(Message) /\ q \in Seq(Message) /\ n \in Nat
      /\ Asc(w) /\ Asc(q)
      /\ \A m \in Elems(w) \cup Elems(q) : m.to = p /\ m.no \in 1..n
      /\ \A m \in Elems(w), l \in Elems(q) : m.no < l.no
  BY DEF Mail
<1>2. e \in Message /\ e.to = p /\ e.no = n + 1
  BY <1>1 DEF Message, Msg
<1>3. r \in Seq(Message) /\ Elems(r) = Elems(q) \cup {e}
  BY <1>1, <1>2, ListAppend
<1>4. Asc(r)
  BY <1>1, <1>2, AscAppend
<1>5. \A m \in L : m.to = p => m.no \in 1..n
  BY DEF Accounted
<1>6. ASSUME NEW i \in 1..n + 1
      PROVE  Msg(p, i) \in Elems(w) \cup Elems(r) <=> Msg(p, i) \notin L
  <2>1. Msg(p, i).to = p /\ Msg(p, i).no = i
    BY DEF Msg
  <2>2. CASE i = n + 1
    BY <1>1, <1>3, <1>5, <2>1, <2>2
  <2>3. CASE i # n + 1
    <3>1. i \in 1..n /\ Msg(p, i) # e
      BY <1>1, <1>2, <2>1, <2>3
    <3>2. Msg(p, i) \in Elems(w) \cup Elems(q) <=> Msg(p, i) \notin L
      BY <3>1 DEF Accounted, Msg
    <3> QED BY <1>3, <3>1, <3>2
  <2> QED BY <2>2, <2>3
<1> HIDE DEF r, e
<1>7. Mail(p, w, r, n + 1)
  BY <1>1, <1>2, <1>3, <1>4 DEF Mail
<1>8. Accounted(p, w, r, n + 1, L)
  BY <1>1, <1>5, <1>6 DEF Accounted, Msg
<1> QED BY <1>7, <1>8 DEF r, e

\* A queue is dropped.
LEMMA MailDropped ==
  ASSUME NEW p \in Port, NEW w, NEW q, NEW n, Mail(p, w, q, n),
         NEW L, Accounted(p, w, q, n, L)
  PROVE  /\ Mail(p, w, <<>>, n)
         /\ Accounted(p, w, <<>>, n, L \cup Elems(q))
<1>1. Elems(<<>>) = {} /\ <<>> \in Seq(Message) /\ Asc(<<>>)
  BY DEF Elems, Asc
<1>2. Mail(p, w, <<>>, n)
  BY <1>1 DEF Mail
<1>3. \A m \in L \cup Elems(q) : m.to = p => m.no \in 1..n
  BY DEF Accounted, Mail
<1>4. ASSUME NEW i \in 1..n
      PROVE  Msg(p, i) \in Elems(w) <=> Msg(p, i) \notin L \cup Elems(q)
  <2>1. Msg(p, i) \in Elems(w) \cup Elems(q) <=> Msg(p, i) \notin L
    BY DEF Accounted, Msg
  <2>2. Msg(p, i) \in Elems(w) => Msg(p, i) \notin Elems(q)
    <3>1. Msg(p, i).no = i /\ i \in Int
      BY DEF Msg
    <3> QED BY <3>1 DEF Mail
  <2> QED BY <2>1, <2>2
<1> QED BY <1>1, <1>2, <1>3, <1>4 DEF Accounted, Msg

\* What is lost of others does not matter.
LEMMA MailApart ==
  ASSUME NEW p, NEW w, NEW q, NEW n, NEW L, Accounted(p, w, q, n, L),
         NEW K, \A m \in K : m.to # p
  PROVE  Accounted(p, w, q, n, L \cup K)
<1>1. \A m \in L \cup K : m.to = p => m.no \in 1..n
  BY DEF Accounted
<1>2. \A i \in 1..n : Msg(p, i) \notin K
  BY DEF Msg
<1> QED BY <1>1, <1>2 DEF Accounted, Msg

\* The first k messages of a queue leave for the socket, in the order f, but
\* for those at D, which are dropped.
Departing(p, w, q, n, L, k, D, f) ==
  /\ p \in Port /\ Mail(p, w, q, n) /\ Accounted(p, w, q, n, L)
  /\ k \in 0..Len(q) /\ D \in SUBSET (1..k) /\ f \in InTurn((1..k) \ D)

\* The messages at places D.
At(q, D) == {q[j] : j \in D}

Departed(p, w, q, n, L, k, D, f) ==
  LET r == w \o Pick(q, f)
      left == SubSeq(q, k + 1, Len(q))
      K == At(q, D)
  IN  /\ Mail(p, r, left, n) /\ Accounted(p, r, left, n, L \cup K)
      /\ K \subseteq Elems(q) /\ Len(left) = Len(q) - k

LEMMA MailResumed ==
  ASSUME NEW p, NEW w, NEW q, NEW n, NEW L, NEW k, NEW D, NEW f,
         Departing(p, w, q, n, L, k, D, f)
  PROVE  Departed(p, w, q, n, L, k, D, f)
<1> DEFINE S == (1..k) \ D
           c == Cardinality(S)
           g == Pick(q, f)
           r == w \o g
           left == SubSeq(q, k + 1, Len(q))
           K == At(q, D)
<1> SUFFICES ASSUME p \in Port, Mail(p, w, q, n), Accounted(p, w, q, n, L),
                    k \in 0..Len(q), D \in SUBSET (1..k),
                    f \in InTurn((1..k) \ D)
             PROVE  /\ Mail(p, r, left, n) /\ Accounted(p, r, left, n, L \cup K)
                    /\ K \subseteq Elems(q) /\ Len(left) = Len(q) - k
  BY DEF Departing, Departed
<1>1. /\ w \in Seq(Message) /\ q \in Seq(Message) /\ n \in Nat
      /\ Asc(w) /\ Asc(q)
      /\ \A m \in Elems(w) \cup Elems(q) : m.to = p /\ m.no \in 1..n
      /\ \A m \in Elems(w), l \in Elems(q) : m.no < l.no
  BY DEF Mail
<1>2. /\ Len(w) \in Nat /\ Len(q) \in Nat /\ k \in Nat /\ k <= Len(q)
      /\ \A i \in 1..Len(w) : w[i] \in Elems(w) /\ w[i] \in Message
      /\ \A i \in 1..Len(q) : q[i] \in Elems(q) /\ q[i] \in Message
      /\ \A m \in Elems(w) : \E i \in 1..Len(w) : m = w[i]
      /\ \A m \in Elems(q) : \E i \in 1..Len(q) : m = q[i]
  BY MailTypes
<1>3. c \in Nat
  <2>1. IsFiniteSet(1..k)
    BY <1>2, FS_Interval
  <2>2. IsFiniteSet(S)
    BY <2>1, FS_Subset
  <2> QED BY <2>2, FS_CardinalityType
<1>4. /\ DOMAIN f = 1..c /\ \A j \in 1..c : f[j] \in S
      /\ \A j, l \in 1..c : j < l => f[j] < f[l]
      /\ \A x \in S : \E j \in 1..c : f[j] = x
  BY DEF InTurn
<1>5. S \subseteq 1..Len(q) /\ D \subseteq 1..Len(q) /\ \A x \in S : x \notin D
  BY <1>2
<1> HIDE DEF S, c
<1>6. /\ g \in Seq(Message) /\ Len(g) = c
      /\ \A j \in 1..c : g[j] = q[f[j]] /\ g[j] \in Elems(q)
  <2>1. g = [j \in 1..c |-> q[f[j]]] /\ \A j \in 1..c : q[f[j]] \in Message
    BY <1>2, <1>4, <1>5 DEF Pick
  <2>2. g \in [1..c -> Message]
    BY <2>1
  <2>3. g \in Seq(Message) /\ Len(g) = c
    BY <1>3, <2>1, <2>2
  <2>4. \A j \in 1..c : g[j] = q[f[j]]
    BY <2>1
  <2>5. \A j \in 1..c : q[f[j]] \in Elems(q)
    BY <1>2, <1>4, <1>5
  <2> QED BY <2>3, <2>4, <2>5
<1> HIDE DEF g
<1>7. /\ r \in Seq(Message) /\ Len(r) = Len(w) + c
      /\ \A i \in 1..Len(r) : r[i] = IF i <= Len(w) THEN w[i]
                                     ELSE g[i - Len(w)]
  <2>1. /\ r \in Seq(Message) /\ Len(r) = Len(w) + Len(g)
        /\ \A i \in 1..Len(w) + Len(g) :
              r[i] = IF i <= Len(w) THEN w[i] ELSE g[i - Len(w)]
    BY <1>1, <1>6, ConcatProperties
  <2>2. Len(g) = c
    BY <1>6
  <2> QED BY <2>1, <2>2
<1> HIDE DEF r
<1>8. /\ left \in Seq(Message) /\ Len(left) = Len(q) - k
      /\ \A i \in 1..Len(q) - k : left[i] = q[k + i]
  <2>1. \A i \in k + 1..Len(q) : q[i] \in Message
    BY <1>2
  <2>2. k + 1 \in Int /\ Len(q) \in Int
    BY <1>2
  <2>3. /\ left \in Seq(Message)
        /\ Len(left) = IF k + 1 <= Len(q) THEN Len(q) - (k + 1) + 1 ELSE 0
        /\ \A i \in 1..Len(q) - (k + 1) + 1 : left[i] = q[k + 1 + i - 1]
    BY <2>1, <2>2, SubSeqProperties
  <2> QED BY <1>2, <2>3
<1> HIDE DEF left
<1>9. Elems(r) = Elems(w) \cup {q[j] : j \in S}
  <2>1. ASSUME NEW m \in Elems(r) PROVE m \in Elems(w) \cup {q[j] : j \in S}
    <3>1. PICK i \in 1..Len(r) : m = r[i]
      BY DEF Elems
    <3>2. CASE i <= Len(w)
      BY <1>2, <1>7, <3>1, <3>2
    <3>3. CASE i > Len(w)
      <4>1. i - Len(w) \in 1..c /\ m = g[i - Len(w)]
        BY <1>2, <1>3, <1>7, <3>1, <3>3
      <4> QED BY <1>4, <1>6, <4>1
    <3> QED BY <1>2, <3>2, <3>3
  <2>2. ASSUME NEW m \in Elems(w) PROVE m \in Elems(r)
    <3>1. PICK i \in 1..Len(w) : m = w[i]
      BY <1>2
    <3>2. i \in 1..Len(r) /\ r[i] = m
      BY <1>2, <1>3, <1>7, <3>1
    <3> QED BY <3>2 DEF Elems
  <2>3. ASSUME NEW j \in S PROVE q[j] \in Elems(r)
    <3>1. PICK l \in 1..c : f[l] = j
      BY <1>4
    <3>2. Len(w) + l \in 1..Len(r) /\ r[Len(w) + l] = q[j]
      BY <1>2, <1>3, <1>6, <1>7, <3>1
    <3> QED BY <3>2 DEF Elems
  <2> QED BY <2>1, <2>2, <2>3
<1>10. Elems(left) = {q[j] : j \in k + 1..Len(q)}
  <2>1. ASSUME NEW m \in Elems(left) PROVE m \in {q[j] : j \in k + 1..Len(q)}
    <3>1. PICK i \in 1..Len(left) : m = left[i]
      BY DEF Elems
    <3> QED BY <1>2, <1>8, <3>1
  <2>2. ASSUME NEW j \in k + 1..Len(q) PROVE q[j] \in Elems(left)
    <3>1. j - k \in 1..Len(left) /\ left[j - k] = q[j]
      BY <1>2, <1>8
    <3> QED BY <3>1 DEF Elems
  <2> QED BY <2>1, <2>2
<1>11. /\ Elems(r) \subseteq Elems(w) \cup Elems(q)
       /\ Elems(left) \subseteq Elems(q) /\ K \subseteq Elems(q)
  <2>1. \A j \in S : q[j] \in Elems(q)
    BY <1>2, <1>5
  <2>2. \A j \in D : q[j] \in Elems(q)
    BY <1>2, <1>5
  <2>3. \A j \in k + 1..Len(q) : q[j] \in Elems(q)
    BY <1>2
  <2>4. Elems(r) \subseteq Elems(w) \cup Elems(q)
    BY <1>9, <2>1
  <2>5. Elems(left) \subseteq Elems(q)
    BY <1>10, <2>3
  <2> QED BY <2>2, <2>4, <2>5 DEF At
<1>12. \A i, j \in 1..Len(q) : q[i].no < q[j].no <=> i < j
  <2>1. \A i \in 1..Len(q) : q[i].no \in Nat
    BY <1>2 DEF Message
  <2>2. \A i, j \in 1..Len(q) : i < j => q[i].no < q[j].no
    BY <1>1 DEF Asc
  <2>3. \A i, j \in 1..Len(q) : i < j \/ i = j \/ j < i
    BY <1>2
  <2> QED BY <2>1, <2>2, <2>3
<1>13. Mail(p, r, left, n)
  <2>1. Asc(r)
    <3> SUFFICES ASSUME NEW i \in 1..Len(r), NEW j \in 1..Len(r), i < j
                 PROVE  r[i].no < r[j].no
      BY DEF Asc
    <3>1. CASE j <= Len(w)
      BY <1>1, <1>2, <1>3, <1>7, <3>1 DEF Asc
    <3>2. CASE i <= Len(w) /\ j > Len(w)
      <4>1. j - Len(w) \in 1..c /\ r[j] = g[j - Len(w)]
        BY <1>2, <1>3, <1>7, <3>2
      <4> QED BY <1>1, <1>2, <1>3, <1>6, <1>7, <3>2, <4>1
    <3>3. CASE i > Len(w)
      <4>1. /\ i - Len(w) \in 1..c /\ r[i] = g[i - Len(w)]
            /\ j - Len(w) \in 1..c /\ r[j] = g[j - Len(w)]
            /\ i - Len(w) < j - Len(w)
        BY <1>2, <1>3, <1>7, <3>3
      <4>2. /\ f[i - Len(w)] \in 1..Len(q) /\ f[j - Len(w)] \in 1..Len(q)
            /\ f[i - Len(w)] < f[j - Len(w)]
        BY <1>4, <1>5, <4>1
      <4>3. q[f[i - Len(w)]].no < q[f[j - Len(w)]].no
        BY <1>12, <4>2
      <4> QED BY <1>6, <4>1, <4>3
    <3> QED BY <1>2, <1>3, <1>7, <3>1, <3>2, <3>3
  <2>2. Asc(left)
    <3> SUFFICES ASSUME NEW i \in 1..Len(left), NEW j \in 1..Len(left), i < j
                 PROVE  left[i].no < left[j].no
      BY DEF Asc
    <3>1. /\ k + i \in 1..Len(q) /\ k + j \in 1..Len(q) /\ k + i < k + j
          /\ left[i] = q[k + i] /\ left[j] = q[k + j]
      BY <1>2, <1>8
    <3>2. q[k + i].no < q[k + j].no
      BY <1>12, <3>1
    <3> QED BY <3>1, <3>2
  <2>3. ASSUME NEW m \in Elems(r), NEW l \in Elems(left) PROVE m.no < l.no
    <3>1. PICK j \in k + 1..Len(q) : l = q[j]
      BY <1>10
    <3>2. CASE m \in Elems(w)
      BY <1>1, <1>11, <3>2
    <3>3. CASE m \in {q[i] : i \in S}
      <4>1. PICK i \in S : m = q[i]
        BY <3>3
      <4>2. i \in 1..k
        BY DEF S
      <4> QED BY <1>2, <1>5, <1>12, <3>1, <4>1, <4>2
    <3> QED BY <1>9, <3>2, <3>3
  <2> QED BY <1>1, <1>7, <1>8, <1>11, <2>1, <2>2, <2>3 DEF Mail
<1>14. Accounted(p, r, left, n, L \cup K)
  <2>1. \A m \in L \cup K : m.to = p => m.no \in 1..n
    BY <1>1, <1>11 DEF Accounted
  <2>2. ASSUME NEW i \in 1..n
        PROVE  Msg(p, i) \in Elems(r) \cup Elems(left)
                 <=> Msg(p, i) \notin L \cup K
    <3>1. Msg(p, i) \in Elems(w) \cup Elems(q) <=> Msg(p, i) \notin L
      BY DEF Accounted, Msg
    <3>2. Msg(p, i).no = i /\ i \in Int
      BY DEF Msg
    <3>3. ASSUME Msg(p, i) \in Elems(w) PROVE Msg(p, i) \notin K
      BY <1>1, <1>11, <3>2, <3>3
    <3>4. ASSUME NEW j \in 1..Len(q), j \notin D, Msg(p, i) = q[j]
          PROVE  Msg(p, i) \notin K
      <4> SUFFICES ASSUME NEW x \in D, q[x] = q[j] PROVE FALSE
        BY <3>4 DEF At
      <4>1. x \in 1..Len(q) /\ x # j
        BY <1>5, <3>4 DEF At
      <4>2. x < j \/ j < x
        BY <1>2, <4>1
      <4>3. q[x].no < q[j].no \/ q[j].no < q[x].no
        BY <1>12, <4>1, <4>2
      <4> QED BY <3>2, <3>4, <4>3
    <3>5. ASSUME NEW j \in 1..Len(q), j \notin D
          PROVE  q[j] \in Elems(r) \cup Elems(left)
      <4>1. j \in S \/ j \in k + 1..Len(q)
        BY <1>2, <3>5 DEF S
      <4> QED BY <1>9, <1>10, <4>1
    <3>6. ASSUME Msg(p, i) \in Elems(r) \cup Elems(left),
                 Msg(p, i) \notin Elems(w)
          PROVE  \E j \in 1..Len(q) : j \notin D /\ Msg(p, i) = q[j]
      <4>1. CASE Msg(p, i) \in Elems(left)
        BY <1>2, <1>10, <4>1
      <4>2. CASE Msg(p, i) \in Elems(r)
        BY <1>5, <1>9, <3>6, <4>2
      <4> QED BY <3>6, <4>1, <4>2
    <3>7. ASSUME Msg(p, i) \in Elems(r) \cup Elems(left)
          PROVE  Msg(p, i) \notin L \cup K
      BY <1>11, <3>1, <3>3, <3>4, <3>6, <3>7
    <3>8. ASSUME Msg(p, i) \notin L \cup K
          PROVE  Msg(p, i) \in Elems(r) \cup Elems(left)
      <4>1. CASE Msg(p, i) \in Elems(w)
        BY <1>9, <4>1
      <4>2. CASE Msg(p, i) \in Elems(q)
        <5>1. PICK j \in 1..Len(q) : Msg(p, i) = q[j]
          BY <1>2, <4>2
        <5>2. j \notin D
          BY <3>8, <5>1 DEF At
        <5> QED BY <3>5, <5>1, <5>2
      <4> QED BY <3>1, <3>8, <4>1, <4>2
    <3> QED BY <3>7, <3>8
  <2> QED BY <2>1, <2>2 DEF Accounted, Msg
<1> QED BY <1>8, <1>11, <1>13, <1>14 DEF r, left, g, K

------------------------------------------------------------------------------
(* Steps of the transport.                                                 *)

\* The list after the destination at i became e.
LEMMA ListChange ==
  ASSUME NEW q \in Seq(Dest), NEW i \in 1..Len(q), NEW e \in Dest
  PROVE  LET r == [q EXCEPT ![i] = e]
         IN  /\ r \in Seq(Dest) /\ Len(r) = Len(q) /\ r[i] = e
             /\ \A j \in 1..Len(q) : j # i => r[j] = q[j]
OBVIOUS

\* The parts of the invariant that speak of queues.
QueueState == QueueType /\ PointerPart /\ TendPart /\ MailPart /\ LossPart

\* put_tx_q: the message joins its client's queue, or is refused and the
\* queue remembers it.
LEMMA PutKeeps ==
  ASSUME QueueState, NEW x \in Live, NEW limited, NEW rc,
         PutTxQ(x, Msg(mem[x], sent[mem[x]] + 1), limited, rc)
  PROVE  /\ Proper(mem, tx_q', Live)
         /\ \A a : a # mem[x] => BufsOf(mem, tx_q', a) = BufsOf(mem, tx_q, a)
         /\ BufsOf(mem, tx_q', mem[x]) # <<>>
         /\ \A a : BusyOf(mem, tx_q, a) => BusyOf(mem, tx_q', a)
         /\ \/ /\ rc = "busy" /\ BusyOf(mem, tx_q', mem[x])
               /\ BufsOf(mem, tx_q', mem[x]) = BufsOf(mem, tx_q, mem[x])
            \/ /\ rc = "ok"
               /\ BufsOf(mem, tx_q', mem[x]) =
                    Append(BufsOf(mem, tx_q, mem[x]),
                           Msg(mem[x], sent[mem[x]] + 1))
<1> DEFINE p == mem[x]
           msg == Msg(p, sent[p] + 1)
           i == FindTxQ(mem, p)
           q == tx_q
<1>1. p \in Port /\ x \in Slot /\ sent[p] \in Nat /\ Proper(mem, q, Live)
  BY DEF QueueState, QueueType, PointerPart, Live
<1>2. msg \in Message
  BY <1>1 DEF Msg, Message
<1>3. \/ /\ i = 0 /\ BufsOf(mem, q, p) = <<>>
         /\ \A d \in Elems(q) : mem[d.dest_addr] # p
      \/ /\ i \in 1..Len(q) /\ q[i] \in Elems(q)
         /\ mem[q[i].dest_addr] = p /\ BufsOf(mem, q, p) = q[i].bufs
  BY <1>1, Found
<1>4. q \in Seq(Dest) /\ Len(q) \in Nat /\ \A d \in Elems(q) : d \in Dest
  BY <1>1, DestTypes DEF Proper
<1>5. CASE i = 0
  <2> DEFINE d == [dest_addr |-> x, bufs |-> <<msg>>, dest_busy |-> FALSE]
  <2>1. rc = "ok" /\ tx_q' = Append(q, d)
    BY <1>1, <1>5 DEF PutTxQ
  <2>2. d \in Dest /\ d.dest_addr = x /\ d.bufs = <<msg>> /\ d.bufs # <<>>
    BY <1>1, <1>2 DEF Dest
  <2>3. BufsOf(mem, q, p) = <<>>
    BY <1>3, <1>5
  <2> HIDE DEF d
  <2>a. /\ d \in Dest /\ d.dest_addr \in Live /\ d.bufs # <<>>
        /\ \A e \in Elems(q) : mem[e.dest_addr] # mem[d.dest_addr]
    BY <1>3, <1>5, <2>2
  <2>b. /\ Proper(mem, tx_q', Live)
        /\ \A a : BufsOf(mem, tx_q', a) = IF a = mem[d.dest_addr] THEN d.bufs
                                          ELSE BufsOf(mem, q, a)
        /\ \A a : BusyOf(mem, q, a) => BusyOf(mem, tx_q', a)
    <3>1. Added(mem, q, Live, d, tx_q')
      BY <1>1, <2>1, <2>a DEF Added
    <3> QED BY <3>1, AddDest
  <2>4. /\ Proper(mem, tx_q', Live)
        /\ \A a : BufsOf(mem, tx_q', a) = IF a = p THEN <<msg>>
                                          ELSE BufsOf(mem, q, a)
        /\ \A a : BusyOf(mem, q, a) => BusyOf(mem, tx_q', a)
    BY <2>2, <2>b
  <2>5. Append(<<>>, msg) = <<msg>> /\ <<msg>> # <<>>
    OBVIOUS
  <2> QED BY <2>1, <2>3, <2>4, <2>5
<1>6. CASE i \in 1..Len(q)
  <2> DEFINE d == q[i]
  <2>1. /\ d \in Dest /\ d \in Elems(q) /\ d.bufs \in Seq(Message)
        /\ d.dest_addr \in Slot /\ d.dest_busy \in BOOLEAN
        /\ mem[d.dest_addr] = p /\ BufsOf(mem, q, p) = d.bufs
        /\ d.bufs # <<>> /\ i # 0
    BY <1>1, <1>3, <1>4, <1>6 DEF Dest, Proper
  <2>2. \/ /\ rc = "busy"
           /\ tx_q' = [q EXCEPT ![i].dest_busy = TRUE]
        \/ /\ rc = "ok"
           /\ tx_q' = [q EXCEPT ![i].bufs = Append(@, msg)]
    BY <2>1 DEF PutTxQ
  <2> HIDE DEF d
  <2>3. CASE /\ rc = "busy"
             /\ tx_q' = [q EXCEPT ![i].dest_busy = TRUE]
    <3> DEFINE e == [d EXCEPT !.dest_busy = TRUE]
    <3>1. tx_q' = [q EXCEPT ![i] = e]
      BY <2>3 DEF d
    <3>2. /\ e \in Dest /\ e.dest_addr = q[i].dest_addr
          /\ e.bufs = d.bufs /\ e.bufs # <<>> /\ e.dest_busy = TRUE
      BY <1>2, <2>1, ListAppend DEF d, Dest
    <3> HIDE DEF e
    <3>3. /\ tx_q' \in Seq(Dest) /\ Len(tx_q') = Len(q) /\ tx_q'[i] = e
          /\ \A j \in 1..Len(q) : j # i => tx_q'[j] = q[j]
      BY <1>4, <1>6, <3>1, <3>2, ListChange
    <3>4. /\ Proper(mem, tx_q', Live)
          /\ \A a : BufsOf(mem, tx_q', a) = IF a = mem[e.dest_addr] THEN e.bufs
                                            ELSE BufsOf(mem, q, a)
          /\ \A a : BusyOf(mem, q, a) /\ (a = mem[e.dest_addr] => e.dest_busy)
                      => BusyOf(mem, tx_q', a)
          /\ e.dest_busy => BusyOf(mem, tx_q', mem[e.dest_addr])
      <4>1. Changed(mem, q, Live, i, e, tx_q')
        BY <1>1, <1>6, <3>2, <3>3 DEF Changed
      <4> QED BY <4>1, ChangeDest
    <3>5. mem[e.dest_addr] = p
      BY <2>1, <3>2 DEF d
    <3> QED BY <2>1, <2>3, <3>2, <3>4, <3>5
  <2>4. CASE /\ rc = "ok"
             /\ tx_q' = [q EXCEPT ![i].bufs = Append(@, msg)]
    <3> DEFINE e == [d EXCEPT !.bufs = Append(d.bufs, msg)]
    <3>1. tx_q' = [q EXCEPT ![i] = e]
      BY <2>4 DEF d
    <3>2. /\ e \in Dest /\ e.dest_addr = q[i].dest_addr
          /\ e.bufs = Append(d.bufs, msg) /\ e.bufs # <<>> /\ e.dest_busy = d.dest_busy
      BY <1>2, <2>1, ListAppend DEF d, Dest
    <3> HIDE DEF e
    <3>3. /\ tx_q' \in Seq(Dest) /\ Len(tx_q') = Len(q) /\ tx_q'[i] = e
          /\ \A j \in 1..Len(q) : j # i => tx_q'[j] = q[j]
      BY <1>4, <1>6, <3>1, <3>2, ListChange
    <3>4. /\ Proper(mem, tx_q', Live)
          /\ \A a : BufsOf(mem, tx_q', a) = IF a = mem[e.dest_addr] THEN e.bufs
                                            ELSE BufsOf(mem, q, a)
          /\ \A a : BusyOf(mem, q, a) /\ (a = mem[e.dest_addr] => e.dest_busy)
                      => BusyOf(mem, tx_q', a)
          /\ e.dest_busy => BusyOf(mem, tx_q', mem[e.dest_addr])
      <4>1. Changed(mem, q, Live, i, e, tx_q')
        BY <1>1, <1>6, <3>2, <3>3 DEF Changed
      <4> QED BY <4>1, ChangeDest
    <3>5. mem[e.dest_addr] = p
      BY <2>1, <3>2 DEF d
    <3>6. BusyOf(mem, q, p) => d.dest_busy
      BY <1>1, <2>1 DEF BusyOf, Proper
    <3> QED BY <2>1, <2>4, <3>2, <3>4, <3>5, <3>6
  <2> QED BY <2>2, <2>3, <2>4
<1> QED BY <1>3, <1>5, <1>6

\* A message is accepted for one client, in wire or in its queue.
LEMMA MailMoves ==
  ASSUME QueueState, NEW p \in Port,
         UNCHANGED <<mem, obj, lost>>,
         wire' \in [Port -> Seq(Message)],
         Proper(mem, tx_q', Live),
         \A a \in Port \ {p} :
           /\ BufsOf(mem, tx_q', a) = BufsOf(mem, tx_q, a)
           /\ wire'[a] = wire[a] /\ sent'[a] = sent[a],
         \/ /\ sent'[p] = sent[p] /\ wire'[p] = wire[p]
            /\ BufsOf(mem, tx_q', p) = BufsOf(mem, tx_q, p)
         \/ /\ sent'[p] = sent[p] + 1 /\ wire'[p] = wire[p]
            /\ BufsOf(mem, tx_q', p) = Append(BufsOf(mem, tx_q, p),
                                              Msg(p, sent[p] + 1))
         \/ /\ sent'[p] = sent[p] + 1
            /\ wire'[p] = Append(wire[p], Msg(p, sent[p] + 1))
            /\ BufsOf(mem, tx_q, p) = <<>> /\ BufsOf(mem, tx_q', p) = <<>>
  PROVE  PointerPart' /\ MailPart' /\ LossPart'
<1> DEFINE b(a) == BufsOf(mem, tx_q, a)
           c(a) == BufsOf(mem, tx_q', a)
<1>1. \A a \in Port : /\ Mail(a, wire[a], b(a), sent[a])
                      /\ Accounted(a, wire[a], b(a), sent[a], lost)
  BY DEF QueueState, MailPart, LossPart
<1>2. Live' = Live
  BY DEF Live
<1>3. ASSUME NEW a \in Port
      PROVE  /\ Mail(a, wire'[a], c(a), sent'[a])
             /\ Accounted(a, wire'[a], c(a), sent'[a], lost)
  <2>1. CASE a # p
    BY <1>1, <2>1
  <2>2. CASE a = p
    <3> DEFINE w == wire[p]
               q == b(p)
               n == sent[p]
    <3>1. Mail(p, w, q, n) /\ Accounted(p, w, q, n, lost)
      BY <1>1
    <3> HIDE DEF w, q, n, b, c
    <3>2. /\ Mail(p, w, Append(q, Msg(p, n + 1)), n + 1)
          /\ Accounted(p, w, Append(q, Msg(p, n + 1)), n + 1, lost)
      BY <3>1, MailQueued
    <3>3. q = <<>> => /\ Mail(p, Append(w, Msg(p, n + 1)), <<>>, n + 1)
                      /\ Accounted(p, Append(w, Msg(p, n + 1)), <<>>, n + 1,
                                   lost)
      BY <3>1, MailSent
    <3> QED BY <2>2, <3>1, <3>2, <3>3 DEF w, q, n, b, c
  <2> QED BY <2>1, <2>2
<1> QED BY <1>2, <1>3 DEF PointerPart, MailPart, LossPart

\* xport_send for a client that is alive.
LEMMA SendKeeps ==
  ASSUME QueueState, UNCHANGED obj, NEW x \in Live, NEW limited, NEW rc,
         XportSend(x, mem[x], limited, rc)
  PROVE  /\ QueueType' <=> bcast' \in Seq(Slot)
         /\ PointerPart' /\ TendPart' /\ MailPart' /\ LossPart'
         /\ UNCHANGED <<mem, open, lost>>
         /\ \A a \in Port \ open :
              BufsOf(mem, tx_q, a) = <<>> => BufsOf(mem, tx_q', a) = <<>>
         /\ \A a : BusyOf(mem, tx_q, a) => BusyOf(mem, tx_q', a)
         /\ rc = "busy" => BusyOf(mem, tx_q', mem[x])
<1> DEFINE p == mem[x]
           msg == Msg(p, sent[p] + 1)
           i == FindTxQ(mem, p)
           Put == PutTxQ(x, msg, limited, rc)
<1>1. /\ p \in Port /\ sent \in [Port -> Nat] /\ wire \in [Port -> Seq(Message)]
      /\ Proper(mem, tx_q, Live) /\ blocked \subseteq open /\ open \subseteq Port
  BY DEF QueueState, QueueType, PointerPart
<1>2. /\ sent' = IF rc = "ok" THEN [sent EXCEPT ![p] = @ + 1] ELSE sent
      /\ UNCHANGED <<mem, open, blocked, resume_evt, blocks, lost>>
  BY DEF XportSend, Accept
<1>3. msg = [to |-> p, no |-> sent[p] + 1] /\ msg \in Message
  BY <1>1 DEF Msg, Message
<1>4. \/ /\ i = 0 /\ BufsOf(mem, tx_q, p) = <<>>
      \/ /\ i # 0 /\ tx_q[i].bufs # <<>>
         /\ BufsOf(mem, tx_q, p) = tx_q[i].bufs
  <2>1. CASE i = 0 /\ BufsOf(mem, tx_q, p) = <<>>
    BY <2>1
  <2>2. CASE /\ i \in 1..Len(tx_q) /\ tx_q[i] \in Elems(tx_q)
             /\ BufsOf(mem, tx_q, p) = tx_q[i].bufs
    <3>1. i # 0
      BY <1>1, <2>2, DestTypes DEF Proper
    <3> QED BY <1>1, <2>2, <3>1 DEF Proper
  <2> QED BY <1>1, <2>1, <2>2, Found
<1>5. \/ Put /\ UNCHANGED <<wire, waiter>> /\ BufsOf(mem, tx_q, p) # <<>>
      \/ /\ BufsOf(mem, tx_q, p) = <<>> /\ p \notin blocked
         /\ wire' = [wire EXCEPT ![p] = Append(@, msg)]
         /\ rc = "ok" /\ UNCHANGED <<tx_q, waiter>>
      \/ /\ BufsOf(mem, tx_q, p) = <<>> /\ p \in blocked /\ Put
         /\ waiter' = waiter \cup {p} /\ UNCHANGED wire
      \/ rc = "err" /\ UNCHANGED <<tx_q, waiter, wire>>
  <2>1. XportSend(x, p, limited, rc)
    OBVIOUS
  <2>2. CASE i # 0
    BY <1>3, <1>4, <2>1, <2>2 DEF XportSend
  <2>3. CASE i = 0
    <3>1. TrySend(x, msg, limited, rc)
      BY <1>3, <2>1, <2>3 DEF XportSend
    <3> QED BY <1>4, <2>3, <3>1 DEF TrySend
  <2> QED BY <2>2, <2>3
<1>6. Put => /\ Proper(mem, tx_q', Live)
             /\ \A a : a # p => BufsOf(mem, tx_q', a) = BufsOf(mem, tx_q, a)
             /\ BufsOf(mem, tx_q', p) # <<>>
             /\ \A a : BusyOf(mem, tx_q, a) => BusyOf(mem, tx_q', a)
             /\ \/ /\ rc = "busy" /\ BusyOf(mem, tx_q', p)
                   /\ BufsOf(mem, tx_q', p) = BufsOf(mem, tx_q, p)
                \/ /\ rc = "ok"
                   /\ BufsOf(mem, tx_q', p) =
                        Append(BufsOf(mem, tx_q, p), msg)
  BY PutKeeps
<1> HIDE DEF Put, i, msg
<1>7. /\ wire' \in [Port -> Seq(Message)] /\ sent' \in [Port -> Nat]
      /\ \A a \in Port \ {p} : wire'[a] = wire[a] /\ sent'[a] = sent[a]
      /\ sent'[p] = IF rc = "ok" THEN sent[p] + 1 ELSE sent[p]
      /\ wire' = wire \/ wire'[p] = Append(wire[p], msg)
  <2>1. Append(wire[p], msg) \in Seq(Message)
    BY <1>1, <1>3
  <2>2. wire' = wire \/ wire' = [wire EXCEPT ![p] = Append(wire[p], msg)]
    BY <1>5
  <2>3. /\ wire' \in [Port -> Seq(Message)]
        /\ \A a \in Port \ {p} : wire'[a] = wire[a]
        /\ wire' = wire \/ wire'[p] = Append(wire[p], msg)
    BY <1>1, <2>1, <2>2
  <2>4. /\ sent' \in [Port -> Nat]
        /\ \A a \in Port \ {p} : sent'[a] = sent[a]
        /\ sent'[p] = IF rc = "ok" THEN sent[p] + 1 ELSE sent[p]
    BY <1>1, <1>2
  <2> QED BY <2>3, <2>4
<1>8. Live' = Live
  BY DEF Live
<1>9. QueueType' <=> bcast' \in Seq(Slot)
  BY <1>2, <1>7, <1>8 DEF QueueState, QueueType
<1>10. PointerPart' /\ MailPart' /\ LossPart'
  <2>1. UNCHANGED <<mem, obj, lost>> /\ QueueState
    BY <1>2
  <2>2. CASE Put /\ UNCHANGED wire
    BY <1>1, <1>6, <1>7, <2>1, <2>2, MailMoves DEF msg
  <2>3. CASE /\ BufsOf(mem, tx_q, p) = <<>> /\ rc = "ok" /\ UNCHANGED tx_q
             /\ wire' = [wire EXCEPT ![p] = Append(@, msg)]
    <3>1. wire'[p] = Append(wire[p], msg)
      BY <1>1, <2>3
    <3> QED BY <1>1, <1>7, <2>1, <2>3, <3>1, MailMoves DEF msg
  <2>4. CASE rc = "err" /\ UNCHANGED <<tx_q, wire>>
    BY <1>1, <1>7, <2>1, <2>4, MailMoves
  <2> QED BY <1>5, <2>2, <2>3, <2>4
<1>11. \A a \in Port \ open :
         BufsOf(mem, tx_q, a) = <<>> => BufsOf(mem, tx_q', a) = <<>>
  BY <1>1, <1>5, <1>6
<1>12. TendPart'
  <2> SUFFICES ASSUME NEW a \in open, BufsOf(mem, tx_q', a) # <<>>
               PROVE  a \in waiter' \cup resume_evt
    BY <1>2 DEF TendPart
  <2>1. BufsOf(mem, tx_q, a) # <<>> => a \in waiter \cup resume_evt
    BY DEF QueueState, TendPart
  <2> QED BY <1>5, <1>6, <2>1
<1>13. /\ \A a : BusyOf(mem, tx_q, a) => BusyOf(mem, tx_q', a)
       /\ rc = "busy" => BusyOf(mem, tx_q', p)
  BY <1>5, <1>6
<1> QED BY <1>2, <1>9, <1>10, <1>11, <1>12, <1>13

\* What steps say of the memory of objects: they do not move.
Still == \A s \in Slot : mem'[s] = mem[s]

LEMMA StillKeeps ==
  ASSUME QueueState, Still
  PROVE  /\ Proper(mem', tx_q, Live)
         /\ \A a : BufsOf(mem', tx_q, a) = BufsOf(mem, tx_q, a)
         /\ \A a : BusyOf(mem', tx_q, a) = BusyOf(mem, tx_q, a)
<1>1. Proper(mem, tx_q, Live) /\ Live \subseteq Slot
  BY DEF QueueState, PointerPart, Live
<1>2. \A d \in Elems(tx_q) : d.dest_addr \in Live
  BY <1>1 DEF Proper
<1>3. \A d \in Elems(tx_q) :
        d.dest_addr \in Live /\ mem'[d.dest_addr] = mem[d.dest_addr]
  BY <1>1, <1>2 DEF Still
<1>4. Alike(mem, mem', tx_q, Live, Live)
  BY <1>1, <1>3 DEF Alike
<1> QED BY <1>4, OtherMemory

\* What a port has waiting is its own.
LEMMA Own ==
  ASSUME QueueState, NEW p \in Port
  PROVE  /\ Mail(p, wire[p], BufsOf(mem, tx_q, p), sent[p])
         /\ Accounted(p, wire[p], BufsOf(mem, tx_q, p), sent[p], lost)
         /\ \A m \in Elems(BufsOf(mem, tx_q, p)) : m \in Message /\ m.to = p
<1>1. /\ Mail(p, wire[p], BufsOf(mem, tx_q, p), sent[p])
      /\ Accounted(p, wire[p], BufsOf(mem, tx_q, p), sent[p], lost)
  BY DEF QueueState, MailPart, LossPart
<1>2. \A m \in Elems(BufsOf(mem, tx_q, p)) : m \in Message
  BY <1>1, MailTypes
<1>3. \A m \in Elems(BufsOf(mem, tx_q, p)) : m.to = p
  BY <1>1 DEF Mail
<1> QED BY <1>1, <1>2, <1>3

\* The queue of one address is dropped or shortened, others stay.
LEMMA OthersKeep ==
  ASSUME QueueState, NEW a \in Port, UNCHANGED sent,
         NEW K, \A m \in K : m.to = a, lost' = lost \cup K,
         \A b \in Port \ {a} :
           wire'[b] = wire[b] /\ BufsOf(mem', tx_q', b) = BufsOf(mem, tx_q, b),
         Mail(a, wire'[a], BufsOf(mem', tx_q', a), sent[a]),
         Accounted(a, wire'[a], BufsOf(mem', tx_q', a), sent[a], lost \cup K)
  PROVE  MailPart' /\ LossPart'
<1>1. ASSUME NEW b \in Port, b # a
      PROVE  /\ Mail(b, wire'[b], BufsOf(mem', tx_q', b), sent[b])
             /\ Accounted(b, wire'[b], BufsOf(mem', tx_q', b), sent[b],
                          lost \cup K)
  <2>1. /\ Mail(b, wire[b], BufsOf(mem, tx_q, b), sent[b])
        /\ Accounted(b, wire[b], BufsOf(mem, tx_q, b), sent[b], lost)
    BY Own
  <2>2. \A m \in K : m.to # b
    BY <1>1
  <2>3. Accounted(b, wire[b], BufsOf(mem, tx_q, b), sent[b], lost \cup K)
    BY <2>1, <2>2, MailApart
  <2> QED BY <1>1, <2>1, <2>3
<1> QED BY <1>1 DEF MailPart, LossPart

\* purge_tx_q.
LEMMA PurgeKeeps ==
  ASSUME QueueState, Still, UNCHANGED <<obj, port, sent, wire>>,
         NEW a \in Port, PurgeTxQ(mem', a)
  PROVE  /\ PointerPart' /\ TendPart' /\ MailPart' /\ LossPart'
         /\ BufsOf(mem', tx_q', a) = <<>>
         /\ \A b : b # a => BufsOf(mem', tx_q', b) = BufsOf(mem, tx_q, b)
         /\ \A b : BusyOf(mem, tx_q, b) /\ b # a => BusyOf(mem', tx_q', b)
         /\ lost' \subseteq Message /\ \A m \in lost' \ lost : m.to = a
<1> DEFINE i == FindTxQ(mem', a)
           K == IF i = 0 THEN {} ELSE Elems(tx_q[i].bufs)
<1>1. /\ Proper(mem', tx_q, Live)
      /\ \A b : BufsOf(mem', tx_q, b) = BufsOf(mem, tx_q, b)
      /\ \A b : BusyOf(mem', tx_q, b) = BusyOf(mem, tx_q, b)
  BY StillKeeps
<1>2. \/ /\ i = 0 /\ BufsOf(mem', tx_q, a) = <<>>
      \/ /\ i \in 1..Len(tx_q)
         /\ mem'[tx_q[i].dest_addr] = a
         /\ BufsOf(mem', tx_q, a) = tx_q[i].bufs
  BY <1>1, Found
<1>3. Len(tx_q) \in Nat
  BY <1>1, DestTypes DEF Proper
<1>4. /\ Proper(mem', tx_q', Live)
      /\ lost' = lost \cup Elems(BufsOf(mem, tx_q, a))
      /\ BufsOf(mem', tx_q', a) = <<>>
      /\ \A b : b # a => BufsOf(mem', tx_q', b) = BufsOf(mem, tx_q, b)
      /\ \A b : BusyOf(mem, tx_q, b) /\ b # a => BusyOf(mem', tx_q', b)
  <2>1. CASE i = 0
    <3>1. UNCHANGED <<tx_q, lost>> /\ BufsOf(mem', tx_q, a) = <<>>
      BY <1>2, <1>3, <2>1 DEF PurgeTxQ
    <3>2. Elems(<<>>) = {}
      BY DEF Elems
    <3> QED BY <1>1, <3>1, <3>2
  <2>2. CASE /\ i \in 1..Len(tx_q) /\ mem'[tx_q[i].dest_addr] = a
             /\ BufsOf(mem', tx_q, a) = tx_q[i].bufs
    <3>1. i # 0
      BY <1>3, <2>2
    <3>2. /\ tx_q' = Without(tx_q, i)
          /\ lost' = lost \cup Elems(tx_q[i].bufs)
      BY <3>1 DEF PurgeTxQ
    <3>3. /\ Proper(mem', tx_q', Live)
          /\ \A b : BufsOf(mem', tx_q', b) =
                      IF b = mem'[tx_q[i].dest_addr] THEN <<>>
                      ELSE BufsOf(mem', tx_q, b)
          /\ \A b : BusyOf(mem', tx_q, b) /\ b # mem'[tx_q[i].dest_addr]
                      => BusyOf(mem', tx_q', b)
      BY <1>1, <2>2, <3>2, RemoveDest
    <3> QED BY <1>1, <2>2, <3>2, <3>3
  <2> QED BY <1>2, <2>1, <2>2
<1>5. /\ Mail(a, wire[a], BufsOf(mem, tx_q, a), sent[a])
      /\ Accounted(a, wire[a], BufsOf(mem, tx_q, a), sent[a], lost)
      /\ \A m \in Elems(BufsOf(mem, tx_q, a)) : m \in Message /\ m.to = a
  BY Own
<1>6. /\ Mail(a, wire[a], <<>>, sent[a])
      /\ Accounted(a, wire[a], <<>>, sent[a],
                   lost \cup Elems(BufsOf(mem, tx_q, a)))
  BY <1>5, MailDropped
<1>7. MailPart' /\ LossPart'
  BY <1>4, <1>5, <1>6, OthersKeep
<1>8. TendPart'
  BY <1>4 DEF QueueState, TendPart, port
<1>9. PointerPart'
  BY <1>4 DEF PointerPart, Live
<1>10. lost' \subseteq Message
  BY <1>4, <1>5 DEF QueueState, QueueType
<1> QED BY <1>4, <1>5, <1>7, <1>8, <1>9, <1>10

\* purge_dest_s.
LEMMA PurgeAllKeeps ==
  ASSUME QueueState, UNCHANGED <<mem, sent, wire>>, tx_q' = <<>>,
         lost' = lost \cup UNION {Elems(tx_q[i].bufs) : i \in 1..Len(tx_q)}
  PROVE  /\ PointerPart' /\ TendPart' /\ MailPart' /\ LossPart'
         /\ \A a : BufsOf(mem', tx_q', a) = <<>>
         /\ lost' \subseteq Message
<1> DEFINE U == UNION {Elems(tx_q[i].bufs) : i \in 1..Len(tx_q)}
           own(p) == Elems(BufsOf(mem, tx_q, p))
<1>1. Proper(mem, tx_q, Live) /\ \A s \in Live : mem[s] \in Port
  BY DEF QueueState, PointerPart, QueueType
<1>2. \A d \in Elems(tx_q) :
        BufsOf(mem, tx_q, mem[d.dest_addr]) = d.bufs /\ mem[d.dest_addr] \in Port
  BY <1>1, Lookup DEF Proper
<1>3. Proper(mem', tx_q', Live') /\ \A a : BufsOf(mem', tx_q', a) = <<>>
  BY NoDest
<1>4. \A m \in U : m \in Message /\ m \in own(m.to)
  <2> SUFFICES ASSUME NEW i \in 1..Len(tx_q), NEW m \in Elems(tx_q[i].bufs)
               PROVE  m \in Message /\ m \in own(m.to)
    OBVIOUS
  <2>1. tx_q[i] \in Elems(tx_q)
    BY DEF Elems
  <2>2. PICK p \in Port : BufsOf(mem, tx_q, p) = tx_q[i].bufs
    BY <1>2, <2>1
  <2>3. m \in Message /\ m.to = p
    BY <2>2, Own
  <2> QED BY <2>2, <2>3
<1>5. ASSUME NEW p \in Port PROVE own(p) \subseteq U
  <2>1. CASE \A d \in Elems(tx_q) : mem[d.dest_addr] # p
    BY <1>1, <2>1, Lookup DEF Elems
  <2>2. ASSUME NEW d \in Elems(tx_q), mem[d.dest_addr] = p
        PROVE  own(p) \subseteq U
    <3>1. PICK i \in 1..Len(tx_q) : d = tx_q[i]
      BY DEF Elems
    <3> QED BY <1>2, <2>2, <3>1
  <2> QED BY <2>1, <2>2
<1> HIDE DEF U
<1>6. ASSUME NEW p \in Port
      PROVE  /\ Mail(p, wire[p], <<>>, sent[p])
             /\ Accounted(p, wire[p], <<>>, sent[p], lost \cup U)
  <2>1. /\ Mail(p, wire[p], BufsOf(mem, tx_q, p), sent[p])
        /\ Accounted(p, wire[p], BufsOf(mem, tx_q, p), sent[p], lost)
    BY Own
  <2>2. /\ Mail(p, wire[p], <<>>, sent[p])
        /\ Accounted(p, wire[p], <<>>, sent[p], lost \cup own(p))
    BY <2>1, MailDropped
  <2>3. \A m \in U \ own(p) : m.to # p
    BY <1>4
  <2>4. Accounted(p, wire[p], <<>>, sent[p],
                  (lost \cup own(p)) \cup (U \ own(p)))
    BY <2>2, <2>3, MailApart
  <2>5. (lost \cup own(p)) \cup (U \ own(p)) = lost \cup U
    BY <1>5
  <2> QED BY <2>2, <2>4, <2>5
<1>7. lost' = lost \cup U
  BY DEF U
<1>8. MailPart' /\ LossPart'
  BY <1>3, <1>6, <1>7 DEF MailPart, LossPart
<1>9. lost' \subseteq Message
  BY <1>4, <1>7 DEF QueueState, QueueType
<1> QED BY <1>3, <1>8, <1>9 DEF PointerPart, TendPart

\* handle_resume_tx for a client's address, with a queue at i, of which left
\* is left.
Shortened(i, left, tell) ==
  tx_q' = IF left = <<>> THEN Without(tx_q, i)
          ELSE [tx_q EXCEPT ![i] =
                  [dest_addr |-> tx_q[i].dest_addr, bufs |-> left,
                   dest_busy |-> tx_q[i].dest_busy /\ ~tell]]

Resumed(a, i, k, left, tell) ==
  /\ i \in 1..Len(tx_q) /\ tx_q[i] \in Dest /\ tx_q[i].bufs # <<>>
  /\ mem'[tx_q[i].dest_addr] = a
  /\ k \in 0..Len(tx_q[i].bufs)
  /\ left = SubSeq(tx_q[i].bufs, k + 1, Len(tx_q[i].bufs))
  /\ left \in Seq(Message)
  /\ tell = Notifies(i, k)
  /\ Shortened(i, left, tell)

LEMMA ResumeDest ==
  ASSUME QueueState, Still, NEW a, NEW i, NEW k, NEW left, NEW tell,
         Resumed(a, i, k, left, tell)
  PROVE  /\ Proper(mem', tx_q', Live)
         /\ BufsOf(mem', tx_q', a) = left
         /\ \A b : b # a => BufsOf(mem', tx_q', b) = BufsOf(mem, tx_q, b)
         /\ \A b : BusyOf(mem, tx_q, b) /\ (b = a => ~tell)
                     => BusyOf(mem', tx_q', b)
<1> DEFINE d == tx_q[i]
           busy == d.dest_busy /\ ~tell
           e == [dest_addr |-> d.dest_addr, bufs |-> left, dest_busy |-> busy]
<1> SUFFICES ASSUME i \in 1..Len(tx_q), tx_q[i] \in Dest,
                    tx_q[i].bufs # <<>>, mem'[tx_q[i].dest_addr] = a,
                    left = SubSeq(tx_q[i].bufs, k + 1, Len(tx_q[i].bufs)),
                    left \in Seq(Message),
                    tell = Notifies(i, k), Shortened(i, left, tell)
             PROVE  /\ Proper(mem', tx_q', Live)
                    /\ BufsOf(mem', tx_q', a) = left
                    /\ \A b : b # a =>
                              BufsOf(mem', tx_q', b) = BufsOf(mem, tx_q, b)
                    /\ \A b : BusyOf(mem, tx_q, b) /\ (b = a => ~tell)
                                => BusyOf(mem', tx_q', b)
  BY DEF Resumed
<1>0. Proper(mem', tx_q, Live)
  BY StillKeeps
<1>a. tx_q \in Seq(Dest) /\ d \in Elems(tx_q)
  BY <1>0 DEF Proper, Elems
<1>1. /\ \A b : BufsOf(mem', tx_q, b) = BufsOf(mem, tx_q, b)
      /\ \A b : BusyOf(mem', tx_q, b) = BusyOf(mem, tx_q, b)
  BY StillKeeps
<1>b. BusyOf(mem', tx_q, a) => d.dest_busy
  BY <1>0, <1>a DEF BusyOf, Proper
<1>2. CASE left = <<>>
  <2>1. tx_q' = Without(tx_q, i)
    BY <1>2 DEF Shortened
  <2>2. /\ Proper(mem', tx_q', Live)
        /\ \A b : BufsOf(mem', tx_q', b) =
                    IF b = mem'[tx_q[i].dest_addr] THEN <<>>
                    ELSE BufsOf(mem', tx_q, b)
        /\ \A b : BusyOf(mem', tx_q, b) /\ b # mem'[tx_q[i].dest_addr]
                    => BusyOf(mem', tx_q', b)
    BY <1>0, <2>1, RemoveDest
  <2>4. d.dest_busy => tell
    <3>1. Len(<<>>) = 0 /\ 0 < MaxQ
      BY XportAssumption
    <3> QED BY <1>2, <3>1 DEF Notifies, Remaining
  <2> QED BY <1>1, <1>2, <1>b, <2>2, <2>4
<1>3. CASE left # <<>>
  <2>1. /\ d.dest_addr \in Slot /\ d.dest_busy \in BOOLEAN
        /\ busy \in BOOLEAN
    BY DEF Dest
  <2>2. /\ e \in Dest /\ e.dest_addr = d.dest_addr /\ e.bufs = left
        /\ e.dest_busy = busy
    BY <2>1 DEF Dest
  <2>5. tx_q' = [tx_q EXCEPT ![i] = e]
    BY <1>3 DEF Shortened
  <2> HIDE DEF e, busy
  <2>6. /\ tx_q' \in Seq(Dest) /\ Len(tx_q') = Len(tx_q) /\ tx_q'[i] = e
        /\ \A j \in 1..Len(tx_q) : j # i => tx_q'[j] = tx_q[j]
    BY <1>a, <2>2, <2>5, ListChange
  <2>7. Changed(mem', tx_q, Live, i, e, tx_q')
    BY <1>0, <1>3, <2>2, <2>6 DEF Changed
  <2>8. /\ Proper(mem', tx_q', Live)
        /\ \A b : BufsOf(mem', tx_q', b) = IF b = mem'[e.dest_addr] THEN e.bufs
                                           ELSE BufsOf(mem', tx_q, b)
        /\ \A b : BusyOf(mem', tx_q, b) /\ (b = mem'[e.dest_addr] => e.dest_busy)
                    => BusyOf(mem', tx_q', b)
    BY <2>7, ChangeDest
  <2>10. mem'[e.dest_addr] = a
    BY <2>2
  <2> QED BY <1>1, <1>b, <2>2, <2>8, <2>10 DEF busy
<1> QED BY <1>2, <1>3

LEMMA ResumeKeeps ==
  ASSUME QueueState, Still, UNCHANGED <<obj, open, sent>>, NEW a \in Port,
         resume_evt' = resume_evt \ {a},
         NEW tell, HandleResumeTx(a, tell)
  PROVE  /\ QueueType' <=> bcast' \in Seq(Slot)
         /\ PointerPart' /\ TendPart' /\ MailPart' /\ LossPart'
         /\ \A b : BufsOf(mem, tx_q, b) = <<>> => BufsOf(mem', tx_q', b) = <<>>
         /\ \A b : BusyOf(mem, tx_q, b) /\ (b = a => ~tell)
                     => BusyOf(mem', tx_q', b)
         /\ \A m \in lost' \ lost : m.to = a /\ Refused(a)
<1> DEFINE i == FindTxQ(mem', a)
<1>1. /\ Proper(mem', tx_q, Live) /\ Len(tx_q) \in Nat
      /\ \A d \in Elems(tx_q) : d \in Dest /\ d.bufs # <<>>
      /\ \A b : BufsOf(mem', tx_q, b) = BufsOf(mem, tx_q, b)
      /\ \A b : BusyOf(mem', tx_q, b) = BusyOf(mem, tx_q, b)
  BY StillKeeps, DestTypes DEF Proper
<1>2. \/ /\ i = 0 /\ BufsOf(mem', tx_q, a) = <<>>
      \/ /\ i \in 1..Len(tx_q) /\ tx_q[i] \in Elems(tx_q)
         /\ mem'[tx_q[i].dest_addr] = a
         /\ BufsOf(mem', tx_q, a) = tx_q[i].bufs
  BY <1>1, Found
<1>3. Live' = Live /\ \A s \in Live : mem'[s] = mem[s]
  BY DEF Live, Still
<1>4. /\ open \subseteq Port /\ blocked \subseteq open
      /\ sent \in [Port -> Nat] /\ wire \in [Port -> Seq(Message)]
      /\ lost \subseteq Message /\ blocks \in Nat
      /\ \A s \in Live : mem[s] \in Port
  BY DEF QueueState, QueueType
<1>5. CASE i = 0
  <2>1. UNCHANGED <<tx_q, wire, lost, blocked, waiter, blocks>> /\ tell = FALSE
    BY <1>5 DEF HandleResumeTx
  <2>2. /\ BufsOf(mem, tx_q, a) = <<>>
        /\ \A b : BufsOf(mem', tx_q', b) = BufsOf(mem, tx_q, b)
        /\ \A b : BusyOf(mem', tx_q', b) = BusyOf(mem, tx_q, b)
        /\ Proper(mem', tx_q', Live')
    BY <1>1, <1>2, <1>3, <1>5, <2>1
  <2>3. PointerPart' /\ MailPart' /\ LossPart'
    BY <2>1, <2>2 DEF QueueState, PointerPart, MailPart, LossPart
  <2>4. TendPart'
    BY <2>1, <2>2 DEF QueueState, TendPart
  <2>5. QueueType' <=> bcast' \in Seq(Slot)
    BY <1>3, <1>4, <2>1 DEF QueueType
  <2> QED BY <2>1, <2>2, <2>3, <2>4, <2>5
<1>6. CASE /\ i \in 1..Len(tx_q) /\ tx_q[i] \in Elems(tx_q)
           /\ mem'[tx_q[i].dest_addr] = a
           /\ BufsOf(mem', tx_q, a) = tx_q[i].bufs
  <2> DEFINE q == tx_q[i].bufs
             w == wire[a]
             n == sent[a]
  <2>1. ResumeQueue(i, tell)
    BY <1>1, <1>6 DEF HandleResumeTx
  <2> DEFINE Leaves(k, D, f) ==
          LET d == tx_q[i]
              to == mem'[d.dest_addr]
              left == Remaining(i, k)
          IN  /\ D # {} => Refused(to)
              /\ Progress(i, k)
              /\ wire' = [wire EXCEPT ![to] = @ \o Pick(d.bufs, f)]
              /\ lost' = lost \cup {d.bufs[j] : j \in D}
              /\ tell = Notifies(i, k)
              /\ tx_q' = IF left = <<>> THEN Without(tx_q, i)
                         ELSE [tx_q EXCEPT ![i] =
                                 [dest_addr |-> d.dest_addr, bufs |-> left,
                                  dest_busy |-> d.dest_busy /\ ~tell]]
  <2>a. \E k \in 0..Len(q) : \E D \in SUBSET (1..k) :
          \E f \in InTurn((1..k) \ D) : Leaves(k, D, f)
    BY <2>1 DEF ResumeQueue
  <2> HIDE DEF Leaves
  <2>b. PICK k \in 0..Len(q) : \E D \in SUBSET (1..k) :
               \E f \in InTurn((1..k) \ D) : Leaves(k, D, f)
    BY <2>a
  <2>c. PICK D \in SUBSET (1..k) :
               \E f \in InTurn((1..k) \ D) : Leaves(k, D, f)
    BY <2>b
  <2>d. PICK f \in InTurn((1..k) \ D) : Leaves(k, D, f)
    BY <2>c
  <2>2. /\ D # {} => Refused(a)
        /\ Progress(i, k)
        /\ wire' = [wire EXCEPT ![a] = w \o Pick(q, f)]
        /\ lost' = lost \cup {q[j] : j \in D}
        /\ tell = Notifies(i, k)
        /\ tx_q' = IF Remaining(i, k) = <<>> THEN Without(tx_q, i)
                   ELSE [tx_q EXCEPT ![i] =
                           [dest_addr |-> tx_q[i].dest_addr,
                            bufs |-> Remaining(i, k),
                            dest_busy |-> tx_q[i].dest_busy /\ ~tell]]
    BY <1>6, <2>d DEF Leaves
  <2> DEFINE r == w \o Pick(q, f)
             K == At(q, D)
             left == SubSeq(q, k + 1, Len(q))
  <2>3. /\ BufsOf(mem, tx_q, a) = q /\ q # <<>> /\ tx_q[i] \in Dest
    BY <1>1, <1>6
  <2>4. /\ Mail(a, w, q, n) /\ Accounted(a, w, q, n, lost)
        /\ \A m \in Elems(q) : m \in Message /\ m.to = a
    BY <2>3, Own
  <2> HIDE DEF q, w, n
  <2>5. /\ Mail(a, r, left, n) /\ Accounted(a, r, left, n, lost \cup K)
        /\ K \subseteq Elems(q) /\ Len(left) = Len(q) - k
    <3>1. Departing(a, w, q, n, lost, k, D, f)
      BY <2>4 DEF Departing
    <3>2. Departed(a, w, q, n, lost, k, D, f)
      BY <3>1, MailResumed
    <3> QED BY <3>2 DEF Departed
  <2> HIDE DEF r, K, left
  <2>6. left \in Seq(Message) /\ r \in Seq(Message) /\ q \in Seq(Message)
    BY <2>4, <2>5 DEF Mail
  <2>7. /\ wire' \in [Port -> Seq(Message)] /\ wire'[a] = r
        /\ \A b \in Port \ {a} : wire'[b] = wire[b]
    BY <1>4, <2>2, <2>6 DEF r, w
  <2>8. /\ lost' = lost \cup K /\ lost' \subseteq Message
        /\ \A m \in K : m.to = a
        /\ \A m \in lost' \ lost : m.to = a /\ Refused(a)
    <3>1. lost' = lost \cup K
      BY <2>2 DEF K, At
    <3>2. K # {} => Refused(a)
      BY <2>2 DEF K, At
    <3> QED BY <1>4, <2>4, <2>5, <3>1, <3>2
  <2>9. /\ Proper(mem', tx_q', Live)
        /\ BufsOf(mem', tx_q', a) = left
        /\ \A b : b # a => BufsOf(mem', tx_q', b) = BufsOf(mem, tx_q, b)
        /\ \A b : BusyOf(mem, tx_q, b) /\ (b = a => ~tell)
                    => BusyOf(mem', tx_q', b)
    <3>1. left = SubSeq(tx_q[i].bufs, k + 1, Len(tx_q[i].bufs))
      BY DEF left, q
    <3>2. Remaining(i, k) = left
      BY <3>1 DEF Remaining
    <3>3. k \in 0..Len(tx_q[i].bufs) /\ tx_q[i].bufs # <<>>
      BY <2>3 DEF q
    <3>4. Shortened(i, left, tell)
      BY <2>2, <3>2 DEF Shortened
    <3>5. Resumed(a, i, k, left, tell)
      BY <1>6, <2>2, <2>3, <2>6, <3>1, <3>3, <3>4 DEF Resumed
    <3> QED BY <3>5, ResumeDest
  <2>10. PointerPart' /\ MailPart' /\ LossPart'
    <3>1. MailPart' /\ LossPart'
      BY <2>5, <2>7, <2>8, <2>9, OthersKeep DEF n
    <3> QED BY <1>3, <2>9, <3>1 DEF PointerPart
  <2>11. /\ blocked' \subseteq open /\ blocks' \in Nat
         /\ waiter \subseteq waiter' /\ (left # <<>> => a \in waiter')
    <3>1. Progress(i, k)
      BY <2>2
    <3>2. /\ (k = Len(q) /\ UNCHANGED <<blocked, waiter, blocks>>)
             \/ /\ blocked' = blocked \cup {a} /\ waiter' = waiter \cup {a}
                /\ IF a \in blocked THEN UNCHANGED blocks
                   ELSE a \in open /\ blocks' = blocks + 1
      BY <1>6, <3>1 DEF Progress, q
    <3>3. k = Len(q) => left = <<>>
      <4>1. k = Len(q) => Len(left) = 0
        BY <2>5, <2>6
      <4> QED BY <2>6, <4>1
    <3> QED BY <1>4, <3>2, <3>3
  <2>12. TendPart'
    <3> SUFFICES ASSUME NEW b \in open, BufsOf(mem', tx_q', b) # <<>>
                 PROVE  b \in waiter' \cup resume_evt'
      BY DEF TendPart
    <3>1. CASE b = a
      BY <2>9, <2>11, <3>1
    <3>2. CASE b # a
      BY <2>9, <2>11, <3>2 DEF QueueState, TendPart
    <3> QED BY <3>1, <3>2
  <2>13. QueueType' <=> bcast' \in Seq(Slot)
    BY <1>3, <1>4, <2>7, <2>8, <2>11 DEF QueueType
  <2>14. \A b : BufsOf(mem, tx_q, b) = <<>> => BufsOf(mem', tx_q', b) = <<>>
    BY <2>3, <2>9
  <2> QED BY <2>8, <2>9, <2>10, <2>12, <2>13, <2>14
<1> QED BY <1>2, <1>5, <1>6

------------------------------------------------------------------------------
(* Steps of the service.                                                   *)

\* Steps that leave queues, the kernel and objects alone.
LEMMA StayKeeps ==
  ASSUME QueueState, Still, UNCHANGED <<tx_q, sent, wire, lost, obj>>
  PROVE  /\ PointerPart' /\ MailPart' /\ LossPart'
         /\ \A a : BufsOf(mem', tx_q', a) = BufsOf(mem, tx_q, a)
         /\ \A a : BusyOf(mem', tx_q', a) = BusyOf(mem, tx_q, a)
<1>1. /\ Proper(mem', tx_q', Live)
      /\ \A a : BufsOf(mem', tx_q', a) = BufsOf(mem, tx_q, a)
      /\ \A a : BusyOf(mem', tx_q', a) = BusyOf(mem, tx_q, a)
  BY StillKeeps
<1>2. PointerPart'
  BY <1>1 DEF PointerPart, Live
<1>3. MailPart'
  BY <1>1 DEF QueueState, MailPart
<1>4. LossPart'
  BY <1>1 DEF QueueState, LossPart
<1> QED BY <1>1, <1>2, <1>3, <1>4

LEMMA CalmState ==
  ASSUME QueueState, Still, UNCHANGED <<tx_q, sent, wire, lost, obj, port>>,
         bcast' \in Seq(Slot)
  PROVE  /\ QueueState'
         /\ \A a : BufsOf(mem', tx_q', a) = BufsOf(mem, tx_q, a)
<1>1. /\ PointerPart' /\ MailPart' /\ LossPart'
      /\ \A a : BufsOf(mem', tx_q', a) = BufsOf(mem, tx_q, a)
  BY StayKeeps
<1>2. TendPart'
  BY <1>1 DEF QueueState, TendPart, port
<1>3. Live' = Live /\ \A s \in Live : mem'[s] = mem[s]
  BY DEF Live, Still
<1>4. QueueType'
  BY <1>3 DEF QueueState, QueueType, port
<1> QED BY <1>1, <1>2, <1>4 DEF QueueState

\* The parts of the invariant.
LEMMA Parts ==
  ASSUME QueueInv
  PROVE  /\ OwnInv /\ QueueState /\ DepartPart /\ ThreadPart
         /\ bcast \in Seq(Slot)
BY DEF QueueInv, QueuePart, QueueState, QueueType

\* A client that is gone stays without a queue.
Forgotten ==
  \A a \in Port \ open :
    BufsOf(mem, tx_q, a) = <<>> => BufsOf(mem', tx_q', a) = <<>>

\* Steps of others leave the event thread's work to it.
LEMMA DepartStays ==
  ASSUME DepartPart, Forgotten, UNCHANGED <<thread, del_evt, bye_evt, open>>
  PROVE  DepartPart'
BY DEF DepartPart, Forgotten, thread

\* The service's threads.
LEMMA WorkerSteps ==
  ASSUME QueueInv, Workers
  PROVE  QueuePart'
<1>1. /\ OwnInv /\ QueueState /\ DepartPart /\ ThreadPart
      /\ bcast \in Seq(Slot)
  BY Parts
<1>2. Listed \subseteq Live /\ Live \subseteq Slot
  BY <1>1 DEF OwnInv, ListPart, Live
<1>3. Quiet
  BY <1>1, ServiceQuiet DEF Workers
<1>4. Still /\ UNCHANGED <<client_list, obj>> /\ Listed' = Listed
  BY <1>3 DEF Quiet, Still, Listed
<1>5. ASSUME NEW x \in Live, NEW limited, NEW rc,
             XportSend(x, mem[x], limited, rc),
             UNCHANGED <<thread, world>>, bcast' \in Seq(Slot),
             Elems(bcast') \subseteq Listed
      PROVE  QueuePart'
  <2>1. /\ QueueType' /\ PointerPart' /\ TendPart' /\ MailPart' /\ LossPart'
        /\ UNCHANGED open /\ Forgotten
    BY <1>1, <1>4, <1>5, SendKeeps DEF Forgotten
  <2>2. DepartPart'
    BY <1>1, <1>5, <2>1, DepartStays DEF world
  <2>3. ThreadPart'
    BY <1>1, <1>4, <1>5 DEF ThreadPart, thread
  <2> QED BY <2>1, <2>2, <2>3 DEF QueuePart
<1>6. ASSUME UNCHANGED <<xvars, thread, world>>, bcast' \in Seq(Slot),
             Elems(bcast') \subseteq Listed
      PROVE  QueuePart'
  <2>1. QueueState' /\ Forgotten
    BY <1>1, <1>4, <1>6, CalmState DEF Forgotten, xvars
  <2>2. DepartPart'
    BY <1>1, <1>6, <2>1, DepartStays DEF world, xvars, port
  <2>3. ThreadPart'
    BY <1>1, <1>4, <1>6 DEF ThreadPart, thread
  <2> QED BY <2>1, <2>2, <2>3 DEF QueuePart, QueueState
<1>7. Elems(bcast) \subseteq Listed
  BY <1>1 DEF ThreadPart
<1>8. ASSUME NEW t \in txn_list, SendResp(t) PROVE QueuePart'
  <2>1. t.client \in Live /\ mem[t.client] = t.req[1]
    BY <1>1 DEF OwnInv, OwnType, TxnsOwned, Live
  <2>2. PICK rc \in {"ok", "busy", "err"} :
          XportSend(t.client, t.req[1], FALSE, rc)
    BY <1>8 DEF SendResp
  <2> QED BY <1>1, <1>5, <1>7, <1>8, <2>1, <2>2 DEF SendResp
<1>9. ASSUME NEW t \in txn_list, SendRespFails(t) PROVE QueuePart'
  BY <1>1, <1>6, <1>7, <1>9 DEF SendRespFails
<1>10. ASSUME NEW s \in Slot, SendInd(s) PROVE QueuePart'
  <2>1. PICK rc \in {"ok", "busy", "err"} : XportSend(s, mem[s], TRUE, rc)
    BY <1>10 DEF SendInd, Indicate
  <2>2. s \in Live
    BY <1>2, <1>10 DEF SendInd
  <2> QED BY <1>1, <1>5, <1>7, <1>10, <2>1, <2>2 DEF SendInd
<1>11. CASE Broadcast
  <2>1. bcast' \in Seq(Slot) /\ Elems(bcast') \subseteq Listed
    BY <1>1, <1>11 DEF Broadcast, Listed, OwnInv, OwnType
  <2> QED BY <1>6, <1>11, <2>1 DEF Broadcast
<1>12. CASE BroadcastStep
  <2>1. Head(bcast) \in Elems(bcast) /\ bcast # <<>>
    BY <1>1, <1>12 DEF BroadcastStep, Elems
  <2>2. PICK rc \in {"ok", "busy", "err"} :
          XportSend(Head(bcast), mem[Head(bcast)], TRUE, rc)
    BY <1>12 DEF BroadcastStep
  <2>3. /\ Tail(bcast) \in Seq(Slot) /\ Len(Tail(bcast)) = Len(bcast) - 1
        /\ Len(bcast) \in Nat
        /\ \A i \in 1..Len(Tail(bcast)) : Tail(bcast)[i] = bcast[i + 1]
    BY <1>1, <2>1
  <2>4. Elems(Tail(bcast)) \subseteq Elems(bcast)
    BY <2>3 DEF Elems
  <2>5. bcast' = Tail(bcast) /\ UNCHANGED <<thread, world>>
    BY <1>12 DEF BroadcastStep
  <2> QED BY <1>2, <1>5, <1>7, <2>1, <2>2, <2>3, <2>4, <2>5
<1> QED BY <1>8, <1>9, <1>10, <1>11, <1>12 DEF Workers

\* Steps that create or free an object no destination points to.
Moved(L, n) ==
  /\ Alike(mem, n, tx_q, Live, L) /\ \A s \in L : n[s] \in Port

LEMMA MoveState ==
  ASSUME QueueState, Moved(Live', mem'),
         UNCHANGED <<tx_q, sent, wire, lost, port>>, bcast' \in Seq(Slot)
  PROVE  /\ QueueState'
         /\ \A a : BufsOf(mem', tx_q', a) = BufsOf(mem, tx_q, a)
<1>0. /\ Alike(mem, mem', tx_q, Live, Live') /\ tx_q' = tx_q
      /\ \A s \in Live' : mem'[s] \in Port
  BY DEF Moved
<1>1. /\ Proper(mem', tx_q, Live')
      /\ \A a : BufsOf(mem', tx_q, a) = BufsOf(mem, tx_q, a)
  BY <1>0, OtherMemory
<1>2. \A a : BufsOf(mem', tx_q', a) = BufsOf(mem, tx_q, a)
  BY <1>0, <1>1
<1>3. PointerPart'
  BY <1>0, <1>1 DEF PointerPart
<1>4. MailPart'
  BY <1>2 DEF QueueState, MailPart
<1>5. LossPart'
  BY <1>2 DEF QueueState, LossPart
<1>6. TendPart'
  BY <1>2 DEF QueueState, TendPart, port
<1>7. QueueType'
  BY <1>0 DEF QueueState, QueueType, port
<1> QED BY <1>2, <1>3, <1>4, <1>5, <1>6, <1>7 DEF QueueState

\* The event thread goes on with something else than a departure.
GoesOn ==
  /\ UNCHANGED open /\ del_evt' \subseteq del_evt /\ (bye_evt' => bye_evt)
  /\ walking' => walking \/ bye_evt
  /\ ev' = "bye" => walking'
  /\ ev' # "del" /\ ev' # "del_free" /\ ev' # "bail"

LEMMA GoesOnKeeps ==
  ASSUME DepartPart, ThreadPart, GoesOn, UNCHANGED bcast,
         bcast = <<>> \/ Listed \subseteq Listed'
  PROVE  DepartPart' /\ ThreadPart'
<1>1. DepartPart'
  BY DEF DepartPart, GoesOn
<1>2. bcast = <<>> => Elems(bcast) = {}
  BY DEF Elems
<1>3. ThreadPart'
  BY <1>2 DEF ThreadPart, GoesOn
<1> QED BY <1>1, <1>3

\* A packet is read, with or without a new client.
LEMMA ReceiveSteps ==
  ASSUME QueueInv, NoErrorResponses, NEW p \in Port, Receive(p)
  PROVE  QueuePart'
<1>1. /\ OwnInv /\ QueueState /\ DepartPart /\ ThreadPart
      /\ bcast \in Seq(Slot)
  BY Parts
<1>2. /\ UNCHANGED <<tx_q, sent, wire, lost, port, bcast, del_evt, bye_evt>>
      /\ UNCHANGED open /\ ev = "poll"
  BY DEF Receive, port
<1>3. ASSUME NEW s \in ClientsAt(p), StartRequest(s, <<p, taken'[p]>>),
             ReadFrom(p), UNCHANGED <<client_list, obj>>
      PROVE  QueuePart'
  <2>1. Still
    BY <1>1, <1>3, ReadKeeps DEF Still
  <2>2. QueueState'
    BY <1>1, <1>2, <1>3, <2>1, CalmState
  <2>3. GoesOn /\ Listed' = Listed
    BY <1>1, <1>2, <1>3 DEF StartRequest, Goto, GoesOn, Listed, DepartPart
  <2>4. DepartPart' /\ ThreadPart'
    BY <1>1, <1>2, <2>3, GoesOnKeeps
  <2> QED BY <2>2, <2>4 DEF QueuePart, QueueState
<1>4. ASSUME NEW s \in Slot, CreateClient(s, p)
      PROVE  QueuePart'
  <2>1. /\ Live' = Live \cup {s} /\ Listed' = Listed \cup {s}
        /\ mem'[s] = p /\ \A u \in Listed : mem'[u] = mem[u]
        /\ ev' = "connect_cb" /\ UNCHANGED walking
    BY <1>1, <1>2, <1>4, CreateTracks
  <2>2. Live = Listed
    BY <1>1, <1>2, Memory
  <2>3. Moved(Live', mem')
    BY <1>1, <2>1, <2>2
       DEF Moved, Alike, QueueState, QueueType, PointerPart, Proper
  <2>4. QueueState'
    BY <1>1, <1>2, <2>3, MoveState
  <2>5. GoesOn
    BY <1>1, <1>2, <2>1 DEF GoesOn
  <2>6. DepartPart' /\ ThreadPart'
    BY <1>1, <1>2, <2>1, <2>5, GoesOnKeeps
  <2> QED BY <2>4, <2>6 DEF QueuePart, QueueState
<1>5. "malformed" \notin Env
  BY DEF NoErrorResponses
<1> QED BY <1>3, <1>4, <1>5 DEF Receive

\* Steps of the event thread that leave queues alone.
LEMMA PlainSteps ==
  ASSUME QueueInv, \/ Served \/ Bye \/ ByeDone \/ ResumeCb
                   \/ \E s \in Slot : ConnectAccept(s)
  PROVE  QueuePart'
<1>1. /\ OwnInv /\ QueueState /\ DepartPart /\ ThreadPart
      /\ bcast \in Seq(Slot)
  BY Parts
<1>2. UNCHANGED <<tx_q, sent, wire, lost, port, obj, bcast, open>>
      /\ Listed' = Listed
  BY DEF Served, Bye, ByeDone, ResumeCb, ConnectAccept, xvars, port, tables,
         Listed
<1>3. Still
  <2>1. CASE Bye
    BY <1>1, <2>1, ReadKeeps DEF Bye, Still
  <2>2. CASE ~Bye
    BY <2>2 DEF Served, ByeDone, ResumeCb, ConnectAccept, xvars, Still
  <2> QED BY <2>1, <2>2
<1>4. QueueState'
  BY <1>1, <1>2, <1>3, CalmState
<1>5. GoesOn
  <2>1. CASE Served
    BY <1>1, <2>1 DEF Served, PacketDone, GoesOn, world, xvars, port
  <2>2. CASE Bye
    BY <1>1, <2>2 DEF Bye, GoesOn, port
  <2>3. CASE ByeDone
    BY <1>1, <2>3 DEF ByeDone, GoesOn, world, xvars, port
  <2>4. CASE ResumeCb
    BY <1>1, <2>4 DEF ResumeCb, Goto, GoesOn, world, xvars, port
  <2>5. ASSUME NEW s \in Slot, ConnectAccept(s) PROVE GoesOn
    BY <1>1, <2>5
       DEF ConnectAccept, StartRequest, Goto, GoesOn, world, xvars, port
  <2> QED BY <2>1, <2>2, <2>3, <2>4, <2>5
<1>6. DepartPart' /\ ThreadPart'
  BY <1>1, <1>2, <1>5, GoesOnKeeps
<1> QED BY <1>4, <1>6 DEF QueuePart, QueueState

\* A destination is purged because its client is gone.
LEMMA GoneSteps ==
  ASSUME QueueInv, NEW p \in Port, DelClient(p) \/ ByeClient(p)
  PROVE  QueuePart'
<1>1. /\ OwnInv /\ QueueState /\ DepartPart /\ ThreadPart
      /\ bcast \in Seq(Slot)
  BY Parts
<1>2. /\ UNCHANGED <<obj, port, sent, wire, walking, bcast, client_list>>
      /\ UNCHANGED open /\ PurgeTxQ(mem', p) /\ ev' = "del" /\ peer' = p
      /\ del_evt' \subseteq del_evt /\ bye_evt' = bye_evt /\ p \notin open
  BY <1>1 DEF DelClient, ByeClient, tables, world, port, DepartPart
<1>3. Still
  <2>1. CASE DelClient(p)
    BY <1>1, <2>1, ReadKeeps DEF DelClient, Still
  <2>2. CASE ByeClient(p)
    BY <2>2 DEF ByeClient, Still
  <2> QED BY <2>1, <2>2
<1>4. /\ PointerPart' /\ TendPart' /\ MailPart' /\ LossPart'
      /\ BufsOf(mem', tx_q', p) = <<>> /\ lost' \subseteq Message
  BY <1>1, <1>2, <1>3, PurgeKeeps
<1>5. QueueType'
  BY <1>1, <1>2, <1>3, <1>4
     DEF QueueState, QueueType, Live, Still, port
<1>6. DepartPart'
  BY <1>1, <1>2, <1>4 DEF DepartPart
<1>7. ThreadPart'
  BY <1>1, <1>2 DEF ThreadPart, Listed
<1> QED BY <1>4, <1>5, <1>6, <1>7 DEF QueuePart

\* Its client is unlisted ...
LEMMA DisconnectSteps ==
  ASSUME QueueInv, Disconnect
  PROVE  QueuePart'
<1>1. /\ OwnInv /\ QueueState /\ DepartPart /\ ThreadPart
      /\ bcast \in Seq(Slot)
  BY Parts
<1>2. /\ UNCHANGED <<tx_q, sent, wire, lost, port, obj, bcast, mem>>
      /\ UNCHANGED <<open, world>> /\ Still /\ bcast = <<>> /\ ev = "del"
  BY DEF Disconnect, xvars, port, ClientListFree, Still
<1>3. /\ QueueState'
      /\ \A a : BufsOf(mem', tx_q', a) = BufsOf(mem, tx_q, a)
  BY <1>1, <1>2, CalmState
<1>4. DepartPart' /\ ThreadPart'
  <2>1. CASE PeerDone
    <3>1. GoesOn
      BY <1>1, <1>2, <2>1 DEF PeerDone, GoesOn, world
    <3> QED BY <1>1, <1>2, <3>1, GoesOnKeeps
  <2>2. CASE Goto("del_free")
    <3>1. ev' = "del_free" /\ UNCHANGED <<peer, walking>> /\ Elems(<<>>) = {}
      BY <2>2 DEF Goto, Elems
    <3>2. DepartPart'
      BY <1>1, <1>2, <1>3, <3>1 DEF DepartPart, world
    <3> QED BY <1>2, <3>1, <3>2 DEF ThreadPart
  <2> QED BY <2>1, <2>2 DEF Disconnect
<1> QED BY <1>3, <1>4 DEF QueuePart, QueueState

\* ... and freed, which no destination notices: it has none.
LEMMA FreeSteps ==
  ASSUME QueueInv, DisconnectFree
  PROVE  QueuePart'
<1>1. /\ OwnInv /\ QueueState /\ DepartPart /\ ThreadPart
      /\ bcast \in Seq(Slot)
  BY Parts
<1>2. /\ UNCHANGED <<tx_q, sent, wire, lost, port, bcast, mem, client_list>>
      /\ UNCHANGED <<open, world>> /\ PeerDone /\ ev = "del_free"
  BY DEF DisconnectFree, xvars, port
<1>3. PICK s \in Leaving : Drop(s)
  BY DEF DisconnectFree
<1>4. Live' = Live \ {s} /\ s \in Slot /\ mem[s] = peer
  BY <1>1, <1>3 DEF Leaving, Drop, Live, OwnInv, OwnType
<1>5. \A d \in Elems(tx_q) : mem[d.dest_addr] # peer
  <2>1. BufsOf(mem, tx_q, peer) = <<>> /\ Proper(mem, tx_q, Live)
    BY <1>1, <1>2 DEF DepartPart, QueueState, PointerPart
  <2> QED BY <2>1, Lookup
<1>6. Moved(Live', mem')
  BY <1>1, <1>2, <1>4, <1>5
     DEF Moved, Alike, QueueState, QueueType, PointerPart, Proper
<1>7. QueueState'
  BY <1>1, <1>2, <1>6, MoveState
<1>8. GoesOn /\ Listed' = Listed
  BY <1>1, <1>2 DEF PeerDone, GoesOn, world, Listed
<1>9. DepartPart' /\ ThreadPart'
  BY <1>1, <1>2, <1>8, GoesOnKeeps
<1> QED BY <1>7, <1>9 DEF QueuePart, QueueState

\* A resume event.
LEMMA ResumeSteps ==
  ASSUME QueueInv, NEW p \in Port, ResumeTx(p)
  PROVE  QueuePart'
<1>1. /\ OwnInv /\ QueueState /\ DepartPart /\ ThreadPart
      /\ bcast \in Seq(Slot)
  BY Parts
<1>2. /\ UNCHANGED <<obj, open, sent, bcast, client_list, walking>>
      /\ UNCHANGED world /\ resume_evt' = resume_evt \ {p}
      /\ ev' \in {"resume_cb", "poll"}
  BY DEF ResumeTx, Goto, tables
<1>3. Still
  BY <1>1, ReadKeeps DEF ResumeTx, Still
<1>4. PICK tell \in BOOLEAN : HandleResumeTx(p, tell)
  BY DEF ResumeTx
<1>5. QueueState'
  <2>1. /\ QueueType' <=> bcast' \in Seq(Slot)
        /\ PointerPart' /\ TendPart' /\ MailPart' /\ LossPart'
    BY <1>1, <1>2, <1>3, <1>4, ResumeKeeps
  <2> QED BY <1>1, <1>2, <2>1 DEF QueueState
<1>6. GoesOn /\ Listed' = Listed
  BY <1>1, <1>2 DEF GoesOn, world, Listed
<1>7. DepartPart' /\ ThreadPart'
  BY <1>1, <1>2, <1>6, GoesOnKeeps
<1> QED BY <1>5, <1>7 DEF QueuePart, QueueState

\* A reset, and the end of the service.
LEMMA EndSteps ==
  ASSUME QueueInv, NetReset \/ Unregister \/ XportClosed
  PROVE  QueuePart'
<1>1. /\ OwnInv /\ QueueState /\ DepartPart /\ ThreadPart
      /\ bcast \in Seq(Slot)
  BY Parts
<1>2. /\ UNCHANGED <<mem, sent, wire, port, bcast, walking, world>>
      /\ UNCHANGED <<open, blocked, blocks>> /\ tx_q' = <<>>
      /\ lost' = lost \cup UNION {Elems(tx_q[i].bufs) : i \in 1..Len(tx_q)}
      /\ ev' \in {"poll", "closing", "closed"}
  BY DEF NetReset, Unregister, XportClosed, PurgeAll, port, Goto
<1>3. /\ PointerPart' /\ TendPart' /\ MailPart' /\ LossPart'
      /\ lost' \subseteq Message
  BY <1>1, <1>2, PurgeAllKeeps
<1>4. Live' \subseteq Live /\ (bcast = <<>> \/ Listed' = Listed)
  BY <1>1 DEF NetReset, Unregister, XportClosed, tables, Live, Listed,
              ClientListFree, OwnInv, OwnType
<1>5. QueueType'
  BY <1>1, <1>2, <1>3, <1>4 DEF QueueState, QueueType
<1>6. GoesOn
  BY <1>1, <1>2 DEF GoesOn, world
<1>7. DepartPart' /\ ThreadPart'
  BY <1>1, <1>2, <1>4, <1>6, GoesOnKeeps
<1> QED BY <1>3, <1>5, <1>7 DEF QueuePart

\* Ports are closed or drain; what they owe the service stays.
Less ==
  /\ open' \subseteq open /\ blocked' \subseteq open' /\ blocks' \in Nat
  /\ \A a \in open' : a \in waiter \cup resume_evt
                        => a \in waiter' \cup resume_evt'
  /\ del_evt' \cap open' = {}
  /\ bye_evt' \/ walking' => Remote \cap open' = {}

\* Clients, nodes and the kernel.
LEMMA WorldSteps ==
  ASSUME QueueInv, World
  PROVE  QueuePart'
<1>1. /\ OwnInv /\ QueueState /\ DepartPart /\ ThreadPart
      /\ bcast \in Seq(Slot)
  BY Parts
<1>2. /\ UNCHANGED <<mem, tx_q, sent, wire, lost, obj, bcast, client_list>>
      /\ UNCHANGED <<ev, peer, walking>> /\ Still
  BY DEF World, Ask, CloseClient, LoseNode, Kernel, Vanish, Block, Unblock,
         KeepService, tables, thread, xvars, Still
<1>3. /\ PointerPart' /\ MailPart' /\ LossPart'
      /\ \A a : BufsOf(mem', tx_q', a) = BufsOf(mem, tx_q, a)
  BY <1>1, <1>2, StayKeeps
<1>4. ThreadPart'
  BY <1>1, <1>2 DEF ThreadPart, Listed
<1>5. Less
  <2>0. /\ blocked \subseteq open /\ blocks \in Nat
        /\ del_evt \cap open = {}
        /\ bye_evt \/ walking => Remote \cap open = {}
    BY <1>1 DEF QueueState, QueueType, DepartPart
  <2>1. ASSUME NEW p \in Port, Ask(p) PROVE Less
    BY <1>2, <2>0, <2>1 DEF Ask, xvars, port, Less
  <2>2. ASSUME NEW p \in Port, CloseClient(p) PROVE Less
    BY <1>2, <2>0, <2>2 DEF CloseClient, Vanish, Less
  <2>3. CASE LoseNode
    BY <1>2, <2>0, <2>3 DEF LoseNode, Vanish, Less
  <2>4. ASSUME NEW p \in Port, Kernel(p) PROVE Less
    BY <1>2, <2>0, <2>4 DEF Kernel, Block, Unblock, world, Less
  <2> QED BY <2>1, <2>2, <2>3, <2>4 DEF World
<1>6. TendPart'
  BY <1>1, <1>3, <1>5 DEF QueueState, TendPart, Less
<1>7. QueueType'
  BY <1>1, <1>2, <1>5 DEF QueueState, QueueType, Live, Less
<1>8. DepartPart'
  BY <1>1, <1>2, <1>3, <1>5 DEF DepartPart, QueueState, QueueType, Less
<1> QED BY <1>3, <1>4, <1>6, <1>7, <1>8 DEF QueuePart

LEMMA QueueInit == Init => QueueInv
<1> SUFFICES ASSUME Init PROVE QueueInv
  OBVIOUS
<1>1. OwnInv
  BY OwnInit
<1>2. /\ tx_q = <<>> /\ lost = {} /\ open = Port /\ blocked = {} /\ blocks = 0
      /\ sent = [p \in Port |-> 0] /\ wire = [p \in Port |-> <<>>]
      /\ Live = {} /\ bcast = <<>> /\ Elems(bcast) = {}
      /\ ev = "poll" /\ walking = FALSE /\ del_evt = {} /\ bye_evt = FALSE
  BY DEF Init, InitXport, Live, Elems
<1>3. Proper(mem, tx_q, Live) /\ \A a : BufsOf(mem, tx_q, a) = <<>>
  BY <1>2, NoDest
<1>4. QueueType
  BY <1>2 DEF QueueType
<1>5. MailPart
  <2>1. \A p : Mail(p, <<>>, <<>>, 0)
    BY DEF Mail, Elems, Asc
  <2> QED BY <1>2, <1>3, <2>1 DEF MailPart
<1>6. LossPart
  BY <1>2, <1>3 DEF LossPart, Accounted
<1>7. TendPart /\ DepartPart /\ ThreadPart
  BY <1>2, <1>3 DEF TendPart, DepartPart, ThreadPart
<1> QED BY <1>1, <1>3, <1>4, <1>5, <1>6, <1>7
        DEF QueueInv, QueuePart, PointerPart

LEMMA QueueStep ==
  ASSUME NoErrorResponses
  PROVE  QueueInv /\ [Next]_vars => QueueInv'
<1> SUFFICES ASSUME QueueInv, [Next]_vars PROVE QueueInv'
  OBVIOUS
<1>1. OwnInv'
  BY OwnStep DEF QueueInv
<1>2. QueuePart'
  <2>1. ASSUME NEW p \in Port, Receive(p) PROVE QueuePart'
    BY <2>1, ReceiveSteps
  <2>2. ASSUME NEW p \in Port, DelClient(p) \/ ByeClient(p) PROVE QueuePart'
    BY <2>2, GoneSteps
  <2>3. ASSUME NEW p \in Port, ResumeTx(p) PROVE QueuePart'
    BY <2>3, ResumeSteps
  <2>4. ASSUME NEW s \in Slot, ConnectAccept(s) PROVE QueuePart'
    BY <2>4, PlainSteps
  <2>5. CASE Served \/ Bye \/ ByeDone \/ ResumeCb
    BY <2>5, PlainSteps
  <2>6. CASE Disconnect
    BY <2>6, DisconnectSteps
  <2>7. CASE DisconnectFree
    BY <2>7, FreeSteps
  <2>8. CASE NetReset \/ Unregister \/ XportClosed
    BY <2>8, EndSteps
  <2>9. CASE Workers
    BY <2>9, WorkerSteps
  <2>10. CASE World
    BY <2>10, WorldSteps
  <2>11. CASE UNCHANGED vars
    BY <2>11 DEF vars, xvars, tables, world, thread, port, QueueInv, QueuePart,
       QueueType, PointerPart, DepartPart, ThreadPart, TendPart, MailPart,
       LossPart, Live, Listed
  <2>12. CASE Rest
    BY <2>11, <2>12 DEF Rest
  <2>13. ~Bail /\ ~Reject /\ \A s \in Slot : ~ConnectRefuse(s)
    BY DEF NoErrorResponses, QueueInv, QueuePart, ThreadPart, Bail, Reject,
           ConnectRefuse
  <2>14. CASE EventThread
    BY <2>1, <2>2, <2>3, <2>4, <2>5, <2>6, <2>7, <2>8, <2>13, <2>14
       DEF EventThread
  <2> QED BY <2>8, <2>9, <2>10, <2>11, <2>12, <2>14 DEF Next
<1> QED BY <1>1, <1>2 DEF QueueInv

LEMMA QueueAlways ==
  ASSUME NoErrorResponses
  PROVE  Spec => []QueueInv
BY QueueInit, QueueStep, PTL DEF Spec

\* What waits for a port, in the words of the properties.
LEMMA QueueForBufs ==
  ASSUME NEW p
  PROVE  QueueFor(p) = BufsOf(mem, tx_q, p)
BY DEF QueueFor, FindTxQ, BufsOf, HitsOf

\* Wherever a message waited, in a queue of its client's or behind a resume,
\* it is handed to the socket for the client it was meant for: the address
\* a destination of xport_send points to still is that client's.
THEOREM NoStrayMessages ==
  ASSUME NoErrorResponses
  PROVE  Spec => []NoStray
<1>1. QueueInv => NoStray
  BY DEF QueueInv, QueuePart, MailPart, Mail, NoStray
<1> QED BY <1>1, QueueAlways, PTL

\* Messages of one client overtake each other neither on the direct way nor
\* through the queue ("so that it doesn't go out of order", xport_send).
THEOREM OrderKept ==
  ASSUME NoErrorResponses
  PROVE  Spec => []InOrder
<1>1. QueueInv => InOrder
  <2> SUFFICES ASSUME QueueInv, NEW p \in Port
               PROVE  Ascending(Numbers(wire[p] \o QueueFor(p)))
    BY DEF InOrder
  <2> DEFINE w == wire[p]
             q == BufsOf(mem, tx_q, p)
             s == w \o q
  <2>1. Mail(p, w, q, sent[p])
    BY DEF QueueInv, QueuePart, MailPart
  <2>2. /\ w \in Seq(Message) /\ q \in Seq(Message)
        /\ Asc(w) /\ Asc(q) /\ \A m \in Elems(w), l \in Elems(q) : m.no < l.no
    BY <2>1 DEF Mail
  <2>3. /\ Len(w) \in Nat /\ Len(q) \in Nat
        /\ \A i \in 1..Len(w) : w[i] \in Elems(w)
        /\ \A i \in 1..Len(q) : q[i] \in Elems(q)
    BY <2>2 DEF Elems
  <2>4. QueueFor(p) = q
    BY QueueForBufs
  <2> HIDE DEF w, q
  <2>5. /\ Len(s) = Len(w) + Len(q)
        /\ \A i \in 1..Len(s) : s[i] = IF i <= Len(w) THEN w[i]
                                       ELSE q[i - Len(w)]
    BY <2>2, ConcatProperties
  <2>6. Asc(s)
    <3> SUFFICES ASSUME NEW i \in 1..Len(s), NEW j \in 1..Len(s), i < j
                 PROVE  s[i].no < s[j].no
      BY DEF Asc
    <3>1. CASE j <= Len(w)
      BY <2>2, <2>3, <2>5, <3>1 DEF Asc
    <3>2. CASE i <= Len(w) /\ ~(j <= Len(w))
      BY <2>2, <2>3, <2>5, <3>2
    <3>3. CASE ~(i <= Len(w))
      <4>1. /\ i - Len(w) \in 1..Len(q) /\ j - Len(w) \in 1..Len(q)
            /\ i - Len(w) < j - Len(w) /\ ~(j <= Len(w))
        BY <2>3, <2>5, <3>3
      <4> QED BY <2>2, <2>5, <3>3, <4>1 DEF Asc
    <3> QED BY <3>1, <3>2, <3>3
  <2>7. Len(s) \in Nat
    BY <2>3, <2>5
  <2> HIDE DEF s
  <2>8. Ascending(Numbers(s))
    BY <2>6, <2>7 DEF Ascending, Numbers, Asc
  <2> QED BY <2>4, <2>8 DEF s, w
<1> QED BY <1>1, QueueAlways, PTL

\* No destination is left empty, and while its client is there the kernel
\* owes the service a resume event: with fairness, nothing waits for ever.
THEOREM QueuesAreTended ==
  ASSUME NoErrorResponses
  PROVE  Spec => []QueueIsTended
<1>1. QueueInv => QueueIsTended
  <2> SUFFICES ASSUME QueueInv, NEW i \in 1..Len(tx_q)
               PROVE  /\ tx_q[i].bufs # <<>>
                      /\ mem[tx_q[i].dest_addr] \in open
                           => mem[tx_q[i].dest_addr] \in waiter \cup resume_evt
    BY DEF QueueIsTended
  <2>1. Proper(mem, tx_q, Live) /\ tx_q[i] \in Elems(tx_q)
    BY DEF QueueInv, QueuePart, PointerPart, Elems
  <2>2. /\ tx_q[i].bufs # <<>>
        /\ BufsOf(mem, tx_q, mem[tx_q[i].dest_addr]) = tx_q[i].bufs
    BY <2>1, Lookup DEF Proper
  <2> QED BY <2>2 DEF QueueInv, QueuePart, TendPart
<1> QED BY <1>1, QueueAlways, PTL

------------------------------------------------------------------------------
(* What is lost, and who is remembered, as long as no reset and no end of  *)
(* the service empties the queues.                                         *)

NoReset == Env \cap {"reset", "unregister"} = {}

BusyPart == KeptPart /\ ToldPart /\ ev # "closing"
BusyInv == QueueInv /\ BusyPart

\* A step loses only what it may, ...
LosesLittle ==
  /\ open' \subseteq open
  /\ \A m \in lost' \ lost : m.to \notin open \/ "send_err" \in Env

\* ... and leaves the services it does not tell remembered.
Remembers ==
  /\ told_busy' \subseteq told_busy
  /\ \A s \in told_busy' :
       /\ s \in Live' /\ mem'[s] = mem[s]
       /\ BusyOf(mem, tx_q, mem[s]) =>
            \/ BusyOf(mem', tx_q', mem[s]) \/ mem[s] \notin open
            \/ ev' = "resume_cb" /\ mem'[Loop] = mem[s]
       /\ ev = "resume_cb" /\ mem[Loop] = mem[s] =>
            ev' = "resume_cb" /\ mem'[Loop] = mem[s]

LEMMA BusyKeeps ==
  ASSUME BusyPart, LosesLittle, Remembers, ev' # "closing"
  PROVE  BusyPart'
<1>1. KeptPart'
  BY DEF BusyPart, KeptPart, LosesLittle
<1>2. ToldPart'
  <2> SUFFICES ASSUME NEW s \in told_busy'
               PROVE  /\ s \in Live'
                      /\ \/ BusyOf(mem', tx_q', mem'[s])
                         \/ ev' = "resume_cb" /\ mem'[Loop] = mem'[s]
                         \/ mem'[s] \notin open'
    BY DEF ToldPart
  <2>1. /\ s \in Live' /\ mem'[s] = mem[s] /\ open' \subseteq open
        /\ BusyOf(mem, tx_q, mem[s]) =>
             \/ BusyOf(mem', tx_q', mem[s]) \/ mem[s] \notin open
             \/ ev' = "resume_cb" /\ mem'[Loop] = mem[s]
        /\ ev = "resume_cb" /\ mem[Loop] = mem[s] =>
             ev' = "resume_cb" /\ mem'[Loop] = mem[s]
    BY DEF Remembers, LosesLittle
  <2>2. \/ BusyOf(mem, tx_q, mem[s])
        \/ ev = "resume_cb" /\ mem[Loop] = mem[s]
        \/ mem[s] \notin open
    BY DEF BusyPart, ToldPart, Remembers
  <2> QED BY <2>1, <2>2
<1> QED BY <1>1, <1>2 DEF BusyPart

\* Steps that leave the queues and the objects alone.
LEMMA BusyStays ==
  ASSUME BusyInv, Still, UNCHANGED <<tx_q, lost, obj>>, open' \subseteq open,
         ev' # "closing",
         \/ UNCHANGED <<told_busy, ev, mem>>
         \/ told_busy' = told_busy /\ ev # "resume_cb"
  PROVE  BusyPart'
<1>1. QueueState /\ BusyPart /\ OwnInv
  BY Parts DEF BusyInv
<1>2. \A a : BusyOf(mem', tx_q', a) = BusyOf(mem, tx_q, a)
  BY <1>1, StillKeeps
<1>3. LosesLittle
  BY DEF LosesLittle
<1>4. \A s \in told_busy : s \in Live /\ s \in Slot
  BY <1>1 DEF BusyPart, ToldPart, Live
<1>5. Remembers
  BY <1>2, <1>4 DEF Remembers, Still, Live
<1> QED BY <1>1, <1>3, <1>5, BusyKeeps

\* The event thread.
LEMMA BusyPlain ==
  ASSUME BusyInv, \/ Served \/ Bye \/ ByeDone \/ Disconnect
                  \/ \E s \in Slot : ConnectAccept(s)
  PROVE  BusyPart'
<1>1. OwnInv
  BY Parts DEF BusyInv
<1>2. /\ UNCHANGED <<tx_q, lost, obj, told_busy, open>> /\ ev # "resume_cb"
      /\ ev' # "closing"
  BY DEF Served, PacketDone, Bye, ByeDone, Disconnect, PeerDone, ConnectAccept,
         StartRequest, Goto, xvars, port, tables
<1>3. Still
  <2>1. CASE Bye
    BY <1>1, <2>1, ReadKeeps DEF Bye, Still
  <2>2. CASE ~Bye
    BY <2>2 DEF Served, ByeDone, Disconnect, ConnectAccept, xvars, Still
  <2> QED BY <2>1, <2>2
<1> QED BY <1>2, <1>3, BusyStays

LEMMA BusyReceive ==
  ASSUME BusyInv, NoErrorResponses, NEW p \in Port, Receive(p)
  PROVE  BusyPart'
<1>1. OwnInv /\ QueueState /\ BusyPart
  BY Parts DEF BusyInv
<1>2. /\ UNCHANGED <<tx_q, lost, port, told_busy>> /\ UNCHANGED open
      /\ ev = "poll"
  BY DEF Receive, port
<1>3. ASSUME NEW s \in ClientsAt(p), StartRequest(s, <<p, taken'[p]>>),
             ReadFrom(p), UNCHANGED <<client_list, obj>>
      PROVE  BusyPart'
  <2>1. Still
    BY <1>1, <1>3, ReadKeeps DEF Still
  <2>2. ev' # "closing"
    BY <1>3 DEF StartRequest, Goto
  <2> QED BY <1>2, <1>3, <2>1, <2>2, BusyStays
<1>4. ASSUME NEW s \in Slot, CreateClient(s, p)
      PROVE  BusyPart'
  <2>1. /\ Live' = Live \cup {s} /\ ev' = "connect_cb"
        /\ \A u \in Listed : mem'[u] = mem[u]
    BY <1>1, <1>2, <1>4, CreateTracks
  <2>2. Live = Listed
    BY <1>1, <1>2, Memory
  <2>3. Alike(mem, mem', tx_q, Live, Live')
    BY <1>1, <2>1, <2>2 DEF Alike, QueueState, PointerPart, Proper
  <2>4. \A a : BusyOf(mem', tx_q', a) = BusyOf(mem, tx_q, a)
    BY <1>2, <2>3, OtherMemory
  <2>5. LosesLittle
    BY <1>2 DEF LosesLittle
  <2>6. Remembers
    BY <1>1, <1>2, <2>1, <2>2, <2>4 DEF Remembers, BusyPart, ToldPart
  <2> QED BY <1>1, <2>1, <2>5, <2>6, BusyKeeps
<1>5. "malformed" \notin Env
  BY DEF NoErrorResponses
<1> QED BY <1>3, <1>4, <1>5 DEF Receive

LEMMA BusyGone ==
  ASSUME BusyInv, NEW p \in Port, DelClient(p) \/ ByeClient(p)
  PROVE  BusyPart'
<1>1. OwnInv /\ QueueState /\ DepartPart /\ BusyPart
  BY Parts DEF BusyInv
<1>2. /\ UNCHANGED <<obj, port, sent, wire, told_busy, open>>
      /\ PurgeTxQ(mem', p) /\ ev' = "del" /\ p \notin open /\ ev # "resume_cb"
  BY <1>1 DEF DelClient, ByeClient, tables, world, port, DepartPart
<1>3. Still
  <2>1. CASE DelClient(p)
    BY <1>1, <2>1, ReadKeeps DEF DelClient, Still
  <2>2. CASE ByeClient(p)
    BY <2>2 DEF ByeClient, Still
  <2> QED BY <2>1, <2>2
<1>4. /\ \A b : BusyOf(mem, tx_q, b) /\ b # p => BusyOf(mem', tx_q', b)
      /\ \A m \in lost' \ lost : m.to = p
  BY <1>1, <1>2, <1>3, PurgeKeeps
<1>5. LosesLittle
  BY <1>2, <1>4 DEF LosesLittle
<1>6. \A s \in told_busy : s \in Live /\ s \in Slot
  BY <1>1 DEF BusyPart, ToldPart, Live
<1>7. Remembers
  BY <1>2, <1>3, <1>4, <1>6 DEF Remembers, Still, Live
<1> QED BY <1>1, <1>2, <1>5, <1>7, BusyKeeps

LEMMA BusyFree ==
  ASSUME BusyInv, DisconnectFree
  PROVE  BusyPart'
<1>1. OwnInv /\ BusyPart
  BY Parts DEF BusyInv
<1>2. /\ UNCHANGED <<tx_q, lost, open, mem>> /\ ev = "del_free"
      /\ ev' # "closing"
  BY DEF DisconnectFree, xvars, port, PeerDone
<1>3. PICK s \in Leaving : Drop(s)
  BY DEF DisconnectFree
<1>4. Live' = Live \ {s} /\ told_busy' = told_busy \ {s}
  BY <1>1, <1>3 DEF Leaving, Drop, Live, OwnInv, OwnType
<1>5. LosesLittle
  BY <1>2 DEF LosesLittle
<1>6. Remembers
  BY <1>1, <1>2, <1>4 DEF Remembers, BusyPart, ToldPart
<1> QED BY <1>1, <1>2, <1>5, <1>6, BusyKeeps

\* Whoever a resume does not tell stays remembered ...
LEMMA BusyResume ==
  ASSUME BusyInv, NEW p \in Port, ResumeTx(p)
  PROVE  BusyPart'
<1>1. OwnInv /\ QueueState /\ BusyPart
  BY Parts DEF BusyInv
<1>2. /\ UNCHANGED <<obj, open, sent, told_busy>> /\ ev = "poll"
      /\ resume_evt' = resume_evt \ {p} /\ ev' # "closing"
  BY DEF ResumeTx, Goto, tables
<1>3. Still /\ mem'[Loop] = p
  BY <1>1, ReadKeeps DEF ResumeTx, Still
<1>4. PICK tell \in BOOLEAN :
        HandleResumeTx(p, tell) /\ ev' = IF tell THEN "resume_cb" ELSE "poll"
  BY DEF ResumeTx, Goto
<1>5. /\ \A b : BusyOf(mem, tx_q, b) /\ (b = p => ~tell)
                  => BusyOf(mem', tx_q', b)
      /\ \A m \in lost' \ lost : m.to = p /\ Refused(p)
  BY <1>1, <1>2, <1>3, <1>4, ResumeKeeps
<1>6. LosesLittle
  BY <1>2, <1>5 DEF LosesLittle, Refused
<1>7. \A s \in told_busy : s \in Live /\ s \in Slot
  BY <1>1 DEF BusyPart, ToldPart, Live
<1>8. \A b : BusyOf(mem, tx_q, b)
               => BusyOf(mem', tx_q', b) \/ (ev' = "resume_cb" /\ b = p)
  BY <1>4, <1>5
<1>9. Remembers
  BY <1>2, <1>3, <1>7, <1>8 DEF Remembers, Still, Live
<1> QED BY <1>1, <1>2, <1>6, <1>9, BusyKeeps

\* ... and the callback is for the client whose resume it was.
LEMMA BusyCallback ==
  ASSUME BusyInv, ResumeCb
  PROVE  BusyPart'
<1>1. OwnInv /\ QueueState /\ BusyPart
  BY Parts DEF BusyInv
<1>2. /\ UNCHANGED <<mem, tx_q, lost, obj, open>> /\ ev = "resume_cb"
      /\ ev' = "poll" /\ told_busy' = told_busy \ ClientsAt(mem[Loop])
  BY DEF ResumeCb, Goto, xvars, port, tables
<1>3. Live' = Live /\ Live = Listed
  BY <1>1, <1>2, Memory DEF Live
<1>4. LosesLittle
  BY <1>2 DEF LosesLittle
<1>5. Remembers
  BY <1>1, <1>2, <1>3 DEF Remembers, BusyPart, ToldPart, ClientsAt
<1> QED BY <1>1, <1>2, <1>4, <1>5, BusyKeeps

\* Sending: whoever is refused an indication is remembered.
LEMMA BusySend ==
  ASSUME BusyInv, UNCHANGED <<thread, obj>>,
         NEW x \in Live, NEW limited, NEW rc,
         XportSend(x, mem[x], limited, rc),
         \/ told_busy' = told_busy
         \/ rc = "busy" /\ told_busy' = told_busy \cup {x}
  PROVE  BusyPart'
<1>1. OwnInv /\ QueueState /\ BusyPart
  BY Parts DEF BusyInv
<1>2. /\ UNCHANGED <<mem, open, lost>>
      /\ \A a : BusyOf(mem, tx_q, a) => BusyOf(mem, tx_q', a)
      /\ rc = "busy" => BusyOf(mem, tx_q', mem[x])
  BY <1>1, SendKeeps
<1>3. KeptPart'
  BY <1>1, <1>2 DEF BusyPart, KeptPart
<1>4. Live' = Live /\ ev' = ev /\ mem' = mem
  BY <1>2 DEF Live, thread
<1>5. ASSUME NEW s \in told_busy'
      PROVE  /\ s \in Live'
             /\ \/ BusyOf(mem', tx_q', mem'[s])
                \/ ev' = "resume_cb" /\ mem'[Loop] = mem'[s]
                \/ mem'[s] \notin open'
  <2>1. CASE s \in told_busy
    BY <1>1, <1>2, <1>4, <2>1 DEF BusyPart, ToldPart
  <2>2. CASE s = x /\ rc = "busy"
    BY <1>2, <1>4, <2>2
  <2> QED BY <2>1, <2>2
<1> QED BY <1>1, <1>3, <1>4, <1>5 DEF BusyPart, ToldPart

LEMMA BusyWorkers ==
  ASSUME BusyInv, Workers
  PROVE  BusyPart'
<1>1. OwnInv /\ QueueState /\ ThreadPart /\ BusyPart /\ bcast \in Seq(Slot)
  BY Parts DEF BusyInv
<1>2. Listed \subseteq Live
  BY <1>1 DEF OwnInv, ListPart
<1>3. ASSUME NEW t \in txn_list, SendResp(t) PROVE BusyPart'
  <2>1. t.client \in Live /\ mem[t.client] = t.req[1]
    BY <1>1 DEF OwnInv, OwnType, TxnsOwned, Live
  <2>2. PICK rc \in {"ok", "busy", "err"} :
          XportSend(t.client, t.req[1], FALSE, rc)
    BY <1>3 DEF SendResp
  <2>3. UNCHANGED <<thread, obj>> /\ told_busy' = told_busy
    BY <1>3 DEF SendResp
  <2> QED BY <2>1, <2>2, <2>3, BusySend
<1>4. ASSUME NEW s \in Slot, SendInd(s) PROVE BusyPart'
  <2>1. PICK rc \in {"ok", "busy", "err"} : Indicate(s, rc)
    BY <1>4 DEF SendInd
  <2>2. /\ s \in Live /\ UNCHANGED <<thread, obj>>
        /\ XportSend(s, mem[s], TRUE, rc)
        /\ \/ told_busy' = told_busy
           \/ rc = "busy" /\ told_busy' = told_busy \cup {s}
    BY <1>2, <1>4, <2>1 DEF SendInd, Indicate, tables
  <2> QED BY <2>2, BusySend
<1>5. CASE BroadcastStep
  <2>1. Head(bcast) \in Live
    BY <1>1, <1>2, <1>5 DEF BroadcastStep, Elems, ThreadPart
  <2>2. PICK rc \in {"ok", "busy", "err"} :
          XportSend(Head(bcast), mem[Head(bcast)], TRUE, rc)
    BY <1>5 DEF BroadcastStep
  <2>3. UNCHANGED <<thread, obj>> /\ told_busy' = told_busy
    BY <1>5 DEF BroadcastStep, tables
  <2> QED BY <2>1, <2>2, <2>3, BusySend
<1>6. ASSUME Broadcast \/ \E t \in txn_list : SendRespFails(t) PROVE BusyPart'
  <2>1. /\ UNCHANGED <<mem, tx_q, lost, obj, open, told_busy, ev>> /\ Still
        /\ ev # "closing"
    BY <1>1, <1>6 DEF Broadcast, SendRespFails, xvars, port, tables, thread,
                      Still, BusyPart
  <2> QED BY <2>1, BusyStays
<1> QED BY <1>3, <1>4, <1>5, <1>6 DEF Workers

LEMMA BusyWorld ==
  ASSUME BusyInv, World \/ UNCHANGED vars
  PROVE  BusyPart'
<1>1. /\ UNCHANGED <<mem, tx_q, lost, obj, told_busy, ev>> /\ Still
      /\ open' \subseteq open
  BY DEF World, Ask, CloseClient, LoseNode, Kernel, Vanish, Block, Unblock,
         KeepService, tables, thread, xvars, port, Still, vars
<1>2. ev # "closing"
  BY DEF BusyInv, BusyPart
<1> QED BY <1>1, <1>2, BusyStays

LEMMA BusyStep ==
  ASSUME NoErrorResponses, NoReset
  PROVE  BusyInv /\ [Next]_vars => BusyInv'
<1> SUFFICES ASSUME BusyInv, [Next]_vars PROVE BusyInv'
  OBVIOUS
<1>1. QueueInv'
  BY QueueStep DEF BusyInv
<1>2. BusyPart'
  <2>1. ASSUME NEW p \in Port, Receive(p) PROVE BusyPart'
    BY <2>1, BusyReceive
  <2>2. ASSUME NEW p \in Port, DelClient(p) \/ ByeClient(p) PROVE BusyPart'
    BY <2>2, BusyGone
  <2>3. ASSUME NEW p \in Port, ResumeTx(p) PROVE BusyPart'
    BY <2>3, BusyResume
  <2>4. ASSUME NEW s \in Slot, ConnectAccept(s) PROVE BusyPart'
    BY <2>4, BusyPlain
  <2>5. CASE Served \/ Bye \/ ByeDone \/ Disconnect
    BY <2>5, BusyPlain
  <2>6. CASE ResumeCb
    BY <2>6, BusyCallback
  <2>7. CASE DisconnectFree
    BY <2>7, BusyFree
  <2>8. CASE Workers
    BY <2>8, BusyWorkers
  <2>9. CASE World \/ Rest \/ UNCHANGED vars
    BY <2>9, BusyWorld DEF Rest
  <2>10. /\ ~Bail /\ ~Reject /\ \A s \in Slot : ~ConnectRefuse(s)
         /\ ~NetReset /\ ~Unregister /\ ~XportClosed
    BY DEF NoErrorResponses, NoReset, BusyInv, BusyPart, QueueInv, QueuePart,
           ThreadPart, Bail, Reject, ConnectRefuse, NetReset, Unregister,
           XportClosed
  <2> QED BY <2>1, <2>2, <2>3, <2>4, <2>5, <2>6, <2>7, <2>8, <2>9, <2>10
          DEF Next, EventThread
<1> QED BY <1>1, <1>2 DEF BusyInv

LEMMA BusyAlways ==
  ASSUME NoErrorResponses, NoReset
  PROVE  Spec => []BusyInv
<1>1. Init => BusyInv
  BY QueueInit DEF Init, InitXport, BusyInv, BusyPart, KeptPart, ToldPart
<1> QED BY <1>1, BusyStep, PTL DEF Spec

\* Each message the transport accepted for a client is sent, waits in its
\* queue, or was dropped; and none of a client that is still there is
\* dropped unless the socket refused it.
THEOREM MessagesKept ==
  ASSUME NoErrorResponses, NoReset
  PROVE  Spec => []NothingLost
<1>1. BusyInv => NothingLost
  <2> SUFFICES ASSUME BusyInv, NEW p \in Port
               PROVE  LET all == [to : {p}, no : 1..sent[p]]
                          kept == Elems(wire[p]) \cup Elems(QueueFor(p))
                      IN  /\ all = kept \cup (lost \cap all)
                          /\ kept \cap lost = {}
                          /\ (p \in open /\ "send_err" \notin Env)
                               => kept = all
    BY DEF NothingLost
  <2> DEFINE n == sent[p]
             w == wire[p]
             q == BufsOf(mem, tx_q, p)
             all == [to : {p}, no : 1..n]
             kept == Elems(w) \cup Elems(q)
  <2>1. Mail(p, w, q, n) /\ Accounted(p, w, q, n, lost) /\ KeptPart
    BY DEF BusyInv, BusyPart, QueueInv, QueuePart, MailPart, LossPart
  <2>2. QueueFor(p) = q
    BY QueueForBufs
  <2> HIDE DEF n, w, q
  <2>3. \A m \in kept : m.no \in 1..n /\ m = Msg(p, m.no)
    BY <2>1, MailTypes
  <2>4. \A i \in 1..n : Msg(p, i) \in kept <=> Msg(p, i) \notin lost
    BY <2>1 DEF Accounted, Msg
  <2>5. \A m \in all : m.no \in 1..n /\ m = Msg(p, m.no)
    BY DEF Msg
  <2>6. \A i \in 1..n : Msg(p, i) \in all
    BY DEF Msg
  <2> HIDE DEF all, kept
  <2>7. \A m \in kept : m \in all
    BY <2>3, <2>6
  <2>8. \A m \in all : m \in kept <=> m \notin lost
    BY <2>4, <2>5
  <2>9. ASSUME p \in open, "send_err" \notin Env, NEW m \in all
        PROVE  m \notin lost
    <3>1. m.to = p
      BY <2>9 DEF all
    <3> QED BY <2>1, <2>9, <3>1 DEF KeptPart
  <2>10. /\ all = kept \cup (lost \cap all) /\ kept \cap lost = {}
         /\ (p \in open /\ "send_err" \notin Env) => kept = all
    BY <2>7, <2>8, <2>9
  <2> QED BY <2>2, <2>10 DEF all, kept, n, w, q
<1> QED BY <1>1, BusyAlways, PTL

\* A service that was refused an indication with QMI_CSI_CONN_BUSY is not
\* forgotten: dest_busy of the client's queue is set, or the resume callback
\* is on its way, or the client is gone.
THEOREM RefusalsRemembered ==
  ASSUME NoErrorResponses, NoReset
  PROVE  Spec => []BusyIsRemembered
<1>1. BusyInv => BusyIsRemembered
  <2>1. ASSUME NEW a, BusyOf(mem, tx_q, a)
        PROVE  \E i \in 1..Len(tx_q) :
                 mem[tx_q[i].dest_addr] = a /\ tx_q[i].dest_busy
    BY <2>1 DEF BusyOf, Elems
  <2> QED BY <2>1 DEF BusyInv, BusyPart, ToldPart, BusyIsRemembered
<1> QED BY <1>1, BusyAlways, PTL
=============================================================================
