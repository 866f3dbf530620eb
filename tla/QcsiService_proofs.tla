------------------------- MODULE QcsiService_proofs -------------------------
(***************************************************************************)
(* Proofs about QMI services (QcsiService), for any number of clients,     *)
(* requests and objects and every combination of events: types, a          *)
(* transaction never outlives the client object it points to, a client     *)
(* that is gone is not forgotten, and the library implements the sessions  *)
(* of QmiSessions.                                                         *)
(***************************************************************************)
EXTENDS QcsiService, SequenceTheorems, FiniteSetTheorems,
        WellFoundedInduction, TLAPS

------------------------------------------------------------------------------
(* Lists.                                                                  *)

NoDup(q) == \A i, j \in 1..Len(q) : q[i] = q[j] => i = j

\* What a list holds after an element is added at its end ...
LEMMA ElemsAppend ==
  ASSUME NEW S, NEW q \in Seq(S), NEW e \in S
  PROVE  /\ Append(q, e) \in Seq(S)
         /\ Elems(Append(q, e)) = Elems(q) \cup {e}
         /\ NoDup(q) /\ e \notin Elems(q) => NoDup(Append(q, e))
<1>1. /\ Len(q) \in Nat /\ Append(q, e) \in Seq(S)
      /\ Len(Append(q, e)) = Len(q) + 1
      /\ Append(q, e)[Len(q) + 1] = e
      /\ \A i \in 1..Len(q) : Append(q, e)[i] = q[i]
  OBVIOUS
<1>2. Elems(Append(q, e)) = Elems(q) \cup {e}
  BY <1>1 DEF Elems
<1>3. ASSUME NoDup(q), e \notin Elems(q) PROVE NoDup(Append(q, e))
  BY <1>1, <1>3 DEF NoDup, Elems
<1> QED BY <1>1, <1>2, <1>3

\* ... and after one was taken out.
LEMMA ElemsWithout ==
  ASSUME NEW S, NEW q \in Seq(S), NEW i \in 1..Len(q), NoDup(q)
  PROVE  /\ Without(q, i) \in Seq(S) /\ NoDup(Without(q, i))
         /\ Elems(Without(q, i)) = Elems(q) \ {q[i]}
<1> DEFINE front == SubSeq(q, 1, i - 1)
           back == SubSeq(q, i + 1, Len(q))
           w == front \o back
<1>1. Len(q) \in Nat /\ i \in Nat /\ \A j \in 1..Len(q) : q[j] \in S
  OBVIOUS
<1>2. /\ front \in Seq(S) /\ Len(front) = i - 1
      /\ \A j \in 1..i - 1 : front[j] = q[j]
  <2>1. 1 \in Int /\ i - 1 \in Int /\ \A j \in 1..i - 1 : q[j] \in S
    BY <1>1
  <2> QED BY <1>1, <2>1, SubSeqProperties
<1>3. /\ back \in Seq(S) /\ Len(back) = Len(q) - i
      /\ \A j \in 1..Len(q) - i : back[j] = q[i + j]
  <2>1. i + 1 \in Int /\ Len(q) \in Int /\ \A j \in i + 1..Len(q) : q[j] \in S
    BY <1>1
  <2>2. /\ back \in Seq(S)
        /\ Len(back) = IF i + 1 <= Len(q) THEN Len(q) - (i + 1) + 1 ELSE 0
        /\ \A j \in 1..Len(q) - (i + 1) + 1 : back[j] = q[i + 1 + j - 1]
    BY <2>1, SubSeqProperties
  <2> QED BY <1>1, <2>2
<1> HIDE DEF front, back
<1>4. /\ w \in Seq(S) /\ Len(w) = Len(q) - 1
      /\ \A j \in 1..Len(w) : w[j] = IF j < i THEN q[j] ELSE q[j + 1]
  <2>1. /\ w \in Seq(S) /\ Len(w) = Len(front) + Len(back)
        /\ \A j \in 1..Len(front) + Len(back) :
              w[j] = IF j <= Len(front) THEN front[j] ELSE back[j - Len(front)]
    BY <1>2, <1>3, ConcatProperties
  <2>2. Len(w) = Len(q) - 1
    BY <1>1, <1>2, <1>3, <2>1
  <2>3. ASSUME NEW j \in 1..Len(w)
        PROVE  w[j] = IF j < i THEN q[j] ELSE q[j + 1]
    <3>1. CASE j < i
      BY <1>1, <1>2, <1>3, <2>1, <2>2, <3>1
    <3>2. CASE j >= i
      <4>1. /\ j - (i - 1) \in 1..Len(q) - i
            /\ w[j] = back[j - (i - 1)]
        BY <1>1, <1>2, <1>3, <2>1, <2>2, <3>2
      <4> QED BY <1>1, <1>3, <3>2, <4>1
    <3> QED BY <1>1, <3>1, <3>2
  <2> QED BY <2>1, <2>2, <2>3
<1>5. Without(q, i) = w
  BY DEF Without, front, back
<1> HIDE DEF w
<1>6. NoDup(w)
  BY <1>1, <1>4 DEF NoDup
<1>7. ASSUME NEW x \in Elems(w) PROVE x \in Elems(q) \ {q[i]}
  <2>1. PICK j \in 1..Len(w) : x = w[j]
    BY DEF Elems
  <2>2. CASE j < i
    BY <1>1, <1>4, <2>1, <2>2 DEF NoDup, Elems
  <2>3. CASE j >= i
    <3>1. j + 1 \in 1..Len(q) /\ j + 1 # i /\ x = q[j + 1]
      BY <1>1, <1>4, <2>1, <2>3
    <3> QED BY <3>1 DEF NoDup, Elems
  <2> QED BY <1>1, <2>2, <2>3
<1>8. ASSUME NEW x \in Elems(q) \ {q[i]} PROVE x \in Elems(w)
  <2>1. PICK j \in 1..Len(q) : x = q[j]
    BY DEF Elems
  <2>2. CASE j < i
    BY <1>1, <1>4, <2>1, <2>2 DEF Elems
  <2>3. CASE j > i
    <3>1. j - 1 \in 1..Len(w) /\ w[j - 1] = q[j]
      BY <1>1, <1>4, <2>3
    <3> QED BY <2>1, <3>1 DEF Elems
  <2> QED BY <1>1, <2>1, <2>2, <2>3
<1> QED BY <1>4, <1>5, <1>6, <1>7, <1>8

------------------------------------------------------------------------------
(* Client objects and transactions: the inductive invariant.               *)

Live == {s \in Slot : obj[s] = "live"}

\* The variables that matter have their types.
OwnType ==
  /\ mem \in [Ptr -> Port \cup {NoPort}]
  /\ client_list \in Seq(Slot) /\ NoDup(client_list)
  /\ obj \in [Slot -> {"unused", "live", "free"}]
  /\ \A t \in txn_list : t.client \in Slot

\* Listed objects are live, and only the object of the client that is being
\* disconnected is live without being listed.
ListPart ==
  /\ Listed \subseteq Live
  /\ \A s \in Live \ Listed : ev = "del_free" /\ mem[s] = peer

\* A client has one object.
OneEach == \A s, u \in Live : mem[s] = mem[u] => s = u

\* A client that connect_cb has not accepted yet has no transactions.
FreshPart ==
  ev = "connect_cb" => \A t \in txn_list : mem[t.client] # mem[Loop]

OwnInv == OwnType /\ ListPart /\ OneEach /\ FreshPart /\ TxnsOwned

\* Where a client is disconnected, its transactions are its object's.
LEMMA Memory ==
  ASSUME OwnInv
  PROVE  /\ Loop \in Ptr /\ Loop \notin Slot /\ Slot \subseteq Ptr
         /\ Listed \subseteq Slot /\ Live \subseteq Slot
         /\ ev # "del_free" => Live = Listed
BY XportAssumption DEF OwnInv, OwnType, ListPart, Ptr, Live, Listed, Elems

\* A client object leaves the list.
LEMMA Unlisting ==
  ASSUME OwnInv, NEW s \in Listed, client_list' = Unlisted(s)
  PROVE  /\ client_list' \in Seq(Slot) /\ NoDup(client_list')
         /\ Listed' = Listed \ {s}
<1> DEFINE i == CHOOSE j \in 1..Len(client_list) : client_list[j] = s
<1>1. i \in 1..Len(client_list) /\ client_list[i] = s
  BY DEF Listed, Elems
<1>2. client_list' = Without(client_list, i)
  BY DEF Unlisted
<1>3. client_list \in Seq(Slot) /\ NoDup(client_list)
  BY DEF OwnInv, OwnType
<1> HIDE DEF i
<1>4. /\ Without(client_list, i) \in Seq(Slot) /\ NoDup(Without(client_list, i))
      /\ Elems(Without(client_list, i)) = Elems(client_list) \ {client_list[i]}
  BY <1>1, <1>3, ElemsWithout
<1> QED BY <1>1, <1>2, <1>4 DEF Listed

\* Steps that leave the objects alone, add no transactions and go on to no
\* other client.
Quiet ==
  /\ UNCHANGED <<client_list, obj>>
  /\ mem' \in [Ptr -> Port \cup {NoPort}]
  /\ \A s \in Slot : mem'[s] = mem[s]
  /\ txn_list' \subseteq txn_list
  /\ ev = "del_free" => UNCHANGED <<ev, peer>>
  /\ ev' = "connect_cb" => UNCHANGED <<ev, mem>>

LEMMA QuietKeeps == OwnInv /\ Quiet => OwnInv'
<1> SUFFICES ASSUME OwnInv, Quiet PROVE OwnInv'
  OBVIOUS
<1> USE DEF Quiet
<1>1. Live' = Live /\ Listed' = Listed /\ Live \subseteq Slot
  BY DEF Live, Listed
<1>2. OwnType'
  BY DEF OwnInv, OwnType, NoDup
<1>3. ListPart'
  BY <1>1 DEF OwnInv, ListPart
<1>4. OneEach'
  BY <1>1 DEF OwnInv, OneEach
<1>5. FreshPart'
  BY DEF OwnInv, FreshPart
<1>6. TxnsOwned'
  <2> SUFFICES ASSUME NEW t \in txn_list'
               PROVE  /\ obj'[t.client] = "live"
                      /\ mem'[t.client] = t.req[1]
                      /\ t.client \in Listed' \/ ev' = "del_free"
    BY DEF TxnsOwned
  <2>1. /\ t \in txn_list /\ t.client \in Slot /\ obj[t.client] = "live"
        /\ mem[t.client] = t.req[1]
        /\ t.client \in Listed \/ ev = "del_free"
    BY DEF OwnInv, OwnType, TxnsOwned
  <2> QED BY <1>1, <2>1
<1> QED BY <1>2, <1>3, <1>4, <1>5, <1>6 DEF OwnInv

------------------------------------------------------------------------------
(* The steps that change neither client objects nor the list of clients.   *)

\* Only the event loop's variable is written by a packet.
LEMMA ReadKeeps ==
  ASSUME OwnInv, NEW a \in Port \cup {NoPort}, ReadFrom(a)
  PROVE  /\ mem' \in [Ptr -> Port \cup {NoPort}]
         /\ mem'[Loop] = a
         /\ \A s \in Slot : mem'[s] = mem[s]
BY Memory DEF OwnInv, OwnType, ReadFrom

\* Requests that are served, rejected or refused, and the workers.
LEMMA ServiceQuiet ==
  ASSUME OwnInv,
         \/ Served \/ Reject \/ Bail \/ Broadcast \/ BroadcastStep
         \/ \E t \in txn_list : SendResp(t) \/ SendRespFails(t)
         \/ \E s \in Slot : SendInd(s)
  PROVE  Quiet
<1>1. mem \in [Ptr -> Port \cup {NoPort}]
  BY DEF OwnInv, OwnType
<1>2. CASE Served
  BY <1>1, <1>2 DEF Served, PacketDone, xvars, tables, Quiet
<1>3. CASE Reject
  BY <1>1, <1>3 DEF Reject, Goto, xvars, Quiet
<1>4. CASE Bail
  BY <1>1, <1>4 DEF Bail, PacketDone, XportSend, Accept, tables, Quiet
<1>5. CASE Broadcast
  BY <1>1, <1>5 DEF Broadcast, xvars, tables, thread, Quiet
<1>6. CASE BroadcastStep
  BY <1>1, <1>6 DEF BroadcastStep, XportSend, Accept, tables, thread, Quiet
<1>7. ASSUME NEW t \in txn_list, SendResp(t) PROVE Quiet
  BY <1>1, <1>7 DEF SendResp, XportSend, Accept, thread, Quiet
<1>8. ASSUME NEW t \in txn_list, SendRespFails(t) PROVE Quiet
  BY <1>1, <1>8 DEF SendRespFails, xvars, thread, Quiet
<1>9. ASSUME NEW s \in Slot, SendInd(s) PROVE Quiet
  BY <1>1, <1>9 DEF SendInd, Indicate, XportSend, Accept, tables, thread, Quiet
<1> QED BY <1>2, <1>3, <1>4, <1>5, <1>6, <1>7, <1>8, <1>9

\* Control packets, resume events, the reset and the end.
LEMMA ControlQuiet ==
  ASSUME OwnInv,
         \/ \E p \in Port : DelClient(p) \/ ByeClient(p) \/ ResumeTx(p)
         \/ Bye \/ ByeDone \/ ResumeCb \/ NetReset \/ Unregister
  PROVE  Quiet
<1>1. mem \in [Ptr -> Port \cup {NoPort}]
  BY DEF OwnInv, OwnType
<1>2. ASSUME NEW p \in Port, DelClient(p) PROVE Quiet
  BY <1>2, ReadKeeps DEF DelClient, tables, Quiet
<1>3. ASSUME NEW p \in Port, ByeClient(p) PROVE Quiet
  BY <1>1, <1>3 DEF ByeClient, tables, Quiet
<1>4. ASSUME NEW p \in Port, ResumeTx(p) PROVE Quiet
  BY <1>4, ReadKeeps DEF ResumeTx, Goto, tables, Quiet
<1>5. CASE Bye
  BY <1>5, ReadKeeps DEF Bye, tables, Quiet
<1>6. CASE ByeDone
  BY <1>1, <1>6 DEF ByeDone, xvars, tables, Quiet
<1>7. CASE ResumeCb
  BY <1>1, <1>7 DEF ResumeCb, Goto, xvars, tables, Quiet
<1>8. CASE NetReset
  BY <1>1, <1>8 DEF NetReset, tables, Quiet
<1>9. CASE Unregister
  BY <1>1, <1>9 DEF Unregister, tables, Quiet
<1> QED BY <1>2, <1>3, <1>4, <1>5, <1>6, <1>7, <1>8, <1>9

\* What clients, nodes and the kernel do.
LEMMA WorldQuiet ==
  ASSUME OwnInv, World \/ UNCHANGED vars
  PROVE  Quiet
<1>1. mem \in [Ptr -> Port \cup {NoPort}]
  BY DEF OwnInv, OwnType
<1> USE DEF KeepService, tables, thread
<1>2. ASSUME NEW p \in Port, Ask(p) PROVE Quiet
  BY <1>1, <1>2 DEF Ask, xvars, Quiet
<1>3. ASSUME NEW p \in Port, CloseClient(p) PROVE Quiet
  BY <1>1, <1>3 DEF CloseClient, Vanish, Quiet
<1>4. ASSUME NEW p \in Port, Kernel(p) PROVE Quiet
  BY <1>1, <1>4 DEF Kernel, Block, Unblock, Quiet
<1>5. CASE LoseNode
  BY <1>1, <1>5 DEF LoseNode, Vanish, Quiet
<1>6. CASE UNCHANGED vars
  BY <1>1, <1>6 DEF vars, xvars, Quiet
<1> QED BY <1>2, <1>3, <1>4, <1>5, <1>6 DEF World

------------------------------------------------------------------------------
(* The steps that do.                                                      *)

\* A transaction is added for a listed client.
LEMMA StartKeeps ==
  ASSUME OwnInv, NEW s \in Listed, NEW r,
         mem[s] = r[1],
         StartRequest(s, r), ev # "del_free", UNCHANGED <<client_list, obj>>,
         mem' \in [Ptr -> Port \cup {NoPort}],
         \A u \in Slot : mem'[u] = mem[u]
  PROVE  OwnInv'
<1> DEFINE new == [req |-> r, client |-> s]
<1>1. /\ txn_list' = txn_list \cup {new} /\ ev' = "process"
      /\ new.client = s /\ new.req = r
  BY DEF StartRequest, Goto
<1> HIDE DEF new
<1>2. Live' = Live /\ Listed' = Listed /\ Live = Listed /\ Listed \subseteq Slot
  BY Memory DEF Live, Listed
<1>3. OwnType'
  BY <1>1, <1>2 DEF OwnInv, OwnType, NoDup
<1>4. ListPart' /\ OneEach'
  BY <1>2 DEF OwnInv, ListPart, OneEach
<1>5. FreshPart'
  BY <1>1 DEF FreshPart
<1>6. ASSUME NEW t \in txn_list'
      PROVE  /\ obj'[t.client] = "live"
             /\ mem'[t.client] = t.req[1]
             /\ t.client \in Listed' \/ ev' = "del_free"
  <2>1. CASE t = new
    BY <1>1, <1>2, <2>1 DEF Live
  <2>2. CASE t \in txn_list
    BY <1>2, <2>2 DEF OwnInv, OwnType, TxnsOwned
  <2> QED BY <1>1, <2>1, <2>2
<1> QED BY <1>3, <1>4, <1>5, <1>6 DEF OwnInv, TxnsOwned

\* A client object is made for a client that has none.
LEMMA CreateKeeps ==
  ASSUME OwnInv, NEW p \in Port, NEW s \in Slot, ev = "poll",
         ClientsAt(p) = {}, CreateClient(s, p), UNCHANGED txn_list
  PROVE  OwnInv'
<1>1. /\ Live = Listed /\ Loop \notin Slot /\ Slot \subseteq Ptr /\ Loop \in Ptr
  BY Memory
<1>2. s \notin Live
  BY DEF CreateClient, Allocatable, Live
<1>3. /\ client_list' \in Seq(Slot) /\ NoDup(client_list')
      /\ Listed' = Listed \cup {s}
  BY <1>1, <1>2, ElemsAppend DEF CreateClient, OwnInv, OwnType, Listed
<1>4. /\ obj' \in [Slot -> {"unused", "live", "free"}]
      /\ Live' = Live \cup {s}
  BY DEF CreateClient, OwnInv, OwnType, Live
<1>5. /\ mem' \in [Ptr -> Port \cup {NoPort}]
      /\ mem'[Loop] = p /\ mem'[s] = p
      /\ \A u \in Slot \ {s} : mem'[u] = mem[u]
  BY <1>1 DEF CreateClient, OwnInv, OwnType
<1>6. \A u \in Live : u \in Slot /\ u # s /\ mem'[u] = mem[u] /\ mem[u] # p
  BY <1>1, <1>2, <1>5 DEF ClientsAt, Live
<1>7. \A t \in txn_list : t.client \in Live /\ mem[t.client] = t.req[1]
  BY DEF OwnInv, OwnType, TxnsOwned, Live
<1>8. OwnType'
  BY <1>3, <1>4, <1>5 DEF OwnInv, OwnType
<1>9. ListPart' /\ OneEach'
  BY <1>1, <1>3, <1>4, <1>5, <1>6 DEF OwnInv, ListPart, OneEach
<1>10. FreshPart'
  BY <1>5, <1>6, <1>7 DEF FreshPart
<1>11. TxnsOwned'
  BY <1>1, <1>3, <1>4, <1>6, <1>7 DEF TxnsOwned, Live
<1> QED BY <1>8, <1>9, <1>10, <1>11 DEF OwnInv

LEMMA ReceiveKeeps ==
  ASSUME OwnInv, NEW p \in Port, Receive(p)
  PROVE  OwnInv'
<1>1. CASE /\ \E s \in ClientsAt(p) : StartRequest(s, <<p, taken'[p]>>)
           /\ ReadFrom(p) /\ UNCHANGED <<client_list, obj>>
  <2>1. PICK s \in ClientsAt(p) : StartRequest(s, <<p, taken'[p]>>)
    BY <1>1
  <2>2. s \in Listed /\ mem[s] = p /\ <<p, taken'[p]>>[1] = p
    BY DEF ClientsAt
  <2>3. ev # "del_free"
    BY DEF Receive
  <2> QED BY <1>1, <2>1, <2>2, <2>3, ReadKeeps, StartKeeps
<1>2. CASE /\ ClientsAt(p) = {} /\ \E s \in Slot : CreateClient(s, p)
           /\ UNCHANGED txn_list
  BY <1>2, CreateKeeps DEF Receive
<1>3. CASE ReadFrom(p) /\ Goto("bail") /\ UNCHANGED tables
  BY <1>3, ReadKeeps, QuietKeeps DEF Receive, Goto, tables, Quiet
<1> QED BY <1>1, <1>2, <1>3 DEF Receive

LEMMA AcceptKeeps ==
  ASSUME OwnInv, NEW s \in Slot, ConnectAccept(s)
  PROVE  OwnInv'
<1>1. s \in Listed /\ mem[s] = mem[Loop]
  BY DEF ConnectAccept, ClientsAt
<1>2. /\ StartRequest(s, Current) /\ Current[1] = mem[Loop]
      /\ ev # "del_free" /\ UNCHANGED <<client_list, obj, mem>>
  BY DEF ConnectAccept, Current, xvars
<1> QED BY <1>1, <1>2, StartKeeps DEF OwnInv, OwnType

\* The refused client has no transactions, so no transaction loses its owner.
LEMMA RefuseKeeps ==
  ASSUME OwnInv, NEW s \in Slot, ConnectRefuse(s)
  PROVE  OwnInv'
<1>1. /\ ev = "connect_cb" /\ s \in Listed /\ mem[s] = mem[Loop]
      /\ client_list' = Unlisted(s) /\ obj' = [obj EXCEPT ![s] = "free"]
      /\ ev' = "bail" /\ UNCHANGED <<mem, txn_list>>
  BY DEF ConnectRefuse, ClientsAt, Drop, Goto, xvars
<1>2. /\ client_list' \in Seq(Slot) /\ NoDup(client_list')
      /\ Listed' = Listed \ {s}
  BY <1>1, Unlisting
<1>3. obj' \in [Slot -> {"unused", "live", "free"}] /\ Live' = Live \ {s}
  BY <1>1 DEF OwnInv, OwnType, Live
<1>4. Live = Listed
  BY <1>1, Memory
<1>5. \A t \in txn_list : t.client \in Live' /\ mem[t.client] = t.req[1]
  BY <1>1, <1>3 DEF OwnInv, OwnType, TxnsOwned, FreshPart, Live
<1>6. OwnType'
  BY <1>1, <1>2, <1>3 DEF OwnInv, OwnType
<1>7. ListPart' /\ OneEach'
  BY <1>1, <1>2, <1>3, <1>4 DEF OwnInv, ListPart, OneEach
<1>8. FreshPart'
  BY <1>1 DEF FreshPart
<1>9. TxnsOwned'
  BY <1>1, <1>2, <1>3, <1>4, <1>5 DEF TxnsOwned, Live
<1> QED BY <1>6, <1>7, <1>8, <1>9 DEF OwnInv

\* A client leaves the list, and its object is the one that is left over.
LEMMA DisconnectKeeps ==
  ASSUME OwnInv, Disconnect
  PROVE  OwnInv'
<1>1. ev = "del" /\ UNCHANGED <<mem, obj, txn_list>>
  BY DEF Disconnect, xvars
<1>2. CASE PeerDone /\ UNCHANGED client_list
  BY <1>1, <1>2, QuietKeeps DEF PeerDone, Quiet, OwnInv, OwnType
<1>3. ASSUME NEW s \in ClientsAt(peer), client_list' = Unlisted(s),
             Goto("del_free")
      PROVE  OwnInv'
  <2>1. s \in Listed /\ mem[s] = peer /\ ev' = "del_free" /\ peer' = peer
    BY <1>3 DEF ClientsAt, Goto
  <2>2. /\ client_list' \in Seq(Slot) /\ NoDup(client_list')
        /\ Listed' = Listed \ {s}
    BY <1>3, <2>1, Unlisting
  <2>3. Live' = Live /\ Live = Listed
    BY <1>1, Memory DEF Live
  <2>4. OwnType'
    BY <1>1, <2>2 DEF OwnInv, OwnType
  <2>5. ListPart' /\ OneEach'
    BY <1>1, <2>1, <2>2, <2>3 DEF OwnInv, ListPart, OneEach
  <2>6. FreshPart' /\ TxnsOwned'
    BY <1>1, <2>1 DEF OwnInv, FreshPart, TxnsOwned
  <2> QED BY <2>4, <2>5, <2>6 DEF OwnInv
<1> QED BY <1>2, <1>3 DEF Disconnect

\* The object that is left over is freed after its transactions.
LEMMA FreeKeeps ==
  ASSUME OwnInv, DisconnectFree
  PROVE  OwnInv'
<1>1. PICK s \in Leaving : CleanTxns(s) /\ Drop(s)
  BY DEF DisconnectFree
<1>2. /\ ev = "del_free" /\ UNCHANGED <<mem, client_list>>
      /\ obj' = [obj EXCEPT ![s] = "free"]
      /\ ev' # "del_free" /\ ev' # "connect_cb"
      /\ txn_list' = txn_list \ {t \in txn_list : t.client \in {s}}
  BY <1>1 DEF DisconnectFree, CleanTxns, DropTxns, Drop, PeerDone, xvars
<1>3. s \in Live \ Listed /\ mem[s] = peer
  BY DEF Leaving, Live
<1>4. obj' \in [Slot -> {"unused", "live", "free"}] /\ Live' = Live \ {s}
  BY <1>2 DEF OwnInv, OwnType, Live
<1>5. Live' = Listed /\ Listed' = Listed
  BY <1>2, <1>3, <1>4 DEF OwnInv, ListPart, OneEach, Listed
<1>6. \A t \in txn_list' : /\ t.client \in Live' /\ obj'[t.client] = "live"
                           /\ mem[t.client] = t.req[1] /\ t \in txn_list
  BY <1>2, <1>4 DEF OwnInv, OwnType, TxnsOwned, Live
<1>7. OwnType'
  BY <1>2, <1>4, <1>6 DEF OwnInv, OwnType
<1>8. ListPart' /\ OneEach'
  BY <1>2, <1>4, <1>5 DEF OwnInv, ListPart, OneEach
<1>9. FreshPart' /\ TxnsOwned'
  BY <1>2, <1>5, <1>6 DEF FreshPart, TxnsOwned
<1> QED BY <1>7, <1>8, <1>9 DEF OwnInv

LEMMA ClosedKeeps ==
  ASSUME OwnInv, XportClosed
  PROVE  OwnInv'
<1>1. /\ ev = "closing" /\ ev' = "closed" /\ mem' = mem /\ client_list' = <<>>
      /\ obj' = [s \in Slot |-> IF s \in Listed THEN "free" ELSE obj[s]]
      /\ txn_list' = txn_list \ {t \in txn_list : t.client \in Listed}
  BY DEF XportClosed, DropTxns, Goto
<1>2. Live = Listed
  BY <1>1, Memory
<1>3. Listed' = {} /\ Live' = {}
  BY <1>1, <1>2 DEF Listed, Elems, Live
<1>4. txn_list' = {}
  BY <1>1 DEF OwnInv, TxnsOwned
<1>5. OwnType'
  BY <1>1, <1>4 DEF OwnInv, OwnType, NoDup
<1> QED BY <1>1, <1>3, <1>4, <1>5
        DEF OwnInv, ListPart, OneEach, FreshPart, TxnsOwned

------------------------------------------------------------------------------

LEMMA OwnInit == Init => OwnInv
<1> SUFFICES ASSUME Init PROVE OwnInv
  OBVIOUS
<1>1. Listed = {} /\ Live = {}
  BY DEF Init, Listed, Elems, Live
<1>2. OwnType
  BY DEF Init, InitXport, OwnType, NoDup
<1> QED BY <1>1, <1>2
        DEF Init, OwnInv, ListPart, OneEach, FreshPart, TxnsOwned

LEMMA OwnStep == OwnInv /\ [Next]_vars => OwnInv'
<1> SUFFICES ASSUME OwnInv, [Next]_vars PROVE OwnInv'
  OBVIOUS
<1>1. CASE EventThread
  <2>1. ASSUME NEW p \in Port, Receive(p) PROVE OwnInv'
    BY <2>1, ReceiveKeeps
  <2>2. ASSUME NEW p \in Port, DelClient(p) \/ ByeClient(p) \/ ResumeTx(p)
        PROVE  OwnInv'
    BY <2>2, ControlQuiet, QuietKeeps
  <2>3. ASSUME NEW s \in Slot, ConnectAccept(s) PROVE OwnInv'
    BY <2>3, AcceptKeeps
  <2>4. ASSUME NEW s \in Slot, ConnectRefuse(s) PROVE OwnInv'
    BY <2>4, RefuseKeeps
  <2>5. CASE Served \/ Reject \/ Bail
    BY <2>5, ServiceQuiet, QuietKeeps
  <2>6. CASE Bye \/ ByeDone \/ ResumeCb
    BY <2>6, ControlQuiet, QuietKeeps
  <2>7. CASE Disconnect
    BY <2>7, DisconnectKeeps
  <2>8. CASE DisconnectFree
    BY <2>8, FreeKeeps
  <2>9. CASE XportClosed
    BY <2>9, ClosedKeeps
  <2> QED BY <1>1, <2>1, <2>2, <2>3, <2>4, <2>5, <2>6, <2>7, <2>8, <2>9
          DEF EventThread
<1>2. CASE NetReset \/ Unregister
  BY <1>2, ControlQuiet, QuietKeeps
<1>3. CASE Workers
  BY <1>3, ServiceQuiet, QuietKeeps DEF Workers
<1>4. CASE World \/ UNCHANGED vars
  BY <1>4, WorldQuiet, QuietKeeps
<1>5. CASE Rest
  BY <1>4, <1>5 DEF Rest
<1> QED BY <1>1, <1>2, <1>3, <1>4, <1>5 DEF Next

LEMMA OwnAlways == Spec => []OwnInv
BY OwnInit, OwnStep, PTL DEF Spec

\* Every transaction belongs to a live client object of the client that sent
\* the request, until the object is unlisted and cleaned under the same lock:
\* the claim of the comment at clean_txns and of qmi_csi_send_resp, for any
\* number of clients and requests and whichever events can happen.
THEOREM TransactionsOwned == Spec => []TxnsOwned
<1>1. OwnInv => TxnsOwned
  BY DEF OwnInv
<1> QED BY <1>1, OwnAlways, PTL

------------------------------------------------------------------------------
(* Departures: the second invariant.                                       *)

Pending(p) == p \in del_evt \/ (p \in Remote /\ bye_evt)

\* The news of a departure: waiting, being handled, or overtaken by the end.
News(p) ==
  \/ Pending(p)
  \/ ev = "del" /\ peer = p
  \/ walking /\ p \in conn_cli \cap Remote
  \/ ev = "closing"

Counts == asked \in [Port -> Nat] /\ taken \in [Port -> Nat]

\* An accepted client is listed, and the transport remembers it, or will
\* when the packet at hand is done.
TrackedPart ==
  \A s \in connected :
    /\ s \in Listed
    /\ \/ mem[s] \in conn_cli
       \/ ev \in {"process", "bail"} /\ mem[Loop] = mem[s]
       \/ ev = "closing"

\* The news of a departure comes after the last packet: it is still waiting
\* while there is something to read from the client ...
UnreadPart == \A p \in Port \ open : taken[p] < asked[p] => Pending(p)

\* ... and while a client, which was not among them, is being accepted.
ReadingPart ==
  ev = "connect_cb" =>
    /\ mem[Loop] \in open \/ Pending(mem[Loop])
    /\ \A s \in connected : mem[s] # mem[Loop]

GonePart == Counts /\ TrackedPart /\ UnreadPart /\ ReadingPart /\ DepartureIsKnown

GoneInv == OwnInv /\ GonePart

\* The client objects of accepted clients are at distinct addresses.
LEMMA Tracked ==
  ASSUME GoneInv
  PROVE  /\ connected \subseteq Listed /\ Listed \subseteq Slot
         /\ \A s, u \in Listed : mem[s] = mem[u] => s = u
         /\ \A s \in connected : mem[s] \in Port \cup {NoPort}
         /\ \A s \in connected : mem[s] \notin open => News(mem[s])
BY Memory DEF GoneInv, GonePart, TrackedPart, DepartureIsKnown, News, Pending,
              OwnInv, OwnType, ListPart, OneEach

\* Steps that do not concern it.
Calm ==
  /\ UNCHANGED <<world, connected, conn_cli, walking, peer, open, client_list>>
  /\ \A s \in Slot : mem'[s] = mem[s]
  /\ \/ UNCHANGED <<ev, mem>>
     \/ ev = "process" /\ ev' = "bail" /\ UNCHANGED mem
     \/ ev \in {"poll", "resume_cb"} /\ ev' \in {"poll", "resume_cb"}

LEMMA CalmKeeps ==
  ASSUME GoneInv, Calm
  PROVE  GonePart'
<1> USE DEF Calm, world
<1>1. Listed' = Listed /\ (ev = "closing" <=> ev' = "closing")
      /\ (ev = "del" <=> ev' = "del")
  BY DEF Listed
<1>2. \A s \in connected : mem'[s] = mem[s]
  BY Tracked
<1>3. \A p : News(p)' <=> News(p)
  BY <1>1 DEF News, Pending
<1>4. Counts' /\ UnreadPart' /\ ReadingPart'
  BY <1>2 DEF GoneInv, GonePart, Counts, UnreadPart, ReadingPart, Pending
<1>5. TrackedPart'
  BY <1>1, <1>2 DEF GoneInv, GonePart, TrackedPart
<1>6. DepartureIsKnown'
  BY <1>2, <1>3, Tracked DEF DepartureIsKnown, News, Pending
<1> QED BY <1>4, <1>5, <1>6 DEF GonePart

LEMMA CalmSteps ==
  ASSUME GoneInv,
         \/ Reject \/ ResumeCb \/ Workers \/ UNCHANGED vars
         \/ \E p \in Port : ResumeTx(p) \/ Kernel(p)
  PROVE  GonePart'
<1> USE DEF world, thread, tables, xvars, port
<1>1. CASE Reject
  BY <1>1, CalmKeeps DEF Reject, Goto, Calm
<1>2. CASE ResumeCb
  BY <1>2, CalmKeeps DEF ResumeCb, Goto, Calm
<1>3. CASE Workers
  <2>1. ASSUME NEW t \in txn_list, SendResp(t) PROVE Calm
    BY <2>1 DEF SendResp, XportSend, Accept, Calm
  <2>2. ASSUME NEW t \in txn_list, SendRespFails(t) PROVE Calm
    BY <2>2 DEF SendRespFails, Calm
  <2>3. ASSUME NEW s \in Slot, SendInd(s) PROVE Calm
    BY <2>3 DEF SendInd, Indicate, XportSend, Accept, Calm
  <2>4. CASE Broadcast
    BY <2>4, CalmKeeps DEF Broadcast, Calm
  <2>5. CASE BroadcastStep
    BY <2>5, CalmKeeps DEF BroadcastStep, XportSend, Accept, Calm
  <2> QED BY <1>3, <2>1, <2>2, <2>3, <2>4, <2>5, CalmKeeps DEF Workers
<1>4. CASE UNCHANGED vars
  BY <1>4, CalmKeeps DEF vars, Calm
<1>5. ASSUME NEW p \in Port, ResumeTx(p) PROVE GonePart'
  BY <1>5, CalmKeeps, ReadKeeps DEF ResumeTx, Goto, Calm, GoneInv
<1>6. ASSUME NEW p \in Port, Kernel(p) PROVE GonePart'
  BY <1>6, CalmKeeps DEF Kernel, KeepService, Block, Unblock, Calm
<1> QED BY <1>1, <1>2, <1>3, <1>4, <1>5, <1>6

------------------------------------------------------------------------------
(* Packets of clients.                                                     *)

\* A client object is made: the others keep their places and addresses.
LEMMA CreateTracks ==
  ASSUME OwnInv, NEW p \in Port, NEW s \in Slot, ev = "poll", CreateClient(s, p)
  PROVE  /\ s \notin Listed /\ Listed' = Listed \cup {s} /\ Live' = Live \cup {s}
         /\ mem'[s] = p /\ mem'[Loop] = p /\ \A u \in Listed : mem'[u] = mem[u]
         /\ ev' = "connect_cb" /\ UNCHANGED <<peer, walking, conn_cli>>
<1>1. /\ Live = Listed /\ Listed \subseteq Slot
      /\ Loop \notin Slot /\ Loop \in Ptr /\ Slot \subseteq Ptr
  BY Memory
<1>2. s \notin Listed
  BY <1>1 DEF CreateClient, Allocatable, Live
<1>3. Listed' = Listed \cup {s}
  BY <1>2, ElemsAppend DEF CreateClient, OwnInv, OwnType, Listed
<1>4. Live' = Live \cup {s}
  BY DEF CreateClient, OwnInv, OwnType, Live
<1>5. /\ mem'[Loop] = p /\ mem'[s] = p
      /\ \A u \in Slot \ {s} : mem'[u] = mem[u]
  BY <1>1 DEF CreateClient, OwnInv, OwnType
<1> QED BY <1>1, <1>2, <1>3, <1>4, <1>5 DEF CreateClient, Goto

\* While a packet can be read, the news of its client has not been.
LEMMA ReceiveTracks ==
  ASSUME GoneInv, NEW p \in Port, Receive(p)
  PROVE  GonePart'
<1> DEFINE Kept == /\ Listed \subseteq Listed' /\ \A u \in Listed : mem'[u] = mem[u]
                   /\ mem'[Loop] = p /\ ev' \in {"process", "bail", "connect_cb"}
                   /\ ev' = "connect_cb" => ClientsAt(p) = {}
                   /\ UNCHANGED <<peer, walking, conn_cli>>
<1>1. /\ UNCHANGED <<asked, del_evt, bye_evt, connected, open>>
      /\ ev = "poll" /\ taken[p] < asked[p]
      /\ taken' = [taken EXCEPT ![p] = @ + 1]
  BY DEF Receive, port
<1>2. Kept
  <2>1. CASE ReadFrom(p) /\ UNCHANGED client_list
             /\ (Goto("process") \/ Goto("bail"))
    BY <2>1, ReadKeeps, Memory DEF GoneInv, Goto, Listed
  <2>2. ASSUME NEW s \in Slot, CreateClient(s, p), ClientsAt(p) = {} PROVE Kept
    BY <1>1, <2>2, CreateTracks DEF GoneInv
  <2> QED BY <2>1, <2>2 DEF Receive, StartRequest, tables
<1> HIDE DEF Kept
<1>3. Counts' /\ \A q \in Port : taken[q] <= taken'[q] /\ (taken'[q] < asked[q] => taken[q] < asked[q])
  BY <1>1 DEF GoneInv, GonePart, Counts
<1>4. UnreadPart'
  BY <1>1, <1>3 DEF GoneInv, GonePart, UnreadPart, Pending
<1>5. ReadingPart'
  BY <1>1, <1>2, Tracked
     DEF GoneInv, GonePart, UnreadPart, ReadingPart, Pending, ClientsAt, Kept
<1>6. TrackedPart'
  BY <1>1, <1>2, Tracked DEF GoneInv, GonePart, TrackedPart, Kept
<1>7. DepartureIsKnown'
  BY <1>1, <1>2, Tracked DEF DepartureIsKnown, News, Pending, Kept
<1> QED BY <1>3, <1>4, <1>5, <1>6, <1>7 DEF GonePart

\* A client that left while connect_cb was asked is accepted; the news of it
\* is still to come.
LEMMA AcceptTracks ==
  ASSUME GoneInv, NEW s \in Slot, ConnectAccept(s)
  PROVE  GonePart'
<1> USE DEF world, xvars, port
<1>1. /\ ev = "connect_cb" /\ ev' = "process" /\ connected' = connected \cup {s}
      /\ s \in Listed /\ mem[s] = mem[Loop]
      /\ UNCHANGED <<mem, open, world, client_list, peer, walking, conn_cli>>
  BY DEF ConnectAccept, ClientsAt, StartRequest, Goto
<1>2. Listed' = Listed
  BY <1>1 DEF Listed
<1>3. Counts' /\ UnreadPart' /\ ReadingPart'
  BY <1>1 DEF GoneInv, GonePart, Counts, UnreadPart, ReadingPart, Pending
<1>4. TrackedPart'
  BY <1>1, <1>2 DEF GoneInv, GonePart, TrackedPart
<1>5. mem[s] \notin open => Pending(mem[s])
  BY <1>1 DEF GoneInv, GonePart, ReadingPart
<1>6. DepartureIsKnown'
  BY <1>1, <1>5, Tracked DEF DepartureIsKnown, News, Pending
<1> QED BY <1>3, <1>4, <1>6 DEF GonePart

LEMMA RefuseTracks ==
  ASSUME GoneInv, NEW s \in Slot, ConnectRefuse(s)
  PROVE  GonePart'
<1> USE DEF world, xvars, port
<1>1. /\ ev = "connect_cb" /\ ev' = "bail" /\ s \in Listed
      /\ mem[s] = mem[Loop] /\ client_list' = Unlisted(s)
      /\ UNCHANGED <<mem, open, world, connected, peer, walking, conn_cli>>
  BY DEF ConnectRefuse, ClientsAt, Goto
<1>2. Listed' = Listed \ {s} /\ s \notin connected
  BY <1>1, Unlisting DEF GoneInv, GonePart, ReadingPart
<1>3. Counts' /\ UnreadPart' /\ ReadingPart'
  BY <1>1 DEF GoneInv, GonePart, Counts, UnreadPart, ReadingPart, Pending
<1>4. TrackedPart'
  BY <1>1, <1>2 DEF GoneInv, GonePart, TrackedPart
<1>5. DepartureIsKnown'
  BY <1>1, Tracked DEF DepartureIsKnown, News, Pending
<1> QED BY <1>3, <1>4, <1>5 DEF GonePart

\* A packet is done, and its client is remembered.
LEMMA PacketTracks ==
  ASSUME GoneInv, Served \/ Bail
  PROVE  GonePart'
<1> USE DEF world, xvars, port, tables
<1>1. /\ ev \in {"process", "bail"} /\ ev' = "poll"
      /\ conn_cli' = conn_cli \cup {mem[Loop]}
      /\ UNCHANGED <<mem, open, world, client_list, connected, peer, walking>>
  BY DEF Served, Bail, PacketDone, XportSend, Accept
<1>2. Listed' = Listed
  BY <1>1 DEF Listed
<1>3. Counts' /\ UnreadPart' /\ ReadingPart'
  BY <1>1 DEF GoneInv, GonePart, Counts, UnreadPart, ReadingPart, Pending
<1>4. TrackedPart'
  BY <1>1, <1>2 DEF GoneInv, GonePart, TrackedPart
<1>5. DepartureIsKnown'
  BY <1>1, Tracked DEF DepartureIsKnown, News, Pending
<1> QED BY <1>3, <1>4, <1>5 DEF GonePart

------------------------------------------------------------------------------
(* Departures are handled.                                                 *)

\* DEL_CLIENT and BYE: the news leaves the socket and is being handled.
LEMMA NewsTracks ==
  ASSUME GoneInv, Bye \/ \E p \in Port : DelClient(p) \/ ByeClient(p)
  PROVE  GonePart'
<1> USE DEF world, xvars, port, tables
<1>1. /\ ev \in {"poll", "bye"} /\ ev' \in {"bye", "del"}
      /\ UNCHANGED <<open, asked, taken, client_list, connected, conn_cli>>
      /\ \A s \in Slot : mem'[s] = mem[s]
  BY ReadKeeps DEF Bye, DelClient, ByeClient, GoneInv
<1>2. Listed' = Listed /\ \A s \in connected : mem'[s] = mem[s]
  BY <1>1, Tracked DEF Listed
<1>3. Counts' /\ ReadingPart' /\ TrackedPart'
  BY <1>1, <1>2 DEF GoneInv, GonePart, Counts, ReadingPart, TrackedPart
<1>4. CASE Bye
  <2>1. UnreadPart'
    BY <1>1, <1>4 DEF Bye, GoneInv, GonePart, UnreadPart, Counts, Pending
  <2>2. DepartureIsKnown'
    BY <1>1, <1>2, <1>4, Tracked
       DEF Bye, GoneInv, GonePart, TrackedPart, DepartureIsKnown, News, Pending
  <2> QED BY <1>3, <2>1, <2>2 DEF GonePart
<1>5. ASSUME NEW p \in Port, DelClient(p) PROVE GonePart'
  <2>1. UnreadPart'
    BY <1>1, <1>5 DEF DelClient, GoneInv, GonePart, UnreadPart, Counts, Pending
  <2>2. DepartureIsKnown'
    BY <1>1, <1>2, <1>5, Tracked DEF DelClient, DepartureIsKnown, News, Pending
  <2> QED BY <1>3, <2>1, <2>2 DEF GonePart
<1>6. ASSUME NEW p \in Port, ByeClient(p) PROVE GonePart'
  <2>1. UnreadPart'
    BY <1>1, <1>6 DEF ByeClient, GoneInv, GonePart, UnreadPart, Pending
  <2>2. DepartureIsKnown'
    BY <1>1, <1>2, <1>6, Tracked DEF ByeClient, DepartureIsKnown, News, Pending
  <2> QED BY <1>3, <2>1, <2>2 DEF GonePart
<1> QED BY <1>4, <1>5, <1>6

\* The client is disconnected, the only one at its address.
LEMMA DisconnectTracks ==
  ASSUME GoneInv, Disconnect
  PROVE  GonePart'
<1> USE DEF world, xvars, port
<1>1. /\ ev = "del" /\ UNCHANGED <<mem, open, world, walking>>
  BY DEF Disconnect, PeerDone, Goto
<1>2. Counts' /\ UnreadPart'
  BY <1>1 DEF GoneInv, GonePart, Counts, UnreadPart, Pending
<1>3. CASE /\ ClientsAt(peer) = {} /\ PeerDone
           /\ UNCHANGED <<client_list, connected>>
  <2>1. /\ \A s \in connected : mem[s] # peer
        /\ ev' \in {"bye", "poll"} /\ conn_cli' = conn_cli \ {peer}
        /\ Listed' = Listed
    BY <1>3, Tracked DEF ClientsAt, PeerDone, Listed
  <2>2. ReadingPart' /\ TrackedPart'
    BY <1>1, <1>3, <2>1 DEF GoneInv, GonePart, ReadingPart, TrackedPart
  <2>3. DepartureIsKnown'
    BY <1>1, <1>3, <2>1, Tracked DEF DepartureIsKnown, News, Pending
  <2> QED BY <1>2, <2>2, <2>3 DEF GonePart
<1>4. ASSUME NEW s \in ClientsAt(peer), client_list' = Unlisted(s),
             connected' = connected \ {s}, Goto("del_free")
      PROVE  GonePart'
  <2>1. /\ s \in Listed /\ mem[s] = peer /\ ev' = "del_free"
        /\ UNCHANGED <<peer, conn_cli>>
        /\ \A u \in connected' : u \in connected /\ mem[u] # peer
    BY <1>4, Tracked DEF ClientsAt, Goto
  <2>2. Listed' = Listed \ {s}
    BY <1>4, <2>1, Unlisting DEF GoneInv
  <2>3. ReadingPart' /\ TrackedPart'
    BY <1>1, <1>4, <2>1, <2>2 DEF GoneInv, GonePart, ReadingPart, TrackedPart
  <2>4. DepartureIsKnown'
    BY <1>1, <2>1, Tracked DEF DepartureIsKnown, News, Pending
  <2> QED BY <1>2, <2>3, <2>4 DEF GonePart
<1> QED BY <1>3, <1>4 DEF Disconnect

LEMMA FreeTracks ==
  ASSUME GoneInv, DisconnectFree
  PROVE  GonePart'
<1> USE DEF world, xvars, port
<1>1. PICK s \in Leaving : Drop(s)
  BY DEF DisconnectFree
<1>2. /\ ev = "del_free" /\ ev' \in {"bye", "poll"}
      /\ conn_cli' = conn_cli \ {peer}
      /\ UNCHANGED <<mem, open, world, walking, client_list, connected>>
  BY DEF DisconnectFree, PeerDone
<1>3. Listed' = Listed /\ \A u \in connected : mem[u] # peer
  <2>1. s \in Live \ Listed /\ mem[s] = peer
    BY DEF Leaving, Live
  <2>2. \A u \in connected : u \in Live /\ u # s
    BY <2>1, Tracked DEF GoneInv, OwnInv, ListPart
  <2> QED BY <1>2, <2>1, <2>2 DEF GoneInv, OwnInv, OneEach, Listed
<1>4. Counts' /\ UnreadPart' /\ ReadingPart'
  BY <1>2 DEF GoneInv, GonePart, Counts, UnreadPart, ReadingPart, Pending
<1>5. TrackedPart'
  BY <1>2, <1>3 DEF GoneInv, GonePart, TrackedPart
<1>6. DepartureIsKnown'
  BY <1>2, <1>3, Tracked DEF DepartureIsKnown, News, Pending
<1> QED BY <1>4, <1>5, <1>6 DEF GonePart

\* The walk over the clients ends, and the service.
LEMMA EndTracks ==
  ASSUME GoneInv, ByeDone \/ Unregister \/ XportClosed
  PROVE  GonePart'
<1> USE DEF world, xvars, port, tables
<1>1. /\ ev \in {"bye", "poll", "closing"} /\ ev' \notin {"connect_cb"}
      /\ UNCHANGED <<mem, open, world>>
  BY DEF ByeDone, Unregister, XportClosed, Goto
<1>2. Counts' /\ UnreadPart' /\ ReadingPart'
  BY <1>1 DEF GoneInv, GonePart, Counts, UnreadPart, ReadingPart, Pending
<1>3. CASE ByeDone
  <2>1. /\ ev = "bye" /\ conn_cli \cap Remote = {}
        /\ ev' = "poll" /\ Listed' = Listed
        /\ UNCHANGED <<conn_cli, connected, peer>>
    BY <1>3 DEF ByeDone, Listed
  <2>2. TrackedPart'
    BY <1>1, <2>1 DEF GoneInv, GonePart, TrackedPart
  <2>3. DepartureIsKnown'
    BY <1>1, <2>1, Tracked DEF DepartureIsKnown, News, Pending
  <2> QED BY <1>2, <2>2, <2>3 DEF GonePart
<1>4. CASE Unregister
  <2>1. ev' = "closing" /\ Listed' = Listed /\ connected' = connected
    BY <1>4 DEF Unregister, Listed
  <2> QED BY <1>1, <1>2, <2>1
          DEF GoneInv, GonePart, TrackedPart, DepartureIsKnown
<1>5. CASE XportClosed
  BY <1>2, <1>5 DEF XportClosed, GonePart, TrackedPart, DepartureIsKnown
<1> QED BY <1>3, <1>4, <1>5

\* What clients and nodes do: a departure is announced.
LEMMA WorldTracks ==
  ASSUME GoneInv, LoseNode \/ \E p \in Port : Ask(p) \/ CloseClient(p)
  PROVE  GonePart'
<1> USE DEF world, xvars, port, tables, thread, KeepService, Vanish
<1>1. /\ UNCHANGED <<mem, ev, peer, walking, conn_cli, client_list, connected,
                      taken>>
      /\ del_evt \subseteq del_evt' /\ (bye_evt => bye_evt')
      /\ \A p : p \in open /\ p \notin open' => Pending(p)'
      /\ open' \subseteq open
  BY DEF LoseNode, Ask, CloseClient, Pending
<1>2. /\ Listed' = Listed /\ \A p : Pending(p) => Pending(p)'
  BY <1>1 DEF Listed, Pending
<1>3. Counts' /\ \A p \in Port \ open : asked'[p] = asked[p]
  BY DEF LoseNode, Ask, CloseClient, GoneInv, GonePart, Counts
<1> USE DEF GoneInv, GonePart
<1>4. UnreadPart'
  BY <1>1, <1>2, <1>3 DEF UnreadPart, LoseNode, Ask, CloseClient
<1>5. ReadingPart' /\ TrackedPart'
  BY <1>1, <1>2 DEF ReadingPart, TrackedPart
<1>6. DepartureIsKnown'
  <2>1. \A p : News(p) => News(p)'
    BY <1>1, <1>2 DEF News
  <2>2. ASSUME NEW s \in connected, mem[s] \notin open' PROVE News(mem[s])'
    BY <1>1, <2>1, <2>2, Tracked DEF News
  <2> QED BY <1>1, <2>2 DEF DepartureIsKnown, News, Pending
<1> QED BY <1>3, <1>4, <1>5, <1>6

------------------------------------------------------------------------------

LEMMA GoneInit == Init => GoneInv
<1> SUFFICES ASSUME Init PROVE GoneInv
  OBVIOUS
<1>1. Counts
  BY DEF Init, Counts
<1>2. connected = {} /\ ev = "poll" /\ open = Port
  BY DEF Init, InitXport
<1> QED BY <1>1, <1>2, OwnInit DEF GoneInv, GonePart, TrackedPart, UnreadPart,
                                   ReadingPart, DepartureIsKnown

LEMMA GoneStep ==
  ASSUME "reset" \notin Env
  PROVE  GoneInv /\ [Next]_vars => GoneInv'
<1> SUFFICES ASSUME GoneInv, [Next]_vars PROVE GonePart'
  BY OwnStep DEF GoneInv
<1>1. CASE EventThread
  <2>1. ASSUME NEW p \in Port, Receive(p) PROVE GonePart'
    BY <2>1, ReceiveTracks
  <2>2. ASSUME NEW p \in Port, DelClient(p) \/ ByeClient(p) PROVE GonePart'
    BY <2>2, NewsTracks
  <2>3. ASSUME NEW p \in Port, ResumeTx(p) PROVE GonePart'
    BY <2>3, CalmSteps
  <2>4. ASSUME NEW s \in Slot, ConnectAccept(s) PROVE GonePart'
    BY <2>4, AcceptTracks
  <2>5. ASSUME NEW s \in Slot, ConnectRefuse(s) PROVE GonePart'
    BY <2>5, RefuseTracks
  <2>6. CASE Served \/ Bail
    BY <2>6, PacketTracks
  <2>7. CASE Reject \/ ResumeCb
    BY <2>7, CalmSteps
  <2>8. CASE Bye
    BY <2>8, NewsTracks
  <2>9. CASE ByeDone \/ XportClosed
    BY <2>9, EndTracks
  <2>10. CASE Disconnect
    BY <2>10, DisconnectTracks
  <2>11. CASE DisconnectFree
    BY <2>11, FreeTracks
  <2> QED BY <1>1, <2>1, <2>2, <2>3, <2>4, <2>5, <2>6, <2>7, <2>8, <2>9, <2>10,
             <2>11 DEF EventThread
<1>2. CASE Workers \/ Rest \/ UNCHANGED vars
  BY <1>2, CalmSteps DEF Rest
<1>3. CASE World
  <2>1. CASE LoseNode \/ \E p \in Port : Ask(p) \/ CloseClient(p)
    BY <2>1, WorldTracks
  <2>2. ASSUME NEW p \in Port, Kernel(p) PROVE GonePart'
    BY <2>2, CalmSteps
  <2> QED BY <1>3, <2>1, <2>2 DEF World
<1>4. CASE NetReset
  BY <1>4 DEF NetReset
<1>5. CASE Unregister
  BY <1>5, EndTracks
<1> QED BY <1>1, <1>2, <1>3, <1>4, <1>5 DEF Next

\* A client whose socket is gone is not forgotten: as long as the service
\* counts it among its clients, DEL_CLIENT or BYE is waiting, or is being
\* handled, or the service closes.  It needs the transport's own list of
\* clients, which only the network reset empties while clients are accepted
\* (xport_handle_net_reset): without a reset it holds for any clients.
THEOREM DeparturesKnown ==
  ASSUME "reset" \notin Env
  PROVE  Spec => []DepartureIsKnown
<1>1. GoneInv => DepartureIsKnown
  BY DEF GoneInv, GonePart
<1> QED BY <1>1, GoneInit, GoneStep, PTL DEF Spec

------------------------------------------------------------------------------
(* The sessions: the inductive invariant, on top of OwnInv.                *)

Fates == {"none", "answered", "twice", "failed", "dropped"}

SessType ==
  /\ txn_list \subseteq [req : Request, client : Slot]
  /\ fate \in [Request -> Fates]
  /\ asked \in [Port -> 0..MaxReq] /\ taken \in [Port -> 0..MaxReq]
  /\ \A p \in Port : taken[p] <= asked[p]
  /\ \A s \in Live : mem[s] \in Port

\* Every listed client was accepted, but for the one being asked about.
AcceptedPart ==
  /\ connected \subseteq Listed
  /\ \A s \in Listed \ connected : ev = "connect_cb" /\ mem[s] = mem[Loop]
  /\ ev = "connect_cb" => \A s \in connected : mem[s] # mem[Loop]

\* Nothing happened yet to a request that was not read ...
FuturePart ==
  \A p \in Port : \A n \in taken[p] + 1..MaxReq :
    fate[<<p, n>>] = "none" /\ \A t \in txn_list : t.req # <<p, n>>

\* ... nor to one with a transaction.
OpenPart == \A t \in txn_list : fate[t.req] = "none"

\* The request the event thread is working on.
CurrentPart ==
  /\ ev \in {"connect_cb", "process", "bail"} => Current \in Request
  /\ ev = "connect_cb" => fate[Current] = "none"
  /\ ev = "process" => /\ fate[Current] \in {"none", "answered", "failed"}
                       /\ SessionOf(mem[Loop])
  /\ ev = "bail" => /\ fate[Current] \in {"none", "failed"}
                    /\ \A t \in txn_list : t.req # Current

SessPart == SessType /\ AcceptedPart /\ FuturePart /\ OpenPart /\ CurrentPart

SessInv == OwnInv /\ SessPart

\* What is used of it again and again.
LEMMA Sessioned ==
  ASSUME SessInv
  PROVE  /\ Listed \subseteq Live /\ Live \subseteq Slot
         /\ \A s, u \in Live : mem[s] = mem[u] => s = u
         /\ ev # "connect_cb" => connected = Listed
         /\ \A t \in txn_list : /\ t.req \in Request /\ t.req[1] \in Port
                                /\ t.client \in Live /\ mem[t.client] = t.req[1]
                                /\ SessionOf(t.req[1])
<1>1. /\ Listed \subseteq Live /\ Live \subseteq Slot
      /\ \A s, u \in Live : mem[s] = mem[u] => s = u
  BY Memory DEF SessInv, OwnInv, ListPart, OneEach
<1>2. ev # "connect_cb" => connected = Listed
  BY DEF SessInv, SessPart, AcceptedPart
<1>3. ASSUME NEW t \in txn_list
      PROVE  /\ t.req \in Request /\ t.req[1] \in Port
             /\ t.client \in Live /\ mem[t.client] = t.req[1]
             /\ SessionOf(t.req[1])
  <2>1. t.req \in Request /\ t.req[1] \in Port /\ t.client \in Slot
    BY DEF SessInv, SessPart, SessType, Request
  <2>2. t.client \in Live /\ mem[t.client] = t.req[1]
    BY <2>1 DEF SessInv, OwnInv, TxnsOwned, Live
  <2>3. t.client \in connected \/ t.client \notin Listed
    BY <2>2 DEF SessInv, SessPart, AcceptedPart, OwnInv, FreshPart
  <2> QED BY <2>1, <2>2, <2>3 DEF SessionOf, Live
<1> QED BY <1>1, <1>2, <1>3

\* Steps that concern no session and no request.
Unmoved ==
  /\ UNCHANGED <<client_list, obj, txn_list, fate, connected, taken>>
  /\ \A s \in Slot : mem'[s] = mem[s]
  /\ ev' \in {"connect_cb", "process", "bail"} => UNCHANGED <<ev, mem>>
  /\ ev \in {"connect_cb", "bail"} => UNCHANGED <<ev, mem>>

LEMMA UnmovedKeeps ==
  ASSUME SessInv, Unmoved, UNCHANGED asked
  PROVE  SessPart'
<1> USE DEF Unmoved
<1>1. Live' = Live /\ Listed' = Listed /\ Live \subseteq Slot
  BY DEF Live, Listed
<1>2. SessType'
  BY <1>1 DEF SessInv, SessPart, SessType
<1>3. AcceptedPart'
  BY <1>1, Sessioned DEF SessInv, SessPart, AcceptedPart
<1>4. FuturePart' /\ OpenPart'
  BY DEF SessInv, SessPart, FuturePart, OpenPart
<1>5. CurrentPart'
  BY <1>1 DEF SessInv, SessPart, CurrentPart, Current, SessionOf
<1> QED BY <1>2, <1>3, <1>4, <1>5 DEF SessPart

LEMMA StillSteps ==
  ASSUME SessInv,
         \/ Served \/ Bye \/ ByeDone \/ ResumeCb \/ NetReset \/ Unregister
         \/ Broadcast \/ BroadcastStep \/ LoseNode \/ UNCHANGED vars
         \/ \E p \in Port : DelClient(p) \/ ByeClient(p) \/ ResumeTx(p)
         \/ \E p \in Port : CloseClient(p) \/ Kernel(p)
         \/ \E s \in Slot : SendInd(s)
  PROVE  Unmoved /\ UNCHANGED asked
<1> USE DEF world, thread, tables, xvars, port
<1>1. CASE Served
  BY <1>1 DEF Served, PacketDone, Unmoved
<1>2. CASE Bye
  BY <1>2, ReadKeeps DEF Bye, SessInv, Unmoved
<1>3. CASE ByeDone
  BY <1>3 DEF ByeDone, Unmoved
<1>4. CASE ResumeCb
  BY <1>4 DEF ResumeCb, Goto, Unmoved
<1>5. CASE NetReset
  BY <1>5 DEF NetReset, Unmoved
<1>6. CASE Unregister
  BY <1>6 DEF Unregister, Unmoved
<1>7. CASE Broadcast
  BY <1>7 DEF Broadcast, Unmoved
<1>8. CASE BroadcastStep
  BY <1>8 DEF BroadcastStep, XportSend, Accept, Unmoved
<1>9. CASE LoseNode
  BY <1>9 DEF LoseNode, KeepService, Vanish, Unmoved
<1>10. CASE UNCHANGED vars
  BY <1>10 DEF vars, Unmoved
<1>11. ASSUME NEW p \in Port, DelClient(p) PROVE Unmoved /\ UNCHANGED asked
  BY <1>11, ReadKeeps DEF DelClient, SessInv, Unmoved
<1>12. ASSUME NEW p \in Port, ByeClient(p) PROVE Unmoved /\ UNCHANGED asked
  BY <1>12 DEF ByeClient, Unmoved
<1>13. ASSUME NEW p \in Port, ResumeTx(p) PROVE Unmoved /\ UNCHANGED asked
  BY <1>13, ReadKeeps DEF ResumeTx, Goto, SessInv, Unmoved
<1>14. ASSUME NEW p \in Port, CloseClient(p) PROVE Unmoved /\ UNCHANGED asked
  BY <1>14 DEF CloseClient, KeepService, Vanish, Unmoved
<1>15. ASSUME NEW p \in Port, Kernel(p) PROVE Unmoved /\ UNCHANGED asked
  BY <1>15 DEF Kernel, KeepService, Block, Unblock, Unmoved
<1>16. ASSUME NEW s \in Slot, SendInd(s) PROVE Unmoved /\ UNCHANGED asked
  BY <1>16 DEF SendInd, Indicate, XportSend, Accept, Unmoved
<1> QED BY <1>1, <1>2, <1>3, <1>4, <1>5, <1>6, <1>7, <1>8, <1>9, <1>10, <1>11,
           <1>12, <1>13, <1>14, <1>15, <1>16

LEMMA AskStill ==
  ASSUME SessInv, NEW p \in Port, Ask(p)
  PROVE  Unmoved /\ SessPart'
<1> USE DEF world, thread, tables, xvars, port
<1>1. Unmoved /\ asked[p] < MaxReq /\ asked' = [asked EXCEPT ![p] = @ + 1]
  BY DEF Ask, KeepService, Unmoved
<1>2. Live' = Live /\ Listed' = Listed /\ Live \subseteq Slot
  BY <1>1 DEF Unmoved, Live, Listed
<1>3. SessType'
  BY <1>1, <1>2, ServiceAssumption DEF SessInv, SessPart, SessType, Unmoved
<1>4. AcceptedPart'
  BY <1>1, <1>2, Sessioned DEF SessInv, SessPart, AcceptedPart, Unmoved
<1>5. FuturePart' /\ OpenPart'
  BY <1>1 DEF SessInv, SessPart, FuturePart, OpenPart, Unmoved
<1>6. CurrentPart'
  BY <1>1, <1>2 DEF SessInv, SessPart, CurrentPart, Current, SessionOf, Unmoved
<1> QED BY <1>1, <1>3, <1>4, <1>5, <1>6 DEF SessPart

------------------------------------------------------------------------------
(* The other steps keep it.                                                *)

\* A packet is read: its request is new.
LEMMA Reading ==
  ASSUME SessInv, NEW p \in Port, Receive(p)
  PROVE  LET r == <<p, taken[p] + 1>> IN
         /\ ev = "poll" /\ UNCHANGED <<fate, connected, asked>>
         /\ taken' = [taken EXCEPT ![p] = @ + 1]
         /\ taken' \in [Port -> 0..MaxReq] /\ \A q \in Port : taken'[q] <= asked[q]
         /\ r \in Request /\ fate[r] = "none" /\ \A t \in txn_list : t.req # r
         /\ mem'[Loop] = p /\ Current' = r
<1>1. /\ ev = "poll" /\ UNCHANGED <<fate, connected, asked>>
      /\ taken[p] < asked[p] /\ taken' = [taken EXCEPT ![p] = @ + 1]
  BY DEF Receive
<1>2. mem'[Loop] = p
  <2>1. CASE ReadFrom(p)
    BY <2>1, ReadKeeps DEF SessInv
  <2>2. ASSUME NEW s \in Slot, CreateClient(s, p) PROVE mem'[Loop] = p
    BY <1>1, <2>2, CreateTracks DEF SessInv
  <2> QED BY <2>1, <2>2 DEF Receive
<1>3. /\ taken' \in [Port -> 0..MaxReq] /\ \A q \in Port : taken'[q] <= asked[q]
      /\ taken[p] + 1 \in taken[p] + 1..MaxReq /\ taken[p] + 1 \in 1..MaxReq
      /\ taken'[p] = taken[p] + 1
  BY <1>1, ServiceAssumption DEF SessInv, SessPart, SessType
<1>4. /\ <<p, taken[p] + 1>> \in Request /\ fate[<<p, taken[p] + 1>>] = "none"
      /\ \A t \in txn_list : t.req # <<p, taken[p] + 1>>
  BY <1>3 DEF SessInv, SessPart, FuturePart, Request
<1> QED BY <1>1, <1>2, <1>3, <1>4 DEF Current

\* The future shrinks by the request that is read.
LEMMA ReadingFuture ==
  ASSUME SessInv, NEW p \in Port, Receive(p),
         \A t \in txn_list' : t \in txn_list \/ t.req = <<p, taken[p] + 1>>
  PROVE  FuturePart' /\ OpenPart'
<1>1. /\ taken \in [Port -> 0..MaxReq] /\ MaxReq \in Nat
      /\ taken' = [taken EXCEPT ![p] = @ + 1] /\ fate' = fate
      /\ fate[<<p, taken[p] + 1>>] = "none"
  BY Reading, ServiceAssumption DEF SessInv, SessPart, SessType
<1>2. ASSUME NEW q \in Port, NEW n \in taken'[q] + 1..MaxReq
      PROVE  /\ fate'[<<q, n>>] = "none"
             /\ \A t \in txn_list' : t.req # <<q, n>>
  <2>1. n \in taken[q] + 1..MaxReq /\ <<q, n>> # <<p, taken[p] + 1>>
    BY <1>1
  <2> QED BY <1>1, <2>1 DEF SessInv, SessPart, FuturePart
<1>3. OpenPart'
  BY <1>1 DEF SessInv, SessPart, OpenPart
<1> QED BY <1>2, <1>3 DEF FuturePart

LEMMA ReceiveSess ==
  ASSUME SessInv, NEW p \in Port, Receive(p)
  PROVE  SessPart'
<1> DEFINE r == <<p, taken[p] + 1>>
<1>1. /\ ev = "poll" /\ UNCHANGED <<fate, connected, asked>>
      /\ taken' \in [Port -> 0..MaxReq] /\ \A q \in Port : taken'[q] <= asked[q]
      /\ r \in Request /\ fate[r] = "none" /\ \A t \in txn_list : t.req # r
      /\ mem'[Loop] = p /\ Current' = r
      /\ taken' = [taken EXCEPT ![p] = @ + 1] /\ taken'[p] = taken[p] + 1
  BY Reading DEF SessInv, SessPart, SessType
<1>2. Live = Listed /\ connected = Listed /\ Listed \subseteq Slot
  BY <1>1, Memory, Sessioned DEF SessInv
<1>3. ASSUME NEW s \in ClientsAt(p), StartRequest(s, <<p, taken'[p]>>),
             ReadFrom(p), UNCHANGED <<client_list, obj>>
      PROVE  SessPart'
  <2>1. /\ s \in Listed /\ mem[s] = p /\ ev' = "process"
        /\ txn_list' = txn_list \cup {[req |-> r, client |-> s]}
        /\ \A u \in Slot : mem'[u] = mem[u]
    BY <1>1, <1>3, ReadKeeps DEF SessInv, ClientsAt, StartRequest, Goto
  <2>2. Live' = Live /\ Listed' = Listed
    BY <1>3 DEF Live, Listed
  <2> HIDE DEF r
  <2>3. SessType'
    BY <1>1, <1>2, <2>1, <2>2 DEF SessInv, SessPart, SessType
  <2>4. AcceptedPart'
    BY <1>1, <1>2, <2>1, <2>2 DEF AcceptedPart
  <2>5. FuturePart' /\ OpenPart'
    BY <2>1, ReadingFuture DEF r
  <2>6. SessionOf(p)'
    BY <1>1, <1>2, <2>1, <2>2 DEF SessionOf, Live
  <2>7. CurrentPart'
    BY <1>1, <2>1, <2>6 DEF CurrentPart, SessionOf
  <2> QED BY <2>3, <2>4, <2>5, <2>7 DEF SessPart
<1>4. ASSUME NEW s \in Slot, CreateClient(s, p), UNCHANGED txn_list,
             ClientsAt(p) = {}
      PROVE  SessPart'
  <2>1. /\ Listed' = Listed \cup {s} /\ Live' = Live \cup {s} /\ mem'[s] = p
        /\ s \notin Listed /\ ev' = "connect_cb"
        /\ \A u \in Listed : mem'[u] = mem[u]
    BY <1>1, <1>4, CreateTracks DEF SessInv
  <2> HIDE DEF r
  <2>2. SessType'
    BY <1>1, <1>2, <1>4, <2>1 DEF SessInv, SessPart, SessType
  <2>3. AcceptedPart'
    BY <1>1, <1>2, <1>4, <2>1 DEF AcceptedPart, ClientsAt
  <2>4. FuturePart' /\ OpenPart'
    BY <1>4, ReadingFuture
  <2>5. CurrentPart'
    BY <1>1, <2>1 DEF CurrentPart
  <2> QED BY <2>2, <2>3, <2>4, <2>5 DEF SessPart
<1>5. CASE ReadFrom(p) /\ Goto("bail") /\ UNCHANGED tables
  <2>1. /\ ev' = "bail" /\ Live' = Live /\ Listed' = Listed
        /\ UNCHANGED <<txn_list, obj>> /\ \A u \in Slot : mem'[u] = mem[u]
    BY <1>5, ReadKeeps DEF SessInv, Goto, tables, Live, Listed
  <2> HIDE DEF r
  <2>2. SessType'
    BY <1>1, <1>2, <2>1 DEF SessInv, SessPart, SessType
  <2>3. AcceptedPart'
    BY <1>1, <1>2, <2>1 DEF AcceptedPart
  <2>4. FuturePart' /\ OpenPart'
    BY <2>1, ReadingFuture
  <2>5. CurrentPart'
    BY <1>1, <2>1 DEF CurrentPart
  <2> QED BY <2>2, <2>3, <2>4, <2>5 DEF SessPart
<1> QED BY <1>3, <1>4, <1>5 DEF Receive

LEMMA AcceptSess ==
  ASSUME SessInv, NEW s \in Slot, ConnectAccept(s)
  PROVE  SessPart'
<1>1. /\ ev = "connect_cb" /\ ev' = "process" /\ s \in Listed /\ mem[s] = mem[Loop]
      /\ connected' = connected \cup {s}
      /\ txn_list' = txn_list \cup {[req |-> Current, client |-> s]}
      /\ UNCHANGED <<mem, client_list, obj, asked, taken, fate>>
  BY DEF ConnectAccept, ClientsAt, StartRequest, Goto, xvars, world
<1>2. /\ Live' = Live /\ Listed' = Listed /\ Listed \subseteq Live /\ Live \subseteq Slot
      /\ \A u, v \in Live : mem[u] = mem[v] => u = v
  BY <1>1, Sessioned DEF Live, Listed
<1>3. /\ Current \in Request /\ fate[Current] = "none" /\ Current' = Current
      /\ Current[1] = mem[Loop]
  BY <1>1 DEF SessInv, SessPart, CurrentPart, Current
<1>4. SessType'
  BY <1>1, <1>2, <1>3 DEF SessInv, SessPart, SessType
<1>5. AcceptedPart'
  BY <1>1, <1>2 DEF SessInv, SessPart, AcceptedPart
<1>6. OpenPart'
  BY <1>1, <1>3 DEF SessInv, SessPart, OpenPart
<1>7. FuturePart'
  <2>1. ASSUME NEW p \in Port, NEW n \in taken[p] + 1..MaxReq
        PROVE  Current # <<p, n>>
    <3>1. taken[p] \in Nat
      BY DEF SessInv, SessPart, SessType
    <3> QED BY <3>1 DEF Current
  <2>2. \A t \in txn_list' : t \in txn_list \/ t.req = Current
    BY <1>1
  <2>3. FuturePart
    BY DEF SessInv, SessPart
  <2> QED BY <1>1, <2>1, <2>2, <2>3 DEF FuturePart
<1>8. SessionOf(mem[Loop])'
  BY <1>1, <1>2 DEF SessionOf, Live
<1>9. CurrentPart'
  BY <1>1, <1>3, <1>8 DEF CurrentPart
<1> QED BY <1>4, <1>5, <1>6, <1>7, <1>9 DEF SessPart

LEMMA RefuseSess ==
  ASSUME SessInv, NEW s \in Slot, ConnectRefuse(s)
  PROVE  SessPart' /\ Live' = Live \ {s} /\ Listed' = Listed \ {s}
<1>1. /\ ev = "connect_cb" /\ ev' = "bail" /\ s \in Listed /\ mem[s] = mem[Loop]
      /\ client_list' = Unlisted(s) /\ obj' = [obj EXCEPT ![s] = "free"]
      /\ UNCHANGED <<mem, txn_list, asked, taken, fate, connected>>
  BY DEF ConnectRefuse, ClientsAt, Goto, Drop, xvars, world
<1>2. Listed' = Listed \ {s}
  BY <1>1, Unlisting DEF SessInv
<1>3. Live' = Live \ {s}
  BY <1>1 DEF SessInv, OwnInv, OwnType, Live
<1>4. /\ Current' = Current /\ Current \in Request /\ fate[Current] = "none"
      /\ \A t \in txn_list : t.req # Current
  BY <1>1, Sessioned DEF SessInv, SessPart, CurrentPart, Current, OwnInv, FreshPart
<1>5. SessType'
  BY <1>1, <1>3 DEF SessInv, SessPart, SessType
<1>6. AcceptedPart'
  BY <1>1, <1>2, Sessioned DEF SessInv, SessPart, AcceptedPart
<1>7. FuturePart' /\ OpenPart'
  BY <1>1 DEF SessInv, SessPart, FuturePart, OpenPart
<1>8. CurrentPart'
  BY <1>1, <1>4 DEF CurrentPart
<1> QED BY <1>2, <1>3, <1>5, <1>6, <1>7, <1>8 DEF SessPart

LEMMA RejectSess ==
  ASSUME SessInv, Reject
  PROVE  SessPart'
<1>1. /\ ev = "process" /\ ev' = "bail" /\ fate[Current] # "answered"
      /\ txn_list' = {t \in txn_list : t.req # Current} /\ Current' = Current
      /\ UNCHANGED <<mem, client_list, obj, asked, taken, fate, connected>>
  BY DEF Reject, Goto, xvars, world, Current
<1>2. Live' = Live /\ Listed' = Listed
  BY <1>1 DEF Live, Listed
<1>3. SessType' /\ AcceptedPart' /\ FuturePart' /\ OpenPart'
  BY <1>1, <1>2 DEF SessInv, SessPart, SessType, AcceptedPart, FuturePart, OpenPart
<1>4. CurrentPart'
  BY <1>1 DEF SessInv, SessPart, CurrentPart
<1> QED BY <1>3, <1>4 DEF SessPart

\* The request being worked on was read.
LEMMA CurrentRead ==
  ASSUME SessInv, NEW p \in Port, NEW n \in taken[p] + 1..MaxReq
  PROVE  Current # <<p, n>>
<1>1. taken[p] \in Nat
  BY DEF SessInv, SessPart, SessType
<1> QED BY <1>1 DEF Current

LEMMA BailSess ==
  ASSUME SessInv, Bail
  PROVE  SessPart'
<1>1. PICK rc \in {"ok", "busy", "err"} : AfterAnswer(Current, rc)
  BY DEF Bail
<1>2. /\ ev = "bail" /\ ev' = "poll"
      /\ UNCHANGED <<mem, client_list, obj, txn_list, asked, taken, connected>>
  BY DEF Bail, PacketDone, XportSend, Accept, tables, world
<1>3. /\ Current \in Request /\ \A t \in txn_list : t.req # Current
      /\ fate \in [Request -> Fates]
  BY <1>2 DEF SessInv, SessPart, CurrentPart, SessType
<1>4. /\ fate' \in [Request -> Fates]
      /\ \A r \in Request \ {Current} : fate'[r] = fate[r]
  BY <1>1, <1>3 DEF AfterAnswer, Fates
<1>5. Live' = Live /\ Listed' = Listed
  BY <1>2 DEF Live, Listed
<1>6. SessType'
  BY <1>2, <1>4, <1>5 DEF SessInv, SessPart, SessType
<1>7. AcceptedPart' /\ CurrentPart'
  BY <1>2, <1>5, Sessioned DEF AcceptedPart, CurrentPart
<1>8. OpenPart'
  BY <1>2, <1>3, <1>4, Sessioned DEF SessInv, SessPart, OpenPart
<1>9. FuturePart'
  <2> SUFFICES ASSUME NEW p \in Port, NEW n \in taken[p] + 1..MaxReq
               PROVE  /\ fate'[<<p, n>>] = "none"
                      /\ \A t \in txn_list : t.req # <<p, n>>
    BY <1>2 DEF FuturePart
  <2>1. <<p, n>> \in Request
    BY DEF SessInv, SessPart, SessType, Request
  <2> QED BY <1>4, <2>1, CurrentRead DEF SessInv, SessPart, FuturePart
<1> QED BY <1>6, <1>7, <1>8, <1>9 DEF SessPart

\* A request has one transaction.
LEMMA OneTxn ==
  ASSUME SessInv, NEW t \in txn_list, NEW u \in txn_list, t.req = u.req
  PROVE  t = u
<1>1. t.client = u.client
  BY Sessioned
<1>2. t \in [req : Request, client : Slot] /\ u \in [req : Request, client : Slot]
  BY DEF SessInv, SessPart, SessType
<1> QED BY <1>1, <1>2

\* An answer, or the failure of one, ends a transaction.
LEMMA AnswerSess ==
  ASSUME SessInv, NEW t \in txn_list, SendResp(t) \/ SendRespFails(t)
  PROVE  /\ SessPart'
         /\ UNCHANGED <<ev, mem, client_list, obj, connected, taken>>
         /\ txn_list' = txn_list \ {t}
         /\ fate[t.req] = "none" /\ fate'[t.req] \in {"answered", "failed"}
         /\ \A r \in Request \ {t.req} : fate'[r] = fate[r]
<1>1. /\ txn_list' = txn_list \ {t}
      /\ \E rc \in {"ok", "busy", "err"} : AfterAnswer(t.req, rc)
      /\ UNCHANGED <<ev, mem, client_list, obj, asked, taken, connected>>
  BY DEF SendResp, SendRespFails, XportSend, Accept, xvars, thread, world
<1>2. /\ t.req \in Request /\ fate[t.req] = "none" /\ fate \in [Request -> Fates]
  BY Sessioned DEF SessInv, SessPart, OpenPart, SessType
<1>3. /\ fate' \in [Request -> Fates] /\ fate'[t.req] \in {"answered", "failed"}
      /\ \A r \in Request \ {t.req} : fate'[r] = fate[r]
  BY <1>1, <1>2 DEF AfterAnswer, Fates
<1>4. Live' = Live /\ Listed' = Listed /\ Current' = Current
  BY <1>1 DEF Live, Listed, Current
<1>5. SessType' /\ AcceptedPart'
  BY <1>1, <1>3, <1>4 DEF SessInv, SessPart, SessType, AcceptedPart
<1>6. OpenPart'
  BY <1>1, <1>3, Sessioned, OneTxn DEF SessInv, SessPart, OpenPart
<1>7. FuturePart'
  <2> SUFFICES ASSUME NEW p \in Port, NEW n \in taken[p] + 1..MaxReq
               PROVE  /\ fate'[<<p, n>>] = "none"
                      /\ \A u \in txn_list' : u.req # <<p, n>>
    BY <1>1 DEF FuturePart
  <2>1. <<p, n>> \in Request
    BY DEF SessInv, SessPart, SessType, Request
  <2> QED BY <1>1, <1>3, <2>1 DEF SessInv, SessPart, FuturePart
<1>8. CurrentPart'
  <2>1. SessionOf(mem[Loop])' <=> SessionOf(mem[Loop])
    BY <1>1, <1>4 DEF SessionOf
  <2>2. ev = "connect_cb" => t.req # Current
    BY Sessioned DEF SessInv, OwnInv, FreshPart, Current
  <2>3. CurrentPart
    BY DEF SessInv, SessPart
  <2> QED BY <1>1, <1>3, <1>4, <2>1, <2>2, <2>3 DEF CurrentPart
<1> QED BY <1>1, <1>2, <1>3, <1>5, <1>6, <1>7, <1>8 DEF SessPart

\* A client leaves the list; its session goes on until its object is freed.
LEMMA UnlistSess ==
  ASSUME SessInv, NEW s \in ClientsAt(peer), Disconnect,
         client_list' = Unlisted(s), connected' = connected \ {s}, Goto("del_free")
  PROVE  /\ SessPart' /\ ev = "del" /\ ev' = "del_free" /\ s \in connected
         /\ UNCHANGED <<mem, obj, txn_list, fate>>
         /\ Live' = Live /\ Listed' = Listed \ {s}
<1>1. /\ ev = "del" /\ ev' = "del_free" /\ s \in Listed
      /\ UNCHANGED <<mem, obj, txn_list, fate, asked, taken>>
  BY DEF Disconnect, Goto, ClientsAt, xvars, world
<1>2. Live' = Live /\ Listed' = Listed \ {s} /\ connected = Listed
  BY <1>1, Unlisting, Sessioned DEF SessInv, Live
<1>3. SessType' /\ AcceptedPart' /\ FuturePart' /\ OpenPart' /\ CurrentPart'
  BY <1>1, <1>2 DEF SessInv, SessPart, SessType, AcceptedPart, FuturePart,
                    OpenPart, CurrentPart
<1> QED BY <1>1, <1>2, <1>3 DEF SessPart

\* What is dropped with client objects that are freed.
LEMMA Dropping ==
  ASSUME SessInv, NEW S \in SUBSET Live, DropTxns(S)
  PROVE  /\ fate' \in [Request -> Fates]
         /\ txn_list' = {t \in txn_list : t.client \notin S}
         /\ \A r \in Request :
              IF \E t \in txn_list : t.req = r /\ t.client \in S
              THEN fate'[r] = "dropped" /\ fate[r] = "none"
              ELSE fate'[r] = fate[r]
<1>1. fate \in [Request -> Fates] /\ \A t \in txn_list : fate[t.req] = "none"
  BY DEF SessInv, SessPart, SessType, OpenPart
<1>2. txn_list' = {t \in txn_list : t.client \notin S}
  BY DEF DropTxns
<1>3. fate' = [r \in Request |->
                 IF \E t \in txn_list : t.client \in S /\ t.req = r /\ fate[r] = "none"
                 THEN "dropped" ELSE fate[r]]
  BY DEF DropTxns
<1> QED BY <1>1, <1>2, <1>3 DEF Fates

LEMMA DroppingKeeps ==
  ASSUME SessInv, NEW S \in SUBSET Live, DropTxns(S), UNCHANGED taken
  PROVE  FuturePart' /\ OpenPart'
<1>1. OpenPart'
  BY Dropping, OneTxn, Sessioned DEF SessInv, SessPart, OpenPart
<1>2. FuturePart'
  <2> SUFFICES ASSUME NEW p \in Port, NEW n \in taken[p] + 1..MaxReq
               PROVE  /\ fate'[<<p, n>>] = "none"
                      /\ \A u \in txn_list' : u.req # <<p, n>>
    BY DEF FuturePart
  <2>1. <<p, n>> \in Request
    BY DEF SessInv, SessPart, SessType, Request
  <2> QED BY <2>1, Dropping DEF SessInv, SessPart, FuturePart
<1> QED BY <1>1, <1>2

LEMMA FreeSess ==
  ASSUME SessInv, DisconnectFree
  PROVE  /\ SessPart' /\ ev = "del_free" /\ ev' \in {"bye", "poll"}
         /\ UNCHANGED <<mem, connected>> /\ Listed' = Listed
         /\ \E s \in Live \ Listed :
              DropTxns({s}) /\ mem[s] = peer /\ Live' = Live \ {s}
<1>1. PICK s \in Leaving : DropTxns({s}) /\ Drop(s)
  BY DEF DisconnectFree, CleanTxns
<1>2. /\ ev = "del_free" /\ ev' \in {"bye", "poll"}
      /\ obj' = [obj EXCEPT ![s] = "free"]
      /\ UNCHANGED <<mem, client_list, connected, asked, taken>>
  BY <1>1 DEF DisconnectFree, Drop, PeerDone, xvars, world
<1>3. s \in Live \ Listed /\ mem[s] = peer
  BY DEF Leaving, Live
<1>4. Live' = Live \ {s} /\ Listed' = Listed
  BY <1>2, <1>3 DEF SessInv, OwnInv, OwnType, Live, Listed
<1>5. {s} \in SUBSET Live
  BY <1>3
<1>6. SessType'
  BY <1>1, <1>2, <1>4, <1>5, Dropping DEF SessInv, SessPart, SessType
<1>7. AcceptedPart' /\ CurrentPart'
  BY <1>2, <1>4 DEF SessInv, SessPart, AcceptedPart, CurrentPart
<1>8. FuturePart' /\ OpenPart'
  BY <1>1, <1>2, <1>5, DroppingKeeps
<1> QED BY <1>1, <1>2, <1>3, <1>4, <1>6, <1>7, <1>8 DEF SessPart

LEMMA ClosedSess ==
  ASSUME SessInv, XportClosed
  PROVE  /\ SessPart' /\ ev = "closing" /\ ev' = "closed" /\ mem' = mem
         /\ DropTxns(Live) /\ Live' = {} /\ Listed = Live /\ connected = Live
<1>1. /\ ev = "closing" /\ ev' = "closed" /\ client_list' = <<>>
      /\ DropTxns(Listed) /\ connected' = {}
      /\ obj' = [s \in Slot |-> IF s \in Listed THEN "free" ELSE obj[s]]
      /\ UNCHANGED <<mem, asked, taken>>
  BY DEF XportClosed, Goto, world
<1>2. Live = Listed /\ connected = Listed
  BY <1>1, Memory, Sessioned DEF SessInv
<1>3. Live' = {} /\ Listed' = {}
  BY <1>1, <1>2 DEF Live, Listed, Elems
<1>4. SessType'
  BY <1>1, <1>2, <1>3, Dropping DEF SessInv, SessPart, SessType
<1>5. AcceptedPart' /\ CurrentPart'
  BY <1>1, <1>3 DEF AcceptedPart, CurrentPart
<1>6. FuturePart' /\ OpenPart'
  BY <1>1, <1>2, DroppingKeeps
<1> QED BY <1>1, <1>2, <1>3, <1>4, <1>5, <1>6 DEF SessPart

LEMMA SessInit == Init => SessInv
<1> SUFFICES ASSUME Init PROVE SessInv
  OBVIOUS
<1>1. Listed = {} /\ Live = {}
  BY DEF Init, Listed, Elems, Live
<1>2. SessType
  BY <1>1, ServiceAssumption DEF Init, SessType, Fates
<1>3. AcceptedPart /\ CurrentPart
  BY <1>1 DEF Init, AcceptedPart, CurrentPart
<1>4. FuturePart /\ OpenPart
  BY DEF Init, FuturePart, OpenPart, Request
<1> QED BY <1>2, <1>3, <1>4, OwnInit DEF SessInv, SessPart

------------------------------------------------------------------------------
(* What the sessions see of a step.                                        *)

Session == {p \in Port : SessionOf(p)}
State == [r \in Request |-> StateOf(r)]

HasTxn(r) == \E t \in txn_list : t.req = r
Bailing(r) == ev = "bail" /\ Current = r /\ SessionOf(r[1])

LEMMA StateIs ==
  ASSUME NEW r \in Request
  PROVE  State[r] = IF fate[r] # "none" THEN fate[r]
                    ELSE IF HasTxn(r) \/ Bailing(r) THEN "open" ELSE "new"
BY DEF State, StateOf, HasTxn, Bailing

LEMMA StateBecomes ==
  ASSUME NEW r \in Request
  PROVE  State'[r] = IF fate'[r] # "none" THEN fate'[r]
                     ELSE IF HasTxn(r)' \/ Bailing(r)' THEN "open" ELSE "new"
BY DEF State, StateOf, HasTxn, Bailing

LEMMA Abstraction ==
  /\ Sessions!vars = <<Session, State>>
  /\ Sessions!vars' = <<Session', State'>>
BY DEF Sessions!vars, Session, State

LEMMA TakeStep ==
  ASSUME NEW r \in Request, State[r] = "new",
         Session' = Session \cup {r[1]}, State' = [State EXCEPT ![r] = "open"]
  PROVE  Sessions!Next
<1>1. Sessions!Take(r)
  BY DEF Sessions!Take, Session, State
<1> QED BY <1>1 DEF Sessions!Next, Sessions!Request, Request

LEMMA AnswerStep ==
  ASSUME NEW r \in Request, NEW how \in {"answered", "failed"},
         \/ State[r] = "open" /\ r[1] \in Session
         \/ State[r] \in {"new", "failed"},
         Session' = Session, State' = [State EXCEPT ![r] = how]
  PROVE  Sessions!Next
<1>1. Sessions!Answer(r, how)
  BY DEF Sessions!Answer, Session, State
<1> QED BY <1>1 DEF Sessions!Next, Sessions!Request, Request

LEMMA LeaveStep ==
  ASSUME NEW P \in SUBSET Port, P # {}, P \subseteq Session,
         Session' = Session \ P,
         State' = [r \in Request |-> IF r[1] \in P /\ State[r] = "open"
                                     THEN "dropped" ELSE State[r]]
  PROVE  Sessions!Next
<1>1. Sessions!Leave(P)
  BY DEF Sessions!Leave, Sessions!Request, Request, Session, State
<1> QED BY <1>1 DEF Sessions!Next

\* A request changes its state and the others do not.
LEMMA StateExcept ==
  ASSUME NEW r \in Request, NEW v, State'[r] = v,
         \A q \in Request \ {r} : State'[q] = State[q]
  PROVE  State' = [State EXCEPT ![r] = v]
<1>1. State' = [q \in Request |-> State'[q]] /\ State = [q \in Request |-> State[q]]
  BY DEF State
<1> QED BY <1>1

LEMMA StateSame ==
  ASSUME \A q \in Request : State'[q] = State[q]
  PROVE  State' = State
<1>1. State' = [q \in Request |-> State'[q]] /\ State = [q \in Request |-> State[q]]
  BY DEF State
<1> QED BY <1>1

Simulated == Sessions!Next \/ (Session' = Session /\ State' = State)

\* In a state where no client is being accepted, a session is a live object.
LEMMA SessionsAre ==
  ASSUME SessInv, ev # "connect_cb"
  PROVE  Session = {p \in Port : \E s \in Live : mem[s] = p}
BY Sessioned DEF Session, SessionOf, Live

LEMMA StillSim ==
  ASSUME SessInv, Unmoved
  PROVE  Simulated
<1> USE DEF Unmoved
<1>1. \A p : SessionOf(p)' <=> SessionOf(p)
  BY DEF SessionOf, Listed
<1>2. Session' = Session
  BY <1>1 DEF Session
<1>3. \A r \in Request : State'[r] = State[r]
  BY <1>1, StateIs, StateBecomes DEF HasTxn, Bailing, Current, SessionOf
<1> QED BY <1>2, <1>3, StateSame DEF Simulated

\* A packet of a known client starts its request; one that is malformed, a
\* request too if there is a session to answer it in; one of an unknown client
\* starts nothing yet.
LEMMA ReceiveSim ==
  ASSUME SessInv, NEW p \in Port, Receive(p)
  PROVE  Simulated
<1>0. PICK r : r = <<p, taken[p] + 1>>
  OBVIOUS
<1>1. /\ ev = "poll" /\ UNCHANGED <<fate, connected>>
      /\ r \in Request /\ r[1] = p /\ fate[r] = "none" /\ ~HasTxn(r)
      /\ Current' = r /\ taken'[p] = taken[p] + 1
  BY <1>0, Reading DEF SessInv, SessPart, SessType, HasTxn
<1>2. /\ Live = Listed /\ connected = Listed /\ Listed \subseteq Slot
      /\ \A s, u \in Live : mem[s] = mem[u] => s = u
  BY <1>1, Memory, Sessioned DEF SessInv
<1>3. State[r] = "new"
  BY <1>1, StateIs DEF Bailing
<1>4. ASSUME NEW s \in ClientsAt(p), StartRequest(s, <<p, taken'[p]>>),
             ReadFrom(p), UNCHANGED <<client_list, obj>>
      PROVE  Simulated
  <2>1. /\ s \in Listed /\ mem[s] = p /\ ev' = "process"
        /\ txn_list' = txn_list \cup {[req |-> r, client |-> s]}
        /\ \A u \in Slot : mem'[u] = mem[u]
    BY <1>0, <1>1, <1>4, ReadKeeps DEF SessInv, ClientsAt, StartRequest, Goto
  <2>2. \A q : SessionOf(q)' <=> SessionOf(q)
    BY <1>1, <1>4, <2>1 DEF SessionOf, Listed
  <2>3. Session' = Session \cup {r[1]}
    BY <1>1, <1>2, <2>1, <2>2 DEF Session, SessionOf, Live
  <2>4. /\ HasTxn(r)'
        /\ \A q \in Request \ {r} : HasTxn(q)' <=> HasTxn(q)
    <3>1. PICK new : new.req = r /\ txn_list' = txn_list \cup {new}
      BY <2>1
    <3> QED BY <3>1 DEF HasTxn
  <2>5. State' = [State EXCEPT ![r] = "open"]
    <3>1. State'[r] = "open"
      BY <1>1, <2>4, StateBecomes
    <3>2. \A q \in Request \ {r} : State'[q] = State[q]
      BY <1>1, <2>1, <2>4, StateIs, StateBecomes DEF Bailing
    <3> QED BY <1>1, <3>1, <3>2, StateExcept
  <2> QED BY <1>1, <1>3, <2>3, <2>5, TakeStep DEF Simulated
<1>5. ASSUME NEW s \in Slot, CreateClient(s, p), UNCHANGED txn_list,
             ClientsAt(p) = {}
      PROVE  Simulated
  <2>1. s \notin Listed
    BY <1>1, <1>5, CreateTracks DEF SessInv
  <2>2. /\ Listed' = Listed \cup {s} /\ Live' = Live \cup {s}
        /\ ev' = "connect_cb" /\ \A u \in Listed : mem'[u] = mem[u]
    BY <1>1, <1>5, CreateTracks DEF SessInv
  <2>3. \A q : SessionOf(q)' <=> SessionOf(q)
    <3>1. \A q : SessionOf(q) <=> \E u \in Listed : mem[u] = q
      BY <1>2 DEF SessionOf, Live
    <3>2. \A q : SessionOf(q)' <=> \E u \in Live' : mem'[u] = q /\ u \in Listed
      BY <1>1, <1>2, <2>1, <2>2 DEF SessionOf, Live
    <3> QED BY <1>2, <2>2, <3>1, <3>2
  <2>4. Session' = Session
    BY <2>3 DEF Session
  <2>5. \A q \in Request : State'[q] = State[q]
    BY <1>1, <1>5, <2>2, StateIs, StateBecomes DEF Bailing, HasTxn
  <2> QED BY <2>4, <2>5, StateSame DEF Simulated
<1>6. CASE ReadFrom(p) /\ Goto("bail") /\ UNCHANGED tables
  <2>1. /\ ev' = "bail" /\ UNCHANGED <<txn_list, obj, client_list>>
        /\ \A u \in Slot : mem'[u] = mem[u]
    BY <1>6, ReadKeeps DEF SessInv, Goto, tables
  <2>2. \A q : SessionOf(q)' <=> SessionOf(q)
    BY <1>1, <2>1 DEF SessionOf, Listed
  <2>3. Session' = Session
    BY <2>2 DEF Session
  <2>4. \A q \in Request \ {r} : State'[q] = State[q]
    BY <1>1, <2>1, StateIs, StateBecomes DEF Bailing, HasTxn
  <2>5. CASE SessionOf(p)
    <3>1. Bailing(r)'
      <4>1. SessionOf(p)'
        BY <2>2, <2>5
      <4> QED BY <1>1, <2>1, <4>1 DEF Bailing, SessionOf
    <3>2. State'[r] = "open"
      BY <1>1, <3>1, StateBecomes
    <3>3. State' = [State EXCEPT ![r] = "open"]
      BY <1>1, <2>4, <3>2, StateExcept
    <3>4. Session' = Session \cup {r[1]}
      BY <1>1, <2>3, <2>5 DEF Session
    <3> QED BY <1>1, <1>3, <3>3, <3>4, TakeStep DEF Simulated
  <2>6. CASE ~SessionOf(p)
    <3>1. ~Bailing(r)' /\ ~HasTxn(r)'
      <4>1. ~SessionOf(p)'
        BY <2>2, <2>6
      <4> QED BY <1>1, <2>1, <4>1 DEF Bailing, HasTxn, SessionOf
    <3>2. State'[r] = State[r]
      BY <1>1, <1>3, <3>1, StateBecomes
    <3> QED BY <2>3, <2>4, <3>2, StateSame DEF Simulated
  <2> QED BY <2>5, <2>6
<1> QED BY <1>1, <1>4, <1>5, <1>6 DEF Receive

LEMMA AcceptSim ==
  ASSUME SessInv, NEW s \in Slot, ConnectAccept(s)
  PROVE  Simulated
<1>0. PICK r : r = Current
  OBVIOUS
<1>1. /\ ev = "connect_cb" /\ ev' = "process" /\ s \in Listed /\ mem[s] = mem[Loop]
      /\ connected' = connected \cup {s}
      /\ txn_list' = txn_list \cup {[req |-> r, client |-> s]}
      /\ UNCHANGED <<mem, client_list, obj, taken, fate>>
  BY <1>0 DEF ConnectAccept, ClientsAt, StartRequest, Goto, xvars, world
<1>2. /\ r \in Request /\ fate[r] = "none"
      /\ r[1] = mem[Loop] /\ mem[Loop] \in Port /\ ~HasTxn(r)
  BY <1>0, <1>1, Sessioned DEF SessInv, SessPart, CurrentPart, Current, Request, HasTxn,
                         OwnInv, FreshPart
<1>3. State[r] = "new"
  BY <1>1, <1>2, StateIs DEF Bailing
<1>4. Session' = Session \cup {r[1]}
  <2>1. s \in Slot /\ obj[s] = "live"
    BY <1>1, Sessioned DEF Live
  <2> QED BY <1>1, <1>2, <2>1 DEF Session, SessionOf, Listed
<1>5. State' = [State EXCEPT ![r] = "open"]
  <2>1. HasTxn(r)' /\ \A q \in Request \ {r} : HasTxn(q)' <=> HasTxn(q)
    <3>1. PICK new : new.req = r /\ txn_list' = txn_list \cup {new}
      BY <1>1
    <3> QED BY <3>1 DEF HasTxn
  <2>2. State'[r] = "open"
    BY <1>1, <1>2, <2>1, StateBecomes
  <2>3. \A q \in Request \ {r} : State'[q] = State[q]
    BY <1>1, <2>1, StateIs, StateBecomes DEF Bailing
  <2> QED BY <1>2, <2>2, <2>3, StateExcept
<1> QED BY <1>2, <1>3, <1>4, <1>5, TakeStep DEF Simulated

\* A client that is refused never had a session.
LEMMA RefuseSim ==
  ASSUME SessInv, NEW s \in Slot, ConnectRefuse(s)
  PROVE  Simulated
<1>1. /\ ev = "connect_cb" /\ ev' = "bail" /\ s \in Listed /\ mem[s] = mem[Loop]
      /\ UNCHANGED <<mem, txn_list, taken, fate, connected>>
  BY DEF ConnectRefuse, ClientsAt, Goto, Drop, xvars, world
<1>2. /\ Live' = Live \ {s} /\ Listed' = Listed \ {s} /\ s \notin connected
      /\ s \in Live /\ \A u, v \in Live : mem[u] = mem[v] => u = v
  BY <1>1, RefuseSess, Sessioned DEF SessInv, SessPart, AcceptedPart
<1>3. \A q : SessionOf(q)' <=> SessionOf(q)
  <2>1. \A q : SessionOf(q) <=>
          \E u \in Live : mem[u] = q /\ (u \in connected \/ u \notin Listed)
    BY DEF SessionOf, Live
  <2>2. \A q : SessionOf(q)' <=> \E u \in Live' :
          mem'[u] = q /\ (u \in connected' \/ u \notin Listed')
    BY DEF SessionOf, Live
  <2> QED BY <1>1, <1>2, <2>1, <2>2
<1>4. ~SessionOf(mem[Loop])
  BY <1>1, <1>2 DEF SessionOf, Live
<1>5. Session' = Session
  BY <1>3 DEF Session
<1>6. \A q \in Request : State'[q] = State[q]
  <2>1. \A q : ~Bailing(q) /\ ~Bailing(q)'
    BY <1>1, <1>3, <1>4 DEF Bailing, Current, SessionOf
  <2> QED BY <1>1, <2>1, StateIs, StateBecomes DEF HasTxn
<1> QED BY <1>5, <1>6, StateSame DEF Simulated

\* A rejected request is open until its error response is sent.
LEMMA RejectSim ==
  ASSUME SessInv, Reject
  PROVE  Simulated
<1>0. PICK r : r = Current
  OBVIOUS
<1>1. /\ ev = "process" /\ ev' = "bail" /\ Current' = r
      /\ txn_list' = {t \in txn_list : t.req # r}
      /\ fate[r] # "answered" /\ UNCHANGED <<mem, client_list, obj, fate, connected>>
  BY <1>0 DEF Reject, Goto, xvars, world, Current
<1>2. /\ r \in Request /\ r[1] = mem[Loop] /\ r[1] \in Port /\ SessionOf(r[1])
      /\ fate[r] \in {"none", "failed"}
  BY <1>0, <1>1 DEF SessInv, SessPart, CurrentPart, Current, Request
<1>3. \A q : SessionOf(q)' <=> SessionOf(q)
  BY <1>1 DEF SessionOf, Listed
<1>4. Session' = Session /\ Session = Session \cup {r[1]}
  BY <1>2, <1>3 DEF Session
<1>5. Bailing(r)'
  <2>1. SessionOf(r[1])'
    BY <1>2, <1>3
  <2> QED BY <1>1, <2>1 DEF Bailing, SessionOf
<1>6. \A q \in Request \ {r} : State'[q] = State[q]
  <2>1. \A q \in Request \ {r} : /\ HasTxn(q)' <=> HasTxn(q)
                                 /\ ~Bailing(q) /\ ~Bailing(q)'
    BY <1>1 DEF HasTxn, Bailing
  <2> QED BY <1>1, <2>1, StateIs, StateBecomes
<1>7. CASE State[r] = "new"
  <2>1. State'[r] = "open"
    BY <1>1, <1>2, <1>5, <1>7, StateIs, StateBecomes
  <2>2. State' = [State EXCEPT ![r] = "open"]
    BY <1>2, <1>6, <2>1, StateExcept
  <2> QED BY <1>2, <1>4, <1>7, <2>2, TakeStep DEF Simulated
<1>8. CASE State[r] # "new"
  <2>1. State'[r] = State[r]
    BY <1>1, <1>2, <1>5, <1>8, StateIs, StateBecomes
  <2> QED BY <1>4, <1>6, <2>1, StateSame DEF Simulated
<1> QED BY <1>7, <1>8

\* The error response is sent, or fails.
LEMMA BailSim ==
  ASSUME SessInv, Bail
  PROVE  Simulated
<1>0. PICK r : r = Current
  OBVIOUS
<1>1. PICK rc \in {"ok", "busy", "err"} : AfterAnswer(r, rc)
  BY <1>0 DEF Bail
<1>2. /\ ev = "bail" /\ ev' = "poll"
      /\ UNCHANGED <<mem, client_list, obj, txn_list, connected>>
  BY DEF Bail, PacketDone, XportSend, Accept, tables, world
<1>3. /\ r \in Request /\ fate[r] \in {"none", "failed"} /\ ~HasTxn(r)
      /\ fate \in [Request -> Fates] /\ r[1] \in Port
  BY <1>0, <1>2
     DEF SessInv, SessPart, CurrentPart, SessType, HasTxn, Request
<1>4. /\ fate'[r] \in {"answered", "failed"}
      /\ \A q \in Request \ {r} : fate'[q] = fate[q]
  BY <1>1, <1>3 DEF AfterAnswer
<1>5. \A q : SessionOf(q)' <=> SessionOf(q)
  BY <1>2 DEF SessionOf, Listed
<1>6. Session' = Session
  BY <1>5 DEF Session
<1>7. \/ State[r] = "open" /\ r[1] \in Session
      \/ State[r] \in {"new", "failed"}
  BY <1>3, StateIs DEF Bailing, Session
<1>8. State'[r] = fate'[r]
  BY <1>3, <1>4, StateBecomes
<1>9. \A q \in Request \ {r} : State'[q] = State[q]
  <2>1. \A q \in Request \ {r} : /\ HasTxn(q)' <=> HasTxn(q)
                                 /\ ~Bailing(q) /\ ~Bailing(q)'
    BY <1>0, <1>2 DEF HasTxn, Bailing
  <2> QED BY <1>4, <2>1, StateIs, StateBecomes
<1>10. PICK how \in {"answered", "failed"} : how = fate'[r]
  BY <1>4
<1>11. State' = [State EXCEPT ![r] = how]
  BY <1>3, <1>8, <1>9, <1>10, StateExcept
<1> QED BY <1>3, <1>6, <1>7, <1>11, AnswerStep DEF Simulated

\* A worker's answer.
LEMMA AnswerSim ==
  ASSUME SessInv, NEW t \in txn_list, SendResp(t) \/ SendRespFails(t)
  PROVE  Simulated
<1>0. PICK r : r = t.req
  OBVIOUS
<1>1. /\ UNCHANGED <<ev, mem, client_list, obj, connected, taken>>
      /\ txn_list' = txn_list \ {t}
      /\ fate[r] = "none" /\ fate'[r] \in {"answered", "failed"}
      /\ \A q \in Request \ {r} : fate'[q] = fate[q]
  BY <1>0, AnswerSess
<1>2. r \in Request /\ r[1] \in Port /\ SessionOf(r[1]) /\ HasTxn(r)
  BY <1>0, Sessioned DEF HasTxn
<1>3. \A q : SessionOf(q)' <=> SessionOf(q)
  BY <1>1 DEF SessionOf, Listed
<1>4. Session' = Session /\ r[1] \in Session
  BY <1>2, <1>3 DEF Session
<1>5. State[r] = "open" /\ State'[r] = fate'[r]
  BY <1>1, <1>2, StateIs, StateBecomes
<1>6. \A q \in Request \ {r} : State'[q] = State[q]
  <2>1. \A q \in Request \ {r} : HasTxn(q)' <=> HasTxn(q)
    BY <1>0, <1>1 DEF HasTxn
  <2>2. \A q : Bailing(q)' <=> Bailing(q)
    BY <1>1, <1>3 DEF Bailing, Current, SessionOf
  <2> QED BY <1>1, <2>1, <2>2, StateIs, StateBecomes
<1>7. PICK how \in {"answered", "failed"} : how = fate'[r]
  BY <1>1
<1>8. State' = [State EXCEPT ![r] = how]
  BY <1>2, <1>5, <1>6, <1>7, StateExcept
<1> QED BY <1>2, <1>4, <1>5, <1>8, AnswerStep DEF Simulated

\* The session of a client that is unlisted lasts until its object is freed.
LEMMA DisconnectSim ==
  ASSUME SessInv, Disconnect
  PROVE  Simulated
<1>1. CASE PeerDone /\ UNCHANGED <<client_list, connected>>
  <2>1. Unmoved
    BY <1>1 DEF Disconnect, PeerDone, Unmoved, xvars, world
  <2> QED BY <2>1, StillSim
<1>2. ASSUME NEW s \in ClientsAt(peer), client_list' = Unlisted(s),
             connected' = connected \ {s}, Goto("del_free")
      PROVE  Simulated
  <2>1. /\ ev = "del" /\ ev' = "del_free" /\ s \in connected
        /\ UNCHANGED <<mem, obj, txn_list, fate>>
        /\ Live' = Live /\ Listed' = Listed \ {s}
    BY <1>2, UnlistSess
  <2>2. \A q : SessionOf(q)' <=> SessionOf(q)
    BY <1>2, <2>1 DEF SessionOf
  <2>3. Session' = Session
    BY <2>2 DEF Session
  <2>4. \A q \in Request : State'[q] = State[q]
    BY <2>1, StateIs, StateBecomes DEF HasTxn, Bailing
  <2> QED BY <2>3, <2>4, StateSame DEF Simulated
<1> QED BY <1>1, <1>2 DEF Disconnect

\* The sessions of client objects that are freed end, and their requests.
LEMMA DropSim ==
  ASSUME SessInv, NEW S \in SUBSET Live, S # {}, DropTxns(S),
         ev \notin {"connect_cb", "bail"}, ev' # "bail",
         NEW P, P = {mem[s] : s \in S},
         Session = {p \in Port : \E s \in Live : mem[s] = p},
         Session' = {p \in Port : \E s \in Live \ S : mem[s] = p}
  PROVE  Simulated
<1>1. P \in SUBSET Port /\ P # {} /\ P \subseteq Session
  BY DEF SessInv, SessPart, SessType
<1>2. Session' = Session \ P
  BY Sessioned
<1>3. ASSUME NEW r \in Request
      PROVE  State'[r] = IF r[1] \in P /\ State[r] = "open" THEN "dropped"
                         ELSE State[r]
  <2>1. State[r] = IF fate[r] # "none" THEN fate[r]
                   ELSE IF HasTxn(r) THEN "open" ELSE "new"
    BY StateIs DEF Bailing
  <2>2. State'[r] = IF fate'[r] # "none" THEN fate'[r]
                    ELSE IF HasTxn(r)' THEN "open" ELSE "new"
    BY StateBecomes DEF Bailing
  <2>3. \A t \in txn_list : fate[t.req] = "none"
    BY DEF SessInv, SessPart, OpenPart
  <2>4. fate[r] \in Fates
    BY DEF SessInv, SessPart, SessType
  <2>5. CASE \E t \in txn_list : t.req = r /\ t.client \in S
    <3>1. fate'[r] = "dropped" /\ fate[r] = "none"
      BY <2>5, Dropping
    <3>2. r[1] \in P /\ HasTxn(r)
      BY <2>5, Sessioned DEF HasTxn
    <3> QED BY <2>1, <2>2, <3>1, <3>2
  <2>6. CASE ~ \E t \in txn_list : t.req = r /\ t.client \in S
    <3>1. fate'[r] = fate[r] /\ (HasTxn(r)' <=> HasTxn(r))
      BY <2>6, Dropping DEF HasTxn
    <3>2. HasTxn(r) => r[1] \notin P
      BY <2>6, Sessioned DEF HasTxn
    <3>3. State[r] = "open" => HasTxn(r)
      BY <2>1, <2>4 DEF Fates
    <3> QED BY <2>1, <2>2, <3>1, <3>2, <3>3
  <2> QED BY <2>5, <2>6
<1>4. State' = [r \in Request |-> IF r[1] \in P /\ State[r] = "open" THEN "dropped"
                                  ELSE State[r]]
  <2>1. State' = [r \in Request |-> State'[r]]
    BY DEF State
  <2> QED BY <1>3, <2>1
<1> QED BY <1>1, <1>2, <1>4, LeaveStep DEF Simulated

LEMMA FreeSim ==
  ASSUME SessInv, DisconnectFree
  PROVE  Simulated
<1>1. PICK s \in Live \ Listed : DropTxns({s}) /\ Live' = Live \ {s}
  BY FreeSess
<1>2. /\ ev = "del_free" /\ ev' \in {"bye", "poll"}
      /\ UNCHANGED <<mem, connected>> /\ Listed' = Listed
  BY FreeSess
<1>3. Session = {p \in Port : \E u \in Live : mem[u] = p}
  BY <1>2, SessionsAre
<1>4. Session' = {p \in Port : \E u \in Live \ {s} : mem[u] = p}
  <2>1. connected = Listed
    BY <1>2, Sessioned
  <2>2. \A p : SessionOf(p)' <=> \E u \in Live' : mem'[u] = p
    BY <1>2, <2>1 DEF SessionOf, Live
  <2> QED BY <1>1, <1>2, <2>2 DEF Session
<1>5. {s} \in SUBSET Live /\ {s} # {}
  BY <1>1
<1> QED BY <1>1, <1>2, <1>3, <1>4, <1>5, DropSim

LEMMA ClosedSim ==
  ASSUME SessInv, XportClosed
  PROVE  Simulated
<1>1. /\ ev = "closing" /\ ev' = "closed" /\ mem' = mem /\ DropTxns(Live)
      /\ Live' = {} /\ Listed = Live /\ connected = Live
  BY ClosedSess
<1>2. Session = {p \in Port : \E u \in Live : mem[u] = p}
  BY <1>1, SessionsAre
<1>3. Session' = {}
  BY <1>1 DEF Session, SessionOf, Live
<1>4. CASE Live # {}
  <2>1. Session' = {p \in Port : \E u \in Live \ Live : mem[u] = p}
    BY <1>3
  <2> QED BY <1>1, <1>2, <1>4, <2>1, DropSim
<1>5. CASE Live = {}
  <2>1. txn_list = {} /\ Session' = Session
    BY <1>2, <1>3, <1>5, Sessioned
  <2>2. txn_list' = {} /\ \A r \in Request : fate'[r] = fate[r]
    BY <1>1, <2>1, Dropping
  <2>3. \A r \in Request : State'[r] = State[r]
    BY <1>1, <2>1, <2>2, StateIs, StateBecomes DEF HasTxn, Bailing
  <2> QED BY <2>1, <2>3, StateSame DEF Simulated
<1> QED BY <1>4, <1>5

------------------------------------------------------------------------------
(* Every step is a step of the sessions.                                   *)

\* One lemma for both, as they split the next-state relation alike.
LEMMA SessStep ==
  ASSUME SessInv, [Next]_vars
  PROVE  SessPart' /\ Simulated
<1>1. ASSUME Unmoved, UNCHANGED asked PROVE SessPart' /\ Simulated
  BY <1>1, UnmovedKeeps, StillSim
<1>2. CASE EventThread
  <2>1. ASSUME NEW p \in Port, Receive(p) PROVE SessPart' /\ Simulated
    BY <2>1, ReceiveSess, ReceiveSim
  <2>2. ASSUME NEW p \in Port, DelClient(p) \/ ByeClient(p) \/ ResumeTx(p)
        PROVE  SessPart' /\ Simulated
    BY <1>1, <2>2, StillSteps
  <2>3. ASSUME NEW s \in Slot, ConnectAccept(s) PROVE SessPart' /\ Simulated
    BY <2>3, AcceptSess, AcceptSim
  <2>4. ASSUME NEW s \in Slot, ConnectRefuse(s) PROVE SessPart' /\ Simulated
    BY <2>4, RefuseSess, RefuseSim
  <2>5. CASE Served \/ Bye \/ ByeDone \/ ResumeCb
    BY <1>1, <2>5, StillSteps
  <2>6. CASE Reject
    BY <2>6, RejectSess, RejectSim
  <2>7. CASE Bail
    BY <2>7, BailSess, BailSim
  <2>8. CASE Disconnect
    <3>1. CASE PeerDone /\ UNCHANGED <<client_list, connected>>
      <4>1. Unmoved /\ UNCHANGED asked
        BY <2>8, <3>1 DEF Disconnect, PeerDone, Unmoved, xvars, world
      <4> QED BY <1>1, <4>1
    <3>2. ASSUME NEW s \in ClientsAt(peer), client_list' = Unlisted(s),
                 connected' = connected \ {s}, Goto("del_free")
          PROVE  SessPart'
      BY <2>8, <3>2, UnlistSess
    <3> QED BY <2>8, <3>1, <3>2, DisconnectSim DEF Disconnect
  <2>9. CASE DisconnectFree
    BY <2>9, FreeSess, FreeSim
  <2>10. CASE XportClosed
    BY <2>10, ClosedSess, ClosedSim
  <2> QED BY <1>2, <2>1, <2>2, <2>3, <2>4, <2>5, <2>6, <2>7, <2>8, <2>9, <2>10
          DEF EventThread
<1>3. CASE NetReset \/ Unregister
  BY <1>1, <1>3, StillSteps
<1>4. CASE Workers
  <2>1. ASSUME NEW t \in txn_list, SendResp(t) \/ SendRespFails(t)
        PROVE  SessPart' /\ Simulated
    BY <2>1, AnswerSess, AnswerSim
  <2>2. ASSUME NEW s \in Slot, SendInd(s) PROVE SessPart' /\ Simulated
    BY <1>1, <2>2, StillSteps
  <2>3. CASE Broadcast \/ BroadcastStep
    BY <1>1, <2>3, StillSteps
  <2> QED BY <1>4, <2>1, <2>2, <2>3 DEF Workers
<1>5. CASE World
  <2>1. ASSUME NEW p \in Port, Ask(p) PROVE SessPart' /\ Simulated
    BY <2>1, AskStill, StillSim
  <2>2. ASSUME NEW p \in Port, CloseClient(p) \/ Kernel(p)
        PROVE  SessPart' /\ Simulated
    BY <1>1, <2>2, StillSteps
  <2>3. CASE LoseNode
    BY <1>1, <2>3, StillSteps
  <2> QED BY <1>5, <2>1, <2>2, <2>3 DEF World
<1>6. CASE Rest \/ UNCHANGED vars
  BY <1>1, <1>6, StillSteps DEF Rest
<1> QED BY <1>2, <1>3, <1>4, <1>5, <1>6 DEF Next

\* The library implements the sessions of QmiSessions: a request is taken
\* within a session of its client only, is answered at most once however the
\* workers, rejections and failed answers overlap (qmi_csi_send_resp,
\* encode_and_send_resp), and is dropped with the session it was open in
\* (clean_txns), for any number of clients, requests and client objects and
\* whichever events can happen, resets and reuse of freed memory included.
THEOREM SessionsImplemented == Spec => ImplementsSessions
<1>1. Init => Sessions!Init
  <2> SUFFICES ASSUME Init PROVE Sessions!Init
    OBVIOUS
  <2>1. Session = {}
    BY DEF Init, Session, SessionOf
  <2>2. \A r \in Request : StateOf(r) = "new"
    BY DEF Init, StateOf
  <2> QED BY <2>1, <2>2 DEF Sessions!Init, Sessions!Request, Request, Session
<1>2. SessInv /\ [Next]_vars => SessInv'
  BY OwnStep, SessStep DEF SessInv
<1>3. SessInv /\ [Next]_vars => [Sessions!Next]_Sessions!vars
  BY SessStep, Abstraction DEF Simulated
<1> QED BY <1>1, <1>2, <1>3, SessInit, PTL DEF Spec, ImplementsSessions, Sessions!Spec

------------------------------------------------------------------------------
(* Types: the transport's queues, for any memory.                          *)

Destination == [dest_addr : Ptr, bufs : Seq(Message), dest_busy : BOOLEAN]

\* The transport and the kernel.
MailType ==
  /\ tx_q \in Seq(Destination)
  /\ open \subseteq Port /\ blocked \subseteq open /\ waiter \subseteq blocked
  /\ resume_evt \subseteq Port /\ blocks \in 0..MaxBlocks
  /\ sent \in [Port -> Nat] /\ wire \in [Port -> Seq(Message)]
  /\ lost \subseteq Message

\* The event thread; a broadcast has only listed clients ahead of it, because
\* it holds client_list_lock.
EventType ==
  /\ ev \in Events /\ peer \in Port \cup {NoPort} /\ walking \in BOOLEAN
  /\ conn_cli \subseteq Port
  /\ del_evt \subseteq Port /\ bye_evt \in BOOLEAN
  /\ told_busy \subseteq Slot
  /\ bcast \in Seq(Slot) /\ Elems(bcast) \subseteq Listed

TypeInv == SessInv /\ MailType /\ EventType

\* A set of numbers has a least one.
LEMMA Smallest ==
  ASSUME NEW S, S \subseteq Nat, S # {}
  PROVE  \E i \in S : \A j \in S : i <= j
<1> DEFINE R == {p \in Nat \X Nat : p[1] < p[2]}
<1>1. IsWellFoundedOn(R, Nat)
  BY NatLessThanWellFounded DEF OpToRel
<1>2. PICK i \in S : \A j \in S : ~(<<j, i>> \in R)
  <2> HIDE DEF R
  <2> QED BY <1>1, WFMin
<1>3. \A j \in S : i \in Nat /\ j \in Nat /\ ~(j < i)
  BY <1>2
<1> QED BY <1>3

\* find_tx_q finds a place in the list or none.
LEMMA FoundPlace ==
  ASSUME NEW m, NEW a, tx_q \in Seq(Destination)
  PROVE  FindTxQ(m, a) = 0 \/ FindTxQ(m, a) \in 1..Len(tx_q)
<1> DEFINE hits == {i \in 1..Len(tx_q) : m[tx_q[i].dest_addr] = a}
<1>1. hits \subseteq Nat /\ hits \subseteq 1..Len(tx_q)
  OBVIOUS
<1>2. FindTxQ(m, a) = IF hits = {} THEN 0
                      ELSE CHOOSE i \in hits : \A j \in hits : i <= j
  BY DEF FindTxQ
<1> HIDE DEF hits
<1>3. CASE hits # {}
  <2>1. \E i \in hits : \A j \in hits : i <= j
    BY <1>1, <1>3, Smallest
  <2>2. (CHOOSE i \in hits : \A j \in hits : i <= j) \in hits
    BY <2>1, Zenon
  <2> QED BY <1>1, <1>2, <1>3, <2>2
<1> QED BY <1>2, <1>3

\* The parts of the destination at a place of the list.
LEMMA AtPlace ==
  ASSUME NEW i \in 1..Len(tx_q), tx_q \in Seq(Destination)
  PROVE  /\ tx_q[i] \in Destination /\ tx_q[i].dest_addr \in Ptr
         /\ tx_q[i].bufs \in Seq(Message) /\ tx_q[i].dest_busy \in BOOLEAN
         /\ Elems(tx_q[i].bufs) \subseteq Message
<1>1. tx_q[i] \in Destination
  OBVIOUS
<1>2. tx_q[i].bufs \in Seq(Message)
  BY <1>1 DEF Destination
<1>3. Elems(tx_q[i].bufs) \subseteq Message
  BY <1>2 DEF Elems
<1> QED BY <1>1, <1>2, <1>3 DEF Destination

\* A list stays one when a place is replaced, removed or added.
LEMMA PlaceType ==
  ASSUME NEW S, NEW q \in Seq(S), NEW d \in S
  PROVE  /\ Append(q, d) \in Seq(S)
         /\ \A i \in 1..Len(q) : [q EXCEPT ![i] = d] \in Seq(S)
         /\ \A i \in 1..Len(q) : Without(q, i) \in Seq(S)
<1>1. ASSUME NEW i \in 1..Len(q) PROVE Without(q, i) \in Seq(S)
  <2>1. SubSeq(q, 1, i - 1) \in Seq(S) /\ SubSeq(q, i + 1, Len(q)) \in Seq(S)
    OBVIOUS
  <2> QED BY <2>1 DEF Without
<1>2. ASSUME NEW i \in 1..Len(q) PROVE [q EXCEPT ![i] = d] \in Seq(S)
  OBVIOUS
<1> QED BY <1>1, <1>2

\* put_tx_q queues a message or marks the destination.
LEMMA PutType ==
  ASSUME tx_q \in Seq(Destination), NEW x \in Ptr, NEW msg \in Message,
         NEW limited, NEW r, PutTxQ(x, msg, limited, r)
  PROVE  tx_q' \in Seq(Destination)
<1> DEFINE i == FindTxQ(mem, mem[x])
           new == [dest_addr |-> x, bufs |-> <<msg>>, dest_busy |-> FALSE]
<1>1. i = 0 \/ i \in 1..Len(tx_q)
  BY FoundPlace
<1>2. \/ i # 0 /\ tx_q' = [tx_q EXCEPT ![i].dest_busy = TRUE]
      \/ i # 0 /\ tx_q' = [tx_q EXCEPT ![i].bufs = Append(@, msg)]
      \/ i = 0 /\ tx_q' = Append(tx_q, new)
  BY DEF PutTxQ
<1>3. new \in Destination
  BY DEF Destination
<1> HIDE DEF i, new
<1>4. ASSUME i \in 1..Len(tx_q)
      PROVE  /\ [tx_q EXCEPT ![i].dest_busy = TRUE] \in Seq(Destination)
             /\ [tx_q EXCEPT ![i].bufs = Append(@, msg)] \in Seq(Destination)
  <2> DEFINE d == [tx_q[i] EXCEPT !.dest_busy = TRUE]
             e == [tx_q[i] EXCEPT !.bufs = Append(@, msg)]
  <2>1. d \in Destination
    BY <1>4, AtPlace DEF Destination
  <2>2. e \in Destination
    <3>1. Append(tx_q[i].bufs, msg) \in Seq(Message)
      BY <1>4, AtPlace
    <3> QED BY <1>4, <3>1, AtPlace DEF Destination
  <2>3. /\ [tx_q EXCEPT ![i].dest_busy = TRUE] = [tx_q EXCEPT ![i] = d]
        /\ [tx_q EXCEPT ![i].bufs = Append(@, msg)] = [tx_q EXCEPT ![i] = e]
    BY <1>4
  <2> HIDE DEF d, e
  <2> QED BY <1>4, <2>1, <2>2, <2>3, PlaceType
<1> QED BY <1>1, <1>2, <1>3, <1>4, PlaceType

\* xport_send hands the message to the socket, queues it or does neither.
LEMMA SendType ==
  ASSUME MailType, NEW x \in Ptr, NEW p \in Port, NEW limited, NEW r,
         XportSend(x, p, limited, r)
  PROVE  MailType'
<1> DEFINE msg == [to |-> p, no |-> sent[p] + 1]
           a == mem[x]
<1>1. msg \in Message
  BY DEF MailType, Message
<1>2. /\ sent' \in [Port -> Nat]
      /\ UNCHANGED <<open, blocked, resume_evt, blocks, lost>>
  BY DEF XportSend, Accept, MailType
<1>3. \/ PutTxQ(x, msg, limited, r) /\ UNCHANGED <<wire, waiter>>
      \/ TrySend(x, msg, limited, r)
  BY Zenon DEF XportSend
<1> HIDE DEF msg
<1>4. \/ PutTxQ(x, msg, limited, r) /\ UNCHANGED wire
         /\ waiter' \subseteq waiter \cup blocked
      \/ wire' = [wire EXCEPT ![a] = Append(@, msg)] /\ UNCHANGED <<tx_q, waiter>>
      \/ UNCHANGED <<tx_q, waiter, wire>>
  BY <1>3 DEF TrySend
<1>5. [wire EXCEPT ![a] = Append(@, msg)] \in [Port -> Seq(Message)]
  <2>1. a \in Port => Append(wire[a], msg) \in Seq(Message)
    BY <1>1 DEF MailType
  <2> QED BY <2>1 DEF MailType
<1>6. /\ tx_q' \in Seq(Destination) /\ waiter' \subseteq blocked
      /\ wire' \in [Port -> Seq(Message)]
  BY <1>1, <1>4, <1>5, PutType DEF MailType
<1> QED BY <1>2, <1>6 DEF MailType

\* purge_tx_q and purge_dest_s drop messages.
LEMMA PurgeType ==
  ASSUME MailType, NEW m, NEW a
  PROVE  /\ PurgeTxQ(m, a) =>
              tx_q' \in Seq(Destination) /\ lost' \subseteq Message
         /\ PurgeAll => tx_q' \in Seq(Destination) /\ lost' \subseteq Message
<1>0. tx_q \in Seq(Destination) /\ lost \subseteq Message
  BY DEF MailType
<1>1. ASSUME PurgeTxQ(m, a)
      PROVE  tx_q' \in Seq(Destination) /\ lost' \subseteq Message
  <2> DEFINE i == FindTxQ(m, a)
  <2>1. i = 0 \/ i \in 1..Len(tx_q)
    BY <1>0, FoundPlace
  <2>2. \/ i = 0 /\ UNCHANGED <<tx_q, lost>>
        \/ /\ i # 0 /\ tx_q' = Without(tx_q, i)
           /\ lost' = lost \cup Elems(tx_q[i].bufs)
    BY <1>1 DEF PurgeTxQ
  <2> HIDE DEF i
  <2>3. CASE i \in 1..Len(tx_q) /\ i # 0
    <3>1. tx_q[i] \in Destination /\ Elems(tx_q[i].bufs) \subseteq Message
      BY <1>0, <2>3, AtPlace
    <3>2. Without(tx_q, i) \in Seq(Destination)
      BY <1>0, <2>3, <3>1, PlaceType
    <3> QED BY <1>0, <2>2, <2>3, <3>1, <3>2
  <2> QED BY <1>0, <2>1, <2>2, <2>3
<1>2. ASSUME PurgeAll
      PROVE  tx_q' \in Seq(Destination) /\ lost' \subseteq Message
  <2>1. \A i \in 1..Len(tx_q) : Elems(tx_q[i].bufs) \subseteq Message
    BY <1>0, AtPlace
  <2>2. tx_q' = <<>> /\ <<>> \in Seq(Destination)
    BY <1>2 DEF PurgeAll
  <2> QED BY <1>0, <1>2, <2>1, <2>2 DEF PurgeAll
<1> QED BY <1>1, <1>2

\* What is picked from a queue of messages is one.
LEMMA PickType ==
  ASSUME NEW q \in Seq(Message), NEW k \in 0..Len(q), NEW D \in SUBSET (1..k),
         NEW f \in InTurn((1..k) \ D)
  PROVE  Pick(q, f) \in Seq(Message)
<1> DEFINE S == (1..k) \ D
           c == Cardinality(S)
<1>1. c \in Nat
  <2>1. k \in Nat /\ IsFiniteSet(1..k)
    BY FS_Interval
  <2>2. IsFiniteSet(S)
    BY <2>1, FS_Subset
  <2> QED BY <2>2, FS_CardinalityType
<1>2. DOMAIN f = 1..c /\ \A j \in 1..c : f[j] \in S
  BY DEF InTurn
<1>3. \A j \in S : q[j] \in Message
  OBVIOUS
<1> HIDE DEF S, c
<1>4. Pick(q, f) \in [1..c -> Message]
  BY <1>2, <1>3 DEF Pick
<1> QED BY <1>1, <1>4

\* handle_resume_tx shortens one queue.
LEMMA ResumeType ==
  ASSUME MailType, NEW a, NEW tell \in BOOLEAN, HandleResumeTx(a, tell),
         resume_evt' \subseteq resume_evt, UNCHANGED <<open, sent>>
  PROVE  MailType'
<1> DEFINE i == FindTxQ(mem', a)
<1>0. /\ tx_q \in Seq(Destination) /\ lost \subseteq Message
      /\ wire \in [Port -> Seq(Message)]
      /\ open \subseteq Port /\ blocked \subseteq open /\ waiter \subseteq blocked
      /\ blocks \in 0..MaxBlocks /\ MaxBlocks \in Nat
  BY XportAssumption DEF MailType
<1>1. i = 0 \/ i \in 1..Len(tx_q)
  BY <1>0, FoundPlace
<1>2. CASE i = 0
  BY <1>2 DEF HandleResumeTx, MailType
<1>3. CASE i # 0
  <2>1. ResumeQueue(i, tell) /\ i \in 1..Len(tx_q)
    BY <1>1, <1>3 DEF HandleResumeTx
  <2> HIDE DEF i
  <2> DEFINE d == tx_q[i]
             b == mem'[d.dest_addr]
  <2>2. PICK k \in 0..Len(tx_q[i].bufs) :
        \E D \in SUBSET (1..k) : \E f \in InTurn((1..k) \ D) :
          /\ Progress(i, k)
          /\ wire' = [wire EXCEPT ![b] = @ \o Pick(d.bufs, f)]
          /\ lost' = lost \cup {d.bufs[j] : j \in D}
          /\ tx_q' = IF Remaining(i, k) = <<>> THEN Without(tx_q, i)
                     ELSE [tx_q EXCEPT ![i] =
                             [dest_addr |-> d.dest_addr,
                              bufs |-> Remaining(i, k),
                              dest_busy |-> d.dest_busy /\ ~tell]]
    BY <2>1, Zenon DEF ResumeQueue
  <2>13. PICK D \in SUBSET (1..k) : \E f \in InTurn((1..k) \ D) :
          /\ Progress(i, k)
          /\ wire' = [wire EXCEPT ![b] = @ \o Pick(d.bufs, f)]
          /\ lost' = lost \cup {d.bufs[j] : j \in D}
          /\ tx_q' = IF Remaining(i, k) = <<>> THEN Without(tx_q, i)
                     ELSE [tx_q EXCEPT ![i] =
                             [dest_addr |-> d.dest_addr,
                              bufs |-> Remaining(i, k),
                              dest_busy |-> d.dest_busy /\ ~tell]]
    BY <2>2, Zenon
  <2>3. PICK f \in InTurn((1..k) \ D) :
          /\ Progress(i, k)
          /\ wire' = [wire EXCEPT ![b] = @ \o Pick(d.bufs, f)]
          /\ lost' = lost \cup {d.bufs[j] : j \in D}
          /\ tx_q' = IF Remaining(i, k) = <<>> THEN Without(tx_q, i)
                     ELSE [tx_q EXCEPT ![i] =
                             [dest_addr |-> d.dest_addr,
                              bufs |-> Remaining(i, k),
                              dest_busy |-> d.dest_busy /\ ~tell]]
    BY <2>13, Zenon
  <2>4. /\ d \in Destination /\ d.dest_addr \in Ptr /\ d.dest_busy \in BOOLEAN
        /\ d.bufs \in Seq(Message)
    BY <1>0, <2>1, AtPlace
  <2>5. Remaining(i, k) \in Seq(Message)
    BY <2>4 DEF Remaining
  <2> DEFINE e == [dest_addr |-> d.dest_addr, bufs |-> Remaining(i, k),
                   dest_busy |-> d.dest_busy /\ ~tell]
  <2>6. e \in Destination
    BY <2>4, <2>5 DEF Destination
  <2>7. tx_q' = Without(tx_q, i) \/ tx_q' = [tx_q EXCEPT ![i] = e]
    BY <2>3, Zenon
  <2> HIDE DEF e
  <2>8. tx_q' \in Seq(Destination)
    BY <1>0, <2>1, <2>6, <2>7, PlaceType
  <2>9. Pick(d.bufs, f) \in Seq(Message)
    BY <2>3, <2>4, PickType
  <2>10. lost' \subseteq Message
    <3>1. \A j \in D : d.bufs[j] \in Message
      BY <2>3, <2>4
    <3> QED BY <1>0, <2>3, <3>1
  <2>11. wire' \in [Port -> Seq(Message)]
    <3> DEFINE g == Pick(d.bufs, f)
    <3>1. wire' = [wire EXCEPT ![b] = @ \o g] /\ g \in Seq(Message)
      BY <2>3, <2>9
    <3> HIDE DEF d, b, g
    <3>2. b \in Port => wire[b] \o g \in Seq(Message)
      BY <1>0, <3>1
    <3> QED BY <1>0, <3>1, <3>2
  <2>12. /\ blocked' \subseteq open /\ waiter' \subseteq blocked'
         /\ blocks' \in 0..MaxBlocks
    BY <1>0, <2>3, Zenon, SMT DEF Progress
  <2> QED BY <2>8, <2>10, <2>11, <2>12 DEF MailType
<1> QED BY <1>2, <1>3

------------------------------------------------------------------------------
(* Types: the steps.                                                       *)

\* The transport is left alone, but for the event loop's variable.
LEMMA MailStill ==
  ASSUME MailType, UNCHANGED <<tx_q, port, sent, wire, lost>>
  PROVE  MailType'
BY DEF MailType, port

\* The event thread works on the packet of a client, and messages are for
\* clients.
LEMMA Addressed ==
  ASSUME TypeInv
  PROVE  /\ Loop \in Ptr /\ Slot \subseteq Ptr /\ Listed \subseteq Slot
         /\ ev \in {"connect_cb", "process", "bail"} => mem[Loop] \in Port
         /\ \A s \in Listed : mem[s] \in Port
         /\ \A t \in txn_list : t.req[1] \in Port /\ t.client \in Slot
<1>1. ev \in {"connect_cb", "process", "bail"} => mem[Loop] \in Port
  <2>1. ASSUME Current \in Request PROVE mem[Loop] \in Port
    BY <2>1 DEF Current, Request
  <2> QED BY <2>1 DEF TypeInv, SessInv, SessPart, CurrentPart
<1>2. \A s \in Live : mem[s] \in Port
  BY DEF TypeInv, SessInv, SessPart, SessType
<1> QED BY <1>1, <1>2, Sessioned, Memory DEF TypeInv, SessInv

\* What the workers and failed requests send.
LEMMA SendMails ==
  ASSUME TypeInv,
         \/ Bail \/ BroadcastStep
         \/ \E t \in txn_list : SendResp(t)
         \/ \E s \in Slot : SendInd(s)
  PROVE  MailType'
<1>0. MailType
  BY DEF TypeInv
<1>1. CASE Bail
  <2>1. PICK rc \in {"ok", "busy", "err"} : XportSend(Loop, mem[Loop], FALSE, rc)
    BY <1>1 DEF Bail
  <2>2. Loop \in Ptr /\ mem[Loop] \in Port
    BY <1>1, Addressed DEF Bail
  <2> QED BY <1>0, <2>1, <2>2, SendType
<1>2. CASE BroadcastStep
  <2>1. PICK rc \in {"ok", "busy", "err"} :
               XportSend(Head(bcast), mem[Head(bcast)], TRUE, rc)
    BY <1>2 DEF BroadcastStep
  <2>2. Head(bcast) \in Listed
    BY <1>2 DEF BroadcastStep, TypeInv, EventType, Elems
  <2>3. Head(bcast) \in Ptr /\ mem[Head(bcast)] \in Port
    BY <2>2, Addressed
  <2> QED BY <1>0, <2>1, <2>3, SendType
<1>3. ASSUME NEW t \in txn_list, SendResp(t) PROVE MailType'
  <2>1. PICK rc \in {"ok", "busy", "err"} :
               XportSend(t.client, t.req[1], FALSE, rc)
    BY <1>3 DEF SendResp
  <2>2. t.client \in Ptr /\ t.req[1] \in Port
    BY Addressed
  <2> QED BY <1>0, <2>1, <2>2, SendType
<1>4. ASSUME NEW s \in Slot, SendInd(s) PROVE MailType'
  <2>1. PICK rc \in {"ok", "busy", "err"} : XportSend(s, mem[s], TRUE, rc)
    BY <1>4 DEF SendInd, Indicate
  <2>2. s \in Ptr /\ mem[s] \in Port
    BY <1>4, Addressed DEF SendInd
  <2> QED BY <1>0, <2>1, <2>2, SendType
<1> QED BY <1>1, <1>2, <1>3, <1>4

\* Every step keeps the types of the transport.
LEMMA MailStep ==
  ASSUME TypeInv, [Next]_vars
  PROVE  MailType'
<1>0. /\ MailType /\ open \subseteq Port /\ resume_evt \subseteq Port
      /\ blocked \subseteq open /\ waiter \subseteq blocked
      /\ blocks \in 0..MaxBlocks /\ MaxBlocks \in Nat
  BY XportAssumption DEF TypeInv, MailType
<1>1. ASSUME NEW p \in Port, Receive(p) PROVE MailType'
  BY <1>0, <1>1, MailStill DEF Receive
<1>2. ASSUME NEW p \in Port, DelClient(p) PROVE MailType'
  BY <1>0, <1>2, PurgeType DEF DelClient, MailType, port
<1>3. ASSUME NEW p \in Port, ByeClient(p) PROVE MailType'
  BY <1>0, <1>3, PurgeType DEF ByeClient, MailType, port
<1>4. ASSUME NEW p \in Port, ResumeTx(p) PROVE MailType'
  <2>1. PICK tell \in BOOLEAN : HandleResumeTx(p, tell)
    BY <1>4 DEF ResumeTx
  <2>2. resume_evt' \subseteq resume_evt /\ UNCHANGED <<open, sent>>
    BY <1>4 DEF ResumeTx
  <2> QED BY <1>0, <2>1, <2>2, ResumeType
<1>5. ASSUME NEW s \in Slot, ConnectAccept(s) \/ ConnectRefuse(s)
      PROVE  MailType'
  BY <1>0, <1>5, MailStill DEF ConnectAccept, ConnectRefuse, xvars
<1>6. CASE Served \/ Reject \/ ByeDone \/ Disconnect \/ DisconnectFree \/ ResumeCb
  BY <1>0, <1>6, MailStill DEF Served, Reject, ByeDone, Disconnect,
     DisconnectFree, ResumeCb, xvars
<1>7. CASE Bye
  BY <1>0, <1>7, MailStill DEF Bye
<1>8. CASE NetReset \/ Unregister
  BY <1>0, <1>8, PurgeType DEF NetReset, Unregister, MailType, port
<1>9. CASE XportClosed
  <2>1. PurgeAll /\ UNCHANGED <<port, sent, wire>>
    BY <1>9 DEF XportClosed, PurgeAll
  <2> QED BY <1>0, <2>1, PurgeType DEF MailType, port
<1>10. CASE Broadcast \/ \E t \in txn_list : SendRespFails(t)
  BY <1>0, <1>10, MailStill DEF Broadcast, SendRespFails, xvars
<1>11. ASSUME NEW p \in Port, Ask(p) \/ CloseClient(p) \/ Kernel(p)
       PROVE  MailType'
  <2>1. CASE Ask(p)
    BY <1>0, <2>1, MailStill DEF Ask, xvars
  <2>2. CASE CloseClient(p)
    BY <1>0, <2>2 DEF CloseClient, Vanish, MailType
  <2>3. CASE Kernel(p) /\ Block(p)
    <3>1. blocks' \in 0..MaxBlocks
      BY <1>0, <2>3 DEF Block
    <3> QED BY <1>0, <2>3, <3>1 DEF Block, MailType
  <2>4. CASE Kernel(p) /\ Unblock(p)
    BY <1>0, <2>4 DEF Unblock, MailType
  <2> QED BY <1>11, <2>1, <2>2, <2>3, <2>4 DEF Kernel
<1>12. CASE LoseNode
  BY <1>0, <1>12 DEF LoseNode, Vanish, MailType
<1>13. CASE UNCHANGED vars
  BY <1>0, <1>13, MailStill DEF vars, xvars
<1> QED BY <1>1, <1>2, <1>3, <1>4, <1>5, <1>6, <1>7, <1>8, <1>9, <1>10, <1>11,
           <1>12, <1>13, SendMails
        DEF Next, EventThread, Workers, World, Rest

\* The client list changes only while no broadcast walks it.
LEMMA ListedKept ==
  ASSUME TypeInv, bcast' = bcast, client_list' = client_list \/ bcast = <<>>
  PROVE  bcast' \in Seq(Slot) /\ Elems(bcast') \subseteq Listed'
<1>1. CASE client_list' = client_list
  BY <1>1 DEF TypeInv, EventType, Listed
<1>2. CASE bcast = <<>>
  BY <1>2 DEF TypeInv, EventType, Elems
<1> QED BY <1>1, <1>2

\* Every step keeps the types of the event thread and of the world.
LEMMA EventStep ==
  ASSUME TypeInv, [Next]_vars
  PROVE  EventType'
<1>0. /\ EventType /\ ev \in Events /\ peer \in Port \cup {NoPort}
      /\ walking \in BOOLEAN /\ conn_cli \subseteq Port
      /\ del_evt \subseteq Port /\ bye_evt \in BOOLEAN /\ told_busy \subseteq Slot
  BY DEF TypeInv, EventType
<1>00. /\ bcast \in Seq(Slot) /\ Elems(bcast) \subseteq Listed
       /\ client_list \in Seq(Slot) /\ Listed \subseteq Slot
       /\ ev \in {"process", "bail"} => mem[Loop] \in Port
  BY Addressed DEF TypeInv, EventType, SessInv, OwnInv, OwnType
<1> USE DEF Events, Goto, ClientListFree, tables, world
<1>1. ASSUME NEW p \in Port, Receive(p) PROVE EventType'
  <2>1. UNCHANGED <<peer, walking, conn_cli, del_evt, bye_evt, told_busy, bcast>>
    BY <1>1 DEF Receive, StartRequest, CreateClient
  <2>2. ev' \in Events
    BY <1>1 DEF Receive, StartRequest, CreateClient
  <2>3. client_list' = client_list \/ bcast = <<>>
    BY <1>1 DEF Receive
  <2> QED BY <1>0, <2>1, <2>2, <2>3, ListedKept DEF EventType
<1>2. ASSUME NEW p \in Port, DelClient(p) \/ ByeClient(p) \/ ResumeTx(p)
      PROVE  EventType'
  <2>1. bcast' = bcast /\ client_list' = client_list
    BY <1>2 DEF DelClient, ByeClient, ResumeTx
  <2> QED BY <1>0, <1>2, <2>1, ListedKept
          DEF DelClient, ByeClient, ResumeTx, EventType
<1>3. ASSUME NEW s \in Slot, ConnectAccept(s) \/ ConnectRefuse(s)
      PROVE  EventType'
  <2>1. bcast' = bcast /\ bcast = <<>>
    BY <1>3 DEF ConnectAccept, ConnectRefuse
  <2> QED BY <1>0, <1>3, <2>1, ListedKept
          DEF ConnectAccept, ConnectRefuse, StartRequest, Drop, EventType
<1>4. CASE Served \/ Reject \/ Bail \/ Bye \/ ByeDone \/ ResumeCb
  <2>1. bcast' = bcast /\ client_list' = client_list
    BY <1>4 DEF Served, Reject, Bail, Bye, ByeDone, ResumeCb
  <2> QED BY <1>0, <1>00, <1>4, <2>1, ListedKept
          DEF Served, Reject, Bail, Bye, ByeDone, ResumeCb, PacketDone, EventType
<1>5. CASE Disconnect
  <2>1. bcast' = bcast /\ bcast = <<>>
    BY <1>5 DEF Disconnect
  <2> QED BY <1>0, <1>5, <2>1, ListedKept DEF Disconnect, PeerDone, EventType
<1>6. CASE DisconnectFree
  <2>1. bcast' = bcast /\ client_list' = client_list
    BY <1>6 DEF DisconnectFree
  <2> QED BY <1>0, <1>6, <2>1, ListedKept
          DEF DisconnectFree, PeerDone, Drop, EventType
<1>7. CASE XportClosed
  <2>1. bcast' = bcast /\ bcast = <<>>
    BY <1>7 DEF XportClosed
  <2> QED BY <1>0, <1>7, <2>1, ListedKept DEF XportClosed, EventType
<1>8. CASE NetReset \/ Unregister
  <2>1. bcast' = bcast /\ client_list' = client_list
    BY <1>8 DEF NetReset, Unregister
  <2> QED BY <1>0, <1>8, <2>1, ListedKept DEF NetReset, Unregister, EventType
<1>9. ASSUME NEW t \in txn_list, SendResp(t) \/ SendRespFails(t)
      PROVE  EventType'
  <2>1. bcast' = bcast /\ client_list' = client_list
    BY <1>9 DEF SendResp, SendRespFails
  <2> QED BY <1>0, <1>9, <2>1, ListedKept
          DEF SendResp, SendRespFails, thread, EventType
<1>10. ASSUME NEW s \in Slot, SendInd(s) PROVE EventType'
  <2>1. bcast' = bcast /\ client_list' = client_list
    BY <1>10 DEF SendInd
  <2> QED BY <1>0, <1>10, <2>1, ListedKept
          DEF SendInd, Indicate, thread, EventType
<1>11. CASE Broadcast
  <2>1. bcast' = client_list /\ Elems(bcast') = Listed /\ Listed' = Listed
    BY <1>11 DEF Broadcast, Listed
  <2> QED BY <1>0, <1>00, <1>11, <2>1 DEF Broadcast, thread, EventType
<1>12. CASE BroadcastStep
  <2>1. bcast # <<>> /\ bcast' = Tail(bcast) /\ Listed' = Listed
    BY <1>12 DEF BroadcastStep, Listed
  <2>2. bcast' \in Seq(Slot) /\ Elems(bcast') \subseteq Elems(bcast)
    BY <1>00, <2>1 DEF Elems
  <2> QED BY <1>0, <1>00, <1>12, <2>1, <2>2 DEF BroadcastStep, thread, EventType
<1>13. CASE World \/ UNCHANGED vars
  <2>1. /\ UNCHANGED <<thread, told_busy, bcast, client_list>>
        /\ del_evt' \subseteq Port /\ bye_evt' \in BOOLEAN
    BY <1>0, <1>13 DEF World, Ask, CloseClient, LoseNode, Kernel, KeepService,
       vars
  <2> QED BY <1>0, <2>1, ListedKept DEF thread, EventType
<1> QED BY <1>1, <1>2, <1>3, <1>4, <1>5, <1>6, <1>7, <1>8, <1>9, <1>10, <1>11,
           <1>12, <1>13
        DEF Next, EventThread, Workers, Rest

\* The library and the transport keep to their types for any clients, requests
\* and queue limits, whichever events can happen, stray responses included: a
\* broadcast has only listed clients ahead, a queue only messages, the kernel
\* owes a resume event only for a port that is open and flow controlled.
THEOREM ServiceTypes == Spec => []TypeOK
<1>1. Init => TypeInv
  <2> SUFFICES ASSUME Init PROVE TypeInv
    OBVIOUS
  <2>1. MailType
    BY XportAssumption DEF Init, InitXport, MailType
  <2>2. EventType
    <3>1. Elems(<<>>) = {} /\ <<>> \in Seq(Slot)
      BY DEF Elems
    <3> QED BY <3>1 DEF Init, EventType, Events
  <2> QED BY <2>1, <2>2, SessInit DEF TypeInv
<1>2. TypeInv /\ [Next]_vars => TypeInv'
  BY OwnStep, SessStep, MailStep, EventStep DEF TypeInv, SessInv
<1>3. TypeInv => TypeOK
  <2> SUFFICES ASSUME TypeInv PROVE TypeOK
    OBVIOUS
  <2>1. OwnType /\ SessType /\ connected \subseteq Slot
    BY Addressed DEF TypeInv, SessInv, OwnInv, SessPart, AcceptedPart
  <2> QED BY <2>1
          DEF OwnType, SessType, Fates, TypeInv, MailType, EventType,
              Destination, TypeOK
<1> QED BY <1>1, <1>2, <1>3, PTL DEF Spec
=============================================================================
