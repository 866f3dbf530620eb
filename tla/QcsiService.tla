----------------------------- MODULE QcsiService -----------------------------
(***************************************************************************)
(* One registered QMI service: the client and transaction tables of        *)
(* qmi-framework/qcsi/src/qmi_csi_common.c on top of its transport         *)
(* (QcsiXport).  The service's event thread reads the socket and runs the  *)
(* callbacks; any other thread of the service may answer requests, send    *)
(* indications and broadcast at any time.                                  *)
(*                                                                         *)
(* client_list_lock is held across steps in two places only: while a       *)
(* client is disconnected (ev = "del_free") and during a broadcast         *)
(* (bcast # <<>>); txn_list_lock and tx_q_lock never are.                  *)
(***************************************************************************)
EXTENDS QcsiXport

CONSTANTS Remote,   \* the ports of a remote node, which can be lost
          MaxReq,   \* how many requests a client sends
          MaxMsgs   \* indications are sent while fewer messages were accepted

ASSUME ServiceAssumption ==
  /\ Remote \subseteq Port
  /\ MaxReq \in Nat /\ MaxMsgs \in Nat
  /\ Env \subseteq {"block", "send_err", "ind", "broadcast", "malformed",
                    "refuse", "reject", "encode_err", "del", "bye", "reset",
                    "reuse", "unregister"}

Request == Port \X (1..MaxReq)

VARIABLES
  ev,          \* where the event thread is
  peer,        \* the client address it is disconnecting
  walking,     \* it walks its clients because of a BYE
  conn_cli,    \* the transport's list of clients
  client_list, \* client objects of the service, oldest first
  obj,         \* the state of each client object's memory
  txn_list,    \* transactions: request and client object
  bcast,       \* clients a broadcast has still to reach
  \* what clients and nodes do
  asked, taken, \* requests sent, and read by the service
  del_evt,      \* DEL_CLIENT packets not yet read
  bye_evt,      \* a BYE packet not yet read
  \* what the service was told, and history
  connected,   \* clients it accepted and was not told to have left
  told_busy,   \* clients whose indication was refused with CONN_BUSY
  fate         \* what became of each request

tables == <<client_list, obj, txn_list>>
world  == <<asked, taken, del_evt, bye_evt>>
thread == <<ev, peer, walking, conn_cli>>
vars   == <<xvars, tables, world, thread, bcast, connected, told_busy, fate>>

Events == {"poll", "connect_cb", "process", "bail", "del", "del_free", "bye",
           "resume_cb", "closing", "closed"}

Init ==
  /\ InitXport
  /\ ev = "poll" /\ peer = NoPort /\ walking = FALSE /\ conn_cli = {}
  /\ client_list = <<>> /\ txn_list = {} /\ bcast = <<>>
  /\ obj = [s \in Slot |-> "unused"]
  /\ asked = [p \in Port |-> 0] /\ taken = [p \in Port |-> 0]
  /\ del_evt = {} /\ bye_evt = FALSE
  /\ connected = {} /\ told_busy = {}
  /\ fate = [r \in Request |-> "none"]

Listed == Elems(client_list)
Unlisted(s) ==
  Without(client_list, CHOOSE i \in 1..Len(client_list) : client_list[i] = s)

\* find_client_by_addr.
ClientsAt(a) == {s \in Listed : mem[s] = a}

ClientListFree == bcast = <<>> /\ ev # "del_free"

\* The request the event thread is working on.
Current == <<mem[Loop], taken[mem[Loop]]>>

ReadFrom(a) == mem' = [mem EXCEPT ![Loop] = a]
Goto(where) == ev' = where /\ UNCHANGED <<peer, walking, conn_cli>>

\* Fault: the new client becomes the whole list.
PacketDone_Overwrite ==
  /\ ev' = "poll"
  /\ conn_cli' = {mem[Loop]}
  /\ UNCHANGED <<peer, walking>>

\* Back in the event loop after a packet of a client: add_conn_cli.
PacketDone ==
  /\ ev' = "poll"
  /\ conn_cli' = conn_cli \cup {mem[Loop]}
  /\ UNCHANGED <<peer, walking>>

Drop(s) == /\ obj' = [obj EXCEPT ![s] = "free"]
           /\ told_busy' = told_busy \ {s}

AfterAnswer(r, rc) ==
  fate' = [fate EXCEPT ![r] =
             IF rc = "ok" THEN IF @ = "answered" THEN "twice" ELSE "answered"
             ELSE IF @ = "none" THEN "failed" ELSE @]

------------------------------------------------------------------------------
(* A request arrives: qmi_csi_xport_recv and qmi_csi_xport_connect.        *)

\* get_txn, and the handle goes to the callbacks.
StartRequest(s, r) ==
  /\ txn_list' = txn_list \cup {[req |-> r, client |-> s]}
  /\ Goto("process")

\* Memory that malloc may give out for a client object.
Allocatable(s) == obj[s] = "unused" \/ ("reuse" \in Env /\ obj[s] = "free")

\* create_client, which lists the client before connect_cb is asked.
CreateClient(s, p) ==
  /\ Allocatable(s)
  /\ client_list' = Append(client_list, s)
  /\ obj' = [obj EXCEPT ![s] = "live"]
  /\ mem' = [mem EXCEPT ![Loop] = p, ![s] = p]
  /\ Goto("connect_cb")

Receive(p) ==
  /\ ev = "poll" /\ taken[p] < asked[p]
  /\ taken' = [taken EXCEPT ![p] = @ + 1]
  /\ \/ /\ ClientListFree
        /\ \E s \in ClientsAt(p) : StartRequest(s, <<p, taken'[p]>>)
        /\ ReadFrom(p)
        /\ UNCHANGED <<client_list, obj>>
     \/ /\ ClientListFree
        /\ ClientsAt(p) = {}
        /\ \E s \in Slot : CreateClient(s, p)
        /\ UNCHANGED txn_list
     \/ /\ "malformed" \in Env
        /\ ReadFrom(p)
        /\ Goto("bail")
        /\ UNCHANGED tables
  /\ UNCHANGED <<tx_q, port, sent, wire, lost, asked, del_evt, bye_evt, bcast,
                 connected, told_busy, fate>>

\* connect_cb accepts, and qmi_csi_xport_recv goes on with the request.
ConnectAccept(s) ==
  /\ ev = "connect_cb" /\ ClientListFree
  /\ s \in ClientsAt(mem[Loop])
  /\ connected' = connected \cup {s}
  /\ StartRequest(s, Current)
  /\ UNCHANGED <<xvars, client_list, obj, world, bcast, told_busy, fate>>

\* connect_cb refuses: the client is unlisted and freed.
ConnectRefuse(s) ==
  /\ "refuse" \in Env
  /\ ev = "connect_cb" /\ ClientListFree
  /\ s \in ClientsAt(mem[Loop])
  /\ client_list' = Unlisted(s)
  /\ Drop(s)
  /\ Goto("bail")
  /\ UNCHANGED <<xvars, txn_list, world, bcast, connected, fate>>

\* The callback took the request.
Served ==
  /\ ev = "process"
  /\ PacketDone
  /\ UNCHANGED <<xvars, tables, world, bcast, connected, told_busy, fate>>

\* The request cannot be decoded, or the callback fails without having
\* answered (rx_cb_free_txn_bail).
Reject ==
  /\ "reject" \in Env
  /\ ev = "process" /\ fate[Current] # "answered"
  /\ txn_list' = {t \in txn_list : t.req # Current}
  /\ Goto("bail")
  /\ UNCHANGED <<xvars, client_list, obj, world, bcast, connected, told_busy,
                 fate>>

\* encode_and_send_resp, to the address of the event loop's variable.
Bail ==
  /\ ev = "bail"
  /\ \E rc \in {"ok", "busy", "err"} :
       /\ XportSend(Loop, mem[Loop], FALSE, rc)
       /\ AfterAnswer(Current, rc)
  /\ PacketDone
  /\ UNCHANGED <<tables, world, bcast, connected, told_busy>>

------------------------------------------------------------------------------
(* A client is gone: DEL_CLIENT, BYE, qmi_csi_xport_disconnect.            *)

DelClient(p) ==
  /\ ev = "poll" /\ p \in del_evt /\ taken[p] = asked[p]
  /\ del_evt' = del_evt \ {p}
  /\ ReadFrom(p)
  /\ PurgeTxQ(mem', p)
  /\ ev' = "del" /\ peer' = p
  /\ UNCHANGED <<port, sent, wire, tables, asked, taken, bye_evt, walking,
                 conn_cli, bcast, connected, told_busy, fate>>

\* BYE of the remote node: what follows is repeated for each of its clients.
Bye ==
  /\ ev = "poll" /\ bye_evt /\ \A p \in Remote : taken[p] = asked[p]
  /\ bye_evt' = FALSE
  /\ ReadFrom(NoPort)
  /\ ev' = "bye" /\ walking' = TRUE
  /\ UNCHANGED <<tx_q, port, sent, wire, lost, tables, asked, taken, del_evt,
                 peer, conn_cli, bcast, connected, told_busy, fate>>

\* Fault: the queue is purged, but the library is not told.
ByeClient_PurgeOnly(p) ==
  /\ ev = "bye" /\ p \in conn_cli \cap Remote
  /\ PurgeTxQ(mem, p)
  /\ conn_cli' = conn_cli \ {p}
  /\ UNCHANGED <<mem, port, sent, wire, tables, world, ev, peer, walking,
                 bcast, connected, told_busy, fate>>

ByeClient(p) ==
  /\ ev = "bye" /\ p \in conn_cli \cap Remote
  /\ PurgeTxQ(mem, p)
  /\ ev' = "del" /\ peer' = p
  /\ UNCHANGED <<mem, port, sent, wire, tables, world, walking, conn_cli,
                 bcast, connected, told_busy, fate>>

ByeDone ==
  /\ ev = "bye" /\ conn_cli \cap Remote = {}
  /\ ev' = "poll" /\ walking' = FALSE
  /\ UNCHANGED <<xvars, tables, world, peer, conn_cli, bcast, connected,
                 told_busy, fate>>

PeerDone ==
  /\ ev' = IF walking THEN "bye" ELSE "poll"
  /\ peer' = NoPort
  /\ conn_cli' = conn_cli \ {peer}
  /\ UNCHANGED walking

\* qmi_csi_xport_disconnect up to the callback: the client is unlisted and
\* the service told, with client_list_lock held.
Disconnect ==
  /\ ev = "del" /\ ClientListFree
  /\ IF ClientsAt(peer) = {}
     THEN PeerDone /\ UNCHANGED <<client_list, connected>>
     ELSE \E s \in ClientsAt(peer) :
            /\ client_list' = Unlisted(s)
            /\ connected' = connected \ {s}
            /\ Goto("del_free")
  /\ UNCHANGED <<xvars, obj, txn_list, world, bcast, told_busy, fate>>

Leaving == {s \in Slot : obj[s] = "live" /\ mem[s] = peer /\ s \notin Listed}

DropTxns(S) ==
  LET cut == {t \in txn_list : t.client \in S} IN
  /\ txn_list' = txn_list \ cut
  /\ fate' = [r \in Request |-> IF \E t \in cut : t.req = r /\ fate[r] = "none"
                                THEN "dropped" ELSE fate[r]]

\* Fault: the transactions of the client stay in the global list.
CleanTxns_Local(s) == UNCHANGED <<txn_list, fate>>

\* clean_txns.
CleanTxns(s) == DropTxns({s})

\* clean_txns and FREE(clnt), then the lock is released.
DisconnectFree ==
  /\ ev = "del_free"
  /\ \E s \in Leaving : CleanTxns(s) /\ Drop(s)
  /\ PeerDone
  /\ UNCHANGED <<xvars, client_list, world, bcast, connected>>

------------------------------------------------------------------------------
(* The rest of xport_handle_event, and the end of the service.             *)

\* A zero-length packet: handle_resume_tx.
ResumeTx(p) ==
  /\ ev = "poll" /\ p \in resume_evt
  /\ ReadFrom(p)
  /\ resume_evt' = resume_evt \ {p}
  /\ \E tell \in BOOLEAN :
       /\ HandleResumeTx(p, tell)
       /\ Goto(IF tell THEN "resume_cb" ELSE "poll")
  /\ UNCHANGED <<open, sent, tables, world, bcast, connected, told_busy, fate>>

\* Fault: the client is looked up among those the transport remembers.
ResumeCb_Unknown ==
  /\ ev = "resume_cb" /\ ClientListFree
  /\ told_busy' = IF mem[Loop] \in conn_cli THEN told_busy
                  ELSE told_busy \ ClientsAt(mem[Loop])
  /\ Goto("poll")
  /\ UNCHANGED <<xvars, tables, world, bcast, connected, fate>>

\* qmi_csi_xport_resume_client.
ResumeCb ==
  /\ ev = "resume_cb" /\ ClientListFree
  /\ told_busy' = told_busy \ ClientsAt(mem[Loop])
  /\ Goto("poll")
  /\ UNCHANGED <<xvars, tables, world, bcast, connected, fate>>

\* ENETRESET: xport_handle_net_reset forgets queues and clients and
\* registers again.
NetReset ==
  /\ "reset" \in Env
  /\ ev = "poll"
  /\ PurgeAll
  /\ conn_cli' = {}
  /\ UNCHANGED <<mem, port, sent, wire, tables, world, ev, peer, walking,
                 bcast, connected, told_busy, fate>>

\* qmi_csi_unregister between two events: xport_close ...
Unregister ==
  /\ "unregister" \in Env
  /\ ev = "poll"
  /\ PurgeAll
  /\ ev' = "closing" /\ conn_cli' = {}
  /\ UNCHANGED <<mem, port, sent, wire, tables, world, peer, walking, bcast,
                 connected, told_busy, fate>>

\* ... and, the socket closed, qmi_csi_xport_closed: all clients of the
\* transport go without a callback.
XportClosed ==
  /\ ev = "closing" /\ ClientListFree
  /\ client_list' = <<>>
  /\ DropTxns(Listed)
  /\ obj' = [s \in Slot |-> IF s \in Listed THEN "free" ELSE obj[s]]
  /\ connected' = {} /\ told_busy' = {}
  /\ tx_q' = <<>>
  /\ lost' = lost \cup UNION {Elems(tx_q[i].bufs) : i \in 1..Len(tx_q)}
  /\ Goto("closed")
  /\ UNCHANGED <<mem, port, sent, wire, world, bcast>>

------------------------------------------------------------------------------
(* The service's threads: qmi_csi_send_resp, qmi_csi_send_ind and          *)
(* qmi_csi_send_broadcast_ind.  A handle that is not found changes nothing.*)

\* Fault: the transaction is looked up but not removed.
SendResp_Keep(t) ==
  /\ t \in txn_list
  /\ \E rc \in {"ok", "busy", "err"} :
       /\ XportSend(t.client, t.req[1], FALSE, rc)
       /\ AfterAnswer(t.req, rc)
  /\ UNCHANGED <<tables, thread, world, bcast, connected, told_busy>>

SendResp(t) ==
  /\ t \in txn_list
  /\ txn_list' = txn_list \ {t}
  /\ \E rc \in {"ok", "busy", "err"} :
       /\ XportSend(t.client, t.req[1], FALSE, rc)
       /\ AfterAnswer(t.req, rc)
  /\ UNCHANGED <<client_list, obj, thread, world, bcast, connected, told_busy>>

\* The response cannot be encoded: the transaction is gone all the same.
SendRespFails(t) ==
  /\ "encode_err" \in Env
  /\ t \in txn_list
  /\ txn_list' = txn_list \ {t}
  /\ AfterAnswer(t.req, "err")
  /\ UNCHANGED <<xvars, client_list, obj, thread, world, bcast, connected,
                 told_busy>>

Indicate(s, rc) ==
  /\ XportSend(s, mem[s], TRUE, rc)
  /\ told_busy' = IF rc = "busy" THEN told_busy \cup {s} ELSE told_busy

Wanted(s) == sent[mem[s]] < MaxMsgs

SendInd(s) ==
  /\ "ind" \in Env
  /\ ClientListFree /\ s \in Listed /\ Wanted(s)
  /\ \E rc \in {"ok", "busy", "err"} : Indicate(s, rc)
  /\ UNCHANGED <<tables, thread, world, bcast, connected, fate>>

\* A broadcast walks the client list with its lock held, ignoring errors.
Broadcast ==
  /\ "broadcast" \in Env
  /\ ClientListFree /\ client_list # <<>> /\ \A s \in Listed : Wanted(s)
  /\ bcast' = client_list
  /\ UNCHANGED <<xvars, tables, thread, world, connected, told_busy, fate>>

BroadcastStep ==
  /\ bcast # <<>>
  /\ \E rc \in {"ok", "busy", "err"} :
       XportSend(Head(bcast), mem[Head(bcast)], TRUE, rc)
  /\ bcast' = Tail(bcast)
  /\ UNCHANGED <<tables, thread, world, connected, told_busy, fate>>

------------------------------------------------------------------------------
(* Clients and nodes.                                                      *)

KeepService == UNCHANGED <<tables, thread, bcast, connected, told_busy, fate>>

Ask(p) ==
  /\ p \in open /\ asked[p] < MaxReq
  /\ asked' = [asked EXCEPT ![p] = @ + 1]
  /\ KeepService
  /\ UNCHANGED <<xvars, taken, del_evt, bye_evt>>

\* The name service tells of it after the last packet of the client.
CloseClient(p) ==
  /\ "del" \in Env
  /\ p \in open /\ asked[p] > 0
  /\ Vanish({p})
  /\ del_evt' = del_evt \cup {p}
  /\ KeepService
  /\ UNCHANGED <<asked, taken, bye_evt>>

LoseNode ==
  /\ "bye" \in Env
  /\ Remote \cap open # {}
  /\ Vanish(Remote)
  /\ bye_evt' = TRUE
  /\ KeepService
  /\ UNCHANGED <<asked, taken, del_evt>>

Kernel(p) ==
  /\ Block(p) \/ Unblock(p)
  /\ KeepService
  /\ UNCHANGED world

------------------------------------------------------------------------------

EventThread ==
  \/ \E p \in Port : Receive(p) \/ DelClient(p) \/ ByeClient(p) \/ ResumeTx(p)
  \/ \E s \in Slot : ConnectAccept(s) \/ ConnectRefuse(s)
  \/ Served \/ Reject \/ Bail \/ Bye \/ ByeDone \/ Disconnect
  \/ DisconnectFree \/ ResumeCb \/ XportClosed

Workers ==
  \/ \E t \in txn_list : SendResp(t) \/ SendRespFails(t)
  \/ \E s \in Slot : SendInd(s)
  \/ Broadcast \/ BroadcastStep

World ==
  \/ \E p \in Port : Ask(p) \/ CloseClient(p) \/ Kernel(p)
  \/ LoseNode

\* Every client has asked what it wanted, or left; or the service closed.
Rest ==
  /\ ev = "closed" \/ (ev = "poll" /\ \A p \in Port : taken[p] = asked[p])
  /\ UNCHANGED vars

Next == EventThread \/ NetReset \/ Unregister \/ Workers \/ World \/ Rest

Spec == Init /\ [][Next]_vars

\* Threads run, callbacks return, a lock that is released again and again is
\* obtained, and a port that is flow controlled drains.
Fairness ==
  /\ SF_vars(EventThread)
  /\ WF_vars(BroadcastStep)
  /\ \A p \in Port : WF_vars(Kernel(p) /\ p \in blocked)

FairSpec == Spec /\ Fairness

------------------------------------------------------------------------------
(* Properties.                                                             *)

\* Types of the library's and the transport's state.
TypeOK ==
  /\ mem \in [Ptr -> Port \cup {NoPort}]
  /\ tx_q \in Seq([dest_addr : Ptr, bufs : Seq(Message), dest_busy : BOOLEAN])
  /\ open \subseteq Port /\ resume_evt \subseteq Port
  /\ blocked \subseteq open /\ waiter \subseteq blocked
  /\ blocks \in 0..MaxBlocks
  /\ sent \in [Port -> Nat] /\ wire \in [Port -> Seq(Message)]
  /\ lost \subseteq Message
  /\ ev \in Events /\ peer \in Port \cup {NoPort} /\ walking \in BOOLEAN
  /\ conn_cli \subseteq Port
  /\ client_list \in Seq(Slot) /\ bcast \in Seq(Slot)
  /\ obj \in [Slot -> {"unused", "live", "free"}]
  /\ txn_list \subseteq [req : Request, client : Slot]
  /\ asked \in [Port -> 0..MaxReq] /\ taken \in [Port -> 0..MaxReq]
  /\ del_evt \subseteq Port /\ bye_evt \in BOOLEAN
  /\ connected \subseteq Slot /\ told_busy \subseteq Slot
  /\ fate \in [Request -> {"none", "answered", "twice", "failed", "dropped"}]

\* Every transaction in the list belongs to a client object that is alive,
\* and to the client that sent the request ("as long as we hold the
\* txn_list_lock, the client, service, and xport ptrs will be valid").
TxnsOwned ==
  \A t \in txn_list :
    /\ obj[t.client] = "live"
    /\ mem[t.client] = t.req[1]
    /\ t.client \in Listed \/ ev = "del_free"

\* A message reaches no other client than the one it is meant for, wherever
\* it waited (the address of send identifies a client).
NoStray ==
  \A p \in Port : \A m \in Elems(wire[p]) : m.to = p

Numbers(s) == [i \in 1..Len(s) |-> s[i].no]
Ascending(s) == \A i, j \in 1..Len(s) : i < j => s[i] < s[j]
QueueFor(p) == LET i == FindTxQ(mem, p)
               IN  IF i = 0 THEN <<>> ELSE tx_q[i].bufs

\* A client gets its messages in the order in which the service sent them,
\* directly or through the queue ("so that it doesn't go out of order").
InOrder ==
  \A p \in Port : Ascending(Numbers(wire[p] \o QueueFor(p)))

\* Every accepted message is sent, waits, or was dropped for a reason: its
\* transmission failed, its client is gone or the queues were reset.
NothingLost ==
  \A p \in Port :
    LET all == [to : {p}, no : 1..sent[p]]
        kept == Elems(wire[p]) \cup Elems(QueueFor(p))
    IN  /\ all = kept \cup (lost \cap all)
        /\ kept \cap lost = {}
        /\ (p \in open /\ "send_err" \notin Env) => kept = all

\* A destination is never empty, and while its client lives the kernel owes
\* the socket a resume event for it: nothing waits for ever.
QueueIsTended ==
  \A i \in 1..Len(tx_q) :
    /\ tx_q[i].bufs # <<>>
    /\ mem[tx_q[i].dest_addr] \in open
         => mem[tx_q[i].dest_addr] \in waiter \cup resume_evt

\* The service waits for a client's resume only if its queue remembers it,
\* or the callback is on its way, or the client is being disconnected.
BusyIsRemembered ==
  \A s \in told_busy :
    \/ \E i \in 1..Len(tx_q) : mem[tx_q[i].dest_addr] = mem[s]
                               /\ tx_q[i].dest_busy
    \/ ev = "resume_cb" /\ mem[Loop] = mem[s]
    \/ mem[s] \notin open

\* A client that is gone is not forgotten: while the service still counts it
\* among its clients, the news is waiting or being handled.
DepartureIsKnown ==
  \A s \in connected :
    mem[s] \notin open =>
      \/ mem[s] \in del_evt \/ (mem[s] \in Remote /\ bye_evt)
      \/ ev = "del" /\ peer = mem[s]
      \/ walking /\ mem[s] \in conn_cli \cap Remote
      \/ ev = "closing"

\* A service that was refused an indication is told to resume, unless the
\* client leaves (qmi_csi_resume_ind).
BusyResumes == \A s \in Slot : (s \in told_busy) ~> (s \notin told_busy)

\* A client whose socket is gone is disconnected in the end.
GoneDisconnects ==
  \A s \in Slot : (s \in connected /\ mem[s] \notin open)
                    ~> (s \notin connected)

\* The session of a client lasts from the accepted connect to the moment
\* its object is freed.
SessionOf(p) ==
  \E s \in Slot : /\ obj[s] = "live" /\ mem[s] = p
                  /\ s \in connected \/ s \notin Listed

StateOf(r) ==
  IF fate[r] # "none" THEN fate[r]
  ELSE IF \E t \in txn_list : t.req = r THEN "open"
  ELSE IF ev = "bail" /\ Current = r /\ SessionOf(r[1]) THEN "open"
  ELSE "new"

Sessions == INSTANCE QmiSessions WITH
  session <- {p \in Port : SessionOf(p)},
  request <- [r \in Request |-> StateOf(r)]

\* The library implements the sessions of QmiSessions.
ImplementsSessions == Sessions!Spec
=============================================================================
