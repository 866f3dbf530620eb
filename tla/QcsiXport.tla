------------------------------ MODULE QcsiXport ------------------------------
(***************************************************************************)
(* The sending half of the service transport                               *)
(* (qmi-framework/qcsi/src/qmi_csi_xport_qrtr.c): one queue per flow-      *)
(* controlled destination under tx_q_lock, the rate limit of indications,  *)
(* the resume event and the purge of queues.  Every operator below is one  *)
(* critical section of tx_q_lock.                                          *)
(*                                                                         *)
(* A destination does not hold an address but a POINTER to one             *)
(* (dest->dest_addr = addr): into the client object of the library above,  *)
(* or to the local variable addr of the event loop.  mem is the memory     *)
(* these pointers point to; what a pointer means is looked up when it is   *)
(* used, as find_tx_q and handle_resume_tx do.                             *)
(***************************************************************************)
EXTENDS Integers, Sequences, FiniteSets

CONSTANTS Port,      \* sockets of clients
          NoPort,    \* an address that is no client's
          Slot,      \* memory for client objects
          Loop,      \* the variable addr of xport_handle_event
          MaxQ,      \* rate_limited_queue_size
          MaxBlocks, \* how often ports may become flow controlled
          Env        \* which environment events the instance allows

Ptr == Slot \cup {Loop}

ASSUME XportAssumption ==
  /\ NoPort \notin Port
  /\ Loop \notin Slot
  /\ MaxQ \in Nat \ {0}
  /\ MaxBlocks \in Nat

VARIABLES
  mem,        \* the address stored at each pointer
  tx_q,       \* destinations [dest_addr, bufs, dest_busy], oldest first
  \* the kernel's side of the socket
  open,       \* ports whose socket exists
  blocked,    \* ports that are flow controlled
  waiter,     \* ports that owe this socket a resume event
  resume_evt, \* resume events not yet read
  blocks,
  \* history
  sent,       \* how many messages for each port the transport accepted
  wire,       \* messages handed to the socket, by port
  lost        \* accepted messages that were dropped

port  == <<open, blocked, waiter, resume_evt, blocks>>
xvars == <<mem, tx_q, port, sent, wire, lost>>

Elems(s) == {s[i] : i \in 1..Len(s)}
Without(s, i) == SubSeq(s, 1, i - 1) \o SubSeq(s, i + 1, Len(s))

\* A message: for whom it is meant, and its number among those.
Message == [to : Port, no : Nat]

InitXport ==
  /\ mem = [x \in Ptr |-> NoPort]
  /\ tx_q = <<>>
  /\ open = Port /\ blocked = {} /\ waiter = {} /\ resume_evt = {}
  /\ blocks = 0
  /\ sent = [p \in Port |-> 0]
  /\ wire = [p \in Port |-> <<>>]
  /\ lost = {}

------------------------------------------------------------------------------
(* The list of destinations.                                               *)

\* The first destination whose pointer now leads to address a; 0 if none.
FindTxQ(m, a) ==
  LET hits == {i \in 1..Len(tx_q) : m[tx_q[i].dest_addr] = a}
  IN  IF hits = {} THEN 0 ELSE CHOOSE i \in hits : \A j \in hits : i <= j

\* Fault: a new destination does not get its address.
PutTxQ_NoAddr(x, msg, limited, rc) ==
  LET i == FindTxQ(mem, mem[x])
  IN  /\ tx_q' = IF i = 0 THEN Append(tx_q, [dest_addr |-> NoPort,
                                             bufs |-> <<msg>>,
                                             dest_busy |-> FALSE])
                 ELSE [tx_q EXCEPT ![i].bufs = Append(@, msg)]
      /\ rc = "ok"

\* Fault: a message joins the destination at the end of the list.
PutTxQ_Last(x, msg, limited, rc) ==
  /\ tx_q' = IF tx_q = <<>> THEN <<[dest_addr |-> x, bufs |-> <<msg>>,
                                    dest_busy |-> FALSE]>>
             ELSE [tx_q EXCEPT ![Len(tx_q)].bufs = Append(@, msg)]
  /\ rc = "ok"

\* put_tx_q with get_tx_q: only a rate-limited message can find the queue
\* full; the destination of a first message keeps the caller's pointer.
PutTxQ(x, msg, limited, rc) ==
  LET i == FindTxQ(mem, mem[x])
      full == i # 0 /\ limited /\ Len(tx_q[i].bufs) >= MaxQ
  IN  \/ /\ full
         /\ tx_q' = [tx_q EXCEPT ![i].dest_busy = TRUE]
         /\ rc = "busy"
      \/ /\ ~full /\ i # 0
         /\ tx_q' = [tx_q EXCEPT ![i].bufs = Append(@, msg)]
         /\ rc = "ok"
      \/ /\ i = 0
         /\ tx_q' = Append(tx_q, [dest_addr |-> x, bufs |-> <<msg>>,
                                  dest_busy |-> FALSE])
         /\ rc = "ok"

\* purge_tx_q of what find_tx_q finds for address a.
PurgeTxQ(m, a) ==
  LET i == FindTxQ(m, a) IN
  IF i = 0 THEN UNCHANGED <<tx_q, lost>>
  ELSE /\ tx_q' = Without(tx_q, i)
       /\ lost' = lost \cup Elems(tx_q[i].bufs)

\* purge_dest_s.
PurgeAll ==
  /\ tx_q' = <<>>
  /\ lost' = lost \cup UNION {Elems(tx_q[i].bufs) : i \in 1..Len(tx_q)}

------------------------------------------------------------------------------
(* xport_send: behind a queue a message is queued, otherwise it is given   *)
(* to the socket.  x is the pointer the caller passes, p the port it means.*)

Refused(a) == a \notin open \/ "send_err" \in Env

\* sendto, which answers EAGAIN while the port is flow controlled and then
\* owes the socket a resume event.
TrySend(x, msg, limited, rc) ==
  LET a == mem[x] IN
  \/ /\ a \notin blocked
     /\ wire' = [wire EXCEPT ![a] = Append(@, msg)]
     /\ rc = "ok"
     /\ UNCHANGED <<tx_q, waiter>>
  \/ /\ a \in blocked
     /\ PutTxQ(x, msg, limited, rc)
     /\ waiter' = waiter \cup {a}
     /\ UNCHANGED wire
  \/ /\ Refused(a)
     /\ rc = "err"
     /\ UNCHANGED <<tx_q, waiter, wire>>

Accept(p, rc) ==
  /\ sent' = IF rc = "ok" THEN [sent EXCEPT ![p] = @ + 1] ELSE sent
  /\ UNCHANGED <<mem, open, blocked, resume_evt, blocks, lost>>

\* Fault: the queue is not consulted before sending.
XportSend_Overtake(x, p, limited, rc) ==
  /\ TrySend(x, [to |-> p, no |-> sent[p] + 1], limited, rc)
  /\ Accept(p, rc)

XportSend(x, p, limited, rc) ==
  LET msg == [to |-> p, no |-> sent[p] + 1]
      i == FindTxQ(mem, mem[x])
  IN  /\ IF i # 0 /\ tx_q[i].bufs # <<>>
         THEN PutTxQ(x, msg, limited, rc) /\ UNCHANGED <<wire, waiter>>
         ELSE TrySend(x, msg, limited, rc)
      /\ Accept(p, rc)

------------------------------------------------------------------------------
(* handle_resume_tx for address a, looked up in memory m.  The first k     *)
(* messages of the queue leave, but for those at the places D whose        *)
(* transmission fails, which are dropped; the next one meets EAGAIN.       *)

\* Fault: the message that met EAGAIN is freed with those that left.
Remaining_FreeOne(i, k) == SubSeq(tx_q[i].bufs, k + 2, Len(tx_q[i].bufs))

\* What of the queue is left, and whether the client is told to resume.
Remaining(i, k) == SubSeq(tx_q[i].bufs, k + 1, Len(tx_q[i].bufs))

\* Fault: an empty destination is removed before its dest_busy is examined.
Notifies_Late(i, k) ==
  tx_q[i].dest_busy /\ Len(Remaining(i, k)) < MaxQ /\ Remaining(i, k) # <<>>

Notifies(i, k) == tx_q[i].dest_busy /\ Len(Remaining(i, k)) < MaxQ

\* Fault: a resume sends one message only.
Progress_One(i, k) ==
  /\ k = 1
  /\ UNCHANGED <<blocked, waiter, blocks>>

\* How far a resume gets: everything leaves, or the port blocks (again).
Progress(i, k) ==
  LET a == mem'[tx_q[i].dest_addr] IN
  \/ /\ k = Len(tx_q[i].bufs)
     /\ a \notin blocked
     /\ UNCHANGED <<blocked, waiter, blocks>>
  \/ /\ k < Len(tx_q[i].bufs)
     /\ IF a \in blocked THEN k = 0 /\ UNCHANGED blocks
        ELSE blocks < MaxBlocks /\ a \in open /\ blocks' = blocks + 1
     /\ blocked' = blocked \cup {a}
     /\ waiter' = waiter \cup {a}

\* The places S of a queue, one after the other.
InTurn(S) == {f \in [1..Cardinality(S) -> S] :
                /\ \A j, l \in DOMAIN f : j < l => f[j] < f[l]
                /\ \A x \in S : \E j \in DOMAIN f : f[j] = x}

\* What is at these places.
Pick(s, f) == [j \in DOMAIN f |-> s[f[j]]]

ResumeQueue(i, tell) ==
  \E k \in 0..Len(tx_q[i].bufs) :
  \E D \in SUBSET (1..k) :
  \E f \in InTurn((1..k) \ D) :
    LET d == tx_q[i]
        a == mem'[d.dest_addr]
        left == Remaining(i, k)
    IN  /\ D # {} => Refused(a)
        /\ Progress(i, k)
        /\ wire' = [wire EXCEPT ![a] = @ \o Pick(d.bufs, f)]
        /\ lost' = lost \cup {d.bufs[j] : j \in D}
        /\ tell = Notifies(i, k)
        /\ tx_q' = IF left = <<>> THEN Without(tx_q, i)
                   ELSE [tx_q EXCEPT ![i] =
                           [dest_addr |-> d.dest_addr, bufs |-> left,
                            dest_busy |-> d.dest_busy /\ ~tell]]

HandleResumeTx(a, tell) ==
  LET i == FindTxQ(mem', a) IN
  IF i = 0 THEN tell = FALSE
                /\ UNCHANGED <<tx_q, wire, lost, blocked, waiter, blocks>>
  ELSE ResumeQueue(i, tell)

------------------------------------------------------------------------------
(* The kernel, by how the transport uses its socket.                       *)

\* A port has no room for more.
Block(p) ==
  /\ "block" \in Env
  /\ p \in open \ blocked /\ blocks < MaxBlocks
  /\ blocked' = blocked \cup {p}
  /\ blocks' = blocks + 1
  /\ UNCHANGED <<mem, tx_q, open, waiter, resume_evt, sent, wire, lost>>

\* It has drained; a refused sender gets a zero-length packet.
Unblock(p) ==
  /\ p \in blocked
  /\ blocked' = blocked \ {p}
  /\ waiter' = waiter \ {p}
  /\ resume_evt' = IF p \in waiter THEN resume_evt \cup {p} ELSE resume_evt
  /\ UNCHANGED <<mem, tx_q, open, blocks, sent, wire, lost>>

\* Sockets are closed; nobody waits for them any more.
Vanish(P) ==
  /\ open' = open \ P
  /\ blocked' = blocked \ P
  /\ waiter' = waiter \ P
  /\ UNCHANGED <<mem, tx_q, resume_evt, blocks, sent, wire, lost>>
=============================================================================
