------------------------------ MODULE QcciClient ------------------------------
(***************************************************************************)
(* The life of QMI clients and notifiers: the table of handles and the     *)
(* reference counts (qmi-framework/qcci/src/qmi_cci_common.c), the control *)
(* thread, the data threads and their wake-up pipes                        *)
(* (qmi_cci_xport_qrtr.c).  Every thread of the program runs               *)
(* qmi_client_init_instance, makes calls and releases the client, while    *)
(* servers of the service come and go.  What happens inside a call is the  *)
(* subject of QcciTxn; here a call is a reference and a use of the socket. *)
(*                                                                         *)
(* One transport is registered.  xport_list_lock is held across steps by   *)
(* the control thread only (ev # NoEvent), tx_q_lock by a call that sends  *)
(* (call = "send"), qcci_tbl_lock, ref_count_lock and info_lock never.     *)
(* The name service is external: it answers a lookup with the servers      *)
(* there are and tells the control socket of changes in their order.       *)
(***************************************************************************)
EXTENDS Integers, Sequences, FiniteSets

CONSTANTS Thread,
          Server,   \* servers of the service; each comes once ...
          Mortal,   \* ... and these may leave (bound)
          Wanted,   \* those with the instance id the threads ask for
          MaxClid,  \* bound: handles given out
          Env       \* "timeout", "open_err", "alloc_err", "call"

ASSUME ServerAssumption ==
  /\ Wanted \cup Mortal \subseteq Server
  /\ Server # {} /\ IsFiniteSet(Server)
ASSUME BoundAssumption == MaxClid \in Nat
ASSUME EnvAssumption == Env \subseteq {"timeout", "open_err", "alloc_err", "call"}

Clid == 1..MaxClid
NoClid == 0
Event == {"new", "del"} \X Server
NoEvent == <<>>

VARIABLES
  \* client objects, by the id the table gives them
  next_clid, \* the id of the next object
  obj,       \* "unused", "live" or "freed"
  category, ref_count,
  tbl,       \* objects a handle leads to (qcci_client_tbl)
  linked,    \* objects whose list of transports holds theirs
  accepting, \* accepting_txns
  server,    \* the server of a client: server_addr and svc_addr
  \* transports
  list,      \* transports the control thread sees (ctrl_port->xport)
  data,      \* a client's data thread: "none", "poll", "closing", "gone"
  pipe,      \* what its wake-up pipe holds
  ev, todo,  \* control thread: the event it handles, transports to visit
  ctl_q,     \* what the control socket holds
  \* threads
  pc, me, note, found, cnt, sig, call,
  \* the world, and history
  state,     \* of each server: "new", "up" or "down"
  crashed    \* a NULL pointer was followed

objects   == <<next_clid, obj, category, ref_count, tbl, linked, accepting,
               server>>
transport == <<list, data, pipe>>
control   == <<ev, todo, ctl_q>>
threads   == <<pc, me, note, found, cnt, sig>>
vars      == <<objects, transport, control, threads, call, state, crashed>>

Up == {s \in Server : state[s] = "up"}
Elems(q) == {q[i] : i \in 1..Len(q)}
ListFree == ev = NoEvent
IsNotifier(c) == category[c] = "notifier"

Init ==
  /\ next_clid = 1
  /\ obj = [c \in Clid |-> "unused"]
  /\ category = [c \in Clid |-> "none"]
  /\ ref_count = [c \in Clid |-> 0]
  /\ tbl = {} /\ linked = {} /\ accepting = {}
  /\ server = [c \in Clid |-> CHOOSE s \in Server : TRUE]
  /\ list = {}
  /\ data = [c \in Clid |-> "none"]
  /\ pipe = [c \in Clid |-> <<>>]
  /\ ev = NoEvent /\ todo = {} /\ ctl_q = <<>>
  /\ pc = [t \in Thread |-> "count"]
  /\ me = [t \in Thread |-> NoClid] /\ note = [t \in Thread |-> NoClid]
  /\ found = [t \in Thread |-> CHOOSE s \in Server : TRUE]
  /\ cnt = [t \in Thread |-> 0] /\ sig = [t \in Thread |-> FALSE]
  /\ call = [c \in Clid |-> "none"]
  /\ state = [s \in Server |-> "new"]
  /\ crashed = FALSE

------------------------------------------------------------------------------
(* The table of clients and the references.                                *)

\* qmi_cci_client_alloc with the reference taken for the transport: one for
\* the call that creates the client and one for its transport.
Alloc(kind) ==
  /\ next_clid <= MaxClid
  /\ next_clid' = next_clid + 1
  /\ obj' = [obj EXCEPT ![next_clid] = "live"]
  /\ category' = [category EXCEPT ![next_clid] = kind]
  /\ ref_count' = [ref_count EXCEPT ![next_clid] = 2]
  /\ tbl' = tbl \cup {next_clid}
  /\ accepting' = IF kind = "connected" THEN accepting \cup {next_clid}
                  ELSE accepting

\* Fault: a release takes no reference.
GetRef_Call(c, unlink) ==
  /\ c \in tbl
  /\ ref_count' = [ref_count EXCEPT ![c] = IF unlink THEN @ ELSE @ + 1]
  /\ tbl' = IF unlink THEN tbl \ {c} ELSE tbl

\* qmi_cci_get_ref, with and without unlink.
GetRef(c, unlink) ==
  /\ c \in tbl
  /\ ref_count' = [ref_count EXCEPT ![c] = @ + 1]
  /\ tbl' = IF unlink THEN tbl \ {c} ELSE tbl

\* qmi_cci_put_ref with qmi_cci_client_free: n references are given up, of
\* which the last frees the object and runs the release callback.
PutRefs(c, n) ==
  /\ ref_count' = [ref_count EXCEPT ![c] = @ - n]
  /\ IF ref_count[c] = n
     THEN /\ obj' = [obj EXCEPT ![c] = "freed"]
          /\ tbl' = tbl \ {c}
          /\ linked' = linked \ {c}
     ELSE UNCHANGED <<obj, tbl, linked>>

PutRef(c) == PutRefs(c, 1)

------------------------------------------------------------------------------
(* qmi_client_init_instance: lookup, client, and if need be notifier and   *)
(* wait.  note[t] # NoClid once the notifier exists.                       *)

Goto(t, where) == pc' = [pc EXCEPT ![t] = where]

Miss(t) == Goto(t, IF note[t] = NoClid THEN "nalloc" ELSE "wait")

\* qmi_client_get_service_instance asks for the number of servers ...
CountServers(t) ==
  /\ pc[t] = "count"
  /\ IF Up = {} THEN Miss(t) /\ UNCHANGED cnt
     ELSE Goto(t, "look") /\ cnt' = [cnt EXCEPT ![t] = Cardinality(Up)]
  /\ UNCHANGED <<objects, transport, control, me, note, found, sig, call,
                 state, crashed>>

\* What an array of cnt[t] entries holds of the servers there are now.
Listed(t) ==
  {seen \in SUBSET Up : \/ Cardinality(seen) = cnt[t]
                        \/ seen = Up /\ Cardinality(Up) < cnt[t]}

\* Fault: the signal is cleared after the lookup, not before it.
LookForInstance_Clear(t) ==
  /\ pc[t] = "look"
  /\ \E seen \in Listed(t) :
       IF seen \cap Wanted = {} THEN Miss(t) /\ UNCHANGED found
       ELSE /\ Goto(t, "alloc")
            /\ \E s \in seen \cap Wanted : found' = [found EXCEPT ![t] = s]
  /\ sig' = [sig EXCEPT ![t] = FALSE]
  /\ UNCHANGED <<objects, transport, control, me, note, cnt, call, state,
                 crashed>>

\* ... and then for as many entries, among which it looks for the instance.
LookForInstance(t) ==
  /\ pc[t] = "look"
  /\ \E seen \in Listed(t) :
       IF seen \cap Wanted = {} THEN Miss(t) /\ UNCHANGED found
       ELSE /\ Goto(t, "alloc")
            /\ \E s \in seen \cap Wanted : found' = [found EXCEPT ![t] = s]
  /\ UNCHANGED <<objects, transport, control, me, note, cnt, sig, call, state,
                 crashed>>

\* qmi_client_init: the object, still without transport.
InitClient(t) ==
  /\ pc[t] = "alloc"
  /\ Alloc("connected")
  /\ server' = [server EXCEPT ![next_clid] = found[t]]
  /\ me' = [me EXCEPT ![t] = next_clid]
  /\ Goto(t, "open")
  /\ UNCHANGED <<linked, transport, control, note, found, cnt, sig,
                 call, state, crashed>>

Failed(t) == Goto(t, IF note[t] = NoClid THEN "failed" ELSE "nrel")

\* Fault: a failure gives back the transport's reference only.
OpenClient_PutOne(t) ==
  /\ pc[t] = "open"
  /\ \/ /\ data' = [data EXCEPT ![me[t]] = "poll"]
        /\ Goto(t, "list")
        /\ UNCHANGED <<objects, me>>
     \/ /\ "open_err" \in Env
        /\ PutRef(me[t])
        /\ me' = [me EXCEPT ![t] = NoClid]
        /\ Failed(t)
        /\ UNCHANGED <<next_clid, category, accepting, server, data>>
  /\ UNCHANGED <<list, pipe, control, note, found, cnt, sig, call,
                 state, crashed>>

\* xport_open up to the insertion in the list: the data thread runs.
OpenClient(t) ==
  /\ pc[t] = "open"
  /\ \/ /\ data' = [data EXCEPT ![me[t]] = "poll"]
        /\ Goto(t, "list")
        /\ UNCHANGED <<objects, me>>
     \/ /\ "open_err" \in Env
        /\ PutRefs(me[t], 2)
        /\ me' = [me EXCEPT ![t] = NoClid]
        /\ Failed(t)
        /\ UNCHANGED <<next_clid, category, accepting, server, data>>
  /\ UNCHANGED <<list, pipe, control, note, found, cnt, sig, call,
                 state, crashed>>

ListClient(t) ==
  /\ pc[t] = "list" /\ ListFree
  /\ list' = list \cup {me[t]}
  /\ Goto(t, "link")
  /\ UNCHANGED <<objects, data, pipe, control, me, note, found,
                 cnt, sig, call, state, crashed>>

LinkClient(t) ==
  /\ pc[t] = "link"
  /\ linked' = linked \cup {me[t]}
  /\ Goto(t, "relook")
  /\ UNCHANGED <<next_clid, obj, category, ref_count, tbl, accepting, server,
                 transport, control, me, note, found, cnt, sig, call,
                 state, crashed>>

CloseAgain(t, where) ==
  /\ pipe' = [pipe EXCEPT ![me[t]] = Append(@, "d")]
  /\ Goto(t, where)

\* Fault: the server found by the first lookup is trusted.
Relookup_Trust(t) ==
  /\ pc[t] = "relook"
  /\ Goto(t, "put_ok")
  /\ UNCHANGED <<objects, transport, control, me, note, found, cnt, sig, call,
                 state, crashed>>

\* The lookup is repeated to make sure that the server exists.
Relookup(t) ==
  /\ pc[t] = "relook"
  /\ IF found[t] \in Up
     THEN Goto(t, "put_ok") /\ UNCHANGED pipe
     ELSE CloseAgain(t, "put_err")
  /\ UNCHANGED <<objects, list, data, control, me, note, found,
                 cnt, sig, call, state, crashed>>

NoMemory(t) ==
  /\ "alloc_err" \in Env /\ pc[t] = "relook" /\ Up # {}
  /\ CloseAgain(t, "put_fail")
  /\ UNCHANGED <<objects, list, data, control, me, note, found, cnt, sig,
                 call, state, crashed>>

\* qmi_client_init gives up its own reference.  Only QMI_SERVICE_ERR makes
\* qmi_client_init_instance go on.
InitDone(t) ==
  /\ pc[t] \in {"put_ok", "put_err", "put_fail"}
  /\ PutRef(me[t])
  /\ me' = IF pc[t] = "put_ok" THEN me ELSE [me EXCEPT ![t] = NoClid]
  /\ \/ pc[t] = "put_ok" /\ Goto(t, IF note[t] = NoClid THEN "ready" ELSE "nrel")
     \/ pc[t] = "put_err" /\ Miss(t)
     \/ pc[t] = "put_fail" /\ Failed(t)
  /\ UNCHANGED <<next_clid, category, accepting, server, transport, control,
                 note, found, cnt, sig, call, state, crashed>>

\* qmi_client_notifier_init.
InitNotifier(t) ==
  /\ pc[t] = "nalloc"
  /\ \/ /\ Alloc("notifier")
        /\ note' = [note EXCEPT ![t] = next_clid]
        /\ Goto(t, "nlist")
     \/ /\ "open_err" \in Env
        /\ Goto(t, "failed")
        /\ UNCHANGED <<next_clid, obj, category, ref_count, tbl, accepting,
                       note>>
  /\ UNCHANGED <<linked, server, transport, control, me, found, cnt,
                 sig, call, state, crashed>>

ListNotifier(t) ==
  /\ pc[t] = "nlist" /\ ListFree
  /\ list' = list \cup {note[t]}
  /\ Goto(t, "nlook")
  /\ UNCHANGED <<objects, data, pipe, control, me, note, found,
                 cnt, sig, call, state, crashed>>

\* The notifier is signalled at once if there is a server.
LookupNotifier(t) ==
  /\ pc[t] = "nlook"
  /\ linked' = linked \cup {note[t]}
  /\ ref_count' = [ref_count EXCEPT ![note[t]] = @ - 1]
  /\ sig' = [sig EXCEPT ![t] = @ \/ Up # {}]
  /\ Goto(t, "clear")
  /\ UNCHANGED <<next_clid, obj, category, tbl, accepting, server,
                 transport, control, me, note, found, cnt, call, state,
                 crashed>>

ClearSignal(t) ==
  /\ pc[t] = "clear"
  /\ sig' = [sig EXCEPT ![t] = FALSE]
  /\ Goto(t, "count")
  /\ UNCHANGED <<objects, transport, control, me, note, found, cnt, call,
                 state, crashed>>

\* A wait without timeout ends when the notifier is signalled.
Wait(t) ==
  /\ pc[t] = "wait" /\ sig[t]
  /\ Goto(t, "clear")
  /\ UNCHANGED <<objects, transport, control, me, note, found, cnt, sig, call,
                 state, crashed>>

Timeout(t) ==
  /\ "timeout" \in Env /\ pc[t] = "wait" /\ ~sig[t]
  /\ Goto(t, "nrel")
  /\ UNCHANGED <<objects, transport, control, me, note, found, cnt, sig, call,
                 state, crashed>>

------------------------------------------------------------------------------
(* qmi_client_release, of the notifier by qmi_client_init_instance and of   *)
(* the client by the user.                                                  *)

\* The handle leads nowhere from now on.
ReleaseNotifier(t) ==
  /\ pc[t] = "nrel"
  /\ GetRef(note[t], TRUE)
  /\ Goto(t, "nclose")
  /\ UNCHANGED <<next_clid, obj, category, linked, accepting, server,
                 transport, control, me, note, found, cnt, sig, call, state,
                 crashed>>

\* xport_close and release_xp of a notifier, on the releasing thread.
CloseNotifier(t) ==
  /\ pc[t] = "nclose" /\ ListFree
  /\ list' = list \ {note[t]}
  /\ PutRef(note[t])
  /\ Goto(t, "nput")
  /\ UNCHANGED <<next_clid, category, accepting, server, data, pipe, control,
                 me, note, found, cnt, sig, call, state, crashed>>

NotifierGone(t) ==
  /\ pc[t] = "nput"
  /\ PutRef(note[t])
  /\ Goto(t, IF me[t] = NoClid THEN "failed" ELSE "ready")
  /\ note' = [note EXCEPT ![t] = NoClid]
  /\ UNCHANGED <<next_clid, category, accepting, server, transport, control,
                 me, found, cnt, sig, call, state, crashed>>

ReleaseClient(t) ==
  /\ pc[t] = "ready"
  /\ GetRef(me[t], TRUE)
  /\ Goto(t, "stop")
  /\ UNCHANGED <<next_clid, obj, category, linked, accepting, server,
                 transport, control, me, note, found, cnt, sig, call, state,
                 crashed>>

\* Fault: accepting_txns is cleared without tx_q_lock.
StopSending_NoLock(t) ==
  /\ pc[t] = "stop"
  /\ accepting' = accepting \ {me[t]}
  /\ Goto(t, "close")
  /\ UNCHANGED <<next_clid, obj, category, ref_count, tbl, linked, server,
                 transport, control, me, note, found, cnt, sig, call, state,
                 crashed>>

StopSending(t) ==
  /\ pc[t] = "stop" /\ call[me[t]] # "send"
  /\ accepting' = accepting \ {me[t]}
  /\ Goto(t, "close")
  /\ UNCHANGED <<next_clid, obj, category, ref_count, tbl, linked, server,
                 transport, control, me, note, found, cnt, sig, call, state,
                 crashed>>

\* xport_close of a client leaves the rest to its data thread.
CloseClient(t) ==
  /\ pc[t] = "close"
  /\ pipe' = [pipe EXCEPT ![me[t]] = Append(@, "d")]
  /\ Goto(t, "rput")
  /\ UNCHANGED <<objects, list, data, control, me, note, found, cnt, sig,
                 call, state, crashed>>

PutReleased(t) ==
  /\ pc[t] = "rput"
  /\ PutRef(me[t])
  /\ Goto(t, "rwait")
  /\ UNCHANGED <<next_clid, category, accepting, server, transport, control,
                 me, note, found, cnt, sig, call, state, crashed>>

\* The release callback, run when the object is freed, ends the wait.
Released(t) ==
  /\ pc[t] = "rwait" /\ obj[me[t]] = "freed"
  /\ Goto(t, "gone")
  /\ UNCHANGED <<objects, transport, control, me, note, found, cnt, sig, call,
                 state, crashed>>

------------------------------------------------------------------------------
(* A call of another thread of the user: it may begin before the release   *)
(* and end after it.                                                       *)

EnterCall(t) ==
  /\ "call" \in Env
  /\ pc[t] \in {"ready", "stop", "close", "rput", "rwait"}
  /\ call[me[t]] = "none"
  /\ GetRef(me[t], FALSE)
  /\ call' = [call EXCEPT ![me[t]] = "in"]
  /\ UNCHANGED <<next_clid, obj, category, linked, accepting, server,
                 transport, control, threads, state, crashed>>

\* qmi_cci_flush_tx_q: the socket is used with tx_q_lock held.
StartSend(c) ==
  /\ call[c] = "in"
  /\ c \in accepting /\ category[c] = "connected"
  /\ call' = [call EXCEPT ![c] = "send"]
  /\ UNCHANGED <<objects, transport, control, threads, state, crashed>>

\* The network may know before the control thread that the server is gone.
EndSend(c) ==
  /\ call[c] = "send"
  /\ call' = [call EXCEPT ![c] = "sent"]
  /\ category' = IF state[server[c]] = "down"
                 THEN [category EXCEPT ![c] = "dormant"] ELSE category
  /\ UNCHANGED <<next_clid, obj, ref_count, tbl, linked, accepting, server,
                 transport, control, threads, state, crashed>>

\* Fault: a call that could not send keeps its reference.
LeaveCall_Leak(c) ==
  /\ call[c] \in {"in", "sent"}
  /\ IF call[c] = "sent" THEN PutRef(c) ELSE UNCHANGED <<ref_count, obj, tbl, linked>>
  /\ call' = [call EXCEPT ![c] = "none"]
  /\ UNCHANGED <<next_clid, category, accepting, server, transport, control,
                 threads, state, crashed>>

LeaveCall(c) ==
  /\ call[c] \in {"in", "sent"}
  /\ PutRef(c)
  /\ call' = [call EXCEPT ![c] = "none"]
  /\ UNCHANGED <<next_clid, category, accepting, server, transport, control,
                 threads, state, crashed>>

------------------------------------------------------------------------------
(* ctrl_msg_reader_thread.  The list lock is held from the event to the    *)
(* last transport concerned.                                               *)

Concerned(e) ==
  IF e[1] = "new" THEN list
  ELSE {c \in list : IsNotifier(c) \/ server[c] = e[2]}

CtlRead ==
  /\ ev = NoEvent /\ ctl_q # <<>>
  /\ ev' = Head(ctl_q)
  /\ ctl_q' = Tail(ctl_q)
  /\ todo' = Concerned(ev')
  /\ UNCHANGED <<objects, transport, threads, call, state, crashed>>

\* Fault: a server that leaves is no news for a notifier.
CtlNotify_NewOnly(c) ==
  /\ c \in todo /\ (ev[1] = "new" \/ IsNotifier(c))
  /\ todo' = todo \ {c}
  /\ sig' = [t \in Thread |-> sig[t] \/ (note[t] = c /\ ev[1] = "new")]
  /\ UNCHANGED <<objects, transport, ev, ctl_q, pc, me, note, found, cnt,
                 call, state, crashed>>

\* Fault: the walk ends at the first notifier.
CtlNotify_Break(c) ==
  /\ c \in todo /\ (ev[1] = "new" \/ IsNotifier(c))
  /\ todo' = {}
  /\ sig' = [t \in Thread |-> sig[t] \/ note[t] = c]
  /\ UNCHANGED <<objects, transport, ev, ctl_q, pc, me, note, found, cnt,
                 call, state, crashed>>

\* qmi_cci_xport_event_new_server, and for a notifier also
\* qmi_cci_xport_event_remove_server: its signal is set.
CtlNotify(c) ==
  /\ c \in todo /\ (ev[1] = "new" \/ IsNotifier(c))
  /\ todo' = todo \ {c}
  /\ sig' = [t \in Thread |-> sig[t] \/ note[t] = c]
  /\ UNCHANGED <<objects, transport, ev, ctl_q, pc, me, note, found, cnt,
                 call, state, crashed>>

\* A client whose server left: its data thread is woken.
CtlReset(c) ==
  /\ c \in todo /\ ev[1] = "del" /\ ~IsNotifier(c)
  /\ todo' = todo \ {c}
  /\ pipe' = IF data[c] = "poll" THEN [pipe EXCEPT ![c] = Append(@, "r")]
             ELSE pipe
  /\ UNCHANGED <<objects, list, data, ev, ctl_q, threads, call, state,
                 crashed>>

CtlDone ==
  /\ ev # NoEvent /\ todo = {}
  /\ ev' = NoEvent
  /\ UNCHANGED <<objects, transport, todo, ctl_q, threads, call, state,
                 crashed>>

------------------------------------------------------------------------------
(* data_msg_reader_thread, as far as it reads the wake-up pipe.            *)

\* 'r': qmi_cci_xport_event_remove_server, which looks at the first
\* transport of the client and takes it for granted.
DataReset(c) ==
  /\ data[c] = "poll" /\ pipe[c] # <<>> /\ Head(pipe[c]) = "r"
  /\ pipe' = [pipe EXCEPT ![c] = Tail(@)]
  /\ IF category[c] = "connected" /\ c \notin linked
     THEN crashed' = TRUE /\ UNCHANGED category
     ELSE category' = [category EXCEPT ![c] = "dormant"] /\ UNCHANGED crashed
  /\ UNCHANGED <<next_clid, obj, ref_count, tbl, linked, accepting, server,
                 list, data, control, threads, call, state>>

\* 'd': pipe and socket are closed ...
DataClose(c) ==
  /\ data[c] = "poll" /\ pipe[c] # <<>> /\ Head(pipe[c]) = "d"
  /\ data' = [data EXCEPT ![c] = "closing"]
  /\ pipe' = [pipe EXCEPT ![c] = <<>>]
  /\ UNCHANGED <<objects, list, control, threads, call, state, crashed>>

\* Fault: release_xp does not wait for the control thread.
DataRelease_NoLock(c) ==
  /\ data[c] = "closing"
  /\ list' = list \ {c}
  /\ data' = [data EXCEPT ![c] = "gone"]
  /\ PutRef(c)
  /\ UNCHANGED <<next_clid, category, accepting, server, pipe, control,
                 threads, call, state, crashed>>

\* ... and release_xp takes the transport from the list and gives up its
\* reference.
DataRelease(c) ==
  /\ data[c] = "closing" /\ ListFree
  /\ list' = list \ {c}
  /\ data' = [data EXCEPT ![c] = "gone"]
  /\ PutRef(c)
  /\ UNCHANGED <<next_clid, category, accepting, server, pipe, control,
                 threads, call, state, crashed>>

------------------------------------------------------------------------------
(* The servers.                                                            *)

ServerUp(s) ==
  /\ state[s] = "new"
  /\ state' = [state EXCEPT ![s] = "up"]
  /\ ctl_q' = Append(ctl_q, <<"new", s>>)
  /\ UNCHANGED <<objects, transport, ev, todo, threads, call, crashed>>

ServerDown(s) ==
  /\ state[s] = "up" /\ s \in Mortal
  /\ state' = [state EXCEPT ![s] = "down"]
  /\ ctl_q' = Append(ctl_q, <<"del", s>>)
  /\ UNCHANGED <<objects, transport, ev, todo, threads, call, crashed>>

------------------------------------------------------------------------------
InitInstance(t) ==
  \/ CountServers(t) \/ LookForInstance(t)
  \/ InitClient(t) \/ OpenClient(t) \/ ListClient(t) \/ LinkClient(t)
  \/ Relookup(t) \/ NoMemory(t) \/ InitDone(t)
  \/ InitNotifier(t) \/ ListNotifier(t) \/ LookupNotifier(t)
  \/ ClearSignal(t) \/ Wait(t)
  \/ ReleaseNotifier(t) \/ CloseNotifier(t) \/ NotifierGone(t)

Release(t) ==
  \/ StopSending(t) \/ CloseClient(t) \/ PutReleased(t) \/ Released(t)

Call(c) == StartSend(c) \/ EndSend(c) \/ LeaveCall(c)

Control == \/ CtlRead \/ CtlDone
           \/ \E c \in Clid : CtlNotify(c) \/ CtlReset(c)

Data(c) == DataReset(c) \/ DataClose(c) \/ DataRelease(c)

\* A crash, or threads that are done and servers that stay as they are.
Rest ==
  /\ crashed \/ \A t \in Thread : pc[t] \in {"wait", "failed", "ready", "gone"}
  /\ UNCHANGED vars

Next ==
  \/ /\ ~crashed
     /\ \/ \E t \in Thread : \/ InitInstance(t) \/ Timeout(t)
                             \/ ReleaseClient(t) \/ Release(t) \/ EnterCall(t)
        \/ \E c \in Clid : Call(c) \/ Data(c)
        \/ Control
        \/ \E s \in Server : ServerUp(s) \/ ServerDown(s)
  \/ Rest

Spec == Init /\ [][Next]_vars

\* Threads run: the user's (a call ends), the control thread and the data
\* threads.  Nobody has to release a client, no wait has to time out and no
\* server has to come or go.
Fairness ==
  /\ \A t \in Thread : /\ WF_vars(~crashed /\ InitInstance(t))
                       /\ WF_vars(~crashed /\ Release(t))
  /\ \A c \in Clid : /\ WF_vars(~crashed /\ Call(c))
                     /\ WF_vars(~crashed /\ Data(c))
  /\ WF_vars(~crashed /\ Control)

FairSpec == Spec /\ Fairness

------------------------------------------------------------------------------
(* Properties.                                                             *)

Pc == {"count", "look", "alloc", "open", "list", "link", "relook", "put_ok",
       "put_err", "put_fail", "nalloc", "nlist", "nlook", "clear", "wait",
       "nrel", "nclose", "nput", "ready", "stop", "close", "rput", "rwait",
       "gone", "failed"}

ObjectType ==
  /\ next_clid \in 1..(MaxClid + 1)
  /\ obj \in [Clid -> {"unused", "live", "freed"}]
  /\ category \in [Clid -> {"none", "connected", "dormant", "notifier"}]
  /\ ref_count \in [Clid -> Nat]
  /\ tbl \subseteq Clid /\ linked \subseteq Clid /\ accepting \subseteq Clid
  /\ server \in [Clid -> Server]

TransportType ==
  /\ list \subseteq Clid
  /\ data \in [Clid -> {"none", "poll", "closing", "gone"}]
  /\ pipe \in [Clid -> Seq({"r", "d"})]

ControlType ==
  /\ ev \in Event \cup {NoEvent} /\ todo \subseteq Clid
  /\ ctl_q \in Seq(Event)

ThreadType ==
  /\ pc \in [Thread -> Pc]
  /\ me \in [Thread -> Clid \cup {NoClid}]
  /\ note \in [Thread -> Clid \cup {NoClid}]
  /\ found \in [Thread -> Server]
  /\ cnt \in [Thread -> 0..Cardinality(Server)]

WorldType ==
  /\ call \in [Clid -> {"none", "in", "send", "sent"}]
  /\ state \in [Server -> {"new", "up", "down"}]

FlagType == sig \in [Thread -> BOOLEAN] /\ crashed \in BOOLEAN

\* The variables of the objects, the transports, the control thread, the
\* users' threads and the servers have their types.
TypeOK ==
  /\ ObjectType /\ TransportType /\ ControlType /\ ThreadType /\ WorldType
  /\ FlagType

Live == {c \in Clid : obj[c] = "live"}
InitHolds == {"open", "list", "link", "relook", "put_ok", "put_err", "put_fail"}
ReleaseHolds == {"stop", "close", "rput"}

Holders(c) ==
     {<<t, "me">> : t \in {u \in Thread : /\ me[u] = c
                                        /\ pc[u] \in InitHolds \cup ReleaseHolds}}
  \cup {<<t, "note">> : t \in {u \in Thread : /\ note[u] = c
                          /\ pc[u] \in {"nlist", "nlook", "nclose", "nput"}}}
  \cup (IF \/ data[c] \in {"poll", "closing"}
           \/ c \in list
           \/ \E t \in Thread : \/ (me[t] = c /\ pc[t] = "open")
                               \/ (note[t] = c /\ pc[t] = "nlist")
        THEN {<<"transport">>} ELSE {})
  \cup (IF call[c] = "none" THEN {} ELSE {<<"call">>})

\* An object's reference count is the number of those that hold it: the
\* function that initialises it, its transport, a release and a call.  It is
\* freed when the last lets go, whoever that is.
CountsAreHolders ==
  \A c \in Clid : ref_count[c] = IF c \in Live THEN Cardinality(Holders(c)) ELSE 0

\* What a thread works on is still there: the transports the control thread
\* walks, a data thread's client, the handle and the socket a call uses, the
\* notifier and the client of an initialisation.
UsesAreLive ==
  /\ list \cup todo \subseteq Live
  /\ \A c \in Clid :
       /\ data[c] \in {"poll", "closing"} => c \in Live
       /\ call[c] # "none" => c \in Live
       /\ call[c] = "send" => data[c] = "poll"
  /\ \A t \in Thread :
       /\ pc[t] \in InitHolds \cup ReleaseHolds => me[t] \in Live
       /\ note[t] # NoClid => note[t] \in Live

\* A client that qmi_client_init has given to its user and whose server is
\* gone is dormant, or the news is on the way to its data thread.  A server
\* may leave between the lookup that found it and the insertion of the
\* client in the list; the second lookup sees that.
LossReaches ==
  \A t \in Thread : LET c == me[t] IN
    (/\ pc[t] \in {"nrel", "nclose", "nput", "ready"} /\ c # NoClid
     /\ state[server[c]] = "down" /\ category[c] = "connected")
    => \/ <<"del", server[c]>> \in Elems(ctl_q)
       \/ ev = <<"del", server[c]>> /\ c \in todo
       \/ "r" \in Elems(pipe[c])

\* Who waits for a service that is there will be woken: the signal is
\* cleared before the lookup, the list of services, asked for in two steps,
\* leaves out a server only if one came up in between, and a server that was
\* tried in vain has left since; the notifier is told of both.
NoMissedServer ==
  \A t \in Thread :
    (pc[t] = "wait" /\ ~sig[t] /\ Wanted \cap Up # {})
    => ctl_q # <<>> \/ note[t] \in todo

\* qmi_client_init_instance returns once the service is there to stay.
Connects ==
  (<>[](Wanted \cap Up # {}) /\ []~crashed)
  => \A t \in Thread : <>(pc[t] \in {"ready", "stop", "gone", "failed"})

\* qmi_client_release returns, also when calls are in progress.
ReleaseReturns ==
  \A t \in Thread : pc[t] = "stop" ~> (pc[t] = "gone" \/ crashed)

==============================================================================
