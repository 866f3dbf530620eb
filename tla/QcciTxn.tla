------------------------------- MODULE QcciTxn -------------------------------
(***************************************************************************)
(* The life of the transactions of ONE connected QMI client                *)
(* (qmi-framework/qcci/src/qmi_cci_common.c): the outstanding list         *)
(* txn_list, the transmit queue tx_q, the reference count of every         *)
(* transaction, and the threads that race over them:                       *)
(*                                                                         *)
(*   - one caller per transaction (a synchronous or an asynchronous send,  *)
(*     which may later delete an asynchronous transaction);                *)
(*   - the data reader thread of the client's transport, which delivers    *)
(*     responses, "resume transmit" events and the loss of the server;     *)
(*   - a thread that releases the client.                                  *)
(*                                                                         *)
(* A step is one critical section of the code together with the thread-    *)
(* local code around it; the control point a thread has reached is pc.     *)
(* Names of variables are those of the code's fields where there is one.   *)
(***************************************************************************)
EXTENDS Integers, Sequences, FiniteSets

CONSTANTS SyncTxn,    \* transactions of qmi_client_send_{raw_,}msg_sync
          AsyncTxn,   \* transactions of qmi_client_send_{raw_,}msg_async
          Data,       \* the data reader thread
          Releaser,   \* the thread that may call qmi_client_release_async
          NoTxn,      \* a NULL transaction pointer
          Env,        \* which environment events the instance allows
          MaxBlocks   \* how often the remote port may become flow controlled

Txn    == SyncTxn \cup AsyncTxn
Thread == Txn \cup {Data, Releaser}

ASSUME TxnAssumption ==
  /\ SyncTxn \cap AsyncTxn = {}
  /\ Data # Releaser
  /\ Data \notin Txn /\ Releaser \notin Txn /\ NoTxn \notin Txn
ASSUME EnvAssumption ==
  Env \subseteq {"busy", "service_err", "transport_err", "encode_err",
                 "mismatch", "death", "release", "timeout", "delete",
                 "register"}
ASSUME BlocksAssumption == MaxBlocks \in Nat

VARIABLES
  \* the client
  category,     \* QMI_CCI_CONNECTED_CLIENT or QMI_CCI_DORMANT_CLIENT
  linked,       \* the handle is still in qcci_client_tbl
  accepting_txns,
  err_cb,       \* an error callback is registered
  err_pending,
  txn_list,     \* outstanding transactions
  tx_q,         \* transactions whose request is not yet transmitted
  \* the transactions
  ref_count, rc, signal,
  rx_buf,       \* the transaction still points at the user's response buffer
  freed,        \* its memory went back to the allocator
  \* the threads
  pc,
  cur,          \* the transaction a flush or a receive is working on
  send_rc,      \* the transport's answer inside qmi_cci_flush_tx_q
  moved,        \* transactions cleanup_client_lists detached from txn_list
  owes_err,     \* threads that captured err_cb and have yet to call it
  closing,      \* the data thread was told to close ('d' in its wake-up pipe)
  \* transport and server
  wire,         \* requests handed to the socket, oldest first
  inbox,        \* responses the data thread has not read
  answered, server_up,
  gone_evt,     \* 'r' in the wake-up pipe: the server was removed
  blocked,      \* the remote port is flow controlled
  waiter,       \* a send was refused and is owed a resume event
  resume_evt, blocks,
  \* what the users see, and history
  result,       \* the return value of the send
  verdict,      \* the return value of qmi_client_delete_async_txn
  done,         \* how often the transaction was completed (2 is "too often")
  filled,       \* the response was copied to the user's buffer
  err_calls,    \* calls of the error callback
  queued,       \* every transaction that entered tx_q, oldest first
  crashed       \* the process died using freed memory

client  == <<category, linked, accepting_txns, err_cb, err_pending>>
lists   == <<txn_list, tx_q>>
memory  == <<ref_count, freed>>
answer  == <<rc, signal, done, filled>>
locals  == <<cur, send_rc, moved, owes_err, closing>>
server  == <<inbox, answered, server_up, gone_evt>>
flow    == <<blocked, waiter, resume_evt, blocks>>
returns == <<result, verdict>>
hist    == <<err_calls, queued>>
txns  == <<lists, memory, answer, rx_buf>>
world == <<wire, server, flow>>
seen  == <<returns, hist, crashed>>
vars  == <<client, txns, pc, locals, world, seen>>

Codes == {"none", "ok", "timeout", "service_err", "transport_err",
          "encode_err", "invalid_clnt", "internal_err", "invalid_txn"}

CallerPC == {"idle", "add", "inc_own", "prep", "send", "inc_tx", "enq",
             "dec_tx", "wait", "fin_inval", "fin_remove", "fin_dec",
             "failed", "done", "del_tx", "del_list", "del_free", "deleted"}
FlushPC  == {"fl_addr", "fl_send", "fl_find", "fl_error", "fl_dec"}
CleanPC  == {"server_error", "cl_tx", "cl_list", "cl_each"}
DataPC   == {"recv_good", "recv_bad", "stopped"}
RelPC    == {"rel_gate", "rel_close"}

Bump(n)  == IF n = 0 THEN 1 ELSE 2
Elems(s) == {s[i] : i \in 1..Len(s)}

\* LIST_FIND and LIST_REMOVE.
Unlink(s, t) ==
  IF t \notin Elems(s) THEN s
  ELSE LET i == CHOOSE i \in 1..Len(s) : s[i] = t
       IN  SubSeq(s, 1, i - 1) \o SubSeq(s, i + 1, Len(s))

At(th, where) == pc[th] = where
Goto(th, where) == pc' = [pc EXCEPT ![th] = where]

Init ==
  /\ category = "connected" /\ linked = TRUE /\ accepting_txns = TRUE
  /\ err_cb = FALSE /\ err_pending = FALSE
  /\ txn_list = {} /\ tx_q = <<>>
  /\ ref_count = [t \in Txn |-> 0]
  /\ rc = [t \in Txn |-> "ok"]
  /\ signal = [t \in Txn |-> FALSE]
  /\ rx_buf = [t \in Txn |-> FALSE]
  /\ freed = [t \in Txn |-> FALSE]
  /\ pc = [th \in Thread |-> "idle"]
  /\ cur = [th \in Thread |-> NoTxn]
  /\ send_rc = [th \in Thread |-> "ok"]
  /\ moved = [th \in Thread |-> {}]
  /\ owes_err = {} /\ closing = FALSE
  /\ wire = <<>> /\ inbox = {} /\ answered = {}
  /\ server_up = TRUE /\ gone_evt = FALSE
  /\ blocked = FALSE /\ waiter = FALSE /\ resume_evt = FALSE /\ blocks = 0
  /\ result = [t \in Txn |-> "none"]
  /\ verdict = [t \in Txn |-> "none"]
  /\ done = [t \in Txn |-> 0]
  /\ filled = [t \in Txn |-> FALSE]
  /\ err_calls = 0
  /\ queued = <<>>
  /\ crashed = FALSE

------------------------------------------------------------------------------
(* The reference count macros. QMI_CCI_DEC_TXN ignores NULL and a count    *)
(* that is already zero; the decrement that reaches zero frees.            *)

\* Fault: the caller relies on the reference of the list.
Inc_Borrow(t) == UNCHANGED memory

Inc(t) == /\ ref_count' = [ref_count EXCEPT ![t] = @ + 1]
          /\ UNCHANGED freed

\* Fault: the macro decrements twice.
Dec_Twice(S) ==
  /\ ref_count' = [t \in Txn |-> IF t \in S /\ ref_count[t] > 0
                                 THEN ref_count[t] - 2 ELSE ref_count[t]]
  /\ freed' = [t \in Txn |-> freed[t] \/ (t \in S /\ ref_count[t] <= 2)]

Dec(S) ==
  /\ ref_count' = [t \in Txn |-> IF t \in S /\ ref_count[t] > 0
                                 THEN ref_count[t] - 1 ELSE ref_count[t]]
  /\ freed' = [t \in Txn |-> freed[t] \/ (t \in S /\ ref_count[t] = 1)]

\* Fault: the waiting synchronous caller is not signalled.
Wake_Silent(t) == UNCHANGED signal

Wake(t) == signal' = [signal EXCEPT ![t] = @ \/ t \in SyncTxn]

\* handle_txn_error: a synchronous caller is signalled, an asynchronous one
\* called back.
Fail(t, error) ==
  /\ rc' = [rc EXCEPT ![t] = error]
  /\ Wake(t)
  /\ done' = [done EXCEPT ![t] = Bump(@)]
  /\ UNCHANGED filled

------------------------------------------------------------------------------
(* Sending: qmi_client_send_*_{sync,async}, qmi_client_get_txn and         *)
(* qmi_cci_send.                                                           *)

\* qmi_cci_get_ref, then the category test of qmi_client_get_txn.
Begin(t) ==
  /\ At(t, "idle")
  /\ IF linked /\ category = "connected"
     THEN Goto(t, "add") /\ UNCHANGED result
     ELSE /\ Goto(t, "done")
          /\ result' = [result EXCEPT ![t] = IF linked THEN "service_err"
                                             ELSE "invalid_clnt"]
  /\ UNCHANGED <<client, txns, locals, world, verdict, hist, crashed>>

\* The new transaction enters txn_list holding the list's reference only.
GetTxn(t) ==
  /\ At(t, "add")
  /\ txn_list' = txn_list \cup {t}
  /\ ref_count' = [ref_count EXCEPT ![t] = 1]
  /\ rx_buf' = [rx_buf EXCEPT ![t] = TRUE]
  /\ Goto(t, IF t \in SyncTxn THEN "inc_own" ELSE "send")
  /\ UNCHANGED <<client, tx_q, freed, answer, locals, world, seen>>

\* "This function is going to maintain a reference" (synchronous sends).
TakeOwnRef(t) ==
  /\ At(t, "inc_own")
  /\ Inc(t)
  /\ Goto(t, "prep")
  /\ UNCHANGED <<client, lists, answer, rx_buf, locals, world, seen>>

PrepareWait(t) ==
  /\ At(t, "prep")
  /\ signal' = [signal EXCEPT ![t] = FALSE]
  /\ rc' = [rc EXCEPT ![t] = "timeout"]
  /\ Goto(t, "send")
  /\ UNCHANGED <<client, lists, memory, done, filled, rx_buf, locals, world,
                 seen>>

SendFailed(t, error) ==
  /\ result' = [result EXCEPT ![t] = error]
  /\ Goto(t, IF t \in SyncTxn THEN "fin_inval" ELSE "failed")

\* encode_and_send up to the category test of qmi_cci_send.
CheckServer(t) ==
  /\ At(t, "send")
  /\ \/ "encode_err" \in Env /\ SendFailed(t, "encode_err")
     \/ category # "connected" /\ SendFailed(t, "service_err")
     \/ category = "connected" /\ Goto(t, "inc_tx") /\ UNCHANGED result
  /\ UNCHANGED <<client, txns, locals, world, verdict, hist, crashed>>

\* "Take a reference for the tx queue".
TakeQueueRef(t) ==
  /\ At(t, "inc_tx")
  /\ Inc(t)
  /\ Goto(t, "enq")
  /\ UNCHANGED <<client, lists, answer, rx_buf, locals, world, seen>>

AfterSend(t) == IF t \in SyncTxn THEN "wait" ELSE "done"

\* The tx_q_lock section of qmi_cci_send: only the sender that finds the
\* queue empty flushes it.
Enqueue(t) ==
  /\ At(t, "enq")
  /\ \/ /\ ~accepting_txns
        /\ Goto(t, "dec_tx")
        /\ UNCHANGED <<tx_q, result, queued>>
     \/ /\ accepting_txns
        /\ tx_q' = Append(tx_q, t)
        /\ queued' = Append(queued, t)
        /\ Goto(t, IF tx_q = <<>> THEN "fl_addr" ELSE AfterSend(t))
        /\ result' = [result EXCEPT ![t] = IF t \in AsyncTxn THEN "ok" ELSE @]
  /\ UNCHANGED <<client, txn_list, memory, answer, rx_buf, locals, world,
                 verdict, err_calls, crashed>>

UndoQueueRef(t) ==
  /\ At(t, "dec_tx")
  /\ Dec({t})
  /\ SendFailed(t, "invalid_clnt")
  /\ UNCHANGED <<client, lists, answer, rx_buf, locals, world, verdict, hist,
                 crashed>>

\* A failed asynchronous send: a transaction no longer in txn_list was
\* completed by somebody else, and the send then reports success but hands
\* out no transaction handle.
AbandonAsync(t) ==
  /\ At(t, "failed")
  /\ IF t \in txn_list
     THEN Dec({t}) /\ UNCHANGED returns
     ELSE /\ result' = [result EXCEPT ![t] = "ok"]
          /\ verdict' = [verdict EXCEPT ![t] = "no_handle"]
          /\ UNCHANGED memory
  /\ txn_list' = txn_list \ {t}
  /\ Goto(t, "done")
  /\ UNCHANGED <<client, tx_q, answer, rx_buf, locals, world, hist, crashed>>

------------------------------------------------------------------------------
(* The synchronous caller: qmi_cci_response_wait_loop and what follows it. *)

WaitReturns(t, error) ==
  /\ result' = [result EXCEPT ![t] = error]
  /\ Goto(t, "fin_inval")

\* The signal was set: clear it, then look at rc (a stray wake-up waits again).
WakeUp(t) ==
  /\ At(t, "wait") /\ signal[t]
  /\ signal' = [signal EXCEPT ![t] = FALSE]
  /\ IF rc[t] # "timeout" THEN WaitReturns(t, rc[t])
                          ELSE UNCHANGED <<pc, result>>
  /\ UNCHANGED <<client, lists, memory, rc, done, filled, rx_buf, locals,
                 world, verdict, hist, crashed>>

\* Fault: the timed-out branch leaves the loop without setting its result.
TimeOut_Ok(t) ==
  /\ "timeout" \in Env
  /\ At(t, "wait")
  /\ WaitReturns(t, "ok")
  /\ signal' = [signal EXCEPT ![t] = FALSE]
  /\ UNCHANGED <<client, lists, memory, rc, done, filled, rx_buf, locals,
                 world, verdict, hist, crashed>>

TimeOut(t) ==
  /\ "timeout" \in Env
  /\ At(t, "wait")
  /\ WaitReturns(t, "timeout")
  /\ signal' = [signal EXCEPT ![t] = FALSE]
  /\ UNCHANGED <<client, lists, memory, rc, done, filled, rx_buf, locals,
                 world, verdict, hist, crashed>>

\* INVALIDATE_TXN_RX_BUF_SAFE: from here on nobody may write the response.
Invalidate(t) ==
  /\ At(t, "fin_inval")
  /\ rx_buf' = [rx_buf EXCEPT ![t] = FALSE]
  /\ Goto(t, "fin_remove")
  /\ UNCHANGED <<client, lists, memory, answer, locals, world, seen>>

\* remove_txn: drops the list's reference if the transaction is still listed.
RemoveSync(t) ==
  /\ At(t, "fin_remove")
  /\ Dec({t} \cap txn_list)
  /\ txn_list' = txn_list \ {t}
  /\ Goto(t, "fin_dec")
  /\ UNCHANGED <<client, tx_q, answer, rx_buf, locals, world, seen>>

DropOwnRef(t) ==
  /\ At(t, "fin_dec")
  /\ Dec({t})
  /\ Goto(t, "done")
  /\ UNCHANGED <<client, lists, answer, rx_buf, locals, world, seen>>

------------------------------------------------------------------------------
(* qmi_client_delete_async_txn, called once the send returned a handle.    *)

DeleteAsync(t) ==
  /\ "delete" \in Env
  /\ t \in AsyncTxn /\ At(t, "done")
  /\ result[t] = "ok" /\ verdict[t] = "none"
  /\ IF linked THEN Goto(t, "del_tx") /\ UNCHANGED verdict
     ELSE /\ verdict' = [verdict EXCEPT ![t] = "invalid_clnt"]
          /\ Goto(t, "deleted")
  /\ UNCHANGED <<client, txns, locals, world, result, hist, crashed>>

\* Fault: the reference of the tx queue is kept.
DeleteFromTxQ_Keep(t) ==
  /\ At(t, "del_tx")
  /\ tx_q' = Unlink(tx_q, t)
  /\ Goto(t, "del_list")
  /\ UNCHANGED <<client, txn_list, memory, answer, rx_buf, locals, world,
                 seen>>

\* "Find and remove txn from tx queue first".
DeleteFromTxQ(t) ==
  /\ At(t, "del_tx")
  /\ tx_q' = Unlink(tx_q, t)
  /\ Dec({t} \cap Elems(tx_q))
  /\ Goto(t, "del_list")
  /\ UNCHANGED <<client, txn_list, answer, rx_buf, locals, world, seen>>

\* Fault: deletion succeeds without looking the transaction up.
DeleteFromList_Blind(t) ==
  /\ At(t, "del_list")
  /\ txn_list' = txn_list \ {t}
  /\ Goto(t, "del_free")
  /\ UNCHANGED <<client, tx_q, memory, answer, rx_buf, locals, world, seen>>

DeleteFromList(t) ==
  /\ At(t, "del_list")
  /\ txn_list' = txn_list \ {t}
  /\ IF t \in txn_list
     THEN Goto(t, "del_free") /\ UNCHANGED verdict
     ELSE /\ Goto(t, "deleted")
          /\ verdict' = [verdict EXCEPT ![t] = "invalid_txn"]
  /\ UNCHANGED <<client, tx_q, memory, answer, rx_buf, locals, world, result,
                 hist, crashed>>

DeleteFree(t) ==
  /\ At(t, "del_free")
  /\ rx_buf' = [rx_buf EXCEPT ![t] = FALSE]
  /\ Dec({t})
  /\ verdict' = [verdict EXCEPT ![t] = "ok"]
  /\ Goto(t, "deleted")
  /\ UNCHANGED <<client, lists, answer, locals, world, result, hist, crashed>>

------------------------------------------------------------------------------
(* qmi_cci_flush_tx_q, run by a sender and by the data thread.             *)

FlushExit(th) == IF th \in Txn THEN AfterSend(th) ELSE "idle"

\* Fault: without a server the flush just returns.
FlushStart_NoCleanup(th) ==
  /\ At(th, "fl_addr")
  /\ Goto(th, IF category = "connected" THEN "fl_send" ELSE FlushExit(th))
  /\ UNCHANGED <<client, txns, locals, world, seen>>

\* get_dest_addr.
FlushStart(th) ==
  /\ At(th, "fl_addr")
  /\ Goto(th, IF category = "connected" THEN "fl_send" ELSE "cl_tx")
  /\ UNCHANGED <<client, txns, locals, world, seen>>

\* xport->ops->send under tx_q_lock: what the transport may answer.
SendAnswers ==
  IF ~accepting_txns THEN {"invalid_clnt"}
  ELSE IF blocked THEN {"busy"}
  ELSE {"ok"} \cup (Env \cap {"service_err", "transport_err"})

FlushDone(th) ==
  /\ At(th, "fl_send") /\ tx_q = <<>>
  /\ Goto(th, FlushExit(th))
  /\ UNCHANGED <<client, txns, locals, world, seen>>

\* Fault: the refused request goes to the end of the queue.
FlushBusy_Requeue(th) ==
  /\ At(th, "fl_send") /\ tx_q # <<>> /\ "busy" \in SendAnswers
  /\ tx_q' = Append(Tail(tx_q), Head(tx_q))
  /\ waiter' = TRUE
  /\ Goto(th, FlushExit(th))
  /\ UNCHANGED <<client, txn_list, memory, answer, rx_buf, locals, wire,
                 server, blocked, resume_evt, blocks, seen>>

\* "xport is flow controlled, try again later": the transport owes a resume.
FlushBusy(th) ==
  /\ At(th, "fl_send") /\ tx_q # <<>> /\ "busy" \in SendAnswers
  /\ waiter' = TRUE
  /\ Goto(th, FlushExit(th))
  /\ UNCHANGED <<client, txns, locals, wire, server, blocked, resume_evt,
                 blocks, seen>>

FlushSend(th) ==
  /\ At(th, "fl_send") /\ tx_q # <<>>
  /\ \E a \in SendAnswers \ {"busy"} :
        /\ send_rc' = [send_rc EXCEPT ![th] = a]
        /\ Goto(th, IF a = "ok" THEN "fl_dec" ELSE "fl_find")
        /\ wire' = IF a = "ok" THEN Append(wire, Head(tx_q)) ELSE wire
  /\ cur' = [cur EXCEPT ![th] = Head(tx_q)]
  /\ tx_q' = Tail(tx_q)
  /\ UNCHANGED <<client, txn_list, memory, answer, rx_buf, moved, owes_err,
                 closing, server, flow, seen>>

AfterSendError(th) ==
  IF send_rc[th] = "service_err" THEN "server_error" ELSE "fl_dec"

\* Fault: the failed transaction is unlisted but not reported.
FlushFind_Drop(th) ==
  /\ At(th, "fl_find")
  /\ txn_list' = txn_list \ {cur[th]}
  /\ Goto(th, AfterSendError(th))
  /\ UNCHANGED <<client, tx_q, memory, answer, rx_buf, locals, world, seen>>

\* LIST_FIND assigns its iterator, so a transaction that is not found leaves
\* the local variable txn NULL.
FlushFind(th) ==
  /\ At(th, "fl_find")
  /\ txn_list' = txn_list \ {cur[th]}
  /\ IF cur[th] \in txn_list
     THEN Goto(th, "fl_error") /\ UNCHANGED cur
     ELSE /\ Goto(th, AfterSendError(th))
          /\ cur' = [cur EXCEPT ![th] = NoTxn]
  /\ UNCHANGED <<client, tx_q, memory, answer, rx_buf, send_rc, moved,
                 owes_err, closing, world, seen>>

FlushError(th) ==
  /\ At(th, "fl_error")
  /\ Fail(cur[th], send_rc[th])
  /\ Dec({cur[th]})
  /\ Goto(th, AfterSendError(th))
  /\ UNCHANGED <<client, lists, rx_buf, locals, world, seen>>

\* Fault: one request per flush.
FlushDrop_Once(th) ==
  /\ At(th, "fl_dec")
  /\ Dec({cur[th]} \ {NoTxn})
  /\ cur' = [cur EXCEPT ![th] = NoTxn]
  /\ send_rc' = [send_rc EXCEPT ![th] = "ok"]
  /\ Goto(th, FlushExit(th))
  /\ UNCHANGED <<client, lists, answer, rx_buf, moved, owes_err, closing,
                 world, seen>>

\* "Release tx_q ref count".
FlushDrop(th) ==
  /\ At(th, "fl_dec")
  /\ Dec({cur[th]} \ {NoTxn})
  /\ cur' = [cur EXCEPT ![th] = NoTxn]
  /\ send_rc' = [send_rc EXCEPT ![th] = "ok"]
  /\ Goto(th, "fl_send")
  /\ UNCHANGED <<client, lists, answer, rx_buf, moved, owes_err, closing,
                 world, seen>>

------------------------------------------------------------------------------
(* qmi_cci_xport_event_server_error and cleanup_client_lists.              *)

\* Fault: an error nobody registered for is not remembered.
ServerError_Forget(th) ==
  /\ At(th, "server_error")
  /\ category' = "dormant"
  /\ owes_err' = IF category = "connected" /\ err_cb
                 THEN owes_err \cup {th} ELSE owes_err
  /\ Goto(th, "cl_tx")
  /\ UNCHANGED <<linked, accepting_txns, err_cb, err_pending, txns, cur,
                 send_rc, moved, closing, world, seen>>

ServerError(th) ==
  /\ At(th, "server_error")
  /\ category' = "dormant"
  /\ IF category # "connected" THEN UNCHANGED <<err_pending, owes_err>>
     ELSE /\ owes_err' = IF err_cb THEN owes_err \cup {th} ELSE owes_err
          /\ err_pending' = (err_pending \/ ~err_cb)
  /\ Goto(th, "cl_tx")
  /\ UNCHANGED <<linked, accepting_txns, err_cb, txns, cur, send_rc, moved,
                 closing, world, seen>>

\* Detach tx_q and give up its references.
CleanTxQ(th) ==
  /\ At(th, "cl_tx")
  /\ tx_q' = <<>>
  /\ Dec(Elems(tx_q))
  /\ Goto(th, "cl_list")
  /\ UNCHANGED <<client, txn_list, answer, rx_buf, locals, world, seen>>

\* Fault: the list is walked but not emptied.
CleanList_Keep(th) ==
  /\ At(th, "cl_list")
  /\ moved' = [moved EXCEPT ![th] = txn_list]
  /\ Goto(th, "cl_each")
  /\ UNCHANGED <<client, txns, cur, send_rc, owes_err, closing, world, seen>>

\* Detach txn_list; its references now belong to the cleaning thread.
CleanList(th) ==
  /\ At(th, "cl_list")
  /\ moved' = [moved EXCEPT ![th] = txn_list]
  /\ txn_list' = {}
  /\ Goto(th, "cl_each")
  /\ UNCHANGED <<client, tx_q, memory, answer, rx_buf, cur, send_rc, owes_err,
                 closing, world, seen>>

CleanError(th) == IF th = Releaser THEN "internal_err" ELSE "service_err"

CleanEach(th) ==
  /\ At(th, "cl_each")
  /\ \E t \in moved[th] :
        /\ Fail(t, CleanError(th))
        /\ rx_buf' = [rx_buf EXCEPT ![t] = FALSE]
        /\ Dec({t})
        /\ moved' = [moved EXCEPT ![th] = @ \ {t}]
  /\ UNCHANGED <<client, lists, pc, cur, send_rc, owes_err, closing, world,
                 seen>>

\* After the cleanup: the captured error callback, then back to the caller.
CleanExit(th) ==
  IF th = Releaser THEN "rel_close"
  ELSE IF send_rc[th] = "service_err" THEN "fl_dec" ELSE FlushExit(th)

CleanDone(th) ==
  /\ At(th, "cl_each") /\ moved[th] = {}
  /\ err_calls' = err_calls + (IF th \in owes_err THEN 1 ELSE 0)
  /\ owes_err' = owes_err \ {th}
  /\ Goto(th, CleanExit(th))
  /\ UNCHANGED <<client, txns, cur, send_rc, moved, closing, world, returns,
                 queued, crashed>>

\* qmi_client_register_error_cb by the user, once.
RegisterErrorCb ==
  /\ "register" \in Env /\ linked /\ ~err_cb
  /\ err_cb' = TRUE
  /\ err_calls' = err_calls + (IF err_pending THEN 1 ELSE 0)
  /\ UNCHANGED <<category, linked, accepting_txns, err_pending, txns, pc,
                 locals, world, returns, queued, crashed>>

------------------------------------------------------------------------------
(* The data reader thread (data_msg_reader_thread) and qmi_cci_xport_recv. *)

Reading == At(Data, "idle")

\* Category test and lookup in txn_list: the thread that removes the
\* transaction from the list inherits the list's reference.
RecvFind(m) ==
  /\ Reading /\ m \in inbox
  /\ inbox' = inbox \ {m}
  /\ IF category = "connected" /\ m.txn \in txn_list
     THEN /\ txn_list' = txn_list \ {m.txn}
          /\ cur' = [cur EXCEPT ![Data] = m.txn]
          /\ Goto(Data, IF m.good THEN "recv_good" ELSE "recv_bad")
     ELSE UNCHANGED <<txn_list, pc, cur>>
  /\ UNCHANGED <<client, tx_q, memory, answer, rx_buf, send_rc, moved,
                 owes_err, closing, wire, answered, server_up, gone_evt, flow,
                 seen>>

\* Fault: the buffer pointer is not tested before the copy.
RecvDeliver_Unchecked ==
  /\ At(Data, "recv_good")
  /\ LET t == cur[Data] IN
     /\ rc' = [rc EXCEPT ![t] = "ok"]
     /\ filled' = [filled EXCEPT ![t] = TRUE]
     /\ Wake(t)
     /\ done' = [done EXCEPT ![t] = Bump(@)]
     /\ Dec({t})
  /\ cur' = [cur EXCEPT ![Data] = NoTxn]
  /\ Goto(Data, "idle")
  /\ UNCHANGED <<client, lists, rx_buf, send_rc, moved, owes_err, closing,
                 world, seen>>

\* The response is delivered under txn->lock if the user's buffer is still
\* there, and the list's reference is dropped.
RecvDeliver ==
  /\ At(Data, "recv_good")
  /\ LET t == cur[Data] IN
     /\ IF rx_buf[t]
        THEN /\ rc' = [rc EXCEPT ![t] = "ok"]
             /\ filled' = [filled EXCEPT ![t] = TRUE]
             /\ Wake(t)
             /\ done' = [done EXCEPT ![t] = Bump(@)]
        ELSE UNCHANGED answer
     /\ Dec({t})
  /\ cur' = [cur EXCEPT ![Data] = NoTxn]
  /\ Goto(Data, "idle")
  /\ UNCHANGED <<client, lists, rx_buf, send_rc, moved, owes_err, closing,
                 world, seen>>

\* "mismatched msg_id, something went wrong - bail".
RecvMismatch ==
  /\ At(Data, "recv_bad")
  /\ Fail(cur[Data], "invalid_txn")
  /\ Dec({cur[Data]})
  /\ cur' = [cur EXCEPT ![Data] = NoTxn]
  /\ Goto(Data, "idle")
  /\ UNCHANGED <<client, lists, rx_buf, send_rc, moved, owes_err, closing,
                 world, seen>>

\* A zero-length read is the transport's Resume_Tx: qmi_cci_xport_resume.
RecvResume ==
  /\ Reading /\ resume_evt
  /\ resume_evt' = FALSE
  /\ Goto(Data, "fl_addr")
  /\ UNCHANGED <<client, txns, locals, wire, server, blocked, waiter, blocks,
                 seen>>

\* 'r' in the wake-up pipe: qmi_cci_xport_event_remove_server.
RecvServerGone ==
  /\ Reading /\ gone_evt
  /\ gone_evt' = FALSE
  /\ Goto(Data, "server_error")
  /\ UNCHANGED <<client, txns, locals, wire, inbox, answered, server_up, flow,
                 seen>>

\* 'd' in the wake-up pipe: the thread closes the socket and exits.
RecvClose ==
  /\ Reading /\ closing
  /\ Goto(Data, "stopped")
  /\ UNCHANGED <<client, txns, locals, world, seen>>

------------------------------------------------------------------------------
(* qmi_client_release_async.                                               *)

ReleaseStart ==
  /\ "release" \in Env
  /\ At(Releaser, "idle") /\ linked
  /\ linked' = FALSE
  /\ Goto(Releaser, "rel_gate")
  /\ UNCHANGED <<category, accepting_txns, err_cb, err_pending, txns, locals,
                 world, seen>>

\* Fault: the release does not stop new requests.
ReleaseGate_Open ==
  /\ At(Releaser, "rel_gate")
  /\ Goto(Releaser, "cl_tx")
  /\ UNCHANGED <<client, txns, locals, world, seen>>

\* "From now on all calls to qmi_cci_send will fail".
ReleaseGate ==
  /\ At(Releaser, "rel_gate")
  /\ accepting_txns' = FALSE
  /\ Goto(Releaser, "cl_tx")
  /\ UNCHANGED <<category, linked, err_cb, err_pending, txns, locals, world,
                 seen>>

ReleaseClose ==
  /\ At(Releaser, "rel_close")
  /\ closing' = TRUE
  /\ Goto(Releaser, "done")
  /\ UNCHANGED <<client, txns, cur, send_rc, moved, owes_err, world, seen>>

------------------------------------------------------------------------------
(* The transport and the server: not code of this module, but what its     *)
(* interface (qmi_cci_xport_qrtr.c) lets happen.                           *)

\* One response per request, in any order; with "mismatch" the message id
\* may not be the request's.
Respond(t) ==
  /\ server_up /\ t \in Elems(wire) \ answered
  /\ \E good \in {TRUE} \cup (IF "mismatch" \in Env THEN {FALSE} ELSE {}) :
        inbox' = inbox \cup {[txn |-> t, good |-> good]}
  /\ answered' = answered \cup {t}
  /\ UNCHANGED <<client, txns, pc, locals, wire, server_up, gone_evt, flow,
                 seen>>

\* The server goes away; the control thread reads DEL_SERVER and tells the
\* data thread.
ServerDies ==
  /\ "death" \in Env /\ server_up
  /\ server_up' = FALSE /\ gone_evt' = TRUE
  /\ UNCHANGED <<client, txns, pc, locals, wire, inbox, answered, flow, seen>>

Block ==
  /\ "busy" \in Env /\ ~blocked /\ blocks < MaxBlocks
  /\ blocked' = TRUE /\ blocks' = blocks + 1
  /\ UNCHANGED <<client, txns, pc, locals, wire, server, waiter, resume_evt,
                 seen>>

Unblock ==
  /\ blocked
  /\ blocked' = FALSE
  /\ resume_evt' = (resume_evt \/ waiter)
  /\ waiter' = FALSE
  /\ UNCHANGED <<client, txns, pc, locals, wire, server, blocks, seen>>

\* A caller is about to use a transaction whose memory was freed. Either the
\* memory is still intact (the ordinary action) or the process dies.
UsesOwnTxn == {"inc_own", "prep", "send", "inc_tx", "enq", "dec_tx", "wait",
               "fin_inval", "fin_dec"}

UseAfterFree(t) ==
  /\ freed[t] /\ pc[t] \in UsesOwnTxn
  /\ crashed' = TRUE
  /\ UNCHANGED <<client, txns, pc, locals, world, returns, hist>>

------------------------------------------------------------------------------
CallerStep(t) ==
  \/ GetTxn(t) \/ TakeOwnRef(t) \/ PrepareWait(t) \/ CheckServer(t)
  \/ TakeQueueRef(t) \/ Enqueue(t) \/ UndoQueueRef(t) \/ AbandonAsync(t)
  \/ WakeUp(t) \/ Invalidate(t) \/ RemoveSync(t) \/ DropOwnRef(t)
  \/ DeleteFromTxQ(t) \/ DeleteFromList(t) \/ DeleteFree(t)

FlushStep(th) ==
  \/ FlushStart(th) \/ FlushDone(th) \/ FlushBusy(th) \/ FlushSend(th)
  \/ FlushFind(th) \/ FlushError(th) \/ FlushDrop(th)

CleanStep(th) ==
  \/ ServerError(th) \/ CleanTxQ(th) \/ CleanList(th) \/ CleanEach(th)
  \/ CleanDone(th)

DataStep ==
  \/ \E m \in inbox : RecvFind(m)
  \/ RecvDeliver \/ RecvMismatch \/ RecvResume \/ RecvServerGone \/ RecvClose

ReleaseStep == ReleaseGate \/ ReleaseClose

UserStep ==
  \/ \E t \in Txn : Begin(t) \/ TimeOut(t) \/ DeleteAsync(t)
  \/ RegisterErrorCb \/ ReleaseStart

EnvStep ==
  \/ \E t \in Txn : Respond(t) \/ UseAfterFree(t)
  \/ ServerDies \/ Block \/ Unblock

\* Every call has returned: the program may rest here.
Resting ==
  /\ \A t \in Txn : pc[t] \in {"done", "deleted"}
  /\ pc[Data] \in {"idle", "stopped"} /\ pc[Releaser] \in {"idle", "done"}

Rest == (Resting \/ crashed) /\ UNCHANGED vars

Next ==
  \/ /\ ~crashed
     /\ \/ \E t \in Txn : CallerStep(t)
        \/ \E th \in Thread : FlushStep(th) \/ CleanStep(th)
        \/ DataStep \/ ReleaseStep \/ UserStep \/ EnvStep
  \/ Rest

Spec == Init /\ [][Next]_vars

\* Threads of the process are scheduled, the server answers what it was sent
\* and a flow-controlled port eventually drains. Nothing obliges a user to
\* call, a timer to expire or the server to die.
Fairness ==
  /\ \A t \in Txn : WF_vars(~crashed /\ CallerStep(t))
  /\ \A th \in Thread : WF_vars(~crashed /\ (FlushStep(th) \/ CleanStep(th)))
  /\ WF_vars(~crashed /\ DataStep)
  /\ WF_vars(~crashed /\ ReleaseStep)
  /\ \A t \in Txn : WF_vars(~crashed /\ Respond(t))
  /\ WF_vars(~crashed /\ Unblock)

FairSpec == Spec /\ Fairness

------------------------------------------------------------------------------
(* Properties.                                                             *)

ClientType ==
  /\ category \in {"connected", "dormant"}
  /\ linked \in BOOLEAN /\ accepting_txns \in BOOLEAN
  /\ err_cb \in BOOLEAN /\ err_pending \in BOOLEAN

TxnType ==
  /\ txn_list \subseteq Txn /\ tx_q \in Seq(Txn)
  /\ ref_count \in [Txn -> Nat] /\ freed \in [Txn -> BOOLEAN]
  /\ rc \in [Txn -> Codes] /\ done \in [Txn -> 0..2]
  /\ signal \in [Txn -> BOOLEAN] /\ filled \in [Txn -> BOOLEAN]
  /\ rx_buf \in [Txn -> BOOLEAN]

ThreadType ==
  /\ pc \in [Thread -> CallerPC \cup FlushPC \cup CleanPC \cup DataPC
                       \cup RelPC]
  /\ cur \in [Thread -> Txn \cup {NoTxn}]
  /\ send_rc \in [Thread -> Codes]
  /\ moved \in [Thread -> SUBSET Txn]
  /\ owes_err \subseteq Thread /\ closing \in BOOLEAN

WorldType ==
  /\ wire \in Seq(Txn)
  /\ inbox \subseteq [txn : Txn, good : BOOLEAN]
  /\ answered \subseteq Txn /\ server_up \in BOOLEAN /\ gone_evt \in BOOLEAN
  /\ blocked \in BOOLEAN /\ waiter \in BOOLEAN /\ resume_evt \in BOOLEAN
  /\ blocks \in Nat

SeenType ==
  /\ result \in [Txn -> Codes]
  /\ verdict \in [Txn -> Codes \cup {"no_handle"}]
  /\ err_calls \in Nat /\ queued \in Seq(Txn) /\ crashed \in BOOLEAN

\* Every variable of the client, the transactions, the threads, the transport
\* and the users stays within its type.
TypeOK == ClientType /\ TxnType /\ ThreadType /\ WorldType /\ SeenType

\* Whoever takes a transaction off txn_list completes it, so a transaction is
\* completed (callback or signal) at most once; never after
\* qmi_client_delete_async_txn said QMI_NO_ERR, and never after an
\* asynchronous send returned an error to its caller.
CompletedOnce ==
  \A t \in Txn :
    /\ done[t] <= 1
    /\ verdict[t] = "ok" => done[t] = 0
    /\ (t \in AsyncTxn /\ pc[t] = "done" /\ result[t] # "ok") => done[t] = 0

\* The user's response buffer is lent until the synchronous call returns, the
\* callback has run, or the deletion or the send reported its result.
Lent(t) ==
  /\ pc[t] # "done" \/ (t \in AsyncTxn /\ result[t] = "ok")
  /\ done[t] = 0 /\ verdict[t] # "ok"

\* The data thread never writes a response buffer it no longer has on loan,
\* whatever timeout, deletion or failure raced with the response.
NoStrayWrite ==
  [][\A t \in Txn : filled'[t] # filled[t] => Lent(t)]_vars

\* A synchronous send reports success only when the response is in the
\* caller's buffer: a stale or early wake-up is never taken for an answer.
SyncOkIsFilled ==
  \A t \in SyncTxn : pc[t] = "done" /\ result[t] = "ok" => filled[t]

\* Who holds a reference on t: the two lists, its caller, the threads that
\* took it off a list.
Holds(th, t) ==
  (IF cur[th] = t /\ pc[th] # "fl_error" THEN 1 ELSE 0)
  + (IF cur[th] = t /\ pc[th] = "fl_error" THEN 2 ELSE 0)
  + (IF t \in moved[th] THEN 1 ELSE 0)

CallerHolds(t) ==
  (IF t \in SyncTxn /\ pc[t] \notin {"idle", "add", "inc_own", "done"}
   THEN 1 ELSE 0)
  + (IF pc[t] \in {"enq", "dec_tx", "del_free"} THEN 1 ELSE 0)

Holders(t) ==
  (IF t \in txn_list THEN 1 ELSE 0)
  + Cardinality({i \in 1..Len(tx_q) : tx_q[i] = t})
  + CallerHolds(t)
  + Cardinality({th \in Thread : Holds(th, t) >= 1})
  + Cardinality({th \in Thread : Holds(th, t) = 2})

\* Reference counts are exact: every count equals the number of references
\* the lists and the threads hold, so nothing leaks and nothing is freed
\* under a holder.
RefExact == \A t \in Txn : ref_count[t] = Holders(t)

\* "The thread waiting on a sync response will free the transation after
\* waking up" (note of handle_txn_error): a synchronous transaction is not
\* freed before its caller is through with it.
SyncFreedByCaller ==
  \A t \in SyncTxn : freed[t] => pc[t] = "done"

\* No thread is about to use, and no list links, a freed transaction.
NoUseAfterFree ==
  \A t \in Txn : freed[t] =>
    /\ pc[t] \notin UsesOwnTxn
    /\ t \notin txn_list \cup Elems(tx_q)
    /\ \A th \in Thread : cur[th] # t /\ t \notin moved[th]

Before(s, t) ==
  \E k, l \in 1..Len(queued) : k < l /\ queued[k] = s /\ queued[l] = t

\* Requests leave once, in the order in which they entered tx_q, whichever
\* threads flush it and however often the port is flow controlled.
FifoWire ==
  \A i, j \in 1..Len(wire) :
    i < j => wire[i] # wire[j] /\ Before(wire[i], wire[j])

\* No lost wake-up: a request waits in tx_q only while some thread is on its
\* way to flush or clean the queue, or the transport owes a resume event.
Tending == FlushPC \cup CleanPC \cup {"rel_gate"}

QueueIsTended ==
  tx_q # <<>> =>
    \/ waiter \/ resume_evt
    \/ \E th \in Thread : pc[th] \in Tending

\* The error callback runs exactly once for the death of the server, however
\* its registration interleaves with the loss of the connection.
ErrorReportedOnce ==
  err_calls + Cardinality(owes_err)
    = IF err_cb /\ category = "dormant" THEN 1 ELSE 0

\* When every call has returned and all events were handled, no transaction
\* is left in a list: each was answered, failed or deleted.
Settled ==
  \/ pc[Data] = "stopped"
  \/ /\ inbox = {} /\ ~gone_evt /\ ~resume_evt /\ ~blocked
     /\ server_up => Elems(wire) \subseteq answered

NothingForgotten == Resting /\ Settled => txn_list = {} /\ tx_q = <<>>

\* A synchronous call whose request was accepted returns, with no timeout to
\* rescue it: it is answered, or the loss of the server or the release of the
\* client wakes it.
SyncReturns ==
  \A t \in SyncTxn : pc[t] = "wait" ~> (pc[t] = "done" \/ crashed)

\* An asynchronous send that reported success is called back or deleted.
AsyncSettles ==
  \A t \in AsyncTxn :
    result[t] = "ok" ~> (done[t] = 1 \/ verdict[t] = "ok" \/ crashed)

------------------------------------------------------------------------------
(* Refinement: the calls as their users see them.                          *)

CallState(t) ==
  CASE pc[t] = "idle" -> "new"
    [] t \in SyncTxn /\ pc[t] = "done" ->
         IF result[t] = "ok" THEN "returned" ELSE "refused"
    [] t \in AsyncTxn /\ pc[t] = "done" /\ result[t] # "ok" -> "refused"
    [] t \in AsyncTxn /\ verdict[t] = "ok" -> "cancelled"
    [] t \in AsyncTxn /\ done[t] = 1 -> "called_back"
    [] t \in AsyncTxn /\ done[t] = 2 -> "called_back_twice"
    [] OTHER -> "pending"

Promise == INSTANCE QmiCalls WITH
  SyncCall <- SyncTxn, AsyncCall <- AsyncTxn,
  call   <- [t \in Txn |-> CallState(t)],
  buffer <- [t \in Txn |-> IF filled[t] THEN "full" ELSE "empty"]

\* QcciTxn implements the abstract calls of QmiCalls: every step of any
\* thread is a legal step, or a stutter, of the call each user made.
ImplementsCalls == Promise!Spec
=============================================================================
