----------------------- MODULE QcciTxn_outcome_proofs -----------------------
(***************************************************************************)
(* What the users of QcciTxn are told, proved for any number of callers    *)
(* and every combination of environment events: a success is backed by a   *)
(* response, no response is written after its buffer was taken back, the   *)
(* loss of the server is reported exactly once, every step is one step of  *)
(* one user's call in QmiCalls, or none of them notices it, and when every *)
(* thread is at rest nothing is left listed or queued without a reason.    *)
(***************************************************************************)
EXTENDS QcciTxn_proofs

------------------------------------------------------------------------------
(* The inductive invariant of the synchronous calls.                       *)

\* A synchronous caller whose rc was preset to a time-out and who has not
\* yet left the wait loop.
Underway == {"send", "inc_tx", "enq", "dec_tx", "wait"} \cup FlushPC
              \cup CleanPC

\* Where no response buffer of a synchronous caller is on loan.
Unlent == {"idle", "add", "fin_remove", "fin_dec", "done"}

\* rc says "ok", and then the call returns it, only with the buffer filled;
\* the buffer is on loan only during the call.
SyncPart(t) ==
  /\ pc[t] # "failed"
  /\ pc[t] \in Unlent => ~rx_buf[t]
  /\ pc[t] \in Underway /\ rc[t] = "ok" => filled[t]
  /\ result[t] = "ok" => filled[t]

\* A flush fails a transaction only with the error the transport gave.
FailPart(th) == pc[th] \in {"fl_find", "fl_error"} => send_rc[th] # "ok"

OutcomeInv ==
  /\ \A t \in SyncTxn : SyncPart(t)
  /\ \A th \in Thread : FailPart(th)

\* No call has begun.
LEMMA OutcomeInit == Init => OutcomeInv
<1> SUFFICES ASSUME Init PROVE OutcomeInv
  OBVIOUS
<1>1. ASSUME NEW t \in SyncTxn PROVE SyncPart(t)
  BY DEF Init, SyncPart, Underway, FlushPC, CleanPC, Thread, Txn
<1>2. ASSUME NEW th \in Thread PROVE FailPart(th)
  BY DEF Init, FailPart
<1> QED BY <1>1, <1>2 DEF OutcomeInv

\* To the callers other than a, thread a only takes back a buffer, reports an
\* error, or reports success together with the response.
OthersKept(a) ==
  /\ \A th \in Thread \ {a} : pc'[th] = pc[th] /\ send_rc'[th] = send_rc[th]
  /\ \A t \in SyncTxn \ {a} :
        /\ result'[t] = result[t]
        /\ rx_buf'[t] => rx_buf[t]
        /\ filled[t] => filled'[t]
        /\ rc'[t] = rc[t] \/ rc'[t] # "ok" \/ filled'[t]

\* Such a step keeps the invariant if it keeps it for its own thread.
LEMMA OutcomeMove ==
  ASSUME NEW a \in Thread, OutcomeInv, OthersKept(a),
         a \in SyncTxn => SyncPart(a)', FailPart(a)'
  PROVE  OutcomeInv'
<1>1. ASSUME NEW t \in SyncTxn, t # a PROVE SyncPart(t)'
  BY <1>1 DEF OutcomeInv, SyncPart, OthersKept, Thread, Txn
<1>2. ASSUME NEW th \in Thread, th # a PROVE FailPart(th)'
  BY <1>2 DEF OutcomeInv, FailPart, OthersKept
<1> QED BY <1>1, <1>2 DEF OutcomeInv

\* A step that leaves the calls and the flushes alone keeps the invariant.
LEMMA OutcomeStill ==
  ASSUME OutcomeInv, UNCHANGED <<pc, send_rc, result, rx_buf, filled, rc>>
  PROVE  OutcomeInv'
BY DEF OutcomeInv, SyncPart, FailPart

\* Every step keeps successes backed by responses and buffers on loan only
\* during the call.
LEMMA OutcomeStep == TypeOK /\ OutcomeInv /\ [Next]_vars => OutcomeInv'
<1> SUFFICES ASSUME TypeOK, OutcomeInv, [Next]_vars PROVE OutcomeInv'
  OBVIOUS
<1>0. /\ pc \in [Thread -> CallerPC \cup FlushPC \cup CleanPC \cup DataPC
                           \cup RelPC]
      /\ send_rc \in [Thread -> Codes] /\ rc \in [Txn -> Codes]
      /\ rx_buf \in [Txn -> BOOLEAN] /\ filled \in [Txn -> BOOLEAN]
      /\ result \in [Txn -> Codes] /\ cur \in [Thread -> Txn \cup {NoTxn}]
      /\ moved \in [Thread -> SUBSET Txn] /\ OutcomeInv
      /\ SyncTxn \subseteq Txn /\ Txn \subseteq Thread
      /\ Data \in Thread /\ Releaser \in Thread
      /\ Data \notin SyncTxn /\ Releaser \notin SyncTxn
      /\ SyncTxn \cap AsyncTxn = {} /\ NoTxn \notin Txn
  BY TxnAssumption DEF TypeOK, TxnType, ThreadType, SeenType, Thread, Txn
<1> USE DEF At, Goto, client, lists, memory, answer, locals, server, flow,
            returns, hist, txns, world, seen
<1>1. ASSUME NEW t \in Txn, GetTxn(t) PROVE OutcomeInv'
  <2>1. OthersKept(t)
    BY <1>0, <1>1
    DEF OthersKept, GetTxn
  <2>2. t \in SyncTxn => SyncPart(t)'
    BY <1>0, <1>1
    DEF OutcomeInv, SyncPart, FailPart, Underway, Unlent, FlushPC, CleanPC,
       GetTxn
  <2>3. FailPart(t)'
    BY <1>0, <1>1
    DEF OutcomeInv, FailPart, GetTxn
  <2> QED BY <1>0, <2>1, <2>2, <2>3, OutcomeMove
<1>2. ASSUME NEW t \in Txn, TakeOwnRef(t) PROVE OutcomeInv'
  <2>1. OthersKept(t)
    BY <1>0, <1>2
    DEF OthersKept, TakeOwnRef
  <2>2. t \in SyncTxn => SyncPart(t)'
    BY <1>0, <1>2
    DEF OutcomeInv, SyncPart, FailPart, Underway, Unlent, FlushPC, CleanPC,
       TakeOwnRef
  <2>3. FailPart(t)'
    BY <1>0, <1>2
    DEF OutcomeInv, FailPart, TakeOwnRef
  <2> QED BY <1>0, <2>1, <2>2, <2>3, OutcomeMove
<1>3. ASSUME NEW t \in Txn, PrepareWait(t) PROVE OutcomeInv'
  <2>1. OthersKept(t)
    BY <1>0, <1>3
    DEF OthersKept, PrepareWait
  <2>2. t \in SyncTxn => SyncPart(t)'
    BY <1>0, <1>3
    DEF OutcomeInv, SyncPart, FailPart, Underway, Unlent, FlushPC, CleanPC,
       PrepareWait
  <2>3. FailPart(t)'
    BY <1>0, <1>3
    DEF OutcomeInv, FailPart, PrepareWait
  <2> QED BY <1>0, <2>1, <2>2, <2>3, OutcomeMove
<1>4. ASSUME NEW t \in Txn, CheckServer(t) PROVE OutcomeInv'
  <2>1. OthersKept(t)
    BY <1>0, <1>4
    DEF OthersKept, CheckServer, SendFailed
  <2>2. t \in SyncTxn => SyncPart(t)'
    BY <1>0, <1>4
    DEF OutcomeInv, SyncPart, FailPart, Underway, Unlent, FlushPC, CleanPC,
       CheckServer, SendFailed
  <2>3. FailPart(t)'
    BY <1>0, <1>4
    DEF OutcomeInv, FailPart, CheckServer, SendFailed
  <2> QED BY <1>0, <2>1, <2>2, <2>3, OutcomeMove
<1>5. ASSUME NEW t \in Txn, TakeQueueRef(t) PROVE OutcomeInv'
  <2>1. OthersKept(t)
    BY <1>0, <1>5
    DEF OthersKept, TakeQueueRef
  <2>2. t \in SyncTxn => SyncPart(t)'
    BY <1>0, <1>5
    DEF OutcomeInv, SyncPart, FailPart, Underway, Unlent, FlushPC, CleanPC,
       TakeQueueRef
  <2>3. FailPart(t)'
    BY <1>0, <1>5
    DEF OutcomeInv, FailPart, TakeQueueRef
  <2> QED BY <1>0, <2>1, <2>2, <2>3, OutcomeMove
<1>6. ASSUME NEW t \in Txn, Enqueue(t) PROVE OutcomeInv'
  <2>1. OthersKept(t)
    BY <1>0, <1>6
    DEF OthersKept, Enqueue, AfterSend
  <2>2. t \in SyncTxn => SyncPart(t)'
    BY <1>0, <1>6
    DEF OutcomeInv, SyncPart, FailPart, Underway, Unlent, FlushPC, CleanPC,
       Enqueue, AfterSend
  <2>3. FailPart(t)'
    BY <1>0, <1>6
    DEF OutcomeInv, FailPart, Enqueue, AfterSend
  <2> QED BY <1>0, <2>1, <2>2, <2>3, OutcomeMove
<1>7. ASSUME NEW t \in Txn, UndoQueueRef(t) PROVE OutcomeInv'
  <2>1. OthersKept(t)
    BY <1>0, <1>7
    DEF OthersKept, UndoQueueRef, SendFailed
  <2>2. t \in SyncTxn => SyncPart(t)'
    BY <1>0, <1>7
    DEF OutcomeInv, SyncPart, FailPart, Underway, Unlent, FlushPC, CleanPC,
       UndoQueueRef, SendFailed
  <2>3. FailPart(t)'
    BY <1>0, <1>7
    DEF OutcomeInv, FailPart, UndoQueueRef, SendFailed
  <2> QED BY <1>0, <2>1, <2>2, <2>3, OutcomeMove
<1>8. ASSUME NEW t \in Txn, AbandonAsync(t) PROVE OutcomeInv'
  <2>1. OthersKept(t)
    BY <1>0, <1>8
    DEF OthersKept, AbandonAsync
  <2>2. t \in SyncTxn => SyncPart(t)'
    BY <1>0, <1>8
    DEF OutcomeInv, SyncPart, FailPart, Underway, Unlent, FlushPC, CleanPC,
       AbandonAsync
  <2>3. FailPart(t)'
    BY <1>0, <1>8
    DEF OutcomeInv, FailPart, AbandonAsync
  <2> QED BY <1>0, <2>1, <2>2, <2>3, OutcomeMove
<1>9. ASSUME NEW t \in Txn, WakeUp(t) PROVE OutcomeInv'
  <2>1. OthersKept(t)
    BY <1>0, <1>9
    DEF OthersKept, WakeUp, WaitReturns
  <2>2. t \in SyncTxn => SyncPart(t)'
    BY <1>0, <1>9
    DEF OutcomeInv, SyncPart, FailPart, Underway, Unlent, FlushPC, CleanPC,
       WakeUp, WaitReturns
  <2>3. FailPart(t)'
    BY <1>0, <1>9
    DEF OutcomeInv, FailPart, WakeUp, WaitReturns
  <2> QED BY <1>0, <2>1, <2>2, <2>3, OutcomeMove
<1>10. ASSUME NEW t \in Txn, Invalidate(t) PROVE OutcomeInv'
  <2>1. OthersKept(t)
    BY <1>0, <1>10
    DEF OthersKept, Invalidate
  <2>2. t \in SyncTxn => SyncPart(t)'
    BY <1>0, <1>10
    DEF OutcomeInv, SyncPart, FailPart, Underway, Unlent, FlushPC, CleanPC,
       Invalidate
  <2>3. FailPart(t)'
    BY <1>0, <1>10
    DEF OutcomeInv, FailPart, Invalidate
  <2> QED BY <1>0, <2>1, <2>2, <2>3, OutcomeMove
<1>11. ASSUME NEW t \in Txn, RemoveSync(t) PROVE OutcomeInv'
  <2>1. OthersKept(t)
    BY <1>0, <1>11
    DEF OthersKept, RemoveSync
  <2>2. t \in SyncTxn => SyncPart(t)'
    BY <1>0, <1>11
    DEF OutcomeInv, SyncPart, FailPart, Underway, Unlent, FlushPC, CleanPC,
       RemoveSync
  <2>3. FailPart(t)'
    BY <1>0, <1>11
    DEF OutcomeInv, FailPart, RemoveSync
  <2> QED BY <1>0, <2>1, <2>2, <2>3, OutcomeMove
<1>12. ASSUME NEW t \in Txn, DropOwnRef(t) PROVE OutcomeInv'
  <2>1. OthersKept(t)
    BY <1>0, <1>12
    DEF OthersKept, DropOwnRef
  <2>2. t \in SyncTxn => SyncPart(t)'
    BY <1>0, <1>12
    DEF OutcomeInv, SyncPart, FailPart, Underway, Unlent, FlushPC, CleanPC,
       DropOwnRef
  <2>3. FailPart(t)'
    BY <1>0, <1>12
    DEF OutcomeInv, FailPart, DropOwnRef
  <2> QED BY <1>0, <2>1, <2>2, <2>3, OutcomeMove
<1>13. ASSUME NEW t \in Txn, DeleteFromTxQ(t) PROVE OutcomeInv'
  <2>1. OthersKept(t)
    BY <1>0, <1>13
    DEF OthersKept, DeleteFromTxQ
  <2>2. t \in SyncTxn => SyncPart(t)'
    BY <1>0, <1>13
    DEF OutcomeInv, SyncPart, FailPart, Underway, Unlent, FlushPC, CleanPC,
       DeleteFromTxQ
  <2>3. FailPart(t)'
    BY <1>0, <1>13
    DEF OutcomeInv, FailPart, DeleteFromTxQ
  <2> QED BY <1>0, <2>1, <2>2, <2>3, OutcomeMove
<1>14. ASSUME NEW t \in Txn, DeleteFromList(t) PROVE OutcomeInv'
  <2>1. OthersKept(t)
    BY <1>0, <1>14
    DEF OthersKept, DeleteFromList
  <2>2. t \in SyncTxn => SyncPart(t)'
    BY <1>0, <1>14
    DEF OutcomeInv, SyncPart, FailPart, Underway, Unlent, FlushPC, CleanPC,
       DeleteFromList
  <2>3. FailPart(t)'
    BY <1>0, <1>14
    DEF OutcomeInv, FailPart, DeleteFromList
  <2> QED BY <1>0, <2>1, <2>2, <2>3, OutcomeMove
<1>15. ASSUME NEW t \in Txn, DeleteFree(t) PROVE OutcomeInv'
  <2>1. OthersKept(t)
    BY <1>0, <1>15
    DEF OthersKept, DeleteFree
  <2>2. t \in SyncTxn => SyncPart(t)'
    BY <1>0, <1>15
    DEF OutcomeInv, SyncPart, FailPart, Underway, Unlent, FlushPC, CleanPC,
       DeleteFree
  <2>3. FailPart(t)'
    BY <1>0, <1>15
    DEF OutcomeInv, FailPart, DeleteFree
  <2> QED BY <1>0, <2>1, <2>2, <2>3, OutcomeMove
<1>16. ASSUME NEW th \in Thread, FlushStart(th) PROVE OutcomeInv'
  <2>1. OthersKept(th)
    BY <1>0, <1>16
    DEF OthersKept, FlushStart
  <2>2. th \in SyncTxn => SyncPart(th)'
    BY <1>0, <1>16
    DEF OutcomeInv, SyncPart, FailPart, Underway, Unlent, FlushPC, CleanPC,
       FlushStart
  <2>3. FailPart(th)'
    BY <1>0, <1>16
    DEF OutcomeInv, FailPart, FlushStart
  <2> QED BY <1>0, <2>1, <2>2, <2>3, OutcomeMove
<1>17. ASSUME NEW th \in Thread, FlushDone(th) PROVE OutcomeInv'
  <2>1. OthersKept(th)
    BY <1>0, <1>17
    DEF OthersKept, FlushDone, FlushExit, AfterSend
  <2>2. th \in SyncTxn => SyncPart(th)'
    BY <1>0, <1>17
    DEF OutcomeInv, SyncPart, FailPart, Underway, Unlent, FlushPC, CleanPC,
       FlushDone, FlushExit, AfterSend
  <2>3. FailPart(th)'
    BY <1>0, <1>17
    DEF OutcomeInv, FailPart, FlushDone, FlushExit, AfterSend
  <2> QED BY <1>0, <2>1, <2>2, <2>3, OutcomeMove
<1>18. ASSUME NEW th \in Thread, FlushBusy(th) PROVE OutcomeInv'
  <2>1. OthersKept(th)
    BY <1>0, <1>18
    DEF OthersKept, FlushBusy, FlushExit, AfterSend
  <2>2. th \in SyncTxn => SyncPart(th)'
    BY <1>0, <1>18
    DEF OutcomeInv, SyncPart, FailPart, Underway, Unlent, FlushPC, CleanPC,
       FlushBusy, FlushExit, AfterSend
  <2>3. FailPart(th)'
    BY <1>0, <1>18
    DEF OutcomeInv, FailPart, FlushBusy, FlushExit, AfterSend
  <2> QED BY <1>0, <2>1, <2>2, <2>3, OutcomeMove
<1>19. ASSUME NEW th \in Thread, FlushSend(th) PROVE OutcomeInv'
  <2>1. OthersKept(th)
    BY <1>0, <1>19
    DEF OthersKept, FlushSend
  <2>2. th \in SyncTxn => SyncPart(th)'
    BY <1>0, <1>19
    DEF OutcomeInv, SyncPart, FailPart, Underway, Unlent, FlushPC, CleanPC,
       FlushSend
  <2>3. FailPart(th)'
    BY <1>0, <1>19
    DEF OutcomeInv, FailPart, FlushSend
  <2> QED BY <1>0, <2>1, <2>2, <2>3, OutcomeMove
<1>20. ASSUME NEW th \in Thread, FlushFind(th) PROVE OutcomeInv'
  <2>1. OthersKept(th)
    BY <1>0, <1>20
    DEF OthersKept, FlushFind, AfterSendError
  <2>2. th \in SyncTxn => SyncPart(th)'
    BY <1>0, <1>20
    DEF OutcomeInv, SyncPart, FailPart, Underway, Unlent, FlushPC, CleanPC,
       FlushFind, AfterSendError
  <2>3. FailPart(th)'
    BY <1>0, <1>20
    DEF OutcomeInv, FailPart, FlushFind, AfterSendError
  <2> QED BY <1>0, <2>1, <2>2, <2>3, OutcomeMove
<1>21. ASSUME NEW th \in Thread, FlushError(th) PROVE OutcomeInv'
  <2>1. OthersKept(th)
    BY <1>0, <1>21
    DEF OthersKept, FlushError, AfterSendError, Fail, OutcomeInv, FailPart
  <2>2. th \in SyncTxn => SyncPart(th)'
    BY <1>0, <1>21
    DEF OutcomeInv, SyncPart, FailPart, Underway, Unlent, FlushPC, CleanPC,
       FlushError, AfterSendError, Fail
  <2>3. FailPart(th)'
    BY <1>0, <1>21
    DEF OutcomeInv, FailPart, FlushError, AfterSendError, Fail
  <2> QED BY <1>0, <2>1, <2>2, <2>3, OutcomeMove
<1>22. ASSUME NEW th \in Thread, FlushDrop(th) PROVE OutcomeInv'
  <2>1. OthersKept(th)
    BY <1>0, <1>22
    DEF OthersKept, FlushDrop
  <2>2. th \in SyncTxn => SyncPart(th)'
    BY <1>0, <1>22
    DEF OutcomeInv, SyncPart, FailPart, Underway, Unlent, FlushPC, CleanPC,
       FlushDrop
  <2>3. FailPart(th)'
    BY <1>0, <1>22
    DEF OutcomeInv, FailPart, FlushDrop
  <2> QED BY <1>0, <2>1, <2>2, <2>3, OutcomeMove
<1>23. ASSUME NEW th \in Thread, ServerError(th) PROVE OutcomeInv'
  <2>1. OthersKept(th)
    BY <1>0, <1>23
    DEF OthersKept, ServerError
  <2>2. th \in SyncTxn => SyncPart(th)'
    BY <1>0, <1>23
    DEF OutcomeInv, SyncPart, FailPart, Underway, Unlent, FlushPC, CleanPC,
       ServerError
  <2>3. FailPart(th)'
    BY <1>0, <1>23
    DEF OutcomeInv, FailPart, ServerError
  <2> QED BY <1>0, <2>1, <2>2, <2>3, OutcomeMove
<1>24. ASSUME NEW th \in Thread, CleanTxQ(th) PROVE OutcomeInv'
  <2>1. OthersKept(th)
    BY <1>0, <1>24
    DEF OthersKept, CleanTxQ
  <2>2. th \in SyncTxn => SyncPart(th)'
    BY <1>0, <1>24
    DEF OutcomeInv, SyncPart, FailPart, Underway, Unlent, FlushPC, CleanPC,
       CleanTxQ
  <2>3. FailPart(th)'
    BY <1>0, <1>24
    DEF OutcomeInv, FailPart, CleanTxQ
  <2> QED BY <1>0, <2>1, <2>2, <2>3, OutcomeMove
<1>25. ASSUME NEW th \in Thread, CleanList(th) PROVE OutcomeInv'
  <2>1. OthersKept(th)
    BY <1>0, <1>25
    DEF OthersKept, CleanList
  <2>2. th \in SyncTxn => SyncPart(th)'
    BY <1>0, <1>25
    DEF OutcomeInv, SyncPart, FailPart, Underway, Unlent, FlushPC, CleanPC,
       CleanList
  <2>3. FailPart(th)'
    BY <1>0, <1>25
    DEF OutcomeInv, FailPart, CleanList
  <2> QED BY <1>0, <2>1, <2>2, <2>3, OutcomeMove
<1>26. ASSUME NEW th \in Thread, CleanEach(th) PROVE OutcomeInv'
  <2>1. OthersKept(th)
    BY <1>0, <1>26
    DEF OthersKept, CleanEach, Fail, CleanError
  <2>2. th \in SyncTxn => SyncPart(th)'
    BY <1>0, <1>26
    DEF OutcomeInv, SyncPart, FailPart, Underway, Unlent, FlushPC, CleanPC,
       CleanEach, Fail, CleanError
  <2>3. FailPart(th)'
    BY <1>0, <1>26
    DEF OutcomeInv, FailPart, CleanEach, Fail, CleanError
  <2> QED BY <1>0, <2>1, <2>2, <2>3, OutcomeMove
<1>27. ASSUME NEW th \in Thread, CleanDone(th) PROVE OutcomeInv'
  <2>1. OthersKept(th)
    BY <1>0, <1>27
    DEF OthersKept, CleanDone, CleanExit, FlushExit, AfterSend
  <2>2. th \in SyncTxn => SyncPart(th)'
    BY <1>0, <1>27
    DEF OutcomeInv, SyncPart, FailPart, Underway, Unlent, FlushPC, CleanPC,
       CleanDone, CleanExit, FlushExit, AfterSend
  <2>3. FailPart(th)'
    BY <1>0, <1>27
    DEF OutcomeInv, FailPart, CleanDone, CleanExit, FlushExit, AfterSend
  <2> QED BY <1>0, <2>1, <2>2, <2>3, OutcomeMove
<1>28. ASSUME NEW m \in inbox, RecvFind(m) PROVE OutcomeInv'
  <2>1. OthersKept(Data)
    BY <1>0, <1>28
    DEF OthersKept, RecvFind, Reading
  <2>2. Data \in SyncTxn => SyncPart(Data)'
    BY <1>0
  <2>3. FailPart(Data)'
    BY <1>0, <1>28
    DEF OutcomeInv, FailPart, RecvFind, Reading
  <2> QED BY <1>0, <2>1, <2>2, <2>3, OutcomeMove
<1>29. ASSUME RecvDeliver PROVE OutcomeInv'
  <2>1. OthersKept(Data)
    BY <1>0, <1>29
    DEF OthersKept, RecvDeliver
  <2>2. Data \in SyncTxn => SyncPart(Data)'
    BY <1>0
  <2>3. FailPart(Data)'
    BY <1>0, <1>29
    DEF OutcomeInv, FailPart, RecvDeliver
  <2> QED BY <1>0, <2>1, <2>2, <2>3, OutcomeMove
<1>30. ASSUME RecvMismatch PROVE OutcomeInv'
  <2>1. OthersKept(Data)
    BY <1>0, <1>30
    DEF OthersKept, RecvMismatch, Fail
  <2>2. Data \in SyncTxn => SyncPart(Data)'
    BY <1>0
  <2>3. FailPart(Data)'
    BY <1>0, <1>30
    DEF OutcomeInv, FailPart, RecvMismatch, Fail
  <2> QED BY <1>0, <2>1, <2>2, <2>3, OutcomeMove
<1>31. ASSUME RecvResume PROVE OutcomeInv'
  <2>1. OthersKept(Data)
    BY <1>0, <1>31
    DEF OthersKept, RecvResume, Reading
  <2>2. Data \in SyncTxn => SyncPart(Data)'
    BY <1>0
  <2>3. FailPart(Data)'
    BY <1>0, <1>31
    DEF OutcomeInv, FailPart, RecvResume, Reading
  <2> QED BY <1>0, <2>1, <2>2, <2>3, OutcomeMove
<1>32. ASSUME RecvServerGone PROVE OutcomeInv'
  <2>1. OthersKept(Data)
    BY <1>0, <1>32
    DEF OthersKept, RecvServerGone, Reading
  <2>2. Data \in SyncTxn => SyncPart(Data)'
    BY <1>0
  <2>3. FailPart(Data)'
    BY <1>0, <1>32
    DEF OutcomeInv, FailPart, RecvServerGone, Reading
  <2> QED BY <1>0, <2>1, <2>2, <2>3, OutcomeMove
<1>33. ASSUME RecvClose PROVE OutcomeInv'
  <2>1. OthersKept(Data)
    BY <1>0, <1>33
    DEF OthersKept, RecvClose, Reading
  <2>2. Data \in SyncTxn => SyncPart(Data)'
    BY <1>0
  <2>3. FailPart(Data)'
    BY <1>0, <1>33
    DEF OutcomeInv, FailPart, RecvClose, Reading
  <2> QED BY <1>0, <2>1, <2>2, <2>3, OutcomeMove
<1>34. ASSUME ReleaseGate PROVE OutcomeInv'
  <2>1. OthersKept(Releaser)
    BY <1>0, <1>34
    DEF OthersKept, ReleaseGate
  <2>2. Releaser \in SyncTxn => SyncPart(Releaser)'
    BY <1>0
  <2>3. FailPart(Releaser)'
    BY <1>0, <1>34
    DEF OutcomeInv, FailPart, ReleaseGate
  <2> QED BY <1>0, <2>1, <2>2, <2>3, OutcomeMove
<1>35. ASSUME ReleaseClose PROVE OutcomeInv'
  <2>1. OthersKept(Releaser)
    BY <1>0, <1>35
    DEF OthersKept, ReleaseClose
  <2>2. Releaser \in SyncTxn => SyncPart(Releaser)'
    BY <1>0
  <2>3. FailPart(Releaser)'
    BY <1>0, <1>35
    DEF OutcomeInv, FailPart, ReleaseClose
  <2> QED BY <1>0, <2>1, <2>2, <2>3, OutcomeMove
<1>36. ASSUME NEW t \in Txn, Begin(t) PROVE OutcomeInv'
  <2>1. OthersKept(t)
    BY <1>0, <1>36
    DEF OthersKept, Begin
  <2>2. t \in SyncTxn => SyncPart(t)'
    BY <1>0, <1>36
    DEF OutcomeInv, SyncPart, FailPart, Underway, Unlent, FlushPC, CleanPC,
       Begin
  <2>3. FailPart(t)'
    BY <1>0, <1>36
    DEF OutcomeInv, FailPart, Begin
  <2> QED BY <1>0, <2>1, <2>2, <2>3, OutcomeMove
<1>37. ASSUME NEW t \in Txn, TimeOut(t) PROVE OutcomeInv'
  <2>1. OthersKept(t)
    BY <1>0, <1>37
    DEF OthersKept, TimeOut, WaitReturns
  <2>2. t \in SyncTxn => SyncPart(t)'
    BY <1>0, <1>37
    DEF OutcomeInv, SyncPart, FailPart, Underway, Unlent, FlushPC, CleanPC,
       TimeOut, WaitReturns
  <2>3. FailPart(t)'
    BY <1>0, <1>37
    DEF OutcomeInv, FailPart, TimeOut, WaitReturns
  <2> QED BY <1>0, <2>1, <2>2, <2>3, OutcomeMove
<1>38. ASSUME NEW t \in Txn, DeleteAsync(t) PROVE OutcomeInv'
  <2>1. OthersKept(t)
    BY <1>0, <1>38
    DEF OthersKept, DeleteAsync
  <2>2. t \in SyncTxn => SyncPart(t)'
    BY <1>0, <1>38
    DEF OutcomeInv, SyncPart, FailPart, Underway, Unlent, FlushPC, CleanPC,
       DeleteAsync
  <2>3. FailPart(t)'
    BY <1>0, <1>38
    DEF OutcomeInv, FailPart, DeleteAsync
  <2> QED BY <1>0, <2>1, <2>2, <2>3, OutcomeMove
<1>39. ASSUME RegisterErrorCb PROVE OutcomeInv'
  <2>1. UNCHANGED <<pc, send_rc, result, rx_buf, filled, rc>>
    BY <1>39 DEF RegisterErrorCb
  <2> QED BY <1>0, <2>1, OutcomeStill
<1>40. ASSUME ReleaseStart PROVE OutcomeInv'
  <2>1. OthersKept(Releaser)
    BY <1>0, <1>40
    DEF OthersKept, ReleaseStart
  <2>2. Releaser \in SyncTxn => SyncPart(Releaser)'
    BY <1>0
  <2>3. FailPart(Releaser)'
    BY <1>0, <1>40
    DEF OutcomeInv, FailPart, ReleaseStart
  <2> QED BY <1>0, <2>1, <2>2, <2>3, OutcomeMove
<1>41. ASSUME NEW t \in Txn, Respond(t) PROVE OutcomeInv'
  <2>1. UNCHANGED <<pc, send_rc, result, rx_buf, filled, rc>>
    BY <1>41 DEF Respond
  <2> QED BY <1>0, <2>1, OutcomeStill
<1>42. ASSUME NEW t \in Txn, UseAfterFree(t) PROVE OutcomeInv'
  <2>1. UNCHANGED <<pc, send_rc, result, rx_buf, filled, rc>>
    BY <1>42 DEF UseAfterFree
  <2> QED BY <1>0, <2>1, OutcomeStill
<1>43. ASSUME ServerDies PROVE OutcomeInv'
  <2>1. UNCHANGED <<pc, send_rc, result, rx_buf, filled, rc>>
    BY <1>43 DEF ServerDies
  <2> QED BY <1>0, <2>1, OutcomeStill
<1>44. ASSUME Block PROVE OutcomeInv'
  <2>1. UNCHANGED <<pc, send_rc, result, rx_buf, filled, rc>>
    BY <1>44 DEF Block
  <2> QED BY <1>0, <2>1, OutcomeStill
<1>45. ASSUME Unblock PROVE OutcomeInv'
  <2>1. UNCHANGED <<pc, send_rc, result, rx_buf, filled, rc>>
    BY <1>45 DEF Unblock
  <2> QED BY <1>0, <2>1, OutcomeStill
<1>46. CASE UNCHANGED vars
  BY <1>0, <1>46, OutcomeStill DEF vars
<1> QED
  BY <1>1, <1>2, <1>3, <1>4, <1>5, <1>6, <1>7, <1>8, <1>9, <1>10, <1>11,
     <1>12, <1>13, <1>14, <1>15, <1>16, <1>17, <1>18, <1>19, <1>20, <1>21,
     <1>22, <1>23, <1>24, <1>25, <1>26, <1>27, <1>28, <1>29, <1>30, <1>31,
     <1>32, <1>33, <1>34, <1>35, <1>36, <1>37, <1>38, <1>39, <1>40, <1>41,
     <1>42, <1>43, <1>44, <1>45, <1>46
  DEF Next, CallerStep, FlushStep, CleanStep, DataStep, ReleaseStep,
      UserStep, EnvStep, Rest

\* The invariant holds throughout.
LEMMA OutcomeHolds == Spec => [](TypeOK /\ OnceInv /\ OutcomeInv)
<1>1. Init => TypeOK /\ OnceInv /\ OutcomeInv
  BY TypeInit, OwnedInit, OutcomeInit
<1>2. TypeOK /\ OnceInv /\ OutcomeInv /\ [Next]_vars
        => (TypeOK /\ OnceInv /\ OutcomeInv)'
  BY TypeStep, OwnedStep, OutcomeStep
<1> QED BY <1>1, <1>2, PTL DEF Spec

\* SyncOkIsFilled: a synchronous send that returns QMI_NO_ERR has its response
\* in the caller's buffer.
THEOREM SyncOkFilled == Spec => []SyncOkIsFilled
<1>1. OutcomeInv => SyncOkIsFilled
  BY DEF OutcomeInv, SyncPart, SyncOkIsFilled
<1> QED BY <1>1, OutcomeHolds, PTL

------------------------------------------------------------------------------
(* Responses are written to buffers on loan only.                          *)

\* What a step may do to the response buffers.
LentOnly == \A t \in Txn : filled'[t] # filled[t] => Lent(t)

\* Only the delivery of a response writes a buffer, under txn->lock and with
\* the transaction in hand: nobody was told that its call ended.
LEMMA WriteStep ==
  TypeOK /\ OnceInv /\ OutcomeInv /\ [Next]_vars => [LentOnly]_vars
<1> SUFFICES ASSUME TypeOK, OnceInv, OutcomeInv, Next PROVE LentOnly
  OBVIOUS
<1> USE DEF At, Goto, client, lists, memory, answer, locals, server, flow,
            returns, hist, txns, world, seen
<1>1. ASSUME NEW t \in Txn, GetTxn(t) PROVE LentOnly
  BY <1>1 DEF LentOnly, GetTxn
<1>2. ASSUME NEW t \in Txn, TakeOwnRef(t) PROVE LentOnly
  BY <1>2 DEF LentOnly, TakeOwnRef
<1>3. ASSUME NEW t \in Txn, PrepareWait(t) PROVE LentOnly
  BY <1>3 DEF LentOnly, PrepareWait
<1>4. ASSUME NEW t \in Txn, CheckServer(t) PROVE LentOnly
  BY <1>4 DEF LentOnly, CheckServer
<1>5. ASSUME NEW t \in Txn, TakeQueueRef(t) PROVE LentOnly
  BY <1>5 DEF LentOnly, TakeQueueRef
<1>6. ASSUME NEW t \in Txn, Enqueue(t) PROVE LentOnly
  BY <1>6 DEF LentOnly, Enqueue
<1>7. ASSUME NEW t \in Txn, UndoQueueRef(t) PROVE LentOnly
  BY <1>7 DEF LentOnly, UndoQueueRef
<1>8. ASSUME NEW t \in Txn, AbandonAsync(t) PROVE LentOnly
  BY <1>8 DEF LentOnly, AbandonAsync
<1>9. ASSUME NEW t \in Txn, WakeUp(t) PROVE LentOnly
  BY <1>9 DEF LentOnly, WakeUp
<1>10. ASSUME NEW t \in Txn, Invalidate(t) PROVE LentOnly
  BY <1>10 DEF LentOnly, Invalidate
<1>11. ASSUME NEW t \in Txn, RemoveSync(t) PROVE LentOnly
  BY <1>11 DEF LentOnly, RemoveSync
<1>12. ASSUME NEW t \in Txn, DropOwnRef(t) PROVE LentOnly
  BY <1>12 DEF LentOnly, DropOwnRef
<1>13. ASSUME NEW t \in Txn, DeleteFromTxQ(t) PROVE LentOnly
  BY <1>13 DEF LentOnly, DeleteFromTxQ
<1>14. ASSUME NEW t \in Txn, DeleteFromList(t) PROVE LentOnly
  BY <1>14 DEF LentOnly, DeleteFromList
<1>15. ASSUME NEW t \in Txn, DeleteFree(t) PROVE LentOnly
  BY <1>15 DEF LentOnly, DeleteFree
<1>16. ASSUME NEW th \in Thread, FlushStart(th) PROVE LentOnly
  BY <1>16 DEF LentOnly, FlushStart
<1>17. ASSUME NEW th \in Thread, FlushDone(th) PROVE LentOnly
  BY <1>17 DEF LentOnly, FlushDone
<1>18. ASSUME NEW th \in Thread, FlushBusy(th) PROVE LentOnly
  BY <1>18 DEF LentOnly, FlushBusy
<1>19. ASSUME NEW th \in Thread, FlushSend(th) PROVE LentOnly
  BY <1>19 DEF LentOnly, FlushSend
<1>20. ASSUME NEW th \in Thread, FlushFind(th) PROVE LentOnly
  BY <1>20 DEF LentOnly, FlushFind
<1>21. ASSUME NEW th \in Thread, FlushError(th) PROVE LentOnly
  BY <1>21 DEF LentOnly, FlushError, Fail
<1>22. ASSUME NEW th \in Thread, FlushDrop(th) PROVE LentOnly
  BY <1>22 DEF LentOnly, FlushDrop
<1>23. ASSUME NEW th \in Thread, ServerError(th) PROVE LentOnly
  BY <1>23 DEF LentOnly, ServerError
<1>24. ASSUME NEW th \in Thread, CleanTxQ(th) PROVE LentOnly
  BY <1>24 DEF LentOnly, CleanTxQ
<1>25. ASSUME NEW th \in Thread, CleanList(th) PROVE LentOnly
  BY <1>25 DEF LentOnly, CleanList
<1>26. ASSUME NEW th \in Thread, CleanEach(th) PROVE LentOnly
  BY <1>26 DEF LentOnly, CleanEach, Fail
<1>27. ASSUME NEW th \in Thread, CleanDone(th) PROVE LentOnly
  BY <1>27 DEF LentOnly, CleanDone
<1>28. ASSUME NEW m \in inbox, RecvFind(m) PROVE LentOnly
  BY <1>28 DEF LentOnly, RecvFind
<1>29. ASSUME RecvDeliver PROVE LentOnly
  <2> SUFFICES ASSUME NEW t \in Txn, filled'[t] # filled[t] PROVE Lent(t)
    BY DEF LentOnly
  <2>1. t = cur[Data] /\ rx_buf[t] /\ pc[Data] = "recv_good"
    BY <1>29 DEF RecvDeliver, TypeOK, TxnType
  <2>2. Open(t)
    BY <2>1 DEF Open, Takes, Thread
  <2>3. done[t] = 0 /\ verdict[t] # "ok" /\ ~Refused(t)
    BY <2>2 DEF OnceInv, Owned
  <2>4. CASE t \in SyncTxn
    BY <2>1, <2>3, <2>4 DEF Lent, OutcomeInv, SyncPart, Unlent
  <2>5. CASE t \in AsyncTxn
    BY <2>3, <2>5 DEF Lent, Refused
  <2> QED BY <2>4, <2>5 DEF Txn
<1>30. ASSUME RecvMismatch PROVE LentOnly
  BY <1>30 DEF LentOnly, RecvMismatch, Fail
<1>31. ASSUME RecvResume PROVE LentOnly
  BY <1>31 DEF LentOnly, RecvResume
<1>32. ASSUME RecvServerGone PROVE LentOnly
  BY <1>32 DEF LentOnly, RecvServerGone
<1>33. ASSUME RecvClose PROVE LentOnly
  BY <1>33 DEF LentOnly, RecvClose
<1>34. ASSUME ReleaseGate PROVE LentOnly
  BY <1>34 DEF LentOnly, ReleaseGate
<1>35. ASSUME ReleaseClose PROVE LentOnly
  BY <1>35 DEF LentOnly, ReleaseClose
<1>36. ASSUME NEW t \in Txn, Begin(t) PROVE LentOnly
  BY <1>36 DEF LentOnly, Begin
<1>37. ASSUME NEW t \in Txn, TimeOut(t) PROVE LentOnly
  BY <1>37 DEF LentOnly, TimeOut
<1>38. ASSUME NEW t \in Txn, DeleteAsync(t) PROVE LentOnly
  BY <1>38 DEF LentOnly, DeleteAsync
<1>39. ASSUME RegisterErrorCb PROVE LentOnly
  BY <1>39 DEF LentOnly, RegisterErrorCb
<1>40. ASSUME ReleaseStart PROVE LentOnly
  BY <1>40 DEF LentOnly, ReleaseStart
<1>41. ASSUME NEW t \in Txn, Respond(t) PROVE LentOnly
  BY <1>41 DEF LentOnly, Respond
<1>42. ASSUME NEW t \in Txn, UseAfterFree(t) PROVE LentOnly
  BY <1>42 DEF LentOnly, UseAfterFree
<1>43. ASSUME ServerDies PROVE LentOnly
  BY <1>43 DEF LentOnly, ServerDies
<1>44. ASSUME Block PROVE LentOnly
  BY <1>44 DEF LentOnly, Block
<1>45. ASSUME Unblock PROVE LentOnly
  BY <1>45 DEF LentOnly, Unblock
<1>46. ASSUME UNCHANGED vars PROVE LentOnly
  BY <1>46 DEF vars, LentOnly
<1> QED
  BY <1>1, <1>2, <1>3, <1>4, <1>5, <1>6, <1>7, <1>8, <1>9, <1>10, <1>11,
     <1>12, <1>13, <1>14, <1>15, <1>16, <1>17, <1>18, <1>19, <1>20, <1>21,
     <1>22, <1>23, <1>24, <1>25, <1>26, <1>27, <1>28, <1>29, <1>30, <1>31,
     <1>32, <1>33, <1>34, <1>35, <1>36, <1>37, <1>38, <1>39, <1>40, <1>41,
     <1>42, <1>43, <1>44, <1>45, <1>46
  DEF Next, CallerStep, FlushStep, CleanStep, DataStep, ReleaseStep,
      UserStep, EnvStep, Rest

\* NoStrayWrite: the data thread never writes a response buffer that a
\* time-out, a deletion or a failed send gave back to its user.
THEOREM NoStrayWrites == Spec => NoStrayWrite
<1>1. TypeOK /\ OnceInv /\ OutcomeInv /\ [Next]_vars
        => [\A t \in Txn : filled'[t] # filled[t] => Lent(t)]_vars
  BY WriteStep DEF LentOnly
<1> QED BY <1>1, OutcomeHolds, PTL DEF Spec, NoStrayWrite

------------------------------------------------------------------------------
(* The report of the lost server.                                          *)

\* Nothing is reported of a connected server; a loss nobody registered for
\* is remembered; any other is owed by one thread or was reported.
ErrInv ==
  /\ category = "connected" => ~err_pending
  /\ category = "dormant" /\ ~err_cb => err_pending
  /\ category = "connected" \/ ~err_cb => owes_err = {} /\ err_calls = 0
  /\ category = "dormant" /\ err_cb =>
       \/ owes_err = {} /\ err_calls = 1
       \/ err_calls = 0 /\ \E th \in Thread : owes_err = {th}

\* The server is there at first.
LEMMA ErrInit == Init => ErrInv
BY DEF Init, ErrInv

\* Only the loss of the server, the end of a clean-up and the registration
\* touch the report.
LEMMA ErrStep == TypeOK /\ ErrInv /\ [Next]_vars => ErrInv'
<1> SUFFICES ASSUME TypeOK, ErrInv, [Next]_vars PROVE ErrInv'
  OBVIOUS
<1>0. /\ category \in {"connected", "dormant"} /\ err_cb \in BOOLEAN
      /\ err_pending \in BOOLEAN /\ err_calls \in Nat
      /\ owes_err \subseteq Thread
  BY DEF TypeOK, ClientType, ThreadType, SeenType
<1> USE DEF At, Goto, client, lists, memory, answer, locals, server, flow,
            returns, hist, txns, world, seen
<1> DEFINE report == <<category, err_cb, err_pending, owes_err, err_calls>>
<1>00. ASSUME UNCHANGED report PROVE ErrInv'
  BY <1>00 DEF ErrInv
<1>1. ASSUME NEW t \in Txn, GetTxn(t) PROVE UNCHANGED report
  BY <1>1 DEF GetTxn
<1>2. ASSUME NEW t \in Txn, TakeOwnRef(t) PROVE UNCHANGED report
  BY <1>2 DEF TakeOwnRef
<1>3. ASSUME NEW t \in Txn, PrepareWait(t) PROVE UNCHANGED report
  BY <1>3 DEF PrepareWait
<1>4. ASSUME NEW t \in Txn, CheckServer(t) PROVE UNCHANGED report
  BY <1>4 DEF CheckServer
<1>5. ASSUME NEW t \in Txn, TakeQueueRef(t) PROVE UNCHANGED report
  BY <1>5 DEF TakeQueueRef
<1>6. ASSUME NEW t \in Txn, Enqueue(t) PROVE UNCHANGED report
  BY <1>6 DEF Enqueue
<1>7. ASSUME NEW t \in Txn, UndoQueueRef(t) PROVE UNCHANGED report
  BY <1>7 DEF UndoQueueRef
<1>8. ASSUME NEW t \in Txn, AbandonAsync(t) PROVE UNCHANGED report
  BY <1>8 DEF AbandonAsync
<1>9. ASSUME NEW t \in Txn, WakeUp(t) PROVE UNCHANGED report
  BY <1>9 DEF WakeUp
<1>10. ASSUME NEW t \in Txn, Invalidate(t) PROVE UNCHANGED report
  BY <1>10 DEF Invalidate
<1>11. ASSUME NEW t \in Txn, RemoveSync(t) PROVE UNCHANGED report
  BY <1>11 DEF RemoveSync
<1>12. ASSUME NEW t \in Txn, DropOwnRef(t) PROVE UNCHANGED report
  BY <1>12 DEF DropOwnRef
<1>13. ASSUME NEW t \in Txn, DeleteFromTxQ(t) PROVE UNCHANGED report
  BY <1>13 DEF DeleteFromTxQ
<1>14. ASSUME NEW t \in Txn, DeleteFromList(t) PROVE UNCHANGED report
  BY <1>14 DEF DeleteFromList
<1>15. ASSUME NEW t \in Txn, DeleteFree(t) PROVE UNCHANGED report
  BY <1>15 DEF DeleteFree
<1>16. ASSUME NEW th \in Thread, FlushStart(th) PROVE UNCHANGED report
  BY <1>16 DEF FlushStart
<1>17. ASSUME NEW th \in Thread, FlushDone(th) PROVE UNCHANGED report
  BY <1>17 DEF FlushDone
<1>18. ASSUME NEW th \in Thread, FlushBusy(th) PROVE UNCHANGED report
  BY <1>18 DEF FlushBusy
<1>19. ASSUME NEW th \in Thread, FlushSend(th) PROVE UNCHANGED report
  BY <1>19 DEF FlushSend
<1>20. ASSUME NEW th \in Thread, FlushFind(th) PROVE UNCHANGED report
  BY <1>20 DEF FlushFind
<1>21. ASSUME NEW th \in Thread, FlushError(th) PROVE UNCHANGED report
  BY <1>21 DEF FlushError
<1>22. ASSUME NEW th \in Thread, FlushDrop(th) PROVE UNCHANGED report
  BY <1>22 DEF FlushDrop
<1>23. ASSUME NEW th \in Thread, ServerError(th) PROVE ErrInv'
  <2>1. CASE category = "connected" /\ err_cb
    <3>1. owes_err' = {th}
      BY <1>23, <2>1 DEF ServerError, ErrInv
    <3>2. err_calls' = 0 /\ category' = "dormant" /\ err_cb' = err_cb
      BY <1>23, <2>1 DEF ServerError, ErrInv
    <3> QED BY <2>1, <3>1, <3>2 DEF ErrInv
  <2>2. CASE category = "connected" /\ ~err_cb
    BY <1>0, <1>23, <2>2 DEF ServerError, ErrInv
  <2>3. CASE category # "connected"
    BY <1>0, <1>23, <2>3, <1>00 DEF ServerError
  <2> QED BY <2>1, <2>2, <2>3
<1>24. ASSUME NEW th \in Thread, CleanTxQ(th) PROVE UNCHANGED report
  BY <1>24 DEF CleanTxQ
<1>25. ASSUME NEW th \in Thread, CleanList(th) PROVE UNCHANGED report
  BY <1>25 DEF CleanList
<1>26. ASSUME NEW th \in Thread, CleanEach(th) PROVE UNCHANGED report
  BY <1>26 DEF CleanEach
<1>27. ASSUME NEW th \in Thread, CleanDone(th) PROVE ErrInv'
  <2>1. /\ UNCHANGED <<category, err_cb, err_pending>>
        /\ owes_err' = owes_err \ {th}
        /\ err_calls' = err_calls + (IF th \in owes_err THEN 1 ELSE 0)
    BY <1>27 DEF CleanDone
  <2>2. CASE th \in owes_err
    <3>1. category = "dormant" /\ err_cb /\ err_calls = 0 /\ owes_err = {th}
      BY <1>0, <2>2 DEF ErrInv
    <3> QED BY <2>1, <3>1 DEF ErrInv
  <2>3. CASE th \notin owes_err
    <3>1. owes_err' = owes_err /\ err_calls' = err_calls
      BY <1>0, <2>1, <2>3
    <3> QED BY <1>00, <2>1, <3>1
  <2> QED BY <2>2, <2>3
<1>28. ASSUME NEW m \in inbox, RecvFind(m) PROVE UNCHANGED report
  BY <1>28 DEF RecvFind
<1>29. ASSUME RecvDeliver PROVE UNCHANGED report
  BY <1>29 DEF RecvDeliver
<1>30. ASSUME RecvMismatch PROVE UNCHANGED report
  BY <1>30 DEF RecvMismatch
<1>31. ASSUME RecvResume PROVE UNCHANGED report
  BY <1>31 DEF RecvResume
<1>32. ASSUME RecvServerGone PROVE UNCHANGED report
  BY <1>32 DEF RecvServerGone
<1>33. ASSUME RecvClose PROVE UNCHANGED report
  BY <1>33 DEF RecvClose
<1>34. ASSUME ReleaseGate PROVE UNCHANGED report
  BY <1>34 DEF ReleaseGate
<1>35. ASSUME ReleaseClose PROVE UNCHANGED report
  BY <1>35 DEF ReleaseClose
<1>36. ASSUME NEW t \in Txn, Begin(t) PROVE UNCHANGED report
  BY <1>36 DEF Begin
<1>37. ASSUME NEW t \in Txn, TimeOut(t) PROVE UNCHANGED report
  BY <1>37 DEF TimeOut
<1>38. ASSUME NEW t \in Txn, DeleteAsync(t) PROVE UNCHANGED report
  BY <1>38 DEF DeleteAsync
<1>39. ASSUME RegisterErrorCb PROVE ErrInv'
  BY <1>0, <1>39 DEF RegisterErrorCb, ErrInv
<1>40. ASSUME ReleaseStart PROVE UNCHANGED report
  BY <1>40 DEF ReleaseStart
<1>41. ASSUME NEW t \in Txn, Respond(t) PROVE UNCHANGED report
  BY <1>41 DEF Respond
<1>42. ASSUME NEW t \in Txn, UseAfterFree(t) PROVE UNCHANGED report
  BY <1>42 DEF UseAfterFree
<1>43. ASSUME ServerDies PROVE UNCHANGED report
  BY <1>43 DEF ServerDies
<1>44. ASSUME Block PROVE UNCHANGED report
  BY <1>44 DEF Block
<1>45. ASSUME Unblock PROVE UNCHANGED report
  BY <1>45 DEF Unblock
<1>46. CASE UNCHANGED vars
  BY <1>00, <1>46 DEF vars
<1> HIDE DEF report
<1> QED
  BY <1>00, <1>1, <1>2, <1>3, <1>4, <1>5, <1>6, <1>7, <1>8, <1>9, <1>10,
     <1>11, <1>12, <1>13, <1>14, <1>15, <1>16, <1>17, <1>18, <1>19, <1>20,
     <1>21, <1>22, <1>23, <1>24, <1>25, <1>26, <1>27, <1>28, <1>29, <1>30,
     <1>31, <1>32, <1>33, <1>34, <1>35, <1>36, <1>37, <1>38, <1>39, <1>40,
     <1>41, <1>42, <1>43, <1>44, <1>45, <1>46
  DEF Next, CallerStep, FlushStep, CleanStep, DataStep, ReleaseStep,
      UserStep, EnvStep, Rest

\* ErrorReportedOnce: however the registration of the error callback and the
\* loss of the server meet, one report is made or owed, never two, never none.
THEOREM ErrorReported == Spec => []ErrorReportedOnce
<1>1. Init => TypeOK /\ ErrInv
  BY TypeInit, ErrInit
<1>2. TypeOK /\ ErrInv /\ [Next]_vars => (TypeOK /\ ErrInv)'
  BY TypeStep, ErrStep
<1>3. TypeOK /\ ErrInv => ErrorReportedOnce
  <2> SUFFICES ASSUME TypeOK, ErrInv PROVE ErrorReportedOnce
    OBVIOUS
  <2>1. category \in {"connected", "dormant"}
    BY DEF TypeOK, ClientType
  <2>2. CASE owes_err = {}
    BY <2>1, <2>2, FS_EmptySet DEF ErrInv, ErrorReportedOnce
  <2>3. CASE owes_err # {}
    <3>1. PICK th \in Thread : owes_err = {th} /\ err_calls = 0
      BY <2>1, <2>3 DEF ErrInv
    <3>2. Cardinality(owes_err) = 1
      BY <3>1, FS_Singleton
    <3> QED BY <2>1, <2>3, <3>1, <3>2 DEF ErrInv, ErrorReportedOnce
  <2> QED BY <2>2, <2>3
<1> QED BY <1>1, <1>2, <1>3, PTL DEF Spec

------------------------------------------------------------------------------
(* QcciTxn implements QmiCalls: the invariant, on top of those of who      *)
(* completes and what is returned.                                         *)

\* A buffer is filled only by what completes the transaction.
FilledPart == \A t \in Txn : filled[t] => done[t] # 0

\* A deletion that succeeded is the end of its caller.
DeletedPart == \A t \in Txn : verdict[t] = "ok" => pc[t] = "deleted"

EndPart == FilledPart /\ DeletedPart

CallsInv == TypeOK /\ OnceInv /\ OutcomeInv /\ EndPart

\* The sets and types the steps below rest on.
LEMMA CallsTypes ==
  ASSUME TypeOK
  PROVE  /\ pc \in [Thread -> CallerPC \cup FlushPC \cup CleanPC \cup DataPC
                             \cup RelPC]
         /\ done \in [Txn -> 0..2] /\ filled \in [Txn -> BOOLEAN]
         /\ result \in [Txn -> Codes] /\ cur \in [Thread -> Txn \cup {NoTxn}]
         /\ verdict \in [Txn -> Codes \cup {"no_handle"}]
         /\ moved \in [Thread -> SUBSET Txn]
         /\ Txn = SyncTxn \cup AsyncTxn /\ SyncTxn \cap AsyncTxn = {}
         /\ Txn \subseteq Thread /\ Data \in Thread /\ Releaser \in Thread
         /\ Data \notin Txn /\ Releaser \notin Txn /\ NoTxn \notin Txn
BY TxnAssumption DEF TypeOK, TxnType, ThreadType, SeenType, Thread, Txn

------------------------------------------------------------------------------
(* The abstract state, and steps of one call.                              *)

CallOf == [t \in Txn |-> CallState(t)]
BufferOf == [t \in Txn |-> IF filled[t] THEN "full" ELSE "empty"]

\* The step is one of QmiCalls, or a stutter.
Simulated == Promise!Next \/ UNCHANGED <<CallOf, BufferOf>>

\* The user of t notices nothing.
Same(t) == CallState(t)' = CallState(t) /\ filled'[t] = filled[t]

Turns(t, from, to) == CallState(t) = from /\ CallState(t)' = to

\* The call of t takes a step the API promises.
Moves(t) ==
  \/ Turns(t, "new", "pending") /\ filled'[t] = filled[t]
  \/ Turns(t, "new", "refused") /\ filled'[t] = filled[t]
  \/ Turns(t, "pending", "refused") /\ filled'[t] = filled[t]
  \/ /\ t \in SyncTxn /\ Turns(t, "pending", "pending")
     /\ ~filled[t] /\ filled'[t]
  \/ /\ t \in SyncTxn /\ Turns(t, "pending", "returned")
     /\ filled[t] /\ filled'[t]
  \/ /\ t \in AsyncTxn /\ Turns(t, "pending", "called_back")
     /\ filled[t] => filled'[t]
  \/ /\ t \in AsyncTxn /\ Turns(t, "pending", "cancelled")
     /\ filled'[t] = filled[t]

\* A step of one call is a step of QmiCalls.
LEMMA CallSteps ==
  ASSUME NEW t \in Txn, \A u \in Txn \ {t} : Same(u), Same(t) \/ Moves(t)
  PROVE  Simulated
<1> DEFINE full(b) == IF b THEN "full" ELSE "empty"
<1>1. CallOf' = [CallOf EXCEPT ![t] = CallState(t)']
  BY DEF CallOf, Same
<1>2. BufferOf' = [BufferOf EXCEPT ![t] = full(filled'[t])]
  BY DEF BufferOf, Same
<1>3. CallOf[t] = CallState(t) /\ BufferOf[t] = full(filled[t])
  BY DEF CallOf, BufferOf
<1>4. t \in Promise!Call
  BY DEF Promise!Call, Txn
<1>5. CASE Same(t)
  <2>1. CallOf' = CallOf
    BY <1>5 DEF CallOf, Same
  <2>2. BufferOf' = BufferOf
    BY <1>5 DEF BufferOf, Same
  <2> QED BY <2>1, <2>2 DEF Simulated
<1>6. CASE Moves(t)
  <2>1. BufferOf' = BufferOf \/ filled'[t] # filled[t]
    BY DEF BufferOf, Same
  <2>2. CallOf' = CallOf \/ CallState(t)' # CallState(t)
    BY DEF CallOf, Same
  <2> HIDE <1>5, <1>6
  <2>3. CASE Turns(t, "new", "pending") /\ filled'[t] = filled[t]
    <3>1. Promise!Issue(t)
      BY <1>1, <1>3, <2>1, <2>3
      DEF Promise!Issue, Promise!Move, Turns, CallOf, BufferOf
    <3> QED BY <1>4, <3>1 DEF Simulated, Promise!Next
  <2>4. CASE /\ Turns(t, "new", "refused") \/ Turns(t, "pending", "refused")
             /\ filled'[t] = filled[t]
    <3>1. Promise!Refuse(t)
      BY <1>1, <1>3, <2>1, <2>4
      DEF Promise!Refuse, Promise!Move, Turns, CallOf, BufferOf
    <3> QED BY <1>4, <3>1 DEF Simulated, Promise!Next
  <2>5. CASE /\ t \in SyncTxn /\ Turns(t, "pending", "pending")
             /\ ~filled[t] /\ filled'[t]
    <3>1. Promise!Fill(t)
      BY <1>2, <1>3, <2>2, <2>5 DEF Promise!Fill, Turns, CallOf, BufferOf
    <3> QED BY <2>5, <3>1 DEF Simulated, Promise!Next
  <2>6. CASE /\ t \in SyncTxn /\ Turns(t, "pending", "returned")
             /\ filled[t] /\ filled'[t]
    <3>1. BufferOf' = BufferOf
      BY <1>2, <1>3, <2>6 DEF BufferOf
    <3>2. Promise!Return(t)
      BY <1>1, <1>3, <2>6, <3>1
      DEF Promise!Return, Promise!Move, Turns, CallOf, BufferOf
    <3> QED BY <2>6, <3>2 DEF Simulated, Promise!Next
  <2>7. CASE /\ t \in AsyncTxn /\ Turns(t, "pending", "called_back")
             /\ filled[t] => filled'[t]
    <3>1. BufferOf' \in {BufferOf, [BufferOf EXCEPT ![t] = "full"]}
      BY <1>2, <1>3, <2>7 DEF BufferOf
    <3>2. Promise!CallBack(t)
      BY <1>1, <1>3, <2>7, <3>1
      DEF Promise!CallBack, Promise!Move, Turns, CallOf, BufferOf
    <3> QED BY <2>7, <3>2 DEF Simulated, Promise!Next
  <2>8. CASE /\ t \in AsyncTxn /\ Turns(t, "pending", "cancelled")
             /\ filled'[t] = filled[t]
    <3>1. Promise!Cancel(t)
      BY <1>1, <1>3, <2>1, <2>8
      DEF Promise!Cancel, Promise!Move, Turns, CallOf, BufferOf
    <3> QED BY <2>8, <3>1 DEF Simulated, Promise!Next
  <2> QED BY <1>6, <2>3, <2>4, <2>5, <2>6, <2>7, <2>8 DEF Moves
<1> QED BY <1>5, <1>6

------------------------------------------------------------------------------
(* Steps that complete nothing.                                            *)

\* Thread a completes nothing and returns to no other user.
Apart(a) ==
  /\ UNCHANGED <<done, filled>>
  /\ \A th \in Thread \ {a} : pc'[th] = pc[th]
  /\ \A t \in Txn \ {a} : result'[t] = result[t] /\ verdict'[t] = verdict[t]

\* Between the beginning and the return of a call.
Begun(where) == where \notin {"idle", "done"}
Inside(where) == Begun(where) /\ where # "deleted"

\* A step inside the call, without a verdict, changes nothing its user sees.
LEMMA InsideSame ==
  ASSUME NEW t \in Txn, Begun(pc[t]), Begun(pc'[t]),
         done'[t] = done[t], verdict'[t] = verdict[t]
  PROVE  CallState(t)' = CallState(t)
BY DEF CallState, Begun

\* Such a step is a step of the call of a, or nobody notices it.
LEMMA ApartSteps ==
  ASSUME CallsInv, NEW a \in Thread, Apart(a),
         a \in Txn => /\ Same(a) \/ Moves(a)
                      /\ verdict'[a] = "ok" => pc'[a] = "deleted"
  PROVE  Simulated /\ EndPart'
<1>1. EndPart'
  BY DEF CallsInv, EndPart, FilledPart, DeletedPart, Apart, Thread
<1>2. ASSUME NEW t \in Txn, t # a PROVE Same(t)
  <2>1. /\ pc'[t] = pc[t] /\ result'[t] = result[t]
        /\ verdict'[t] = verdict[t] /\ done' = done /\ filled' = filled
    BY <1>2 DEF Apart, Thread
  <2> QED BY <2>1 DEF Same, CallState
<1>3. CASE a \in Txn
  BY <1>1, <1>2, <1>3, CallSteps
<1>4. CASE a \notin Txn
  <2>1. CallOf' = CallOf
    BY <1>2, <1>4 DEF Same, CallOf
  <2>2. BufferOf' = BufferOf
    BY <1>2, <1>4 DEF Same, BufferOf
  <2> QED BY <1>1, <2>1, <2>2 DEF Simulated
<1> QED BY <1>3, <1>4

\* Most steps of a call are inside it.
LEMMA InsideSteps ==
  ASSUME CallsInv, NEW a \in Thread, Apart(a),
         a \in Txn => /\ Inside(pc[a]) /\ Inside(pc'[a])
                      /\ verdict'[a] = verdict[a]
  PROVE  Simulated /\ EndPart'
<1>1. a \in Txn => Same(a)
  BY InsideSame DEF Inside, Same, Apart
<1>2. a \in Txn => verdict'[a] # "ok"
  BY DEF Inside, CallsInv, EndPart, DeletedPart
<1> QED BY <1>1, <1>2, ApartSteps

\* A caller that leaves a flush or a cleanup returns from an asynchronous
\* send that succeeded, or waits.
LEMMA LeavingSteps ==
  ASSUME CallsInv, NEW a \in Thread, Apart(a),
         pc[a] \in FlushPC \cup CleanPC, UNCHANGED <<result, verdict>>,
         \/ Inside(pc'[a])
         \/ a \in AsyncTxn /\ pc'[a] = "done"
         \/ a \notin Txn
  PROVE  Simulated /\ EndPart'
<1>1. CASE a \notin Txn
  BY <1>1, InsideSteps
<1>2. CASE a \in Txn /\ Inside(pc'[a])
  BY <1>2, InsideSteps DEF Inside, Begun, FlushPC, CleanPC
<1>3. CASE a \in AsyncTxn /\ pc'[a] = "done"
  <2>1. /\ a \notin SyncTxn /\ result[a] = "ok" /\ done'[a] = done[a]
        /\ pc[a] \notin {"idle", "done"}
    BY <1>3, CallsTypes DEF CallsInv, OnceInv, AsyncPath, FlushPC, CleanPC,
       Apart
  <2>2. Same(a)
    BY <1>3, <2>1 DEF Same, CallState, Apart
  <2>3. verdict'[a] # "ok"
    BY <1>3, CallsTypes
    DEF CallsInv, EndPart, DeletedPart, FlushPC, CleanPC
  <2> QED BY <2>2, <2>3, ApartSteps
<1> QED BY <1>1, <1>2, <1>3

------------------------------------------------------------------------------
(* Steps that complete a transaction.                                      *)

\* The call of a transaction that is still open is pending.
LEMMA OpenPending ==
  ASSUME CallsInv, NEW t \in Txn, Open(t)
  PROVE  /\ done[t] = 0 /\ verdict[t] # "ok" /\ ~filled[t] /\ pc[t] # "idle"
         /\ t \in AsyncTxn => CallState(t) = "pending"
<1>1. done[t] = 0 /\ verdict[t] # "ok" /\ ~Refused(t) /\ ~Fresh(t)
  BY DEF CallsInv, OnceInv, Owned
<1>2. ~filled[t] /\ pc[t] # "idle"
  BY <1>1 DEF CallsInv, EndPart, FilledPart, Fresh
<1>3. t \in AsyncTxn => t \notin SyncTxn
  BY TxnAssumption
<1> QED BY <1>1, <1>2, <1>3 DEF CallState, Refused

\* Thread a completes t: the callback runs, or the synchronous caller is
\* told, with the response if its buffer is still on loan.
LEMMA CompleteSteps ==
  ASSUME CallsInv, NEW a \in Thread, NEW t \in Txn, Open(t),
         done' = [done EXCEPT ![t] = Bump(@)], UNCHANGED <<result, verdict>>,
         \A th \in Thread \ {a} : pc'[th] = pc[th],
         a \in Txn => Inside(pc[a]) /\ Inside(pc'[a]),
         \/ UNCHANGED filled
         \/ /\ filled' = [filled EXCEPT ![t] = TRUE]
            /\ t \in SyncTxn => Begun(pc[t])
  PROVE  Simulated /\ EndPart'
<1>0. /\ done \in [Txn -> 0..2] /\ filled \in [Txn -> BOOLEAN]
      /\ Txn = SyncTxn \cup AsyncTxn /\ SyncTxn \cap AsyncTxn = {}
      /\ Txn \subseteq Thread
  BY CallsTypes DEF CallsInv
<1>1. /\ done[t] = 0 /\ verdict[t] # "ok" /\ ~filled[t] /\ pc[t] # "idle"
      /\ t \in AsyncTxn => CallState(t) = "pending"
  BY OpenPending
<1>2. done'[t] = 1
  BY <1>0, <1>1 DEF Bump
<1>3. ASSUME NEW u \in Txn PROVE \/ pc'[u] = pc[u]
                                 \/ Inside(pc[u]) /\ Inside(pc'[u])
  BY <1>0
<1>4. ASSUME NEW u \in Txn, u # t PROVE Same(u)
  <2>1. done'[u] = done[u] /\ filled'[u] = filled[u]
    BY <1>0, <1>4
  <2>2. CASE pc'[u] = pc[u]
    BY <2>1, <2>2 DEF Same, CallState
  <2>3. CASE Inside(pc[u]) /\ Inside(pc'[u])
    BY <2>1, <2>3, InsideSame DEF Same, Inside
  <2> QED BY <1>3, <2>2, <2>3
<1>5. EndPart'
  <2>1. ASSUME NEW u \in Txn, filled'[u] PROVE done'[u] # 0
    <3>1. CASE u = t
      BY <1>2, <3>1
    <3>2. CASE u # t
      BY <1>0, <2>1, <3>2 DEF CallsInv, EndPart, FilledPart
    <3> QED BY <3>1, <3>2
  <2>2. ASSUME NEW u \in Txn, verdict'[u] = "ok" PROVE pc'[u] = "deleted"
    BY <1>3, <2>2 DEF CallsInv, EndPart, DeletedPart, Inside
  <2> QED BY <2>1, <2>2 DEF EndPart, FilledPart, DeletedPart
<1>6. CASE t \in AsyncTxn
  <2>1. ~Refused(t) /\ t \notin SyncTxn
    BY <1>0, <1>6 DEF CallsInv, OnceInv, Owned
  <2>2. pc'[t] # "idle" /\ ~(pc'[t] = "done" /\ result[t] # "ok")
    BY <1>1, <1>3, <1>6, <2>1 DEF Refused, Inside, Begun
  <2>3. CallState(t)' = "called_back"
    BY <1>1, <1>2, <1>6, <2>1, <2>2 DEF CallState
  <2>4. Moves(t)
    BY <1>1, <1>6, <2>3 DEF Moves, Turns
  <2> QED BY <1>4, <1>5, <2>4, CallSteps
<1>7. CASE t \in SyncTxn
  <2>1. t \notin AsyncTxn
    BY <1>0, <1>7
  <2>2. CallState(t)' = CallState(t)
    <3>1. CASE pc'[t] = pc[t]
      BY <1>7, <2>1, <3>1 DEF CallState
    <3>2. CASE Inside(pc[t]) /\ Inside(pc'[t])
      BY <1>7, <2>1, <3>2 DEF CallState, Inside, Begun
    <3> QED BY <1>3, <3>1, <3>2
  <2>3. CASE UNCHANGED filled
    BY <1>4, <1>5, <2>2, <2>3, CallSteps DEF Same
  <2>4. CASE filled' = [filled EXCEPT ![t] = TRUE] /\ Begun(pc[t])
    <3>1. filled'[t]
      BY <1>0, <2>4
    <3>2. CallState(t) = "pending"
      BY <1>7, <2>1, <2>4 DEF CallState, Begun
    <3>3. Moves(t)
      BY <1>1, <1>7, <2>2, <3>1, <3>2 DEF Moves, Turns
    <3> QED BY <1>4, <1>5, <3>3, CallSteps
  <2> QED BY <1>7, <2>3, <2>4
<1> QED BY <1>0, <1>6, <1>7

------------------------------------------------------------------------------
(* Each action.                                                            *)

\* Every step of any thread is a step of one user's call, or a stutter.
LEMMA CallsStep ==
  CallsInv /\ [Next]_vars => Simulated /\ EndPart'
<1> SUFFICES ASSUME CallsInv, [Next]_vars PROVE Simulated /\ EndPart'
  OBVIOUS
<1> DEFINE Good == Simulated /\ EndPart'
<1>0. CallsInv /\ TypeOK
  BY DEF CallsInv
<1>00. /\ pc \in [Thread -> CallerPC \cup FlushPC \cup CleanPC \cup DataPC
                            \cup RelPC]
       /\ done \in [Txn -> 0..2] /\ filled \in [Txn -> BOOLEAN]
       /\ result \in [Txn -> Codes] /\ cur \in [Thread -> Txn \cup {NoTxn}]
       /\ verdict \in [Txn -> Codes \cup {"no_handle"}]
       /\ moved \in [Thread -> SUBSET Txn]
       /\ Txn = SyncTxn \cup AsyncTxn /\ SyncTxn \cap AsyncTxn = {}
       /\ Txn \subseteq Thread /\ Data \in Thread /\ Releaser \in Thread
       /\ Data \notin Txn /\ Releaser \notin Txn /\ NoTxn \notin Txn
  BY <1>0, CallsTypes
<1> USE DEF At, Goto, client, lists, memory, answer, locals, server, flow,
            returns, hist, txns, world, seen
<1>1. ASSUME NEW t \in Txn, GetTxn(t) PROVE Good
  <2>1. Apart(t)
    BY <1>00, <1>1 DEF Apart, GetTxn
  <2>2. Inside(pc[t]) /\ Inside(pc'[t]) /\ verdict'[t] = verdict[t]
    BY <1>00, <1>1 DEF Inside, Begun, GetTxn
  <2> QED BY <1>0, <1>00, <2>1, <2>2, InsideSteps
<1>2. ASSUME NEW t \in Txn, TakeOwnRef(t) PROVE Good
  <2>1. Apart(t)
    BY <1>00, <1>2 DEF Apart, TakeOwnRef
  <2>2. Inside(pc[t]) /\ Inside(pc'[t]) /\ verdict'[t] = verdict[t]
    BY <1>00, <1>2 DEF Inside, Begun, TakeOwnRef
  <2> QED BY <1>0, <1>00, <2>1, <2>2, InsideSteps
<1>3. ASSUME NEW t \in Txn, PrepareWait(t) PROVE Good
  <2>1. Apart(t)
    BY <1>00, <1>3 DEF Apart, PrepareWait
  <2>2. Inside(pc[t]) /\ Inside(pc'[t]) /\ verdict'[t] = verdict[t]
    BY <1>00, <1>3 DEF Inside, Begun, PrepareWait
  <2> QED BY <1>0, <1>00, <2>1, <2>2, InsideSteps
<1>4. ASSUME NEW t \in Txn, CheckServer(t) PROVE Good
  <2>1. Apart(t)
    BY <1>00, <1>4 DEF Apart, CheckServer, SendFailed
  <2>2. Inside(pc[t]) /\ Inside(pc'[t]) /\ verdict'[t] = verdict[t]
    BY <1>00, <1>4 DEF Inside, Begun, CheckServer, SendFailed
  <2> QED BY <1>0, <1>00, <2>1, <2>2, InsideSteps
<1>5. ASSUME NEW t \in Txn, TakeQueueRef(t) PROVE Good
  <2>1. Apart(t)
    BY <1>00, <1>5 DEF Apart, TakeQueueRef
  <2>2. Inside(pc[t]) /\ Inside(pc'[t]) /\ verdict'[t] = verdict[t]
    BY <1>00, <1>5 DEF Inside, Begun, TakeQueueRef
  <2> QED BY <1>0, <1>00, <2>1, <2>2, InsideSteps
<1>6. ASSUME NEW t \in Txn, Enqueue(t) PROVE Good
  <2>1. Apart(t)
    BY <1>00, <1>6 DEF Apart, Enqueue
  <2>2. pc[t] = "enq" /\ verdict'[t] = verdict[t] /\ done' = done
    BY <1>6 DEF Enqueue
  <2>3. \/ Inside(pc'[t])
        \/ (t \in AsyncTxn /\ pc'[t] = "done" /\ result'[t] = "ok")
    BY <1>00, <1>6 DEF Enqueue, AfterSend, Inside, Begun
  <2>4. CASE Inside(pc'[t])
    BY <1>0, <1>00, <2>1, <2>2, <2>4, InsideSteps DEF Inside, Begun
  <2>5. CASE t \in AsyncTxn /\ pc'[t] = "done" /\ result'[t] = "ok"
    <3>1. Same(t)
      BY <1>00, <2>1, <2>2, <2>5 DEF Same, CallState, Apart
    <3>2. verdict'[t] # "ok"
      BY <1>0, <2>2 DEF CallsInv, EndPart, DeletedPart
    <3> QED BY <1>0, <1>00, <2>1, <3>1, <3>2, ApartSteps
  <2> QED BY <2>3, <2>4, <2>5
<1>7. ASSUME NEW t \in Txn, UndoQueueRef(t) PROVE Good
  <2>1. Apart(t)
    BY <1>00, <1>7 DEF Apart, UndoQueueRef, SendFailed
  <2>2. Inside(pc[t]) /\ Inside(pc'[t]) /\ verdict'[t] = verdict[t]
    BY <1>00, <1>7 DEF Inside, Begun, UndoQueueRef, SendFailed
  <2> QED BY <1>0, <1>00, <2>1, <2>2, InsideSteps
<1>8. ASSUME NEW t \in Txn, AbandonAsync(t) PROVE Good
  <2>1. Apart(t)
    BY <1>00, <1>8 DEF Apart, AbandonAsync
  <2>2. t \in AsyncTxn /\ t \notin SyncTxn
    BY <1>0, <1>00, <1>8 DEF AbandonAsync, CallsInv, OutcomeInv, SyncPart
  <2>3. /\ pc[t] = "failed" /\ pc'[t] = "done" /\ done' = done
        /\ verdict'[t] \in {verdict[t], "no_handle"}
    BY <1>00, <1>8 DEF AbandonAsync
  <2>4. verdict[t] # "ok"
    BY <1>0, <2>3 DEF CallsInv, EndPart, DeletedPart
  <2>5. CASE result'[t] = "ok"
    <3>1. Same(t)
      BY <2>1, <2>2, <2>3, <2>4, <2>5 DEF Same, CallState, Apart
    <3> QED BY <1>0, <1>00, <2>1, <2>3, <2>4, <3>1, ApartSteps
  <2>6. CASE result'[t] # "ok"
    <3>1. t \in txn_list
      BY <1>00, <1>8, <2>6 DEF AbandonAsync
    <3>2. CallState(t) = "pending"
      BY <1>0, <2>2, <3>1, OpenPending DEF Open
    <3>3. done'[t] = 0 /\ verdict'[t] # "ok"
      BY <1>0, <2>3, <2>4, <3>1, OpenPending DEF Open
    <3>4. CallState(t)' = "refused"
      BY <2>2, <2>3, <2>6, <3>3 DEF CallState
    <3>5. Moves(t)
      BY <2>1, <3>2, <3>4 DEF Moves, Turns, Apart
    <3> QED BY <1>0, <1>00, <2>1, <3>3, <3>5, ApartSteps
  <2> QED BY <2>5, <2>6
<1>9. ASSUME NEW t \in Txn, WakeUp(t) PROVE Good
  <2>1. Apart(t)
    BY <1>00, <1>9 DEF Apart, WakeUp, WaitReturns
  <2>2. Inside(pc[t]) /\ Inside(pc'[t]) /\ verdict'[t] = verdict[t]
    BY <1>00, <1>9 DEF Inside, Begun, WakeUp, WaitReturns
  <2> QED BY <1>0, <1>00, <2>1, <2>2, InsideSteps
<1>10. ASSUME NEW t \in Txn, Invalidate(t) PROVE Good
  <2>1. Apart(t)
    BY <1>00, <1>10 DEF Apart, Invalidate
  <2>2. Inside(pc[t]) /\ Inside(pc'[t]) /\ verdict'[t] = verdict[t]
    BY <1>00, <1>10 DEF Inside, Begun, Invalidate
  <2> QED BY <1>0, <1>00, <2>1, <2>2, InsideSteps
<1>11. ASSUME NEW t \in Txn, RemoveSync(t) PROVE Good
  <2>1. Apart(t)
    BY <1>00, <1>11 DEF Apart, RemoveSync
  <2>2. Inside(pc[t]) /\ Inside(pc'[t]) /\ verdict'[t] = verdict[t]
    BY <1>00, <1>11 DEF Inside, Begun, RemoveSync
  <2> QED BY <1>0, <1>00, <2>1, <2>2, InsideSteps
<1>12. ASSUME NEW t \in Txn, DropOwnRef(t) PROVE Good
  <2>1. Apart(t)
    BY <1>00, <1>12 DEF Apart, DropOwnRef
  <2>2. /\ pc[t] = "fin_dec" /\ pc'[t] = "done"
        /\ result'[t] = result[t] /\ filled' = filled
    BY <1>00, <1>12 DEF DropOwnRef
  <2>3. t \in SyncTxn /\ t \notin AsyncTxn
    BY <1>0, <1>00, <2>2 DEF CallsInv, OnceInv, AsyncPath
  <2>4. result[t] = "ok" => filled[t]
    BY <1>0, <2>3 DEF CallsInv, OutcomeInv, SyncPart
  <2>5. CallState(t) = "pending"
    BY <2>2, <2>3 DEF CallState
  <2>6. CallState(t)' = IF result[t] = "ok" THEN "returned" ELSE "refused"
    BY <2>2, <2>3 DEF CallState
  <2>7. Moves(t)
    BY <2>2, <2>3, <2>4, <2>5, <2>6 DEF Moves, Turns
  <2>8. verdict'[t] # "ok"
    BY <1>0, <1>12, <2>2 DEF DropOwnRef, CallsInv, EndPart, DeletedPart
  <2> QED BY <1>0, <1>00, <2>1, <2>7, <2>8, ApartSteps
<1>13. ASSUME NEW t \in Txn, DeleteFromTxQ(t) PROVE Good
  <2>1. Apart(t)
    BY <1>00, <1>13 DEF Apart, DeleteFromTxQ
  <2>2. Inside(pc[t]) /\ Inside(pc'[t]) /\ verdict'[t] = verdict[t]
    BY <1>00, <1>13 DEF Inside, Begun, DeleteFromTxQ
  <2> QED BY <1>0, <1>00, <2>1, <2>2, InsideSteps
<1>14. ASSUME NEW t \in Txn, DeleteFromList(t) PROVE Good
  <2>1. Apart(t)
    BY <1>00, <1>14 DEF Apart, DeleteFromList
  <2>2. /\ Inside(pc[t]) /\ Begun(pc'[t]) /\ done' = done
        /\ verdict'[t] \in {verdict[t], "invalid_txn"}
    BY <1>00, <1>14 DEF DeleteFromList, Inside, Begun
  <2>3. verdict[t] # "ok"
    BY <1>0, <2>2 DEF CallsInv, EndPart, DeletedPart, Inside
  <2>4. Same(t)
    BY <2>1, <2>2, <2>3 DEF Same, CallState, Inside, Begun, Apart
  <2> QED BY <1>0, <1>00, <2>1, <2>2, <2>3, <2>4, ApartSteps
<1>15. ASSUME NEW t \in Txn, DeleteFree(t) PROVE Good
  <2>1. Apart(t)
    BY <1>00, <1>15 DEF Apart, DeleteFree
  <2>2. Open(t)
    BY <1>00, <1>15 DEF DeleteFree, Open, Takes
  <2>3. pc[t] = "del_free" /\ pc'[t] = "deleted" /\ verdict'[t] = "ok"
    BY <1>00, <1>15 DEF DeleteFree
  <2>4. CASE t \in AsyncTxn
    <3>1. CallState(t) = "pending"
      BY <1>0, <2>2, <2>4, OpenPending
    <3>2. CallState(t)' = "cancelled"
      <4>1. done'[t] = 0
        BY <1>0, <2>1, <2>2, OpenPending DEF Apart
      <4> QED BY <1>00, <2>3, <2>4, <4>1 DEF CallState
    <3>3. Moves(t)
      BY <2>1, <2>4, <3>1, <3>2 DEF Moves, Turns, Apart
    <3> QED BY <1>0, <1>00, <2>1, <2>3, <3>3, ApartSteps
  <2>5. CASE t \notin AsyncTxn
    <3>1. Same(t)
      BY <2>1, <2>3, <2>5 DEF Same, CallState, Apart
    <3> QED BY <1>0, <1>00, <2>1, <2>3, <3>1, ApartSteps
  <2> QED BY <2>4, <2>5
<1>16. ASSUME NEW th \in Thread, FlushStart(th) PROVE Good
  <2>1. Apart(th)
    BY <1>00, <1>16 DEF Apart, FlushStart
  <2>2. /\ pc[th] \in FlushPC \cup CleanPC /\ UNCHANGED <<result, verdict>>
        /\ \/ Inside(pc'[th])
           \/ th \in AsyncTxn /\ pc'[th] = "done"
           \/ th \notin Txn
    BY <1>00, <1>16 DEF Inside, Begun, FlushPC, CleanPC, FlushStart
  <2> QED BY <1>0, <2>1, <2>2, LeavingSteps
<1>17. ASSUME NEW th \in Thread, FlushDone(th) PROVE Good
  <2>1. Apart(th)
    BY <1>00, <1>17 DEF Apart, FlushDone, FlushExit, AfterSend
  <2>2. /\ pc[th] \in FlushPC \cup CleanPC /\ UNCHANGED <<result, verdict>>
        /\ \/ Inside(pc'[th])
           \/ th \in AsyncTxn /\ pc'[th] = "done"
           \/ th \notin Txn
    BY <1>00, <1>17 DEF Inside, Begun, FlushPC, CleanPC, FlushDone, FlushExit,
       AfterSend
  <2> QED BY <1>0, <2>1, <2>2, LeavingSteps
<1>18. ASSUME NEW th \in Thread, FlushBusy(th) PROVE Good
  <2>1. Apart(th)
    BY <1>00, <1>18 DEF Apart, FlushBusy, FlushExit, AfterSend
  <2>2. /\ pc[th] \in FlushPC \cup CleanPC /\ UNCHANGED <<result, verdict>>
        /\ \/ Inside(pc'[th])
           \/ th \in AsyncTxn /\ pc'[th] = "done"
           \/ th \notin Txn
    BY <1>00, <1>18 DEF Inside, Begun, FlushPC, CleanPC, FlushBusy, FlushExit,
       AfterSend
  <2> QED BY <1>0, <2>1, <2>2, LeavingSteps
<1>19. ASSUME NEW th \in Thread, FlushSend(th) PROVE Good
  <2>1. Apart(th)
    BY <1>00, <1>19 DEF Apart, FlushSend
  <2>2. /\ pc[th] \in FlushPC \cup CleanPC /\ UNCHANGED <<result, verdict>>
        /\ \/ Inside(pc'[th])
           \/ th \in AsyncTxn /\ pc'[th] = "done"
           \/ th \notin Txn
    BY <1>00, <1>19 DEF Inside, Begun, FlushPC, CleanPC, FlushSend
  <2> QED BY <1>0, <2>1, <2>2, LeavingSteps
<1>20. ASSUME NEW th \in Thread, FlushFind(th) PROVE Good
  <2>1. Apart(th)
    BY <1>00, <1>20 DEF Apart, FlushFind, AfterSendError
  <2>2. /\ pc[th] \in FlushPC \cup CleanPC /\ UNCHANGED <<result, verdict>>
        /\ \/ Inside(pc'[th])
           \/ th \in AsyncTxn /\ pc'[th] = "done"
           \/ th \notin Txn
    BY <1>00, <1>20 DEF Inside, Begun, FlushPC, CleanPC, FlushFind,
       AfterSendError
  <2> QED BY <1>0, <2>1, <2>2, LeavingSteps
<1>21. ASSUME NEW th \in Thread, FlushError(th) PROVE Good
  <2> DEFINE t == cur[th]
  <2>1. /\ done' = [done EXCEPT ![t] = Bump(@)]
        /\ UNCHANGED <<filled, result, verdict>>
        /\ \A a \in Thread \ {th} : pc'[a] = pc[a]
        /\ pc[th] = "fl_error" /\ Inside(pc[th]) /\ Inside(pc'[th])
    BY <1>00, <1>21 DEF FlushError, Fail, AfterSendError, Inside, Begun
  <2>2. CASE t \in Txn
    <3>1. Open(t)
      BY <1>00, <2>1, <2>2 DEF Open, Takes
    <3> HIDE DEF t
    <3> QED BY <1>0, <2>1, <2>2, <3>1, CompleteSteps
  <2>3. CASE t \notin Txn
    <3>1. done' = done
      BY <1>00, <2>1, <2>3
    <3> QED BY <1>0, <1>00, <2>1, <3>1, InsideSteps DEF Apart
  <2> QED BY <2>2, <2>3
<1>22. ASSUME NEW th \in Thread, FlushDrop(th) PROVE Good
  <2>1. Apart(th)
    BY <1>00, <1>22 DEF Apart, FlushDrop
  <2>2. /\ pc[th] \in FlushPC \cup CleanPC /\ UNCHANGED <<result, verdict>>
        /\ \/ Inside(pc'[th])
           \/ th \in AsyncTxn /\ pc'[th] = "done"
           \/ th \notin Txn
    BY <1>00, <1>22 DEF Inside, Begun, FlushPC, CleanPC, FlushDrop
  <2> QED BY <1>0, <2>1, <2>2, LeavingSteps
<1>23. ASSUME NEW th \in Thread, ServerError(th) PROVE Good
  <2>1. Apart(th)
    BY <1>00, <1>23 DEF Apart, ServerError
  <2>2. /\ pc[th] \in FlushPC \cup CleanPC /\ UNCHANGED <<result, verdict>>
        /\ \/ Inside(pc'[th])
           \/ th \in AsyncTxn /\ pc'[th] = "done"
           \/ th \notin Txn
    BY <1>00, <1>23 DEF Inside, Begun, FlushPC, CleanPC, ServerError
  <2> QED BY <1>0, <2>1, <2>2, LeavingSteps
<1>24. ASSUME NEW th \in Thread, CleanTxQ(th) PROVE Good
  <2>1. Apart(th)
    BY <1>00, <1>24 DEF Apart, CleanTxQ
  <2>2. /\ pc[th] \in FlushPC \cup CleanPC /\ UNCHANGED <<result, verdict>>
        /\ \/ Inside(pc'[th])
           \/ th \in AsyncTxn /\ pc'[th] = "done"
           \/ th \notin Txn
    BY <1>00, <1>24 DEF Inside, Begun, FlushPC, CleanPC, CleanTxQ
  <2> QED BY <1>0, <2>1, <2>2, LeavingSteps
<1>25. ASSUME NEW th \in Thread, CleanList(th) PROVE Good
  <2>1. Apart(th)
    BY <1>00, <1>25 DEF Apart, CleanList
  <2>2. /\ pc[th] \in FlushPC \cup CleanPC /\ UNCHANGED <<result, verdict>>
        /\ \/ Inside(pc'[th])
           \/ th \in AsyncTxn /\ pc'[th] = "done"
           \/ th \notin Txn
    BY <1>00, <1>25 DEF Inside, Begun, FlushPC, CleanPC, CleanList
  <2> QED BY <1>0, <2>1, <2>2, LeavingSteps
<1>26. ASSUME NEW th \in Thread, CleanEach(th) PROVE Good
  <2>1. PICK t \in moved[th] : /\ Fail(t, CleanError(th))
                                /\ UNCHANGED <<pc, result, verdict>>
    BY <1>26 DEF CleanEach
  <2>2. t \in Txn /\ pc[th] = "cl_each" /\ Open(t)
    BY <1>00, <1>26, <2>1 DEF CleanEach, Open, Takes
  <2>3. /\ done' = [done EXCEPT ![t] = Bump(@)] /\ UNCHANGED filled
        /\ Inside(pc[th]) /\ Inside(pc'[th])
    BY <2>1, <2>2 DEF Fail, Inside, Begun
  <2> QED BY <1>0, <2>1, <2>2, <2>3, CompleteSteps
<1>27. ASSUME NEW th \in Thread, CleanDone(th) PROVE Good
  <2>1. Apart(th)
    BY <1>00, <1>27 DEF Apart, CleanDone, CleanExit, FlushExit, AfterSend
  <2>2. /\ pc[th] \in FlushPC \cup CleanPC /\ UNCHANGED <<result, verdict>>
        /\ \/ Inside(pc'[th])
           \/ th \in AsyncTxn /\ pc'[th] = "done"
           \/ th \notin Txn
    BY <1>00, <1>27 DEF Inside, Begun, FlushPC, CleanPC, CleanDone, CleanExit,
       FlushExit, AfterSend
  <2> QED BY <1>0, <2>1, <2>2, LeavingSteps
<1>28. ASSUME NEW m \in inbox, RecvFind(m) PROVE Good
  <2>1. Apart(Data)
    BY <1>00, <1>28 DEF Apart, RecvFind
  <2> QED BY <1>0, <1>00, <2>1, InsideSteps
<1>29. ASSUME RecvDeliver PROVE Good
  <2> DEFINE t == cur[Data]
  <2>1. pc[Data] = "recv_good" /\ UNCHANGED <<result, verdict>>
    BY <1>29 DEF RecvDeliver
  <2>2. \A th \in Thread \ {Data} : pc'[th] = pc[th]
    BY <1>00, <1>29 DEF RecvDeliver
  <2>3. CASE rx_buf[t] /\ t \in Txn
    <3>1. Open(t)
      BY <1>00, <2>1, <2>3 DEF Open, Takes
    <3>2. /\ done' = [done EXCEPT ![t] = Bump(@)]
          /\ filled' = [filled EXCEPT ![t] = TRUE]
      BY <1>29, <2>3 DEF RecvDeliver
    <3>3. t \in SyncTxn => Begun(pc[t])
      BY <1>0, <2>3 DEF CallsInv, OutcomeInv, SyncPart, Unlent, Begun
    <3> HIDE DEF t
    <3> QED BY <1>0, <1>00, <2>1, <2>2, <2>3, <3>1, <3>2, <3>3, CompleteSteps
  <2>4. CASE ~(rx_buf[t] /\ t \in Txn)
    <3>1. done' = done /\ filled' = filled
      BY <1>00, <1>29, <2>4 DEF RecvDeliver
    <3> QED BY <1>0, <1>00, <2>1, <2>2, <3>1, InsideSteps DEF Apart
  <2> QED BY <2>3, <2>4
<1>30. ASSUME RecvMismatch PROVE Good
  <2> DEFINE t == cur[Data]
  <2>1. pc[Data] = "recv_bad" /\ UNCHANGED <<result, verdict>>
    BY <1>30 DEF RecvMismatch
  <2>2. \A th \in Thread \ {Data} : pc'[th] = pc[th]
    BY <1>00, <1>30 DEF RecvMismatch
  <2>3. done' = [done EXCEPT ![t] = Bump(@)] /\ UNCHANGED filled
    BY <1>30 DEF RecvMismatch, Fail
  <2>4. CASE t \in Txn
    <3>1. Open(t)
      BY <1>00, <2>1, <2>4 DEF Open, Takes
    <3> HIDE DEF t
    <3> QED BY <1>0, <1>00, <2>1, <2>2, <2>3, <2>4, <3>1, CompleteSteps
  <2>5. CASE t \notin Txn
    <3>1. done' = done
      BY <1>00, <2>3, <2>5
    <3> QED BY <1>0, <1>00, <2>1, <2>2, <2>3, <3>1, InsideSteps DEF Apart
  <2> QED BY <2>4, <2>5
<1>31. ASSUME RecvResume PROVE Good
  <2>1. Apart(Data)
    BY <1>00, <1>31 DEF Apart, RecvResume
  <2> QED BY <1>0, <1>00, <2>1, InsideSteps
<1>32. ASSUME RecvServerGone PROVE Good
  <2>1. Apart(Data)
    BY <1>00, <1>32 DEF Apart, RecvServerGone
  <2> QED BY <1>0, <1>00, <2>1, InsideSteps
<1>33. ASSUME RecvClose PROVE Good
  <2>1. Apart(Data)
    BY <1>00, <1>33 DEF Apart, RecvClose
  <2> QED BY <1>0, <1>00, <2>1, InsideSteps
<1>34. ASSUME ReleaseGate PROVE Good
  <2>1. Apart(Releaser)
    BY <1>00, <1>34 DEF Apart, ReleaseGate
  <2> QED BY <1>0, <1>00, <2>1, InsideSteps
<1>35. ASSUME ReleaseClose PROVE Good
  <2>1. Apart(Releaser)
    BY <1>00, <1>35 DEF Apart, ReleaseClose
  <2> QED BY <1>0, <1>00, <2>1, InsideSteps
<1>36. ASSUME NEW t \in Txn, Begin(t) PROVE Good
  <2>1. Apart(t)
    BY <1>00, <1>36 DEF Apart, Begin
  <2>2. /\ pc[t] = "idle" /\ done[t] = 0 /\ done'[t] = 0
        /\ verdict[t] = "none" /\ verdict'[t] = "none"
    BY <1>0, <1>36, <2>1 DEF Begin, CallsInv, OnceInv, Owned, Fresh, Apart
  <2>3. CallState(t) = "new"
    BY <2>2 DEF CallState
  <2>4. CallState(t)' \in {"pending", "refused"}
    <3>1. CASE pc'[t] = "add"
      BY <2>2, <3>1 DEF CallState
    <3>2. CASE pc'[t] = "done" /\ result'[t] # "ok"
      BY <1>00, <2>2, <3>2 DEF CallState
    <3> QED BY <1>00, <1>36, <3>1, <3>2 DEF Begin
  <2>5. Moves(t)
    BY <2>1, <2>3, <2>4 DEF Moves, Turns, Apart
  <2> QED BY <1>0, <1>00, <2>1, <2>2, <2>5, ApartSteps
<1>37. ASSUME NEW t \in Txn, TimeOut(t) PROVE Good
  <2>1. Apart(t)
    BY <1>00, <1>37 DEF Apart, TimeOut, WaitReturns
  <2>2. Inside(pc[t]) /\ Inside(pc'[t]) /\ verdict'[t] = verdict[t]
    BY <1>00, <1>37 DEF Inside, Begun, TimeOut, WaitReturns
  <2> QED BY <1>0, <1>00, <2>1, <2>2, InsideSteps
<1>38. ASSUME NEW t \in Txn, DeleteAsync(t) PROVE Good
  <2>1. Apart(t)
    BY <1>00, <1>38 DEF Apart, DeleteAsync
  <2>2. /\ t \in AsyncTxn /\ t \notin SyncTxn /\ pc[t] = "done"
        /\ result[t] = "ok" /\ verdict[t] = "none"
        /\ pc'[t] \in {"del_tx", "deleted"}
        /\ verdict'[t] \in {"none", "invalid_clnt"}
    BY <1>00, <1>38 DEF DeleteAsync
  <2>3. Same(t)
    BY <2>1, <2>2 DEF Same, CallState, Apart
  <2> QED BY <1>0, <1>00, <2>1, <2>2, <2>3, ApartSteps
<1>39. ASSUME RegisterErrorCb PROVE Good
  <2>1. Apart(Data)
    BY <1>00, <1>39 DEF Apart, RegisterErrorCb
  <2> QED BY <1>0, <1>00, <2>1, InsideSteps
<1>40. ASSUME ReleaseStart PROVE Good
  <2>1. Apart(Releaser)
    BY <1>00, <1>40 DEF Apart, ReleaseStart
  <2> QED BY <1>0, <1>00, <2>1, InsideSteps
<1>41. ASSUME NEW t \in Txn, Respond(t) PROVE Good
  <2>1. Apart(Data)
    BY <1>00, <1>41 DEF Apart, Respond
  <2> QED BY <1>0, <1>00, <2>1, InsideSteps
<1>42. ASSUME NEW t \in Txn, UseAfterFree(t) PROVE Good
  <2>1. Apart(Data)
    BY <1>00, <1>42 DEF Apart, UseAfterFree
  <2> QED BY <1>0, <1>00, <2>1, InsideSteps
<1>43. ASSUME ServerDies PROVE Good
  <2>1. Apart(Data)
    BY <1>00, <1>43 DEF Apart, ServerDies
  <2> QED BY <1>0, <1>00, <2>1, InsideSteps
<1>44. ASSUME Block PROVE Good
  <2>1. Apart(Data)
    BY <1>00, <1>44 DEF Apart, Block
  <2> QED BY <1>0, <1>00, <2>1, InsideSteps
<1>45. ASSUME Unblock PROVE Good
  <2>1. Apart(Data)
    BY <1>00, <1>45 DEF Apart, Unblock
  <2> QED BY <1>0, <1>00, <2>1, InsideSteps
<1>46. ASSUME UNCHANGED vars PROVE Good
  <2>1. Apart(Data)
    BY <1>00, <1>46 DEF Apart, vars
  <2> QED BY <1>0, <1>00, <2>1, InsideSteps
<1> HIDE DEF Good
<1>47. Good
  BY <1>1, <1>2, <1>3, <1>4, <1>5, <1>6, <1>7, <1>8, <1>9, <1>10, <1>11,
     <1>12, <1>13, <1>14, <1>15, <1>16, <1>17, <1>18, <1>19, <1>20, <1>21,
     <1>22, <1>23, <1>24, <1>25, <1>26, <1>27, <1>28, <1>29, <1>30, <1>31,
     <1>32, <1>33, <1>34, <1>35, <1>36, <1>37, <1>38, <1>39, <1>40, <1>41,
     <1>42, <1>43, <1>44, <1>45, <1>46
  DEF Next, CallerStep, FlushStep, CleanStep, DataStep, ReleaseStep,
      UserStep, EnvStep, Rest
<1> QED BY <1>47 DEF Good

\* The library implements the calls of QmiCalls (qmi_client.h): each call is
\* refused, or returns with its response in the buffer, or is called back
\* once, or is cancelled, and its buffer is written once at most and only
\* while it is pending - for any number of callers, however responses,
\* time-outs, deletions, flow control, the loss of the server and a release
\* overlap.
THEOREM CallsImplemented == Spec => ImplementsCalls
<1>1. Init => EndPart /\ Promise!Init
  <2> SUFFICES ASSUME Init PROVE EndPart /\ Promise!Init
    OBVIOUS
  <2>1. \A t \in Txn : pc[t] = "idle" /\ ~filled[t] /\ done[t] = 0
                          /\ verdict[t] = "none"
    BY DEF Init, Thread
  <2>2. \A t \in Txn : CallState(t) = "new"
    BY <2>1 DEF CallState
  <2>3. Promise!Init
    BY <2>1, <2>2 DEF Promise!Init, Promise!Call, Txn
  <2> QED BY <2>1, <2>3 DEF EndPart, FilledPart, DeletedPart
<1>2. CallsInv /\ [Next]_vars => EndPart'
  BY CallsStep
<1>3. CallsInv /\ [Next]_vars
        => [Promise!Next]_<<[t \in Txn |-> CallState(t)],
                            [t \in Txn |-> IF filled[t] THEN "full"
                                           ELSE "empty"]>>
  BY CallsStep DEF Simulated, CallOf, BufferOf
<1>4. Init => CallsInv
  BY <1>1, TypeInit, OwnedInit, OutcomeInit DEF CallsInv
<1>5. CallsInv /\ [Next]_vars => CallsInv'
  BY <1>2, TypeStep, OwnedStep, OutcomeStep DEF CallsInv
<1> QED BY <1>1, <1>3, <1>4, <1>5, PTL
        DEF Spec, ImplementsCalls, Promise!Spec

------------------------------------------------------------------------------
(* Nothing is forgotten: the inductive invariant.                          *)

\* A caller that will enqueue its transaction or take it off txn_list.
Active == {"inc_own", "prep", "send", "inc_tx", "enq", "dec_tx", "failed",
           "fin_inval", "fin_remove", "del_tx", "del_list"}

\* A thread that will empty txn_list.
Sweeps(th) == \/ pc[th] \in {"server_error", "cl_tx", "cl_list"}
              \/ pc[th] = "fl_addr" /\ category = "dormant"
Swept == \E th \in Thread : Sweeps(th)

\* The response of t is to come, or is there to be read.
Coming(t) == t \in Elems(wire) /\ (t \notin answered \/ \E m \in inbox : m.txn = t)

\* The send of t failed in the hands of a flush.
Failing(t) == \E th \in Thread : pc[th] = "fl_find" /\ cur[th] = t

\* Why a listed transaction will not stay listed.
Kept(t) == \/ pc[t] \in Active \/ Swept
           \/ /\ category = "connected"
              /\ t \in Elems(tx_q) \/ Failing(t) \/ Coming(t)

ListKept == \A t \in txn_list : Kept(t)

\* Without a server the queue is on its way to be emptied.
DormantPart ==
  category = "dormant" /\ tx_q # <<>> =>
    \E th \in Thread : pc[th] \in {"fl_addr", "server_error", "cl_tx"}

\* The release first closes the gate, then empties the queue and the list, and
\* tells the data thread last.
ReleasePart ==
  /\ pc[Releaser] \in {"idle", "rel_gate", "cl_tx", "cl_list", "cl_each",
                       "rel_close", "done"}
  /\ pc[Releaser] \notin {"idle", "rel_gate"} => ~accepting_txns
  /\ pc[Releaser] \in {"cl_list", "cl_each", "rel_close", "done"} => tx_q = <<>>
  /\ pc[Releaser] \in {"cl_each", "rel_close", "done"} =>
       \A t \in txn_list : pc[t] \in Active
  /\ closing => pc[Releaser] = "done"
  /\ pc[Data] = "stopped" => closing

\* The loss of the server is on its way to the client, and only a blocked port
\* owes a resume event.
ServerPart ==
  /\ category \in {"connected", "dormant"}
  /\ ~server_up => \/ gone_evt \/ pc[Data] = "server_error"
                   \/ category = "dormant"
  /\ waiter => blocked
  /\ answered \subseteq Elems(wire)

RestInv == ListKept /\ DormantPart /\ ReleasePart /\ ServerPart

\* Nothing is listed or queued before the first call.
LEMMA RestInit == Init => RestInv
<1> SUFFICES ASSUME Init PROVE RestInv
  OBVIOUS
<1>1. /\ txn_list = {} /\ tx_q = <<>> /\ answered = {} /\ server_up
      /\ ~closing /\ ~waiter /\ category = "connected"
      /\ \A th \in Thread : pc[th] = "idle"
      /\ Data \in Thread /\ Releaser \in Thread
  BY DEF Init, Thread
<1> QED BY <1>1
    DEF RestInv, ListKept, DormantPart, ReleasePart, ServerPart

\* Where a step may leave the list to itself no more.
KeepPC == {"server_error", "cl_tx", "cl_list", "fl_addr", "fl_find"}

\* A step of thread a that neither flushes nor cleans and that takes no caller
\* out of its path but off the list.
Plain(a, where) ==
  /\ pc' = [pc EXCEPT ![a] = where]
  /\ \A th \in Thread \ {a} : cur'[th] = cur[th]
  /\ UNCHANGED <<tx_q, wire, answered, inbox, category>>
  /\ txn_list' \subseteq txn_list
  /\ pc[a] \notin KeepPC \/ (pc[a] = where /\ cur' = cur)
  /\ a \in txn_list' /\ pc[a] \in Active => where \in Active

\* It leaves every listed transaction as it was.
LEMMA RestMove ==
  ASSUME NEW a \in Thread, NEW where, ListKept, TypeOK, Plain(a, where)
  PROVE  ListKept'
<1>0. /\ Txn \subseteq Thread /\ txn_list \subseteq Txn
      /\ pc \in [Thread -> CallerPC \cup FlushPC \cup CleanPC \cup DataPC
                           \cup RelPC]
  BY DEF TypeOK, TxnType, ThreadType, Thread
<1> USE DEF Plain
<1>1. \A th \in Thread : /\ th # a => pc'[th] = pc[th]
                        /\ th = a => pc'[th] = where
  BY <1>0
<1>2. Swept => Swept'
  <2> SUFFICES ASSUME NEW th \in Thread, Sweeps(th) PROVE Sweeps(th)'
    BY DEF Swept
  <2>1. CASE th = a
    BY <1>1, <2>1 DEF Sweeps, KeepPC
  <2>2. CASE th # a
    BY <1>1, <2>2 DEF Sweeps
  <2> QED BY <2>1, <2>2
<1>3. ASSUME NEW t \in Txn, Failing(t) PROVE Failing(t)'
  <2>1. PICK th \in Thread : pc[th] = "fl_find" /\ cur[th] = t
    BY <1>3 DEF Failing
  <2>2. pc'[th] = "fl_find" /\ cur'[th] = t
    BY <1>1, <2>1 DEF KeepPC
  <2> QED BY <2>2 DEF Failing
<1>4. ASSUME NEW t \in txn_list' PROVE Kept(t)'
  <2>1. t \in Txn /\ t \in Thread /\ Kept(t)
    BY <1>0 DEF ListKept
  <2>2. pc[t] \in Active => pc'[t] \in Active
    BY <1>1, <1>4, <2>1
  <2>3. Coming(t)' <=> Coming(t)
    BY DEF Coming
  <2> QED BY <1>2, <1>3, <2>1, <2>2, <2>3 DEF Kept
<1> QED BY <1>4 DEF ListKept

\* The steps of that kind, ...
LEMMA PlainSteps ==
  ASSUME RefsInv, ListKept
  PROVE
    /\ \A t \in Txn : TakeOwnRef(t) => ListKept'
    /\ \A t \in Txn : PrepareWait(t) => ListKept'
    /\ \A t \in Txn : CheckServer(t) => ListKept'
    /\ \A t \in Txn : TakeQueueRef(t) => ListKept'
    /\ \A t \in Txn : UndoQueueRef(t) => ListKept'
    /\ \A t \in Txn : AbandonAsync(t) => ListKept'
    /\ \A t \in Txn : WakeUp(t) => ListKept'
    /\ \A t \in Txn : TimeOut(t) => ListKept'
    /\ \A t \in Txn : Invalidate(t) => ListKept'
    /\ \A t \in Txn : RemoveSync(t) => ListKept'
    /\ \A t \in Txn : DropOwnRef(t) => ListKept'
    /\ \A t \in Txn : DeleteFromList(t) => ListKept'
    /\ \A t \in Txn : DeleteFree(t) => ListKept'
    /\ \A t \in Txn : Begin(t) => ListKept'
    /\ \A t \in Txn : DeleteAsync(t) => ListKept'
    /\ \A th \in Thread : FlushDone(th) => ListKept'
    /\ \A th \in Thread : FlushBusy(th) => ListKept'
    /\ \A th \in Thread : FlushError(th) => ListKept'
    /\ \A th \in Thread : FlushDrop(th) => ListKept'
    /\ \A th \in Thread : CleanEach(th) => ListKept'
    /\ \A th \in Thread : CleanDone(th) => ListKept'
    /\ RecvDeliver => ListKept'
    /\ RecvMismatch => ListKept'
    /\ RecvResume => ListKept'
    /\ RecvServerGone => ListKept'
    /\ RecvClose => ListKept'
    /\ ReleaseStart => ListKept'
    /\ ReleaseGate => ListKept'
    /\ ReleaseClose => ListKept'
<1>0. /\ pc \in [Thread -> CallerPC \cup FlushPC \cup CleanPC \cup DataPC
                           \cup RelPC]
      /\ cur \in [Thread -> Txn \cup {NoTxn}]
      /\ Txn \subseteq Thread /\ Data \in Thread /\ Releaser \in Thread
      /\ \A t \in Txn : Open(t) => ~Fresh(t)
  BY DEF RefsInv, OnceInv, Owned, TypeOK, ThreadType, Thread
<1> USE DEF At, Goto, client, lists, locals, returns, txns, seen, world,
        server, flow
<1>1. \A t \in Txn : TakeOwnRef(t) => ListKept'
  <2> SUFFICES ASSUME NEW t \in Txn, TakeOwnRef(t) PROVE ListKept'
    OBVIOUS
  <2>1. \E where \in {"prep"} : Plain(t, where)
    BY <1>0 DEF Plain, KeepPC, Active, TakeOwnRef
  <2> QED BY <1>0, <2>1, RestMove DEF RefsInv
<1>2. \A t \in Txn : PrepareWait(t) => ListKept'
  <2> SUFFICES ASSUME NEW t \in Txn, PrepareWait(t) PROVE ListKept'
    OBVIOUS
  <2>1. \E where \in {"send"} : Plain(t, where)
    BY <1>0 DEF Plain, KeepPC, Active, PrepareWait
  <2> QED BY <1>0, <2>1, RestMove DEF RefsInv
<1>3. \A t \in Txn : CheckServer(t) => ListKept'
  <2> SUFFICES ASSUME NEW t \in Txn, CheckServer(t) PROVE ListKept'
    OBVIOUS
  <2>1. \E where \in {"fin_inval", "failed", "inc_tx"} : Plain(t, where)
    BY <1>0 DEF Plain, KeepPC, Active, CheckServer, SendFailed
  <2> QED BY <1>0, <2>1, RestMove DEF RefsInv
<1>4. \A t \in Txn : TakeQueueRef(t) => ListKept'
  <2> SUFFICES ASSUME NEW t \in Txn, TakeQueueRef(t) PROVE ListKept'
    OBVIOUS
  <2>1. \E where \in {"enq"} : Plain(t, where)
    BY <1>0 DEF Plain, KeepPC, Active, TakeQueueRef
  <2> QED BY <1>0, <2>1, RestMove DEF RefsInv
<1>5. \A t \in Txn : UndoQueueRef(t) => ListKept'
  <2> SUFFICES ASSUME NEW t \in Txn, UndoQueueRef(t) PROVE ListKept'
    OBVIOUS
  <2>1. \E where \in {"fin_inval", "failed"} : Plain(t, where)
    BY <1>0 DEF Plain, KeepPC, Active, UndoQueueRef, SendFailed
  <2> QED BY <1>0, <2>1, RestMove DEF RefsInv
<1>6. \A t \in Txn : AbandonAsync(t) => ListKept'
  <2> SUFFICES ASSUME NEW t \in Txn, AbandonAsync(t) PROVE ListKept'
    OBVIOUS
  <2>1. \E where \in {"done"} : Plain(t, where)
    BY <1>0 DEF Plain, KeepPC, Active, AbandonAsync
  <2> QED BY <1>0, <2>1, RestMove DEF RefsInv
<1>7. \A t \in Txn : WakeUp(t) => ListKept'
  <2> SUFFICES ASSUME NEW t \in Txn, WakeUp(t) PROVE ListKept'
    OBVIOUS
  <2>1. \E where \in {"wait", "fin_inval"} : Plain(t, where)
    BY <1>0 DEF Plain, KeepPC, Active, WakeUp, WaitReturns
  <2> QED BY <1>0, <2>1, RestMove DEF RefsInv
<1>8. \A t \in Txn : TimeOut(t) => ListKept'
  <2> SUFFICES ASSUME NEW t \in Txn, TimeOut(t) PROVE ListKept'
    OBVIOUS
  <2>1. \E where \in {"fin_inval"} : Plain(t, where)
    BY <1>0 DEF Plain, KeepPC, Active, TimeOut, WaitReturns
  <2> QED BY <1>0, <2>1, RestMove DEF RefsInv
<1>9. \A t \in Txn : Invalidate(t) => ListKept'
  <2> SUFFICES ASSUME NEW t \in Txn, Invalidate(t) PROVE ListKept'
    OBVIOUS
  <2>1. \E where \in {"fin_remove"} : Plain(t, where)
    BY <1>0 DEF Plain, KeepPC, Active, Invalidate
  <2> QED BY <1>0, <2>1, RestMove DEF RefsInv
<1>10. \A t \in Txn : RemoveSync(t) => ListKept'
  <2> SUFFICES ASSUME NEW t \in Txn, RemoveSync(t) PROVE ListKept'
    OBVIOUS
  <2>1. \E where \in {"fin_dec"} : Plain(t, where)
    BY <1>0 DEF Plain, KeepPC, Active, RemoveSync
  <2> QED BY <1>0, <2>1, RestMove DEF RefsInv
<1>11. \A t \in Txn : DropOwnRef(t) => ListKept'
  <2> SUFFICES ASSUME NEW t \in Txn, DropOwnRef(t) PROVE ListKept'
    OBVIOUS
  <2>1. \E where \in {"done"} : Plain(t, where)
    BY <1>0 DEF Plain, KeepPC, Active, DropOwnRef
  <2> QED BY <1>0, <2>1, RestMove DEF RefsInv
<1>12. \A t \in Txn : DeleteFromList(t) => ListKept'
  <2> SUFFICES ASSUME NEW t \in Txn, DeleteFromList(t) PROVE ListKept'
    OBVIOUS
  <2>1. \E where \in {"del_free", "deleted"} : Plain(t, where)
    BY <1>0 DEF Plain, KeepPC, Active, DeleteFromList
  <2> QED BY <1>0, <2>1, RestMove DEF RefsInv
<1>13. \A t \in Txn : DeleteFree(t) => ListKept'
  <2> SUFFICES ASSUME NEW t \in Txn, DeleteFree(t) PROVE ListKept'
    OBVIOUS
  <2>1. \E where \in {"deleted"} : Plain(t, where)
    BY <1>0 DEF Plain, KeepPC, Active, DeleteFree
  <2> QED BY <1>0, <2>1, RestMove DEF RefsInv
<1>14. \A t \in Txn : Begin(t) => ListKept'
  <2> SUFFICES ASSUME NEW t \in Txn, Begin(t) PROVE ListKept'
    OBVIOUS
  <2>1. \E where \in {"add", "done"} : Plain(t, where)
    BY <1>0 DEF Plain, KeepPC, Active, Begin
  <2> QED BY <1>0, <2>1, RestMove DEF RefsInv
<1>15. \A t \in Txn : DeleteAsync(t) => ListKept'
  <2> SUFFICES ASSUME NEW t \in Txn, DeleteAsync(t) PROVE ListKept'
    OBVIOUS
  <2>1. \E where \in {"del_tx", "deleted"} : Plain(t, where)
    BY <1>0 DEF Plain, KeepPC, Active, DeleteAsync
  <2> QED BY <1>0, <2>1, RestMove DEF RefsInv
<1>16. \A th \in Thread : FlushDone(th) => ListKept'
  <2> SUFFICES ASSUME NEW th \in Thread, FlushDone(th) PROVE ListKept'
    OBVIOUS
  <2>1. \E where \in {"wait", "done", "idle"} : Plain(th, where)
    BY <1>0 DEF Plain, KeepPC, Active, FlushDone, FlushExit, AfterSend
  <2> QED BY <1>0, <2>1, RestMove DEF RefsInv
<1>17. \A th \in Thread : FlushBusy(th) => ListKept'
  <2> SUFFICES ASSUME NEW th \in Thread, FlushBusy(th) PROVE ListKept'
    OBVIOUS
  <2>1. \E where \in {"wait", "done", "idle"} : Plain(th, where)
    BY <1>0 DEF Plain, KeepPC, Active, FlushBusy, FlushExit, AfterSend
  <2> QED BY <1>0, <2>1, RestMove DEF RefsInv
<1>18. \A th \in Thread : FlushError(th) => ListKept'
  <2> SUFFICES ASSUME NEW th \in Thread, FlushError(th) PROVE ListKept'
    OBVIOUS
  <2>1. \E where \in {"server_error", "fl_dec"} : Plain(th, where)
    BY <1>0 DEF Plain, KeepPC, Active, FlushError, AfterSendError
  <2> QED BY <1>0, <2>1, RestMove DEF RefsInv
<1>19. \A th \in Thread : FlushDrop(th) => ListKept'
  <2> SUFFICES ASSUME NEW th \in Thread, FlushDrop(th) PROVE ListKept'
    OBVIOUS
  <2>1. \E where \in {"fl_send"} : Plain(th, where)
    BY <1>0 DEF Plain, KeepPC, Active, FlushDrop
  <2> QED BY <1>0, <2>1, RestMove DEF RefsInv
<1>20. \A th \in Thread : CleanEach(th) => ListKept'
  <2> SUFFICES ASSUME NEW th \in Thread, CleanEach(th) PROVE ListKept'
    OBVIOUS
  <2>1. \E where \in {"cl_each"} : Plain(th, where)
    BY <1>0 DEF Plain, KeepPC, Active, CleanEach
  <2> QED BY <1>0, <2>1, RestMove DEF RefsInv
<1>21. \A th \in Thread : CleanDone(th) => ListKept'
  <2> SUFFICES ASSUME NEW th \in Thread, CleanDone(th) PROVE ListKept'
    OBVIOUS
  <2>1. \E where \in {"rel_close", "fl_dec", "wait", "done", "idle"} : Plain(th, where)
    BY <1>0 DEF Plain, KeepPC, Active, CleanDone, CleanExit, FlushExit,
       AfterSend
  <2> QED BY <1>0, <2>1, RestMove DEF RefsInv
<1>22. RecvDeliver => ListKept'
  <2> SUFFICES ASSUME RecvDeliver PROVE ListKept'
    OBVIOUS
  <2>1. \E where \in {"idle"} : Plain(Data, where)
    BY <1>0 DEF Plain, KeepPC, Active, RecvDeliver
  <2> QED BY <1>0, <2>1, RestMove DEF RefsInv
<1>23. RecvMismatch => ListKept'
  <2> SUFFICES ASSUME RecvMismatch PROVE ListKept'
    OBVIOUS
  <2>1. \E where \in {"idle"} : Plain(Data, where)
    BY <1>0 DEF Plain, KeepPC, Active, RecvMismatch
  <2> QED BY <1>0, <2>1, RestMove DEF RefsInv
<1>24. RecvResume => ListKept'
  <2> SUFFICES ASSUME RecvResume PROVE ListKept'
    OBVIOUS
  <2>1. \E where \in {"fl_addr"} : Plain(Data, where)
    BY <1>0 DEF Plain, KeepPC, Active, RecvResume, Reading
  <2> QED BY <1>0, <2>1, RestMove DEF RefsInv
<1>25. RecvServerGone => ListKept'
  <2> SUFFICES ASSUME RecvServerGone PROVE ListKept'
    OBVIOUS
  <2>1. \E where \in {"server_error"} : Plain(Data, where)
    BY <1>0 DEF Plain, KeepPC, Active, RecvServerGone, Reading
  <2> QED BY <1>0, <2>1, RestMove DEF RefsInv
<1>26. RecvClose => ListKept'
  <2> SUFFICES ASSUME RecvClose PROVE ListKept'
    OBVIOUS
  <2>1. \E where \in {"stopped"} : Plain(Data, where)
    BY <1>0 DEF Plain, KeepPC, Active, RecvClose, Reading
  <2> QED BY <1>0, <2>1, RestMove DEF RefsInv
<1>27. ReleaseStart => ListKept'
  <2> SUFFICES ASSUME ReleaseStart PROVE ListKept'
    OBVIOUS
  <2>1. \E where \in {"rel_gate"} : Plain(Releaser, where)
    BY <1>0 DEF Plain, KeepPC, Active, ReleaseStart
  <2> QED BY <1>0, <2>1, RestMove DEF RefsInv
<1>28. ReleaseGate => ListKept'
  <2> SUFFICES ASSUME ReleaseGate PROVE ListKept'
    OBVIOUS
  <2>1. \E where \in {"cl_tx"} : Plain(Releaser, where)
    BY <1>0 DEF Plain, KeepPC, Active, ReleaseGate
  <2> QED BY <1>0, <2>1, RestMove DEF RefsInv
<1>29. ReleaseClose => ListKept'
  <2> SUFFICES ASSUME ReleaseClose PROVE ListKept'
    OBVIOUS
  <2>1. \E where \in {"done"} : Plain(Releaser, where)
    BY <1>0 DEF Plain, KeepPC, Active, ReleaseClose
  <2> QED BY <1>0, <2>1, RestMove DEF RefsInv
<1> QED BY <1>1, <1>2, <1>3, <1>4, <1>5, <1>6, <1>7, <1>8, <1>9, <1>10, <1>11,
     <1>12, <1>13, <1>14, <1>15, <1>16, <1>17, <1>18, <1>19, <1>20, <1>21,
     <1>22, <1>23, <1>24, <1>25, <1>26, <1>27, <1>28, <1>29

\* Who would empty the list still will, unless it is the one who steps.
LEMMA SweptMove ==
  ASSUME NEW a \in Thread, \A th \in Thread \ {a} : pc'[th] = pc[th],
         category' = category, Sweeps(a) => Sweeps(a)', Swept
  PROVE  Swept'
<1>1. PICK th \in Thread : Sweeps(th)
  BY DEF Swept
<1>2. Sweeps(th)'
  <2>1. CASE th = a
    BY <1>1, <2>1
  <2>2. CASE th # a
    BY <1>1, <2>2 DEF Sweeps
  <2> QED BY <2>1, <2>2
<1> QED BY <1>2 DEF Swept

\* What waits in tx_q was not sent.
LEMMA QueueUnsent ==
  ASSUME RefsInv
  PROVE  Elems(tx_q) \cap Elems(wire) = {}
<1>1. InLine(queued, wire, tx_q)
  BY DEF RefsInv, LineInv
<1>2. ASSUME NEW i \in 1..Len(wire), NEW j \in 1..Len(tx_q) PROVE wire[i] # tx_q[j]
  BY <1>1, AheadApart DEF InLine, Precedes
<1> QED BY <1>2 DEF Elems

\* ... and the others: listing, queueing, sending, emptying and receiving.
LEMMA OtherSteps ==
  ASSUME RefsInv, RestInv
  PROVE
    /\ \A t \in Txn : GetTxn(t) \/ Enqueue(t) \/ DeleteFromTxQ(t) => ListKept'
    /\ \A th \in Thread :
         \/ FlushStart(th) \/ FlushSend(th) \/ FlushFind(th)
         \/ ServerError(th) \/ CleanTxQ(th) \/ CleanList(th)
         => ListKept'
    /\ \A m \in inbox : RecvFind(m) => ListKept'
    /\ \A t \in Txn : Respond(t) => ListKept'
    /\ UNCHANGED <<txn_list, tx_q, pc, cur, category, wire, answered, inbox>>
         => ListKept'
<1>0. /\ pc \in [Thread -> CallerPC \cup FlushPC \cup CleanPC \cup DataPC
                           \cup RelPC]
      /\ cur \in [Thread -> Txn \cup {NoTxn}]
      /\ txn_list \subseteq Txn /\ tx_q \in Seq(Txn) /\ wire \in Seq(Txn)
      /\ inbox \subseteq [txn : Txn, good : BOOLEAN]
      /\ Txn \subseteq Thread /\ Data \in Thread /\ Data \notin Txn
      /\ ListKept /\ DormantPart /\ ServerPart /\ LineInv
      /\ queued \in Seq(Txn)
  BY TxnAssumption DEF RefsInv, TypeOK, TxnType, ThreadType, WorldType, SeenType,
     Thread, RestInv
<1> USE DEF At, Goto, client, lists, locals, returns, txns, seen, world,
        server, flow
<1>1. ASSUME NEW t \in Txn, GetTxn(t) PROVE ListKept'
  <2>1. /\ txn_list' = txn_list \cup {t} /\ pc[t] = "add"
        /\ pc'[t] \in Active
        /\ \A th \in Thread \ {t} : pc'[th] = pc[th]
        /\ UNCHANGED <<category, tx_q, cur, wire, answered, inbox>>
    BY <1>0, <1>1 DEF GetTxn, Active
  <2>2. Swept => Swept'
    BY <1>0, <2>1, SweptMove DEF Sweeps
  <2>3. ASSUME NEW u \in Txn, Failing(u) PROVE Failing(u)'
    BY <1>0, <2>1, <2>3 DEF Failing
  <2>4. ASSUME NEW u \in txn_list, u # t PROVE Kept(u)'
    <3>1. Kept(u) /\ u \in Txn /\ u \in Thread
      BY <1>0 DEF ListKept
    <3>2. Coming(u)' <=> Coming(u)
      BY <2>1 DEF Coming
    <3> QED BY <2>1, <2>2, <2>3, <2>4, <3>1, <3>2 DEF Kept
  <2> QED BY <2>1, <2>4 DEF ListKept, Kept
<1>2. ASSUME NEW t \in Txn, Enqueue(t) PROVE ListKept'
  <2>1. /\ pc[t] = "enq"
        /\ \A th \in Thread \ {t} : pc'[th] = pc[th]
        /\ UNCHANGED <<category, txn_list, cur, wire, answered, inbox>>
        /\ \/ pc'[t] \in Active /\ tx_q' = tx_q
           \/ tx_q' = Append(tx_q, t) /\ (tx_q = <<>> => pc'[t] = "fl_addr")
    BY <1>0, <1>2 DEF Enqueue, Active
  <2>2. Swept => Swept'
    BY <1>0, <2>1, SweptMove DEF Sweeps
  <2>3. ASSUME NEW u \in Txn, Failing(u) PROVE Failing(u)'
    BY <1>0, <2>1, <2>3 DEF Failing
  <2>4. Elems(Append(tx_q, t)) = Elems(tx_q) \cup {t}
    BY <1>0, ElemsAppend
  <2>5. ASSUME NEW u \in txn_list, u # t PROVE Kept(u)'
    <3>1. Kept(u) /\ u \in Txn /\ u \in Thread
      BY <1>0 DEF ListKept
    <3>2. Coming(u)' <=> Coming(u)
      BY <2>1 DEF Coming
    <3> QED BY <2>1, <2>2, <2>3, <2>4, <2>5, <3>1, <3>2 DEF Kept
  <2>6. Kept(t)'
    <3>1. CASE pc'[t] \in Active
      BY <3>1 DEF Kept
    <3>2. CASE /\ tx_q' = Append(tx_q, t)
               /\ tx_q = <<>> => pc'[t] = "fl_addr"
      <4>1. CASE category = "connected"
        BY <2>1, <2>4, <3>2, <4>1 DEF Kept
      <4>2. CASE category = "dormant" /\ tx_q = <<>>
        <5>1. Sweeps(t)'
          BY <2>1, <3>2, <4>2 DEF Sweeps
        <5> QED BY <1>0, <5>1 DEF Swept, Kept
      <4>3. CASE category = "dormant" /\ tx_q # <<>>
        <5>1. PICK th \in Thread : pc[th] \in {"fl_addr", "server_error", "cl_tx"}
          BY <1>0, <4>3 DEF DormantPart
        <5>2. Swept
          BY <4>3, <5>1 DEF Swept, Sweeps
        <5> QED BY <2>2, <5>2 DEF Kept
      <4> QED BY <1>0, <4>1, <4>2, <4>3 DEF ServerPart
    <3> QED BY <2>1, <3>1, <3>2
  <2> QED BY <2>1, <2>5, <2>6 DEF ListKept
<1>3. ASSUME NEW t \in Txn, DeleteFromTxQ(t) PROVE ListKept'
  <2>1. /\ pc[t] = "del_tx" /\ pc'[t] = "del_list" /\ tx_q' = Unlink(tx_q, t)
        /\ \A th \in Thread \ {t} : pc'[th] = pc[th]
        /\ UNCHANGED <<category, txn_list, cur, wire, answered, inbox>>
    BY <1>0, <1>3 DEF DeleteFromTxQ
  <2>2. Swept => Swept'
    BY <1>0, <2>1, SweptMove DEF Sweeps
  <2>3. ASSUME NEW u \in Txn, Failing(u) PROVE Failing(u)'
    BY <1>0, <2>1, <2>3 DEF Failing
  <2>4. Elems(Unlink(tx_q, t)) = Elems(tx_q) \ {t}
    BY <1>0, LineUnlink DEF LineInv
  <2>5. ASSUME NEW u \in txn_list, u # t PROVE Kept(u)'
    <3>1. Kept(u) /\ u \in Txn /\ u \in Thread
      BY <1>0 DEF ListKept
    <3>2. Coming(u)' <=> Coming(u)
      BY <2>1 DEF Coming
    <3> QED BY <2>1, <2>2, <2>3, <2>4, <2>5, <3>1, <3>2 DEF Kept
  <2> QED BY <2>1, <2>5 DEF ListKept, Kept, Active
<1>4. ASSUME NEW th \in Thread, FlushStart(th) PROVE ListKept'
  <2>1. /\ pc[th] = "fl_addr"
        /\ pc'[th] = IF category = "connected" THEN "fl_send" ELSE "cl_tx"
        /\ \A b \in Thread \ {th} : pc'[b] = pc[b]
        /\ UNCHANGED <<category, txn_list, tx_q, cur, wire, answered, inbox>>
    BY <1>0, <1>4 DEF FlushStart
  <2>2. Swept => Swept'
    BY <1>0, <2>1, SweptMove DEF Sweeps
  <2>3. ASSUME NEW u \in Txn, Failing(u) PROVE Failing(u)'
    BY <1>0, <2>1, <2>3 DEF Failing
  <2>4. ASSUME NEW u \in txn_list PROVE Kept(u)'
    <3>1. Kept(u) /\ u \in Txn /\ u \in Thread
      BY <1>0 DEF ListKept
    <3>2. Coming(u)' <=> Coming(u)
      BY <2>1 DEF Coming
    <3>3. pc[u] \in Active => pc'[u] \in Active
      BY <2>1, <3>1 DEF Active
    <3> QED BY <2>1, <2>2, <2>3, <3>1, <3>2, <3>3 DEF Kept
  <2> QED BY <2>1, <2>4 DEF ListKept
<1>5. ASSUME NEW th \in Thread, FlushSend(th) PROVE ListKept'
  <2>1. /\ pc[th] = "fl_send" /\ tx_q # <<>> /\ tx_q' = Tail(tx_q)
        /\ cur' = [cur EXCEPT ![th] = Head(tx_q)]
        /\ \/ pc'[th] = "fl_dec" /\ wire' = Append(wire, Head(tx_q))
           \/ pc'[th] = "fl_find" /\ wire' = wire
        /\ \A b \in Thread \ {th} : pc'[b] = pc[b]
        /\ UNCHANGED <<category, txn_list, answered, inbox>>
    BY <1>0, <1>5 DEF FlushSend
  <2>2. Swept => Swept'
    BY <1>0, <2>1, SweptMove DEF Sweeps
  <2>3. ASSUME NEW u \in Txn, Failing(u) PROVE Failing(u)'
    BY <1>0, <2>1, <2>3 DEF Failing
  <2>4. /\ Head(tx_q) \in Txn
        /\ Elems(tx_q) = {Head(tx_q)} \cup Elems(Tail(tx_q))
    BY <1>0, <2>1, ElemsTail
  <2>5. Elems(Append(wire, Head(tx_q))) = Elems(wire) \cup {Head(tx_q)}
    BY <1>0, <2>4, ElemsAppend
  <2>6. Head(tx_q) \notin answered
    BY <1>0, <2>4, QueueUnsent DEF ServerPart
  <2>7. ASSUME NEW u \in Txn, Coming(u) PROVE Coming(u)'
    BY <2>1, <2>5, <2>7 DEF Coming
  <2>8. ASSUME NEW u \in txn_list PROVE Kept(u)'
    <3>1. Kept(u) /\ u \in Txn /\ u \in Thread
      BY <1>0 DEF ListKept
    <3>2. pc[u] \in Active => pc'[u] \in Active
      BY <2>1, <3>1 DEF Active
    <3>3. u \in Elems(tx_q) => \/ u \in Elems(tx_q')
                               \/ Failing(u)' \/ Coming(u)'
      <4>1. CASE u = Head(tx_q)
        BY <1>0, <2>1, <2>5, <2>6, <4>1 DEF Failing, Coming
      <4>2. CASE u # Head(tx_q)
        BY <2>1, <2>4, <4>2
      <4> QED BY <4>1, <4>2
    <3> QED BY <2>1, <2>2, <2>3, <2>7, <3>1, <3>2, <3>3 DEF Kept
  <2> QED BY <2>1, <2>8 DEF ListKept
<1>6. ASSUME NEW th \in Thread, FlushFind(th) PROVE ListKept'
  <2>1. /\ pc[th] = "fl_find" /\ txn_list' = txn_list \ {cur[th]}
        /\ pc'[th] \in {"fl_error", "server_error", "fl_dec"}
        /\ \A b \in Thread \ {th} : pc'[b] = pc[b] /\ cur'[b] = cur[b]
        /\ UNCHANGED <<category, tx_q, wire, answered, inbox>>
    BY <1>0, <1>6 DEF FlushFind, AfterSendError
  <2>2. Swept => Swept'
    BY <1>0, <2>1, SweptMove DEF Sweeps
  <2>3. ASSUME NEW u \in Txn, Failing(u), u # cur[th] PROVE Failing(u)'
    BY <1>0, <2>1, <2>3 DEF Failing
  <2>4. ASSUME NEW u \in txn_list, u # cur[th] PROVE Kept(u)'
    <3>1. Kept(u) /\ u \in Txn /\ u \in Thread
      BY <1>0 DEF ListKept
    <3>2. Coming(u)' <=> Coming(u)
      BY <2>1 DEF Coming
    <3>3. pc[u] \in Active => pc'[u] \in Active
      BY <2>1, <3>1 DEF Active
    <3> QED BY <2>1, <2>2, <2>3, <2>4, <3>1, <3>2, <3>3 DEF Kept
  <2> QED BY <2>1, <2>4 DEF ListKept
<1>7. ASSUME NEW th \in Thread, ServerError(th) \/ CleanTxQ(th) PROVE ListKept'
  <2>1. pc'[th] \in {"cl_tx", "cl_list"}
    BY <1>0, <1>7 DEF ServerError, CleanTxQ
  <2>2. Swept'
    BY <2>1 DEF Swept, Sweeps
  <2> QED BY <2>2 DEF ListKept, Kept
<1>8. ASSUME NEW th \in Thread, CleanList(th) PROVE ListKept'
  BY <1>8 DEF CleanList, ListKept
<1>9. ASSUME NEW m \in inbox, RecvFind(m) PROVE ListKept'
  <2>1. /\ pc[Data] = "idle" /\ inbox' = inbox \ {m}
        /\ \A b \in Thread \ {Data} : pc'[b] = pc[b] /\ cur'[b] = cur[b]
        /\ UNCHANGED <<category, tx_q, wire, answered>>
        /\ txn_list' \subseteq txn_list
        /\ category = "connected" => m.txn \notin txn_list'
    BY <1>0, <1>9 DEF RecvFind, Reading
  <2>2. Swept => Swept'
    BY <1>0, <2>1, SweptMove DEF Sweeps
  <2>3. ASSUME NEW u \in Txn, Failing(u) PROVE Failing(u)'
    BY <1>0, <2>1, <2>3 DEF Failing
  <2>4. ASSUME NEW u \in txn_list' PROVE Kept(u)'
    <3>1. Kept(u) /\ u \in Txn /\ u \in Thread /\ u # Data
      BY <1>0, <2>1 DEF ListKept
    <3>2. category = "connected" /\ Coming(u) => Coming(u)'
      BY <2>1, <2>4 DEF Coming
    <3> QED BY <2>1, <2>2, <2>3, <3>1, <3>2 DEF Kept
  <2> QED BY <2>4 DEF ListKept
<1>10. ASSUME NEW t \in Txn, Respond(t) PROVE ListKept'
  <2>1. /\ UNCHANGED <<txn_list, tx_q, pc, cur, category, wire>>
        /\ answered' = answered \cup {t}
    BY <1>10 DEF Respond
  <2>2. PICK good : inbox' = inbox \cup {[txn |-> t, good |-> good]}
    BY <1>10 DEF Respond
  <2>3. ASSUME NEW u \in Txn, Coming(u) PROVE Coming(u)'
    <3>1. CASE u = t
      <4>1. [txn |-> t, good |-> good] \in inbox'
        BY <2>2
      <4> QED BY <2>1, <2>3, <3>1, <4>1 DEF Coming
    <3>2. CASE u # t
      BY <2>1, <2>2, <2>3, <3>2 DEF Coming
    <3> QED BY <3>1, <3>2
  <2> QED BY <1>0, <2>1, <2>3 DEF ListKept, Kept, Swept, Sweeps, Failing
<1>11. ASSUME UNCHANGED <<txn_list, tx_q, pc, cur, category, wire, answered,
                          inbox>>
       PROVE  ListKept'
  BY <1>0, <1>11 DEF ListKept, Kept, Swept, Sweeps, Failing, Coming
<1> QED BY <1>1, <1>2, <1>3, <1>4, <1>5, <1>6, <1>7, <1>8, <1>9, <1>10, <1>11

\* Every step keeps the reasons of the listed transactions.
LEMMA ListStep ==
  ASSUME RefsInv, RestInv, [Next]_vars
  PROVE  ListKept'
<1> USE DEF At, Goto, client, lists, locals, returns, txns, seen, world,
        server, flow
<1>0. ListKept
  BY DEF RestInv
<1> DEFINE Still == UNCHANGED <<txn_list, tx_q, pc, cur, category, wire,
                                answered, inbox>>
<1>1. ASSUME Still PROVE ListKept'
  BY <1>1, OtherSteps
<1>2. ASSUME NEW t \in Txn, CallerStep(t) PROVE ListKept'
  BY <1>0, <1>2, PlainSteps, OtherSteps DEF CallerStep
<1>3. ASSUME NEW th \in Thread, FlushStep(th) \/ CleanStep(th) PROVE ListKept'
  BY <1>0, <1>3, PlainSteps, OtherSteps DEF FlushStep, CleanStep
<1>4. ASSUME DataStep \/ ReleaseStep PROVE ListKept'
  BY <1>0, <1>4, PlainSteps, OtherSteps DEF DataStep, ReleaseStep
<1>5. ASSUME UserStep PROVE ListKept'
  <2>1. RegisterErrorCb => Still
    BY DEF RegisterErrorCb
  <2> HIDE DEF Still
  <2> QED BY <1>0, <1>1, <1>5, <2>1, PlainSteps DEF UserStep
<1>6. ASSUME EnvStep PROVE ListKept'
  <2>1. ServerDies \/ Block \/ Unblock => Still
    BY DEF ServerDies, Block, Unblock
  <2>2. \A t \in Txn : UseAfterFree(t) => Still
    BY DEF UseAfterFree
  <2> HIDE DEF Still
  <2> QED BY <1>1, <1>6, <2>1, <2>2, OtherSteps DEF EnvStep
<1>7. CASE UNCHANGED vars
  BY <1>1, <1>7 DEF vars
<1>8. Next => ListKept' \/ UNCHANGED vars
  BY <1>2, <1>3, <1>4, <1>5, <1>6 DEF Next, Rest
<1> QED BY <1>7, <1>8

\* Without a server, a queue that fills is emptied by who finds it empty.
LEMMA DormantStep ==
  ASSUME RefsInv, RestInv, [Next]_vars
  PROVE  DormantPart'
<1> USE DEF At, Goto, client, lists, locals, returns, txns, seen, world,
        server, flow
<1> DEFINE D == {"fl_addr", "server_error", "cl_tx"}
           Move(a) ==
             /\ \A th \in Thread \ {a} : pc'[th] = pc[th]
             /\ \/ tx_q' = <<>>
                \/ pc'[a] \in D
                \/ /\ pc[a] \notin D /\ category' = category
                   /\ tx_q' # <<>> => tx_q # <<>>
           Still == UNCHANGED <<tx_q, pc, category>>
<1>0. /\ pc \in [Thread -> CallerPC \cup FlushPC \cup CleanPC \cup DataPC
                           \cup RelPC]
      /\ Txn \subseteq Thread /\ Data \in Thread /\ Releaser \in Thread
      /\ tx_q \in Seq(Txn)
      /\ DormantPart /\ category \in {"connected", "dormant"}
  BY DEF RefsInv, TypeOK, TxnType, ThreadType, Thread, RestInv, ServerPart
<1>1. ASSUME NEW a \in Thread, Move(a) PROVE DormantPart'
  BY <1>0, <1>1 DEF DormantPart
<1>2. ASSUME Still PROVE DormantPart'
  BY <1>0, <1>2 DEF DormantPart
<1>3. ASSUME NEW t \in Txn, CallerStep(t) PROVE DormantPart'
  <2>1. CASE Enqueue(t)
    <3>1. Move(t)
      BY <1>0, <2>1 DEF Enqueue
    <3> QED BY <1>0, <1>1, <3>1
  <2>2. CASE DeleteFromTxQ(t)
    <3>1. tx_q' # <<>> => tx_q # <<>>
      BY <2>2, UnlinkEmpty DEF DeleteFromTxQ
    <3>2. Move(t)
      BY <1>0, <2>2, <3>1 DEF DeleteFromTxQ
    <3> QED BY <1>0, <1>1, <3>2
  <2>3. CASE ~Enqueue(t) /\ ~DeleteFromTxQ(t)
    <3>1. Move(t)
      BY <1>0, <1>3, <2>3 DEF CallerStep, GetTxn, TakeOwnRef, PrepareWait,
         CheckServer, TakeQueueRef, UndoQueueRef, AbandonAsync, WakeUp,
         WaitReturns, Invalidate, RemoveSync, DropOwnRef, DeleteFromList,
         DeleteFree, SendFailed
    <3> QED BY <1>0, <1>1, <3>1
  <2> QED BY <2>1, <2>2, <2>3
<1>4. ASSUME NEW th \in Thread, FlushStep(th) PROVE DormantPart'
  <2>1. CASE FlushStart(th)
    <3>1. CASE category = "connected"
      BY <2>1, <3>1 DEF FlushStart, DormantPart
    <3>2. CASE category # "connected"
      <4>1. Move(th)
        BY <1>0, <2>1, <3>2 DEF FlushStart
      <4> QED BY <1>1, <4>1
    <3> QED BY <3>1, <3>2
  <2>2. CASE ~FlushStart(th)
    <3>1. Move(th)
      BY <1>0, <1>4, <2>2 DEF FlushStep, FlushDone, FlushBusy, FlushSend,
         FlushFind, FlushError, FlushDrop
    <3> QED BY <1>1, <3>1
  <2> QED BY <2>1, <2>2
<1>5. ASSUME NEW th \in Thread, CleanStep(th) PROVE DormantPart'
  <2>1. Move(th)
    BY <1>0, <1>5 DEF CleanStep, ServerError, CleanTxQ, CleanList, CleanEach,
       CleanDone
  <2> QED BY <1>1, <2>1
<1>6. ASSUME DataStep PROVE DormantPart'
  <2>1. Move(Data)
    BY <1>0, <1>6 DEF DataStep, RecvFind, RecvDeliver, RecvMismatch, RecvResume,
       RecvServerGone, RecvClose, Reading
  <2> QED BY <1>0, <1>1, <2>1
<1>7. ASSUME ReleaseStep \/ ReleaseStart PROVE DormantPart'
  <2>1. Move(Releaser)
    BY <1>0, <1>7 DEF ReleaseStep, ReleaseGate, ReleaseClose, ReleaseStart
  <2> QED BY <1>0, <1>1, <2>1
<1>8. ASSUME NEW t \in Txn, Begin(t) \/ TimeOut(t) \/ DeleteAsync(t)
      PROVE  DormantPart'
  <2>1. Move(t)
    BY <1>0, <1>8 DEF Begin, TimeOut, WaitReturns, DeleteAsync
  <2> QED BY <1>0, <1>1, <2>1
<1>9. ASSUME RegisterErrorCb \/ EnvStep PROVE DormantPart'
  <2>1. Still
    BY <1>9 DEF RegisterErrorCb, EnvStep, Respond, UseAfterFree, ServerDies,
       Block, Unblock
  <2> QED BY <1>2, <2>1
<1>10. CASE UNCHANGED vars
  BY <1>2, <1>10 DEF vars
<1>11. Next => DormantPart' \/ UNCHANGED vars
  BY <1>3, <1>4, <1>5, <1>6, <1>7, <1>8, <1>9 DEF Next, Rest, UserStep
<1> QED BY <1>10, <1>11

\* The loss of the server reaches the client, a resume event is owed by a
\* blocked port, and only what was sent is answered.
LEMMA ServerStep ==
  ASSUME RefsInv, RestInv, [Next]_vars
  PROVE  ServerPart'
<1> USE DEF At, Goto, client, lists, locals, returns, txns, seen, world,
        server, flow
<1>0. /\ pc \in [Thread -> CallerPC \cup FlushPC \cup CleanPC \cup DataPC
                           \cup RelPC]
      /\ Txn \subseteq Thread /\ Data \in Thread /\ Releaser \in Thread
      /\ Data \notin Txn /\ Data # Releaser
      /\ tx_q \in Seq(Txn) /\ wire \in Seq(Txn)
      /\ category \in {"connected", "dormant"}
      /\ ~server_up => \/ gone_evt \/ pc[Data] = "server_error"
                       \/ category = "dormant"
      /\ waiter => blocked
      /\ answered \subseteq Elems(wire)
  BY TxnAssumption
  DEF RefsInv, TypeOK, TxnType, ThreadType, WorldType, Thread, RestInv,
      ServerPart
<1> DEFINE Still == UNCHANGED <<category, server_up, gone_evt, waiter, blocked,
                               wire, answered>>
<1>1. ASSUME Still, pc'[Data] = pc[Data] \/ pc[Data] # "server_error"
      PROVE  ServerPart'
  BY <1>0, <1>1 DEF ServerPart
<1>2. ASSUME NEW t \in Txn,
             CallerStep(t) \/ Begin(t) \/ TimeOut(t) \/ DeleteAsync(t)
      PROVE  ServerPart'
  <2>1. Still
    BY <1>2 DEF CallerStep, GetTxn, TakeOwnRef, PrepareWait, CheckServer,
       TakeQueueRef, Enqueue, UndoQueueRef, AbandonAsync, WakeUp, WaitReturns,
       Invalidate, RemoveSync, DropOwnRef, DeleteFromTxQ, DeleteFromList,
       DeleteFree, SendFailed, Begin, TimeOut, DeleteAsync
  <2>2. pc'[Data] = pc[Data]
    BY <1>0, <1>2 DEF CallerStep, GetTxn, TakeOwnRef, PrepareWait, CheckServer,
       TakeQueueRef, Enqueue, UndoQueueRef, AbandonAsync, WakeUp, WaitReturns,
       Invalidate, RemoveSync, DropOwnRef, DeleteFromTxQ, DeleteFromList,
       DeleteFree, SendFailed, Begin, TimeOut, DeleteAsync
  <2> QED BY <1>1, <2>1, <2>2
<1>3. ASSUME NEW th \in Thread, FlushStep(th) PROVE ServerPart'
  <2>1. pc'[Data] = pc[Data] \/ pc[Data] # "server_error"
    BY <1>0, <1>3 DEF FlushStep, FlushStart, FlushDone, FlushBusy, FlushSend,
       FlushFind, FlushError, FlushDrop
  <2>2. /\ UNCHANGED <<category, server_up, gone_evt, blocked, answered>>
        /\ waiter' => waiter \/ blocked
    BY <1>0, <1>3 DEF FlushStep, FlushStart, FlushDone, FlushBusy, FlushSend,
       FlushFind, FlushError, FlushDrop, SendAnswers
  <2>3. Elems(wire) \subseteq Elems(wire')
    <3>1. \/ wire' = wire
          \/ tx_q # <<>> /\ wire' = Append(wire, Head(tx_q))
      BY <1>3 DEF FlushStep, FlushStart, FlushDone, FlushBusy, FlushSend,
         FlushFind, FlushError, FlushDrop
    <3>2. tx_q # <<>> => Head(tx_q) \in Txn
      BY <1>0
    <3>3. tx_q # <<>> =>
            Elems(Append(wire, Head(tx_q))) = Elems(wire) \cup {Head(tx_q)}
      BY <1>0, <3>2, ElemsAppend
    <3> QED BY <3>1, <3>3
  <2> QED BY <1>0, <2>1, <2>2, <2>3 DEF ServerPart
<1>4. ASSUME NEW th \in Thread, CleanStep(th) PROVE ServerPart'
  <2>1. CASE ServerError(th)
    BY <1>0, <2>1 DEF ServerError, ServerPart
  <2>2. CASE ~ServerError(th)
    BY <1>0, <1>1, <1>4, <2>2 DEF CleanStep, CleanTxQ, CleanList, CleanEach,
       CleanDone
  <2> QED BY <2>1, <2>2
<1>5. ASSUME DataStep PROVE ServerPart'
  <2>1. CASE RecvServerGone
    BY <1>0, <2>1 DEF RecvServerGone, ServerPart
  <2>2. CASE ~RecvServerGone
    <3>1. Still /\ pc[Data] # "server_error"
      BY <1>5, <2>2 DEF DataStep, RecvFind, RecvDeliver, RecvMismatch,
         RecvResume, RecvClose, Reading
    <3> QED BY <1>1, <3>1
  <2> QED BY <2>1, <2>2
<1>6. ASSUME ReleaseStep \/ ReleaseStart \/ RegisterErrorCb PROVE ServerPart'
  BY <1>0, <1>1, <1>6 DEF ReleaseStep, ReleaseGate, ReleaseClose, ReleaseStart,
     RegisterErrorCb
<1>7. ASSUME EnvStep PROVE ServerPart'
  <2>1. ASSUME NEW t \in Txn, Respond(t) PROVE ServerPart'
    BY <1>0, <2>1 DEF Respond, ServerPart
  <2>2. ASSUME ServerDies \/ Block \/ Unblock PROVE ServerPart'
    BY <1>0, <2>2 DEF ServerDies, Block, Unblock, ServerPart
  <2>3. ASSUME NEW t \in Txn, UseAfterFree(t) PROVE ServerPart'
    BY <1>1, <2>3 DEF UseAfterFree
  <2> QED BY <1>7, <2>1, <2>2, <2>3 DEF EnvStep
<1>8. CASE UNCHANGED vars
  BY <1>1, <1>8 DEF vars
<1>9. Next => ServerPart' \/ UNCHANGED vars
  BY <1>2, <1>3, <1>4, <1>5, <1>6, <1>7 DEF Next, Rest, UserStep
<1> QED BY <1>8, <1>9

\* The gate stays closed, and behind it nothing is queued; who is listed late
\* takes itself off the list.
LEMMA ReleasedStep ==
  ASSUME RefsInv, RestInv, [Next]_vars
  PROVE  ReleasePart'
<1> USE DEF At, Goto, client, lists, locals, returns, txns, seen, world,
        server, flow
<1> DEFINE P == pc[Releaser]
           Late == {"cl_list", "cl_each", "rel_close", "done"}
           Last == {"cl_each", "rel_close", "done"}
           Gone == \A t \in txn_list' :
                     \/ pc'[t] \in Active
                     \/ t \in txn_list /\ pc[t] \notin Active
           Shut == /\ ~accepting_txns => ~accepting_txns' /\ Gone
                   /\ ~accepting_txns /\ tx_q = <<>> => tx_q' = <<>>
           Still == /\ closing' = closing /\ pc'[Releaser] = P
                    /\ pc'[Data] = "stopped" => pc[Data] = "stopped"
<1>0. /\ pc \in [Thread -> CallerPC \cup FlushPC \cup CleanPC \cup DataPC
                           \cup RelPC]
      /\ Txn \subseteq Thread /\ Data \in Thread /\ Releaser \in Thread
      /\ Data \notin Txn /\ Releaser \notin Txn /\ Data # Releaser
      /\ txn_list \subseteq Txn /\ inbox \subseteq [txn : Txn, good : BOOLEAN]
      /\ ReleasePart
  BY TxnAssumption
  DEF RefsInv, TypeOK, TxnType, ThreadType, WorldType, Thread, RestInv
<1>00. \A t \in Txn : ~accepting_txns /\ P \in Last /\ t \in txn_list => pc[t] \in Active
  BY <1>0 DEF ReleasePart
<1>1. ASSUME Still, Shut PROVE ReleasePart'
  <2>1. \A t \in txn_list' : P \in Last => pc'[t] \in Active
    BY <1>0, <1>00, <1>1 DEF ReleasePart
  <2> QED BY <1>0, <1>1, <2>1 DEF ReleasePart
<1>2. ASSUME UNCHANGED <<accepting_txns, txn_list, tx_q, pc>> PROVE Shut
  BY <1>2
<1>3. ASSUME NEW a \in Thread, NEW where, pc' = [pc EXCEPT ![a] = where],
             UNCHANGED <<accepting_txns, tx_q>>, txn_list' \subseteq txn_list,
             a \in txn_list' => pc[a] \notin Active \/ where \in Active
      PROVE  Shut
  BY <1>0, <1>3
<1>10. ASSUME NEW t \in Txn, CallerStep(t) PROVE ReleasePart'
  <2>1. Still
    BY <1>0, <1>10 DEF CallerStep, GetTxn, TakeOwnRef, PrepareWait,
       CheckServer, TakeQueueRef, Enqueue, UndoQueueRef, AbandonAsync, WakeUp,
       WaitReturns, Invalidate, RemoveSync, DropOwnRef, DeleteFromTxQ,
       DeleteFromList, DeleteFree, SendFailed
  <2>2. CASE GetTxn(t)
    <3>1. Shut
      BY <1>0, <2>2 DEF GetTxn, Active
    <3> QED BY <1>1, <2>1, <3>1
  <2>3. CASE Enqueue(t)
    <3>1. Shut
      BY <1>0, <2>3 DEF Enqueue, Active
    <3> QED BY <1>1, <2>1, <3>1
  <2>4. CASE DeleteFromTxQ(t)
    <3>1. Shut
      BY <1>0, <2>4, UnlinkEmpty DEF DeleteFromTxQ, Active
    <3> QED BY <1>1, <2>1, <3>1
  <2>5. CASE WakeUp(t)
    <3>1. Shut
      BY <1>0, <2>5 DEF WakeUp, WaitReturns, Active
    <3> QED BY <1>1, <2>1, <3>1
  <2>6. CASE ~GetTxn(t) /\ ~Enqueue(t) /\ ~DeleteFromTxQ(t) /\ ~WakeUp(t)
    <3>1. /\ UNCHANGED <<accepting_txns, tx_q>> /\ txn_list' \subseteq txn_list
          /\ \E where : pc' = [pc EXCEPT ![t] = where]
          /\ t \in txn_list' => pc[t] \notin Active \/ pc'[t] \in Active
      BY <1>0, <1>10, <2>6 DEF CallerStep, TakeOwnRef, PrepareWait, CheckServer,
         TakeQueueRef, UndoQueueRef, AbandonAsync, Invalidate, RemoveSync,
         DropOwnRef, DeleteFromList, DeleteFree, SendFailed, Active
    <3>2. Shut
      BY <1>0, <3>1
    <3> QED BY <1>1, <2>1, <3>2
  <2> QED BY <2>2, <2>3, <2>4, <2>5, <2>6
<1>11. ASSUME NEW th \in Thread, FlushStep(th) PROVE ReleasePart'
  <2>1. Still
    BY <1>0, <1>11 DEF FlushStep, FlushStart, FlushDone, FlushBusy, FlushSend,
       FlushFind, FlushError, FlushDrop, FlushExit, AfterSend, AfterSendError,
       ReleasePart
  <2>2. /\ UNCHANGED accepting_txns /\ txn_list' \subseteq txn_list
        /\ tx_q = <<>> => tx_q' = <<>>
        /\ pc[th] \notin Active /\ pc' = [pc EXCEPT ![th] = pc'[th]]
    BY <1>0, <1>11 DEF FlushStep, FlushStart, FlushDone, FlushBusy, FlushSend,
       FlushFind, FlushError, FlushDrop, Active
  <2>3. Shut
    BY <1>0, <2>2
  <2> QED BY <1>1, <2>1, <2>3
<1>12. ASSUME NEW th \in Thread, CleanStep(th) PROVE ReleasePart'
  <2>2. /\ UNCHANGED <<accepting_txns, closing>> /\ txn_list' \subseteq txn_list
        /\ tx_q = <<>> => tx_q' = <<>>
        /\ pc[th] \notin Active /\ \A b \in Thread \ {th} : pc'[b] = pc[b]
    BY <1>0, <1>12 DEF CleanStep, ServerError, CleanTxQ, CleanList, CleanEach,
       CleanDone, Active
  <2>3. Shut
    BY <1>0, <2>2
  <2>4. CASE th # Releaser
    <3>1. pc'[Data] = "stopped" => pc[Data] = "stopped"
      BY <1>0, <1>12, <2>4 DEF CleanStep, ServerError, CleanTxQ, CleanList,
         CleanEach, CleanDone, CleanExit, FlushExit, AfterSend
    <3>2. Still
      BY <1>0, <2>2, <2>4, <3>1
    <3> QED BY <1>1, <2>3, <3>2
  <2>5. CASE th = Releaser
    <3>1. \/ CleanTxQ(th) \/ CleanList(th) \/ CleanEach(th) \/ CleanDone(th)
      BY <1>0, <1>12, <2>5 DEF CleanStep, ServerError, ReleasePart
    <3>2. CASE CleanTxQ(th)
      BY <1>0, <2>2, <2>5, <3>2 DEF CleanTxQ, ReleasePart
    <3>3. CASE CleanList(th)
      BY <1>0, <2>2, <2>5, <3>3 DEF CleanList, ReleasePart
    <3>4. CASE CleanEach(th)
      <4>1. Still
        BY <1>0, <2>5, <3>4 DEF CleanEach
      <4> QED BY <1>1, <2>3, <4>1
    <3>5. CASE CleanDone(th)
      <4>1. /\ P = "cl_each" /\ pc'[Releaser] = "rel_close"
            /\ pc' = [pc EXCEPT ![Releaser] = "rel_close"]
            /\ UNCHANGED <<txn_list, tx_q, accepting_txns, closing>>
        BY <1>0, <2>5, <3>5 DEF CleanDone, CleanExit
      <4> QED BY <1>0, <4>1 DEF ReleasePart
    <3> QED BY <3>1, <3>2, <3>3, <3>4, <3>5
  <2> QED BY <2>4, <2>5
<1>13. ASSUME DataStep PROVE ReleasePart'
  <2>1. CASE RecvClose
    BY <1>0, <2>1 DEF RecvClose, Reading, ReleasePart
  <2>2. CASE ~RecvClose
    <3>1. Still
      BY <1>0, <1>13, <2>2 DEF DataStep, RecvFind, RecvDeliver, RecvMismatch,
         RecvResume, RecvServerGone
    <3>2. /\ UNCHANGED <<accepting_txns, tx_q>> /\ txn_list' \subseteq txn_list
          /\ \A b \in Thread \ {Data} : pc'[b] = pc[b]
      BY <1>0, <1>13, <2>2 DEF DataStep, RecvFind, RecvDeliver, RecvMismatch,
         RecvResume, RecvServerGone
    <3>3. Shut
      BY <1>0, <3>2
    <3> QED BY <1>1, <3>1, <3>3
  <2> QED BY <2>1, <2>2
<1>14. ASSUME ReleaseStep \/ ReleaseStart PROVE ReleasePart'
  <2>1. /\ UNCHANGED <<txn_list, tx_q>>
        /\ \A b \in Thread \ {Releaser} : pc'[b] = pc[b]
    BY <1>0, <1>14 DEF ReleaseStep, ReleaseGate, ReleaseClose, ReleaseStart
  <2>2. CASE ReleaseGate \/ ReleaseStart
    <3>1. /\ pc'[Releaser] \in {"rel_gate", "cl_tx"} /\ UNCHANGED closing
          /\ pc'[Releaser] = "cl_tx" => ~accepting_txns'
          /\ P \in {"idle", "rel_gate"}
      BY <1>0, <2>2 DEF ReleaseGate, ReleaseStart
    <3> QED BY <1>0, <2>1, <3>1 DEF ReleasePart
  <2>3. CASE ReleaseClose
    BY <1>0, <2>1, <2>3 DEF ReleaseClose, ReleasePart
  <2> QED BY <1>14, <2>2, <2>3 DEF ReleaseStep
<1>15. ASSUME NEW t \in Txn, Begin(t) \/ TimeOut(t) \/ DeleteAsync(t)
      PROVE  ReleasePart'
  <2>1. Still
    BY <1>0, <1>15 DEF Begin, TimeOut, WaitReturns, DeleteAsync
  <2>2. /\ UNCHANGED <<accepting_txns, tx_q, txn_list>> /\ pc[t] \notin Active
        /\ \A b \in Thread \ {t} : pc'[b] = pc[b]
    BY <1>0, <1>15 DEF Begin, TimeOut, WaitReturns, DeleteAsync, Active
  <2>3. Shut
    BY <1>0, <2>2
  <2> QED BY <1>1, <2>1, <2>3
<1>16. ASSUME RegisterErrorCb \/ EnvStep PROVE ReleasePart'
  <2>1. UNCHANGED <<accepting_txns, txn_list, tx_q, pc, closing>>
    BY <1>16 DEF RegisterErrorCb, EnvStep, Respond, UseAfterFree, ServerDies,
       Block, Unblock
  <2> QED BY <1>1, <1>2, <2>1
<1>17. CASE UNCHANGED vars
  BY <1>1, <1>2, <1>17 DEF vars
<1>18. Next => ReleasePart' \/ UNCHANGED vars
  BY <1>10, <1>11, <1>12, <1>13, <1>14, <1>15, <1>16 DEF Next, Rest, UserStep
<1> QED BY <1>17, <1>18

\* NothingForgotten: when every call has returned and all events were handled,
\* no transaction is left in a list, whatever was refused, dropped, deleted,
\* timed out, lost with the server or released on the way.
THEOREM NothingLeft == Spec => []NothingForgotten
<1>1. Init => RefsInv /\ TendInv /\ RestInv
  BY RefsInit, TendInit, RestInit
<1>2. RefsInv /\ TendInv /\ RestInv /\ [Next]_vars
        => (RefsInv /\ TendInv /\ RestInv)'
  <2> SUFFICES ASSUME RefsInv, TendInv, RestInv, [Next]_vars
               PROVE  RefsInv' /\ TendInv' /\ RestInv'
    OBVIOUS
  <2>1. RefsInv' /\ TendInv'
    BY RefsStep, TendStep DEF RefsInv
  <2>2. ListKept' /\ DormantPart' /\ ReleasePart' /\ ServerPart'
    BY ListStep, DormantStep, ReleasedStep, ServerStep
  <2> QED BY <2>1, <2>2 DEF RestInv
<1>3. RefsInv /\ TendInv /\ RestInv => NothingForgotten
  <2> SUFFICES ASSUME RefsInv, TendInv, RestInv, Resting, Settled
               PROVE  txn_list = {} /\ tx_q = <<>>
    BY DEF NothingForgotten
  <2>0. /\ Data \in Thread /\ Releaser \in Thread
        /\ txn_list \subseteq Txn
        /\ inbox \subseteq [txn : Txn, good : BOOLEAN]
    BY DEF RefsInv, TypeOK, TxnType, WorldType, Thread
  <2>1. \A th \in Thread : pc[th] \in {"idle", "stopped", "done", "deleted"}
    BY DEF Resting, Thread
  <2>2. \A t \in Txn : pc[t] \notin Active
    BY DEF Resting, Active
  <2>3. CASE pc[Data] = "stopped"
    <3>1. pc[Releaser] = "done"
      BY <2>3 DEF RestInv, ReleasePart
    <3>2. tx_q = <<>> /\ \A t \in txn_list : pc[t] \in Active
      BY <3>1 DEF RestInv, ReleasePart
    <3> QED BY <2>0, <2>2, <3>2
  <2>4. CASE /\ inbox = {} /\ ~gone_evt /\ ~resume_evt /\ ~blocked
             /\ server_up => Elems(wire) \subseteq answered
    <3>1. tx_q = <<>>
      <4>1. ~waiter /\ ~resume_evt
        BY <2>4 DEF RestInv, ServerPart
      <4>2. \A th \in Thread : pc[th] \notin TendPC
        BY <2>1 DEF TendPC, FlushPC
      <4> QED BY <4>1, <4>2 DEF TendInv
    <3>2. ASSUME NEW t \in txn_list PROVE FALSE
      <4>1. t \in Txn /\ Kept(t) /\ ~Swept /\ ~Failing(t)
        BY <2>0, <2>1 DEF RestInv, ListKept, Swept, Sweeps, Failing
      <4>2. category = "connected" /\ Coming(t)
        BY <2>2, <3>1, <4>1 DEF Kept, Elems
      <4>3. ~server_up
        BY <2>4, <4>2 DEF Coming
      <4>4. pc[Data] = "server_error"
        BY <2>4, <4>2, <4>3 DEF RestInv, ServerPart
      <4> QED BY <2>0, <2>1, <4>4
    <3> QED BY <3>1, <3>2
  <2> QED BY <2>3, <2>4 DEF Settled
<1> QED BY <1>1, <1>2, <1>3, PTL DEF Spec
=============================================================================
