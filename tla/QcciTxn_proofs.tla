--------------------------- MODULE QcciTxn_proofs ---------------------------
(***************************************************************************)
(* Proofs about QcciTxn, for every set of callers and every combination of *)
(* environment events unless a theorem names those it leaves out: types, a *)
(* transaction is completed once, no request is stranded in tx_q, requests *)
(* leave in the order they were queued, a reference count covers the       *)
(* holders of the transaction and counts them exactly where no send fails  *)
(* in the transport, and freed transactions are left alone where nothing   *)
(* leads to cleanup_client_lists.                                          *)
(***************************************************************************)
EXTENDS QcciTxn, FiniteSetTheorems, TLAPS

------------------------------------------------------------------------------
(* What the helpers assign.                                                *)

\* Removing a transaction from a queue leaves a queue of transactions.
LEMMA UnlinkType ==
  ASSUME NEW S, NEW s \in Seq(S), NEW t
  PROVE  Unlink(s, t) \in Seq(S)
<1>1. CASE t \notin Elems(s)
  BY <1>1 DEF Unlink
<1>2. CASE t \in Elems(s)
  <2> DEFINE i == CHOOSE i \in 1..Len(s) : s[i] = t
  <2>1. i \in 1..Len(s)
    BY <1>2 DEF Elems
  <2> HIDE DEF i
  <2>2. SubSeq(s, 1, i - 1) \in Seq(S) /\ SubSeq(s, i + 1, Len(s)) \in Seq(S)
    BY <2>1
  <2>3. SubSeq(s, 1, i - 1) \o SubSeq(s, i + 1, Len(s)) \in Seq(S)
    BY <2>2
  <2> QED BY <1>2, <2>3 DEF Unlink, i
<1> QED BY <1>1, <1>2

\* Dropping references leaves counts and flags of the right types.
LEMMA DecType ==
  ASSUME NEW S, TxnType, Dec(S)
  PROVE  ref_count' \in [Txn -> Nat] /\ freed' \in [Txn -> BOOLEAN]
<1>1. ref_count' \in [Txn -> Nat]
  BY DEF Dec, TxnType
<1>2. freed' \in [Txn -> BOOLEAN]
  BY ZenonT(40) DEF Dec, TxnType
<1> QED BY <1>1, <1>2

\* A wake-up sets a flag.
LEMMA WakeType ==
  ASSUME NEW t, TxnType, Wake(t)
  PROVE  signal' \in [Txn -> BOOLEAN]
<1>1. ASSUME NEW u \in Txn
      PROVE [signal EXCEPT ![t] = @ \/ t \in SyncTxn][u] \in BOOLEAN
  BY ZenonT(40) DEF TxnType
<1> QED BY <1>1, ZenonT(40) DEF Wake, TxnType

\* The completion counter saturates at 2.
LEMMA BumpType == ASSUME NEW n \in 0..2 PROVE Bump(n) \in 0..2
BY DEF Bump

\* Counting one completion keeps the counters in their range.
LEMMA DoneType ==
  ASSUME NEW t, TxnType PROVE [done EXCEPT ![t] = Bump(@)] \in [Txn -> 0..2]
<1> DEFINE f == [done EXCEPT ![t] = Bump(@)]
<1>1. ASSUME NEW u \in Txn PROVE f[u] \in 0..2
  <2>1. done[u] \in 0..2
    BY DEF TxnType
  <2> QED BY <2>1, BumpType, ZenonT(40) DEF TxnType
<1>2. f = [u \in Txn |-> f[u]]
  BY ZenonT(40) DEF TxnType
<1> HIDE DEF f
<1>3. f \in [Txn -> 0..2]
  BY <1>1, <1>2, Zenon
<1> QED BY <1>3 DEF f

\* handle_txn_error assigns values of the right types.
LEMMA FailType ==
  ASSUME NEW t, NEW e \in Codes, TxnType, Fail(t, e)
  PROVE  /\ signal' \in [Txn -> BOOLEAN] /\ rc' \in [Txn -> Codes]
         /\ done' \in [Txn -> 0..2] /\ filled' \in [Txn -> BOOLEAN]
<1>1. signal' \in [Txn -> BOOLEAN]
  BY WakeType DEF Fail
<1>2. rc' \in [Txn -> Codes] /\ filled' \in [Txn -> BOOLEAN]
  BY DEF Fail, TxnType
<1>3. done' \in [Txn -> 0..2]
  BY DoneType, ZenonT(40) DEF Fail
<1> QED BY <1>1, <1>2, <1>3

------------------------------------------------------------------------------
(* Type correctness.                                                       *)

\* The initial values have their types.
LEMMA TypeInit == Init => TypeOK
<1> USE DEF Init, Thread, Txn, Codes, CallerPC
<1> SUFFICES ASSUME Init PROVE TypeOK
  OBVIOUS
<1>1. ClientType
  BY ZenonT(40) DEF ClientType
<1>5. WorldType
  <2>1. wire \in Seq(Txn) /\ inbox \subseteq [txn : Txn, good : BOOLEAN]
        /\ answered \subseteq Txn /\ blocks \in Nat
    OBVIOUS
  <2> QED BY <2>1, ZenonT(40) DEF WorldType
<1>2. TxnType
  BY DEF TxnType
<1>3. ThreadType
  BY DEF ThreadType
<1>4. SeenType
  <2>1. /\ result \in [Txn -> Codes] /\ err_calls \in Nat
        /\ verdict \in [Txn -> Codes \cup {"no_handle"}]
        /\ queued \in Seq(Txn)
    OBVIOUS
  <2> QED BY <2>1, ZenonT(40) DEF SeenType
<1> QED BY <1>1, <1>2, <1>3, <1>4, <1>5 DEF TypeOK

\* Every step keeps every variable within its type: what each caller, flush,
\* clean-up, receive, release and environment step assigns is of its type.
LEMMA TypeStep == TypeOK /\ [Next]_vars => TypeOK'
<1> SUFFICES ASSUME TypeOK, [Next]_vars PROVE TypeOK'
  OBVIOUS
<1> USE DEF TypeOK, At, Goto, Thread, Txn, Codes, CallerPC, FlushPC, CleanPC,
            DataPC, RelPC, client, lists, memory, answer, locals, server,
            flow, returns, hist, txns, world, seen
<1>1. ASSUME NEW t \in Txn, GetTxn(t) PROVE TypeOK'
  BY <1>1 DEF ClientType, TxnType, ThreadType, WorldType, SeenType,
     GetTxn
<1>2. ASSUME NEW t \in Txn, TakeOwnRef(t) PROVE TypeOK'
  BY <1>2 DEF ClientType, TxnType, ThreadType, WorldType, SeenType,
     TakeOwnRef, Inc
<1>3. ASSUME NEW t \in Txn, PrepareWait(t) PROVE TypeOK'
  BY <1>3 DEF ClientType, TxnType, ThreadType, WorldType, SeenType,
     PrepareWait
<1>4. ASSUME NEW t \in Txn, CheckServer(t) PROVE TypeOK'
  <2>1. SendFailed(t, "encode_err") \/ SendFailed(t, "service_err")
        \/ (Goto(t, "inc_tx") /\ UNCHANGED result)
    BY <1>4, ZenonT(40) DEF CheckServer
  <2>2. ThreadType'
    BY <1>4, <2>1 DEF ThreadType, CheckServer, SendFailed
  <2>3. SeenType'
    BY <1>4, <2>1 DEF SeenType, CheckServer, SendFailed
  <2>4. ClientType' /\ TxnType' /\ WorldType'
    BY <1>4 DEF ClientType, TxnType, WorldType, CheckServer, SendFailed
  <2> QED BY <2>1, <2>2, <2>3, <2>4
<1>5. ASSUME NEW t \in Txn, TakeQueueRef(t) PROVE TypeOK'
  BY <1>5 DEF ClientType, TxnType, ThreadType, WorldType, SeenType,
     TakeQueueRef, Inc
<1>6. ASSUME NEW t \in Txn, Enqueue(t) PROVE TypeOK'
  <2>1. TxnType'
    <3>1. tx_q' = tx_q \/ tx_q' = Append(tx_q, t)
      BY <1>6, ZenonT(40) DEF Enqueue
    <3>2. tx_q \in Seq(Txn)
      BY DEF TxnType
    <3>3. tx_q' \in Seq(Txn)
      BY <3>1, <3>2
    <3> QED BY <1>6, <3>3, ZenonT(40) DEF Enqueue, TxnType
  <2>2. SeenType'
    BY <1>6 DEF Enqueue, SeenType
  <2>3. ThreadType'
    <3>1. pc' \in [Thread -> CallerPC \cup FlushPC \cup CleanPC \cup DataPC
                         \cup RelPC]
      BY <1>6 DEF ThreadType, Enqueue, AfterSend
    <3> QED BY <1>6, <3>1, ZenonT(40) DEF ThreadType, Enqueue
  <2>4. ClientType' /\ WorldType'
    BY <1>6 DEF ClientType, WorldType, Enqueue, AfterSend
  <2> QED BY <2>1, <2>2, <2>3, <2>4
<1>7. ASSUME NEW t \in Txn, UndoQueueRef(t) PROVE TypeOK'
  BY <1>7 DEF ClientType, TxnType, ThreadType, WorldType, SeenType,
     UndoQueueRef, SendFailed, Dec
<1>8. ASSUME NEW t \in Txn, AbandonAsync(t) PROVE TypeOK'
  <2>1. TxnType'
    <3>1. ref_count' \in [Txn -> Nat] /\ freed' \in [Txn -> BOOLEAN]
      BY <1>8, DecType, ZenonT(40) DEF AbandonAsync, TxnType
    <3> QED BY <1>8, <3>1, ZenonT(40) DEF AbandonAsync, TxnType
  <2>2. ClientType' /\ ThreadType' /\ WorldType' /\ SeenType'
    BY <1>8 DEF ClientType, ThreadType, WorldType, SeenType, AbandonAsync, Dec
  <2> QED BY <2>1, <2>2
<1>9. ASSUME NEW t \in Txn, WakeUp(t) PROVE TypeOK'
  <2>1. TxnType'
    <3>1. signal' \in [Txn -> BOOLEAN]
      BY <1>9, ZenonT(40) DEF WakeUp, TxnType
    <3> QED BY <1>9, <3>1, ZenonT(40) DEF WakeUp, TxnType
  <2>2. ThreadType'
    BY <1>9 DEF WakeUp, TxnType, ThreadType, WaitReturns
  <2>3. SeenType'
    BY <1>9 DEF WakeUp, TxnType, SeenType, WaitReturns
  <2>4. ClientType' /\ WorldType'
    BY <1>9 DEF ClientType, WorldType, WakeUp, WaitReturns
  <2> QED BY <2>1, <2>2, <2>3, <2>4
<1>10. ASSUME NEW t \in Txn, Invalidate(t) PROVE TypeOK'
  BY <1>10 DEF ClientType, TxnType, ThreadType, WorldType, SeenType,
     Invalidate
<1>11. ASSUME NEW t \in Txn, RemoveSync(t) PROVE TypeOK'
  BY <1>11 DEF ClientType, TxnType, ThreadType, WorldType, SeenType,
     RemoveSync, Dec
<1>12. ASSUME NEW t \in Txn, DropOwnRef(t) PROVE TypeOK'
  BY <1>12 DEF ClientType, TxnType, ThreadType, WorldType, SeenType,
     DropOwnRef, Dec
<1>13. ASSUME NEW t \in Txn, DeleteFromTxQ(t) PROVE TypeOK'
  BY <1>13, UnlinkType DEF ClientType, TxnType, ThreadType, WorldType,
     SeenType, DeleteFromTxQ, Dec
<1>14. ASSUME NEW t \in Txn, DeleteFromList(t) PROVE TypeOK'
  <2>1. pc' \in [Thread -> CallerPC \cup FlushPC \cup CleanPC \cup DataPC
                       \cup RelPC]
    BY <1>14 DEF ThreadType, DeleteFromList
  <2>2. ThreadType'
    BY <1>14, <2>1, ZenonT(40) DEF ThreadType, DeleteFromList
  <2>3. verdict' \in [Txn -> Codes \cup {"no_handle"}]
    BY <1>14 DEF SeenType, DeleteFromList
  <2>4. SeenType'
    BY <1>14, <2>3, ZenonT(40) DEF SeenType, DeleteFromList
  <2>5. ClientType' /\ TxnType' /\ WorldType'
    BY <1>14 DEF ClientType, TxnType, WorldType, DeleteFromList
  <2> QED BY <2>1, <2>2, <2>3, <2>4, <2>5
<1>15. ASSUME NEW t \in Txn, DeleteFree(t) PROVE TypeOK'
  BY <1>15 DEF ClientType, TxnType, ThreadType, WorldType, SeenType,
     DeleteFree, Dec
<1>16. ASSUME NEW th \in Thread, FlushStart(th) PROVE TypeOK'
  BY <1>16 DEF ClientType, TxnType, ThreadType, WorldType, SeenType,
     FlushStart
<1>17. ASSUME NEW th \in Thread, FlushDone(th) PROVE TypeOK'
  BY <1>17 DEF ClientType, TxnType, ThreadType, WorldType, SeenType,
     FlushDone, FlushExit, AfterSend
<1>18. ASSUME NEW th \in Thread, FlushBusy(th) PROVE TypeOK'
  BY <1>18 DEF ClientType, TxnType, ThreadType, WorldType, SeenType,
     FlushBusy, FlushExit, AfterSend
<1>19. ASSUME NEW th \in Thread, FlushSend(th) PROVE TypeOK'
  BY <1>19 DEF ClientType, TxnType, ThreadType, WorldType, SeenType,
     FlushSend, SendAnswers
<1>20. ASSUME NEW th \in Thread, FlushFind(th) PROVE TypeOK'
  <2>1. TxnType'
    BY <1>20, ZenonT(40) DEF FlushFind, TxnType
  <2>2. ThreadType'
    BY <1>20 DEF FlushFind, AfterSendError, ThreadType, TxnType
  <2>3. ClientType' /\ WorldType' /\ SeenType'
    BY <1>20 DEF ClientType, WorldType, SeenType, FlushFind, AfterSendError
  <2> QED BY <2>1, <2>2, <2>3
<1>21. ASSUME NEW th \in Thread, FlushError(th) PROVE TypeOK'
  <2>1. TxnType'
    <3>1. TxnType /\ Dec({cur[th]}) /\ Fail(cur[th], send_rc[th])
      BY <1>21, ZenonT(40) DEF FlushError
    <3>2. send_rc[th] \in Codes
      BY DEF ThreadType
    <3> QED BY <1>21, <3>1, <3>2, DecType, FailType, ZenonT(40) DEF FlushError,
       TxnType
  <2>2. ClientType' /\ ThreadType' /\ WorldType' /\ SeenType'
    BY <1>21 DEF ClientType, ThreadType, WorldType, SeenType, FlushError,
       AfterSendError, Fail, Wake, Bump, Dec
  <2> QED BY <2>1, <2>2
<1>22. ASSUME NEW th \in Thread, FlushDrop(th) PROVE TypeOK'
  BY <1>22 DEF ClientType, TxnType, ThreadType, WorldType, SeenType,
     FlushDrop, Dec
<1>23. ASSUME NEW th \in Thread, ServerError(th) PROVE TypeOK'
  <2>1. ClientType'
    BY <1>23, ZenonT(40) DEF ServerError, ClientType
  <2>2. TxnType' /\ ThreadType' /\ WorldType' /\ SeenType'
    BY <1>23 DEF TxnType, ThreadType, WorldType, SeenType, ServerError
  <2> QED BY <2>1, <2>2
<1>24. ASSUME NEW th \in Thread, CleanTxQ(th) PROVE TypeOK'
  BY <1>24 DEF ClientType, TxnType, ThreadType, WorldType, SeenType,
     CleanTxQ, Dec
<1>25. ASSUME NEW th \in Thread, CleanList(th) PROVE TypeOK'
  BY <1>25 DEF ClientType, TxnType, ThreadType, WorldType, SeenType,
     CleanList
<1>26. ASSUME NEW th \in Thread, CleanEach(th) PROVE TypeOK'
  <2> PICK t \in moved[th] :
        /\ Fail(t, CleanError(th)) /\ Dec({t})
        /\ rx_buf' = [rx_buf EXCEPT ![t] = FALSE]
        /\ moved' = [moved EXCEPT ![th] = @ \ {t}]
    BY <1>26, ZenonT(40) DEF CleanEach
  <2>1. TxnType'
    <3>1. TxnType /\ CleanError(th) \in Codes
      BY DEF CleanError
    <3>2. rx_buf' \in [Txn -> BOOLEAN]
      BY ZenonT(40) DEF TxnType
    <3>3. UNCHANGED lists
      BY <1>26, ZenonT(40) DEF CleanEach
    <3>4. ref_count' \in [Txn -> Nat] /\ freed' \in [Txn -> BOOLEAN]
      BY <3>1, DecType, Zenon
    <3>5. /\ signal' \in [Txn -> BOOLEAN] /\ rc' \in [Txn -> Codes]
          /\ done' \in [Txn -> 0..2] /\ filled' \in [Txn -> BOOLEAN]
      BY <3>1, FailType, Zenon
    <3> QED BY <3>1, <3>2, <3>3, <3>4, <3>5, ZenonT(40) DEF TxnType
  <2>2. ThreadType'
    BY <1>26 DEF CleanEach, ThreadType
  <2>3. ClientType' /\ WorldType' /\ SeenType'
    BY <1>26 DEF ClientType, WorldType, SeenType, CleanEach, Dec, Fail, Wake,
       Bump, CleanError
  <2> QED BY <2>1, <2>2, <2>3
<1>27. ASSUME NEW th \in Thread, CleanDone(th) PROVE TypeOK'
  BY <1>27 DEF ClientType, TxnType, ThreadType, WorldType, SeenType,
     CleanDone, CleanExit, FlushExit, AfterSend
<1>28. ASSUME NEW m \in inbox, RecvFind(m) PROVE TypeOK'
  BY <1>28 DEF ClientType, TxnType, ThreadType, WorldType, SeenType,
     RecvFind, Reading
<1>29. ASSUME RecvDeliver PROVE TypeOK'
  <2>1. TxnType'
    <3>1. TxnType /\ Dec({cur[Data]})
      BY <1>29, ZenonT(40) DEF RecvDeliver
    <3>2. CASE rx_buf[cur[Data]]
      <4>1. rc' \in [Txn -> Codes] /\ filled' \in [Txn -> BOOLEAN]
        BY <1>29, <3>2 DEF RecvDeliver, TxnType
      <4>2. signal' \in [Txn -> BOOLEAN] /\ done' \in [Txn -> 0..2]
        BY <1>29, <3>1, <3>2, WakeType, DoneType, ZenonT(40) DEF RecvDeliver
      <4> QED BY <1>29, <3>1, <4>1, <4>2, DecType, ZenonT(40) DEF RecvDeliver,
         TxnType
    <3>3. CASE ~rx_buf[cur[Data]]
      BY <1>29, <3>1, <3>3, DecType, ZenonT(40) DEF RecvDeliver, TxnType
    <3> QED BY <3>2, <3>3
  <2>2. ClientType' /\ ThreadType' /\ WorldType' /\ SeenType'
    BY <1>29 DEF ClientType, ThreadType, WorldType, SeenType, RecvDeliver,
       Dec, Wake, Bump
  <2> QED BY <2>1, <2>2
<1>30. ASSUME RecvMismatch PROVE TypeOK'
  <2>1. TxnType'
    <3>1. TxnType /\ Dec({cur[Data]}) /\ Fail(cur[Data], "invalid_txn")
      BY <1>30, ZenonT(40) DEF RecvMismatch
    <3>2. "invalid_txn" \in Codes
      OBVIOUS
    <3> QED BY <1>30, <3>1, <3>2, DecType, FailType, ZenonT(40) DEF RecvMismatch,
       TxnType
  <2>2. ClientType' /\ ThreadType' /\ WorldType' /\ SeenType'
    BY <1>30 DEF ClientType, ThreadType, WorldType, SeenType, RecvMismatch,
       Dec, Fail, Wake, Bump
  <2> QED BY <2>1, <2>2
<1>31. ASSUME RecvResume PROVE TypeOK'
  <2>1. WorldType'
    BY <1>31, ZenonT(40) DEF WorldType, RecvResume
  <2>2. ClientType' /\ TxnType' /\ ThreadType' /\ SeenType'
    BY <1>31 DEF ClientType, TxnType, ThreadType, SeenType, RecvResume,
       Reading
  <2> QED BY <2>1, <2>2
<1>32. ASSUME RecvServerGone PROVE TypeOK'
  <2>1. WorldType'
    BY <1>32, ZenonT(40) DEF WorldType, RecvServerGone
  <2>2. ClientType' /\ TxnType' /\ ThreadType' /\ SeenType'
    BY <1>32 DEF ClientType, TxnType, ThreadType, SeenType, RecvServerGone,
       Reading
  <2> QED BY <2>1, <2>2
<1>33. ASSUME RecvClose PROVE TypeOK'
  BY <1>33 DEF ClientType, TxnType, ThreadType, WorldType, SeenType,
     RecvClose, Reading
<1>34. ASSUME ReleaseGate PROVE TypeOK'
  <2>1. ClientType'
    BY <1>34, ZenonT(40) DEF ClientType, ReleaseGate
  <2>2. TxnType' /\ ThreadType' /\ WorldType' /\ SeenType'
    BY <1>34 DEF TxnType, ThreadType, WorldType, SeenType, ReleaseGate
  <2> QED BY <2>1, <2>2
<1>35. ASSUME ReleaseClose PROVE TypeOK'
  BY <1>35 DEF ClientType, TxnType, ThreadType, WorldType, SeenType,
     ReleaseClose
<1>36. ASSUME NEW t \in Txn, Begin(t) PROVE TypeOK'
  <2>1. pc' \in [Thread -> CallerPC \cup FlushPC \cup CleanPC \cup DataPC
                       \cup RelPC]
    BY <1>36 DEF ThreadType, Begin
  <2>2. ThreadType'
    BY <1>36, <2>1, ZenonT(40) DEF ThreadType, Begin
  <2>3. result' \in [Txn -> Codes]
    BY <1>36 DEF SeenType, Begin
  <2>4. SeenType'
    BY <1>36, <2>3, ZenonT(40) DEF SeenType, Begin
  <2>5. ClientType' /\ TxnType' /\ WorldType'
    BY <1>36 DEF ClientType, TxnType, WorldType, Begin
  <2> QED BY <2>1, <2>2, <2>3, <2>4, <2>5
<1>37. ASSUME NEW t \in Txn, TimeOut(t) PROVE TypeOK'
  BY <1>37 DEF ClientType, TxnType, ThreadType, WorldType, SeenType,
     TimeOut, WaitReturns
<1>38. ASSUME NEW t \in Txn, DeleteAsync(t) PROVE TypeOK'
  <2>1. pc' \in [Thread -> CallerPC \cup FlushPC \cup CleanPC \cup DataPC
                       \cup RelPC]
    BY <1>38 DEF ThreadType, DeleteAsync
  <2>2. ThreadType'
    BY <1>38, <2>1, ZenonT(40) DEF ThreadType, DeleteAsync
  <2>3. verdict' \in [Txn -> Codes \cup {"no_handle"}]
    BY <1>38 DEF SeenType, DeleteAsync
  <2>4. SeenType'
    BY <1>38, <2>3, ZenonT(40) DEF SeenType, DeleteAsync
  <2>5. ClientType' /\ TxnType' /\ WorldType'
    BY <1>38 DEF ClientType, TxnType, WorldType, DeleteAsync
  <2> QED BY <2>1, <2>2, <2>3, <2>4, <2>5
<1>39. ASSUME RegisterErrorCb PROVE TypeOK'
  BY <1>39 DEF ClientType, TxnType, ThreadType, WorldType, SeenType,
     RegisterErrorCb
<1>40. ASSUME ReleaseStart PROVE TypeOK'
  <2>1. ClientType'
    BY <1>40, ZenonT(40) DEF ClientType, ReleaseStart
  <2>2. TxnType' /\ ThreadType' /\ WorldType' /\ SeenType'
    BY <1>40 DEF TxnType, ThreadType, WorldType, SeenType, ReleaseStart
  <2> QED BY <2>1, <2>2
<1>41. ASSUME NEW t \in Txn, Respond(t) PROVE TypeOK'
  <2>1. WorldType'
    <3>1. inbox' \subseteq [txn : Txn, good : BOOLEAN]
      <4>1. PICK good \in BOOLEAN : inbox' = inbox \cup {[txn |-> t, good |-> good]}
        BY <1>41, ZenonT(40) DEF Respond
      <4> QED BY <4>1 DEF WorldType
    <3>2. answered' \subseteq Txn
      BY <1>41 DEF Respond, WorldType
    <3> QED BY <1>41, <3>1, <3>2, ZenonT(40) DEF Respond, WorldType
  <2>2. ClientType' /\ TxnType' /\ ThreadType' /\ SeenType'
    BY <1>41 DEF ClientType, TxnType, ThreadType, SeenType, Respond
  <2> QED BY <2>1, <2>2
<1>42. ASSUME NEW t \in Txn, UseAfterFree(t) PROVE TypeOK'
  BY <1>42 DEF ClientType, TxnType, ThreadType, WorldType, SeenType,
     UseAfterFree
<1>43. ASSUME ServerDies PROVE TypeOK'
  <2>1. WorldType'
    BY <1>43, ZenonT(40) DEF WorldType, ServerDies
  <2>2. ClientType' /\ TxnType' /\ ThreadType' /\ SeenType'
    BY <1>43 DEF ClientType, TxnType, ThreadType, SeenType, ServerDies
  <2> QED BY <2>1, <2>2
<1>44. ASSUME Block PROVE TypeOK'
  BY <1>44 DEF ClientType, TxnType, ThreadType, WorldType, SeenType,
     Block
<1>45. ASSUME Unblock PROVE TypeOK'
  <2>1. WorldType'
    BY <1>45, ZenonT(40) DEF WorldType, Unblock
  <2>2. ClientType' /\ TxnType' /\ ThreadType' /\ SeenType'
    BY <1>45 DEF ClientType, TxnType, ThreadType, SeenType, Unblock
  <2> QED BY <2>1, <2>2
<1>46. CASE UNCHANGED vars
  BY <1>46 DEF vars, ClientType, TxnType, ThreadType, WorldType, SeenType
<1> QED
  BY <1>1, <1>2, <1>3, <1>4, <1>5, <1>6, <1>7, <1>8, <1>9, <1>10, <1>11,
     <1>12, <1>13, <1>14, <1>15, <1>16, <1>17, <1>18, <1>19, <1>20, <1>21,
     <1>22, <1>23, <1>24, <1>25, <1>26, <1>27, <1>28, <1>29, <1>30, <1>31,
     <1>32, <1>33, <1>34, <1>35, <1>36, <1>37, <1>38, <1>39, <1>40, <1>41,
     <1>42, <1>43, <1>44, <1>45, <1>46
  DEF Next, CallerStep, FlushStep, CleanStep, DataStep, ReleaseStep,
      UserStep, EnvStep, Rest

\* TypeOK: every variable of the client, the transactions, the threads, the
\* transport and the users stays within its type, in every reachable state.
THEOREM TypeCorrect == Spec => []TypeOK
<1>1. TypeOK /\ [Next]_vars => TypeOK'
  BY TypeStep
<1> QED BY TypeInit, <1>1, PTL DEF Spec

------------------------------------------------------------------------------
(* A transaction is completed at most once.                                *)

\* th took t off txn_list and has yet to complete or free it.
Takes(th, t) ==
  \/ pc[th] = "cl_each" /\ t \in moved[th]
  \/ pc[th] \in {"fl_error", "recv_good", "recv_bad"} /\ cur[th] = t
  \/ pc[th] = "del_free" /\ th = t

\* t is still to be completed: it is listed, or one thread took it.
Open(t) == t \in txn_list \/ \E th \in Thread : Takes(th, t)

\* t was not yet listed.
Fresh(t) == pc[t] \in {"idle", "add"}

\* The user was told that the asynchronous send of t failed.
Refused(t) == t \in AsyncTxn /\ pc[t] = "done" /\ result[t] # "ok"

\* txn_list and the threads own every open transaction exclusively, and
\* nobody was told that an open transaction ended.
Owned ==
  /\ \A t \in Txn, th \in Thread : t \in txn_list => ~Takes(th, t)
  /\ \A t \in Txn, th1, th2 \in Thread :
        Takes(th1, t) /\ Takes(th2, t) => th1 = th2
  /\ \A t \in Txn : Open(t) => /\ done[t] = 0 /\ verdict[t] # "ok"
                               /\ ~Refused(t) /\ ~Fresh(t)
  /\ \A t \in Txn : Fresh(t) => done[t] = 0 /\ verdict[t] = "none"

\* An asynchronous send that reached the queue has succeeded, and it never
\* waits.
AsyncPath ==
  \A t \in AsyncTxn :
    /\ pc[t] \notin {"inc_own", "prep", "wait", "fin_inval", "fin_remove",
                     "fin_dec"}
    /\ pc[t] \in FlushPC \cup CleanPC => result[t] = "ok"

OnceInv == Owned /\ AsyncPath /\ CompletedOnce

\* What a step of thread a may do: list a fresh transaction, take listed
\* ones, complete or free one it took, refuse one that is its own again.
Handover(a) ==
  \A t \in Txn :
    /\ t \in txn_list' => t \in txn_list \/ (Fresh(t) /\ ~Fresh(t)')
    /\ \A th \in Thread : th # a /\ Takes(th, t)' => Takes(th, t)
    /\ Takes(a, t)' => Takes(a, t) \/ (t \in txn_list /\ t \notin txn_list')
    /\ \/ done'[t] = done[t]
       \/ done'[t] = Bump(done[t]) /\ Takes(a, t) /\ ~Takes(a, t)'
    /\ \/ verdict'[t] = verdict[t]
       \/ verdict'[t] # "ok" /\ ~Fresh(t)'
       \/ Takes(a, t) /\ ~Takes(a, t)' /\ ~Fresh(t)' /\ done'[t] = done[t]
    /\ Fresh(t)' => Fresh(t)
    /\ Refused(t)' =>
         \/ Refused(t)
         \/ /\ Fresh(t) \/ t \in txn_list
            /\ t \notin txn_list' /\ ~Takes(a, t)' /\ done'[t] = done[t]

\* The initial state owns nothing.
LEMMA OwnedInit == Init => OnceInv
<1> SUFFICES ASSUME Init PROVE OnceInv
  OBVIOUS
<1>1. \A th \in Thread, t \in Txn : ~Takes(th, t)
  BY TxnAssumption DEF Init, Takes, Thread, Txn
<1>2. \A t \in Txn : pc[t] = "idle" /\ done[t] = 0 /\ verdict[t] = "none"
  BY DEF Init, Thread
<1>3. txn_list = {}
  BY DEF Init
<1>4. Owned
  BY <1>1, <1>2, <1>3 DEF Owned, Open, Fresh
<1>5. AsyncPath
  BY <1>2 DEF AsyncPath, FlushPC, CleanPC, Txn
<1>6. CompletedOnce
  BY <1>2 DEF CompletedOnce
<1> QED BY <1>4, <1>5, <1>6 DEF OnceInv

\* Handing over keeps ownership exclusive and completion unique.
LEMMA HandoverKeeps ==
  ASSUME NEW a \in Thread, Owned, CompletedOnce, Handover(a)
  PROVE  (Owned /\ CompletedOnce)'
<1> SUFFICES ASSUME NEW t \in Txn
             PROVE  /\ \A th \in Thread : t \in txn_list' => ~Takes(th, t)'
                    /\ \A th1, th2 \in Thread :
                          Takes(th1, t)' /\ Takes(th2, t)' => th1 = th2
                    /\ Open(t)' => /\ done'[t] = 0 /\ verdict'[t] # "ok"
                                   /\ ~Refused(t)' /\ ~Fresh(t)'
                    /\ Fresh(t)' => done'[t] = 0 /\ verdict'[t] = "none"
                    /\ done'[t] <= 1
                    /\ verdict'[t] = "ok" => done'[t] = 0
                    /\ Refused(t)' => done'[t] = 0
  BY ZenonT(40) DEF Owned, CompletedOnce, Refused
<1>1. ASSUME NEW th \in Thread, t \in txn_list' PROVE ~Takes(th, t)'
  BY <1>1 DEF Owned, Handover, Open
<1>2. ASSUME NEW th1 \in Thread, NEW th2 \in Thread,
             Takes(th1, t)', Takes(th2, t)'
      PROVE  th1 = th2
  BY <1>2 DEF Owned, Handover, Open
<1>3. ASSUME Open(t)'
      PROVE  /\ done'[t] = 0 /\ verdict'[t] # "ok"
             /\ ~Refused(t)' /\ ~Fresh(t)'
  <2>1. CASE t \in txn_list'
    <3>1. ~Takes(a, t)
      BY <2>1 DEF Owned, Handover, Open
    <3>2. done[t] = 0 /\ verdict[t] # "ok" /\ ~Refused(t) /\ ~Fresh(t)'
      BY <2>1 DEF Owned, Handover, Open, Refused, Fresh
    <3> QED BY <2>1, <3>1, <3>2 DEF Handover
  <2>2. CASE \E th \in Thread : Takes(th, t)'
    <3>1. PICK th \in Thread : Takes(th, t)'
      BY <2>2
    <3>2. Open(t) /\ (Takes(a, t) => Takes(a, t)')
      BY <3>1 DEF Owned, Handover, Open
    <3>3. done[t] = 0 /\ verdict[t] # "ok" /\ ~Refused(t) /\ ~Fresh(t)
      BY <3>2 DEF Owned
    <3>4. done'[t] = 0 /\ verdict'[t] # "ok" /\ ~Fresh(t)'
      BY <3>2, <3>3 DEF Handover
    <3>5. ~Refused(t)'
      BY <3>1, <3>3 DEF Owned, Handover
    <3> QED BY <3>4, <3>5
  <2> QED BY <1>3, <2>1, <2>2, ZenonT(40) DEF Open
<1>4. Fresh(t)' => done'[t] = 0 /\ verdict'[t] = "none"
  BY DEF Owned, Handover, Open
<1>5. done'[t] <= 1
  BY DEF Owned, Handover, Open, CompletedOnce, Bump
<1>6. verdict'[t] = "ok" => done'[t] = 0
  BY DEF Owned, Handover, Open, CompletedOnce, Bump
<1>7. Refused(t)' => done'[t] = 0
  BY DEF Owned, Handover, Open, CompletedOnce, Refused
<1> QED BY <1>1, <1>2, <1>3, <1>4, <1>5, <1>6, <1>7

\* The acting thread a changes only its own control point, transaction,
\* detached list and results.
OthersStill(a) ==
  /\ \A th \in Thread \ {a} :
        pc'[th] = pc[th] /\ cur'[th] = cur[th] /\ moved'[th] = moved[th]
  /\ \A t \in Txn \ {a} : result'[t] = result[t] /\ verdict'[t] = verdict[t]

\* What a does to the transactions, and, when a is a caller, to its own.
OwnPart(a) ==
  /\ Fresh(a)' => Fresh(a)
  /\ \/ verdict'[a] = verdict[a]
     \/ verdict'[a] # "ok" /\ ~Fresh(a)'
     \/ Takes(a, a) /\ ~Takes(a, a)' /\ ~Fresh(a)' /\ done'[a] = done[a]
  /\ Refused(a)' =>
       \/ Refused(a)
       \/ /\ Fresh(a) \/ a \in txn_list
          /\ a \notin txn_list' /\ ~Takes(a, a)' /\ done'[a] = done[a]

AsyncPart(a) ==
  a \in AsyncTxn =>
    /\ pc'[a] \notin {"inc_own", "prep", "wait", "fin_inval", "fin_remove",
                      "fin_dec"}
    /\ pc'[a] \in FlushPC \cup CleanPC => result'[a] = "ok"

ListPart(a) ==
  \A t \in Txn :
    /\ t \in txn_list' => t \in txn_list \/ (t = a /\ Fresh(t) /\ ~Fresh(t)')
    /\ Takes(a, t)' => Takes(a, t) \/ (t \in txn_list /\ t \notin txn_list')
    /\ \/ done'[t] = done[t]
       \/ done'[t] = Bump(done[t]) /\ Takes(a, t) /\ ~Takes(a, t)'

\* A step that leaves the others alone is a handover if it is one for a.
LEMMA StepOf ==
  ASSUME NEW a \in Thread, AsyncPath, OthersStill(a), ListPart(a),
         AsyncPart(a), a \in Txn => OwnPart(a)
  PROVE  Handover(a) /\ AsyncPath'
<1>1. AsyncTxn \subseteq Txn /\ Txn \subseteq Thread
  BY DEF Txn, Thread
<1>2. ASSUME NEW t \in Txn, t # a
      PROVE  /\ Fresh(t)' => Fresh(t)
             /\ Refused(t)' => Refused(t)
             /\ verdict'[t] = verdict[t]
  BY <1>1, <1>2 DEF OthersStill, Fresh, Refused
<1>3. ASSUME NEW t \in Txn, NEW th \in Thread, th # a, Takes(th, t)'
      PROVE  Takes(th, t)
  BY <1>3 DEF OthersStill, Takes
<1>4. AsyncPath'
  <2> SUFFICES ASSUME NEW t \in AsyncTxn
      PROVE /\ pc'[t] \notin {"inc_own", "prep", "wait", "fin_inval",
                              "fin_remove", "fin_dec"}
            /\ pc'[t] \in FlushPC \cup CleanPC => result'[t] = "ok"
    BY DEF AsyncPath, FlushPC, CleanPC
  <2>1. CASE t = a
    BY <2>1 DEF AsyncPart
  <2>2. CASE t # a
    BY <1>1, <2>2 DEF AsyncPath, OthersStill
  <2> QED BY <2>1, <2>2
<1>5. ASSUME NEW t \in Txn
      PROVE  /\ Fresh(t)' => Fresh(t)
             /\ \/ verdict'[t] = verdict[t]
                \/ verdict'[t] # "ok" /\ ~Fresh(t)'
                \/ /\ Takes(a, t) /\ ~Takes(a, t)' /\ ~Fresh(t)'
                   /\ done'[t] = done[t]
             /\ Refused(t)' =>
                  \/ Refused(t)
                  \/ /\ Fresh(t) \/ t \in txn_list
                     /\ t \notin txn_list' /\ ~Takes(a, t)'
                     /\ done'[t] = done[t]
  <2>1. CASE t # a
    BY <1>2, <2>1
  <2>2. CASE t = a
    BY <2>2 DEF OwnPart
  <2> QED BY <2>1, <2>2
<1> QED BY <1>3, <1>4, <1>5 DEF Handover, ListPart

\* A step that only moves a, takes nothing and completes nothing.
LEMMA MoveOf ==
  ASSUME NEW a \in Thread, AsyncPath, OthersStill(a), AsyncPart(a),
         UNCHANGED <<txn_list, done, moved>>,
         pc'[a] \notin {"cl_each", "fl_error", "recv_good", "recv_bad",
                        "del_free"},
         a \in Txn => OwnPart(a)
  PROVE  Handover(a) /\ AsyncPath'
<1>1. ListPart(a)
  BY DEF ListPart, Takes
<1> QED BY <1>1, StepOf

\* A step that leaves the lists, the threads and the results alone.
LEMMA QuietStep ==
  ASSUME AsyncPath,
         UNCHANGED <<txn_list, pc, cur, moved, done, verdict, result>>
  PROVE  Handover(Data) /\ AsyncPath'
BY DEF AsyncPath, Handover, Takes, Fresh, Refused

\* Every step hands an open transaction from the list to one thread, from a
\* thread to nobody, or leaves it where it is, and completes only what the
\* acting thread took.
LEMMA OwnedStep == TypeOK /\ OnceInv /\ [Next]_vars => OnceInv'
<1> SUFFICES ASSUME TypeOK, OnceInv, [Next]_vars PROVE OnceInv'
  OBVIOUS
<1> DEFINE Good(a) == Handover(a) /\ AsyncPath'
<1>0. /\ txn_list \subseteq Txn /\ inbox \subseteq [txn : Txn, good : BOOLEAN]
      /\ pc \in [Thread -> CallerPC \cup FlushPC \cup CleanPC \cup DataPC
                           \cup RelPC]
      /\ cur \in [Thread -> Txn \cup {NoTxn}]
      /\ moved \in [Thread -> SUBSET Txn]
      /\ done \in [Txn -> 0..2] /\ result \in [Txn -> Codes]
      /\ verdict \in [Txn -> Codes \cup {"no_handle"}]
      /\ AsyncTxn \subseteq Txn /\ SyncTxn \cap AsyncTxn = {}
      /\ Txn \subseteq Thread /\ Data \in Thread /\ Releaser \in Thread
      /\ Data \notin Txn /\ Releaser \notin Txn /\ Data # Releaser
      /\ NoTxn \notin Txn
  BY TxnAssumption
  DEF TypeOK, TxnType, ThreadType, SeenType, WorldType, Thread, Txn
<1>00. OnceInv /\ AsyncPath
  BY DEF OnceInv
<1> USE <1>0, <1>00 DEF At, Goto, lists, answer, locals, returns, txns, seen
<1>1. ASSUME NEW t \in Txn, GetTxn(t) PROVE Good(t)
  <2>1. OthersStill(t)
    BY <1>1 DEF OthersStill, GetTxn
  <2>2. AsyncPart(t)
    BY <1>1 DEF AsyncPart, AsyncPath, FlushPC, CleanPC, GetTxn
  <2>3. OwnPart(t)
    BY <1>1 DEF OwnPart, Takes, Fresh, Refused, GetTxn
  <2>4. ListPart(t)
    BY <1>1 DEF ListPart, Takes, Fresh, GetTxn
  <2> QED BY <1>0, <2>1, <2>2, <2>3, <2>4, StepOf
<1>2. ASSUME NEW t \in Txn, TakeOwnRef(t) PROVE Good(t)
  <2>1. OthersStill(t) /\ UNCHANGED <<txn_list, done, moved>>
    BY <1>2 DEF OthersStill, TakeOwnRef
  <2>2. /\ AsyncPart(t)
        /\ pc'[t] \notin {"cl_each", "fl_error", "recv_good", "recv_bad",
                          "del_free"}
    BY <1>2 DEF AsyncPart, AsyncPath, FlushPC, CleanPC, TakeOwnRef
  <2>3. OwnPart(t)
    BY <1>2 DEF OwnPart, Fresh, Refused, TakeOwnRef
  <2> QED BY <1>0, <2>1, <2>2, <2>3, MoveOf
<1>3. ASSUME NEW t \in Txn, PrepareWait(t) PROVE Good(t)
  <2>1. OthersStill(t) /\ UNCHANGED <<txn_list, done, moved>>
    BY <1>3 DEF OthersStill, PrepareWait
  <2>2. /\ AsyncPart(t)
        /\ pc'[t] \notin {"cl_each", "fl_error", "recv_good", "recv_bad",
                          "del_free"}
    BY <1>3 DEF AsyncPart, AsyncPath, FlushPC, CleanPC, PrepareWait
  <2>3. OwnPart(t)
    BY <1>3 DEF OwnPart, Fresh, Refused, PrepareWait
  <2> QED BY <1>0, <2>1, <2>2, <2>3, MoveOf
<1>4. ASSUME NEW t \in Txn, CheckServer(t) PROVE Good(t)
  <2>1. OthersStill(t) /\ UNCHANGED <<txn_list, done, moved>>
    BY <1>4 DEF OthersStill, CheckServer, SendFailed
  <2>2. /\ AsyncPart(t)
        /\ pc'[t] \notin {"cl_each", "fl_error", "recv_good", "recv_bad",
                          "del_free"}
    BY <1>4 DEF AsyncPart, AsyncPath, FlushPC, CleanPC, CheckServer, SendFailed
  <2>3. OwnPart(t)
    BY <1>4 DEF OwnPart, Fresh, Refused, CheckServer, SendFailed
  <2> QED BY <1>0, <2>1, <2>2, <2>3, MoveOf
<1>5. ASSUME NEW t \in Txn, TakeQueueRef(t) PROVE Good(t)
  <2>1. OthersStill(t) /\ UNCHANGED <<txn_list, done, moved>>
    BY <1>5 DEF OthersStill, TakeQueueRef
  <2>2. /\ AsyncPart(t)
        /\ pc'[t] \notin {"cl_each", "fl_error", "recv_good", "recv_bad",
                          "del_free"}
    BY <1>5 DEF AsyncPart, AsyncPath, FlushPC, CleanPC, TakeQueueRef
  <2>3. OwnPart(t)
    BY <1>5 DEF OwnPart, Fresh, Refused, TakeQueueRef
  <2> QED BY <1>0, <2>1, <2>2, <2>3, MoveOf
<1>6. ASSUME NEW t \in Txn, Enqueue(t) PROVE Good(t)
  <2>1. OthersStill(t) /\ UNCHANGED <<txn_list, done, moved>>
    BY <1>6 DEF OthersStill, Enqueue, AfterSend
  <2>2. /\ AsyncPart(t)
        /\ pc'[t] \notin {"cl_each", "fl_error", "recv_good", "recv_bad",
                          "del_free"}
    BY <1>6 DEF AsyncPart, AsyncPath, FlushPC, CleanPC, Enqueue, AfterSend
  <2>3. OwnPart(t)
    BY <1>6 DEF OwnPart, Fresh, Refused, Enqueue, AfterSend
  <2> QED BY <1>0, <2>1, <2>2, <2>3, MoveOf
<1>7. ASSUME NEW t \in Txn, UndoQueueRef(t) PROVE Good(t)
  <2>1. OthersStill(t) /\ UNCHANGED <<txn_list, done, moved>>
    BY <1>7 DEF OthersStill, UndoQueueRef, SendFailed
  <2>2. /\ AsyncPart(t)
        /\ pc'[t] \notin {"cl_each", "fl_error", "recv_good", "recv_bad",
                          "del_free"}
    BY <1>7 DEF AsyncPart, AsyncPath, FlushPC, CleanPC, UndoQueueRef,
       SendFailed
  <2>3. OwnPart(t)
    BY <1>7 DEF OwnPart, Fresh, Refused, UndoQueueRef, SendFailed
  <2> QED BY <1>0, <2>1, <2>2, <2>3, MoveOf
<1>8. ASSUME NEW t \in Txn, AbandonAsync(t) PROVE Good(t)
  <2>1. OthersStill(t)
    BY <1>8 DEF OthersStill, AbandonAsync
  <2>2. AsyncPart(t)
    BY <1>8 DEF AsyncPart, AsyncPath, FlushPC, CleanPC, AbandonAsync
  <2>3. OwnPart(t)
    BY <1>8 DEF OwnPart, Takes, Fresh, Refused, AbandonAsync
  <2>4. ListPart(t)
    BY <1>8 DEF ListPart, Takes, Fresh, AbandonAsync
  <2> QED BY <1>0, <2>1, <2>2, <2>3, <2>4, StepOf
<1>9. ASSUME NEW t \in Txn, WakeUp(t) PROVE Good(t)
  <2>1. OthersStill(t) /\ UNCHANGED <<txn_list, done, moved>>
    BY <1>9 DEF OthersStill, WakeUp, WaitReturns
  <2>2. /\ AsyncPart(t)
        /\ pc'[t] \notin {"cl_each", "fl_error", "recv_good", "recv_bad",
                          "del_free"}
    BY <1>9 DEF AsyncPart, AsyncPath, FlushPC, CleanPC, WakeUp, WaitReturns
  <2>3. OwnPart(t)
    BY <1>9 DEF OwnPart, Fresh, Refused, AsyncPath, FlushPC, CleanPC, WakeUp,
       WaitReturns
  <2> QED BY <1>0, <2>1, <2>2, <2>3, MoveOf
<1>10. ASSUME NEW t \in Txn, Invalidate(t) PROVE Good(t)
  <2>1. OthersStill(t) /\ UNCHANGED <<txn_list, done, moved>>
    BY <1>10 DEF OthersStill, Invalidate
  <2>2. /\ AsyncPart(t)
        /\ pc'[t] \notin {"cl_each", "fl_error", "recv_good", "recv_bad",
                          "del_free"}
    BY <1>10 DEF AsyncPart, AsyncPath, FlushPC, CleanPC, Invalidate
  <2>3. OwnPart(t)
    BY <1>10 DEF OwnPart, Fresh, Refused, Invalidate
  <2> QED BY <1>0, <2>1, <2>2, <2>3, MoveOf
<1>11. ASSUME NEW t \in Txn, RemoveSync(t) PROVE Good(t)
  <2>1. OthersStill(t)
    BY <1>11 DEF OthersStill, RemoveSync
  <2>2. AsyncPart(t)
    BY <1>11 DEF AsyncPart, AsyncPath, FlushPC, CleanPC, RemoveSync
  <2>3. OwnPart(t)
    BY <1>11 DEF OwnPart, Takes, Fresh, Refused, RemoveSync
  <2>4. ListPart(t)
    BY <1>11 DEF ListPart, Takes, Fresh, RemoveSync
  <2> QED BY <1>0, <2>1, <2>2, <2>3, <2>4, StepOf
<1>12. ASSUME NEW t \in Txn, DropOwnRef(t) PROVE Good(t)
  <2>1. OthersStill(t) /\ UNCHANGED <<txn_list, done, moved>>
    BY <1>12 DEF OthersStill, DropOwnRef
  <2>2. /\ AsyncPart(t)
        /\ pc'[t] \notin {"cl_each", "fl_error", "recv_good", "recv_bad",
                          "del_free"}
    BY <1>12 DEF AsyncPart, AsyncPath, FlushPC, CleanPC, DropOwnRef
  <2>3. OwnPart(t)
    BY <1>12 DEF OwnPart, Fresh, Refused, AsyncPath, FlushPC, CleanPC,
       DropOwnRef
  <2> QED BY <1>0, <2>1, <2>2, <2>3, MoveOf
<1>13. ASSUME NEW t \in Txn, DeleteFromTxQ(t) PROVE Good(t)
  <2>1. OthersStill(t) /\ UNCHANGED <<txn_list, done, moved>>
    BY <1>13 DEF OthersStill, DeleteFromTxQ
  <2>2. /\ AsyncPart(t)
        /\ pc'[t] \notin {"cl_each", "fl_error", "recv_good", "recv_bad",
                          "del_free"}
    BY <1>13 DEF AsyncPart, AsyncPath, FlushPC, CleanPC, DeleteFromTxQ
  <2>3. OwnPart(t)
    BY <1>13 DEF OwnPart, Fresh, Refused, DeleteFromTxQ
  <2> QED BY <1>0, <2>1, <2>2, <2>3, MoveOf
<1>14. ASSUME NEW t \in Txn, DeleteFromList(t) PROVE Good(t)
  <2>1. OthersStill(t)
    BY <1>14 DEF OthersStill, DeleteFromList
  <2>2. AsyncPart(t)
    BY <1>14 DEF AsyncPart, AsyncPath, FlushPC, CleanPC, DeleteFromList
  <2>3. OwnPart(t)
    BY <1>14 DEF OwnPart, Takes, Fresh, Refused, DeleteFromList
  <2>4. ListPart(t)
    BY <1>14 DEF ListPart, Takes, Fresh, DeleteFromList
  <2> QED BY <1>0, <2>1, <2>2, <2>3, <2>4, StepOf
<1>15. ASSUME NEW t \in Txn, DeleteFree(t) PROVE Good(t)
  <2>1. OthersStill(t)
    BY <1>15 DEF OthersStill, DeleteFree
  <2>2. AsyncPart(t)
    BY <1>15 DEF AsyncPart, AsyncPath, FlushPC, CleanPC, DeleteFree
  <2>3. OwnPart(t)
    BY <1>15 DEF OwnPart, Takes, Fresh, Refused, DeleteFree
  <2>4. ListPart(t)
    BY <1>15 DEF ListPart, Takes, Fresh, DeleteFree
  <2> QED BY <1>0, <2>1, <2>2, <2>3, <2>4, StepOf
<1>16. ASSUME NEW th \in Thread, FlushStart(th) PROVE Good(th)
  <2>1. OthersStill(th) /\ UNCHANGED <<txn_list, done, moved>>
    BY <1>16 DEF OthersStill, FlushStart
  <2>2. /\ AsyncPart(th)
        /\ pc'[th] \notin {"cl_each", "fl_error", "recv_good", "recv_bad",
                          "del_free"}
    BY <1>16 DEF AsyncPart, AsyncPath, FlushPC, CleanPC, FlushStart
  <2>3. th \in Txn => OwnPart(th)
    BY <1>16 DEF OwnPart, Fresh, Refused, AsyncPath, FlushPC, CleanPC,
       FlushStart
  <2> QED BY <1>0, <2>1, <2>2, <2>3, MoveOf
<1>17. ASSUME NEW th \in Thread, FlushDone(th) PROVE Good(th)
  <2>1. OthersStill(th) /\ UNCHANGED <<txn_list, done, moved>>
    BY <1>17 DEF OthersStill, FlushDone, FlushExit, AfterSend
  <2>2. /\ AsyncPart(th)
        /\ pc'[th] \notin {"cl_each", "fl_error", "recv_good", "recv_bad",
                          "del_free"}
    BY <1>17 DEF AsyncPart, AsyncPath, FlushPC, CleanPC, FlushDone, FlushExit,
       AfterSend
  <2>3. th \in Txn => OwnPart(th)
    BY <1>17 DEF OwnPart, Fresh, Refused, AsyncPath, FlushPC, CleanPC,
       FlushDone, FlushExit, AfterSend
  <2> QED BY <1>0, <2>1, <2>2, <2>3, MoveOf
<1>18. ASSUME NEW th \in Thread, FlushBusy(th) PROVE Good(th)
  <2>1. OthersStill(th) /\ UNCHANGED <<txn_list, done, moved>>
    BY <1>18 DEF OthersStill, FlushBusy, FlushExit, AfterSend
  <2>2. /\ AsyncPart(th)
        /\ pc'[th] \notin {"cl_each", "fl_error", "recv_good", "recv_bad",
                          "del_free"}
    BY <1>18 DEF AsyncPart, AsyncPath, FlushPC, CleanPC, FlushBusy, FlushExit,
       AfterSend
  <2>3. th \in Txn => OwnPart(th)
    BY <1>18 DEF OwnPart, Fresh, Refused, AsyncPath, FlushPC, CleanPC,
       FlushBusy, FlushExit, AfterSend
  <2> QED BY <1>0, <2>1, <2>2, <2>3, MoveOf
<1>19. ASSUME NEW th \in Thread, FlushSend(th) PROVE Good(th)
  <2>1. OthersStill(th) /\ UNCHANGED <<txn_list, done, moved>>
    BY <1>19 DEF OthersStill, FlushSend
  <2>2. /\ AsyncPart(th)
        /\ pc'[th] \notin {"cl_each", "fl_error", "recv_good", "recv_bad",
                          "del_free"}
    BY <1>19 DEF AsyncPart, AsyncPath, FlushPC, CleanPC, FlushSend
  <2>3. th \in Txn => OwnPart(th)
    BY <1>19 DEF OwnPart, Fresh, Refused, AsyncPath, FlushPC, CleanPC,
       FlushSend
  <2> QED BY <1>0, <2>1, <2>2, <2>3, MoveOf
<1>20. ASSUME NEW th \in Thread, FlushFind(th) PROVE Good(th)
  <2>1. OthersStill(th)
    BY <1>20 DEF OthersStill, FlushFind, AfterSendError
  <2>2. AsyncPart(th)
    BY <1>20 DEF AsyncPart, AsyncPath, FlushPC, CleanPC, FlushFind,
       AfterSendError
  <2>3. th \in Txn => OwnPart(th)
    BY <1>20 DEF OwnPart, Takes, Fresh, Refused, FlushFind, AfterSendError
  <2>4. ListPart(th)
    BY <1>20 DEF ListPart, Takes, Fresh, FlushFind, AfterSendError
  <2> QED BY <1>0, <2>1, <2>2, <2>3, <2>4, StepOf
<1>21. ASSUME NEW th \in Thread, FlushError(th) PROVE Good(th)
  <2>1. OthersStill(th)
    BY <1>21 DEF OthersStill, FlushError, AfterSendError, Fail, Bump
  <2>2. AsyncPart(th)
    BY <1>21 DEF AsyncPart, AsyncPath, FlushPC, CleanPC, FlushError,
       AfterSendError, Fail, Bump
  <2>3. th \in Txn => OwnPart(th)
    BY <1>21 DEF OwnPart, Takes, Fresh, Refused, FlushError, AfterSendError,
       Fail, Bump
  <2>4. ListPart(th)
    BY <1>21 DEF ListPart, Takes, Fresh, FlushError, AfterSendError, Fail, Bump
  <2> QED BY <1>0, <2>1, <2>2, <2>3, <2>4, StepOf
<1>22. ASSUME NEW th \in Thread, FlushDrop(th) PROVE Good(th)
  <2>1. OthersStill(th) /\ UNCHANGED <<txn_list, done, moved>>
    BY <1>22 DEF OthersStill, FlushDrop
  <2>2. /\ AsyncPart(th)
        /\ pc'[th] \notin {"cl_each", "fl_error", "recv_good", "recv_bad",
                          "del_free"}
    BY <1>22 DEF AsyncPart, AsyncPath, FlushPC, CleanPC, FlushDrop
  <2>3. th \in Txn => OwnPart(th)
    BY <1>22 DEF OwnPart, Fresh, Refused, AsyncPath, FlushPC, CleanPC,
       FlushDrop
  <2> QED BY <1>0, <2>1, <2>2, <2>3, MoveOf
<1>23. ASSUME NEW th \in Thread, ServerError(th) PROVE Good(th)
  <2>1. OthersStill(th) /\ UNCHANGED <<txn_list, done, moved>>
    BY <1>23 DEF OthersStill, ServerError
  <2>2. /\ AsyncPart(th)
        /\ pc'[th] \notin {"cl_each", "fl_error", "recv_good", "recv_bad",
                          "del_free"}
    BY <1>23 DEF AsyncPart, AsyncPath, FlushPC, CleanPC, ServerError
  <2>3. th \in Txn => OwnPart(th)
    BY <1>23 DEF OwnPart, Fresh, Refused, AsyncPath, FlushPC, CleanPC,
       ServerError
  <2> QED BY <1>0, <2>1, <2>2, <2>3, MoveOf
<1>24. ASSUME NEW th \in Thread, CleanTxQ(th) PROVE Good(th)
  <2>1. OthersStill(th) /\ UNCHANGED <<txn_list, done, moved>>
    BY <1>24 DEF OthersStill, CleanTxQ
  <2>2. /\ AsyncPart(th)
        /\ pc'[th] \notin {"cl_each", "fl_error", "recv_good", "recv_bad",
                          "del_free"}
    BY <1>24 DEF AsyncPart, AsyncPath, FlushPC, CleanPC, CleanTxQ
  <2>3. th \in Txn => OwnPart(th)
    BY <1>24 DEF OwnPart, Fresh, Refused, AsyncPath, FlushPC, CleanPC, CleanTxQ
  <2> QED BY <1>0, <2>1, <2>2, <2>3, MoveOf
<1>25. ASSUME NEW th \in Thread, CleanList(th) PROVE Good(th)
  <2>1. OthersStill(th)
    BY <1>25 DEF OthersStill, CleanList
  <2>2. AsyncPart(th)
    BY <1>25 DEF AsyncPart, AsyncPath, FlushPC, CleanPC, CleanList
  <2>3. th \in Txn => OwnPart(th)
    BY <1>25 DEF OwnPart, Takes, Fresh, Refused, CleanList
  <2>4. ListPart(th)
    BY <1>25 DEF ListPart, Takes, Fresh, CleanList
  <2> QED BY <1>0, <2>1, <2>2, <2>3, <2>4, StepOf
<1>26. ASSUME NEW th \in Thread, CleanEach(th) PROVE Good(th)
  <2>1. OthersStill(th)
    BY <1>26 DEF OthersStill, CleanEach, Fail, Bump, CleanError
  <2>2. AsyncPart(th)
    BY <1>26 DEF AsyncPart, AsyncPath, FlushPC, CleanPC, CleanEach, Fail,
       Bump, CleanError
  <2>3. th \in Txn => OwnPart(th)
    BY <1>26 DEF OwnPart, Takes, Fresh, Refused, CleanEach, Fail, Bump,
       CleanError
  <2>4. ListPart(th)
    BY <1>26 DEF ListPart, Takes, Fresh, CleanEach, Fail, Bump, CleanError
  <2> QED BY <1>0, <2>1, <2>2, <2>3, <2>4, StepOf
<1>27. ASSUME NEW th \in Thread, CleanDone(th) PROVE Good(th)
  <2>1. OthersStill(th) /\ UNCHANGED <<txn_list, done, moved>>
    BY <1>27 DEF OthersStill, CleanDone, CleanExit, FlushExit, AfterSend
  <2>2. /\ AsyncPart(th)
        /\ pc'[th] \notin {"cl_each", "fl_error", "recv_good", "recv_bad",
                          "del_free"}
    BY <1>27 DEF AsyncPart, AsyncPath, FlushPC, CleanPC, CleanDone, CleanExit,
       FlushExit, AfterSend
  <2>3. th \in Txn => OwnPart(th)
    BY <1>27 DEF OwnPart, Fresh, Refused, AsyncPath, FlushPC, CleanPC,
       CleanDone, CleanExit, FlushExit, AfterSend
  <2> QED BY <1>0, <2>1, <2>2, <2>3, MoveOf
<1>28. ASSUME NEW m \in inbox, RecvFind(m) PROVE Good(Data)
  <2>1. OthersStill(Data)
    BY <1>28 DEF OthersStill, RecvFind, Reading
  <2>2. AsyncPart(Data)
    BY <1>28 DEF AsyncPart, AsyncPath, FlushPC, CleanPC, RecvFind, Reading
  <2>3. Data \in Txn => OwnPart(Data)
    BY <1>28 DEF OwnPart, Takes, Fresh, Refused, RecvFind, Reading
  <2>4. ListPart(Data)
    BY <1>28 DEF ListPart, Takes, Fresh, RecvFind, Reading
  <2> QED BY <1>0, <2>1, <2>2, <2>3, <2>4, StepOf
<1>29. ASSUME RecvDeliver PROVE Good(Data)
  <2>1. OthersStill(Data)
    BY <1>29 DEF OthersStill, RecvDeliver, Bump
  <2>2. AsyncPart(Data)
    BY <1>29 DEF AsyncPart, AsyncPath, FlushPC, CleanPC, RecvDeliver, Bump
  <2>3. Data \in Txn => OwnPart(Data)
    BY <1>29 DEF OwnPart, Takes, Fresh, Refused, RecvDeliver, Bump
  <2>4. ListPart(Data)
    BY <1>29 DEF ListPart, Takes, Fresh, RecvDeliver, Bump
  <2> QED BY <1>0, <2>1, <2>2, <2>3, <2>4, StepOf
<1>30. ASSUME RecvMismatch PROVE Good(Data)
  <2>1. OthersStill(Data)
    BY <1>30 DEF OthersStill, RecvMismatch, Fail, Bump
  <2>2. AsyncPart(Data)
    BY <1>30 DEF AsyncPart, AsyncPath, FlushPC, CleanPC, RecvMismatch, Fail,
       Bump
  <2>3. Data \in Txn => OwnPart(Data)
    BY <1>30 DEF OwnPart, Takes, Fresh, Refused, RecvMismatch, Fail, Bump
  <2>4. ListPart(Data)
    BY <1>30 DEF ListPart, Takes, Fresh, RecvMismatch, Fail, Bump
  <2> QED BY <1>0, <2>1, <2>2, <2>3, <2>4, StepOf
<1>31. ASSUME RecvResume PROVE Good(Data)
  <2>1. OthersStill(Data) /\ UNCHANGED <<txn_list, done, moved>>
    BY <1>31 DEF OthersStill, RecvResume, Reading
  <2>2. /\ AsyncPart(Data)
        /\ pc'[Data] \notin {"cl_each", "fl_error", "recv_good", "recv_bad",
                          "del_free"}
    BY <1>31 DEF AsyncPart, AsyncPath, FlushPC, CleanPC, RecvResume, Reading
  <2>3. Data \in Txn => OwnPart(Data)
    BY <1>31 DEF OwnPart, Fresh, Refused, RecvResume, Reading
  <2> QED BY <1>0, <2>1, <2>2, <2>3, MoveOf
<1>32. ASSUME RecvServerGone PROVE Good(Data)
  <2>1. OthersStill(Data) /\ UNCHANGED <<txn_list, done, moved>>
    BY <1>32 DEF OthersStill, RecvServerGone, Reading
  <2>2. /\ AsyncPart(Data)
        /\ pc'[Data] \notin {"cl_each", "fl_error", "recv_good", "recv_bad",
                          "del_free"}
    BY <1>32 DEF AsyncPart, AsyncPath, FlushPC, CleanPC, RecvServerGone,
       Reading
  <2>3. Data \in Txn => OwnPart(Data)
    BY <1>32 DEF OwnPart, Fresh, Refused, RecvServerGone, Reading
  <2> QED BY <1>0, <2>1, <2>2, <2>3, MoveOf
<1>33. ASSUME RecvClose PROVE Good(Data)
  <2>1. OthersStill(Data) /\ UNCHANGED <<txn_list, done, moved>>
    BY <1>33 DEF OthersStill, RecvClose, Reading
  <2>2. /\ AsyncPart(Data)
        /\ pc'[Data] \notin {"cl_each", "fl_error", "recv_good", "recv_bad",
                          "del_free"}
    BY <1>33 DEF AsyncPart, AsyncPath, FlushPC, CleanPC, RecvClose, Reading
  <2>3. Data \in Txn => OwnPart(Data)
    BY <1>33 DEF OwnPart, Fresh, Refused, RecvClose, Reading
  <2> QED BY <1>0, <2>1, <2>2, <2>3, MoveOf
<1>34. ASSUME ReleaseGate PROVE Good(Releaser)
  <2>1. OthersStill(Releaser) /\ UNCHANGED <<txn_list, done, moved>>
    BY <1>34 DEF OthersStill, ReleaseGate
  <2>2. /\ AsyncPart(Releaser)
        /\ pc'[Releaser] \notin {"cl_each", "fl_error", "recv_good", "recv_bad",
                          "del_free"}
    BY <1>34 DEF AsyncPart, AsyncPath, FlushPC, CleanPC, ReleaseGate
  <2>3. Releaser \in Txn => OwnPart(Releaser)
    BY <1>34 DEF OwnPart, Fresh, Refused, ReleaseGate
  <2> QED BY <1>0, <2>1, <2>2, <2>3, MoveOf
<1>35. ASSUME ReleaseClose PROVE Good(Releaser)
  <2>1. OthersStill(Releaser) /\ UNCHANGED <<txn_list, done, moved>>
    BY <1>35 DEF OthersStill, ReleaseClose
  <2>2. /\ AsyncPart(Releaser)
        /\ pc'[Releaser] \notin {"cl_each", "fl_error", "recv_good", "recv_bad",
                          "del_free"}
    BY <1>35 DEF AsyncPart, AsyncPath, FlushPC, CleanPC, ReleaseClose
  <2>3. Releaser \in Txn => OwnPart(Releaser)
    BY <1>35 DEF OwnPart, Fresh, Refused, ReleaseClose
  <2> QED BY <1>0, <2>1, <2>2, <2>3, MoveOf
<1>36. ASSUME NEW t \in Txn, Begin(t) PROVE Good(t)
  <2>1. OthersStill(t) /\ UNCHANGED <<txn_list, done, moved>>
    BY <1>36 DEF OthersStill, Begin
  <2>2. /\ AsyncPart(t)
        /\ pc'[t] \notin {"cl_each", "fl_error", "recv_good", "recv_bad",
                          "del_free"}
    BY <1>36 DEF AsyncPart, AsyncPath, FlushPC, CleanPC, Begin
  <2>3. OwnPart(t)
    <3>1. t \notin txn_list
      BY <1>36 DEF Owned, Open, Fresh, Takes, OnceInv, Begin
    <3> QED BY <1>36, <3>1 DEF Takes, OwnPart, Fresh, Refused, Begin
  <2> QED BY <1>0, <2>1, <2>2, <2>3, MoveOf
<1>37. ASSUME NEW t \in Txn, TimeOut(t) PROVE Good(t)
  <2>1. OthersStill(t) /\ UNCHANGED <<txn_list, done, moved>>
    BY <1>37 DEF OthersStill, TimeOut, WaitReturns
  <2>2. /\ AsyncPart(t)
        /\ pc'[t] \notin {"cl_each", "fl_error", "recv_good", "recv_bad",
                          "del_free"}
    BY <1>37 DEF AsyncPart, AsyncPath, FlushPC, CleanPC, TimeOut, WaitReturns
  <2>3. OwnPart(t)
    BY <1>37 DEF OwnPart, Fresh, Refused, AsyncPath, FlushPC, CleanPC,
       TimeOut, WaitReturns
  <2> QED BY <1>0, <2>1, <2>2, <2>3, MoveOf
<1>38. ASSUME NEW t \in Txn, DeleteAsync(t) PROVE Good(t)
  <2>1. OthersStill(t) /\ UNCHANGED <<txn_list, done, moved>>
    BY <1>38 DEF OthersStill, DeleteAsync
  <2>2. /\ AsyncPart(t)
        /\ pc'[t] \notin {"cl_each", "fl_error", "recv_good", "recv_bad",
                          "del_free"}
    BY <1>38 DEF AsyncPart, AsyncPath, FlushPC, CleanPC, DeleteAsync
  <2>3. OwnPart(t)
    BY <1>38 DEF OwnPart, Fresh, Refused, DeleteAsync
  <2> QED BY <1>0, <2>1, <2>2, <2>3, MoveOf
<1>39. ASSUME RegisterErrorCb PROVE Good(Data)
  <2>1. UNCHANGED <<txn_list, pc, cur, moved, done, verdict, result>>
    BY <1>39 DEF RegisterErrorCb
  <2> QED BY <2>1, QuietStep
<1>40. ASSUME ReleaseStart PROVE Good(Releaser)
  <2>1. OthersStill(Releaser) /\ UNCHANGED <<txn_list, done, moved>>
    BY <1>40 DEF OthersStill, ReleaseStart
  <2>2. /\ AsyncPart(Releaser)
        /\ pc'[Releaser] \notin {"cl_each", "fl_error", "recv_good", "recv_bad",
                          "del_free"}
    BY <1>40 DEF AsyncPart, AsyncPath, FlushPC, CleanPC, ReleaseStart
  <2>3. Releaser \in Txn => OwnPart(Releaser)
    BY <1>40 DEF OwnPart, Fresh, Refused, ReleaseStart
  <2> QED BY <1>0, <2>1, <2>2, <2>3, MoveOf
<1>41. ASSUME NEW t \in Txn, Respond(t) PROVE Good(Data)
  <2>1. UNCHANGED <<txn_list, pc, cur, moved, done, verdict, result>>
    BY <1>41 DEF Respond
  <2> QED BY <2>1, QuietStep
<1>42. ASSUME NEW t \in Txn, UseAfterFree(t) PROVE Good(Data)
  <2>1. UNCHANGED <<txn_list, pc, cur, moved, done, verdict, result>>
    BY <1>42 DEF UseAfterFree
  <2> QED BY <2>1, QuietStep
<1>43. ASSUME ServerDies PROVE Good(Data)
  <2>1. UNCHANGED <<txn_list, pc, cur, moved, done, verdict, result>>
    BY <1>43 DEF ServerDies
  <2> QED BY <2>1, QuietStep
<1>44. ASSUME Block PROVE Good(Data)
  <2>1. UNCHANGED <<txn_list, pc, cur, moved, done, verdict, result>>
    BY <1>44 DEF Block
  <2> QED BY <2>1, QuietStep
<1>45. ASSUME Unblock PROVE Good(Data)
  <2>1. UNCHANGED <<txn_list, pc, cur, moved, done, verdict, result>>
    BY <1>45 DEF Unblock
  <2> QED BY <2>1, QuietStep
<1>46. ASSUME UNCHANGED vars PROVE Good(Data)
  <2>1. UNCHANGED <<txn_list, pc, cur, moved, done, verdict, result>>
    BY <1>46 DEF vars
  <2> QED BY <2>1, QuietStep
<1> HIDE <1>0 DEF Good
<1>47. \E a \in Thread : Good(a)
  BY <1>0, <1>1, <1>2, <1>3, <1>4, <1>5, <1>6, <1>7, <1>8, <1>9, <1>10, <1>11,
     <1>12, <1>13, <1>14, <1>15, <1>16, <1>17, <1>18, <1>19, <1>20, <1>21,
     <1>22, <1>23, <1>24, <1>25, <1>26, <1>27, <1>28, <1>29, <1>30, <1>31,
     <1>32, <1>33, <1>34, <1>35, <1>36, <1>37, <1>38, <1>39, <1>40, <1>41,
     <1>42, <1>43, <1>44, <1>45, <1>46
  DEF Next, CallerStep, FlushStep, CleanStep, DataStep, ReleaseStep,
      UserStep, EnvStep, Rest
<1> QED BY <1>00, <1>47, HandoverKeeps DEF OnceInv, Good

\* CompletedOnce: a transaction is completed at most once; never after its
\* deletion succeeded, and never after its asynchronous send failed.
THEOREM CompletionOnce == Spec => []CompletedOnce
<1>1. Init => TypeOK /\ OnceInv
  BY TypeInit, OwnedInit
<1>2. TypeOK /\ OnceInv /\ [Next]_vars => (TypeOK /\ OnceInv)'
  BY TypeStep, OwnedStep
<1>3. OnceInv => CompletedOnce
  BY DEF OnceInv
<1> QED BY <1>1, <1>2, <1>3, PTL DEF Spec

------------------------------------------------------------------------------
(* Somebody looks after tx_q: the inductive invariant.                     *)

\* Where a thread is bound to look at tx_q again, or to empty it.  After
\* "cl_tx" a thread that cleans up is of no use to a request queued later.
TendPC == FlushPC \cup {"rel_gate", "server_error", "cl_tx"}

\* A request waits only while the transport owes a resume event, or that
\* event waits, or a thread will look at the queue.
TendInv ==
  tx_q # <<>> => waiter \/ resume_evt \/ \E th \in Thread : pc[th] \in TendPC

\* The queue is empty at first.
LEMMA TendInit == Init => TendInv
BY DEF Init, TendInv

\* A step of thread a that puts nothing in an empty queue and uses up no
\* event may leave the control points at which a thread tends the queue for
\* others of that kind only.
LEMMA TendMove ==
  ASSUME NEW a \in Thread, TendInv,
         pc \in [Thread -> CallerPC \cup FlushPC \cup CleanPC \cup DataPC
                          \cup RelPC],
         NEW where, pc' = [pc EXCEPT ![a] = where],
         tx_q' # <<>> => tx_q # <<>>,
         waiter \/ resume_evt => waiter' \/ resume_evt',
         pc[a] \in TendPC => where \in TendPC
  PROVE  TendInv'
<1> SUFFICES ASSUME tx_q' # <<>>, ~(waiter' \/ resume_evt')
             PROVE  \E th \in Thread : pc'[th] \in TendPC
  BY DEF TendInv, TendPC, FlushPC
<1>1. PICK th \in Thread : pc[th] \in TendPC
  BY DEF TendInv
<1>2. pc'[th] \in TendPC
  BY <1>1
<1> QED BY <1>2

\* A step that leaves the control points alone does as long as it puts
\* nothing in an empty queue and uses up no event.
LEMMA TendStill ==
  ASSUME TendInv, pc' = pc, tx_q' # <<>> => tx_q # <<>>,
         waiter \/ resume_evt => waiter' \/ resume_evt'
  PROVE  TendInv'
BY DEF TendInv

\* Taking a transaction out of an empty queue leaves it empty.
LEMMA UnlinkEmpty == ASSUME NEW t PROVE Unlink(<<>>, t) = <<>>
BY DEF Unlink, Elems

------------------------------------------------------------------------------
(* Every step keeps the queue tended.                                      *)

\* Who finds the queue empty flushes it; a flush ends with an empty queue or
\* with an event owed; an event is answered by a flush; a server error or a
\* release empties the queue.
LEMMA TendStep == TypeOK /\ TendInv /\ [Next]_vars => TendInv'
<1> SUFFICES ASSUME TypeOK, TendInv, [Next]_vars PROVE TendInv'
  OBVIOUS
<1>0. /\ pc \in [Thread -> CallerPC \cup FlushPC \cup CleanPC \cup DataPC
                           \cup RelPC]
      /\ tx_q \in Seq(Txn) /\ waiter \in BOOLEAN /\ resume_evt \in BOOLEAN
      /\ Txn \subseteq Thread /\ Data \in Thread /\ Releaser \in Thread
      /\ Data \notin Txn /\ Releaser \notin Txn
  BY TxnAssumption DEF TypeOK, TxnType, ThreadType, WorldType, Thread, Txn
<1> USE DEF At, Goto, client, lists, memory, answer, locals, server, flow,
            returns, hist, txns, world, seen
<1>1. ASSUME NEW t \in Txn, GetTxn(t) PROVE TendInv'
  <2>1. /\ \E where : pc' = [pc EXCEPT ![t] = where]
        /\ waiter \/ resume_evt => waiter' \/ resume_evt'
    BY <1>1, ZenonT(40) DEF GetTxn
  <2>2. tx_q' # <<>> => tx_q # <<>>
    BY <1>1 DEF GetTxn
  <2>3. pc[t] \in TendPC => pc'[t] \in TendPC
    BY <1>0, <1>1
    DEF GetTxn, TendPC, FlushPC
  <2> QED BY <1>0, <2>1, <2>2, <2>3, TendMove
<1>2. ASSUME NEW t \in Txn, TakeOwnRef(t) PROVE TendInv'
  <2>1. /\ \E where : pc' = [pc EXCEPT ![t] = where]
        /\ waiter \/ resume_evt => waiter' \/ resume_evt'
    BY <1>2, ZenonT(40) DEF TakeOwnRef
  <2>2. tx_q' # <<>> => tx_q # <<>>
    BY <1>2 DEF TakeOwnRef
  <2>3. pc[t] \in TendPC => pc'[t] \in TendPC
    BY <1>0, <1>2
    DEF TakeOwnRef, TendPC, FlushPC
  <2> QED BY <1>0, <2>1, <2>2, <2>3, TendMove
<1>3. ASSUME NEW t \in Txn, PrepareWait(t) PROVE TendInv'
  <2>1. /\ \E where : pc' = [pc EXCEPT ![t] = where]
        /\ waiter \/ resume_evt => waiter' \/ resume_evt'
    BY <1>3, ZenonT(40) DEF PrepareWait
  <2>2. tx_q' # <<>> => tx_q # <<>>
    BY <1>3 DEF PrepareWait
  <2>3. pc[t] \in TendPC => pc'[t] \in TendPC
    BY <1>0, <1>3
    DEF PrepareWait, TendPC, FlushPC
  <2> QED BY <1>0, <2>1, <2>2, <2>3, TendMove
<1>4. ASSUME NEW t \in Txn, CheckServer(t) PROVE TendInv'
  <2>1. /\ \E where : pc' = [pc EXCEPT ![t] = where]
        /\ waiter \/ resume_evt => waiter' \/ resume_evt'
    BY <1>4, ZenonT(40) DEF CheckServer, SendFailed
  <2>2. tx_q' # <<>> => tx_q # <<>>
    BY <1>4 DEF CheckServer
  <2>3. pc[t] \in TendPC => pc'[t] \in TendPC
    BY <1>0, <1>4
    DEF CheckServer, SendFailed, TendPC, FlushPC
  <2> QED BY <1>0, <2>1, <2>2, <2>3, TendMove
<1>5. ASSUME NEW t \in Txn, TakeQueueRef(t) PROVE TendInv'
  <2>1. /\ \E where : pc' = [pc EXCEPT ![t] = where]
        /\ waiter \/ resume_evt => waiter' \/ resume_evt'
    BY <1>5, ZenonT(40) DEF TakeQueueRef
  <2>2. tx_q' # <<>> => tx_q # <<>>
    BY <1>5 DEF TakeQueueRef
  <2>3. pc[t] \in TendPC => pc'[t] \in TendPC
    BY <1>0, <1>5
    DEF TakeQueueRef, TendPC, FlushPC
  <2> QED BY <1>0, <2>1, <2>2, <2>3, TendMove
<1>6. ASSUME NEW t \in Txn, Enqueue(t) PROVE TendInv'
  <2>1. CASE tx_q = <<>> /\ accepting_txns
    <3>1. pc'[t] = "fl_addr"
      BY <1>0, <1>6, <2>1 DEF Enqueue
    <3> QED BY <1>0, <3>1 DEF TendInv, TendPC, FlushPC
  <2>2. CASE tx_q # <<>> \/ ~accepting_txns
    <3>1. pc[t] \notin TendPC
      BY <1>6 DEF Enqueue, TendPC, FlushPC
    <3>2. \E where : pc' = [pc EXCEPT ![t] = where]
      BY <1>6, ZenonT(40) DEF Enqueue
    <3>3. /\ tx_q' # <<>> => tx_q # <<>>
          /\ waiter \/ resume_evt => waiter' \/ resume_evt'
      BY <1>6, <2>2 DEF Enqueue
    <3> QED BY <1>0, <3>1, <3>2, <3>3, TendMove
  <2> QED BY <2>1, <2>2
<1>7. ASSUME NEW t \in Txn, UndoQueueRef(t) PROVE TendInv'
  <2>1. /\ \E where : pc' = [pc EXCEPT ![t] = where]
        /\ waiter \/ resume_evt => waiter' \/ resume_evt'
    BY <1>7, ZenonT(40) DEF UndoQueueRef, SendFailed
  <2>2. tx_q' # <<>> => tx_q # <<>>
    BY <1>7 DEF UndoQueueRef
  <2>3. pc[t] \in TendPC => pc'[t] \in TendPC
    BY <1>0, <1>7
    DEF UndoQueueRef, SendFailed, TendPC, FlushPC
  <2> QED BY <1>0, <2>1, <2>2, <2>3, TendMove
<1>8. ASSUME NEW t \in Txn, AbandonAsync(t) PROVE TendInv'
  <2>1. /\ \E where : pc' = [pc EXCEPT ![t] = where]
        /\ waiter \/ resume_evt => waiter' \/ resume_evt'
    BY <1>8, ZenonT(40) DEF AbandonAsync
  <2>2. tx_q' # <<>> => tx_q # <<>>
    BY <1>8 DEF AbandonAsync
  <2>3. pc[t] \in TendPC => pc'[t] \in TendPC
    BY <1>0, <1>8
    DEF AbandonAsync, TendPC, FlushPC
  <2> QED BY <1>0, <2>1, <2>2, <2>3, TendMove
<1>9. ASSUME NEW t \in Txn, WakeUp(t) PROVE TendInv'
  <2>1. /\ pc' = pc \/ \E where : pc' = [pc EXCEPT ![t] = where]
        /\ waiter \/ resume_evt => waiter' \/ resume_evt'
    BY <1>9, ZenonT(40) DEF WakeUp, WaitReturns
  <2>2. tx_q' # <<>> => tx_q # <<>>
    BY <1>9 DEF WakeUp
  <2>3. pc[t] \in TendPC => pc'[t] \in TendPC
    BY <1>0, <1>9
    DEF WakeUp, WaitReturns, TendPC, FlushPC
  <2>4. CASE pc' = pc
    BY <2>1, <2>2, <2>4, TendStill
  <2>5. CASE \E where : pc' = [pc EXCEPT ![t] = where]
    BY <1>0, <2>1, <2>2, <2>3, <2>5, TendMove
  <2> QED BY <2>1, <2>4, <2>5
<1>10. ASSUME NEW t \in Txn, Invalidate(t) PROVE TendInv'
  <2>1. /\ \E where : pc' = [pc EXCEPT ![t] = where]
        /\ waiter \/ resume_evt => waiter' \/ resume_evt'
    BY <1>10, ZenonT(40) DEF Invalidate
  <2>2. tx_q' # <<>> => tx_q # <<>>
    BY <1>10 DEF Invalidate
  <2>3. pc[t] \in TendPC => pc'[t] \in TendPC
    BY <1>0, <1>10
    DEF Invalidate, TendPC, FlushPC
  <2> QED BY <1>0, <2>1, <2>2, <2>3, TendMove
<1>11. ASSUME NEW t \in Txn, RemoveSync(t) PROVE TendInv'
  <2>1. /\ \E where : pc' = [pc EXCEPT ![t] = where]
        /\ waiter \/ resume_evt => waiter' \/ resume_evt'
    BY <1>11, ZenonT(40) DEF RemoveSync
  <2>2. tx_q' # <<>> => tx_q # <<>>
    BY <1>11 DEF RemoveSync
  <2>3. pc[t] \in TendPC => pc'[t] \in TendPC
    BY <1>0, <1>11
    DEF RemoveSync, TendPC, FlushPC
  <2> QED BY <1>0, <2>1, <2>2, <2>3, TendMove
<1>12. ASSUME NEW t \in Txn, DropOwnRef(t) PROVE TendInv'
  <2>1. /\ \E where : pc' = [pc EXCEPT ![t] = where]
        /\ waiter \/ resume_evt => waiter' \/ resume_evt'
    BY <1>12, ZenonT(40) DEF DropOwnRef
  <2>2. tx_q' # <<>> => tx_q # <<>>
    BY <1>12 DEF DropOwnRef
  <2>3. pc[t] \in TendPC => pc'[t] \in TendPC
    BY <1>0, <1>12
    DEF DropOwnRef, TendPC, FlushPC
  <2> QED BY <1>0, <2>1, <2>2, <2>3, TendMove
<1>13. ASSUME NEW t \in Txn, DeleteFromTxQ(t) PROVE TendInv'
  <2>1. /\ \E where : pc' = [pc EXCEPT ![t] = where]
        /\ waiter \/ resume_evt => waiter' \/ resume_evt'
    BY <1>13, ZenonT(40) DEF DeleteFromTxQ
  <2>2. tx_q' # <<>> => tx_q # <<>>
    BY <1>13, UnlinkEmpty DEF DeleteFromTxQ
  <2>3. pc[t] \in TendPC => pc'[t] \in TendPC
    BY <1>0, <1>13
    DEF DeleteFromTxQ, TendPC, FlushPC
  <2> QED BY <1>0, <2>1, <2>2, <2>3, TendMove
<1>14. ASSUME NEW t \in Txn, DeleteFromList(t) PROVE TendInv'
  <2>1. /\ \E where : pc' = [pc EXCEPT ![t] = where]
        /\ waiter \/ resume_evt => waiter' \/ resume_evt'
    BY <1>14, ZenonT(40) DEF DeleteFromList
  <2>2. tx_q' # <<>> => tx_q # <<>>
    BY <1>14 DEF DeleteFromList
  <2>3. pc[t] \in TendPC => pc'[t] \in TendPC
    BY <1>0, <1>14
    DEF DeleteFromList, TendPC, FlushPC
  <2> QED BY <1>0, <2>1, <2>2, <2>3, TendMove
<1>15. ASSUME NEW t \in Txn, DeleteFree(t) PROVE TendInv'
  <2>1. /\ \E where : pc' = [pc EXCEPT ![t] = where]
        /\ waiter \/ resume_evt => waiter' \/ resume_evt'
    BY <1>15, ZenonT(40) DEF DeleteFree
  <2>2. tx_q' # <<>> => tx_q # <<>>
    BY <1>15 DEF DeleteFree
  <2>3. pc[t] \in TendPC => pc'[t] \in TendPC
    BY <1>0, <1>15
    DEF DeleteFree, TendPC, FlushPC
  <2> QED BY <1>0, <2>1, <2>2, <2>3, TendMove
<1>16. ASSUME NEW th \in Thread, FlushStart(th) PROVE TendInv'
  <2>1. /\ \E where : pc' = [pc EXCEPT ![th] = where]
        /\ waiter \/ resume_evt => waiter' \/ resume_evt'
    BY <1>16, ZenonT(40) DEF FlushStart
  <2>2. tx_q' # <<>> => tx_q # <<>>
    BY <1>16 DEF FlushStart
  <2>3. pc[th] \in TendPC => pc'[th] \in TendPC
    BY <1>0, <1>16
    DEF FlushStart, TendPC, FlushPC
  <2> QED BY <1>0, <2>1, <2>2, <2>3, TendMove
<1>17. ASSUME NEW th \in Thread, FlushDone(th) PROVE TendInv'
  BY <1>17 DEF FlushDone, TendInv
<1>18. ASSUME NEW th \in Thread, FlushBusy(th) PROVE TendInv'
  BY <1>18 DEF FlushBusy, TendInv
<1>19. ASSUME NEW th \in Thread, FlushSend(th) PROVE TendInv'
  <2>1. /\ \E where : pc' = [pc EXCEPT ![th] = where]
        /\ waiter \/ resume_evt => waiter' \/ resume_evt'
    BY <1>19, ZenonT(40) DEF FlushSend
  <2>2. tx_q' # <<>> => tx_q # <<>>
    BY <1>19 DEF FlushSend
  <2>3. pc[th] \in TendPC => pc'[th] \in TendPC
    BY <1>0, <1>19
    DEF FlushSend, TendPC, FlushPC
  <2> QED BY <1>0, <2>1, <2>2, <2>3, TendMove
<1>20. ASSUME NEW th \in Thread, FlushFind(th) PROVE TendInv'
  <2>1. /\ \E where : pc' = [pc EXCEPT ![th] = where]
        /\ waiter \/ resume_evt => waiter' \/ resume_evt'
    BY <1>20, ZenonT(40) DEF FlushFind, AfterSendError
  <2>2. tx_q' # <<>> => tx_q # <<>>
    BY <1>20 DEF FlushFind
  <2>3. pc[th] \in TendPC => pc'[th] \in TendPC
    BY <1>0, <1>20
    DEF FlushFind, AfterSendError, TendPC, FlushPC
  <2> QED BY <1>0, <2>1, <2>2, <2>3, TendMove
<1>21. ASSUME NEW th \in Thread, FlushError(th) PROVE TendInv'
  <2>1. /\ \E where : pc' = [pc EXCEPT ![th] = where]
        /\ waiter \/ resume_evt => waiter' \/ resume_evt'
    BY <1>21, ZenonT(40) DEF FlushError, AfterSendError
  <2>2. tx_q' # <<>> => tx_q # <<>>
    BY <1>21 DEF FlushError
  <2>3. pc[th] \in TendPC => pc'[th] \in TendPC
    BY <1>0, <1>21
    DEF FlushError, AfterSendError, TendPC, FlushPC
  <2> QED BY <1>0, <2>1, <2>2, <2>3, TendMove
<1>22. ASSUME NEW th \in Thread, FlushDrop(th) PROVE TendInv'
  <2>1. /\ \E where : pc' = [pc EXCEPT ![th] = where]
        /\ waiter \/ resume_evt => waiter' \/ resume_evt'
    BY <1>22, ZenonT(40) DEF FlushDrop
  <2>2. tx_q' # <<>> => tx_q # <<>>
    BY <1>22 DEF FlushDrop
  <2>3. pc[th] \in TendPC => pc'[th] \in TendPC
    BY <1>0, <1>22
    DEF FlushDrop, TendPC, FlushPC
  <2> QED BY <1>0, <2>1, <2>2, <2>3, TendMove
<1>23. ASSUME NEW th \in Thread, ServerError(th) PROVE TendInv'
  <2>1. /\ \E where : pc' = [pc EXCEPT ![th] = where]
        /\ waiter \/ resume_evt => waiter' \/ resume_evt'
    BY <1>23, ZenonT(40) DEF ServerError
  <2>2. tx_q' # <<>> => tx_q # <<>>
    BY <1>23 DEF ServerError
  <2>3. pc[th] \in TendPC => pc'[th] \in TendPC
    BY <1>0, <1>23
    DEF ServerError, TendPC, FlushPC
  <2> QED BY <1>0, <2>1, <2>2, <2>3, TendMove
<1>24. ASSUME NEW th \in Thread, CleanTxQ(th) PROVE TendInv'
  BY <1>24 DEF CleanTxQ, TendInv
<1>25. ASSUME NEW th \in Thread, CleanList(th) PROVE TendInv'
  <2>1. /\ \E where : pc' = [pc EXCEPT ![th] = where]
        /\ waiter \/ resume_evt => waiter' \/ resume_evt'
    BY <1>25, ZenonT(40) DEF CleanList
  <2>2. tx_q' # <<>> => tx_q # <<>>
    BY <1>25 DEF CleanList
  <2>3. pc[th] \in TendPC => pc'[th] \in TendPC
    BY <1>0, <1>25
    DEF CleanList, TendPC, FlushPC
  <2> QED BY <1>0, <2>1, <2>2, <2>3, TendMove
<1>26. ASSUME NEW th \in Thread, CleanEach(th) PROVE TendInv'
  <2>1. /\ pc' = pc /\ (tx_q' # <<>> => tx_q # <<>>)
        /\ waiter \/ resume_evt => waiter' \/ resume_evt'
    BY <1>26 DEF CleanEach
  <2> QED BY <2>1, TendStill
<1>27. ASSUME NEW th \in Thread, CleanDone(th) PROVE TendInv'
  <2>1. /\ \E where : pc' = [pc EXCEPT ![th] = where]
        /\ waiter \/ resume_evt => waiter' \/ resume_evt'
    BY <1>27, ZenonT(40) DEF CleanDone, CleanExit, FlushExit, AfterSend
  <2>2. tx_q' # <<>> => tx_q # <<>>
    BY <1>27 DEF CleanDone
  <2>3. pc[th] \in TendPC => pc'[th] \in TendPC
    BY <1>0, <1>27
    DEF CleanDone, CleanExit, FlushExit, AfterSend, TendPC, FlushPC
  <2> QED BY <1>0, <2>1, <2>2, <2>3, TendMove
<1>28. ASSUME NEW m \in inbox, RecvFind(m) PROVE TendInv'
  <2>1. /\ pc' = pc \/ \E where : pc' = [pc EXCEPT ![Data] = where]
        /\ waiter \/ resume_evt => waiter' \/ resume_evt'
    BY <1>28, ZenonT(40) DEF RecvFind, Reading
  <2>2. tx_q' # <<>> => tx_q # <<>>
    BY <1>28 DEF RecvFind
  <2>3. pc[Data] \in TendPC => pc'[Data] \in TendPC
    BY <1>0, <1>28
    DEF RecvFind, Reading, TendPC, FlushPC
  <2>4. CASE pc' = pc
    BY <2>1, <2>2, <2>4, TendStill
  <2>5. CASE \E where : pc' = [pc EXCEPT ![Data] = where]
    BY <1>0, <2>1, <2>2, <2>3, <2>5, TendMove
  <2> QED BY <2>1, <2>4, <2>5
<1>29. ASSUME RecvDeliver PROVE TendInv'
  <2>1. /\ \E where : pc' = [pc EXCEPT ![Data] = where]
        /\ waiter \/ resume_evt => waiter' \/ resume_evt'
    BY <1>29, ZenonT(40) DEF RecvDeliver
  <2>2. tx_q' # <<>> => tx_q # <<>>
    BY <1>29 DEF RecvDeliver
  <2>3. pc[Data] \in TendPC => pc'[Data] \in TendPC
    BY <1>0, <1>29
    DEF RecvDeliver, TendPC, FlushPC
  <2> QED BY <1>0, <2>1, <2>2, <2>3, TendMove
<1>30. ASSUME RecvMismatch PROVE TendInv'
  <2>1. /\ \E where : pc' = [pc EXCEPT ![Data] = where]
        /\ waiter \/ resume_evt => waiter' \/ resume_evt'
    BY <1>30, ZenonT(40) DEF RecvMismatch
  <2>2. tx_q' # <<>> => tx_q # <<>>
    BY <1>30 DEF RecvMismatch
  <2>3. pc[Data] \in TendPC => pc'[Data] \in TendPC
    BY <1>0, <1>30
    DEF RecvMismatch, TendPC, FlushPC
  <2> QED BY <1>0, <2>1, <2>2, <2>3, TendMove
<1>31. ASSUME RecvResume PROVE TendInv'
  <2>1. pc'[Data] = "fl_addr"
    BY <1>0, <1>31 DEF RecvResume
  <2> QED BY <1>0, <2>1 DEF TendInv, TendPC, FlushPC
<1>32. ASSUME RecvServerGone PROVE TendInv'
  <2>1. /\ \E where : pc' = [pc EXCEPT ![Data] = where]
        /\ waiter \/ resume_evt => waiter' \/ resume_evt'
    BY <1>32, ZenonT(40) DEF RecvServerGone, Reading
  <2>2. tx_q' # <<>> => tx_q # <<>>
    BY <1>32 DEF RecvServerGone
  <2>3. pc[Data] \in TendPC => pc'[Data] \in TendPC
    BY <1>0, <1>32
    DEF RecvServerGone, Reading, TendPC, FlushPC
  <2> QED BY <1>0, <2>1, <2>2, <2>3, TendMove
<1>33. ASSUME RecvClose PROVE TendInv'
  <2>1. /\ \E where : pc' = [pc EXCEPT ![Data] = where]
        /\ waiter \/ resume_evt => waiter' \/ resume_evt'
    BY <1>33, ZenonT(40) DEF RecvClose, Reading
  <2>2. tx_q' # <<>> => tx_q # <<>>
    BY <1>33 DEF RecvClose
  <2>3. pc[Data] \in TendPC => pc'[Data] \in TendPC
    BY <1>0, <1>33
    DEF RecvClose, Reading, TendPC, FlushPC
  <2> QED BY <1>0, <2>1, <2>2, <2>3, TendMove
<1>34. ASSUME ReleaseGate PROVE TendInv'
  <2>1. /\ \E where : pc' = [pc EXCEPT ![Releaser] = where]
        /\ waiter \/ resume_evt => waiter' \/ resume_evt'
    BY <1>34, ZenonT(40) DEF ReleaseGate
  <2>2. tx_q' # <<>> => tx_q # <<>>
    BY <1>34 DEF ReleaseGate
  <2>3. pc[Releaser] \in TendPC => pc'[Releaser] \in TendPC
    BY <1>0, <1>34
    DEF ReleaseGate, TendPC, FlushPC
  <2> QED BY <1>0, <2>1, <2>2, <2>3, TendMove
<1>35. ASSUME ReleaseClose PROVE TendInv'
  <2>1. /\ \E where : pc' = [pc EXCEPT ![Releaser] = where]
        /\ waiter \/ resume_evt => waiter' \/ resume_evt'
    BY <1>35, ZenonT(40) DEF ReleaseClose
  <2>2. tx_q' # <<>> => tx_q # <<>>
    BY <1>35 DEF ReleaseClose
  <2>3. pc[Releaser] \in TendPC => pc'[Releaser] \in TendPC
    BY <1>0, <1>35
    DEF ReleaseClose, TendPC, FlushPC
  <2> QED BY <1>0, <2>1, <2>2, <2>3, TendMove
<1>36. ASSUME NEW t \in Txn, Begin(t) PROVE TendInv'
  <2>1. /\ \E where : pc' = [pc EXCEPT ![t] = where]
        /\ waiter \/ resume_evt => waiter' \/ resume_evt'
    BY <1>36, ZenonT(40) DEF Begin
  <2>2. tx_q' # <<>> => tx_q # <<>>
    BY <1>36 DEF Begin
  <2>3. pc[t] \in TendPC => pc'[t] \in TendPC
    BY <1>0, <1>36
    DEF Begin, TendPC, FlushPC
  <2> QED BY <1>0, <2>1, <2>2, <2>3, TendMove
<1>37. ASSUME NEW t \in Txn, TimeOut(t) PROVE TendInv'
  <2>1. /\ \E where : pc' = [pc EXCEPT ![t] = where]
        /\ waiter \/ resume_evt => waiter' \/ resume_evt'
    BY <1>37, ZenonT(40) DEF TimeOut, WaitReturns
  <2>2. tx_q' # <<>> => tx_q # <<>>
    BY <1>37 DEF TimeOut
  <2>3. pc[t] \in TendPC => pc'[t] \in TendPC
    BY <1>0, <1>37
    DEF TimeOut, WaitReturns, TendPC, FlushPC
  <2> QED BY <1>0, <2>1, <2>2, <2>3, TendMove
<1>38. ASSUME NEW t \in Txn, DeleteAsync(t) PROVE TendInv'
  <2>1. /\ \E where : pc' = [pc EXCEPT ![t] = where]
        /\ waiter \/ resume_evt => waiter' \/ resume_evt'
    BY <1>38, ZenonT(40) DEF DeleteAsync
  <2>2. tx_q' # <<>> => tx_q # <<>>
    BY <1>38 DEF DeleteAsync
  <2>3. pc[t] \in TendPC => pc'[t] \in TendPC
    BY <1>0, <1>38
    DEF DeleteAsync, TendPC, FlushPC
  <2> QED BY <1>0, <2>1, <2>2, <2>3, TendMove
<1>39. ASSUME RegisterErrorCb PROVE TendInv'
  <2>1. /\ pc' = pc /\ (tx_q' # <<>> => tx_q # <<>>)
        /\ waiter \/ resume_evt => waiter' \/ resume_evt'
    BY <1>39 DEF RegisterErrorCb
  <2> QED BY <2>1, TendStill
<1>40. ASSUME ReleaseStart PROVE TendInv'
  <2>1. /\ \E where : pc' = [pc EXCEPT ![Releaser] = where]
        /\ waiter \/ resume_evt => waiter' \/ resume_evt'
    BY <1>40, ZenonT(40) DEF ReleaseStart
  <2>2. tx_q' # <<>> => tx_q # <<>>
    BY <1>40 DEF ReleaseStart
  <2>3. pc[Releaser] \in TendPC => pc'[Releaser] \in TendPC
    BY <1>0, <1>40
    DEF ReleaseStart, TendPC, FlushPC
  <2> QED BY <1>0, <2>1, <2>2, <2>3, TendMove
<1>41. ASSUME NEW t \in Txn, Respond(t) PROVE TendInv'
  <2>1. /\ pc' = pc /\ (tx_q' # <<>> => tx_q # <<>>)
        /\ waiter \/ resume_evt => waiter' \/ resume_evt'
    BY <1>41 DEF Respond
  <2> QED BY <2>1, TendStill
<1>42. ASSUME NEW t \in Txn, UseAfterFree(t) PROVE TendInv'
  <2>1. /\ pc' = pc /\ (tx_q' # <<>> => tx_q # <<>>)
        /\ waiter \/ resume_evt => waiter' \/ resume_evt'
    BY <1>42 DEF UseAfterFree
  <2> QED BY <2>1, TendStill
<1>43. ASSUME ServerDies PROVE TendInv'
  <2>1. /\ pc' = pc /\ (tx_q' # <<>> => tx_q # <<>>)
        /\ waiter \/ resume_evt => waiter' \/ resume_evt'
    BY <1>43 DEF ServerDies
  <2> QED BY <2>1, TendStill
<1>44. ASSUME Block PROVE TendInv'
  <2>1. /\ pc' = pc /\ (tx_q' # <<>> => tx_q # <<>>)
        /\ waiter \/ resume_evt => waiter' \/ resume_evt'
    BY <1>44 DEF Block
  <2> QED BY <2>1, TendStill
<1>45. ASSUME Unblock PROVE TendInv'
  <2>1. /\ pc' = pc /\ (tx_q' # <<>> => tx_q # <<>>)
        /\ waiter \/ resume_evt => waiter' \/ resume_evt'
    BY <1>45 DEF Unblock
  <2> QED BY <2>1, TendStill
<1>46. CASE UNCHANGED vars
  BY <1>46, TendStill DEF vars
<1> QED
  BY <1>1, <1>2, <1>3, <1>4, <1>5, <1>6, <1>7, <1>8, <1>9, <1>10, <1>11,
     <1>12, <1>13, <1>14, <1>15, <1>16, <1>17, <1>18, <1>19, <1>20, <1>21,
     <1>22, <1>23, <1>24, <1>25, <1>26, <1>27, <1>28, <1>29, <1>30, <1>31,
     <1>32, <1>33, <1>34, <1>35, <1>36, <1>37, <1>38, <1>39, <1>40, <1>41,
     <1>42, <1>43, <1>44, <1>45, <1>46
  DEF Next, CallerStep, FlushStep, CleanStep, DataStep, ReleaseStep,
      UserStep, EnvStep, Rest

\* QueueIsTended: no wake-up of the transmit queue is lost, however many
\* callers, time-outs, deletions, errors and releases meet.
THEOREM QueueTended == Spec => []QueueIsTended
<1>1. Init => TypeOK /\ TendInv
  BY TypeInit, TendInit
<1>2. TypeOK /\ TendInv /\ [Next]_vars => (TypeOK /\ TendInv)'
  BY TypeStep, TendStep
<1>3. TendInv => QueueIsTended
  BY DEF TendInv, TendPC, QueueIsTended, Tending, CleanPC
<1> QED BY <1>1, <1>2, <1>3, PTL DEF Spec

------------------------------------------------------------------------------
(* Requests leave in order: queues as sequences.                           *)

\* s entered the queue q before t.
Ahead(q, s, t) == \E k, l \in 1..Len(q) : k < l /\ q[k] = s /\ q[l] = t

Sorted(q, r) == \A i, j \in 1..Len(r) : i < j => Ahead(q, r[i], r[j])

Precedes(q, w, r) ==
  \A i \in 1..Len(w) : \A j \in 1..Len(r) : Ahead(q, w[i], r[j])

Once(q) == \A k, l \in 1..Len(q) : q[k] = q[l] => k = l

\* Of the transactions that entered, in the order q, those of w left before
\* those of r will.
InLine(q, w, r) ==
  /\ Once(q) /\ Sorted(q, w) /\ Sorted(q, r) /\ Precedes(q, w, r)
  /\ Elems(w) \subseteq Elems(q) /\ Elems(r) \subseteq Elems(q)

\* Who is ahead of another is another.
LEMMA AheadApart ==
  ASSUME NEW q, Once(q), NEW s, NEW t, Ahead(q, s, t)
  PROVE  s # t
<1>1. PICK k, l \in 1..Len(q) : k < l /\ q[k] = s /\ q[l] = t
  BY DEF Ahead
<1>2. k # l
  BY <1>1
<1> QED BY <1>1, <1>2 DEF Once

\* Entering q changes no order ...
LEMMA AheadStays ==
  ASSUME NEW S, NEW q \in Seq(S), NEW e \in S, NEW s, NEW t, Ahead(q, s, t)
  PROVE  Ahead(Append(q, e), s, t)
<1>1. PICK k, l \in 1..Len(q) : k < l /\ q[k] = s /\ q[l] = t
  BY DEF Ahead
<1>2. /\ k \in 1..Len(Append(q, e)) /\ l \in 1..Len(Append(q, e))
      /\ Append(q, e)[k] = s /\ Append(q, e)[l] = t
  BY <1>1
<1> QED BY <1>1, <1>2 DEF Ahead

\* ... and puts the newcomer behind everybody.
LEMMA AheadNew ==
  ASSUME NEW S, NEW q \in Seq(S), NEW e \in S, NEW s \in Elems(q)
  PROVE  Ahead(Append(q, e), s, e)
<1>1. PICK k \in 1..Len(q) : q[k] = s
  BY DEF Elems
<1>2. /\ k \in 1..Len(Append(q, e)) /\ Len(q) + 1 \in 1..Len(Append(q, e))
      /\ Append(q, e)[k] = s /\ Append(q, e)[Len(q) + 1] = e
      /\ k < Len(q) + 1
  BY <1>1
<1> QED BY <1>2 DEF Ahead

\* The elements of an extended queue.
LEMMA ElemsAppend ==
  ASSUME NEW S, NEW q \in Seq(S), NEW e \in S
  PROVE  Elems(Append(q, e)) = Elems(q) \cup {e}
BY DEF Elems

\* The elements of a queue and of what is behind its head.
LEMMA ElemsTail ==
  ASSUME NEW S, NEW r \in Seq(S), r # <<>>
  PROVE  /\ Head(r) \in S /\ Tail(r) \in Seq(S) /\ Head(r) = r[1]
         /\ Len(Tail(r)) = Len(r) - 1 /\ Len(r) \in Nat \ {0}
         /\ \A i \in 1..Len(Tail(r)) : Tail(r)[i] = r[i + 1]
         /\ Elems(r) = {Head(r)} \cup Elems(Tail(r))
<1>1. /\ Head(r) \in S /\ Tail(r) \in Seq(S) /\ Head(r) = r[1]
      /\ Len(Tail(r)) = Len(r) - 1 /\ Len(r) \in Nat \ {0}
  OBVIOUS
<1>2. \A i \in 1..Len(Tail(r)) : Tail(r)[i] = r[i + 1]
  OBVIOUS
<1>3. ASSUME NEW e \in Elems(r) PROVE e = Head(r) \/ e \in Elems(Tail(r))
  <2>1. PICK i \in 1..Len(r) : e = r[i]
    BY DEF Elems
  <2>2. CASE i = 1
    BY <1>1, <2>1, <2>2
  <2>3. CASE i # 1
    <3>1. i - 1 \in 1..Len(Tail(r)) /\ Tail(r)[i - 1] = r[i]
      BY <1>1, <1>2, <2>1, <2>3
    <3> QED BY <2>1, <3>1 DEF Elems
  <2> QED BY <2>2, <2>3
<1>4. Head(r) \in Elems(r)
  BY <1>1 DEF Elems
<1>5. ASSUME NEW e \in Elems(Tail(r)) PROVE e \in Elems(r)
  <2>1. PICK i \in 1..Len(Tail(r)) : e = Tail(r)[i]
    BY DEF Elems
  <2>2. i + 1 \in 1..Len(r) /\ r[i + 1] = e
    BY <1>1, <1>2, <2>1
  <2> QED BY <2>2 DEF Elems
<1> QED BY <1>1, <1>2, <1>3, <1>4, <1>5

\* Taking an element out shifts those behind it.
LEMMA UnlinkAt ==
  ASSUME NEW S, NEW r \in Seq(S), NEW t \in Elems(r)
  PROVE  \E i \in 1..Len(r) :
           /\ r[i] = t /\ Unlink(r, t) \in Seq(S)
           /\ Len(Unlink(r, t)) = Len(r) - 1
           /\ \A k \in 1..(Len(r) - 1) :
                Unlink(r, t)[k] = IF k < i THEN r[k] ELSE r[k + 1]
<1> DEFINE i == CHOOSE n \in 1..Len(r) : r[n] = t
<1>1. i \in 1..Len(r) /\ r[i] = t
  BY DEF Elems
<1> DEFINE A == SubSeq(r, 1, i - 1)
           B == SubSeq(r, i + 1, Len(r))
<1>2. Unlink(r, t) = A \o B
  BY DEF Unlink
<1> HIDE DEF i
<1>3. /\ A \in Seq(S) /\ B \in Seq(S)
      /\ Len(A) = i - 1 /\ Len(B) = Len(r) - i
      /\ \A k \in 1..(i - 1) : A[k] = r[k]
      /\ \A k \in 1..(Len(r) - i) : B[k] = r[i + k]
  BY <1>1
<1> HIDE DEF A, B
<1>4. /\ A \o B \in Seq(S) /\ Len(A \o B) = Len(A) + Len(B)
      /\ \A k \in 1..Len(A) : (A \o B)[k] = A[k]
      /\ \A k \in 1..Len(B) : (A \o B)[Len(A) + k] = B[k]
  <2>1. A \in Seq(S) /\ B \in Seq(S)
    BY <1>3
  <2>2. /\ A \o B \in Seq(S) /\ Len(A \o B) = Len(A) + Len(B)
        /\ \A k \in 1..Len(A) : (A \o B)[k] = A[k]
    BY <2>1
  <2>3. ASSUME NEW k \in 1..Len(B) PROVE (A \o B)[Len(A) + k] = B[k]
    BY <2>1
  <2> QED BY <2>2, <2>3
<1>5. ASSUME NEW k \in 1..(Len(r) - 1)
      PROVE  (A \o B)[k] = IF k < i THEN r[k] ELSE r[k + 1]
  <2>1. CASE k < i
    <3>1. k \in 1..Len(A) /\ k \in 1..(i - 1)
      BY <1>1, <1>3, <2>1
    <3> QED BY <1>3, <1>4, <2>1, <3>1
  <2>2. CASE ~(k < i)
    <3> DEFINE m == k - (i - 1)
    <3>1. m \in 1..Len(B) /\ m \in 1..(Len(r) - i) /\ Len(A) + m = k
          /\ i + m = k + 1
      BY <1>1, <1>3, <2>2
    <3> HIDE DEF m
    <3>2. (A \o B)[Len(A) + m] = B[m]
      BY <1>4, <3>1
    <3> QED BY <1>3, <2>2, <3>1, <3>2
  <2> QED BY <2>1, <2>2
<1>6. Len(A \o B) = Len(r) - 1
  BY <1>1, <1>3, <1>4
<1>7. /\ Unlink(r, t) \in Seq(S) /\ Len(Unlink(r, t)) = Len(r) - 1
      /\ \A k \in 1..(Len(r) - 1) :
           Unlink(r, t)[k] = IF k < i THEN r[k] ELSE r[k + 1]
  BY <1>2, <1>4, <1>5, <1>6
<1> QED BY <1>1, <1>7

\* A request that enters is the last in line.
LEMMA LineEnter ==
  ASSUME NEW S, NEW q \in Seq(S), NEW w \in Seq(S), NEW r \in Seq(S),
         NEW e \in S, InLine(q, w, r), e \notin Elems(q)
  PROVE  InLine(Append(q, e), w, Append(r, e))
<1> DEFINE Q == Append(q, e)
           R == Append(r, e)
<1>1. /\ Len(Q) = Len(q) + 1 /\ Q[Len(q) + 1] = e
      /\ \A k \in 1..Len(q) : Q[k] = q[k] /\ q[k] # e
      /\ Len(R) = Len(r) + 1 /\ R[Len(r) + 1] = e
      /\ \A k \in 1..Len(r) : R[k] = r[k] /\ r[k] \in Elems(q)
      /\ \A k \in 1..Len(w) : w[k] \in Elems(q)
      /\ Len(q) \in Nat /\ Len(r) \in Nat
  <2>1. /\ Len(Q) = Len(q) + 1 /\ Q[Len(q) + 1] = e
        /\ \A k \in 1..Len(q) : Q[k] = q[k]
    OBVIOUS
  <2>2. /\ Len(R) = Len(r) + 1 /\ R[Len(r) + 1] = e
        /\ \A k \in 1..Len(r) : R[k] = r[k]
    OBVIOUS
  <2>3. /\ \A k \in 1..Len(q) : q[k] # e
        /\ \A k \in 1..Len(r) : r[k] \in Elems(r)
        /\ \A k \in 1..Len(w) : w[k] \in Elems(w)
    BY DEF Elems
  <2> QED BY <2>1, <2>2, <2>3 DEF InLine
<1>2. \A s, t : Ahead(q, s, t) => Ahead(Q, s, t)
  BY AheadStays
<1>3. \A s \in Elems(q) : Ahead(Q, s, e)
  BY AheadNew
<1>4. Elems(Q) = Elems(q) \cup {e} /\ Elems(R) = Elems(r) \cup {e}
  BY ElemsAppend
<1> HIDE DEF Q, R
<1>5. Once(Q)
  BY <1>1 DEF InLine, Once
<1>6. Sorted(Q, w)
  BY <1>2 DEF InLine, Sorted
<1>7. Sorted(Q, R)
  <2> SUFFICES ASSUME NEW i \in 1..Len(R), NEW j \in 1..Len(R), i < j
               PROVE  Ahead(Q, R[i], R[j])
    BY DEF Sorted
  <2>1. i \in 1..Len(r)
    BY <1>1
  <2>2. CASE j = Len(r) + 1
    BY <1>1, <1>3, <2>1, <2>2
  <2>3. CASE j \in 1..Len(r)
    BY <1>1, <1>2, <2>1, <2>3 DEF InLine, Sorted
  <2> QED BY <1>1, <2>2, <2>3
<1>8. Precedes(Q, w, R)
  <2> SUFFICES ASSUME NEW i \in 1..Len(w), NEW j \in 1..Len(R)
               PROVE  Ahead(Q, w[i], R[j])
    BY DEF Precedes
  <2>2. CASE j = Len(r) + 1
    BY <1>1, <1>3, <2>2
  <2>3. CASE j \in 1..Len(r)
    BY <1>1, <1>2, <2>3 DEF InLine, Precedes
  <2> QED BY <1>1, <2>2, <2>3
<1> QED BY <1>4, <1>5, <1>6, <1>7, <1>8 DEF InLine, Q, R

\* The head may leave, and be sent or not.
LEMMA LineLeave ==
  ASSUME NEW S, NEW q \in Seq(S), NEW w \in Seq(S), NEW r \in Seq(S),
         InLine(q, w, r), r # <<>>
  PROVE  InLine(q, w, Tail(r)) /\ InLine(q, Append(w, Head(r)), Tail(r))
<1> DEFINE R == Tail(r)
           h == Head(r)
           W == Append(w, h)
<1>1. /\ h \in S /\ R \in Seq(S) /\ h = r[1] /\ 1 \in 1..Len(r)
      /\ Len(R) = Len(r) - 1 /\ Len(r) \in Nat \ {0}
      /\ \A i \in 1..Len(R) : R[i] = r[i + 1] /\ i + 1 \in 1..Len(r)
      /\ Elems(r) = {h} \cup Elems(R)
  BY ElemsTail
<1>2. /\ Len(W) = Len(w) + 1 /\ W[Len(w) + 1] = h /\ Len(w) \in Nat
      /\ \A k \in 1..Len(w) : W[k] = w[k]
      /\ Elems(W) = Elems(w) \cup {h}
  BY <1>1, ElemsAppend
<1> HIDE DEF R, h, W
<1>3. Sorted(q, R)
  <2> SUFFICES ASSUME NEW i \in 1..Len(R), NEW j \in 1..Len(R), i < j
               PROVE  Ahead(q, R[i], R[j])
    BY DEF Sorted
  <2>1. i + 1 < j + 1
    BY <1>1
  <2> QED BY <1>1, <2>1 DEF InLine, Sorted
<1>4. Precedes(q, w, R)
  BY <1>1 DEF InLine, Precedes
<1>5. Sorted(q, W)
  <2> SUFFICES ASSUME NEW i \in 1..Len(W), NEW j \in 1..Len(W), i < j
               PROVE  Ahead(q, W[i], W[j])
    BY DEF Sorted
  <2>1. i \in 1..Len(w)
    BY <1>2
  <2>2. CASE j = Len(w) + 1
    BY <1>1, <1>2, <2>1, <2>2 DEF InLine, Precedes
  <2>3. CASE j \in 1..Len(w)
    BY <1>2, <2>1, <2>3 DEF InLine, Sorted
  <2> QED BY <1>2, <2>2, <2>3
<1>6. Precedes(q, W, R)
  <2> SUFFICES ASSUME NEW i \in 1..Len(W), NEW j \in 1..Len(R)
               PROVE  Ahead(q, W[i], R[j])
    BY DEF Precedes
  <2>2. CASE i = Len(w) + 1
    <3>1. 1 < j + 1
      BY <1>1
    <3> QED BY <1>1, <1>2, <2>2, <3>1 DEF InLine, Sorted
  <2>3. CASE i \in 1..Len(w)
    BY <1>2, <1>4, <2>3 DEF Precedes
  <2> QED BY <1>2, <2>2, <2>3
<1> QED BY <1>1, <1>2, <1>3, <1>4, <1>5, <1>6 DEF InLine, R, h, W

\* So may any other, and all of them.
LEMMA LineUnlink ==
  ASSUME NEW S, NEW q \in Seq(S), NEW w \in Seq(S), NEW r \in Seq(S),
         InLine(q, w, r), NEW t
  PROVE  /\ InLine(q, w, Unlink(r, t))
         /\ Elems(Unlink(r, t)) = Elems(r) \ {t}
<1>1. CASE t \notin Elems(r)
  BY <1>1 DEF Unlink
<1>2. CASE t \in Elems(r)
  <2> DEFINE R == Unlink(r, t)
  <2>1. PICK i \in 1..Len(r) :
          /\ r[i] = t /\ R \in Seq(S) /\ Len(R) = Len(r) - 1
          /\ \A k \in 1..(Len(r) - 1) : R[k] = IF k < i THEN r[k] ELSE r[k + 1]
    BY <1>2, UnlinkAt
  <2> HIDE DEF R
  <2>2. Len(r) \in Nat
    OBVIOUS
  <2>3. Sorted(q, R)
    <3> SUFFICES ASSUME NEW j \in 1..Len(R), NEW k \in 1..Len(R), j < k
                 PROVE  Ahead(q, R[j], R[k])
      BY DEF Sorted
    <3> DEFINE J == IF j < i THEN j ELSE j + 1
               K == IF k < i THEN k ELSE k + 1
    <3>1. J \in 1..Len(r) /\ K \in 1..Len(r) /\ J < K
      BY <2>1, <2>2
    <3>2. R[j] = r[J] /\ R[k] = r[K]
      BY <2>1
    <3> QED BY <3>1, <3>2 DEF InLine, Sorted
  <2>4. Precedes(q, w, R)
    <3> SUFFICES ASSUME NEW j \in 1..Len(w), NEW k \in 1..Len(R)
                 PROVE  Ahead(q, w[j], R[k])
      BY DEF Precedes
    <3> DEFINE K == IF k < i THEN k ELSE k + 1
    <3>1. K \in 1..Len(r) /\ R[k] = r[K]
      BY <2>1, <2>2
    <3> QED BY <3>1 DEF InLine, Precedes
  <2>5. ASSUME NEW e \in Elems(R) PROVE e \in Elems(r) /\ e # t
    <3>1. PICK k \in 1..Len(R) : e = R[k]
      BY DEF Elems
    <3> DEFINE K == IF k < i THEN k ELSE k + 1
    <3>2. K \in 1..Len(r) /\ e = r[K] /\ (K < i \/ i < K)
      BY <2>1, <2>2, <3>1
    <3> HIDE DEF K
    <3>3. Ahead(q, r[K], r[i]) \/ Ahead(q, r[i], r[K])
      BY <3>2 DEF InLine, Sorted
    <3>4. r[K] # r[i]
      BY <3>3, AheadApart DEF InLine
    <3> QED BY <2>1, <3>2, <3>4 DEF Elems
  <2>6. ASSUME NEW e \in Elems(r), e # t PROVE e \in Elems(R)
    <3>1. PICK k \in 1..Len(r) : e = r[k]
      BY DEF Elems
    <3>2. CASE k < i
      <4>1. k \in 1..Len(R) /\ R[k] = e
        BY <2>1, <2>2, <3>1, <3>2
      <4> QED BY <4>1 DEF Elems
    <3>3. CASE k > i
      <4>1. k - 1 \in 1..Len(R) /\ ~(k - 1 < i)
        BY <2>1, <2>2, <3>1, <3>3
      <4>2. R[k - 1] = r[(k - 1) + 1]
        BY <2>1, <4>1
      <4>3. R[k - 1] = e
        BY <3>1, <4>2
      <4> QED BY <4>1, <4>3 DEF Elems
    <3>4. k # i
      BY <2>1, <2>6, <3>1
    <3> QED BY <3>2, <3>3, <3>4
  <2>7. Elems(R) = Elems(r) \ {t}
    BY <2>5, <2>6
  <2> QED BY <2>3, <2>4, <2>7 DEF InLine, R
<1> QED BY <1>1, <1>2

\* Throwing tx_q away leaves what was sent in the order of the queue.
LEMMA LineEmpty ==
  ASSUME NEW q, NEW w, NEW r, InLine(q, w, r)
  PROVE  InLine(q, w, <<>>) /\ Elems(<<>>) = {}
BY DEF InLine, Sorted, Precedes, Elems

\* Nobody stands in line twice.
LEMMA LineOnce ==
  ASSUME NEW S, NEW q \in Seq(S), NEW w \in Seq(S), NEW r \in Seq(S),
         InLine(q, w, r)
  PROVE  /\ \A i, j \in 1..Len(r) : r[i] = r[j] => i = j
         /\ r # <<>> => Head(r) \notin Elems(Tail(r))
         /\ \A i, j \in 1..Len(w) : i < j => w[i] # w[j]
<1>1. \A i, j \in 1..Len(r) : i < j => r[i] # r[j]
  BY AheadApart DEF InLine, Sorted
<1>2. \A i, j \in 1..Len(w) : i < j => w[i] # w[j]
  BY AheadApart DEF InLine, Sorted
<1>3. \A i, j \in 1..Len(r) : r[i] = r[j] => i = j
  <2> SUFFICES ASSUME NEW i \in 1..Len(r), NEW j \in 1..Len(r), i # j
               PROVE  r[i] # r[j]
    OBVIOUS
  <2>1. i < j \/ j < i
    OBVIOUS
  <2> QED BY <1>1, <2>1
<1>4. ASSUME r # <<>>, Head(r) \in Elems(Tail(r)) PROVE FALSE
  <2>1. PICK i \in 1..Len(Tail(r)) : Head(r) = Tail(r)[i]
    BY <1>4 DEF Elems
  <2>2. 1 \in 1..Len(r) /\ i + 1 \in 1..Len(r) /\ r[1] = r[i + 1] /\ 1 # i + 1
    BY <1>4, <2>1, ElemsTail
  <2> QED BY <1>3, <2>2
<1> QED BY <1>1, <1>2, <1>3, <1>4

------------------------------------------------------------------------------
(* Requests leave in order: the invariant.                                 *)

\* The request of t has not yet come to tx_q.
EntryPC == {"idle", "add", "inc_own", "prep", "send", "inc_tx", "enq"}

LineInv ==
  /\ InLine(queued, wire, tx_q)
  /\ \A t \in Txn : pc[t] \in EntryPC => t \notin Elems(queued)

\* At first nothing was queued and nothing sent.
LEMMA LineInit == Init => LineInv
BY DEF Init, LineInv, InLine, Once, Sorted, Precedes, Elems

\* Only these steps touch the queues, and no step leads a caller back to the
\* entry.
LEMMA LineMoves ==
  ASSUME TypeOK, [Next]_vars
  PROVE  /\ \A t \in Txn : pc'[t] \in EntryPC => pc[t] \in EntryPC
         /\ \/ UNCHANGED <<wire, tx_q, queued>>
            \/ \E t \in Txn : Enqueue(t) \/ DeleteFromTxQ(t)
            \/ \E th \in Thread : FlushSend(th) \/ CleanTxQ(th)
<1> USE DEF At, Goto, lists, memory, answer, locals, server, flow, returns,
            hist, txns, world, seen, client, EntryPC
<1>0. pc \in [Thread -> CallerPC \cup FlushPC \cup CleanPC \cup DataPC
                           \cup RelPC]
      /\ Txn \subseteq Thread /\ Data \in Thread /\ Releaser \in Thread
      /\ Data \notin Txn /\ Releaser \notin Txn
  BY TxnAssumption DEF TypeOK, ThreadType, Thread, Txn
<1> DEFINE Same == UNCHANGED <<wire, tx_q, queued>>
           Back == \A t \in Txn : pc'[t] \in EntryPC => pc[t] \in EntryPC
<1>1. ASSUME NEW t \in Txn, CallerStep(t)
      PROVE  Back /\ (Same \/ Enqueue(t) \/ DeleteFromTxQ(t))
  <2>1. Same \/ Enqueue(t) \/ DeleteFromTxQ(t)
    BY <1>1 DEF CallerStep, GetTxn, TakeOwnRef, PrepareWait, CheckServer,
       TakeQueueRef, UndoQueueRef, AbandonAsync, WakeUp, WaitReturns, Invalidate,
       RemoveSync, DropOwnRef, DeleteFromList, DeleteFree, SendFailed
  <2>2. Back
    BY <1>0, <1>1 DEF CallerStep, GetTxn, TakeOwnRef, PrepareWait, CheckServer,
       TakeQueueRef, Enqueue, UndoQueueRef, AbandonAsync, WakeUp, WaitReturns,
       Invalidate, RemoveSync, DropOwnRef, DeleteFromTxQ, DeleteFromList,
       DeleteFree, SendFailed, AfterSend
  <2> QED BY <2>1, <2>2
<1>2. ASSUME NEW th \in Thread, FlushStep(th) \/ CleanStep(th)
      PROVE  Back /\ (Same \/ FlushSend(th) \/ CleanTxQ(th))
  <2>1. Same \/ FlushSend(th) \/ CleanTxQ(th)
    BY <1>2 DEF FlushStep, CleanStep, FlushStart, FlushDone, FlushBusy,
       FlushFind, FlushError, FlushDrop, ServerError, CleanList, CleanEach,
       CleanDone
  <2>2. Back
    BY <1>0, <1>2 DEF FlushStep, CleanStep, FlushStart, FlushDone, FlushBusy,
       FlushSend, FlushFind, FlushError, FlushDrop, ServerError, CleanTxQ,
       CleanList, CleanEach, CleanDone, FlushExit, AfterSend, AfterSendError,
       CleanExit
  <2> QED BY <2>1, <2>2
<1>3. ASSUME DataStep \/ ReleaseStep PROVE Back /\ Same
  BY <1>0, <1>3 DEF DataStep, ReleaseStep, RecvFind, RecvDeliver, RecvMismatch,
     RecvResume, RecvServerGone, RecvClose, ReleaseGate, ReleaseClose, Reading
<1>4. ASSUME UserStep \/ EnvStep PROVE Back /\ Same
  BY <1>0, <1>4 DEF UserStep, EnvStep, Begin, TimeOut, WaitReturns, DeleteAsync,
     RegisterErrorCb, ReleaseStart, Respond, UseAfterFree, ServerDies, Block,
     Unblock
<1>5. ASSUME UNCHANGED vars PROVE Back /\ Same
  BY <1>5 DEF vars
<1> HIDE DEF Same, Back
<1>6. Back /\ (\/ Same \/ \E t \in Txn : Enqueue(t) \/ DeleteFromTxQ(t)
               \/ \E th \in Thread : FlushSend(th) \/ CleanTxQ(th))
  BY <1>1, <1>2, <1>3, <1>4, <1>5 DEF Next, Rest
<1> QED BY <1>6 DEF Same, Back

\* A caller that entered its request in the queue is past the entry; from the
\* queue requests are sent at the head and dropped anywhere.
LEMMA LineStep == TypeOK /\ LineInv /\ [Next]_vars => LineInv'
<1> SUFFICES ASSUME TypeOK, LineInv, [Next]_vars PROVE LineInv'
  OBVIOUS
<1> USE DEF At, Goto, EntryPC
<1>0. /\ queued \in Seq(Txn) /\ wire \in Seq(Txn) /\ tx_q \in Seq(Txn)
      /\ InLine(queued, wire, tx_q) /\ Txn \subseteq Thread
      /\ pc \in [Thread -> CallerPC \cup FlushPC \cup CleanPC \cup DataPC
                           \cup RelPC]
      /\ \A t \in Txn : pc[t] \in EntryPC => t \notin Elems(queued)
  BY DEF TypeOK, TxnType, WorldType, SeenType, ThreadType, Thread, LineInv
<1>1. \A t \in Txn : pc'[t] \in EntryPC => pc[t] \in EntryPC
  BY LineMoves
<1>2. CASE UNCHANGED <<wire, tx_q, queued>>
  BY <1>0, <1>1, <1>2 DEF LineInv
<1>3. CASE \E t \in Txn : Enqueue(t)
  <2>1. PICK t \in Txn : Enqueue(t)
    BY <1>3
  <2>2. wire' = wire /\ t \notin Elems(queued)
    BY <1>0, <2>1 DEF Enqueue, world
  <2>3. CASE UNCHANGED <<tx_q, queued>>
    BY <1>0, <1>1, <2>2, <2>3 DEF LineInv
  <2>4. CASE tx_q' = Append(tx_q, t) /\ queued' = Append(queued, t)
    <3>1. InLine(queued', wire', tx_q')
      BY <1>0, <2>2, <2>4, LineEnter
    <3>2. Elems(queued') = Elems(queued) \cup {t}
      BY <1>0, <2>4, ElemsAppend
    <3>3. pc'[t] \notin EntryPC
      BY <1>0, <2>1 DEF Enqueue, AfterSend
    <3> QED BY <1>0, <1>1, <3>1, <3>2, <3>3 DEF LineInv
  <2> QED BY <2>1, <2>3, <2>4 DEF Enqueue
<1>4. CASE \E t \in Txn : DeleteFromTxQ(t)
  <2>1. PICK t \in Txn : tx_q' = Unlink(tx_q, t) /\ UNCHANGED <<wire, queued>>
    BY <1>4 DEF DeleteFromTxQ, world, seen, hist
  <2>2. InLine(queued', wire', tx_q')
    BY <1>0, <2>1, LineUnlink
  <2> QED BY <1>0, <1>1, <2>1, <2>2 DEF LineInv
<1>5. CASE \E th \in Thread : FlushSend(th)
  <2>1. /\ tx_q # <<>> /\ tx_q' = Tail(tx_q) /\ queued' = queued
        /\ wire' = wire \/ wire' = Append(wire, Head(tx_q))
    BY <1>5 DEF FlushSend, seen, hist
  <2>2. InLine(queued', wire', tx_q')
    BY <1>0, <2>1, LineLeave
  <2> QED BY <1>0, <1>1, <2>1, <2>2 DEF LineInv
<1>6. CASE \E th \in Thread : CleanTxQ(th)
  <2>1. tx_q' = <<>> /\ UNCHANGED <<wire, queued>>
    BY <1>6 DEF CleanTxQ, world, seen, hist
  <2>2. InLine(queued', wire', tx_q')
    BY <1>0, <2>1, LineEmpty
  <2> QED BY <1>0, <1>1, <2>1, <2>2 DEF LineInv
<1> QED BY <1>2, <1>3, <1>4, <1>5, <1>6, LineMoves

\* Requests leave once, in the order in which they entered tx_q, whichever
\* callers and data thread flush it, and whatever is refused, dropped, deleted
\* or sent again in between.
THEOREM WireFifo == Spec => []FifoWire
<1>1. TypeOK /\ LineInv /\ [Next]_vars => (TypeOK /\ LineInv)'
  BY TypeStep, LineStep
<1>2. TypeOK /\ LineInv => FifoWire
  <2> SUFFICES ASSUME TypeOK, LineInv PROVE FifoWire
    OBVIOUS
  <2>1. /\ queued \in Seq(Txn) /\ wire \in Seq(Txn) /\ tx_q \in Seq(Txn)
        /\ InLine(queued, wire, tx_q)
    BY DEF TypeOK, TxnType, WorldType, SeenType, LineInv
  <2>2. \A i, j \in 1..Len(wire) : i < j => wire[i] # wire[j]
    BY <2>1, LineOnce
  <2> QED BY <2>1, <2>2 DEF InLine, Sorted, Ahead, FifoWire, Before
<1> QED BY TypeInit, LineInit, <1>1, <1>2, PTL DEF Spec

------------------------------------------------------------------------------
(* References.                                                             *)

\* th took t off tx_q and has yet to give up the queue's reference.
FlushHolds == {"fl_find", "fl_error", "server_error", "cl_tx", "cl_list",
               "cl_each", "fl_dec"}
Flushes(th, t) == pc[th] \in FlushHolds /\ cur[th] = t

\* The caller's own reference and the one it took for the queue.
OwnRef(t) == t \in SyncTxn /\ pc[t] \notin {"idle", "add", "inc_own", "done"}
QueueRef(t) == pc[t] \in {"enq", "dec_tx"}

\* The request of t has not come to tx_q, or never will.
OutsidePC == EntryPC \cup {"dec_tx"}

\* tx_q and the flushing threads own a queued request exclusively.
Queued ==
  /\ \A t \in Txn : \A th \in Thread : Flushes(th, t) => t \notin Elems(tx_q)
  /\ \A t \in Txn : \A a, b \in Thread : Flushes(a, t) /\ Flushes(b, t) => a = b
  /\ \A t \in Txn : pc[t] \in OutsidePC =>
       t \notin Elems(tx_q) /\ \A th \in Thread : ~Flushes(th, t)

\* A thread works on a transaction in a flush or a receive only, and keeps it
\* across a cleanup only if the transport's answer leads it there; a
\* synchronous call is not deleted, the releasing thread flushes nothing, and
\* only a cleanup has detached transactions.
Working(th) ==
  /\ cur[th] \in Txn => pc[th] \in FlushHolds \cup {"recv_good", "recv_bad"}
  /\ pc[th] \in CleanPC /\ cur[th] \in Txn => send_rc[th] = "service_err"
  /\ th \in SyncTxn =>
       pc[th] \notin {"failed", "del_tx", "del_list", "del_free", "deleted"}
  /\ th = Releaser => cur[th] = NoTxn /\ pc[th] \notin FlushPC \cup {"server_error"}
  /\ pc[th] # "cl_each" => moved[th] = {}

Workings == \A th \in Thread : Working(th)
PendInv == Queued /\ Workings

\* What a step of thread a does to the others, the queue and itself.
Alone(a) ==
  \A th \in Thread \ {a} :
    /\ pc'[th] = pc[th] /\ cur'[th] = cur[th]
    /\ moved'[th] = moved[th] /\ send_rc'[th] = send_rc[th]

Passes(a) ==
  /\ \A t \in Txn :
       /\ t \in Elems(tx_q') => \/ t \in Elems(tx_q)
                                \/ t = a /\ pc[t] = "enq" /\ pc'[t] \notin OutsidePC
       /\ Flushes(a, t)' => \/ Flushes(a, t)
                            \/ t \in Elems(tx_q) /\ t \notin Elems(tx_q')
  /\ a \in Txn => (pc'[a] \in OutsidePC => pc[a] \in OutsidePC)

PendHand(a) == Alone(a) /\ Passes(a) /\ Working(a)'

\* At first tx_q is empty and no thread works on a transaction.
LEMMA PendInit == Init => PendInv
<1> SUFFICES ASSUME Init PROVE PendInv
  OBVIOUS
<1>1. /\ \A th \in Thread : /\ cur[th] = NoTxn /\ pc[th] = "idle"
                           /\ moved[th] = {}
      /\ tx_q = <<>> /\ Elems(tx_q) = {}
  BY DEF Init, Elems
<1> QED BY <1>1, TxnAssumption
    DEF PendInv, Queued, Workings, Working, Flushes, FlushHolds, CleanPC, FlushPC

\* A step of one thread that takes over only what it takes out of tx_q, or
\* queues only its own request, keeps the ownership of the queued requests.
LEMMA PendKeeps ==
  ASSUME NEW a \in Thread, PendInv, PendHand(a)
  PROVE  PendInv'
<1> USE DEF PendHand
<1>0. Txn \subseteq Thread
  BY DEF Thread
<1>1. \A t \in Txn : \A th \in Thread \ {a} : Flushes(th, t)' <=> Flushes(th, t)
  BY DEF Alone, Flushes
<1>2. Workings'
  BY DEF Workings, Working, Alone, PendInv
<1>3. \A t \in Txn : pc'[t] \in OutsidePC => pc[t] \in OutsidePC
  BY <1>0 DEF Alone, Passes
<1>4. ASSUME NEW t \in Txn, NEW th \in Thread, Flushes(th, t)'
      PROVE  t \notin Elems(tx_q')
  <2>1. CASE th = a
    BY <1>4, <2>1 DEF Passes, PendInv, Queued, OutsidePC, EntryPC
  <2>2. CASE th # a
    BY <1>1, <1>4, <2>2 DEF Passes, PendInv, Queued, OutsidePC, EntryPC
  <2> QED BY <2>1, <2>2
<1>5. ASSUME NEW t \in Txn, NEW b \in Thread, NEW c \in Thread,
             Flushes(b, t)', Flushes(c, t)'
      PROVE  b = c
  BY <1>1, <1>5 DEF Passes, PendInv, Queued
<1>6. ASSUME NEW t \in Txn, pc'[t] \in OutsidePC
      PROVE  t \notin Elems(tx_q') /\ \A th \in Thread : ~Flushes(th, t)'
  BY <1>0, <1>1, <1>3, <1>6 DEF Passes, PendInv, Queued
<1>7. Queued'
  BY <1>4, <1>5, <1>6 DEF Queued
<1> QED BY <1>2, <1>7 DEF PendInv

------------------------------------------------------------------------------
(* The count of references, as the sum of what each place holds.           *)

One(b) == IF b THEN 1 ELSE 0

Pending(t) == t \in Elems(tx_q) \/ \E th \in Thread : Flushes(th, t)

Held(t) == One(Open(t)) + One(Pending(t)) + One(OwnRef(t)) + One(QueueRef(t))

\* The part of it that a step of thread a can change.
Mine(a, t) ==
  One(t \in txn_list) + One(Takes(a, t)) + One(t \in Elems(tx_q))
    + One(Flushes(a, t)) + One(OwnRef(t)) + One(QueueRef(t))

\* No send fails, and the client is not released.
Quiet == Env \cap {"release", "service_err", "transport_err"} = {}

\* A count is never below what is held, and equal to it in the quiet case.
CountInv ==
  \A t \in Txn :
    /\ ref_count[t] >= Held(t)
    /\ Quiet => ref_count[t] = Held(t)
    /\ Fresh(t) => ref_count[t] = 0

\* The count of t follows what a step of a makes of it, and is not raised
\* for a call that has not begun.
Evens(a, t) ==
  /\ ref_count'[t] + Mine(a, t) >= ref_count[t] + Mine(a, t)'
  /\ Quiet => ref_count'[t] + Mine(a, t) = ref_count[t] + Mine(a, t)'
  /\ Fresh(t)' => Fresh(t) /\ ref_count'[t] <= ref_count[t]

Balanced(a) == \A t \in Txn : Evens(a, t)

\* Somebody holds t, of those whose part a can change.
Has(a, t) == \/ t \in txn_list \/ Takes(a, t) \/ t \in Elems(tx_q)
             \/ Flushes(a, t) \/ OwnRef(t) \/ QueueRef(t)

\* A step of a that keeps what it holds of t.
Like(a, t) == /\ Takes(a, t)' <=> Takes(a, t)
              /\ Flushes(a, t)' <=> Flushes(a, t)
              /\ OwnRef(t)' <=> OwnRef(t)
              /\ QueueRef(t)' <=> QueueRef(t)
              /\ Fresh(t)' => Fresh(t)

\* What the others take and flush, apart from a.
Elsewhere(a, t) ==
  One(\E th \in Thread \ {a} : Takes(th, t))
    + One(\E th \in Thread \ {a} : Flushes(th, t))

Accounts ==
  \A a \in Thread : \A t \in Txn : Held(t) = Mine(a, t) + Elsewhere(a, t)

\* Where a transaction has one owner, the references counted for it are those
\* of any one thread and those of the others.
LEMMA Account == Owned /\ Queued => Accounts
<1> SUFFICES ASSUME NEW a \in Thread, NEW t \in Txn, Owned, Queued
             PROVE  Held(t) = Mine(a, t) + Elsewhere(a, t)
  BY DEF Accounts
<1> DEFINE l == One(t \in txn_list)
           k == One(Takes(a, t))
           ok == One(\E th \in Thread \ {a} : Takes(th, t))
           q == One(t \in Elems(tx_q))
           f == One(Flushes(a, t))
           of == One(\E th \in Thread \ {a} : Flushes(th, t))
           own == One(OwnRef(t))
           que == One(QueueRef(t))
<1>1. One(Open(t)) = l + k + ok
  BY DEF Owned, Open, One
<1>2. One(Pending(t)) = q + f + of
  BY DEF Queued, Pending, One
<1>3. /\ l \in Nat /\ k \in Nat /\ ok \in Nat /\ q \in Nat /\ f \in Nat
      /\ of \in Nat /\ own \in Nat /\ que \in Nat
  BY DEF One
<1>4. /\ Held(t) = One(Open(t)) + One(Pending(t)) + own + que
      /\ Mine(a, t) = l + k + q + f + own + que
      /\ Elsewhere(a, t) = ok + of
  BY ZenonT(40) DEF Held, Mine, Elsewhere
<1> HIDE DEF l, k, ok, q, f, of, own, que
<1> QED BY <1>1, <1>2, <1>3, <1>4

\* The same count in the next state.
LEMMA AccountNext == (Owned /\ Queued)' => Accounts'
BY Account, PTL

\* A step of one thread leaves what the others hold.
LEMMA RestKept ==
  ASSUME NEW a \in Thread, NEW t \in Txn, Alone(a)
  PROVE  Elsewhere(a, t)' = Elsewhere(a, t)
<1>1. \A th \in Thread \ {a} : Takes(th, t)' <=> Takes(th, t)
  BY DEF Alone, Takes
<1>2. \A th \in Thread \ {a} : Flushes(th, t)' <=> Flushes(th, t)
  BY DEF Alone, Flushes
<1> QED BY <1>1, <1>2 DEF Elsewhere, One

\* What is held is counted in natural numbers.
LEMMA Sums ==
  ASSUME NEW a \in Thread, NEW t \in Txn
  PROVE  Mine(a, t) \in Nat /\ Elsewhere(a, t) \in Nat
BY DEF Mine, Elsewhere, One

\* A step that changes a reference count by what the stepping thread takes or
\* gives back keeps the counts right.
LEMMA BalanceKeeps ==
  ASSUME NEW a \in Thread, Owned, Owned', Queued, Queued', CountInv,
         ref_count \in [Txn -> Nat], ref_count' \in [Txn -> Nat],
         Alone(a), Balanced(a)
  PROVE  CountInv'
<1> SUFFICES ASSUME NEW t \in Txn
             PROVE  /\ ref_count'[t] >= Held(t)'
                    /\ Quiet => ref_count'[t] = Held(t)'
                    /\ Fresh(t)' => ref_count'[t] = 0
  BY DEF CountInv, Quiet
<1>1. Held(t) = Mine(a, t) + Elsewhere(a, t)
  BY Account DEF Accounts
<1>2. Held(t)' = Mine(a, t)' + Elsewhere(a, t)'
  BY AccountNext DEF Accounts
<1>3. Elsewhere(a, t)' = Elsewhere(a, t)
  BY RestKept
<1>4. Mine(a, t) \in Nat /\ Elsewhere(a, t) \in Nat /\ Mine(a, t)' \in Nat
  BY Sums DEF Mine, One
<1>5. /\ ref_count'[t] + Mine(a, t) >= ref_count[t] + Mine(a, t)'
      /\ Quiet => ref_count'[t] + Mine(a, t) = ref_count[t] + Mine(a, t)'
      /\ Fresh(t)' => Fresh(t) /\ ref_count'[t] <= ref_count[t]
  BY DEF Balanced, Evens
<1>6. /\ ref_count[t] >= Held(t)
      /\ Quiet => ref_count[t] = Held(t)
      /\ Fresh(t) => ref_count[t] = 0
  BY DEF CountInv
<1>7. ref_count[t] \in Nat /\ ref_count'[t] \in Nat
  OBVIOUS
<1> HIDE DEF Held, Mine, Elsewhere
<1> QED BY <1>1, <1>2, <1>3, <1>4, <1>5, <1>6, <1>7

\* A step that changes no count, no list and nothing in hand is balanced.
LEMMA LevelOf ==
  ASSUME NEW a \in Thread, UNCHANGED <<txn_list, tx_q, ref_count>>,
         ref_count \in [Txn -> Nat], \A t \in Txn : Like(a, t)
  PROVE  Balanced(a)
<1> SUFFICES ASSUME NEW t \in Txn PROVE Evens(a, t)
  BY DEF Balanced
<1>1. Mine(a, t)' = Mine(a, t)
  BY DEF Like, Mine, One
<1>2. Mine(a, t) \in Nat /\ ref_count[t] \in Nat
  BY Sums
<1>3. Fresh(t)' => Fresh(t)
  BY DEF Like
<1> HIDE DEF Mine
<1> QED BY <1>1, <1>2, <1>3 DEF Evens

\* A step that leaves lists, threads and counts alone.
LEMMA RefsStill ==
  ASSUME Workings, ref_count \in [Txn -> Nat],
          UNCHANGED <<txn_list, tx_q, ref_count, pc, cur, moved, send_rc>>
  PROVE  Alone(Data) /\ Passes(Data) /\ Working(Data)' /\ Balanced(Data)
<1>1. Alone(Data) /\ Passes(Data)
  BY DEF Alone, Passes, Flushes
<1>2. Working(Data)'
  BY DEF Workings, Working, Thread
<1>3. Balanced(Data)
  <2>1. \A u \in Txn : Like(Data, u)
    BY DEF Like, Takes, Flushes, OwnRef, QueueRef, Fresh
  <2> QED BY <2>1, LevelOf DEF Thread
<1> QED BY <1>1, <1>2, <1>3

RefInv == Owned /\ AsyncPath /\ LineInv /\ PendInv /\ CountInv

\* Nothing but a failing send is found wanting, and none fails in the quiet case.
QuietInv == Quiet => /\ accepting_txns /\ pc[Releaser] = "idle"
                     /\ \A th \in Thread : pc[th] \notin {"fl_find", "fl_error"}

\* Every step is taken by one thread, which leaves the others' work alone,
\* keeps each queued request in one hand and balances its reference counts.
LEMMA HandStep ==
  ASSUME TypeOK, RefInv, QuietInv, [Next]_vars
  PROVE  \E a \in Thread : Alone(a) /\ Passes(a) /\ Working(a)' /\ Balanced(a)
<1> DEFINE Hand(a) == Alone(a) /\ Passes(a) /\ Working(a)' /\ Balanced(a)
<1>0. /\ txn_list \subseteq Txn /\ inbox \subseteq [txn : Txn, good : BOOLEAN]
      /\ pc \in [Thread -> CallerPC \cup FlushPC \cup CleanPC \cup DataPC
                           \cup RelPC]
      /\ cur \in [Thread -> Txn \cup {NoTxn}]
      /\ send_rc \in [Thread -> Codes]
      /\ moved \in [Thread -> SUBSET Txn]
      /\ ref_count \in [Txn -> Nat]
      /\ tx_q \in Seq(Txn) /\ wire \in Seq(Txn) /\ queued \in Seq(Txn)
      /\ AsyncTxn \subseteq Txn /\ SyncTxn \subseteq Txn
      /\ \A t \in Txn : t \in SyncTxn \/ t \in AsyncTxn
      /\ Txn \subseteq Thread /\ Data \in Thread /\ Releaser \in Thread
      /\ Data \notin Txn /\ Releaser \notin Txn /\ Data # Releaser
      /\ NoTxn \notin Txn /\ SyncTxn \cap AsyncTxn = {}
  BY TxnAssumption
  DEF TypeOK, TxnType, ThreadType, SeenType, WorldType, Thread, Txn
<1>00. /\ LineInv /\ Workings /\ QuietInv
       /\ \A a \in Thread : \A t \in Txn : Has(a, t) => ref_count[t] > 0
       /\ \A a \in Thread : Working(a)
       /\ \A t \in AsyncTxn :
            pc[t] \notin {"inc_own", "prep", "wait", "fin_inval", "fin_remove",
                         "fin_dec"}
       /\ \A t \in Txn : Fresh(t) => ref_count[t] = 0 /\ t \notin txn_list
  <2>1. ASSUME NEW a \in Thread, NEW t \in Txn PROVE ref_count[t] >= Mine(a, t)
    <3>1. Held(t) = Mine(a, t) + Elsewhere(a, t) /\ ref_count[t] >= Held(t)
      BY Account DEF RefInv, PendInv, Accounts, CountInv
    <3>2. Mine(a, t) \in Nat /\ Elsewhere(a, t) \in Nat
      BY Sums
    <3> HIDE DEF Mine, Elsewhere, Held
    <3> QED BY <1>0, <3>1, <3>2
  <2>2. ASSUME NEW a \in Thread, NEW t \in Txn, Has(a, t) PROVE ref_count[t] > 0
    <3>1. Mine(a, t) > 0
      BY <2>2 DEF Has, Mine, One
    <3> HIDE DEF Mine
    <3> QED BY <1>0, <2>1, <3>1, Sums
  <2> QED BY <2>2 DEF RefInv, PendInv, Workings, AsyncPath, CountInv, Owned, Open
<1> USE <1>00 DEF At, Goto, lists, memory, answer, locals, returns, txns, seen, Has

<1>1. ASSUME NEW t \in Txn, GetTxn(t) PROVE Hand(t)
  <2>1. Alone(t)
    BY <1>0, <1>1 DEF Alone, GetTxn
  <2>2. Passes(t)
    BY <1>0, <1>1 DEF Passes, Working, FlushPC, CleanPC, Flushes, FlushHolds,
       OutsidePC, EntryPC, GetTxn
  <2>3. Working(t)'
    BY <1>0, <1>1 DEF Working, FlushHolds, FlushPC, CleanPC, GetTxn
  <2>4. Balanced(t)
    <3> SUFFICES ASSUME NEW u \in Txn PROVE Evens(t, u)
      BY DEF Balanced
    <3>1. /\ u \in txn_list' <=> (u \in txn_list \/ (u = t))
          /\ (u = t) => ~(u \in txn_list)
          /\ Takes(t, u)' <=> Takes(t, u)
          /\ u \in Elems(tx_q') <=> u \in Elems(tx_q)
          /\ Flushes(t, u)' <=> Flushes(t, u)
          /\ OwnRef(u)' <=> OwnRef(u)
          /\ QueueRef(u)' <=> QueueRef(u)
      BY <1>0, <1>1, <2>1 DEF Working, OutsidePC, EntryPC, Takes, Flushes,
         FlushHolds, OwnRef, QueueRef, Fresh, GetTxn
    <3>2. /\ ref_count'[u] = IF u = t THEN ref_count[u] + (1) ELSE ref_count[u]
          /\ Fresh(u)' => Fresh(u) /\ ref_count'[u] <= ref_count[u]
      BY <1>0, <1>1, <2>1, <3>1 DEF Fresh, Alone, GetTxn
    <3> QED BY <1>0, <3>1, <3>2, SMTT(60) DEF Evens, Mine, One
  <2> QED BY <2>1, <2>2, <2>3, <2>4
<1>2. ASSUME NEW t \in Txn, TakeOwnRef(t) PROVE Hand(t)
  <2>1. Alone(t)
    BY <1>0, <1>2 DEF Alone, TakeOwnRef
  <2>2. Passes(t)
    BY <1>0, <1>2 DEF Passes, Working, FlushPC, CleanPC, Flushes, FlushHolds,
       OutsidePC, EntryPC, TakeOwnRef
  <2>3. Working(t)'
    BY <1>0, <1>2 DEF Working, FlushHolds, FlushPC, CleanPC, TakeOwnRef
  <2>4. Balanced(t)
    <3> SUFFICES ASSUME NEW u \in Txn PROVE Evens(t, u)
      BY DEF Balanced
    <3>1. /\ u \in txn_list' <=> u \in txn_list
          /\ Takes(t, u)' <=> Takes(t, u)
          /\ u \in Elems(tx_q') <=> u \in Elems(tx_q)
          /\ Flushes(t, u)' <=> Flushes(t, u)
          /\ OwnRef(u)' <=> (OwnRef(u) \/ (u = t))
          /\ (u = t) => ~(OwnRef(u))
          /\ QueueRef(u)' <=> QueueRef(u)
      BY <1>0, <1>2, <2>1 DEF Working, OutsidePC, EntryPC, Takes, Flushes,
         FlushHolds, OwnRef, QueueRef, Fresh, TakeOwnRef, Inc
    <3>2. /\ ref_count'[u] = IF u = t THEN ref_count[u] + (1) ELSE ref_count[u]
          /\ Fresh(u)' => Fresh(u) /\ ref_count'[u] <= ref_count[u]
      BY <1>0, <1>2, <2>1, <3>1 DEF Fresh, Alone, TakeOwnRef, Inc
    <3> QED BY <1>0, <3>1, <3>2, SMTT(60) DEF Evens, Mine, One
  <2> QED BY <2>1, <2>2, <2>3, <2>4
<1>3. ASSUME NEW t \in Txn, PrepareWait(t) PROVE Hand(t)
  <2>1. Alone(t)
    BY <1>0, <1>3 DEF Alone, PrepareWait
  <2>2. Passes(t)
    BY <1>0, <1>3 DEF Passes, Working, FlushPC, CleanPC, Flushes, FlushHolds,
       OutsidePC, EntryPC, PrepareWait
  <2>3. Working(t)'
    BY <1>0, <1>3 DEF Working, FlushHolds, FlushPC, CleanPC, PrepareWait
  <2>4. Balanced(t)
    <3>1. /\ UNCHANGED <<txn_list, tx_q, ref_count>>
          /\ \A u \in Txn : Like(t, u)
      BY <1>0, <1>3, <2>1 DEF Like, Working, Takes, Flushes, FlushHolds,
         OwnRef, QueueRef, Fresh, FlushPC, CleanPC, Alone, PrepareWait
    <3> QED BY <1>0, <3>1, LevelOf
  <2> QED BY <2>1, <2>2, <2>3, <2>4
<1>4. ASSUME NEW t \in Txn, CheckServer(t) PROVE Hand(t)
  <2>1. Alone(t)
    BY <1>0, <1>4 DEF Alone, CheckServer, SendFailed
  <2>2. Passes(t)
    BY <1>0, <1>4 DEF Passes, Working, FlushPC, CleanPC, Flushes, FlushHolds,
       OutsidePC, EntryPC, CheckServer, SendFailed
  <2>3. Working(t)'
    BY <1>0, <1>4 DEF Working, FlushHolds, FlushPC, CleanPC, CheckServer,
       SendFailed
  <2>4. Balanced(t)
    <3>1. /\ UNCHANGED <<txn_list, tx_q, ref_count>>
          /\ \A u \in Txn : Like(t, u)
      BY <1>0, <1>4, <2>1 DEF Like, Working, Takes, Flushes, FlushHolds,
         OwnRef, QueueRef, Fresh, FlushPC, CleanPC, Alone, CheckServer,
         SendFailed
    <3> QED BY <1>0, <3>1, LevelOf
  <2> QED BY <2>1, <2>2, <2>3, <2>4
<1>5. ASSUME NEW t \in Txn, TakeQueueRef(t) PROVE Hand(t)
  <2>1. Alone(t)
    BY <1>0, <1>5 DEF Alone, TakeQueueRef
  <2>2. Passes(t)
    BY <1>0, <1>5 DEF Passes, Working, FlushPC, CleanPC, Flushes, FlushHolds,
       OutsidePC, EntryPC, TakeQueueRef
  <2>3. Working(t)'
    BY <1>0, <1>5 DEF Working, FlushHolds, FlushPC, CleanPC, TakeQueueRef
  <2>4. Balanced(t)
    <3> SUFFICES ASSUME NEW u \in Txn PROVE Evens(t, u)
      BY DEF Balanced
    <3>1. /\ u \in txn_list' <=> u \in txn_list
          /\ Takes(t, u)' <=> Takes(t, u)
          /\ u \in Elems(tx_q') <=> u \in Elems(tx_q)
          /\ Flushes(t, u)' <=> Flushes(t, u)
          /\ OwnRef(u)' <=> OwnRef(u)
          /\ QueueRef(u)' <=> (QueueRef(u) \/ (u = t))
          /\ (u = t) => ~(QueueRef(u))
      BY <1>0, <1>5, <2>1 DEF Working, OutsidePC, EntryPC, Takes, Flushes,
         FlushHolds, OwnRef, QueueRef, Fresh, TakeQueueRef, Inc
    <3>2. /\ ref_count'[u] = IF u = t THEN ref_count[u] + (1) ELSE ref_count[u]
          /\ Fresh(u)' => Fresh(u) /\ ref_count'[u] <= ref_count[u]
      BY <1>0, <1>5, <2>1, <3>1 DEF Fresh, Alone, TakeQueueRef, Inc
    <3> QED BY <1>0, <3>1, <3>2, SMTT(60) DEF Evens, Mine, One
  <2> QED BY <2>1, <2>2, <2>3, <2>4
<1>6. ASSUME NEW t \in Txn, Enqueue(t) PROVE Hand(t)
  <2>0. Elems(Append(tx_q, t)) = Elems(tx_q) \cup {t}
    BY <1>0, ElemsAppend
  <2>1. Alone(t)
    BY <1>0, <1>6 DEF Alone, Enqueue, AfterSend
  <2>3. Working(t)'
    BY <1>0, <1>6, <2>0 DEF Working, FlushHolds, FlushPC, CleanPC, Enqueue,
       AfterSend
  <2>5. /\ pc[t] = "enq" /\ t \notin Elems(tx_q)
        /\ UNCHANGED <<txn_list, ref_count, cur, moved, send_rc>>
    BY <1>0, <1>6 DEF Enqueue, RefInv, PendInv, Queued, OutsidePC, EntryPC
  <2>6. CASE accepting_txns
    <3>1. /\ pc'[t] \in {"fl_addr", "wait", "done"}
          /\ t \in SyncTxn => pc'[t] # "done"
          /\ tx_q' = Append(tx_q, t)
      BY <1>0, <1>6, <2>5, <2>6 DEF Enqueue, AfterSend
    <3>2. Elems(tx_q') = Elems(tx_q) \cup {t}
      BY <2>0, <3>1
    <3>3. \A u \in Txn : /\ u # t => pc'[u] = pc[u]
                         /\ Takes(t, u)' <=> Takes(t, u)
                         /\ Flushes(t, u)' <=> Flushes(t, u)
      BY <1>0, <2>1, <2>5, <3>1 DEF Alone, Takes, Flushes, FlushHolds, Working
    <3>4. Passes(t)
      BY <2>5, <3>1, <3>2, <3>3 DEF Passes, OutsidePC, EntryPC
    <3>5. Balanced(t)
      <4> SUFFICES ASSUME NEW u \in Txn PROVE Evens(t, u)
        BY DEF Balanced
      <4>1. /\ u \in txn_list' <=> u \in txn_list
            /\ Takes(t, u)' <=> Takes(t, u)
            /\ u \in Elems(tx_q') <=> (u \in Elems(tx_q) \/ u = t)
            /\ u = t => u \notin Elems(tx_q)
            /\ Flushes(t, u)' <=> Flushes(t, u)
            /\ OwnRef(u)' <=> OwnRef(u)
            /\ QueueRef(u)' <=> (QueueRef(u) /\ u # t)
            /\ u = t => QueueRef(u)
        BY <2>5, <3>1, <3>2, <3>3 DEF OwnRef, QueueRef
      <4>2. /\ ref_count'[u] = ref_count[u] /\ ref_count[u] \in Nat
            /\ Fresh(u)' => Fresh(u)
        BY <1>0, <2>5, <3>1, <3>3 DEF Fresh
      <4> QED BY <4>1, <4>2, SMTT(60) DEF Evens, Mine, One
    <3> QED BY <2>1, <2>3, <3>4, <3>5
  <2>7. CASE ~accepting_txns
    <3>1. pc'[t] = "dec_tx" /\ tx_q' = tx_q
      BY <1>0, <1>6, <2>5, <2>7 DEF Enqueue
    <3>2. \A u \in Txn : /\ u # t => pc'[u] = pc[u]
                         /\ Like(t, u)
      BY <1>0, <2>1, <2>5, <3>1 DEF Alone, Takes, Flushes, FlushHolds, Working,
         Like, OwnRef, QueueRef, Fresh
    <3>3. Passes(t)
      BY <2>5, <3>1, <3>2 DEF Passes, Like, OutsidePC, EntryPC
    <3>4. Balanced(t)
      BY <1>0, <2>5, <3>1, <3>2, LevelOf
    <3> QED BY <2>1, <2>3, <3>3, <3>4
  <2> QED BY <2>6, <2>7
<1>7. ASSUME NEW t \in Txn, UndoQueueRef(t) PROVE Hand(t)
  <2>1. Alone(t)
    BY <1>0, <1>7 DEF Alone, UndoQueueRef, SendFailed
  <2>2. Passes(t)
    BY <1>0, <1>7 DEF Passes, Working, FlushPC, CleanPC, Flushes, FlushHolds,
       OutsidePC, EntryPC, UndoQueueRef, SendFailed
  <2>3. Working(t)'
    BY <1>0, <1>7 DEF Working, FlushHolds, FlushPC, CleanPC, UndoQueueRef,
       SendFailed
  <2>4. Balanced(t)
    <3> SUFFICES ASSUME NEW u \in Txn PROVE Evens(t, u)
      BY DEF Balanced
    <3>1. /\ u \in txn_list' <=> u \in txn_list
          /\ Takes(t, u)' <=> Takes(t, u)
          /\ u \in Elems(tx_q') <=> u \in Elems(tx_q)
          /\ Flushes(t, u)' <=> Flushes(t, u)
          /\ OwnRef(u)' <=> OwnRef(u)
          /\ QueueRef(u)' <=> (QueueRef(u) /\ ~(u = t))
          /\ (u = t) => QueueRef(u)
      BY <1>0, <1>7, <2>1 DEF Working, OutsidePC, EntryPC, Takes, Flushes,
         FlushHolds, OwnRef, QueueRef, Fresh, UndoQueueRef, SendFailed
    <3>2. /\ ref_count'[u] = IF u = t THEN ref_count[u] - 1 ELSE ref_count[u]
          /\ Fresh(u)' => Fresh(u) /\ ref_count'[u] <= ref_count[u]
      BY <1>0, <1>7, <2>1, <3>1 DEF Fresh, Alone, UndoQueueRef, SendFailed,
         Dec
    <3> QED BY <1>0, <3>1, <3>2, SMTT(60) DEF Evens, Mine, One
  <2> QED BY <2>1, <2>2, <2>3, <2>4
<1>8. ASSUME NEW t \in Txn, AbandonAsync(t) PROVE Hand(t)
  <2>1. Alone(t)
    BY <1>0, <1>8 DEF Alone, AbandonAsync
  <2>2. Passes(t)
    BY <1>0, <1>8 DEF Passes, Working, FlushPC, CleanPC, Flushes, FlushHolds,
       OutsidePC, EntryPC, AbandonAsync
  <2>3. Working(t)'
    BY <1>0, <1>8 DEF Working, FlushHolds, FlushPC, CleanPC, AbandonAsync
  <2>4. Balanced(t)
    <3> SUFFICES ASSUME NEW u \in Txn PROVE Evens(t, u)
      BY DEF Balanced
    <3>1. /\ u \in txn_list' <=> (u \in txn_list /\ ~(u = t /\ t \in txn_list))
          /\ (u = t /\ t \in txn_list) => u \in txn_list
          /\ Takes(t, u)' <=> Takes(t, u)
          /\ u \in Elems(tx_q') <=> u \in Elems(tx_q)
          /\ Flushes(t, u)' <=> Flushes(t, u)
          /\ OwnRef(u)' <=> OwnRef(u)
          /\ QueueRef(u)' <=> QueueRef(u)
      BY <1>0, <1>8, <2>1 DEF Working, OutsidePC, EntryPC, Takes, Flushes,
         FlushHolds, OwnRef, QueueRef, Fresh, AbandonAsync
    <3>2. /\ ref_count'[u] = IF u = t /\ t \in txn_list THEN ref_count[u] - 1 ELSE ref_count[u]
          /\ Fresh(u)' => Fresh(u) /\ ref_count'[u] <= ref_count[u]
      BY <1>0, <1>8, <2>1, <3>1 DEF Fresh, Alone, AbandonAsync, Dec
    <3> QED BY <1>0, <3>1, <3>2, SMTT(60) DEF Evens, Mine, One
  <2> QED BY <2>1, <2>2, <2>3, <2>4
<1>9. ASSUME NEW t \in Txn, WakeUp(t) PROVE Hand(t)
  <2>1. Alone(t)
    BY <1>0, <1>9 DEF Alone, WakeUp, WaitReturns
  <2>2. Passes(t)
    BY <1>0, <1>9 DEF Passes, Working, FlushPC, CleanPC, Flushes, FlushHolds,
       OutsidePC, EntryPC, WakeUp, WaitReturns
  <2>3. Working(t)'
    BY <1>0, <1>9 DEF Working, FlushHolds, FlushPC, CleanPC, WakeUp,
       WaitReturns
  <2>4. Balanced(t)
    <3>1. /\ UNCHANGED <<txn_list, tx_q, ref_count>>
          /\ \A u \in Txn : Like(t, u)
      BY <1>0, <1>9, <2>1 DEF Like, Working, Takes, Flushes, FlushHolds,
         OwnRef, QueueRef, Fresh, FlushPC, CleanPC, Alone, WakeUp, WaitReturns
    <3> QED BY <1>0, <3>1, LevelOf
  <2> QED BY <2>1, <2>2, <2>3, <2>4
<1>10. ASSUME NEW t \in Txn, Invalidate(t) PROVE Hand(t)
  <2>1. Alone(t)
    BY <1>0, <1>10 DEF Alone, Invalidate
  <2>2. Passes(t)
    BY <1>0, <1>10 DEF Passes, Working, FlushPC, CleanPC, Flushes, FlushHolds,
       OutsidePC, EntryPC, Invalidate
  <2>3. Working(t)'
    BY <1>0, <1>10 DEF Working, FlushHolds, FlushPC, CleanPC, Invalidate
  <2>4. Balanced(t)
    <3>1. /\ UNCHANGED <<txn_list, tx_q, ref_count>>
          /\ \A u \in Txn : Like(t, u)
      BY <1>0, <1>10, <2>1 DEF Like, Working, Takes, Flushes, FlushHolds,
         OwnRef, QueueRef, Fresh, FlushPC, CleanPC, Alone, Invalidate
    <3> QED BY <1>0, <3>1, LevelOf
  <2> QED BY <2>1, <2>2, <2>3, <2>4
<1>11. ASSUME NEW t \in Txn, RemoveSync(t) PROVE Hand(t)
  <2>1. Alone(t)
    BY <1>0, <1>11 DEF Alone, RemoveSync
  <2>2. Passes(t)
    BY <1>0, <1>11 DEF Passes, Working, FlushPC, CleanPC, Flushes, FlushHolds,
       OutsidePC, EntryPC, RemoveSync
  <2>3. Working(t)'
    BY <1>0, <1>11 DEF Working, FlushHolds, FlushPC, CleanPC, RemoveSync
  <2>4. Balanced(t)
    <3> SUFFICES ASSUME NEW u \in Txn PROVE Evens(t, u)
      BY DEF Balanced
    <3>1. /\ u \in txn_list' <=> (u \in txn_list /\ ~(u = t /\ t \in txn_list))
          /\ (u = t /\ t \in txn_list) => u \in txn_list
          /\ Takes(t, u)' <=> Takes(t, u)
          /\ u \in Elems(tx_q') <=> u \in Elems(tx_q)
          /\ Flushes(t, u)' <=> Flushes(t, u)
          /\ OwnRef(u)' <=> OwnRef(u)
          /\ QueueRef(u)' <=> QueueRef(u)
      BY <1>0, <1>11, <2>1 DEF Working, OutsidePC, EntryPC, Takes, Flushes,
         FlushHolds, OwnRef, QueueRef, Fresh, RemoveSync
    <3>2. /\ ref_count'[u] = IF u = t /\ t \in txn_list THEN ref_count[u] - 1 ELSE ref_count[u]
          /\ Fresh(u)' => Fresh(u) /\ ref_count'[u] <= ref_count[u]
      BY <1>0, <1>11, <2>1, <3>1 DEF Fresh, Alone, RemoveSync, Dec
    <3> QED BY <1>0, <3>1, <3>2, SMTT(60) DEF Evens, Mine, One
  <2> QED BY <2>1, <2>2, <2>3, <2>4
<1>12. ASSUME NEW t \in Txn, DropOwnRef(t) PROVE Hand(t)
  <2>1. Alone(t)
    BY <1>0, <1>12 DEF Alone, DropOwnRef
  <2>2. Passes(t)
    BY <1>0, <1>12 DEF Passes, Working, FlushPC, CleanPC, Flushes, FlushHolds,
       OutsidePC, EntryPC, DropOwnRef
  <2>3. Working(t)'
    BY <1>0, <1>12 DEF Working, FlushHolds, FlushPC, CleanPC, DropOwnRef
  <2>4. Balanced(t)
    <3> SUFFICES ASSUME NEW u \in Txn PROVE Evens(t, u)
      BY DEF Balanced
    <3>1. /\ u \in txn_list' <=> u \in txn_list
          /\ Takes(t, u)' <=> Takes(t, u)
          /\ u \in Elems(tx_q') <=> u \in Elems(tx_q)
          /\ Flushes(t, u)' <=> Flushes(t, u)
          /\ OwnRef(u)' <=> (OwnRef(u) /\ ~(u = t))
          /\ (u = t) => OwnRef(u)
          /\ QueueRef(u)' <=> QueueRef(u)
      BY <1>0, <1>12, <2>1 DEF Working, OutsidePC, EntryPC, Takes, Flushes,
         FlushHolds, OwnRef, QueueRef, Fresh, DropOwnRef
    <3>2. /\ ref_count'[u] = IF u = t THEN ref_count[u] - 1 ELSE ref_count[u]
          /\ Fresh(u)' => Fresh(u) /\ ref_count'[u] <= ref_count[u]
      BY <1>0, <1>12, <2>1, <3>1 DEF Fresh, Alone, DropOwnRef, Dec
    <3> QED BY <1>0, <3>1, <3>2, SMTT(60) DEF Evens, Mine, One
  <2> QED BY <2>1, <2>2, <2>3, <2>4
<1>13. ASSUME NEW t \in Txn, DeleteFromTxQ(t) PROVE Hand(t)
  <2>0. Elems(Unlink(tx_q, t)) = Elems(tx_q) \ {t}
    BY <1>0, LineUnlink DEF LineInv
  <2>1. Alone(t)
    BY <1>0, <1>13 DEF Alone, DeleteFromTxQ
  <2>2. Passes(t)
    BY <1>0, <1>13, <2>0 DEF Passes, Working, FlushPC, CleanPC, Flushes,
       FlushHolds, OutsidePC, EntryPC, DeleteFromTxQ
  <2>3. Working(t)'
    BY <1>0, <1>13, <2>0 DEF Working, FlushHolds, FlushPC, CleanPC,
       DeleteFromTxQ
  <2>4. Balanced(t)
    <3> SUFFICES ASSUME NEW u \in Txn PROVE Evens(t, u)
      BY DEF Balanced
    <3>1. /\ u \in txn_list' <=> u \in txn_list
          /\ Takes(t, u)' <=> Takes(t, u)
          /\ u \in Elems(tx_q') <=> (u \in Elems(tx_q) /\ ~(u = t /\ t \in Elems(tx_q)))
          /\ (u = t /\ t \in Elems(tx_q)) => u \in Elems(tx_q)
          /\ Flushes(t, u)' <=> Flushes(t, u)
          /\ OwnRef(u)' <=> OwnRef(u)
          /\ QueueRef(u)' <=> QueueRef(u)
      BY <1>0, <1>13, <2>0, <2>1 DEF Working, OutsidePC, EntryPC, Takes,
         Flushes, FlushHolds, OwnRef, QueueRef, Fresh, DeleteFromTxQ
    <3>2. /\ ref_count'[u] = IF u = t /\ t \in Elems(tx_q)
                             THEN ref_count[u] - 1 ELSE ref_count[u]
          /\ Fresh(u)' => Fresh(u) /\ ref_count'[u] <= ref_count[u]
      BY <1>0, <1>13, <2>0, <2>1, <3>1 DEF Fresh, Alone, DeleteFromTxQ, Dec
    <3> QED BY <1>0, <3>1, <3>2, SMTT(60) DEF Evens, Mine, One
  <2> QED BY <2>1, <2>2, <2>3, <2>4
<1>14. ASSUME NEW t \in Txn, DeleteFromList(t) PROVE Hand(t)
  <2>1. Alone(t)
    BY <1>0, <1>14 DEF Alone, DeleteFromList
  <2>2. Passes(t)
    BY <1>0, <1>14 DEF Passes, Working, FlushPC, CleanPC, Flushes, FlushHolds,
       OutsidePC, EntryPC, DeleteFromList
  <2>3. Working(t)'
    BY <1>0, <1>14 DEF Working, FlushHolds, FlushPC, CleanPC, DeleteFromList
  <2>4. Balanced(t)
    <3> SUFFICES ASSUME NEW u \in Txn PROVE Evens(t, u)
      BY DEF Balanced
    <3>1. /\ u \in txn_list' <=> (u \in txn_list /\ ~(u = t /\ t \in txn_list))
          /\ (u = t /\ t \in txn_list) => u \in txn_list
          /\ Takes(t, u)' <=> (Takes(t, u) \/ (u = t /\ t \in txn_list))
          /\ (u = t /\ t \in txn_list) => ~Takes(t, u)
          /\ u \in Elems(tx_q') <=> u \in Elems(tx_q)
          /\ Flushes(t, u)' <=> Flushes(t, u)
          /\ OwnRef(u)' <=> OwnRef(u)
          /\ QueueRef(u)' <=> QueueRef(u)
      BY <1>0, <1>14, <2>1 DEF Working, OutsidePC, EntryPC, Takes, Flushes,
         FlushHolds, OwnRef, QueueRef, Fresh, DeleteFromList
    <3>2. /\ ref_count'[u] = ref_count[u]
          /\ Fresh(u)' => Fresh(u) /\ ref_count'[u] <= ref_count[u]
      BY <1>0, <1>14, <2>1, <3>1 DEF Fresh, Alone, DeleteFromList
    <3> QED BY <1>0, <3>1, <3>2, SMTT(60) DEF Evens, Mine, One
  <2> QED BY <2>1, <2>2, <2>3, <2>4
<1>15. ASSUME NEW t \in Txn, DeleteFree(t) PROVE Hand(t)
  <2>1. Alone(t)
    BY <1>0, <1>15 DEF Alone, DeleteFree
  <2>2. Passes(t)
    BY <1>0, <1>15 DEF Passes, Working, FlushPC, CleanPC, Flushes, FlushHolds,
       OutsidePC, EntryPC, DeleteFree
  <2>3. Working(t)'
    BY <1>0, <1>15 DEF Working, FlushHolds, FlushPC, CleanPC, DeleteFree
  <2>4. Balanced(t)
    <3> SUFFICES ASSUME NEW u \in Txn PROVE Evens(t, u)
      BY DEF Balanced
    <3>1. /\ u \in txn_list' <=> u \in txn_list
          /\ Takes(t, u)' <=> (Takes(t, u) /\ ~(u = t))
          /\ (u = t) => Takes(t, u)
          /\ u \in Elems(tx_q') <=> u \in Elems(tx_q)
          /\ Flushes(t, u)' <=> Flushes(t, u)
          /\ OwnRef(u)' <=> OwnRef(u)
          /\ QueueRef(u)' <=> QueueRef(u)
      BY <1>0, <1>15, <2>1 DEF Working, OutsidePC, EntryPC, Takes, Flushes,
         FlushHolds, OwnRef, QueueRef, Fresh, DeleteFree
    <3>2. /\ ref_count'[u] = IF u = t THEN ref_count[u] - 1 ELSE ref_count[u]
          /\ Fresh(u)' => Fresh(u) /\ ref_count'[u] <= ref_count[u]
      BY <1>0, <1>15, <2>1, <3>1 DEF Fresh, Alone, DeleteFree, Dec
    <3>3. /\ ref_count[u] \in Nat
          /\ Mine(t, u) = Mine(t, u)' + One(u = t)
      BY <1>0, <3>1 DEF Mine, One
    <3>4. Mine(t, u) \in Nat /\ Mine(t, u)' \in Nat
      BY DEF Mine, One
    <3>5. CASE u = t
      <4> HIDE DEF Mine
      <4> QED BY <3>2, <3>3, <3>4, <3>5 DEF Evens, One
    <3>6. CASE u # t
      <4> HIDE DEF Mine
      <4> QED BY <3>2, <3>3, <3>4, <3>6 DEF Evens, One
    <3> QED BY <3>5, <3>6
  <2> QED BY <2>1, <2>2, <2>3, <2>4
<1>16. ASSUME NEW th \in Thread, FlushStart(th) PROVE Hand(th)
  <2>1. Alone(th)
    BY <1>0, <1>16 DEF Alone, FlushStart
  <2>2. Passes(th)
    BY <1>0, <1>16 DEF Passes, Working, FlushPC, CleanPC, Flushes, FlushHolds,
       OutsidePC, EntryPC, FlushStart
  <2>3. Working(th)'
    BY <1>0, <1>16 DEF Working, FlushHolds, FlushPC, CleanPC, FlushStart
  <2>4. Balanced(th)
    <3>1. /\ UNCHANGED <<txn_list, tx_q, ref_count>>
          /\ \A u \in Txn : Like(th, u)
      BY <1>0, <1>16, <2>1 DEF Like, Working, Takes, Flushes, FlushHolds,
         OwnRef, QueueRef, Fresh, FlushPC, CleanPC, Alone, FlushStart
    <3> QED BY <1>0, <3>1, LevelOf
  <2> QED BY <2>1, <2>2, <2>3, <2>4
<1>17. ASSUME NEW th \in Thread, FlushDone(th) PROVE Hand(th)
  <2>1. Alone(th)
    BY <1>0, <1>17 DEF Alone, FlushDone, FlushExit, AfterSend
  <2>2. Passes(th)
    BY <1>0, <1>17 DEF Passes, Working, FlushPC, CleanPC, Flushes, FlushHolds,
       OutsidePC, EntryPC, FlushDone, FlushExit, AfterSend
  <2>3. Working(th)'
    BY <1>0, <1>17 DEF Working, FlushHolds, FlushPC, CleanPC, FlushDone,
       FlushExit, AfterSend
  <2>4. Balanced(th)
    <3>1. /\ UNCHANGED <<txn_list, tx_q, ref_count>>
          /\ \A u \in Txn : Like(th, u)
      BY <1>0, <1>17, <2>1 DEF Like, Working, Takes, Flushes, FlushHolds,
         OwnRef, QueueRef, Fresh, FlushPC, CleanPC, Alone, FlushDone,
         FlushExit, AfterSend
    <3> QED BY <1>0, <3>1, LevelOf
  <2> QED BY <2>1, <2>2, <2>3, <2>4
<1>18. ASSUME NEW th \in Thread, FlushBusy(th) PROVE Hand(th)
  <2>1. Alone(th)
    BY <1>0, <1>18 DEF Alone, FlushBusy, FlushExit, AfterSend
  <2>2. Passes(th)
    BY <1>0, <1>18 DEF Passes, Working, FlushPC, CleanPC, Flushes, FlushHolds,
       OutsidePC, EntryPC, FlushBusy, FlushExit, AfterSend
  <2>3. Working(th)'
    BY <1>0, <1>18 DEF Working, FlushHolds, FlushPC, CleanPC, FlushBusy,
       FlushExit, AfterSend
  <2>4. Balanced(th)
    <3>1. /\ UNCHANGED <<txn_list, tx_q, ref_count>>
          /\ \A u \in Txn : Like(th, u)
      BY <1>0, <1>18, <2>1 DEF Like, Working, Takes, Flushes, FlushHolds,
         OwnRef, QueueRef, Fresh, FlushPC, CleanPC, Alone, FlushBusy,
         FlushExit, AfterSend
    <3> QED BY <1>0, <3>1, LevelOf
  <2> QED BY <2>1, <2>2, <2>3, <2>4
<1>19. ASSUME NEW th \in Thread, FlushSend(th) PROVE Hand(th)
  <2>0. tx_q # <<>> => /\ Elems(tx_q) = {Head(tx_q)} \cup Elems(Tail(tx_q))
                       /\ Head(tx_q) \notin Elems(Tail(tx_q))
                       /\ Head(tx_q) \in Txn
    BY <1>0, ElemsTail, LineOnce DEF LineInv
  <2>1. Alone(th)
    BY <1>0, <1>19 DEF Alone, FlushSend
  <2>2. Passes(th)
    BY <1>0, <1>19, <2>0 DEF Passes, Working, FlushPC, CleanPC, Flushes,
       FlushHolds, OutsidePC, EntryPC, FlushSend
  <2>3. Working(th)'
    BY <1>0, <1>19, <2>0 DEF Working, FlushHolds, FlushPC, CleanPC, FlushSend
  <2>4. Balanced(th)
    <3> SUFFICES ASSUME NEW u \in Txn PROVE Evens(th, u)
      BY DEF Balanced
    <3>1. /\ u \in txn_list' <=> u \in txn_list
          /\ Takes(th, u)' <=> Takes(th, u)
          /\ u \in Elems(tx_q') <=> (u \in Elems(tx_q) /\ ~(u = Head(tx_q)))
          /\ (u = Head(tx_q)) => u \in Elems(tx_q)
          /\ Flushes(th, u)' <=> (Flushes(th, u) \/ (u = Head(tx_q)))
          /\ (u = Head(tx_q)) => ~(Flushes(th, u))
          /\ OwnRef(u)' <=> OwnRef(u)
          /\ QueueRef(u)' <=> QueueRef(u)
      BY <1>0, <1>19, <2>0, <2>1 DEF Working, OutsidePC, EntryPC, Takes,
         Flushes, FlushHolds, OwnRef, QueueRef, Fresh, FlushSend
    <3>2. /\ ref_count'[u] = ref_count[u]
          /\ Fresh(u)' => Fresh(u) /\ ref_count'[u] <= ref_count[u]
      BY <1>0, <1>19, <2>0, <2>1, <3>1 DEF Fresh, Alone, FlushSend
    <3> QED BY <1>0, <3>1, <3>2, SMTT(60) DEF Evens, Mine, One
  <2> QED BY <2>1, <2>2, <2>3, <2>4
<1>20. ASSUME NEW th \in Thread, FlushFind(th) PROVE Hand(th)
  <2>1. Alone(th)
    BY <1>0, <1>20 DEF Alone, FlushFind, AfterSendError
  <2>2. Passes(th)
    BY <1>0, <1>20 DEF Passes, Working, FlushPC, CleanPC, Flushes, FlushHolds,
       OutsidePC, EntryPC, FlushFind, AfterSendError
  <2>3. Working(th)'
    BY <1>0, <1>20 DEF Working, FlushHolds, FlushPC, CleanPC, FlushFind,
       AfterSendError
  <2>4. Balanced(th)
    <3> SUFFICES ASSUME NEW u \in Txn PROVE Evens(th, u)
      BY DEF Balanced
    <3>1. /\ u \in txn_list' <=> u \in txn_list /\ u # cur[th]
          /\ Takes(th, u)' <=> u \in txn_list /\ u = cur[th]
          /\ ~Takes(th, u)
          /\ u \in Elems(tx_q') <=> u \in Elems(tx_q)
          /\ Flushes(th, u) <=> u = cur[th]
          /\ Flushes(th, u)' <=> u = cur[th] /\ u \in txn_list
          /\ OwnRef(u)' <=> OwnRef(u)
          /\ QueueRef(u)' <=> QueueRef(u)
      BY <1>0, <1>20, <2>1 DEF Takes, Flushes, FlushHolds, OwnRef, QueueRef,
         FlushFind, AfterSendError
    <3>2. /\ ref_count'[u] = ref_count[u] /\ ~Quiet
          /\ Fresh(u)' => Fresh(u)
      BY <1>0, <1>20, <2>1 DEF Fresh, Alone, FlushFind, QuietInv, AfterSendError
    <3> QED BY <1>0, <3>1, <3>2, SMTT(60) DEF Evens, Mine, One
  <2> QED BY <2>1, <2>2, <2>3, <2>4
<1>21. ASSUME NEW th \in Thread, FlushError(th) PROVE Hand(th)
  <2>1. Alone(th)
    BY <1>0, <1>21 DEF Alone, FlushError, AfterSendError
  <2>2. Passes(th)
    BY <1>0, <1>21 DEF Passes, Working, FlushPC, CleanPC, Flushes, FlushHolds,
       OutsidePC, EntryPC, FlushError, AfterSendError
  <2>3. Working(th)'
    BY <1>0, <1>21 DEF Working, FlushHolds, FlushPC, CleanPC, FlushError,
       AfterSendError
  <2>4. Balanced(th)
    <3> SUFFICES ASSUME NEW u \in Txn PROVE Evens(th, u)
      BY DEF Balanced
    <3>1. /\ u \in txn_list' <=> u \in txn_list
          /\ Takes(th, u)' <=> (Takes(th, u) /\ ~(u = cur[th]))
          /\ (u = cur[th]) => Takes(th, u)
          /\ u \in Elems(tx_q') <=> u \in Elems(tx_q)
          /\ Flushes(th, u)' <=> Flushes(th, u)
          /\ OwnRef(u)' <=> OwnRef(u)
          /\ QueueRef(u)' <=> QueueRef(u)
      BY <1>0, <1>21, <2>1 DEF Working, OutsidePC, EntryPC, Takes, Flushes,
         FlushHolds, OwnRef, QueueRef, Fresh, FlushError, AfterSendError
    <3>2. /\ ref_count'[u] = IF u = cur[th] THEN ref_count[u] - 1 ELSE ref_count[u]
          /\ Fresh(u)' => Fresh(u) /\ ref_count'[u] <= ref_count[u]
      BY <1>0, <1>21, <2>1, <3>1 DEF Fresh, Alone, FlushError, AfterSendError,
         Dec
    <3> QED BY <1>0, <3>1, <3>2, SMTT(60) DEF Evens, Mine, One
  <2> QED BY <2>1, <2>2, <2>3, <2>4
<1>22. ASSUME NEW th \in Thread, FlushDrop(th) PROVE Hand(th)
  <2>1. Alone(th)
    BY <1>0, <1>22 DEF Alone, FlushDrop
  <2>2. Passes(th)
    BY <1>0, <1>22 DEF Passes, Working, FlushPC, CleanPC, Flushes, FlushHolds,
       OutsidePC, EntryPC, FlushDrop
  <2>3. Working(th)'
    BY <1>0, <1>22 DEF Working, FlushHolds, FlushPC, CleanPC, FlushDrop
  <2>4. Balanced(th)
    <3> SUFFICES ASSUME NEW u \in Txn PROVE Evens(th, u)
      BY DEF Balanced
    <3>1. /\ u \in txn_list' <=> u \in txn_list
          /\ Takes(th, u)' <=> Takes(th, u)
          /\ u \in Elems(tx_q') <=> u \in Elems(tx_q)
          /\ Flushes(th, u)' <=> (Flushes(th, u) /\ ~(u = cur[th]))
          /\ (u = cur[th]) => Flushes(th, u)
          /\ OwnRef(u)' <=> OwnRef(u)
          /\ QueueRef(u)' <=> QueueRef(u)
      BY <1>0, <1>22, <2>1 DEF Working, OutsidePC, EntryPC, Takes, Flushes,
         FlushHolds, OwnRef, QueueRef, Fresh, FlushDrop
    <3>2. /\ ref_count'[u] = IF u = cur[th] THEN ref_count[u] - 1 ELSE ref_count[u]
          /\ Fresh(u)' => Fresh(u) /\ ref_count'[u] <= ref_count[u]
      BY <1>0, <1>22, <2>1, <3>1 DEF Fresh, Alone, FlushDrop, Dec
    <3> QED BY <1>0, <3>1, <3>2, SMTT(60) DEF Evens, Mine, One
  <2> QED BY <2>1, <2>2, <2>3, <2>4
<1>23. ASSUME NEW th \in Thread, ServerError(th) PROVE Hand(th)
  <2>1. Alone(th)
    BY <1>0, <1>23 DEF Alone, ServerError
  <2>2. Passes(th)
    BY <1>0, <1>23 DEF Passes, Working, FlushPC, CleanPC, Flushes, FlushHolds,
       OutsidePC, EntryPC, ServerError
  <2>3. Working(th)'
    BY <1>0, <1>23 DEF Working, FlushHolds, FlushPC, CleanPC, ServerError
  <2>4. Balanced(th)
    <3>1. /\ UNCHANGED <<txn_list, tx_q, ref_count>>
          /\ \A u \in Txn : Like(th, u)
      BY <1>0, <1>23, <2>1 DEF Like, Working, Takes, Flushes, FlushHolds,
         OwnRef, QueueRef, Fresh, FlushPC, CleanPC, Alone, ServerError
    <3> QED BY <1>0, <3>1, LevelOf
  <2> QED BY <2>1, <2>2, <2>3, <2>4
<1>24. ASSUME NEW th \in Thread, CleanTxQ(th) PROVE Hand(th)
  <2>0. Elems(<<>>) = {}
    BY DEF Elems
  <2>1. Alone(th)
    BY <1>0, <1>24 DEF Alone, CleanTxQ
  <2>2. Passes(th)
    BY <1>0, <1>24, <2>0 DEF Passes, Working, FlushPC, CleanPC, Flushes,
       FlushHolds, OutsidePC, EntryPC, CleanTxQ
  <2>3. Working(th)'
    BY <1>0, <1>24, <2>0 DEF Working, FlushHolds, FlushPC, CleanPC, CleanTxQ
  <2>4. Balanced(th)
    <3> SUFFICES ASSUME NEW u \in Txn PROVE Evens(th, u)
      BY DEF Balanced
    <3>1. /\ u \in txn_list' <=> u \in txn_list
          /\ Takes(th, u)' <=> Takes(th, u)
          /\ u \in Elems(tx_q') <=> (u \in Elems(tx_q) /\ ~(u \in Elems(tx_q)))
          /\ (u \in Elems(tx_q)) => u \in Elems(tx_q)
          /\ Flushes(th, u)' <=> Flushes(th, u)
          /\ OwnRef(u)' <=> OwnRef(u)
          /\ QueueRef(u)' <=> QueueRef(u)
      BY <1>0, <1>24, <2>0, <2>1 DEF Working, OutsidePC, EntryPC, Takes,
         Flushes, FlushHolds, OwnRef, QueueRef, Fresh, CleanTxQ
    <3>2. /\ ref_count'[u] = IF u \in Elems(tx_q) THEN ref_count[u] - 1 ELSE ref_count[u]
          /\ Fresh(u)' => Fresh(u) /\ ref_count'[u] <= ref_count[u]
      BY <1>0, <1>24, <2>0, <2>1, <3>1 DEF Fresh, Alone, CleanTxQ, Dec
    <3> QED BY <1>0, <3>1, <3>2, SMTT(60) DEF Evens, Mine, One
  <2> QED BY <2>1, <2>2, <2>3, <2>4
<1>25. ASSUME NEW th \in Thread, CleanList(th) PROVE Hand(th)
  <2>1. Alone(th)
    BY <1>0, <1>25 DEF Alone, CleanList
  <2>2. Passes(th)
    BY <1>0, <1>25 DEF Passes, Working, FlushPC, CleanPC, Flushes, FlushHolds,
       OutsidePC, EntryPC, CleanList
  <2>3. Working(th)'
    BY <1>0, <1>25 DEF Working, FlushHolds, FlushPC, CleanPC, CleanList
  <2>4. Balanced(th)
    <3> SUFFICES ASSUME NEW u \in Txn PROVE Evens(th, u)
      BY DEF Balanced
    <3>1. /\ u \in txn_list' <=> (u \in txn_list /\ ~(u \in txn_list))
          /\ (u \in txn_list) => u \in txn_list
          /\ Takes(th, u)' <=> (Takes(th, u) \/ (u \in txn_list))
          /\ (u \in txn_list) => ~Takes(th, u)
          /\ u \in Elems(tx_q') <=> u \in Elems(tx_q)
          /\ Flushes(th, u)' <=> Flushes(th, u)
          /\ OwnRef(u)' <=> OwnRef(u)
          /\ QueueRef(u)' <=> QueueRef(u)
      BY <1>0, <1>25, <2>1 DEF Working, OutsidePC, EntryPC, Takes, Flushes,
         FlushHolds, OwnRef, QueueRef, Fresh, CleanList
    <3>2. /\ ref_count'[u] = ref_count[u]
          /\ Fresh(u)' => Fresh(u) /\ ref_count'[u] <= ref_count[u]
      BY <1>0, <1>25, <2>1, <3>1 DEF Fresh, Alone, CleanList
    <3> QED BY <1>0, <3>1, <3>2, SMTT(60) DEF Evens, Mine, One
  <2> QED BY <2>1, <2>2, <2>3, <2>4
<1>26. ASSUME NEW th \in Thread, CleanEach(th) PROVE Hand(th)
  <2>1. Alone(th)
    BY <1>0, <1>26 DEF Alone, CleanEach
  <2>2. Passes(th)
    BY <1>0, <1>26 DEF Passes, Working, FlushPC, CleanPC, Flushes, FlushHolds,
       OutsidePC, EntryPC, CleanEach
  <2>3. Working(th)'
    BY <1>0, <1>26 DEF Working, FlushHolds, FlushPC, CleanPC, CleanEach
  <2>4. Balanced(th)
    <3>0. PICK w \in moved[th] : /\ Dec({w})
                                 /\ moved' = [moved EXCEPT ![th] = @ \ {w}]
      BY <1>26 DEF CleanEach
    <3> SUFFICES ASSUME NEW u \in Txn PROVE Evens(th, u)
      BY DEF Balanced
    <3>1. /\ u \in txn_list' <=> u \in txn_list
          /\ Takes(th, u)' <=> (Takes(th, u) /\ ~(u = w))
          /\ (u = w) => Takes(th, u)
          /\ u \in Elems(tx_q') <=> u \in Elems(tx_q)
          /\ Flushes(th, u)' <=> Flushes(th, u)
          /\ OwnRef(u)' <=> OwnRef(u)
          /\ QueueRef(u)' <=> QueueRef(u)
      BY <1>0, <1>26, <2>1, <3>0 DEF Working, OutsidePC, EntryPC, Takes,
         Flushes, FlushHolds, OwnRef, QueueRef, Fresh, CleanEach
    <3>2. /\ ref_count'[u] = IF u = w THEN ref_count[u] - 1 ELSE ref_count[u]
          /\ Fresh(u)' => Fresh(u) /\ ref_count'[u] <= ref_count[u]
      BY <1>0, <1>26, <2>1, <3>0, <3>1 DEF Fresh, Alone, CleanEach, Dec
    <3> QED BY <1>0, <3>1, <3>2, SMTT(60) DEF Evens, Mine, One
  <2> QED BY <2>1, <2>2, <2>3, <2>4
<1>27. ASSUME NEW th \in Thread, CleanDone(th) PROVE Hand(th)
  <2>1. Alone(th)
    BY <1>0, <1>27 DEF Alone, CleanDone, CleanExit, FlushExit, AfterSend
  <2>2. Passes(th)
    BY <1>0, <1>27 DEF Passes, Working, FlushPC, CleanPC, Flushes, FlushHolds,
       OutsidePC, EntryPC, CleanDone, CleanExit, FlushExit, AfterSend
  <2>3. Working(th)'
    BY <1>0, <1>27 DEF Working, FlushHolds, FlushPC, CleanPC, CleanDone,
       CleanExit, FlushExit, AfterSend
  <2>4. Balanced(th)
    <3>1. /\ UNCHANGED <<txn_list, tx_q, ref_count>>
          /\ \A u \in Txn : Like(th, u)
      BY <1>0, <1>27, <2>1 DEF Like, Working, Takes, Flushes, FlushHolds,
         OwnRef, QueueRef, Fresh, FlushPC, CleanPC, Alone, CleanDone,
         CleanExit, FlushExit, AfterSend
    <3> QED BY <1>0, <3>1, LevelOf
  <2> QED BY <2>1, <2>2, <2>3, <2>4
<1>28. ASSUME NEW m \in inbox, RecvFind(m) PROVE Hand(Data)
  <2>1. Alone(Data)
    BY <1>0, <1>28 DEF Alone, RecvFind, Reading
  <2>2. Passes(Data)
    BY <1>0, <1>28 DEF Passes, Working, FlushPC, CleanPC, Flushes, FlushHolds,
       OutsidePC, EntryPC, RecvFind, Reading
  <2>3. Working(Data)'
    <3>1. Working(Data) /\ pc[Data] = "idle"
      BY <1>0, <1>28 DEF RecvFind, Reading
    <3>2. CASE UNCHANGED <<pc, cur, moved, send_rc>>
      BY <3>1, <3>2 DEF Working
    <3>3. CASE /\ pc'[Data] \in {"recv_good", "recv_bad"}
               /\ UNCHANGED <<moved, send_rc>>
      BY <1>0, <3>1, <3>3 DEF Working, FlushPC, CleanPC
    <3> QED BY <1>0, <1>28, <3>2, <3>3 DEF RecvFind
  <2>4. Balanced(Data)
    <3> SUFFICES ASSUME NEW u \in Txn PROVE Evens(Data, u)
      BY DEF Balanced
    <3>1. /\ u \in txn_list' <=>
               /\ u \in txn_list
               /\ ~(u = m.txn /\ category = "connected" /\ u \in txn_list)
          /\ (u = m.txn /\ category = "connected" /\ u \in txn_list) => u \in txn_list
          /\ Takes(Data, u)' <=>
               \/ Takes(Data, u)
               \/ u = m.txn /\ category = "connected" /\ u \in txn_list
          /\ (u = m.txn /\ category = "connected" /\ u \in txn_list) => ~Takes(Data, u)
          /\ u \in Elems(tx_q') <=> u \in Elems(tx_q)
          /\ Flushes(Data, u)' <=> Flushes(Data, u)
          /\ OwnRef(u)' <=> OwnRef(u)
          /\ QueueRef(u)' <=> QueueRef(u)
      BY <1>0, <1>28, <2>1 DEF Working, OutsidePC, EntryPC, Takes, Flushes,
         FlushHolds, OwnRef, QueueRef, Fresh, RecvFind, Reading
    <3>2. /\ ref_count'[u] = ref_count[u]
          /\ Fresh(u)' => Fresh(u) /\ ref_count'[u] <= ref_count[u]
      BY <1>0, <1>28, <2>1, <3>1 DEF Fresh, Alone, RecvFind, Reading
    <3> QED BY <1>0, <3>1, <3>2, SMTT(60) DEF Evens, Mine, One
  <2> QED BY <2>1, <2>2, <2>3, <2>4
<1>29. ASSUME RecvDeliver PROVE Hand(Data)
  <2>1. Alone(Data)
    BY <1>0, <1>29 DEF Alone, RecvDeliver
  <2>2. Passes(Data)
    BY <1>0, <1>29 DEF Passes, Working, FlushPC, CleanPC, Flushes, FlushHolds,
       OutsidePC, EntryPC, RecvDeliver
  <2>3. Working(Data)'
    BY <1>0, <1>29 DEF Working, FlushHolds, FlushPC, CleanPC, RecvDeliver
  <2>4. Balanced(Data)
    <3> SUFFICES ASSUME NEW u \in Txn PROVE Evens(Data, u)
      BY DEF Balanced
    <3>1. /\ u \in txn_list' <=> u \in txn_list
          /\ Takes(Data, u)' <=> (Takes(Data, u) /\ ~(u = cur[Data]))
          /\ (u = cur[Data]) => Takes(Data, u)
          /\ u \in Elems(tx_q') <=> u \in Elems(tx_q)
          /\ Flushes(Data, u)' <=> Flushes(Data, u)
          /\ OwnRef(u)' <=> OwnRef(u)
          /\ QueueRef(u)' <=> QueueRef(u)
      BY <1>0, <1>29, <2>1 DEF Working, OutsidePC, EntryPC, Takes, Flushes,
         FlushHolds, OwnRef, QueueRef, Fresh, RecvDeliver
    <3>2. /\ ref_count'[u] = IF u = cur[Data] THEN ref_count[u] - 1 ELSE ref_count[u]
          /\ Fresh(u)' => Fresh(u) /\ ref_count'[u] <= ref_count[u]
      BY <1>0, <1>29, <2>1, <3>1 DEF Fresh, Alone, RecvDeliver, Dec
    <3> QED BY <1>0, <3>1, <3>2, SMTT(60) DEF Evens, Mine, One
  <2> QED BY <2>1, <2>2, <2>3, <2>4
<1>30. ASSUME RecvMismatch PROVE Hand(Data)
  <2>1. Alone(Data)
    BY <1>0, <1>30 DEF Alone, RecvMismatch
  <2>2. Passes(Data)
    BY <1>0, <1>30 DEF Passes, Working, FlushPC, CleanPC, Flushes, FlushHolds,
       OutsidePC, EntryPC, RecvMismatch
  <2>3. Working(Data)'
    BY <1>0, <1>30 DEF Working, FlushHolds, FlushPC, CleanPC, RecvMismatch
  <2>4. Balanced(Data)
    <3> SUFFICES ASSUME NEW u \in Txn PROVE Evens(Data, u)
      BY DEF Balanced
    <3>1. /\ u \in txn_list' <=> u \in txn_list
          /\ Takes(Data, u)' <=> (Takes(Data, u) /\ ~(u = cur[Data]))
          /\ (u = cur[Data]) => Takes(Data, u)
          /\ u \in Elems(tx_q') <=> u \in Elems(tx_q)
          /\ Flushes(Data, u)' <=> Flushes(Data, u)
          /\ OwnRef(u)' <=> OwnRef(u)
          /\ QueueRef(u)' <=> QueueRef(u)
      BY <1>0, <1>30, <2>1 DEF Working, OutsidePC, EntryPC, Takes, Flushes,
         FlushHolds, OwnRef, QueueRef, Fresh, RecvMismatch
    <3>2. /\ ref_count'[u] = IF u = cur[Data] THEN ref_count[u] - 1 ELSE ref_count[u]
          /\ Fresh(u)' => Fresh(u) /\ ref_count'[u] <= ref_count[u]
      BY <1>0, <1>30, <2>1, <3>1 DEF Fresh, Alone, RecvMismatch, Dec
    <3> QED BY <1>0, <3>1, <3>2, SMTT(60) DEF Evens, Mine, One
  <2> QED BY <2>1, <2>2, <2>3, <2>4
<1>31. ASSUME RecvResume PROVE Hand(Data)
  <2>1. Alone(Data)
    BY <1>0, <1>31 DEF Alone, RecvResume, Reading
  <2>2. Passes(Data)
    BY <1>0, <1>31 DEF Passes, Working, FlushPC, CleanPC, Flushes, FlushHolds,
       OutsidePC, EntryPC, RecvResume, Reading
  <2>3. Working(Data)'
    BY <1>0, <1>31 DEF Working, FlushHolds, FlushPC, CleanPC, RecvResume,
       Reading
  <2>4. Balanced(Data)
    <3>1. /\ UNCHANGED <<txn_list, tx_q, ref_count>>
          /\ \A u \in Txn : Like(Data, u)
      BY <1>0, <1>31, <2>1 DEF Like, Working, Takes, Flushes, FlushHolds,
         OwnRef, QueueRef, Fresh, FlushPC, CleanPC, Alone, RecvResume, Reading
    <3> QED BY <1>0, <3>1, LevelOf
  <2> QED BY <2>1, <2>2, <2>3, <2>4
<1>32. ASSUME RecvServerGone PROVE Hand(Data)
  <2>1. Alone(Data)
    BY <1>0, <1>32 DEF Alone, RecvServerGone, Reading
  <2>2. Passes(Data)
    BY <1>0, <1>32 DEF Passes, Working, FlushPC, CleanPC, Flushes, FlushHolds,
       OutsidePC, EntryPC, RecvServerGone, Reading
  <2>3. Working(Data)'
    BY <1>0, <1>32 DEF Working, FlushHolds, FlushPC, CleanPC, RecvServerGone,
       Reading
  <2>4. Balanced(Data)
    <3>1. /\ UNCHANGED <<txn_list, tx_q, ref_count>>
          /\ \A u \in Txn : Like(Data, u)
      BY <1>0, <1>32, <2>1 DEF Like, Working, Takes, Flushes, FlushHolds,
         OwnRef, QueueRef, Fresh, FlushPC, CleanPC, Alone, RecvServerGone,
         Reading
    <3> QED BY <1>0, <3>1, LevelOf
  <2> QED BY <2>1, <2>2, <2>3, <2>4
<1>33. ASSUME RecvClose PROVE Hand(Data)
  <2>1. Alone(Data)
    BY <1>0, <1>33 DEF Alone, RecvClose, Reading
  <2>2. Passes(Data)
    BY <1>0, <1>33 DEF Passes, Working, FlushPC, CleanPC, Flushes, FlushHolds,
       OutsidePC, EntryPC, RecvClose, Reading
  <2>3. Working(Data)'
    BY <1>0, <1>33 DEF Working, FlushHolds, FlushPC, CleanPC, RecvClose,
       Reading
  <2>4. Balanced(Data)
    <3>1. /\ UNCHANGED <<txn_list, tx_q, ref_count>>
          /\ \A u \in Txn : Like(Data, u)
      BY <1>0, <1>33, <2>1 DEF Like, Working, Takes, Flushes, FlushHolds,
         OwnRef, QueueRef, Fresh, FlushPC, CleanPC, Alone, RecvClose, Reading
    <3> QED BY <1>0, <3>1, LevelOf
  <2> QED BY <2>1, <2>2, <2>3, <2>4
<1>34. ASSUME ReleaseGate PROVE Hand(Releaser)
  <2>1. Alone(Releaser)
    BY <1>0, <1>34 DEF Alone, ReleaseGate
  <2>2. Passes(Releaser)
    BY <1>0, <1>34 DEF Passes, Working, FlushPC, CleanPC, Flushes, FlushHolds,
       OutsidePC, EntryPC, ReleaseGate
  <2>3. Working(Releaser)'
    BY <1>0, <1>34 DEF Working, FlushHolds, FlushPC, CleanPC, ReleaseGate
  <2>4. Balanced(Releaser)
    <3>1. /\ UNCHANGED <<txn_list, tx_q, ref_count>>
          /\ \A u \in Txn : Like(Releaser, u)
      BY <1>0, <1>34, <2>1 DEF Like, Working, Takes, Flushes, FlushHolds,
         OwnRef, QueueRef, Fresh, FlushPC, CleanPC, Alone, ReleaseGate
    <3> QED BY <1>0, <3>1, LevelOf
  <2> QED BY <2>1, <2>2, <2>3, <2>4
<1>35. ASSUME ReleaseClose PROVE Hand(Releaser)
  <2>1. Alone(Releaser)
    BY <1>0, <1>35 DEF Alone, ReleaseClose
  <2>2. Passes(Releaser)
    BY <1>0, <1>35 DEF Passes, Working, FlushPC, CleanPC, Flushes, FlushHolds,
       OutsidePC, EntryPC, ReleaseClose
  <2>3. Working(Releaser)'
    BY <1>0, <1>35 DEF Working, FlushHolds, FlushPC, CleanPC, ReleaseClose
  <2>4. Balanced(Releaser)
    <3>1. /\ UNCHANGED <<txn_list, tx_q, ref_count>>
          /\ \A u \in Txn : Like(Releaser, u)
      BY <1>0, <1>35, <2>1 DEF Like, Working, Takes, Flushes, FlushHolds,
         OwnRef, QueueRef, Fresh, FlushPC, CleanPC, Alone, ReleaseClose
    <3> QED BY <1>0, <3>1, LevelOf
  <2> QED BY <2>1, <2>2, <2>3, <2>4
<1>36. ASSUME NEW t \in Txn, Begin(t) PROVE Hand(t)
  <2>1. Alone(t)
    BY <1>0, <1>36 DEF Alone, Begin
  <2>2. Passes(t)
    BY <1>0, <1>36 DEF Passes, Working, FlushPC, CleanPC, Flushes, FlushHolds,
       OutsidePC, EntryPC, Begin
  <2>3. Working(t)'
    BY <1>0, <1>36 DEF Working, FlushHolds, FlushPC, CleanPC, Begin
  <2>4. Balanced(t)
    <3>1. /\ UNCHANGED <<txn_list, tx_q, ref_count>>
          /\ \A u \in Txn : Like(t, u)
      BY <1>0, <1>36, <2>1 DEF Like, Working, Takes, Flushes, FlushHolds,
         OwnRef, QueueRef, Fresh, FlushPC, CleanPC, Alone, Begin
    <3> QED BY <1>0, <3>1, LevelOf
  <2> QED BY <2>1, <2>2, <2>3, <2>4
<1>37. ASSUME NEW t \in Txn, TimeOut(t) PROVE Hand(t)
  <2>1. Alone(t)
    BY <1>0, <1>37 DEF Alone, TimeOut, WaitReturns
  <2>2. Passes(t)
    BY <1>0, <1>37 DEF Passes, Working, FlushPC, CleanPC, Flushes, FlushHolds,
       OutsidePC, EntryPC, TimeOut, WaitReturns
  <2>3. Working(t)'
    BY <1>0, <1>37 DEF Working, FlushHolds, FlushPC, CleanPC, TimeOut,
       WaitReturns
  <2>4. Balanced(t)
    <3>1. /\ UNCHANGED <<txn_list, tx_q, ref_count>>
          /\ \A u \in Txn : Like(t, u)
      BY <1>0, <1>37, <2>1 DEF Like, Working, Takes, Flushes, FlushHolds,
         OwnRef, QueueRef, Fresh, FlushPC, CleanPC, Alone, TimeOut,
         WaitReturns
    <3> QED BY <1>0, <3>1, LevelOf
  <2> QED BY <2>1, <2>2, <2>3, <2>4
<1>38. ASSUME NEW t \in Txn, DeleteAsync(t) PROVE Hand(t)
  <2>1. Alone(t)
    BY <1>0, <1>38 DEF Alone, DeleteAsync
  <2>2. Passes(t)
    BY <1>0, <1>38 DEF Passes, Working, FlushPC, CleanPC, Flushes, FlushHolds,
       OutsidePC, EntryPC, DeleteAsync
  <2>3. Working(t)'
    BY <1>0, <1>38 DEF Working, FlushHolds, FlushPC, CleanPC, DeleteAsync
  <2>4. Balanced(t)
    <3>1. /\ UNCHANGED <<txn_list, tx_q, ref_count>>
          /\ \A u \in Txn : Like(t, u)
      BY <1>0, <1>38, <2>1 DEF Like, Working, Takes, Flushes, FlushHolds,
         OwnRef, QueueRef, Fresh, FlushPC, CleanPC, Alone, DeleteAsync
    <3> QED BY <1>0, <3>1, LevelOf
  <2> QED BY <2>1, <2>2, <2>3, <2>4
<1>39. ASSUME ReleaseStart PROVE Hand(Releaser)
  <2>1. Alone(Releaser)
    BY <1>0, <1>39 DEF Alone, ReleaseStart
  <2>2. Passes(Releaser)
    BY <1>0, <1>39 DEF Passes, Working, FlushPC, CleanPC, Flushes, FlushHolds,
       OutsidePC, EntryPC, ReleaseStart
  <2>3. Working(Releaser)'
    BY <1>0, <1>39 DEF Working, FlushHolds, FlushPC, CleanPC, ReleaseStart
  <2>4. Balanced(Releaser)
    <3>1. /\ UNCHANGED <<txn_list, tx_q, ref_count>>
          /\ \A u \in Txn : Like(Releaser, u)
      BY <1>0, <1>39, <2>1 DEF Like, Working, Takes, Flushes, FlushHolds,
         OwnRef, QueueRef, Fresh, FlushPC, CleanPC, Alone, ReleaseStart
    <3> QED BY <1>0, <3>1, LevelOf
  <2> QED BY <2>1, <2>2, <2>3, <2>4
<1>40. ASSUME RegisterErrorCb PROVE Hand(Data)
  BY <1>0, <1>40, RefsStill DEF RegisterErrorCb
<1>41. ASSUME NEW t \in Txn, Respond(t) PROVE Hand(Data)
  BY <1>0, <1>41, RefsStill DEF Respond
<1>42. ASSUME NEW t \in Txn, UseAfterFree(t) PROVE Hand(Data)
  BY <1>0, <1>42, RefsStill DEF UseAfterFree
<1>43. ASSUME ServerDies PROVE Hand(Data)
  BY <1>0, <1>43, RefsStill DEF ServerDies
<1>44. ASSUME Block PROVE Hand(Data)
  BY <1>0, <1>44, RefsStill DEF Block
<1>45. ASSUME Unblock PROVE Hand(Data)
  BY <1>0, <1>45, RefsStill DEF Unblock
<1>46. CASE UNCHANGED vars
  BY <1>0, <1>46, RefsStill DEF vars
<1> DEFINE E == \E a \in Thread : Hand(a)
<1> HIDE DEF Hand
<1>47. \A t \in Txn : CallerStep(t) => E
  BY <1>0, <1>1, <1>2, <1>3, <1>4, <1>5, <1>6, <1>7, <1>8, <1>9, <1>10,
     <1>11, <1>12, <1>13, <1>14, <1>15 DEF CallerStep
<1>48. \A th \in Thread : FlushStep(th) => E
  BY <1>0, <1>16, <1>17, <1>18, <1>19, <1>20, <1>21, <1>22 DEF FlushStep
<1>49. \A th \in Thread : CleanStep(th) => E
  BY <1>0, <1>23, <1>24, <1>25, <1>26, <1>27 DEF CleanStep
<1>50. DataStep => E
  BY <1>0, <1>28, <1>29, <1>30, <1>31, <1>32, <1>33 DEF DataStep
<1>51. ReleaseStep => E
  BY <1>0, <1>34, <1>35 DEF ReleaseStep
<1>52. UserStep => E
  BY <1>0, <1>36, <1>37, <1>38, <1>39, <1>40 DEF UserStep
<1>53. EnvStep => E
  BY <1>0, <1>41, <1>42, <1>43, <1>44, <1>45 DEF EnvStep
<1> HIDE DEF E
<1>54. Next => E \/ UNCHANGED vars
  BY <1>47, <1>48, <1>49, <1>50, <1>51, <1>52, <1>53 DEF Next, Rest
<1> QED BY <1>46, <1>54 DEF E, Hand

\* When no send can fail and no release come, no thread finds one failing.
LEMMA QuietNext == TypeOK /\ QuietInv /\ [Next]_vars => QuietInv'
<1> SUFFICES ASSUME TypeOK, QuietInv, [Next]_vars, Quiet PROVE QuietInv'
  BY DEF QuietInv
<1>0. /\ accepting_txns /\ pc[Releaser] = "idle"
      /\ \A th \in Thread : pc[th] \notin {"fl_find", "fl_error"}
      /\ "release" \notin Env /\ "service_err" \notin Env
      /\ "transport_err" \notin Env
  BY DEF QuietInv, Quiet
<1>1. /\ pc \in [Thread -> CallerPC \cup FlushPC \cup CleanPC \cup DataPC
                           \cup RelPC]
      /\ Txn \subseteq Thread /\ Data \in Thread /\ Releaser \in Thread
      /\ Releaser \notin Txn /\ Data # Releaser
  BY TxnAssumption DEF TypeOK, ThreadType, Thread
<1> DEFINE Calms == /\ accepting_txns' /\ pc'[Releaser] = "idle"
                    /\ \A th \in Thread : pc'[th] \notin {"fl_find", "fl_error"}
           Turn(a, to) == /\ a # Releaser /\ to \notin {"fl_find", "fl_error"}
                          /\ pc' = [pc EXCEPT ![a] = to]
                          /\ UNCHANGED accepting_txns
<1>2. ASSUME NEW a \in Thread, NEW to, Turn(a, to) PROVE Calms
  BY <1>0, <1>1, <1>2
<1>3. ASSUME UNCHANGED <<pc, accepting_txns>> PROVE Calms
  BY <1>0, <1>3
<1> HIDE DEF Calms
<1> USE DEF At, Goto, client
<1>4. ASSUME NEW t \in Txn, CallerStep(t) PROVE Calms
  <2>1. t \in Thread /\ t # Releaser
    BY <1>1
  <2>2. \/ UNCHANGED <<pc, accepting_txns>>
        \/ \E to \in {"inc_own", "send", "prep", "inc_tx", "fin_inval",
                      "failed", "enq", "dec_tx", "fl_addr", "wait", "done",
                      "fin_remove", "fin_dec", "del_list", "del_free",
                      "deleted"} :
              pc' = [pc EXCEPT ![t] = to] /\ UNCHANGED accepting_txns
    BY <1>4
    DEF CallerStep, GetTxn, TakeOwnRef, PrepareWait, CheckServer,
        TakeQueueRef, Enqueue, UndoQueueRef, AbandonAsync, WakeUp, Invalidate,
        RemoveSync, DropOwnRef, DeleteFromTxQ, DeleteFromList, DeleteFree,
        SendFailed, AfterSend, WaitReturns
  <2> QED BY <1>2, <1>3, <2>1, <2>2
<1>5. ASSUME NEW th \in Thread, FlushStep(th) \/ CleanStep(th) PROVE Calms
  <2>1. th # Releaser
    BY <1>0, <1>5
    DEF FlushStep, FlushStart, FlushDone, FlushBusy, FlushSend, FlushFind,
        FlushError, FlushDrop, CleanStep, ServerError, CleanTxQ, CleanList,
        CleanEach, CleanDone
  <2>2. \/ UNCHANGED <<pc, accepting_txns>>
        \/ \E to \in {"fl_send", "cl_tx", "wait", "done", "idle", "fl_dec",
                      "cl_list", "cl_each"} :
              pc' = [pc EXCEPT ![th] = to] /\ UNCHANGED accepting_txns
    BY <1>0, <1>5, <2>1
    DEF FlushStep, FlushStart, FlushDone, FlushBusy, FlushSend, FlushFind,
        FlushError, FlushDrop, CleanStep, ServerError, CleanTxQ, CleanList,
        CleanEach, CleanDone, FlushExit, CleanExit, AfterSend, SendAnswers
  <2> QED BY <1>2, <1>3, <2>1, <2>2
<1>6. ASSUME DataStep PROVE Calms
  <2>1. \/ UNCHANGED <<pc, accepting_txns>>
        \/ \E to \in {"recv_good", "recv_bad", "idle", "fl_addr",
                      "server_error", "stopped"} :
              pc' = [pc EXCEPT ![Data] = to] /\ UNCHANGED accepting_txns
    BY <1>6
    DEF DataStep, RecvFind, RecvDeliver, RecvMismatch, RecvResume,
        RecvServerGone, RecvClose, Reading
  <2> QED BY <1>1, <1>2, <1>3, <2>1
<1>7. ASSUME ReleaseStep PROVE FALSE
  BY <1>0, <1>7 DEF ReleaseStep, ReleaseGate, ReleaseClose
<1>8. ASSUME UserStep PROVE Calms
  <2>1. ASSUME NEW t \in Txn, Begin(t) \/ TimeOut(t) \/ DeleteAsync(t)
        PROVE  Calms
    <3>1. \E to \in {"add", "done", "fin_inval", "del_tx", "deleted"} :
             pc' = [pc EXCEPT ![t] = to] /\ UNCHANGED accepting_txns
      BY <2>1 DEF Begin, TimeOut, WaitReturns, DeleteAsync
    <3> QED BY <1>1, <1>2, <3>1
  <2>2. ASSUME RegisterErrorCb PROVE Calms
    BY <1>3, <2>2 DEF RegisterErrorCb
  <2>3. ~ReleaseStart
    BY <1>0 DEF ReleaseStart
  <2> QED BY <1>8, <2>1, <2>2, <2>3 DEF UserStep
<1>9. ASSUME EnvStep PROVE Calms
  BY <1>3, <1>9 DEF EnvStep, Respond, UseAfterFree, ServerDies, Block, Unblock
<1>10. CASE UNCHANGED vars
  BY <1>3, <1>10 DEF vars, QuietInv, Calms
<1>11. Next => Calms \/ UNCHANGED vars
  BY <1>4, <1>5, <1>6, <1>7, <1>8, <1>9 DEF Next, Rest
<1> QED BY <1>10, <1>11 DEF QuietInv, Calms

RefsInv == TypeOK /\ OnceInv /\ LineInv /\ PendInv /\ CountInv /\ QuietInv

\* Before any call nothing is held and nothing counted.
LEMMA RefsInit == Init => RefsInv
<1> SUFFICES ASSUME Init PROVE RefsInv
  OBVIOUS
<1>1. TypeOK /\ OnceInv /\ LineInv /\ PendInv
  BY TypeInit, OwnedInit, LineInit, PendInit
<1>2. /\ \A th \in Thread : /\ pc[th] = "idle" /\ cur[th] = NoTxn
                            /\ moved[th] = {}
      /\ txn_list = {} /\ Elems(tx_q) = {} /\ accepting_txns
      /\ \A t \in Txn : ref_count[t] = 0
      /\ Txn \subseteq Thread /\ Releaser \in Thread
  BY DEF Init, Elems, Thread
<1>3. CountInv
  BY <1>2 DEF CountInv, Held, Open, Pending, Takes, Flushes, FlushHolds, OwnRef,
     QueueRef, One
<1>4. QuietInv
  BY <1>2 DEF QuietInv
<1> QED BY <1>1, <1>3, <1>4 DEF RefsInv

\* Every step keeps lists, threads and counts in balance.
LEMMA RefsStep == RefsInv /\ [Next]_vars => RefsInv'
<1> SUFFICES ASSUME RefsInv, [Next]_vars PROVE RefsInv'
  OBVIOUS
<1>1. TypeOK' /\ OnceInv' /\ LineInv' /\ QuietInv'
  BY TypeStep, OwnedStep, LineStep, QuietNext DEF RefsInv
<1>2. PICK a \in Thread : /\ Alone(a) /\ Passes(a)
                          /\ Working(a)' /\ Balanced(a)
  BY HandStep DEF RefsInv, RefInv, OnceInv
<1>3. PendInv'
  BY <1>2, PendKeeps DEF PendHand, RefsInv
<1>4. /\ Owned /\ Owned' /\ Queued /\ Queued' /\ CountInv
      /\ ref_count \in [Txn -> Nat] /\ ref_count' \in [Txn -> Nat]
  BY <1>1, <1>3 DEF RefsInv, OnceInv, PendInv, TypeOK, TxnType
<1>5. CountInv'
  BY <1>2, <1>4, BalanceKeeps
<1> QED BY <1>1, <1>3, <1>5 DEF RefsInv

------------------------------------------------------------------------------
(* What is held, counted thread by thread.                                 *)

\* th took t off txn_list, and does not hold it as its caller.
Grips(th, t) == Takes(th, t) /\ ~(pc[th] = "del_free" /\ th = t)

\* A set of at most one element has as many as it takes to be nonempty.
LEMMA LoneCard ==
  ASSUME NEW S, \A x, y \in S : x = y
  PROVE  Cardinality(S) = One(S # {}) /\ IsFiniteSet(S)
<1>1. CASE S = {}
  BY <1>1, FS_EmptySet DEF One
<1>2. CASE S # {}
  <2>1. PICK x \in S : S = {x}
    BY <1>2
  <2> QED BY <2>1, FS_Singleton DEF One
<1> QED BY <1>1, <1>2

\* Holders counts what Held adds up.
LEMMA HeldCounts ==
  ASSUME RefsInv, NEW t \in Txn
  PROVE  Held(t) = Holders(t)
<1>0. /\ Owned /\ Queued /\ Workings /\ tx_q \in Seq(Txn)
      /\ t \in Thread /\ t # NoTxn /\ LineInv
      /\ wire \in Seq(Txn) /\ queued \in Seq(Txn)
  BY TxnAssumption
  DEF RefsInv, OnceInv, PendInv, TypeOK, TxnType, WorldType, SeenType, Thread
<1> DEFINE A == {th \in Thread : Grips(th, t)}
           B == {th \in Thread : Flushes(th, t)}
           H1 == {th \in Thread : Holds(th, t) >= 1}
           H2 == {th \in Thread : Holds(th, t) = 2}
           Q == {i \in 1..Len(tx_q) : tx_q[i] = t}
<1>1. ASSUME NEW th \in Thread
      PROVE  Holds(th, t) = One(Grips(th, t)) + One(Flushes(th, t))
  <2>1. /\ cur[th] = t => pc[th] \in FlushHolds \cup {"recv_good", "recv_bad"}
        /\ t \in moved[th] => pc[th] = "cl_each"
    BY <1>0, <1>1 DEF Workings, Working
  <2> QED BY <2>1 DEF Holds, Grips, Takes, Flushes, FlushHolds, One
<1>2. H1 = A \cup B /\ H2 = A \cap B
  BY <1>1 DEF One
<1>3. /\ Cardinality(A) = One(A # {}) /\ IsFiniteSet(A)
      /\ Cardinality(B) = One(B # {}) /\ IsFiniteSet(B)
  <2>1. \A x, y \in A : x = y
    BY <1>0 DEF Owned, Grips
  <2>2. \A x, y \in B : x = y
    BY <1>0 DEF Queued
  <2> HIDE DEF A, B
  <2> QED BY <2>1, <2>2, LoneCard
<1>4. Cardinality(H1) + Cardinality(H2) = One(A # {}) + One(B # {})
  <2> HIDE DEF A, B, H1, H2
  <2>1. /\ Cardinality(A \cup B)
             = Cardinality(A) + Cardinality(B) - Cardinality(A \cap B)
        /\ IsFiniteSet(A \cap B)
    BY <1>3, FS_Union, FS_Intersection
  <2>2. Cardinality(A \cap B) \in Nat
    BY <2>1, FS_CardinalityType
  <2>3. One(A # {}) \in Nat /\ One(B # {}) \in Nat
    BY DEF One
  <2> QED BY <1>2, <1>3, <2>1, <2>2, <2>3
<1>5. Cardinality(Q) = One(t \in Elems(tx_q))
  <2>1. \A x, y \in Q : x = y
    BY <1>0, LineOnce DEF LineInv
  <2>2. Q # {} <=> t \in Elems(tx_q)
    BY DEF Elems
  <2>3. Cardinality(Q) = One(Q # {})
    <3> HIDE DEF Q
    <3> QED BY <2>1, LoneCard
  <2> QED BY <2>2, <2>3 DEF One
<1>6. CallerHolds(t) = One(OwnRef(t)) + One(QueueRef(t)) + One(pc[t] = "del_free")
  BY DEF CallerHolds, OwnRef, QueueRef, One
<1>7. One(Open(t)) = One(t \in txn_list) + One(A # {}) + One(pc[t] = "del_free")
  <2>1. pc[t] = "del_free" => Takes(t, t)
    BY DEF Takes
  <2>2. \A th \in Thread : Takes(th, t) <=> \/ th \in A
                                            \/ pc[t] = "del_free" /\ th = t
    BY <1>0 DEF Takes, Grips
  <2>3. A # {} => pc[t] # "del_free" /\ t \notin txn_list
    <3>1. ASSUME NEW x \in A PROVE pc[t] # "del_free" /\ t \notin txn_list
      BY <1>0, <2>1 DEF Owned, Grips
    <3> QED BY <3>1
  <2>4. pc[t] = "del_free" => t \notin txn_list
    BY <1>0, <2>1 DEF Owned
  <2>5. Open(t) <=> t \in txn_list \/ A # {} \/ pc[t] = "del_free"
    <3>1. A \subseteq Thread
      OBVIOUS
    <3> HIDE DEF A
    <3> QED BY <1>0, <2>2, <3>1 DEF Open
  <2> HIDE DEF A
  <2> QED BY <2>3, <2>4, <2>5 DEF One
<1>8. One(Pending(t)) = One(t \in Elems(tx_q)) + One(B # {})
  BY <1>0 DEF Pending, Queued, One
<1>9. Holders(t) = One(t \in txn_list) + Cardinality(Q) + CallerHolds(t)
                     + Cardinality(H1) + Cardinality(H2)
  BY DEF Holders, One
<1>10. /\ Cardinality(H1) \in Nat /\ Cardinality(H2) \in Nat
  <2>1. IsFiniteSet(A \cup B) /\ IsFiniteSet(A \cap B)
    <3> HIDE DEF A, B
    <3> QED BY <1>3, FS_Union, FS_Intersection
  <2> HIDE DEF A, B, H1, H2
  <2> QED BY <1>2, <2>1, FS_CardinalityType
<1>11. \A b : One(b) \in Nat
  BY DEF One
<1> DEFINE a1 == One(A # {})
           b1 == One(B # {})
           h1 == Cardinality(H1)
           h2 == Cardinality(H2)
           l == One(t \in txn_list)
           q == One(t \in Elems(tx_q))
           own == One(OwnRef(t))
           que == One(QueueRef(t))
           del == One(pc[t] = "del_free")
<1>12. /\ Held(t) = (l + a1 + del) + (q + b1) + own + que
       /\ Holders(t) = l + q + (own + que + del) + h1 + h2
       /\ h1 + h2 = a1 + b1
  BY <1>4, <1>5, <1>6, <1>7, <1>8, <1>9 DEF Held
<1>13. /\ a1 \in Nat /\ b1 \in Nat /\ h1 \in Nat /\ h2 \in Nat /\ l \in Nat
       /\ q \in Nat /\ own \in Nat /\ que \in Nat /\ del \in Nat
  BY <1>10, <1>11
<1> HIDE DEF a1, b1, h1, h2, l, q, own, que, del
<1> QED BY <1>12, <1>13

\* However sends, failures, timeouts, deletions, the loss of the server and
\* the release interleave, a reference count is never below the number of
\* references that lists and threads hold: no decrement comes without a
\* reference of its own (QMI_CCI_DEC_TXN).
THEOREM RefsCovered == Spec => [](\A t \in Txn : ref_count[t] >= Holders(t))
<1>1. RefsInv => \A t \in Txn : ref_count[t] >= Holders(t)
  BY HeldCounts DEF RefsInv, CountInv
<1> QED BY <1>1, RefsInit, RefsStep, PTL DEF Spec

\* As long as no send fails in the transport and the client is not released,
\* every count is the number of references held: nothing leaks.
THEOREM RefsExact == ASSUME Quiet PROVE Spec => []RefExact
<1>1. RefsInv => RefExact
  BY HeldCounts DEF RefsInv, CountInv, RefExact
<1> QED BY <1>1, RefsInit, RefsStep, PTL DEF Spec

------------------------------------------------------------------------------
(* Freed memory.                                                           *)

\* Nothing leads to cleanup_client_lists.
Calm == Env \cap {"death", "release", "service_err"} = {}

\* The client stays connected, so only a response or a failing send takes a
\* transaction off txn_list under its caller, and either comes when the request
\* was queued; what is freed is not counted any more.
CalmInv ==
  /\ category = "connected" /\ ~gone_evt
  /\ accepting_txns /\ pc[Releaser] = "idle"
  /\ \A th \in Thread : pc[th] \notin CleanPC /\ send_rc[th] # "service_err"
  /\ \A m \in inbox : m.txn \in Elems(wire)
  /\ \A t \in Txn : freed[t] => ref_count[t] = 0 /\ pc[t] \notin EntryPC
  /\ \A t \in Txn : pc[t] \in EntryPC => Fresh(t) \/ t \in txn_list

\* A step keeps the server, ...
Stays == /\ category' = "connected" /\ ~gone_evt'
         /\ accepting_txns' /\ pc'[Releaser] = "idle"
         /\ \A th \in Thread : /\ pc'[th] \notin CleanPC
                               /\ send_rc'[th] # "service_err"
         /\ \A m \in inbox' : m.txn \in Elems(wire')

\* ... frees with the last reference and counts up for an entering request
\* only, and unlists none that enters.
Counts ==
  \A t \in Txn :
    /\ freed'[t] => freed[t] \/ (ref_count[t] = 1 /\ ref_count'[t] = 0)
    /\ ref_count'[t] <= ref_count[t] \/ pc[t] \in EntryPC
    /\ pc'[t] \in EntryPC => Fresh(t)' \/ t \in txn_list'

\* The decrements.
LEMMA DecCounts ==
  ASSUME NEW S, Dec(S), ref_count \in [Txn -> Nat], freed \in [Txn -> BOOLEAN],
         NEW t \in Txn
  PROVE  /\ freed'[t] => freed[t] \/ (ref_count[t] = 1 /\ ref_count'[t] = 0)
         /\ ref_count'[t] <= ref_count[t]
BY DEF Dec

\* With the server there, and nobody releasing, this is all that happens to
\* counts and lists.
LEMMA CalmMoves ==
  ASSUME RefsInv, Calm, CalmInv, [Next]_vars
  PROVE  Stays /\ Counts
<1> USE DEF At, Goto, lists, memory, answer, locals, returns, txns, seen,
            client, world, server, flow
<1>0. /\ txn_list \subseteq Txn /\ inbox \subseteq [txn : Txn, good : BOOLEAN]
      /\ pc \in [Thread -> CallerPC \cup FlushPC \cup CleanPC \cup DataPC
                           \cup RelPC]
      /\ ref_count \in [Txn -> Nat] /\ freed \in [Txn -> BOOLEAN]
      /\ wire \in Seq(Txn) /\ tx_q \in Seq(Txn)
      /\ Txn \subseteq Thread /\ Data \in Thread /\ Releaser \in Thread
      /\ Data \notin Txn /\ Releaser \notin Txn /\ Data # Releaser
  BY TxnAssumption
  DEF RefsInv, TypeOK, TxnType, ThreadType, SeenType, WorldType, Thread, Txn
<1>00. /\ category = "connected" /\ ~gone_evt
       /\ \A th \in Thread : /\ pc[th] \notin CleanPC
                             /\ send_rc[th] # "service_err"
       /\ \A m \in inbox : m.txn \in Elems(wire)
       /\ \A t \in Txn : pc[t] \in EntryPC => Fresh(t) \/ t \in txn_list
       /\ accepting_txns /\ pc[Releaser] = "idle"
       /\ "release" \notin Env /\ "service_err" \notin Env
       /\ "death" \notin Env
       /\ \A m \in inbox : pc[m.txn] \notin EntryPC
       /\ \A th \in Thread : \A t \in Txn : Flushes(th, t) => pc[t] \notin EntryPC
       /\ send_rc \in [Thread -> Codes]
  <2>1. \A m \in inbox : pc[m.txn] \notin EntryPC
    BY <1>0 DEF CalmInv, RefsInv, LineInv, InLine
  <2>2. \A th \in Thread : \A t \in Txn : Flushes(th, t) => pc[t] \notin EntryPC
    BY DEF RefsInv, PendInv, Queued, OutsidePC
  <2> QED BY <2>1, <2>2 DEF CalmInv, Calm, RefsInv, TypeOK, ThreadType
<1> DEFINE Keeps == UNCHANGED <<category, gone_evt, accepting_txns, send_rc, inbox,
                              wire>>
           Holding == UNCHANGED <<ref_count, freed>>
<1>1. ASSUME Keeps, UNCHANGED pc PROVE Stays
  BY <1>00, <1>1 DEF Stays
<1>2. ASSUME Keeps, NEW a \in Thread, a # Releaser, NEW to,
             to \notin CleanPC,
             pc' = [pc EXCEPT ![a] = to]
      PROVE  Stays
  BY <1>0, <1>00, <1>2 DEF Stays
<1>3. ASSUME Holding, UNCHANGED txn_list, UNCHANGED pc PROVE Counts
  BY <1>0, <1>00, <1>3 DEF Counts, Fresh
<1>4. ASSUME Holding, txn_list \subseteq txn_list', NEW a \in Thread, NEW to,
             pc' = [pc EXCEPT ![a] = to], a \in Txn => to \notin EntryPC
      PROVE  Counts
  BY <1>0, <1>00, <1>4 DEF Counts, Fresh
<1>5. ASSUME NEW a \in Thread, NEW to, pc' = [pc EXCEPT ![a] = to],
             a \in Txn => to \notin EntryPC, NEW S, Dec(S),
             txn_list \ {a} \subseteq txn_list'
      PROVE  Counts
  <2>1. ASSUME NEW t \in Txn, pc'[t] \in EntryPC
        PROVE  Fresh(t)' \/ t \in txn_list'
    BY <1>0, <1>00, <1>5, <2>1 DEF Fresh
  <2>2. \A t \in Txn :
          /\ freed'[t] => freed[t] \/ (ref_count[t] = 1 /\ ref_count'[t] = 0)
          /\ ref_count'[t] <= ref_count[t]
    BY <1>0, <1>5, DecCounts
  <2> QED BY <2>1, <2>2 DEF Counts
<1> HIDE DEF Stays, Counts
<1>10. ASSUME NEW t \in Txn, CallerStep(t) PROVE Stays /\ Counts
  <2>0. Keeps
    BY <1>10 DEF CallerStep, GetTxn, TakeOwnRef, PrepareWait, CheckServer,
       TakeQueueRef, Enqueue, UndoQueueRef, AbandonAsync, WakeUp, WaitReturns,
       Invalidate, RemoveSync, DropOwnRef, DeleteFromTxQ, DeleteFromList,
       DeleteFree, SendFailed
  <2>1. CASE GetTxn(t)
    <3>1. Stays
      BY <1>0, <1>2, <2>0, <2>1 DEF GetTxn, CleanPC
    <3>2. Counts
      BY <1>0, <1>00, <2>1 DEF GetTxn, Counts, Fresh, EntryPC
    <3> QED BY <3>1, <3>2
  <2>2. CASE TakeOwnRef(t) \/ TakeQueueRef(t)
    <3>1. Stays
      BY <1>0, <1>2, <2>0, <2>2 DEF TakeOwnRef, TakeQueueRef, CleanPC
    <3>2. PICK to \in {"prep", "enq"} :
            /\ pc' = [pc EXCEPT ![t] = to] /\ UNCHANGED <<txn_list, freed>>
            /\ ref_count' = [ref_count EXCEPT ![t] = @ + 1]
      BY <2>2 DEF TakeOwnRef, TakeQueueRef, Inc
    <3>3. t \in txn_list /\ pc[t] \in EntryPC
      BY <1>00, <2>2 DEF TakeOwnRef, TakeQueueRef, EntryPC, Fresh
    <3>4. Counts
      BY <1>0, <1>00, <3>2, <3>3 DEF Counts, Fresh
    <3> QED BY <3>1, <3>4
  <2>3. CASE PrepareWait(t)
    <3>1. Stays
      BY <1>0, <1>2, <2>0, <2>3 DEF PrepareWait, CleanPC
    <3>2. Counts
      BY <1>0, <1>00, <2>3 DEF PrepareWait, Counts, Fresh, EntryPC
    <3> QED BY <3>1, <3>2
  <2>4. CASE CheckServer(t)
    <3>1. Stays
      BY <1>0, <1>2, <2>0, <2>4 DEF CheckServer, SendFailed, CleanPC
    <3>2. Counts
      BY <1>0, <1>00, <2>4 DEF CheckServer, SendFailed, Counts, Fresh, EntryPC
    <3> QED BY <3>1, <3>2
  <2>5. CASE WakeUp(t) \/ Invalidate(t) \/ DeleteFromList(t) \/ Enqueue(t)
    <3>1. \E to \in {pc[t], "fin_inval", "fin_remove", "del_free", "deleted",
                     "fl_addr", "wait", "done"} :
             pc' = [pc EXCEPT ![t] = to]
      BY <1>0, <1>00, <2>5 DEF WakeUp, WaitReturns, Invalidate, DeleteFromList,
         Enqueue, AfterSend
    <3>2. /\ Holding /\ txn_list \ {t} \subseteq txn_list'
          /\ t \notin txn_list' => t \notin txn_list \/ pc'[t] \notin EntryPC
          /\ pc[t] \in {"enq", "wait", "fin_inval", "del_list"}
          /\ pc'[t] \in EntryPC => FALSE
      BY <1>0, <1>00, <2>5 DEF WakeUp, WaitReturns, Invalidate, DeleteFromList,
         Enqueue, AfterSend, EntryPC
    <3>3. Stays
      BY <1>0, <1>00, <1>2, <2>0, <3>1 DEF CleanPC
    <3>4. Counts
      BY <1>0, <1>00, <3>1, <3>2 DEF Counts, Fresh
    <3> QED BY <3>3, <3>4
  <2>6. CASE AbandonAsync(t)
    <3>1. Stays
      BY <1>0, <1>2, <2>0, <2>6 DEF AbandonAsync, CleanPC
    <3>2. CASE Dec({t})
      BY <1>0, <1>5, <2>6, <3>1, <3>2 DEF AbandonAsync, EntryPC
    <3>3. CASE Holding /\ t \notin txn_list
      BY <1>0, <1>4, <2>6, <3>1, <3>3 DEF AbandonAsync, EntryPC
    <3> QED BY <2>6, <3>1, <3>2, <3>3 DEF AbandonAsync
  <2>7. CASE UndoQueueRef(t) \/ RemoveSync(t) \/ DropOwnRef(t)
             \/ DeleteFromTxQ(t) \/ DeleteFree(t)
    <3>1. PICK to \in {"fin_inval", "failed", "fin_dec", "done", "del_list",
                       "deleted"} : pc' = [pc EXCEPT ![t] = to]
      BY <2>7 DEF UndoQueueRef, SendFailed, RemoveSync, DropOwnRef,
         DeleteFromTxQ, DeleteFree
    <3>2. to \notin CleanPC /\ to \notin EntryPC
      BY <3>1 DEF CleanPC, EntryPC
    <3>3. txn_list \ {t} \subseteq txn_list'
      BY <2>7 DEF UndoQueueRef, RemoveSync, DropOwnRef, DeleteFromTxQ, DeleteFree
    <3>4. \E S \in {{t}, {t} \cap txn_list, {t} \cap Elems(tx_q)} : Dec(S)
      BY <2>7 DEF UndoQueueRef, RemoveSync, DropOwnRef, DeleteFromTxQ, DeleteFree
    <3>5. Stays
      BY <1>0, <1>2, <2>0, <3>1, <3>2
    <3>6. Counts
      BY <1>0, <1>5, <3>1, <3>2, <3>3, <3>4
    <3> QED BY <3>5, <3>6
  <2> QED BY <1>10, <2>1, <2>2, <2>3, <2>4, <2>5, <2>6, <2>7 DEF CallerStep
<1>11. ASSUME NEW th \in Thread, FlushStep(th) PROVE Stays /\ Counts
  <2>1. th # Releaser /\ UNCHANGED <<category, gone_evt, accepting_txns, inbox>>
    BY <1>00, <1>11 DEF FlushStep, FlushStart, FlushDone, FlushBusy, FlushSend,
       FlushFind, FlushError, FlushDrop
  <2>2. PICK to \in {"fl_send", "wait", "done", "idle", "fl_dec", "fl_find",
                     "fl_error"} : /\ pc' = [pc EXCEPT ![th] = to]
                                   /\ th \in Txn => to # "idle"
    BY <1>00, <1>11 DEF FlushStep, FlushStart, FlushDone, FlushBusy,
       FlushSend, FlushFind, FlushError, FlushDrop, FlushExit, AfterSend,
       AfterSendError
  <2>3. to \notin CleanPC /\ (th \in Txn => to \notin EntryPC)
    BY <2>2 DEF CleanPC, EntryPC
  <2>4. Elems(wire) \subseteq Elems(wire')
    <3>1. \/ wire' = wire
          \/ tx_q # <<>> /\ wire' = Append(wire, Head(tx_q))
      BY <1>11 DEF FlushStep, FlushStart, FlushDone, FlushBusy, FlushSend,
         FlushFind, FlushError, FlushDrop
    <3>2. tx_q # <<>> => Head(tx_q) \in Txn
      BY <1>0
    <3>3. tx_q # <<>> =>
            Elems(Append(wire, Head(tx_q))) = Elems(wire) \cup {Head(tx_q)}
      BY <1>0, <3>2, ElemsAppend
    <3> QED BY <3>1, <3>3
  <2>5. \A a \in Thread : send_rc'[a] # "service_err"
    <3>1. \/ UNCHANGED send_rc
          \/ \E a \in {"ok", "invalid_clnt", "transport_err"} :
                send_rc' = [send_rc EXCEPT ![th] = a]
      BY <1>00, <1>11 DEF FlushStep, FlushStart, FlushDone, FlushBusy,
         FlushSend, FlushFind, FlushError, FlushDrop, SendAnswers
    <3> QED BY <1>00, <3>1
  <2>6. Stays
    BY <1>0, <1>00, <2>1, <2>2, <2>3, <2>4, <2>5 DEF Stays
  <2>7. CASE FlushFind(th)
    <3>1. Holding /\ txn_list \ {cur[th]} \subseteq txn_list' /\ pc[th] = "fl_find"
      BY <2>7 DEF FlushFind
    <3>2. \A t \in Txn : pc'[t] \in EntryPC => pc[t] \in EntryPC /\ pc'[t] = pc[t]
      BY <1>0, <2>2, <2>3
    <3>3. \A t \in Txn : cur[th] = t => pc[t] \notin EntryPC
      BY <1>00, <3>1 DEF Flushes, FlushHolds
    <3>4. Counts
      BY <1>0, <1>00, <3>1, <3>2, <3>3 DEF Counts, Fresh
    <3> QED BY <2>6, <3>4
  <2>8. CASE ~FlushFind(th)
    <3>1. UNCHANGED txn_list
      BY <1>11, <2>8 DEF FlushStep, FlushStart, FlushDone, FlushBusy, FlushSend,
         FlushError, FlushDrop
    <3>2. Holding \/ \E S \in {{cur[th]} \ {NoTxn}, {cur[th]}} : Dec(S)
      BY <1>11, <2>8 DEF FlushStep, FlushStart, FlushDone, FlushBusy, FlushSend,
         FlushError, FlushDrop
    <3>3. Counts
      BY <1>0, <1>4, <1>5, <2>2, <2>3, <3>1, <3>2
    <3> QED BY <2>6, <3>3
  <2> QED BY <2>7, <2>8
<1>12. ASSUME NEW th \in Thread, CleanStep(th) PROVE FALSE
  BY <1>00, <1>12 DEF CleanStep, ServerError, CleanTxQ, CleanList, CleanEach,
     CleanDone, CleanPC
<1>13. ASSUME DataStep PROVE Stays /\ Counts
  <2>1. ASSUME NEW m \in inbox, RecvFind(m) PROVE Stays /\ Counts
    <3>1. /\ inbox' \subseteq inbox
          /\ UNCHANGED <<category, gone_evt, accepting_txns, send_rc, wire>>
          /\ Holding /\ txn_list \ {m.txn} \subseteq txn_list'
          /\ m.txn \in Txn /\ pc[m.txn] \notin EntryPC
      BY <1>0, <1>00, <2>1 DEF RecvFind
    <3>2. \/ UNCHANGED pc
          \/ \E to \in {"recv_good", "recv_bad"} : pc' = [pc EXCEPT ![Data] = to]
      BY <2>1 DEF RecvFind
    <3>3. /\ \A t \in Txn : pc'[t] = pc[t]
          /\ \A a \in Thread : pc'[a] \notin CleanPC
          /\ pc'[Releaser] = "idle"
      BY <1>0, <1>00, <3>2 DEF CleanPC
    <3>4. Stays
      BY <1>00, <3>1, <3>3 DEF Stays
    <3>5. Counts
      BY <1>0, <1>00, <3>1, <3>3 DEF Counts, Fresh
    <3> QED BY <3>4, <3>5
  <2>2. ASSUME RecvDeliver \/ RecvMismatch PROVE Stays /\ Counts
    <3>1. /\ Keeps /\ UNCHANGED txn_list /\ pc' = [pc EXCEPT ![Data] = "idle"]
          /\ Dec({cur[Data]})
      BY <2>2 DEF RecvDeliver, RecvMismatch
    <3>2. \A t \in Txn : pc'[t] = pc[t]
      BY <1>0, <3>1
    <3>3. \A t \in Txn :
            /\ freed'[t] => freed[t] \/ (ref_count[t] = 1 /\ ref_count'[t] = 0)
            /\ ref_count'[t] <= ref_count[t]
      BY <1>0, <3>1, DecCounts
    <3>4. Counts
      BY <1>00, <3>1, <3>2, <3>3 DEF Counts, Fresh
    <3> QED BY <1>0, <1>2, <3>1, <3>4 DEF CleanPC
  <2>3. ASSUME RecvResume \/ RecvClose PROVE Stays /\ Counts
    <3>1. PICK to \in {"fl_addr", "stopped"} :
            /\ pc' = [pc EXCEPT ![Data] = to]
            /\ Keeps /\ Holding /\ UNCHANGED txn_list
      BY <2>3 DEF RecvResume, RecvClose
    <3>2. to \notin CleanPC /\ to \notin EntryPC
      BY <3>1 DEF CleanPC, EntryPC
    <3> QED BY <1>0, <1>2, <1>4, <3>1, <3>2
  <2>4. ~RecvServerGone
    BY <1>00 DEF RecvServerGone
  <2> QED BY <1>13, <2>1, <2>2, <2>3, <2>4 DEF DataStep
<1>14. ASSUME ReleaseStep PROVE FALSE
  BY <1>00, <1>14 DEF ReleaseStep, ReleaseGate, ReleaseClose
<1>15. ASSUME UserStep PROVE Stays /\ Counts
  <2>1. ASSUME NEW t \in Txn, Begin(t) PROVE Stays /\ Counts
    <3>1. PICK to \in {"add", "done"} : /\ pc' = [pc EXCEPT ![t] = to]
                                        /\ pc[t] = "idle" /\ Keeps
                                        /\ Holding /\ UNCHANGED txn_list
      BY <2>1 DEF Begin
    <3>2. Counts
      BY <1>0, <1>00, <3>1 DEF Counts, Fresh, EntryPC
    <3> QED BY <1>0, <1>2, <3>1, <3>2 DEF CleanPC
  <2>2. ASSUME NEW t \in Txn, TimeOut(t) \/ DeleteAsync(t) PROVE Stays /\ Counts
    <3>1. PICK to \in {"fin_inval", "del_tx", "deleted"} :
            /\ pc' = [pc EXCEPT ![t] = to]
            /\ Keeps /\ Holding /\ UNCHANGED txn_list
      BY <2>2 DEF TimeOut, WaitReturns, DeleteAsync
    <3>2. to \notin CleanPC /\ to \notin EntryPC
      BY <3>1 DEF CleanPC, EntryPC
    <3> QED BY <1>0, <1>2, <1>4, <3>1, <3>2
  <2>3. ASSUME RegisterErrorCb PROVE Stays /\ Counts
    BY <1>1, <1>3, <2>3 DEF RegisterErrorCb
  <2>4. ~ReleaseStart
    BY <1>00 DEF ReleaseStart
  <2> QED BY <1>15, <2>1, <2>2, <2>3, <2>4 DEF UserStep
<1>16. ASSUME EnvStep PROVE Stays /\ Counts
  <2>1. /\ Holding
        /\ UNCHANGED <<txn_list, pc, category, accepting_txns, send_rc, wire>>
        /\ ~ServerDies
    BY <1>00, <1>16 DEF EnvStep, Respond, UseAfterFree, ServerDies, Block,
       Unblock
  <2>2. /\ UNCHANGED gone_evt
        /\ \/ UNCHANGED inbox
           \/ \E t \in Txn : Respond(t)
    BY <1>16, <2>1 DEF EnvStep, Respond, UseAfterFree, Block, Unblock
  <2>3. \A m \in inbox' : m \in inbox \/ m.txn \in Elems(wire)
    <3>1. CASE UNCHANGED inbox
      BY <3>1
    <3>2. ASSUME NEW t \in Txn, Respond(t)
          PROVE  \A m \in inbox' : m \in inbox \/ m.txn \in Elems(wire)
      <4>1. PICK good : inbox' = inbox \cup {[txn |-> t, good |-> good]}
        BY <3>2 DEF Respond
      <4>2. t \in Elems(wire)
        BY <3>2 DEF Respond
      <4> QED BY <4>1, <4>2
    <3> QED BY <2>2, <3>1, <3>2
  <2>4. Stays
    BY <1>00, <2>1, <2>2, <2>3 DEF Stays
  <2> QED BY <1>3, <2>1, <2>4
<1>17. CASE UNCHANGED vars
  BY <1>1, <1>3, <1>17 DEF vars
<1>18. Next => (Stays /\ Counts) \/ UNCHANGED vars
  BY <1>10, <1>11, <1>12, <1>13, <1>14, <1>15, <1>16 DEF Next, Rest
<1> QED BY <1>17, <1>18

\* What is freed stays uncounted: nobody who enters holds it.
LEMMA CalmStep ==
  ASSUME RefsInv, RefsInv', Calm, CalmInv, [Next]_vars
  PROVE  CalmInv'
<1>1. Stays /\ Counts
  BY CalmMoves
<1>2. \A t \in Txn : pc'[t] \in EntryPC => pc[t] \in EntryPC
  BY LineMoves DEF RefsInv
<1>3. ref_count \in [Txn -> Nat] /\ ref_count' \in [Txn -> Nat]
  BY DEF RefsInv, TypeOK, TxnType
<1>5. ASSUME NEW t \in Txn, t \in txn_list' PROVE ref_count'[t] > 0
  <2>1. ref_count'[t] >= Held(t)'
    BY DEF RefsInv, CountInv
  <2>2. Held(t)' >= 1
    BY <1>5 DEF Held, Open, One
  <2>3. Held(t)' \in Nat
    BY DEF Held, One
  <2> HIDE DEF Held
  <2> QED BY <1>3, <2>1, <2>2, <2>3
<1>7. \A t \in Txn : Fresh(t)' => ref_count[t] = 0
  <2>1. PICK a \in Thread : Balanced(a)
    BY HandStep DEF RefsInv, RefInv, OnceInv
  <2> QED BY <2>1 DEF Balanced, Evens, RefsInv, CountInv
<1>6. ASSUME NEW t \in Txn, freed'[t]
      PROVE  ref_count'[t] = 0 /\ pc'[t] \notin EntryPC
  <2>1. CASE freed[t]
    <3>1. ref_count[t] = 0 /\ pc[t] \notin EntryPC
      BY <2>1 DEF CalmInv
    <3> QED BY <1>1, <1>2, <1>3, <3>1 DEF Counts
  <2>2. CASE ref_count[t] = 1 /\ ref_count'[t] = 0
    <3>1. ASSUME pc'[t] \in EntryPC PROVE FALSE
      <4>1. t \notin txn_list'
        BY <1>5, <2>2
      <4>2. Fresh(t)'
        BY <1>1, <3>1, <4>1 DEF Counts
      <4> QED BY <1>7, <2>2, <4>2
    <3> QED BY <2>2, <3>1
  <2> QED BY <1>1, <1>6, <2>1, <2>2 DEF Counts
<1> QED BY <1>1, <1>6 DEF CalmInv, Stays, Counts

\* As long as nothing leads to cleanup_client_lists (the loss of the server, a
\* send that finds it gone, the release), no thread is about to use, and no
\* list links, a freed transaction. With any of them the cleanup may free a
\* transaction between its insertion in txn_list and the caller's own reference:
\* see SyncFreedByCaller.
THEOREM CalmNoUseAfterFree == ASSUME Calm PROVE Spec => []NoUseAfterFree
<1>1. Init => CalmInv
  <2> SUFFICES ASSUME Init PROVE CalmInv
    OBVIOUS
  <2>1. /\ category = "connected" /\ ~gone_evt /\ inbox = {}
        /\ \A th \in Thread : pc[th] = "idle" /\ send_rc[th] = "ok"
        /\ accepting_txns /\ Releaser \in Thread
        /\ \A t \in Txn : ~freed[t] /\ t \in Thread
    BY DEF Init, Thread
  <2> QED BY <2>1 DEF CalmInv, CleanPC, Fresh
<1>2. RefsInv /\ RefsInv' /\ CalmInv /\ [Next]_vars => CalmInv'
  BY CalmStep
<1>3. RefsInv /\ CalmInv => NoUseAfterFree
  <2> SUFFICES ASSUME RefsInv, CalmInv, NEW t \in Txn, freed[t]
               PROVE  /\ pc[t] \notin UsesOwnTxn
                      /\ t \notin txn_list \cup Elems(tx_q)
                      /\ \A th \in Thread : cur[th] # t /\ t \notin moved[th]
    BY DEF NoUseAfterFree
  <2>1. ref_count[t] = 0 /\ pc[t] \notin EntryPC
    BY DEF CalmInv
  <2>2. Held(t) = 0
    <3>1. ref_count[t] >= Held(t)
      BY DEF RefsInv, CountInv
    <3>2. Held(t) \in Nat
      BY DEF Held, One
    <3> HIDE DEF Held
    <3> QED BY <2>1, <3>1, <3>2
  <2>3. ~Open(t) /\ ~Pending(t) /\ ~OwnRef(t) /\ ~QueueRef(t)
    <3>1. /\ One(Open(t)) \in Nat /\ One(Pending(t)) \in Nat
          /\ One(OwnRef(t)) \in Nat /\ One(QueueRef(t)) \in Nat
          /\ One(Open(t)) + One(Pending(t)) + One(OwnRef(t)) + One(QueueRef(t))
               = 0
      BY <2>2 DEF Held, One
    <3>2. /\ One(Open(t)) = 0 /\ One(Pending(t)) = 0
          /\ One(OwnRef(t)) = 0 /\ One(QueueRef(t)) = 0
      <4> HIDE DEF One
      <4> QED BY <3>1
    <3> QED BY <3>2 DEF One
  <2>4. t \notin txn_list \cup Elems(tx_q)
    BY <2>3 DEF Open, Pending
  <2>5. ASSUME NEW th \in Thread PROVE cur[th] # t /\ t \notin moved[th]
    <3>1. Working(th)
      BY DEF RefsInv, PendInv, Workings
    <3>2. ~Takes(th, t) /\ ~Flushes(th, t)
      BY <2>3 DEF Open, Pending
    <3> QED BY <3>1, <3>2 DEF Working, Takes, Flushes
  <2>6. pc[t] \notin UsesOwnTxn
    <3>1. t \in SyncTxn => pc[t] \in {"idle", "add", "inc_own", "done"}
      BY <2>3 DEF OwnRef
    <3>2. t \in AsyncTxn =>
            pc[t] \notin {"inc_own", "prep", "wait", "fin_inval", "fin_dec"}
      BY DEF RefsInv, OnceInv, AsyncPath
    <3> QED BY <2>1, <2>3, <3>1, <3>2 DEF EntryPC, QueueRef, UsesOwnTxn, Txn
  <2> QED BY <2>4, <2>5, <2>6
<1> QED BY <1>1, <1>2, <1>3, RefsInit, RefsStep, PTL DEF Spec
=============================================================================
