------------------------------ MODULE QmiCalls ------------------------------
(***************************************************************************)
(* What the client API of qmi-framework/inc/qmi_client.h promises for each *)
(* request: the abstract specification QcciTxn is checked against.         *)
(* An asynchronous call is refused (the send returns an error), called     *)
(* back once, or cancelled by qmi_client_delete_async_txn; a synchronous   *)
(* call is refused or returns with its response. The response buffer is    *)
(* written only while the call is pending, at most once.                   *)
(***************************************************************************)
CONSTANTS SyncCall, AsyncCall
VARIABLES call, buffer

Call == SyncCall \cup AsyncCall
CallStates == {"new", "pending", "called_back", "cancelled", "refused",
               "returned"}

Init == /\ call = [c \in Call |-> "new"]
        /\ buffer = [c \in Call |-> "empty"]

Move(c, from, to) == /\ call[c] = from
                     /\ call' = [call EXCEPT ![c] = to]

Issue(c) == Move(c, "new", "pending") /\ UNCHANGED buffer

\* The call returns an error; a synchronous one may have received a response
\* it no longer reports (the timer expired first).
Refuse(c) == /\ Move(c, "new", "refused") \/ Move(c, "pending", "refused")
             /\ UNCHANGED buffer

\* The response of a synchronous call reaches the caller's buffer ...
Fill(c) == /\ call[c] = "pending" /\ buffer[c] = "empty"
           /\ buffer' = [buffer EXCEPT ![c] = "full"]
           /\ UNCHANGED call

\* ... and only then does the call succeed.
Return(c) == /\ Move(c, "pending", "returned") /\ buffer[c] = "full"
             /\ UNCHANGED buffer

\* The callback of an asynchronous call, with the response or an error.
CallBack(c) == /\ Move(c, "pending", "called_back")
               /\ buffer' \in {buffer, [buffer EXCEPT ![c] = "full"]}

Cancel(c) == Move(c, "pending", "cancelled") /\ UNCHANGED buffer

Next == \/ \E c \in Call : Issue(c) \/ Refuse(c)
        \/ \E c \in SyncCall : Fill(c) \/ Return(c)
        \/ \E c \in AsyncCall : CallBack(c) \/ Cancel(c)

Spec == Init /\ [][Next]_<<call, buffer>>
=============================================================================
