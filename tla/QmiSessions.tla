----------------------------- MODULE QmiSessions -----------------------------
(***************************************************************************)
(* What a QMI service may rely on, whatever its threads do: a client's     *)
(* requests are taken within a session of that client only, each ends at   *)
(* most once, and those that are open when the session ends are dropped.   *)
(***************************************************************************)
EXTENDS Naturals

CONSTANTS Port, MaxReq

Request == Port \X (1..MaxReq)

VARIABLES session,  \* clients with a session
          request   \* the state of each request

vars == <<session, request>>

Init == session = {} /\ request = [r \in Request |-> "new"]

\* A request starts; the first one of a client also starts its session.
Take(r) ==
  /\ request[r] = "new"
  /\ session' = session \cup {r[1]}
  /\ request' = [request EXCEPT ![r] = "open"]

\* It ends: an answer is on its way, or could not be sent.
Answer(r, how) ==
  /\ \/ request[r] = "open" /\ r[1] \in session
     \/ request[r] = "new"     \* a client that gets no session
     \/ request[r] = "failed"  \* the error after an answer that failed
  /\ how \in {"answered", "failed"}
  /\ request' = [request EXCEPT ![r] = how]
  /\ UNCHANGED session

\* Clients leave: what they still waited for is dropped.
Leave(P) ==
  /\ P # {} /\ P \subseteq session
  /\ session' = session \ P
  /\ request' = [r \in Request |->
                   IF r[1] \in P /\ request[r] = "open" THEN "dropped"
                   ELSE request[r]]

Next ==
  \/ \E r \in Request : Take(r) \/ \E how \in {"answered", "failed"} :
                                     Answer(r, how)
  \/ \E P \in SUBSET Port : Leave(P)

Spec == Init /\ [][Next]_vars
=============================================================================
