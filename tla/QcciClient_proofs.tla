------------------------- MODULE QcciClient_proofs -------------------------
(***************************************************************************)
(* Proofs about the life of QMI clients and notifiers (QcciClient), for    *)
(* any number of threads, servers and handles: reference counts are exact, *)
(* nothing is used after it was freed, the loss of a server reaches the    *)
(* client that was given to its user, and who waits for a server that is   *)
(* there will be woken.                                                    *)
(***************************************************************************)
EXTENDS QcciClient, FiniteSetTheorems, TLAPS

------------------------------------------------------------------------------
(* Lists.                                                                  *)

\* What a queue holds after an element is added ...
LEMMA ElemsAppend ==
  ASSUME NEW S, NEW q \in Seq(S), NEW e \in S
  PROVE  Elems(Append(q, e)) = Elems(q) \cup {e}
BY DEF Elems

\* ... and after its head was read.
LEMMA ElemsTail ==
  ASSUME NEW S, NEW q \in Seq(S), q # <<>>
  PROVE  /\ Head(q) \in S /\ Tail(q) \in Seq(S)
         /\ Elems(q) = {Head(q)} \cup Elems(Tail(q))
<1>1. Len(q) \in Nat /\ Len(q) > 0 /\ Head(q) = q[1] /\ Tail(q) \in Seq(S)
  OBVIOUS
<1>2. Len(Tail(q)) = Len(q) - 1
  OBVIOUS
<1>3. \A i \in 1..Len(Tail(q)) : Tail(q)[i] = q[i + 1]
  OBVIOUS
<1>4. ASSUME NEW e \in Elems(q) PROVE e = Head(q) \/ e \in Elems(Tail(q))
  <2>1. PICK i \in 1..Len(q) : e = q[i]
    BY DEF Elems
  <2>2. CASE i = 1
    BY <1>1, <2>1, <2>2
  <2>3. CASE i # 1
    <3>1. i - 1 \in 1..Len(Tail(q)) /\ Tail(q)[i - 1] = q[i]
      BY <1>1, <1>2, <1>3, <2>1, <2>3
    <3> QED BY <2>1, <3>1 DEF Elems
  <2> QED BY <2>2, <2>3
<1>5. ASSUME NEW e, e = Head(q) \/ e \in Elems(Tail(q)) PROVE e \in Elems(q)
  <2>1. CASE e = Head(q)
    BY <1>1, <2>1 DEF Elems
  <2>2. CASE e \in Elems(Tail(q))
    <3>1. PICK i \in 1..Len(Tail(q)) : e = Tail(q)[i]
      BY <2>2 DEF Elems
    <3>2. i + 1 \in 1..Len(q) /\ q[i + 1] = e
      BY <1>1, <1>2, <1>3, <3>1
    <3> QED BY <3>2 DEF Elems
  <2> QED BY <1>5, <2>1, <2>2
<1> QED BY <1>1, <1>4, <1>5

------------------------------------------------------------------------------
(* The inductive invariant.                                                *)

\* The client belongs to its user; before, its thread was initialising it.
OwnPc == {"ready", "stop", "close", "rput", "rwait", "gone"}
MePc == InitHolds \cup OwnPc
NoMePc == {"count", "look", "alloc", "nalloc", "nlist", "nlook", "clear",
           "wait", "failed"}
NotePc == {"nlist", "nlook", "clear", "wait", "nrel", "nclose", "nput"}
NoNotePc == OwnPc \cup {"nalloc", "failed"}

\* The transport of the client is open and stays so for the time being.
OpenPc == {"list", "link", "relook", "put_ok", "nrel", "nclose", "nput",
           "ready", "stop", "close"}

\* Where a thread has a client and a notifier.
PlacePart(t) ==
  /\ pc[t] \in MePc => me[t] # NoClid
  /\ pc[t] \in NoMePc => me[t] = NoClid
  /\ pc[t] \in NotePc => note[t] # NoClid
  /\ pc[t] \in NoNotePc => note[t] = NoClid

\* What a thread may rely on of its client ...
ClientPart(t) ==
  me[t] # NoClid =>
    /\ me[t] < next_clid /\ category[me[t]] \in {"connected", "dormant"}
    /\ pc[t] = "open" => data[me[t]] = "none" /\ me[t] \notin list
    /\ pc[t] \in OpenPc => data[me[t]] = "poll"
    /\ pc[t] \in OpenPc \cup {"open"} => "d" \notin Elems(pipe[me[t]])
    /\ pc[t] \in OpenPc \ {"list"} => me[t] \in list
    /\ pc[t] \in OwnPc \ {"ready", "stop"} => me[t] \notin accepting
    /\ pc[t] \in {"open", "list", "link", "relook"} => server[me[t]] = found[t]

\* ... and of its notifier.
NotePart(t) ==
  note[t] # NoClid =>
    /\ note[t] < next_clid /\ category[note[t]] = "notifier"
    /\ note[t] \in list <=> pc[t] \notin {"nlist", "nput"}

\* No two threads have the same client or notifier.
Distinct ==
  \A t, u \in Thread : t # u =>
    /\ me[t] = me[u] => me[t] = NoClid
    /\ note[t] = note[u] => note[t] = NoClid

\* What is so of every object, whoever has it.
UnusedPart(c) ==
  c >= next_clid => /\ obj[c] = "unused" /\ ref_count[c] = 0 /\ c \notin list
                    /\ data[c] = "none" /\ call[c] = "none" /\ pipe[c] = <<>>

AlivePart(c) ==
  /\ obj[c] = "live" <=> ref_count[c] > 0
  /\ c \in tbl => obj[c] = "live"

CallPart(c) ==
  /\ call[c] # "none" => \E t \in Thread : me[t] = c /\ pc[t] \in OwnPc
  /\ call[c] = "send" => c \in accepting

WalkPart(c) ==
  /\ category[c] = "notifier" => data[c] = "none"
  /\ c \in todo => c \in list

\* A reference each for the function that initialises or releases the object,
\* for its transport and for a call.
One(b) == IF b THEN 1 ELSE 0

ClientHeld(c) ==
  \E t \in Thread : me[t] = c /\ pc[t] \in InitHolds \cup ReleaseHolds

NoteHeld(c) ==
  \E t \in Thread : note[t] = c /\ pc[t] \in {"nlist", "nlook", "nclose", "nput"}

ClientOpens(c) == \E t \in Thread : me[t] = c /\ pc[t] = "open"
NoteOpens(c) == \E t \in Thread : note[t] = c /\ pc[t] = "nlist"

TransportHeld(c) ==
  data[c] \in {"poll", "closing"} \/ c \in list \/ ClientOpens(c) \/ NoteOpens(c)

RefPart(c) ==
  ref_count[c] = One(ClientHeld(c)) + One(NoteHeld(c)) + One(TransportHeld(c))
                   + One(call[c] # "none")

Places     == \A t \in Thread : PlacePart(t)
Clients    == \A t \in Thread : ClientPart(t)
Notes      == \A t \in Thread : NotePart(t)
Unused     == \A c \in Clid : UnusedPart(c)
Alive      == \A c \in Clid : AlivePart(c)
Calls      == \A c \in Clid : CallPart(c)
Walk       == \A c \in Clid : WalkPart(c)
References == \A c \in Clid : RefPart(c)
Idle       == ev = NoEvent => todo = {}

LifeInv ==
  /\ TypeOK /\ Places /\ Clients /\ Notes /\ Distinct
  /\ Unused /\ Alive /\ Calls /\ Walk /\ References /\ Idle

------------------------------------------------------------------------------
(* What the invariant gives.                                               *)

\* A thread has a client or a notifier where it works on one.
LEMMA Has ==
  ASSUME LifeInv, NEW t \in Thread
  PROVE  /\ pc[t] \in MePc => me[t] \in Clid
         /\ pc[t] \in NotePc => note[t] \in Clid
BY DEF LifeInv, TypeOK, ThreadType, Places, PlacePart

\* A count is at least the number of those known to hold the object.
LEMMA Counted ==
  ASSUME LifeInv, NEW c \in Clid
  PROVE  /\ ref_count[c] \in Nat
         /\ ClientHeld(c) \/ NoteHeld(c) \/ TransportHeld(c) \/ call[c] # "none"
              => ref_count[c] >= 1
         /\ (ClientHeld(c) \/ NoteHeld(c)) /\ TransportHeld(c)
              => ref_count[c] >= 2
<1>1. RefPart(c)
  BY DEF LifeInv, References
<1> QED BY <1>1 DEF RefPart, One

\* The functions of the table assign values of their types.
ObjectNext ==
  /\ obj' \in [Clid -> {"unused", "live", "freed"}]
  /\ ref_count' \in [Clid -> Nat]
  /\ tbl' \subseteq Clid /\ linked' \subseteq Clid

\* A reference given up does so when there is one.
LEMMA PutType ==
  ASSUME ObjectType, NEW c \in Clid, NEW n \in 1..2, ref_count[c] >= n,
         PutRefs(c, n)
  PROVE  ObjectNext
<1>1. ref_count[c] \in Nat /\ ref_count[c] - n \in Nat
  BY DEF ObjectType
<1>2. ref_count' \in [Clid -> Nat]
  BY <1>1 DEF ObjectType, PutRefs
<1> QED BY <1>2 DEF ObjectType, ObjectNext, PutRefs

\* A reference taken keeps them ...
LEMMA GetType ==
  ASSUME ObjectType, NEW c \in Clid, NEW unlink \in BOOLEAN, GetRef(c, unlink)
  PROVE  ref_count' \in [Clid -> Nat] /\ tbl' \subseteq Clid
BY DEF ObjectType, GetRef

\* A new object is the next one, and has the types of all.
LEMMA AllocType ==
  ASSUME ObjectType, MaxClid \in Nat, NEW kind \in {"connected", "notifier"},
         Alloc(kind)
  PROVE  /\ next_clid \in Clid /\ next_clid' \in 1..(MaxClid + 1)
         /\ obj' \in [Clid -> {"unused", "live", "freed"}]
         /\ category' \in [Clid -> {"none", "connected", "dormant", "notifier"}]
         /\ ref_count' \in [Clid -> Nat]
         /\ tbl' \subseteq Clid /\ accepting' \subseteq Clid
BY DEF ObjectType, Alloc, Clid

\* Clients are not notifiers, and nothing but a client has a socket or calls.
LEMMA Kinds ==
  ASSUME LifeInv
  PROVE  /\ next_clid \in Nat \ {0} /\ NoClid \notin Clid /\ NoClid = 0
         /\ Clid \subseteq Nat
         /\ \A t \in Thread : PlacePart(t) /\ ClientPart(t) /\ NotePart(t)
         /\ \A c \in Clid : UnusedPart(c) /\ CallPart(c) /\ WalkPart(c)
         /\ \A t \in Thread : me[t] # NoClid => category[me[t]] # "notifier"
         /\ \A c \in Clid : category[c] = "notifier" =>
                                data[c] = "none" /\ call[c] = "none"
<1>1. /\ next_clid \in Nat \ {0} /\ NoClid \notin Clid /\ NoClid = 0
      /\ Clid \subseteq Nat
  BY BoundAssumption DEF LifeInv, TypeOK, ObjectType, Clid, NoClid
<1>2. /\ \A t \in Thread : PlacePart(t) /\ ClientPart(t) /\ NotePart(t)
      /\ \A c \in Clid : UnusedPart(c) /\ CallPart(c) /\ WalkPart(c)
  BY DEF LifeInv, Clients, Notes, Places, Unused, Calls, Walk
<1>3. \A t \in Thread : me[t] # NoClid => category[me[t]] # "notifier"
  BY <1>2 DEF ClientPart
<1>4. \A c \in Clid : category[c] = "notifier" =>
                          data[c] = "none" /\ call[c] = "none"
  <2> SUFFICES ASSUME NEW c \in Clid, category[c] = "notifier"
               PROVE  data[c] = "none" /\ call[c] = "none"
    OBVIOUS
  <2>1. data[c] = "none"
    BY <1>2 DEF WalkPart
  <2>2. \A t \in Thread : me[t] # c
    BY <1>1, <1>3
  <2>3. call[c] = "none"
    BY <1>2, <2>2 DEF CallPart
  <2> QED BY <2>1, <2>3
<1> QED BY <1>1, <1>2, <1>3, <1>4

\* Who gives up references has them.
LEMMA Held ==
  ASSUME LifeInv
  PROVE  /\ \A t \in Thread :
              /\ pc[t] \in InitHolds \cup ReleaseHolds => ref_count[me[t]] >= 1
              /\ pc[t] = "open" => ref_count[me[t]] >= 2
              /\ pc[t] \in {"nlist", "nlook", "nclose", "nput"}
                   => ref_count[note[t]] >= 1
              /\ pc[t] \in {"nlook", "nclose"} => ref_count[note[t]] >= 2
         /\ \A c \in Clid : data[c] = "closing" \/ call[c] # "none"
                              => ref_count[c] >= 1
<1>1. ASSUME NEW t \in Thread
      PROVE  /\ pc[t] \in InitHolds \cup ReleaseHolds => ref_count[me[t]] >= 1
             /\ pc[t] = "open" => ref_count[me[t]] >= 2
  <2>1. ASSUME pc[t] \in InitHolds \cup ReleaseHolds
        PROVE  me[t] \in Clid /\ ClientHeld(me[t])
    BY <2>1, Has DEF MePc, OwnPc, ReleaseHolds, ClientHeld
  <2>2. pc[t] = "open" => TransportHeld(me[t])
    BY DEF TransportHeld, ClientOpens, ClientOpens
  <2> QED BY <2>1, <2>2, Counted DEF InitHolds
<1>2. ASSUME NEW t \in Thread
      PROVE  /\ pc[t] \in {"nlist", "nlook", "nclose", "nput"}
                  => ref_count[note[t]] >= 1
             /\ pc[t] \in {"nlook", "nclose"} => ref_count[note[t]] >= 2
  <2>1. ASSUME pc[t] \in {"nlist", "nlook", "nclose", "nput"}
        PROVE  note[t] \in Clid /\ note[t] # NoClid /\ NoteHeld(note[t])
    BY <2>1, Has, Kinds DEF NotePc, NoteHeld
  <2>2. ASSUME pc[t] \in {"nlook", "nclose"} PROVE TransportHeld(note[t])
    BY <2>1, <2>2, Kinds DEF TransportHeld, NoteOpens, NotePart
  <2> QED BY <2>1, <2>2, Counted
<1>3. ASSUME NEW c \in Clid, data[c] = "closing" \/ call[c] # "none"
      PROVE  ref_count[c] >= 1
  BY <1>3, Counted DEF TransportHeld
<1> QED BY <1>1, <1>2, <1>3

\* What a step of thread t does to those who hold an object.
Frame(t) == \A u \in Thread : u # t =>
              me'[u] = me[u] /\ note'[u] = note[u] /\ pc'[u] = pc[u]

HolderStep(t, c) ==
  /\ ClientHeld(c)' <=> \/ me'[t] = c /\ pc'[t] \in InitHolds \cup ReleaseHolds
                        \/ me[t] # c /\ ClientHeld(c)
  /\ NoteHeld(c)' <=> \/ note'[t] = c /\ pc'[t] \in {"nlist", "nlook", "nclose", "nput"}
                      \/ note[t] # c /\ NoteHeld(c)
  /\ ClientOpens(c)' <=> \/ me'[t] = c /\ pc'[t] = "open"
                         \/ me[t] # c /\ ClientOpens(c)
  /\ NoteOpens(c)' <=> \/ note'[t] = c /\ pc'[t] = "nlist"
                       \/ note[t] # c /\ NoteOpens(c)
  /\ me[t] = c => /\ ClientHeld(c) <=> pc[t] \in InitHolds \cup ReleaseHolds
                  /\ ClientOpens(c) <=> pc[t] = "open"
                  /\ ~NoteHeld(c) /\ ~NoteOpens(c)
  /\ note[t] = c => /\ NoteHeld(c) <=> pc[t] \in {"nlist", "nlook", "nclose", "nput"}
                    /\ NoteOpens(c) <=> pc[t] = "nlist"
                    /\ ~ClientHeld(c) /\ ~ClientOpens(c)

\* A step of a thread changes only who it holds itself.
LEMMA Moves ==
  ASSUME LifeInv, NEW t \in Thread, NEW c \in Clid, Frame(t)
  PROVE  HolderStep(t, c)
<1>1. \A u \in Thread : u # t => /\ me[t] = c => me[u] # c
                                 /\ note[t] = c => note[u] # c
  BY Kinds DEF LifeInv, Distinct
<1>2. \A u \in Thread : /\ me[t] = c => note[u] # c
                        /\ note[t] = c => me[u] # c
  BY Kinds DEF NotePart
<1>3. ClientHeld(c)' <=> \/ me'[t] = c /\ pc'[t] \in InitHolds \cup ReleaseHolds
                         \/ me[t] # c /\ ClientHeld(c)
  BY <1>1 DEF ClientHeld, Frame
<1>4. NoteHeld(c)' <=> \/ note'[t] = c /\ pc'[t] \in {"nlist", "nlook", "nclose", "nput"}
                       \/ note[t] # c /\ NoteHeld(c)
  BY <1>1 DEF NoteHeld, Frame
<1>5. ClientOpens(c)' <=> \/ me'[t] = c /\ pc'[t] = "open"
                          \/ me[t] # c /\ ClientOpens(c)
  BY <1>1 DEF ClientOpens, Frame
<1>6. NoteOpens(c)' <=> \/ note'[t] = c /\ pc'[t] = "nlist"
                        \/ note[t] # c /\ NoteOpens(c)
  BY <1>1 DEF NoteOpens, Frame
<1>7. me[t] = c => /\ ClientHeld(c) <=> pc[t] \in InitHolds \cup ReleaseHolds
                   /\ ClientOpens(c) <=> pc[t] = "open"
                   /\ ~NoteHeld(c) /\ ~NoteOpens(c)
  BY <1>1, <1>2 DEF ClientHeld, ClientOpens, NoteHeld, NoteOpens
<1>8. note[t] = c => /\ NoteHeld(c) <=> pc[t] \in {"nlist", "nlook", "nclose", "nput"}
                     /\ NoteOpens(c) <=> pc[t] = "nlist"
                     /\ ~ClientHeld(c) /\ ~ClientOpens(c)
  BY <1>1, <1>2 DEF ClientHeld, ClientOpens, NoteHeld, NoteOpens
<1> QED BY <1>3, <1>4, <1>5, <1>6, <1>7, <1>8 DEF HolderStep
------------------------------------------------------------------------------
(* Every step keeps the invariant, one part of it after the other.         *)

\* The variables keep their types; no count falls below zero.
LEMMA TypeStep == LifeInv /\ [Next]_vars => TypeOK'
<1> SUFFICES ASSUME LifeInv, [Next]_vars PROVE TypeOK'
  OBVIOUS
<1> USE DEF Goto, objects, transport, control, threads
<1>0. /\ ObjectType /\ TransportType /\ ControlType /\ ThreadType /\ WorldType
      /\ FlagType /\ MaxClid \in Nat /\ NoClid \notin Clid
  BY BoundAssumption DEF LifeInv, TypeOK, Clid, NoClid
<1>1. ASSUME NEW t \in Thread, CountServers(t) PROVE TypeOK'
  <2>1. ObjectType'
    BY <1>0, <1>1
    DEF ObjectType, CountServers, Miss
  <2>2. TransportType'
    BY <1>0, <1>1
    DEF TransportType, CountServers, Miss
  <2>3. ControlType'
    BY <1>0, <1>1
    DEF ControlType, CountServers, Miss
  <2>4. ThreadType'
    <3>1. Cardinality(Up) \in 0..Cardinality(Server)
      BY ServerAssumption, FS_Subset, FS_CardinalityType DEF Up
    <3>2. cnt' \in [Thread -> 0..Cardinality(Server)]
      BY <1>0, <1>1, <3>1 DEF ThreadType, CountServers
    <3> QED BY <1>0, <1>1, <3>2 DEF ThreadType, Pc, CountServers, Miss
  <2>5. WorldType'
    BY <1>0, <1>1
    DEF WorldType, CountServers, Miss
  <2>6. FlagType'
    BY <1>0, <1>1, Zenon
    DEF FlagType, CountServers, Miss
  <2> QED BY <2>1, <2>2, <2>3, <2>4, <2>5, <2>6 DEF TypeOK
<1>2. ASSUME NEW t \in Thread, LookForInstance(t) PROVE TypeOK'
  <2>1. ObjectType'
    BY <1>0, <1>2
    DEF ObjectType, LookForInstance, Miss
  <2>2. TransportType'
    BY <1>0, <1>2
    DEF TransportType, LookForInstance, Miss
  <2>3. ControlType'
    BY <1>0, <1>2
    DEF ControlType, LookForInstance, Miss
  <2>4. ThreadType'
    <3>1. found' \in [Thread -> Server]
      BY <1>0, <1>2, ServerAssumption DEF ThreadType, LookForInstance
    <3> QED BY <1>0, <1>2, <3>1 DEF ThreadType, Pc, LookForInstance, Miss
  <2>5. WorldType'
    BY <1>0, <1>2
    DEF WorldType, LookForInstance, Miss
  <2>6. FlagType'
    BY <1>0, <1>2, Zenon
    DEF FlagType, LookForInstance, Miss
  <2> QED BY <2>1, <2>2, <2>3, <2>4, <2>5, <2>6 DEF TypeOK
<1>3. ASSUME NEW t \in Thread, InitClient(t) PROVE TypeOK'
  <2>1. ObjectType'
    <3>1. Alloc("connected") /\ server' = [server EXCEPT ![next_clid] = found[t]]
      BY <1>3 DEF InitClient
    <3> QED BY <1>0, <1>3, <3>1, AllocType DEF ObjectType, ThreadType,
            InitClient
  <2>2. TransportType'
    BY <1>0, <1>3
    DEF TransportType, InitClient, Alloc
  <2>3. ControlType'
    BY <1>0, <1>3
    DEF ControlType, InitClient, Alloc
  <2>4. ThreadType'
    <3>1. next_clid \in Clid
      BY <1>0, <1>3, AllocType DEF InitClient
    <3> QED BY <1>0, <1>3, <3>1 DEF ThreadType, Pc, InitClient
  <2>5. WorldType'
    BY <1>0, <1>3
    DEF WorldType, InitClient, Alloc
  <2>6. FlagType'
    BY <1>0, <1>3, Zenon
    DEF FlagType, InitClient, Alloc
  <2> QED BY <2>1, <2>2, <2>3, <2>4, <2>5, <2>6 DEF TypeOK
<1>4. ASSUME NEW t \in Thread, OpenClient(t) PROVE TypeOK'
  <2>0. me[t] \in Clid
    BY <1>4, Has DEF OpenClient, MePc, InitHolds, OwnPc
  <2>1. ObjectType'
    <3>1. CASE UNCHANGED objects
      BY <1>0, <3>1 DEF ObjectType
    <3>2. CASE PutRefs(me[t], 2) /\ UNCHANGED <<next_clid, category, accepting, server>>
      <4>1. ref_count[me[t]] >= 2
        BY <1>0, <1>4, <2>0, Held DEF OpenClient
      <4>2. ObjectNext
        BY <1>0, <2>0, <3>2, <4>1, PutType
      <4> QED BY <1>0, <3>2, <4>2 DEF ObjectType, ObjectNext
    <3> QED BY <1>4, <3>1, <3>2 DEF OpenClient
  <2>2. TransportType'
    BY <1>0, <1>4, <2>0
    DEF TransportType, OpenClient, PutRefs, Failed
  <2>3. ControlType'
    BY <1>0, <1>4, <2>0
    DEF ControlType, OpenClient, PutRefs, Failed
  <2>4. ThreadType'
    BY <1>0, <1>4, <2>0
    DEF ThreadType, Pc, OpenClient, PutRefs, Failed
  <2>5. WorldType'
    BY <1>0, <1>4, <2>0
    DEF WorldType, OpenClient, PutRefs, Failed
  <2>6. FlagType'
    BY <1>0, <1>4, <2>0, Zenon
    DEF FlagType, OpenClient, PutRefs, Failed
  <2> QED BY <2>1, <2>2, <2>3, <2>4, <2>5, <2>6 DEF TypeOK
<1>5. ASSUME NEW t \in Thread, ListClient(t) PROVE TypeOK'
  <2>0. me[t] \in Clid
    BY <1>5, Has DEF ListClient, MePc, InitHolds, OwnPc
  <2>1. ObjectType'
    BY <1>0, <1>5, <2>0
    DEF ObjectType, ListClient
  <2>2. TransportType'
    BY <1>0, <1>5, <2>0
    DEF TransportType, ListClient
  <2>3. ControlType'
    BY <1>0, <1>5, <2>0
    DEF ControlType, ListClient
  <2>4. ThreadType'
    BY <1>0, <1>5, <2>0
    DEF ThreadType, Pc, ListClient
  <2>5. WorldType'
    BY <1>0, <1>5, <2>0
    DEF WorldType, ListClient
  <2>6. FlagType'
    BY <1>0, <1>5, <2>0, Zenon
    DEF FlagType, ListClient
  <2> QED BY <2>1, <2>2, <2>3, <2>4, <2>5, <2>6 DEF TypeOK
<1>6. ASSUME NEW t \in Thread, LinkClient(t) PROVE TypeOK'
  <2>0. me[t] \in Clid
    BY <1>6, Has DEF LinkClient, MePc, InitHolds, OwnPc
  <2>1. ObjectType'
    BY <1>0, <1>6, <2>0
    DEF ObjectType, LinkClient
  <2>2. TransportType'
    BY <1>0, <1>6, <2>0
    DEF TransportType, LinkClient
  <2>3. ControlType'
    BY <1>0, <1>6, <2>0
    DEF ControlType, LinkClient
  <2>4. ThreadType'
    BY <1>0, <1>6, <2>0
    DEF ThreadType, Pc, LinkClient
  <2>5. WorldType'
    BY <1>0, <1>6, <2>0
    DEF WorldType, LinkClient
  <2>6. FlagType'
    BY <1>0, <1>6, <2>0, Zenon
    DEF FlagType, LinkClient
  <2> QED BY <2>1, <2>2, <2>3, <2>4, <2>5, <2>6 DEF TypeOK
<1>7. ASSUME NEW t \in Thread, Relookup(t) PROVE TypeOK'
  <2>0. me[t] \in Clid
    BY <1>7, Has DEF Relookup, MePc, InitHolds, OwnPc
  <2>1. ObjectType'
    BY <1>0, <1>7, <2>0
    DEF ObjectType, Relookup, CloseAgain
  <2>2. TransportType'
    <3>1. CASE UNCHANGED pipe
      BY <1>0, <1>7, <3>1 DEF TransportType, Relookup
    <3>2. CASE pipe' = [pipe EXCEPT ![me[t]] = Append(@, "d")]
      BY <1>0, <1>7, <2>0, <3>2 DEF TransportType, Relookup
    <3> QED BY <1>7, <3>1, <3>2 DEF Relookup, CloseAgain
  <2>3. ControlType'
    BY <1>0, <1>7, <2>0
    DEF ControlType, Relookup, CloseAgain
  <2>4. ThreadType'
    BY <1>0, <1>7, <2>0
    DEF ThreadType, Pc, Relookup, CloseAgain
  <2>5. WorldType'
    BY <1>0, <1>7, <2>0
    DEF WorldType, Relookup, CloseAgain
  <2>6. FlagType'
    BY <1>0, <1>7, <2>0, Zenon
    DEF FlagType, Relookup, CloseAgain
  <2> QED BY <2>1, <2>2, <2>3, <2>4, <2>5, <2>6 DEF TypeOK
<1>8. ASSUME NEW t \in Thread, NoMemory(t) PROVE TypeOK'
  <2>0. me[t] \in Clid
    BY <1>8, Has DEF NoMemory, MePc, InitHolds, OwnPc
  <2>1. ObjectType'
    BY <1>0, <1>8, <2>0
    DEF ObjectType, NoMemory, CloseAgain
  <2>2. TransportType'
    BY <1>0, <1>8, <2>0
    DEF TransportType, NoMemory, CloseAgain
  <2>3. ControlType'
    BY <1>0, <1>8, <2>0
    DEF ControlType, NoMemory, CloseAgain
  <2>4. ThreadType'
    BY <1>0, <1>8, <2>0
    DEF ThreadType, Pc, NoMemory, CloseAgain
  <2>5. WorldType'
    BY <1>0, <1>8, <2>0
    DEF WorldType, NoMemory, CloseAgain
  <2>6. FlagType'
    BY <1>0, <1>8, <2>0, Zenon
    DEF FlagType, NoMemory, CloseAgain
  <2> QED BY <2>1, <2>2, <2>3, <2>4, <2>5, <2>6 DEF TypeOK
<1>9. ASSUME NEW t \in Thread, InitDone(t) PROVE TypeOK'
  <2>0. me[t] \in Clid
    BY <1>9, Has DEF InitDone, MePc, InitHolds, OwnPc
  <2>1. ObjectType'
    <3>1. ref_count[me[t]] >= 1 /\ PutRefs(me[t], 1)
      BY <1>0, <1>9, <2>0, Counted
      DEF InitDone, PutRef, ClientHeld, InitHolds
    <3>2. ObjectNext
      BY <1>0, <3>1, PutType, <2>0
    <3> QED BY <1>0, <1>9, <3>2 DEF ObjectType, ObjectNext, InitDone
  <2>2. TransportType'
    BY <1>0, <1>9, <2>0
    DEF TransportType, InitDone, PutRef, PutRefs, Miss, Failed
  <2>3. ControlType'
    BY <1>0, <1>9, <2>0
    DEF ControlType, InitDone, PutRef, PutRefs, Miss, Failed
  <2>4. ThreadType'
    BY <1>0, <1>9, <2>0
    DEF ThreadType, Pc, InitDone, PutRef, PutRefs, Miss, Failed
  <2>5. WorldType'
    BY <1>0, <1>9, <2>0
    DEF WorldType, InitDone, PutRef, PutRefs, Miss, Failed
  <2>6. FlagType'
    BY <1>0, <1>9, <2>0, Zenon
    DEF FlagType, InitDone, PutRef, PutRefs, Miss, Failed
  <2> QED BY <2>1, <2>2, <2>3, <2>4, <2>5, <2>6 DEF TypeOK
<1>10. ASSUME NEW t \in Thread, InitNotifier(t) PROVE TypeOK'
  <2>1. ObjectType'
    <3>1. CASE Alloc("notifier")
      BY <1>0, <1>10, <3>1, AllocType DEF ObjectType, InitNotifier
    <3>2. CASE ~Alloc("notifier")
      BY <1>0, <1>10, <3>2 DEF ObjectType, InitNotifier
    <3> QED BY <3>1, <3>2
  <2>2. TransportType'
    BY <1>0, <1>10
    DEF TransportType, InitNotifier, Alloc
  <2>3. ControlType'
    BY <1>0, <1>10
    DEF ControlType, InitNotifier, Alloc
  <2>4. ThreadType'
    <3>1. CASE Alloc("notifier") /\ note' = [note EXCEPT ![t] = next_clid]
      <4>1. next_clid \in Clid
        BY <1>0, <3>1, AllocType
      <4> QED BY <1>0, <1>10, <3>1, <4>1 DEF ThreadType, Pc, InitNotifier
    <3>2. CASE UNCHANGED note
      BY <1>0, <1>10, <3>2 DEF ThreadType, Pc, InitNotifier
    <3> QED BY <1>10, <3>1, <3>2 DEF InitNotifier
  <2>5. WorldType'
    BY <1>0, <1>10
    DEF WorldType, InitNotifier, Alloc
  <2>6. FlagType'
    BY <1>0, <1>10, Zenon
    DEF FlagType, InitNotifier, Alloc
  <2> QED BY <2>1, <2>2, <2>3, <2>4, <2>5, <2>6 DEF TypeOK
<1>11. ASSUME NEW t \in Thread, ListNotifier(t) PROVE TypeOK'
  <2>0. note[t] \in Clid
    BY <1>11, Has DEF ListNotifier, NotePc
  <2>1. ObjectType'
    BY <1>0, <1>11, <2>0
    DEF ObjectType, ListNotifier
  <2>2. TransportType'
    BY <1>0, <1>11, <2>0
    DEF TransportType, ListNotifier
  <2>3. ControlType'
    BY <1>0, <1>11, <2>0
    DEF ControlType, ListNotifier
  <2>4. ThreadType'
    BY <1>0, <1>11, <2>0
    DEF ThreadType, Pc, ListNotifier
  <2>5. WorldType'
    BY <1>0, <1>11, <2>0
    DEF WorldType, ListNotifier
  <2>6. FlagType'
    BY <1>0, <1>11, <2>0, Zenon
    DEF FlagType, ListNotifier
  <2> QED BY <2>1, <2>2, <2>3, <2>4, <2>5, <2>6 DEF TypeOK
<1>12. ASSUME NEW t \in Thread, LookupNotifier(t) PROVE TypeOK'
  <2>0. note[t] \in Clid
    BY <1>12, Has DEF LookupNotifier, NotePc
  <2>1. ObjectType'
    <3>1. ref_count[note[t]] - 1 \in Nat
      BY <1>12, <2>0, Counted DEF LookupNotifier, NoteHeld
    <3>2. ref_count' \in [Clid -> Nat] /\ linked' \subseteq Clid
      BY <1>0, <1>12, <2>0, <3>1 DEF ObjectType, LookupNotifier
    <3> QED BY <1>0, <1>12, <3>2 DEF ObjectType, LookupNotifier
  <2>2. TransportType'
    BY <1>0, <1>12, <2>0
    DEF TransportType, LookupNotifier
  <2>3. ControlType'
    BY <1>0, <1>12, <2>0
    DEF ControlType, LookupNotifier
  <2>4. ThreadType'
    BY <1>0, <1>12, <2>0
    DEF ThreadType, Pc, LookupNotifier
  <2>5. WorldType'
    BY <1>0, <1>12, <2>0
    DEF WorldType, LookupNotifier
  <2>6. FlagType'
    BY <1>0, <1>12, <2>0, Zenon
    DEF FlagType, LookupNotifier
  <2> QED BY <2>1, <2>2, <2>3, <2>4, <2>5, <2>6 DEF TypeOK
<1>13. ASSUME NEW t \in Thread, ClearSignal(t) PROVE TypeOK'
  <2>1. ObjectType'
    BY <1>0, <1>13
    DEF ObjectType, ClearSignal
  <2>2. TransportType'
    BY <1>0, <1>13
    DEF TransportType, ClearSignal
  <2>3. ControlType'
    BY <1>0, <1>13
    DEF ControlType, ClearSignal
  <2>4. ThreadType'
    BY <1>0, <1>13
    DEF ThreadType, Pc, ClearSignal
  <2>5. WorldType'
    BY <1>0, <1>13
    DEF WorldType, ClearSignal
  <2>6. FlagType'
    BY <1>0, <1>13, Zenon
    DEF FlagType, ClearSignal
  <2> QED BY <2>1, <2>2, <2>3, <2>4, <2>5, <2>6 DEF TypeOK
<1>14. ASSUME NEW t \in Thread, Wait(t) PROVE TypeOK'
  <2>1. ObjectType'
    BY <1>0, <1>14
    DEF ObjectType, Wait
  <2>2. TransportType'
    BY <1>0, <1>14
    DEF TransportType, Wait
  <2>3. ControlType'
    BY <1>0, <1>14
    DEF ControlType, Wait
  <2>4. ThreadType'
    BY <1>0, <1>14
    DEF ThreadType, Pc, Wait
  <2>5. WorldType'
    BY <1>0, <1>14
    DEF WorldType, Wait
  <2>6. FlagType'
    BY <1>0, <1>14, Zenon
    DEF FlagType, Wait
  <2> QED BY <2>1, <2>2, <2>3, <2>4, <2>5, <2>6 DEF TypeOK
<1>15. ASSUME NEW t \in Thread, ReleaseNotifier(t) PROVE TypeOK'
  <2>0. note[t] \in Clid
    BY <1>15, Has DEF ReleaseNotifier, NotePc
  <2>1. ObjectType'
    <3>1. ref_count' \in [Clid -> Nat] /\ tbl' \subseteq Clid
      BY <1>0, <1>15, <2>0, GetType DEF ReleaseNotifier
    <3> QED BY <1>0, <1>15, <3>1 DEF ObjectType, ReleaseNotifier
  <2>2. TransportType'
    BY <1>0, <1>15, <2>0
    DEF TransportType, ReleaseNotifier, GetRef
  <2>3. ControlType'
    BY <1>0, <1>15, <2>0
    DEF ControlType, ReleaseNotifier, GetRef
  <2>4. ThreadType'
    BY <1>0, <1>15, <2>0
    DEF ThreadType, Pc, ReleaseNotifier, GetRef
  <2>5. WorldType'
    BY <1>0, <1>15, <2>0
    DEF WorldType, ReleaseNotifier, GetRef
  <2>6. FlagType'
    BY <1>0, <1>15, <2>0, Zenon
    DEF FlagType, ReleaseNotifier, GetRef
  <2> QED BY <2>1, <2>2, <2>3, <2>4, <2>5, <2>6 DEF TypeOK
<1>16. ASSUME NEW t \in Thread, CloseNotifier(t) PROVE TypeOK'
  <2>0. note[t] \in Clid
    BY <1>16, Has DEF CloseNotifier, NotePc
  <2>1. ObjectType'
    <3>1. ref_count[note[t]] >= 1 /\ PutRefs(note[t], 1)
      BY <1>0, <1>16, <2>0, Counted
      DEF CloseNotifier, PutRef, NoteHeld
    <3>2. ObjectNext
      BY <1>0, <3>1, PutType, <2>0
    <3> QED BY <1>0, <1>16, <3>2 DEF ObjectType, ObjectNext, CloseNotifier
  <2>2. TransportType'
    BY <1>0, <1>16, <2>0
    DEF TransportType, CloseNotifier, PutRef, PutRefs
  <2>3. ControlType'
    BY <1>0, <1>16, <2>0
    DEF ControlType, CloseNotifier, PutRef, PutRefs
  <2>4. ThreadType'
    BY <1>0, <1>16, <2>0
    DEF ThreadType, Pc, CloseNotifier, PutRef, PutRefs
  <2>5. WorldType'
    BY <1>0, <1>16, <2>0
    DEF WorldType, CloseNotifier, PutRef, PutRefs
  <2>6. FlagType'
    BY <1>0, <1>16, <2>0, Zenon
    DEF FlagType, CloseNotifier, PutRef, PutRefs
  <2> QED BY <2>1, <2>2, <2>3, <2>4, <2>5, <2>6 DEF TypeOK
<1>17. ASSUME NEW t \in Thread, NotifierGone(t) PROVE TypeOK'
  <2>0. note[t] \in Clid
    BY <1>17, Has DEF NotifierGone, NotePc
  <2>1. ObjectType'
    <3>1. ref_count[note[t]] >= 1 /\ PutRefs(note[t], 1)
      BY <1>0, <1>17, <2>0, Counted
      DEF NotifierGone, PutRef, NoteHeld
    <3>2. ObjectNext
      BY <1>0, <3>1, PutType, <2>0
    <3> QED BY <1>0, <1>17, <3>2 DEF ObjectType, ObjectNext, NotifierGone
  <2>2. TransportType'
    BY <1>0, <1>17, <2>0
    DEF TransportType, NotifierGone, PutRef, PutRefs
  <2>3. ControlType'
    BY <1>0, <1>17, <2>0
    DEF ControlType, NotifierGone, PutRef, PutRefs
  <2>4. ThreadType'
    BY <1>0, <1>17, <2>0
    DEF ThreadType, Pc, NotifierGone, PutRef, PutRefs
  <2>5. WorldType'
    BY <1>0, <1>17, <2>0
    DEF WorldType, NotifierGone, PutRef, PutRefs
  <2>6. FlagType'
    BY <1>0, <1>17, <2>0, Zenon
    DEF FlagType, NotifierGone, PutRef, PutRefs
  <2> QED BY <2>1, <2>2, <2>3, <2>4, <2>5, <2>6 DEF TypeOK
<1>18. ASSUME NEW t \in Thread, Timeout(t) PROVE TypeOK'
  <2>1. ObjectType'
    BY <1>0, <1>18
    DEF ObjectType, Timeout
  <2>2. TransportType'
    BY <1>0, <1>18
    DEF TransportType, Timeout
  <2>3. ControlType'
    BY <1>0, <1>18
    DEF ControlType, Timeout
  <2>4. ThreadType'
    BY <1>0, <1>18
    DEF ThreadType, Pc, Timeout
  <2>5. WorldType'
    BY <1>0, <1>18
    DEF WorldType, Timeout
  <2>6. FlagType'
    BY <1>0, <1>18, Zenon
    DEF FlagType, Timeout
  <2> QED BY <2>1, <2>2, <2>3, <2>4, <2>5, <2>6 DEF TypeOK
<1>19. ASSUME NEW t \in Thread, ReleaseClient(t) PROVE TypeOK'
  <2>0. me[t] \in Clid
    BY <1>19, Has DEF ReleaseClient, MePc, InitHolds, OwnPc
  <2>1. ObjectType'
    <3>1. ref_count' \in [Clid -> Nat] /\ tbl' \subseteq Clid
      BY <1>0, <1>19, <2>0, GetType DEF ReleaseClient
    <3> QED BY <1>0, <1>19, <3>1 DEF ObjectType, ReleaseClient
  <2>2. TransportType'
    BY <1>0, <1>19, <2>0
    DEF TransportType, ReleaseClient, GetRef
  <2>3. ControlType'
    BY <1>0, <1>19, <2>0
    DEF ControlType, ReleaseClient, GetRef
  <2>4. ThreadType'
    BY <1>0, <1>19, <2>0
    DEF ThreadType, Pc, ReleaseClient, GetRef
  <2>5. WorldType'
    BY <1>0, <1>19, <2>0
    DEF WorldType, ReleaseClient, GetRef
  <2>6. FlagType'
    BY <1>0, <1>19, <2>0, Zenon
    DEF FlagType, ReleaseClient, GetRef
  <2> QED BY <2>1, <2>2, <2>3, <2>4, <2>5, <2>6 DEF TypeOK
<1>20. ASSUME NEW t \in Thread, StopSending(t) PROVE TypeOK'
  <2>0. me[t] \in Clid
    BY <1>20, Has DEF StopSending, MePc, InitHolds, OwnPc
  <2>1. ObjectType'
    BY <1>0, <1>20, <2>0
    DEF ObjectType, StopSending
  <2>2. TransportType'
    BY <1>0, <1>20, <2>0
    DEF TransportType, StopSending
  <2>3. ControlType'
    BY <1>0, <1>20, <2>0
    DEF ControlType, StopSending
  <2>4. ThreadType'
    BY <1>0, <1>20, <2>0
    DEF ThreadType, Pc, StopSending
  <2>5. WorldType'
    BY <1>0, <1>20, <2>0
    DEF WorldType, StopSending
  <2>6. FlagType'
    BY <1>0, <1>20, <2>0, Zenon
    DEF FlagType, StopSending
  <2> QED BY <2>1, <2>2, <2>3, <2>4, <2>5, <2>6 DEF TypeOK
<1>21. ASSUME NEW t \in Thread, CloseClient(t) PROVE TypeOK'
  <2>0. me[t] \in Clid
    BY <1>21, Has DEF CloseClient, MePc, InitHolds, OwnPc
  <2>1. ObjectType'
    BY <1>0, <1>21, <2>0
    DEF ObjectType, CloseClient
  <2>2. TransportType'
    BY <1>0, <1>21, <2>0
    DEF TransportType, CloseClient
  <2>3. ControlType'
    BY <1>0, <1>21, <2>0
    DEF ControlType, CloseClient
  <2>4. ThreadType'
    BY <1>0, <1>21, <2>0
    DEF ThreadType, Pc, CloseClient
  <2>5. WorldType'
    BY <1>0, <1>21, <2>0
    DEF WorldType, CloseClient
  <2>6. FlagType'
    BY <1>0, <1>21, <2>0, Zenon
    DEF FlagType, CloseClient
  <2> QED BY <2>1, <2>2, <2>3, <2>4, <2>5, <2>6 DEF TypeOK
<1>22. ASSUME NEW t \in Thread, PutReleased(t) PROVE TypeOK'
  <2>0. me[t] \in Clid
    BY <1>22, Has DEF PutReleased, MePc, InitHolds, OwnPc
  <2>1. ObjectType'
    <3>1. ref_count[me[t]] >= 1 /\ PutRefs(me[t], 1)
      BY <1>0, <1>22, <2>0, Counted
      DEF PutReleased, PutRef, ClientHeld, ReleaseHolds
    <3>2. ObjectNext
      BY <1>0, <3>1, PutType, <2>0
    <3> QED BY <1>0, <1>22, <3>2 DEF ObjectType, ObjectNext, PutReleased
  <2>2. TransportType'
    BY <1>0, <1>22, <2>0
    DEF TransportType, PutReleased, PutRef, PutRefs
  <2>3. ControlType'
    BY <1>0, <1>22, <2>0
    DEF ControlType, PutReleased, PutRef, PutRefs
  <2>4. ThreadType'
    BY <1>0, <1>22, <2>0
    DEF ThreadType, Pc, PutReleased, PutRef, PutRefs
  <2>5. WorldType'
    BY <1>0, <1>22, <2>0
    DEF WorldType, PutReleased, PutRef, PutRefs
  <2>6. FlagType'
    BY <1>0, <1>22, <2>0, Zenon
    DEF FlagType, PutReleased, PutRef, PutRefs
  <2> QED BY <2>1, <2>2, <2>3, <2>4, <2>5, <2>6 DEF TypeOK
<1>23. ASSUME NEW t \in Thread, Released(t) PROVE TypeOK'
  <2>0. me[t] \in Clid
    BY <1>23, Has DEF Released, MePc, InitHolds, OwnPc
  <2>1. ObjectType'
    BY <1>0, <1>23, <2>0
    DEF ObjectType, Released
  <2>2. TransportType'
    BY <1>0, <1>23, <2>0
    DEF TransportType, Released
  <2>3. ControlType'
    BY <1>0, <1>23, <2>0
    DEF ControlType, Released
  <2>4. ThreadType'
    BY <1>0, <1>23, <2>0
    DEF ThreadType, Pc, Released
  <2>5. WorldType'
    BY <1>0, <1>23, <2>0
    DEF WorldType, Released
  <2>6. FlagType'
    BY <1>0, <1>23, <2>0, Zenon
    DEF FlagType, Released
  <2> QED BY <2>1, <2>2, <2>3, <2>4, <2>5, <2>6 DEF TypeOK
<1>24. ASSUME NEW t \in Thread, EnterCall(t) PROVE TypeOK'
  <2>0. me[t] \in Clid
    BY <1>24, Has DEF EnterCall, MePc, InitHolds, OwnPc
  <2>1. ObjectType'
    <3>1. ref_count' \in [Clid -> Nat] /\ tbl' \subseteq Clid
      BY <1>0, <1>24, <2>0, GetType DEF EnterCall
    <3> QED BY <1>0, <1>24, <3>1 DEF ObjectType, EnterCall
  <2>2. TransportType'
    BY <1>0, <1>24, <2>0
    DEF TransportType, EnterCall, GetRef
  <2>3. ControlType'
    BY <1>0, <1>24, <2>0
    DEF ControlType, EnterCall, GetRef
  <2>4. ThreadType'
    BY <1>0, <1>24, <2>0
    DEF ThreadType, Pc, EnterCall, GetRef
  <2>5. WorldType'
    BY <1>0, <1>24, <2>0
    DEF WorldType, EnterCall, GetRef
  <2>6. FlagType'
    BY <1>0, <1>24, <2>0, Zenon
    DEF FlagType, EnterCall, GetRef
  <2> QED BY <2>1, <2>2, <2>3, <2>4, <2>5, <2>6 DEF TypeOK
<1>25. ASSUME NEW c \in Clid, StartSend(c) PROVE TypeOK'
  <2>1. ObjectType'
    BY <1>0, <1>25
    DEF ObjectType, StartSend
  <2>2. TransportType'
    BY <1>0, <1>25
    DEF TransportType, StartSend
  <2>3. ControlType'
    BY <1>0, <1>25
    DEF ControlType, StartSend
  <2>4. ThreadType'
    BY <1>0, <1>25
    DEF ThreadType, Pc, StartSend
  <2>5. WorldType'
    BY <1>0, <1>25
    DEF WorldType, StartSend
  <2>6. FlagType'
    BY <1>0, <1>25, Zenon
    DEF FlagType, StartSend
  <2> QED BY <2>1, <2>2, <2>3, <2>4, <2>5, <2>6 DEF TypeOK
<1>26. ASSUME NEW c \in Clid, EndSend(c) PROVE TypeOK'
  <2>1. ObjectType'
    BY <1>0, <1>26
    DEF ObjectType, EndSend
  <2>2. TransportType'
    BY <1>0, <1>26
    DEF TransportType, EndSend
  <2>3. ControlType'
    BY <1>0, <1>26
    DEF ControlType, EndSend
  <2>4. ThreadType'
    BY <1>0, <1>26
    DEF ThreadType, Pc, EndSend
  <2>5. WorldType'
    BY <1>0, <1>26
    DEF WorldType, EndSend
  <2>6. FlagType'
    BY <1>0, <1>26, Zenon
    DEF FlagType, EndSend
  <2> QED BY <2>1, <2>2, <2>3, <2>4, <2>5, <2>6 DEF TypeOK
<1>27. ASSUME NEW c \in Clid, LeaveCall(c) PROVE TypeOK'
  <2>1. ObjectType'
    <3>1. ref_count[c] >= 1 /\ PutRefs(c, 1)
      BY <1>0, <1>27, Counted
      DEF LeaveCall, PutRef
    <3>2. ObjectNext
      BY <1>0, <3>1, PutType
    <3> QED BY <1>0, <1>27, <3>2 DEF ObjectType, ObjectNext, LeaveCall
  <2>2. TransportType'
    BY <1>0, <1>27
    DEF TransportType, LeaveCall, PutRef, PutRefs
  <2>3. ControlType'
    BY <1>0, <1>27
    DEF ControlType, LeaveCall, PutRef, PutRefs
  <2>4. ThreadType'
    BY <1>0, <1>27
    DEF ThreadType, Pc, LeaveCall, PutRef, PutRefs
  <2>5. WorldType'
    BY <1>0, <1>27
    DEF WorldType, LeaveCall, PutRef, PutRefs
  <2>6. FlagType'
    BY <1>0, <1>27, Zenon
    DEF FlagType, LeaveCall, PutRef, PutRefs
  <2> QED BY <2>1, <2>2, <2>3, <2>4, <2>5, <2>6 DEF TypeOK
<1>28. ASSUME NEW c \in Clid, DataReset(c) PROVE TypeOK'
  <2>1. ObjectType'
    BY <1>0, <1>28
    DEF ObjectType, DataReset
  <2>2. TransportType'
    BY <1>0, <1>28
    DEF TransportType, DataReset
  <2>3. ControlType'
    BY <1>0, <1>28
    DEF ControlType, DataReset
  <2>4. ThreadType'
    BY <1>0, <1>28
    DEF ThreadType, Pc, DataReset
  <2>5. WorldType'
    BY <1>0, <1>28
    DEF WorldType, DataReset
  <2>6. FlagType'
    BY <1>0, <1>28, Zenon
    DEF FlagType, DataReset
  <2> QED BY <2>1, <2>2, <2>3, <2>4, <2>5, <2>6 DEF TypeOK
<1>29. ASSUME NEW c \in Clid, DataClose(c) PROVE TypeOK'
  <2>1. ObjectType'
    BY <1>0, <1>29
    DEF ObjectType, DataClose
  <2>2. TransportType'
    BY <1>0, <1>29
    DEF TransportType, DataClose
  <2>3. ControlType'
    BY <1>0, <1>29
    DEF ControlType, DataClose
  <2>4. ThreadType'
    BY <1>0, <1>29
    DEF ThreadType, Pc, DataClose
  <2>5. WorldType'
    BY <1>0, <1>29
    DEF WorldType, DataClose
  <2>6. FlagType'
    BY <1>0, <1>29, Zenon
    DEF FlagType, DataClose
  <2> QED BY <2>1, <2>2, <2>3, <2>4, <2>5, <2>6 DEF TypeOK
<1>30. ASSUME NEW c \in Clid, DataRelease(c) PROVE TypeOK'
  <2>1. ObjectType'
    <3>1. ref_count[c] >= 1 /\ PutRefs(c, 1)
      BY <1>0, <1>30, Counted
      DEF DataRelease, PutRef, TransportHeld
    <3>2. ObjectNext
      BY <1>0, <3>1, PutType
    <3> QED BY <1>0, <1>30, <3>2 DEF ObjectType, ObjectNext, DataRelease
  <2>2. TransportType'
    BY <1>0, <1>30
    DEF TransportType, DataRelease, PutRef, PutRefs
  <2>3. ControlType'
    BY <1>0, <1>30
    DEF ControlType, DataRelease, PutRef, PutRefs
  <2>4. ThreadType'
    BY <1>0, <1>30
    DEF ThreadType, Pc, DataRelease, PutRef, PutRefs
  <2>5. WorldType'
    BY <1>0, <1>30
    DEF WorldType, DataRelease, PutRef, PutRefs
  <2>6. FlagType'
    BY <1>0, <1>30, Zenon
    DEF FlagType, DataRelease, PutRef, PutRefs
  <2> QED BY <2>1, <2>2, <2>3, <2>4, <2>5, <2>6 DEF TypeOK
<1>31. ASSUME CtlRead PROVE TypeOK'
  <2>1. ObjectType'
    BY <1>0, <1>31
    DEF ObjectType, CtlRead
  <2>2. TransportType'
    BY <1>0, <1>31
    DEF TransportType, CtlRead
  <2>3. ControlType'
    <3>1. Head(ctl_q) \in Event /\ Tail(ctl_q) \in Seq(Event)
      BY <1>0, <1>31 DEF ControlType, CtlRead
    <3> QED BY <1>0, <1>31, <3>1 DEF ControlType, TransportType, CtlRead,
            Concerned
  <2>4. ThreadType'
    BY <1>0, <1>31
    DEF ThreadType, Pc, CtlRead
  <2>5. WorldType'
    BY <1>0, <1>31
    DEF WorldType, CtlRead
  <2>6. FlagType'
    BY <1>0, <1>31, Zenon
    DEF FlagType, CtlRead
  <2> QED BY <2>1, <2>2, <2>3, <2>4, <2>5, <2>6 DEF TypeOK
<1>32. ASSUME CtlDone PROVE TypeOK'
  <2>1. ObjectType'
    BY <1>0, <1>32
    DEF ObjectType, CtlDone
  <2>2. TransportType'
    BY <1>0, <1>32
    DEF TransportType, CtlDone
  <2>3. ControlType'
    BY <1>0, <1>32
    DEF ControlType, CtlDone
  <2>4. ThreadType'
    BY <1>0, <1>32
    DEF ThreadType, Pc, CtlDone
  <2>5. WorldType'
    BY <1>0, <1>32
    DEF WorldType, CtlDone
  <2>6. FlagType'
    BY <1>0, <1>32, Zenon
    DEF FlagType, CtlDone
  <2> QED BY <2>1, <2>2, <2>3, <2>4, <2>5, <2>6 DEF TypeOK
<1>33. ASSUME NEW c \in Clid, CtlNotify(c) PROVE TypeOK'
  <2>1. ObjectType'
    BY <1>0, <1>33
    DEF ObjectType, CtlNotify
  <2>2. TransportType'
    BY <1>0, <1>33
    DEF TransportType, CtlNotify
  <2>3. ControlType'
    BY <1>0, <1>33
    DEF ControlType, CtlNotify
  <2>4. ThreadType'
    BY <1>0, <1>33
    DEF ThreadType, Pc, CtlNotify
  <2>5. WorldType'
    BY <1>0, <1>33
    DEF WorldType, CtlNotify
  <2>6. FlagType'
    BY <1>0, <1>33, Zenon
    DEF FlagType, CtlNotify
  <2> QED BY <2>1, <2>2, <2>3, <2>4, <2>5, <2>6 DEF TypeOK
<1>34. ASSUME NEW c \in Clid, CtlReset(c) PROVE TypeOK'
  <2>1. ObjectType'
    BY <1>0, <1>34
    DEF ObjectType, CtlReset
  <2>2. TransportType'
    BY <1>0, <1>34
    DEF TransportType, CtlReset
  <2>3. ControlType'
    BY <1>0, <1>34
    DEF ControlType, CtlReset
  <2>4. ThreadType'
    BY <1>0, <1>34
    DEF ThreadType, Pc, CtlReset
  <2>5. WorldType'
    BY <1>0, <1>34
    DEF WorldType, CtlReset
  <2>6. FlagType'
    BY <1>0, <1>34, Zenon
    DEF FlagType, CtlReset
  <2> QED BY <2>1, <2>2, <2>3, <2>4, <2>5, <2>6 DEF TypeOK
<1>35. ASSUME NEW s \in Server, ServerUp(s) PROVE TypeOK'
  <2>1. ObjectType'
    BY <1>0, <1>35
    DEF ObjectType, ServerUp
  <2>2. TransportType'
    BY <1>0, <1>35
    DEF TransportType, ServerUp
  <2>3. ControlType'
    <3>1. <<"new", s>> \in Event
      BY DEF Event
    <3> QED BY <1>0, <1>35, <3>1 DEF ControlType, ServerUp
  <2>4. ThreadType'
    BY <1>0, <1>35
    DEF ThreadType, Pc, ServerUp
  <2>5. WorldType'
    BY <1>0, <1>35
    DEF WorldType, ServerUp
  <2>6. FlagType'
    BY <1>0, <1>35, Zenon
    DEF FlagType, ServerUp
  <2> QED BY <2>1, <2>2, <2>3, <2>4, <2>5, <2>6 DEF TypeOK
<1>36. ASSUME NEW s \in Server, ServerDown(s) PROVE TypeOK'
  <2>1. ObjectType'
    BY <1>0, <1>36
    DEF ObjectType, ServerDown
  <2>2. TransportType'
    BY <1>0, <1>36
    DEF TransportType, ServerDown
  <2>3. ControlType'
    <3>1. <<"del", s>> \in Event
      BY DEF Event
    <3> QED BY <1>0, <1>36, <3>1 DEF ControlType, ServerDown
  <2>4. ThreadType'
    BY <1>0, <1>36
    DEF ThreadType, Pc, ServerDown
  <2>5. WorldType'
    BY <1>0, <1>36
    DEF WorldType, ServerDown
  <2>6. FlagType'
    BY <1>0, <1>36, Zenon
    DEF FlagType, ServerDown
  <2> QED BY <2>1, <2>2, <2>3, <2>4, <2>5, <2>6 DEF TypeOK
<1>37. CASE UNCHANGED vars
  BY <1>0, <1>37 DEF TypeOK, ObjectType, TransportType, ControlType,
     ThreadType, WorldType, FlagType, vars
<1> QED
  BY <1>1, <1>2, <1>3, <1>4, <1>5, <1>6, <1>7, <1>8, <1>9, <1>10, <1>11,
     <1>12, <1>13, <1>14, <1>15, <1>16, <1>17, <1>18, <1>19, <1>20, <1>21,
     <1>22, <1>23, <1>24, <1>25, <1>26, <1>27, <1>28, <1>29, <1>30, <1>31,
     <1>32, <1>33, <1>34, <1>35, <1>36, <1>37
  DEF Next, InitInstance, Release, Call, Control, Data, Rest

\* Where threads have clients and notifiers.
LEMMA PlaceStep == LifeInv /\ [Next]_vars => Places'
<1> SUFFICES ASSUME LifeInv, [Next]_vars PROVE Places'
  OBVIOUS
<1> USE DEF Goto, objects, transport, control, threads, NoClid, NotePc, NoNotePc,
            MePc, NoMePc, OwnPc, InitHolds
<1>0. /\ Places /\ pc \in [Thread -> Pc] /\ next_clid \in Nat \ {0}
      /\ me \in [Thread -> Clid \cup {NoClid}]
      /\ note \in [Thread -> Clid \cup {NoClid}]
  BY BoundAssumption DEF LifeInv, TypeOK, ObjectType, ThreadType, Clid
<1>1. ASSUME NEW t \in Thread, CountServers(t) PROVE Places'
  BY <1>0, <1>1 DEF Places, PlacePart, CountServers, Miss
<1>2. ASSUME NEW t \in Thread, LookForInstance(t) PROVE Places'
  BY <1>0, <1>2 DEF Places, PlacePart, LookForInstance, Miss
<1>3. ASSUME NEW t \in Thread, InitClient(t) PROVE Places'
  BY <1>0, <1>3 DEF Places, PlacePart, InitClient, Alloc
<1>4. ASSUME NEW t \in Thread, OpenClient(t) PROVE Places'
  BY <1>0, <1>4 DEF Places, PlacePart, OpenClient, PutRefs, Failed
<1>5. ASSUME NEW t \in Thread, ListClient(t) PROVE Places'
  BY <1>0, <1>5 DEF Places, PlacePart, ListClient
<1>6. ASSUME NEW t \in Thread, LinkClient(t) PROVE Places'
  BY <1>0, <1>6 DEF Places, PlacePart, LinkClient
<1>7. ASSUME NEW t \in Thread, Relookup(t) PROVE Places'
  BY <1>0, <1>7 DEF Places, PlacePart, Relookup, CloseAgain
<1>8. ASSUME NEW t \in Thread, NoMemory(t) PROVE Places'
  BY <1>0, <1>8 DEF Places, PlacePart, NoMemory, CloseAgain
<1>9. ASSUME NEW t \in Thread, InitDone(t) PROVE Places'
  BY <1>0, <1>9 DEF Places, PlacePart, InitDone, PutRef, PutRefs, Miss, Failed
<1>10. ASSUME NEW t \in Thread, InitNotifier(t) PROVE Places'
  BY <1>0, <1>10 DEF Places, PlacePart, InitNotifier, Alloc
<1>11. ASSUME NEW t \in Thread, ListNotifier(t) PROVE Places'
  BY <1>0, <1>11 DEF Places, PlacePart, ListNotifier
<1>12. ASSUME NEW t \in Thread, LookupNotifier(t) PROVE Places'
  BY <1>0, <1>12 DEF Places, PlacePart, LookupNotifier
<1>13. ASSUME NEW t \in Thread, ClearSignal(t) PROVE Places'
  BY <1>0, <1>13 DEF Places, PlacePart, ClearSignal
<1>14. ASSUME NEW t \in Thread, Wait(t) PROVE Places'
  BY <1>0, <1>14 DEF Places, PlacePart, Wait
<1>15. ASSUME NEW t \in Thread, ReleaseNotifier(t) PROVE Places'
  BY <1>0, <1>15 DEF Places, PlacePart, ReleaseNotifier, GetRef
<1>16. ASSUME NEW t \in Thread, CloseNotifier(t) PROVE Places'
  BY <1>0, <1>16 DEF Places, PlacePart, CloseNotifier, PutRef, PutRefs
<1>17. ASSUME NEW t \in Thread, NotifierGone(t) PROVE Places'
  BY <1>0, <1>17 DEF Places, PlacePart, NotifierGone, PutRef, PutRefs
<1>18. ASSUME NEW t \in Thread, Timeout(t) PROVE Places'
  BY <1>0, <1>18 DEF Places, PlacePart, Timeout
<1>19. ASSUME NEW t \in Thread, ReleaseClient(t) PROVE Places'
  BY <1>0, <1>19 DEF Places, PlacePart, ReleaseClient, GetRef
<1>20. ASSUME NEW t \in Thread, StopSending(t) PROVE Places'
  BY <1>0, <1>20 DEF Places, PlacePart, StopSending
<1>21. ASSUME NEW t \in Thread, CloseClient(t) PROVE Places'
  BY <1>0, <1>21 DEF Places, PlacePart, CloseClient
<1>22. ASSUME NEW t \in Thread, PutReleased(t) PROVE Places'
  BY <1>0, <1>22 DEF Places, PlacePart, PutReleased, PutRef, PutRefs
<1>23. ASSUME NEW t \in Thread, Released(t) PROVE Places'
  BY <1>0, <1>23 DEF Places, PlacePart, Released
<1>24. ASSUME NEW t \in Thread, EnterCall(t) PROVE Places'
  BY <1>0, <1>24 DEF Places, PlacePart, EnterCall, GetRef
<1>25. ASSUME NEW c \in Clid, StartSend(c) PROVE Places'
  BY <1>0, <1>25 DEF Places, PlacePart, StartSend
<1>26. ASSUME NEW c \in Clid, EndSend(c) PROVE Places'
  BY <1>0, <1>26 DEF Places, PlacePart, EndSend
<1>27. ASSUME NEW c \in Clid, LeaveCall(c) PROVE Places'
  BY <1>0, <1>27 DEF Places, PlacePart, LeaveCall, PutRef, PutRefs
<1>28. ASSUME NEW c \in Clid, DataReset(c) PROVE Places'
  BY <1>0, <1>28 DEF Places, PlacePart, DataReset
<1>29. ASSUME NEW c \in Clid, DataClose(c) PROVE Places'
  BY <1>0, <1>29 DEF Places, PlacePart, DataClose
<1>30. ASSUME NEW c \in Clid, DataRelease(c) PROVE Places'
  BY <1>0, <1>30 DEF Places, PlacePart, DataRelease, PutRef, PutRefs
<1>31. ASSUME CtlRead PROVE Places'
  BY <1>0, <1>31 DEF Places, PlacePart, CtlRead
<1>32. ASSUME CtlDone PROVE Places'
  BY <1>0, <1>32 DEF Places, PlacePart, CtlDone
<1>33. ASSUME NEW c \in Clid, CtlNotify(c) PROVE Places'
  BY <1>0, <1>33 DEF Places, PlacePart, CtlNotify
<1>34. ASSUME NEW c \in Clid, CtlReset(c) PROVE Places'
  BY <1>0, <1>34 DEF Places, PlacePart, CtlReset
<1>35. ASSUME NEW s \in Server, ServerUp(s) PROVE Places'
  BY <1>0, <1>35 DEF Places, PlacePart, ServerUp
<1>36. ASSUME NEW s \in Server, ServerDown(s) PROVE Places'
  BY <1>0, <1>36 DEF Places, PlacePart, ServerDown
<1>37. CASE UNCHANGED vars
  BY <1>0, <1>37 DEF Places, PlacePart, vars
<1> QED
  BY <1>1, <1>2, <1>3, <1>4, <1>5, <1>6, <1>7, <1>8, <1>9, <1>10, <1>11,
     <1>12, <1>13, <1>14, <1>15, <1>16, <1>17, <1>18, <1>19, <1>20, <1>21,
     <1>22, <1>23, <1>24, <1>25, <1>26, <1>27, <1>28, <1>29, <1>30, <1>31,
     <1>32, <1>33, <1>34, <1>35, <1>36, <1>37
  DEF Next, InitInstance, Release, Call, Control, Data, Rest

\* No two threads get the same client or notifier.
LEMMA DistinctStep == LifeInv /\ [Next]_vars => Distinct'
<1> SUFFICES ASSUME LifeInv, [Next]_vars, NEW u \in Thread, NEW v \in Thread,
                    u # v
             PROVE  /\ me'[u] = me'[v] => me'[u] = NoClid
                    /\ note'[u] = note'[v] => note'[u] = NoClid
  BY DEF Distinct
<1> DEFINE Apart == /\ me'[u] = me'[v] => me'[u] = NoClid
                    /\ note'[u] = note'[v] => note'[u] = NoClid
<1> USE DEF Goto, objects, transport, control, threads
<1>0. /\ next_clid \in Nat /\ next_clid # NoClid
      /\ me \in [Thread -> Clid \cup {NoClid}]
      /\ note \in [Thread -> Clid \cup {NoClid}]
      /\ \A t \in Thread : /\ me[t] # NoClid => me[t] < next_clid
                           /\ note[t] # NoClid => note[t] < next_clid
      /\ me[u] = me[v] => me[u] = NoClid
      /\ note[u] = note[v] => note[u] = NoClid
  BY BoundAssumption DEF LifeInv, TypeOK, ObjectType, ThreadType, Clid, NoClid, Distinct,
     Clients, ClientPart, Notes, NotePart
<1>1. ASSUME NEW t \in Thread, CountServers(t) PROVE Apart
  BY <1>0, <1>1 DEF CountServers, Miss
<1>2. ASSUME NEW t \in Thread, LookForInstance(t) PROVE Apart
  BY <1>0, <1>2 DEF LookForInstance, Miss
<1>3. ASSUME NEW t \in Thread, InitClient(t) PROVE Apart
  BY <1>0, <1>3 DEF InitClient, Alloc
<1>4. ASSUME NEW t \in Thread, OpenClient(t) PROVE Apart
  BY <1>0, <1>4 DEF OpenClient, PutRefs, Failed
<1>5. ASSUME NEW t \in Thread, ListClient(t) PROVE Apart
  BY <1>0, <1>5 DEF ListClient
<1>6. ASSUME NEW t \in Thread, LinkClient(t) PROVE Apart
  BY <1>0, <1>6 DEF LinkClient
<1>7. ASSUME NEW t \in Thread, Relookup(t) PROVE Apart
  BY <1>0, <1>7 DEF Relookup, CloseAgain
<1>8. ASSUME NEW t \in Thread, NoMemory(t) PROVE Apart
  BY <1>0, <1>8 DEF NoMemory, CloseAgain
<1>9. ASSUME NEW t \in Thread, InitDone(t) PROVE Apart
  BY <1>0, <1>9 DEF InitDone, PutRef, PutRefs, Miss, Failed
<1>10. ASSUME NEW t \in Thread, InitNotifier(t) PROVE Apart
  BY <1>0, <1>10 DEF InitNotifier, Alloc
<1>11. ASSUME NEW t \in Thread, ListNotifier(t) PROVE Apart
  BY <1>0, <1>11 DEF ListNotifier
<1>12. ASSUME NEW t \in Thread, LookupNotifier(t) PROVE Apart
  BY <1>0, <1>12 DEF LookupNotifier
<1>13. ASSUME NEW t \in Thread, ClearSignal(t) PROVE Apart
  BY <1>0, <1>13 DEF ClearSignal
<1>14. ASSUME NEW t \in Thread, Wait(t) PROVE Apart
  BY <1>0, <1>14 DEF Wait
<1>15. ASSUME NEW t \in Thread, ReleaseNotifier(t) PROVE Apart
  BY <1>0, <1>15 DEF ReleaseNotifier, GetRef
<1>16. ASSUME NEW t \in Thread, CloseNotifier(t) PROVE Apart
  BY <1>0, <1>16 DEF CloseNotifier, PutRef, PutRefs
<1>17. ASSUME NEW t \in Thread, NotifierGone(t) PROVE Apart
  BY <1>0, <1>17 DEF NotifierGone, PutRef, PutRefs
<1>18. ASSUME NEW t \in Thread, Timeout(t) PROVE Apart
  BY <1>0, <1>18 DEF Timeout
<1>19. ASSUME NEW t \in Thread, ReleaseClient(t) PROVE Apart
  BY <1>0, <1>19 DEF ReleaseClient, GetRef
<1>20. ASSUME NEW t \in Thread, StopSending(t) PROVE Apart
  BY <1>0, <1>20 DEF StopSending
<1>21. ASSUME NEW t \in Thread, CloseClient(t) PROVE Apart
  BY <1>0, <1>21 DEF CloseClient
<1>22. ASSUME NEW t \in Thread, PutReleased(t) PROVE Apart
  BY <1>0, <1>22 DEF PutReleased, PutRef, PutRefs
<1>23. ASSUME NEW t \in Thread, Released(t) PROVE Apart
  BY <1>0, <1>23 DEF Released
<1>24. ASSUME NEW t \in Thread, EnterCall(t) PROVE Apart
  BY <1>0, <1>24 DEF EnterCall, GetRef
<1>25. ASSUME NEW c \in Clid, StartSend(c) PROVE Apart
  BY <1>0, <1>25 DEF StartSend
<1>26. ASSUME NEW c \in Clid, EndSend(c) PROVE Apart
  BY <1>0, <1>26 DEF EndSend
<1>27. ASSUME NEW c \in Clid, LeaveCall(c) PROVE Apart
  BY <1>0, <1>27 DEF LeaveCall, PutRef, PutRefs
<1>28. ASSUME NEW c \in Clid, DataReset(c) PROVE Apart
  BY <1>0, <1>28 DEF DataReset
<1>29. ASSUME NEW c \in Clid, DataClose(c) PROVE Apart
  BY <1>0, <1>29 DEF DataClose
<1>30. ASSUME NEW c \in Clid, DataRelease(c) PROVE Apart
  BY <1>0, <1>30 DEF DataRelease, PutRef, PutRefs
<1>31. ASSUME CtlRead PROVE Apart
  BY <1>0, <1>31 DEF CtlRead
<1>32. ASSUME CtlDone PROVE Apart
  BY <1>0, <1>32 DEF CtlDone
<1>33. ASSUME NEW c \in Clid, CtlNotify(c) PROVE Apart
  BY <1>0, <1>33 DEF CtlNotify
<1>34. ASSUME NEW c \in Clid, CtlReset(c) PROVE Apart
  BY <1>0, <1>34 DEF CtlReset
<1>35. ASSUME NEW s \in Server, ServerUp(s) PROVE Apart
  BY <1>0, <1>35 DEF ServerUp
<1>36. ASSUME NEW s \in Server, ServerDown(s) PROVE Apart
  BY <1>0, <1>36 DEF ServerDown
<1>37. CASE UNCHANGED vars
  BY <1>0, <1>37 DEF vars
<1> QED
  BY <1>1, <1>2, <1>3, <1>4, <1>5, <1>6, <1>7, <1>8, <1>9, <1>10, <1>11,
     <1>12, <1>13, <1>14, <1>15, <1>16, <1>17, <1>18, <1>19, <1>20, <1>21,
     <1>22, <1>23, <1>24, <1>25, <1>26, <1>27, <1>28, <1>29, <1>30, <1>31,
     <1>32, <1>33, <1>34, <1>35, <1>36, <1>37
  DEF Next, InitInstance, Release, Call, Control, Data, Rest

\* A notifier stays in the list of transports until its thread closes it.
LEMMA NoteStep == LifeInv /\ [Next]_vars => Notes'
<1> SUFFICES ASSUME LifeInv, [Next]_vars, NEW u \in Thread PROVE NotePart(u)'
  BY DEF Notes
<1> USE DEF Goto, objects, transport, control, threads
<1>a. /\ pc \in [Thread -> Pc] /\ me \in [Thread -> Clid \cup {NoClid}]
      /\ note \in [Thread -> Clid \cup {NoClid}]
      /\ category \in [Clid -> {"none", "connected", "dormant", "notifier"}]
      /\ \A t \in Thread : t # u /\ note[t] = note[u] => note[u] = NoClid
  BY DEF LifeInv, TypeOK, ObjectType, ThreadType, Distinct
<1>b. \A c \in Clid : c >= next_clid => c \notin list
  BY DEF LifeInv, Unused, UnusedPart
<1>0. /\ pc \in [Thread -> Pc] /\ me \in [Thread -> Clid \cup {NoClid}]
      /\ note \in [Thread -> Clid \cup {NoClid}]
      /\ category \in [Clid -> {"none", "connected", "dormant", "notifier"}]
      /\ \A t \in Thread : t # u /\ note[t] = note[u] => note[u] = NoClid
      /\ \A c \in Clid : c >= next_clid => c \notin list
      /\ next_clid \in Nat \ {0} /\ NoClid \notin Clid /\ NoClid = 0
      /\ Clid \subseteq Nat
      /\ \A t \in Thread : PlacePart(t) /\ NotePart(t)
      /\ \A t \in Thread : me[t] # NoClid => category[me[t]] # "notifier"
      /\ \A c \in Clid : category[c] = "notifier" =>
                           data[c] = "none" /\ call[c] = "none"
  BY <1>a, <1>b, Kinds
<1>1. ASSUME NEW t \in Thread, CountServers(t) PROVE NotePart(u)'
  BY <1>0, <1>1
  DEF NotePart, CountServers, Miss
<1>2. ASSUME NEW t \in Thread, LookForInstance(t) PROVE NotePart(u)'
  BY <1>0, <1>2
  DEF NotePart, LookForInstance, Miss
<1>3. ASSUME NEW t \in Thread, InitClient(t) PROVE NotePart(u)'
  <2>1. /\ next_clid' = next_clid + 1 /\ UNCHANGED <<note, list>>
        /\ category' = [category EXCEPT ![next_clid] = "connected"]
        /\ pc' = [pc EXCEPT ![t] = "open"] /\ pc[t] = "alloc"
    BY <1>3 DEF InitClient, Alloc
  <2>2. note[u] # NoClid => /\ note[u] \in Clid /\ note[u] # next_clid
                            /\ category'[note[u]] = category[note[u]]
                            /\ note[u] < next_clid + 1
    <3>1. ASSUME note[u] # NoClid
          PROVE  note[u] \in Nat /\ next_clid \in Nat /\ note[u] \in Clid
                 /\ note[u] < next_clid
      BY <1>0, <3>1 DEF NotePart
    <3> QED BY <1>0, <2>1, <3>1
  <2>3. pc'[u] \in {"nlist", "nput"} <=> pc[u] \in {"nlist", "nput"}
    BY <1>0, <2>1
  <2> QED BY <1>0, <2>1, <2>2, <2>3 DEF NotePart
<1>4. ASSUME NEW t \in Thread, OpenClient(t) PROVE NotePart(u)'
  <2>0. me[t] \in Clid
    BY <1>4, Has DEF OpenClient, MePc, InitHolds, OwnPc
  <2> QED BY <1>0, <1>4, <2>0
      DEF NotePart, OpenClient, PutRefs, Failed
<1>5. ASSUME NEW t \in Thread, ListClient(t) PROVE NotePart(u)'
  <2>0. me[t] \in Clid
    BY <1>5, Has DEF ListClient, MePc, InitHolds, OwnPc
  <2> QED BY <1>0, <1>5, <2>0
      DEF NotePart, ListClient
<1>6. ASSUME NEW t \in Thread, LinkClient(t) PROVE NotePart(u)'
  <2>0. me[t] \in Clid
    BY <1>6, Has DEF LinkClient, MePc, InitHolds, OwnPc
  <2> QED BY <1>0, <1>6, <2>0
      DEF NotePart, LinkClient
<1>7. ASSUME NEW t \in Thread, Relookup(t) PROVE NotePart(u)'
  <2>0. me[t] \in Clid
    BY <1>7, Has DEF Relookup, MePc, InitHolds, OwnPc
  <2> QED BY <1>0, <1>7, <2>0
      DEF NotePart, Relookup, CloseAgain
<1>8. ASSUME NEW t \in Thread, NoMemory(t) PROVE NotePart(u)'
  <2>0. me[t] \in Clid
    BY <1>8, Has DEF NoMemory, MePc, InitHolds, OwnPc
  <2> QED BY <1>0, <1>8, <2>0
      DEF NotePart, NoMemory, CloseAgain
<1>9. ASSUME NEW t \in Thread, InitDone(t) PROVE NotePart(u)'
  <2>0. me[t] \in Clid
    BY <1>9, Has DEF InitDone, MePc, InitHolds, OwnPc
  <2> QED BY <1>0, <1>9, <2>0
      DEF NotePart, InitDone, PutRef, PutRefs, Miss, Failed
<1>10. ASSUME NEW t \in Thread, InitNotifier(t) PROVE NotePart(u)'
  <2>1. CASE UNCHANGED <<next_clid, category, note>>
    BY <1>0, <1>10, <2>1 DEF NotePart, PlacePart, InitNotifier, NoNotePc
  <2>2. CASE Alloc("notifier") /\ note' = [note EXCEPT ![t] = next_clid]
    <3>1. /\ next_clid' = next_clid + 1 /\ next_clid \in Clid
          /\ category' = [category EXCEPT ![next_clid] = "notifier"]
          /\ list' = list /\ Goto(t, "nlist")
      BY <1>0, <1>10, <2>2 DEF InitNotifier, Alloc, Clid
    <3>2. CASE u = t
      BY <1>0, <2>2, <3>1, <3>2 DEF NotePart
    <3>3. CASE u # t
      <4>1. note'[u] = note[u] /\ pc'[u] = pc[u]
        BY <1>0, <2>2, <3>1, <3>3
      <4>2. note[u] # NoClid => /\ note[u] \in Clid /\ note[u] # next_clid
                                /\ category'[note[u]] = category[note[u]]
                                /\ note[u] < next_clid + 1
        <5>1. ASSUME note[u] # NoClid
              PROVE  note[u] \in Nat /\ next_clid \in Nat /\ note[u] \in Clid
                     /\ note[u] < next_clid
          BY <1>0, <5>1 DEF NotePart
        <5> QED BY <1>0, <3>1, <5>1
      <4> QED BY <1>0, <3>1, <4>1, <4>2 DEF NotePart
    <3> QED BY <3>2, <3>3
  <2> QED BY <1>10, <2>1, <2>2 DEF InitNotifier
<1>11. ASSUME NEW t \in Thread, ListNotifier(t) PROVE NotePart(u)'
  <2>0. note[t] \in Clid
    BY <1>11, Has DEF ListNotifier, NotePc
  <2> QED BY <1>0, <1>11, <2>0
      DEF NotePart, ListNotifier
<1>12. ASSUME NEW t \in Thread, LookupNotifier(t) PROVE NotePart(u)'
  <2>0. note[t] \in Clid
    BY <1>12, Has DEF LookupNotifier, NotePc
  <2> QED BY <1>0, <1>12, <2>0
      DEF NotePart, LookupNotifier
<1>13. ASSUME NEW t \in Thread, ClearSignal(t) PROVE NotePart(u)'
  BY <1>0, <1>13
  DEF NotePart, ClearSignal
<1>14. ASSUME NEW t \in Thread, Wait(t) PROVE NotePart(u)'
  BY <1>0, <1>14
  DEF NotePart, Wait
<1>15. ASSUME NEW t \in Thread, ReleaseNotifier(t) PROVE NotePart(u)'
  <2>0. note[t] \in Clid
    BY <1>15, Has DEF ReleaseNotifier, NotePc
  <2> QED BY <1>0, <1>15, <2>0
      DEF NotePart, ReleaseNotifier, GetRef
<1>16. ASSUME NEW t \in Thread, CloseNotifier(t) PROVE NotePart(u)'
  <2>0. note[t] \in Clid
    BY <1>16, Has DEF CloseNotifier, NotePc
  <2> QED BY <1>0, <1>16, <2>0
      DEF NotePart, CloseNotifier, PutRef, PutRefs
<1>17. ASSUME NEW t \in Thread, NotifierGone(t) PROVE NotePart(u)'
  <2>0. note[t] \in Clid
    BY <1>17, Has DEF NotifierGone, NotePc
  <2> QED BY <1>0, <1>17, <2>0
      DEF NotePart, NotifierGone, PutRef, PutRefs
<1>18. ASSUME NEW t \in Thread, Timeout(t) PROVE NotePart(u)'
  BY <1>0, <1>18
  DEF NotePart, Timeout
<1>19. ASSUME NEW t \in Thread, ReleaseClient(t) PROVE NotePart(u)'
  <2>0. me[t] \in Clid
    BY <1>19, Has DEF ReleaseClient, MePc, InitHolds, OwnPc
  <2> QED BY <1>0, <1>19, <2>0
      DEF NotePart, ReleaseClient, GetRef
<1>20. ASSUME NEW t \in Thread, StopSending(t) PROVE NotePart(u)'
  <2>0. me[t] \in Clid
    BY <1>20, Has DEF StopSending, MePc, InitHolds, OwnPc
  <2> QED BY <1>0, <1>20, <2>0
      DEF NotePart, StopSending
<1>21. ASSUME NEW t \in Thread, CloseClient(t) PROVE NotePart(u)'
  <2>0. me[t] \in Clid
    BY <1>21, Has DEF CloseClient, MePc, InitHolds, OwnPc
  <2> QED BY <1>0, <1>21, <2>0
      DEF NotePart, CloseClient
<1>22. ASSUME NEW t \in Thread, PutReleased(t) PROVE NotePart(u)'
  <2>0. me[t] \in Clid
    BY <1>22, Has DEF PutReleased, MePc, InitHolds, OwnPc
  <2> QED BY <1>0, <1>22, <2>0
      DEF NotePart, PutReleased, PutRef, PutRefs
<1>23. ASSUME NEW t \in Thread, Released(t) PROVE NotePart(u)'
  <2>0. me[t] \in Clid
    BY <1>23, Has DEF Released, MePc, InitHolds, OwnPc
  <2> QED BY <1>0, <1>23, <2>0
      DEF NotePart, Released
<1>24. ASSUME NEW t \in Thread, EnterCall(t) PROVE NotePart(u)'
  <2>0. me[t] \in Clid
    BY <1>24, Has DEF EnterCall, MePc, InitHolds, OwnPc
  <2> QED BY <1>0, <1>24, <2>0
      DEF NotePart, EnterCall, GetRef
<1>25. ASSUME NEW c \in Clid, StartSend(c) PROVE NotePart(u)'
  BY <1>0, <1>25
  DEF NotePart, StartSend
<1>26. ASSUME NEW c \in Clid, EndSend(c) PROVE NotePart(u)'
  BY <1>0, <1>26
  DEF NotePart, EndSend
<1>27. ASSUME NEW c \in Clid, LeaveCall(c) PROVE NotePart(u)'
  BY <1>0, <1>27
  DEF NotePart, LeaveCall, PutRef, PutRefs
<1>28. ASSUME NEW c \in Clid, DataReset(c) PROVE NotePart(u)'
  BY <1>0, <1>28
  DEF NotePart, DataReset
<1>29. ASSUME NEW c \in Clid, DataClose(c) PROVE NotePart(u)'
  BY <1>0, <1>29
  DEF NotePart, DataClose
<1>30. ASSUME NEW c \in Clid, DataRelease(c) PROVE NotePart(u)'
  BY <1>0, <1>30
  DEF NotePart, DataRelease, PutRef, PutRefs
<1>31. ASSUME CtlRead PROVE NotePart(u)'
  BY <1>0, <1>31
  DEF NotePart, CtlRead
<1>32. ASSUME CtlDone PROVE NotePart(u)'
  BY <1>0, <1>32
  DEF NotePart, CtlDone
<1>33. ASSUME NEW c \in Clid, CtlNotify(c) PROVE NotePart(u)'
  BY <1>0, <1>33
  DEF NotePart, CtlNotify
<1>34. ASSUME NEW c \in Clid, CtlReset(c) PROVE NotePart(u)'
  BY <1>0, <1>34
  DEF NotePart, CtlReset
<1>35. ASSUME NEW s \in Server, ServerUp(s) PROVE NotePart(u)'
  BY <1>0, <1>35
  DEF NotePart, ServerUp
<1>36. ASSUME NEW s \in Server, ServerDown(s) PROVE NotePart(u)'
  BY <1>0, <1>36
  DEF NotePart, ServerDown
<1>37. CASE UNCHANGED vars
  BY <1>0, <1>37 DEF NotePart, vars
<1> QED
  BY <1>1, <1>2, <1>3, <1>4, <1>5, <1>6, <1>7, <1>8, <1>9, <1>10, <1>11,
     <1>12, <1>13, <1>14, <1>15, <1>16, <1>17, <1>18, <1>19, <1>20, <1>21,
     <1>22, <1>23, <1>24, <1>25, <1>26, <1>27, <1>28, <1>29, <1>30, <1>31,
     <1>32, <1>33, <1>34, <1>35, <1>36, <1>37
  DEF Next, InitInstance, Release, Call, Control, Data, Rest

\* A client's transport stays open and listed until its user releases it.
LEMMA ClientStep == LifeInv /\ [Next]_vars => Clients'
<1> SUFFICES ASSUME LifeInv, [Next]_vars, NEW u \in Thread
             PROVE  ClientPart(u)'
  BY DEF Clients
<1> USE DEF Goto, objects, transport, control, threads
<1>a. /\ pc \in [Thread -> Pc] /\ me \in [Thread -> Clid \cup {NoClid}]
      /\ note \in [Thread -> Clid \cup {NoClid}]
      /\ category \in [Clid -> {"none", "connected", "dormant", "notifier"}]
      /\ server \in [Clid -> Server] /\ found \in [Thread -> Server]
      /\ data \in [Clid -> {"none", "poll", "closing", "gone"}]
      /\ pipe \in [Clid -> Seq({"r", "d"})]
      /\ \A t \in Thread : t # u /\ me[t] = me[u] => me[u] = NoClid
  BY DEF LifeInv, TypeOK, ObjectType, TransportType, ThreadType, Distinct
<1>b. \A c \in Clid : c >= next_clid => data[c] = "none" /\ pipe[c] = <<>>
                                              /\ c \notin list
  BY DEF LifeInv, Unused, UnusedPart
<1>c. /\ \A q \in Seq({"r", "d"}) : \A e \in {"r", "d"} :
           Elems(Append(q, e)) = Elems(q) \cup {e}
      /\ \A q \in Seq({"r", "d"}) : q # <<>> =>
           Elems(q) = {Head(q)} \cup Elems(Tail(q))
      /\ Elems(<<>>) = {}
  <2>1. Elems(<<>>) = {}
    BY DEF Elems
  <2> QED BY <2>1, ElemsAppend, ElemsTail
<1>0. /\ pc \in [Thread -> Pc] /\ me \in [Thread -> Clid \cup {NoClid}]
      /\ note \in [Thread -> Clid \cup {NoClid}]
      /\ category \in [Clid -> {"none", "connected", "dormant", "notifier"}]
      /\ server \in [Clid -> Server] /\ found \in [Thread -> Server]
      /\ data \in [Clid -> {"none", "poll", "closing", "gone"}]
      /\ pipe \in [Clid -> Seq({"r", "d"})]
      /\ \A t \in Thread : t # u /\ me[t] = me[u] => me[u] = NoClid
      /\ next_clid \in Nat \ {0} /\ NoClid \notin Clid /\ NoClid = 0
      /\ Clid \subseteq Nat
      /\ ClientPart(u) /\ \A t \in Thread : PlacePart(t) /\ NotePart(t)
  BY <1>a, Kinds
<1>1. ASSUME NEW t \in Thread, CountServers(t) PROVE ClientPart(u)'
  BY <1>0, <1>1
  DEF ClientPart, OpenPc, OwnPc, CountServers, Miss
<1>2. ASSUME NEW t \in Thread, LookForInstance(t) PROVE ClientPart(u)'
  BY <1>0, <1>2
  DEF ClientPart, OpenPc, OwnPc, LookForInstance, Miss
<1>3. ASSUME NEW t \in Thread, InitClient(t) PROVE ClientPart(u)'
  <2>1. /\ next_clid' = next_clid + 1 /\ next_clid \in Clid
        /\ category' = [category EXCEPT ![next_clid] = "connected"]
        /\ accepting' = accepting \cup {next_clid}
        /\ server' = [server EXCEPT ![next_clid] = found[t]]
        /\ UNCHANGED <<list, data, pipe, found>>
        /\ me' = [me EXCEPT ![t] = next_clid] /\ Goto(t, "open")
    BY <1>0, <1>3 DEF InitClient, Alloc, Clid
  <2>2. CASE u = t
    BY <1>0, <1>b, <1>c, <2>1, <2>2 DEF ClientPart, OpenPc, OwnPc
  <2>3. CASE u # t
    <3>1. me'[u] = me[u] /\ pc'[u] = pc[u] /\ found'[u] = found[u]
      BY <1>0, <2>1, <2>3
    <3>2. me[u] # NoClid => /\ me[u] \in Clid /\ me[u] # next_clid
                            /\ category'[me[u]] = category[me[u]]
                            /\ server'[me[u]] = server[me[u]]
                            /\ me[u] < next_clid + 1
      <4>1. ASSUME me[u] # NoClid
            PROVE  me[u] \in Nat /\ next_clid \in Nat /\ me[u] \in Clid
                   /\ me[u] < next_clid
        BY <1>0, <4>1 DEF ClientPart
      <4> QED BY <1>0, <2>1, <4>1
    <3> QED BY <1>0, <2>1, <3>1, <3>2 DEF ClientPart
  <2> QED BY <2>2, <2>3
<1>4. ASSUME NEW t \in Thread, OpenClient(t) PROVE ClientPart(u)'
  <2>0. me[t] \in Clid
    BY <1>4, Has DEF OpenClient, MePc, InitHolds, OwnPc
  <2> QED BY <1>0, <1>4, <2>0
      DEF ClientPart, OpenPc, OwnPc, OpenClient, PutRefs, Failed
<1>5. ASSUME NEW t \in Thread, ListClient(t) PROVE ClientPart(u)'
  <2>0. me[t] \in Clid
    BY <1>5, Has DEF ListClient, MePc, InitHolds, OwnPc
  <2> QED BY <1>0, <1>5, <2>0
      DEF ClientPart, OpenPc, OwnPc, ListClient
<1>6. ASSUME NEW t \in Thread, LinkClient(t) PROVE ClientPart(u)'
  <2>0. me[t] \in Clid
    BY <1>6, Has DEF LinkClient, MePc, InitHolds, OwnPc
  <2> QED BY <1>0, <1>6, <2>0
      DEF ClientPart, OpenPc, OwnPc, LinkClient
<1>7. ASSUME NEW t \in Thread, Relookup(t) PROVE ClientPart(u)'
  <2>0. me[t] \in Clid
    BY <1>7, Has DEF Relookup, MePc, InitHolds, OwnPc
  <2> QED BY <1>0, <1>7, <2>0
      DEF ClientPart, OpenPc, OwnPc, Relookup, CloseAgain
<1>8. ASSUME NEW t \in Thread, NoMemory(t) PROVE ClientPart(u)'
  <2>0. me[t] \in Clid
    BY <1>8, Has DEF NoMemory, MePc, InitHolds, OwnPc
  <2> QED BY <1>0, <1>8, <2>0
      DEF ClientPart, OpenPc, OwnPc, NoMemory, CloseAgain
<1>9. ASSUME NEW t \in Thread, InitDone(t) PROVE ClientPart(u)'
  <2>0. me[t] \in Clid
    BY <1>9, Has DEF InitDone, MePc, InitHolds, OwnPc
  <2> QED BY <1>0, <1>9, <2>0
      DEF ClientPart, OpenPc, OwnPc, InitDone, PutRef, PutRefs, Miss, Failed
<1>10. ASSUME NEW t \in Thread, InitNotifier(t) PROVE ClientPart(u)'
  <2>1. CASE UNCHANGED <<next_clid, category, accepting>>
    BY <1>0, <1>10, <2>1 DEF ClientPart, OpenPc, OwnPc, PlacePart, NoMePc,
       InitNotifier
  <2>2. CASE Alloc("notifier") /\ Goto(t, "nlist")
    <3>1. /\ next_clid' = next_clid + 1 /\ next_clid \in Clid
          /\ category' = [category EXCEPT ![next_clid] = "notifier"]
          /\ pc[t] = "nalloc"
          /\ UNCHANGED <<list, data, pipe, accepting, server, me, found>>
      BY <1>0, <1>10, <2>2 DEF InitNotifier, Alloc, Clid
    <3>2. CASE u = t
      BY <1>0, <2>2, <3>1, <3>2 DEF ClientPart, PlacePart, NoMePc
    <3>3. CASE u # t
      BY <1>0, <2>2, <3>1, <3>3 DEF ClientPart, OpenPc, OwnPc
    <3> QED BY <3>2, <3>3
  <2> QED BY <1>10, <2>1, <2>2 DEF InitNotifier
<1>11. ASSUME NEW t \in Thread, ListNotifier(t) PROVE ClientPart(u)'
  <2>1. note[t] # NoClid /\ category[note[t]] = "notifier"
    BY <1>0, <1>11 DEF ListNotifier, PlacePart, NotePc, NotePart
  <2>2. /\ UNCHANGED <<next_clid, category, data, pipe, accepting, server,
                       found, me>>
        /\ Goto(t, "nlook") /\ pc[t] = "nlist" /\ list' = list \cup {note[t]}
    BY <1>11 DEF ListNotifier
  <2> QED BY <1>0, <2>1, <2>2 DEF ClientPart, OpenPc, OwnPc
<1>12. ASSUME NEW t \in Thread, LookupNotifier(t) PROVE ClientPart(u)'
  <2>0. note[t] \in Clid
    BY <1>12, Has DEF LookupNotifier, NotePc
  <2> QED BY <1>0, <1>12, <2>0
      DEF ClientPart, OpenPc, OwnPc, LookupNotifier
<1>13. ASSUME NEW t \in Thread, ClearSignal(t) PROVE ClientPart(u)'
  BY <1>0, <1>13
  DEF ClientPart, OpenPc, OwnPc, ClearSignal
<1>14. ASSUME NEW t \in Thread, Wait(t) PROVE ClientPart(u)'
  BY <1>0, <1>14
  DEF ClientPart, OpenPc, OwnPc, Wait
<1>15. ASSUME NEW t \in Thread, ReleaseNotifier(t) PROVE ClientPart(u)'
  <2>0. note[t] \in Clid
    BY <1>15, Has DEF ReleaseNotifier, NotePc
  <2> QED BY <1>0, <1>15, <2>0
      DEF ClientPart, OpenPc, OwnPc, ReleaseNotifier, GetRef
<1>16. ASSUME NEW t \in Thread, CloseNotifier(t) PROVE ClientPart(u)'
  <2>1. note[t] # NoClid /\ category[note[t]] = "notifier"
    BY <1>0, <1>16 DEF CloseNotifier, PlacePart, NotePc, NotePart
  <2>2. UNCHANGED <<next_clid, category, data, pipe, accepting, server, found, me>>
        /\ Goto(t, "nput") /\ pc[t] = "nclose" /\ list' = list \ {note[t]}
    BY <1>16 DEF CloseNotifier
  <2> QED BY <1>0, <2>1, <2>2 DEF ClientPart, OpenPc, OwnPc
<1>17. ASSUME NEW t \in Thread, NotifierGone(t) PROVE ClientPart(u)'
  <2>0. note[t] \in Clid
    BY <1>17, Has DEF NotifierGone, NotePc
  <2> QED BY <1>0, <1>17, <2>0
      DEF ClientPart, OpenPc, OwnPc, NotifierGone, PutRef, PutRefs
<1>18. ASSUME NEW t \in Thread, Timeout(t) PROVE ClientPart(u)'
  BY <1>0, <1>18 DEF ClientPart, OpenPc, OwnPc, PlacePart, NoMePc, Timeout
<1>19. ASSUME NEW t \in Thread, ReleaseClient(t) PROVE ClientPart(u)'
  <2>0. me[t] \in Clid
    BY <1>19, Has DEF ReleaseClient, MePc, InitHolds, OwnPc
  <2> QED BY <1>0, <1>19, <2>0
      DEF ClientPart, OpenPc, OwnPc, ReleaseClient, GetRef
<1>20. ASSUME NEW t \in Thread, StopSending(t) PROVE ClientPart(u)'
  <2>0. me[t] \in Clid
    BY <1>20, Has DEF StopSending, MePc, InitHolds, OwnPc
  <2> QED BY <1>0, <1>20, <2>0
      DEF ClientPart, OpenPc, OwnPc, StopSending
<1>21. ASSUME NEW t \in Thread, CloseClient(t) PROVE ClientPart(u)'
  <2>0. me[t] \in Clid
    BY <1>21, Has DEF CloseClient, MePc, InitHolds, OwnPc
  <2> QED BY <1>0, <1>21, <2>0
      DEF ClientPart, OpenPc, OwnPc, CloseClient
<1>22. ASSUME NEW t \in Thread, PutReleased(t) PROVE ClientPart(u)'
  <2>0. me[t] \in Clid
    BY <1>22, Has DEF PutReleased, MePc, InitHolds, OwnPc
  <2> QED BY <1>0, <1>22, <2>0
      DEF ClientPart, OpenPc, OwnPc, PutReleased, PutRef, PutRefs
<1>23. ASSUME NEW t \in Thread, Released(t) PROVE ClientPart(u)'
  <2>0. me[t] \in Clid
    BY <1>23, Has DEF Released, MePc, InitHolds, OwnPc
  <2> QED BY <1>0, <1>23, <2>0
      DEF ClientPart, OpenPc, OwnPc, Released
<1>24. ASSUME NEW t \in Thread, EnterCall(t) PROVE ClientPart(u)'
  <2>0. me[t] \in Clid
    BY <1>24, Has DEF EnterCall, MePc, InitHolds, OwnPc
  <2> QED BY <1>0, <1>24, <2>0
      DEF ClientPart, OpenPc, OwnPc, EnterCall, GetRef
<1>25. ASSUME NEW c \in Clid, StartSend(c) PROVE ClientPart(u)'
  BY <1>0, <1>25
  DEF ClientPart, OpenPc, OwnPc, StartSend
<1>26. ASSUME NEW c \in Clid, EndSend(c) PROVE ClientPart(u)'
  BY <1>0, <1>26
  DEF ClientPart, OpenPc, OwnPc, EndSend
<1>27. ASSUME NEW c \in Clid, LeaveCall(c) PROVE ClientPart(u)'
  BY <1>0, <1>27
  DEF ClientPart, OpenPc, OwnPc, LeaveCall, PutRef, PutRefs
<1>28. ASSUME NEW c \in Clid, DataReset(c) PROVE ClientPart(u)'
  <2>1. /\ data[c] = "poll"
        /\ Elems(pipe[c]) = {"r"} \cup Elems(Tail(pipe[c]))
        /\ pipe' = [pipe EXCEPT ![c] = Tail(@)]
        /\ category' = category
             \/ category' = [category EXCEPT ![c] = "dormant"]
        /\ UNCHANGED <<next_clid, list, data, accepting, server, me, found, pc>>
    BY <1>0, <1>c, <1>28 DEF DataReset
  <2>2. /\ me[u] # NoClid /\ "d" \notin Elems(pipe[me[u]])
             => "d" \notin Elems(pipe'[me[u]])
        /\ me[u] # NoClid /\ category[me[u]] \in {"connected", "dormant"}
             => category'[me[u]] \in {"connected", "dormant"}
    BY <1>0, <2>1
  <2> QED BY <1>0, <2>1, <2>2 DEF ClientPart
<1>29. ASSUME NEW c \in Clid, DataClose(c) PROVE ClientPart(u)'
  <2>1. /\ data[c] = "poll" /\ "d" \in Elems(pipe[c])
        /\ pipe' = [pipe EXCEPT ![c] = <<>>]
        /\ data' = [data EXCEPT ![c] = "closing"]
        /\ UNCHANGED <<next_clid, category, list, accepting, server, me, found,
                       pc>>
    BY <1>0, <1>c, <1>29 DEF DataClose
  <2>2. CASE me[u] = c
    BY <1>0, <2>1, <2>2 DEF ClientPart, OpenPc, OwnPc
  <2>3. CASE me[u] # c
    BY <1>0, <2>1, <2>3 DEF ClientPart
  <2> QED BY <2>2, <2>3
<1>30. ASSUME NEW c \in Clid, DataRelease(c) PROVE ClientPart(u)'
  BY <1>0, <1>30
  DEF ClientPart, OpenPc, OwnPc, DataRelease, PutRef, PutRefs
<1>31. ASSUME CtlRead PROVE ClientPart(u)'
  BY <1>0, <1>31
  DEF ClientPart, OpenPc, OwnPc, CtlRead
<1>32. ASSUME CtlDone PROVE ClientPart(u)'
  BY <1>0, <1>32
  DEF ClientPart, OpenPc, OwnPc, CtlDone
<1>33. ASSUME NEW c \in Clid, CtlNotify(c) PROVE ClientPart(u)'
  BY <1>0, <1>33
  DEF ClientPart, OpenPc, OwnPc, CtlNotify
<1>34. ASSUME NEW c \in Clid, CtlReset(c) PROVE ClientPart(u)'
  <2>1. /\ pipe' = pipe \/ pipe' = [pipe EXCEPT ![c] = Append(@, "r")]
        /\ UNCHANGED <<next_clid, category, data, list, accepting, server, me,
                       found, pc>>
    BY <1>34 DEF CtlReset
  <2>2. me[u] # NoClid /\ "d" \notin Elems(pipe[me[u]])
          => "d" \notin Elems(pipe'[me[u]])
    <3>1. CASE me[u] \in Clid /\ pipe' = [pipe EXCEPT ![c] = Append(@, "r")]
      <4>1. Elems(Append(pipe[c], "r")) = Elems(pipe[c]) \cup {"r"}
        BY <1>0, <1>c
      <4> QED BY <1>0, <3>1, <4>1
    <3>2. CASE pipe' = pipe
      BY <3>2
    <3> QED BY <1>0, <2>1, <3>1, <3>2
  <2> QED BY <1>0, <2>1, <2>2 DEF ClientPart
<1>35. ASSUME NEW s \in Server, ServerUp(s) PROVE ClientPart(u)'
  BY <1>0, <1>35
  DEF ClientPart, OpenPc, OwnPc, ServerUp
<1>36. ASSUME NEW s \in Server, ServerDown(s) PROVE ClientPart(u)'
  BY <1>0, <1>36
  DEF ClientPart, OpenPc, OwnPc, ServerDown
<1>37. CASE UNCHANGED vars
  BY <1>0, <1>37 DEF ClientPart, vars
<1> QED
  BY <1>1, <1>2, <1>3, <1>4, <1>5, <1>6, <1>7, <1>8, <1>9, <1>10, <1>11,
     <1>12, <1>13, <1>14, <1>15, <1>16, <1>17, <1>18, <1>19, <1>20, <1>21,
     <1>22, <1>23, <1>24, <1>25, <1>26, <1>27, <1>28, <1>29, <1>30, <1>31,
     <1>32, <1>33, <1>34, <1>35, <1>36, <1>37
  DEF Next, InitInstance, Release, Call, Control, Data, Rest

\* An object that was not given out yet is not used.
LEMMA UnusedStep == LifeInv /\ [Next]_vars => Unused'
<1> SUFFICES ASSUME LifeInv, [Next]_vars, NEW k \in Clid
             PROVE  UnusedPart(k)'
  BY DEF Unused
<1> USE DEF Goto, objects, transport, control, threads
<1>a. /\ pc \in [Thread -> Pc] /\ me \in [Thread -> Clid \cup {NoClid}]
      /\ note \in [Thread -> Clid \cup {NoClid}]
      /\ obj \in [Clid -> {"unused", "live", "freed"}]
      /\ category \in [Clid -> {"none", "connected", "dormant", "notifier"}]
      /\ ref_count \in [Clid -> Nat]
      /\ data \in [Clid -> {"none", "poll", "closing", "gone"}]
      /\ call \in [Clid -> {"none", "in", "send", "sent"}]
      /\ pipe \in [Clid -> Seq({"r", "d"})]
  BY DEF LifeInv, TypeOK, ObjectType, TransportType, ThreadType, WorldType
<1>b. \A t \in Thread : /\ me[t] # NoClid => me[t] < next_clid
                        /\ note[t] # NoClid => note[t] < next_clid
  BY Kinds DEF ClientPart, NotePart
<1>0. /\ pc \in [Thread -> Pc] /\ me \in [Thread -> Clid \cup {NoClid}]
      /\ note \in [Thread -> Clid \cup {NoClid}]
      /\ obj \in [Clid -> {"unused", "live", "freed"}]
      /\ category \in [Clid -> {"none", "connected", "dormant", "notifier"}]
      /\ ref_count \in [Clid -> Nat]
      /\ data \in [Clid -> {"none", "poll", "closing", "gone"}]
      /\ call \in [Clid -> {"none", "in", "send", "sent"}]
      /\ pipe \in [Clid -> Seq({"r", "d"})]
      /\ next_clid \in Nat \ {0} /\ NoClid \notin Clid /\ NoClid = 0
      /\ Clid \subseteq Nat
      /\ UnusedPart(k) /\ \A t \in Thread : PlacePart(t)
      /\ \A t \in Thread : /\ me[t] # NoClid => me[t] < next_clid
                           /\ note[t] # NoClid => note[t] < next_clid
  BY <1>a, <1>b, Kinds
<1>1. ASSUME NEW t \in Thread, CountServers(t) PROVE UnusedPart(k)'
  BY <1>0, <1>1
  DEF UnusedPart, CountServers, Miss
<1>2. ASSUME NEW t \in Thread, LookForInstance(t) PROVE UnusedPart(k)'
  BY <1>0, <1>2
  DEF UnusedPart, LookForInstance, Miss
<1>3. ASSUME NEW t \in Thread, InitClient(t) PROVE UnusedPart(k)'
  BY <1>0, <1>3
  DEF UnusedPart, InitClient, Alloc
<1>4. ASSUME NEW t \in Thread, OpenClient(t) PROVE UnusedPart(k)'
  <2>0. me[t] \in Clid
    BY <1>4, Has DEF OpenClient, MePc, InitHolds, OwnPc
  <2> QED BY <1>0, <1>4, <2>0
      DEF UnusedPart, OpenClient, PutRefs, Failed
<1>5. ASSUME NEW t \in Thread, ListClient(t) PROVE UnusedPart(k)'
  <2>0. me[t] \in Clid
    BY <1>5, Has DEF ListClient, MePc, InitHolds, OwnPc
  <2> QED BY <1>0, <1>5, <2>0
      DEF UnusedPart, ListClient
<1>6. ASSUME NEW t \in Thread, LinkClient(t) PROVE UnusedPart(k)'
  <2>0. me[t] \in Clid
    BY <1>6, Has DEF LinkClient, MePc, InitHolds, OwnPc
  <2> QED BY <1>0, <1>6, <2>0
      DEF UnusedPart, LinkClient
<1>7. ASSUME NEW t \in Thread, Relookup(t) PROVE UnusedPart(k)'
  <2>0. me[t] \in Clid
    BY <1>7, Has DEF Relookup, MePc, InitHolds, OwnPc
  <2> QED BY <1>0, <1>7, <2>0
      DEF UnusedPart, Relookup, CloseAgain
<1>8. ASSUME NEW t \in Thread, NoMemory(t) PROVE UnusedPart(k)'
  <2>0. me[t] \in Clid
    BY <1>8, Has DEF NoMemory, MePc, InitHolds, OwnPc
  <2> QED BY <1>0, <1>8, <2>0
      DEF UnusedPart, NoMemory, CloseAgain
<1>9. ASSUME NEW t \in Thread, InitDone(t) PROVE UnusedPart(k)'
  <2>0. me[t] \in Clid
    BY <1>9, Has DEF InitDone, MePc, InitHolds, OwnPc
  <2> QED BY <1>0, <1>9, <2>0
      DEF UnusedPart, InitDone, PutRef, PutRefs, Miss, Failed
<1>10. ASSUME NEW t \in Thread, InitNotifier(t) PROVE UnusedPart(k)'
  BY <1>0, <1>10
  DEF UnusedPart, InitNotifier, Alloc
<1>11. ASSUME NEW t \in Thread, ListNotifier(t) PROVE UnusedPart(k)'
  <2>0. note[t] \in Clid
    BY <1>11, Has DEF ListNotifier, NotePc
  <2> QED BY <1>0, <1>11, <2>0
      DEF UnusedPart, ListNotifier
<1>12. ASSUME NEW t \in Thread, LookupNotifier(t) PROVE UnusedPart(k)'
  <2>0. note[t] \in Clid
    BY <1>12, Has DEF LookupNotifier, NotePc
  <2> QED BY <1>0, <1>12, <2>0
      DEF UnusedPart, LookupNotifier
<1>13. ASSUME NEW t \in Thread, ClearSignal(t) PROVE UnusedPart(k)'
  BY <1>0, <1>13
  DEF UnusedPart, ClearSignal
<1>14. ASSUME NEW t \in Thread, Wait(t) PROVE UnusedPart(k)'
  BY <1>0, <1>14
  DEF UnusedPart, Wait
<1>15. ASSUME NEW t \in Thread, ReleaseNotifier(t) PROVE UnusedPart(k)'
  <2>0. note[t] \in Clid
    BY <1>15, Has DEF ReleaseNotifier, NotePc
  <2> QED BY <1>0, <1>15, <2>0
      DEF UnusedPart, ReleaseNotifier, GetRef
<1>16. ASSUME NEW t \in Thread, CloseNotifier(t) PROVE UnusedPart(k)'
  <2>0. note[t] \in Clid
    BY <1>16, Has DEF CloseNotifier, NotePc
  <2> QED BY <1>0, <1>16, <2>0
      DEF UnusedPart, CloseNotifier, PutRef, PutRefs
<1>17. ASSUME NEW t \in Thread, NotifierGone(t) PROVE UnusedPart(k)'
  <2>0. note[t] \in Clid
    BY <1>17, Has DEF NotifierGone, NotePc
  <2> QED BY <1>0, <1>17, <2>0
      DEF UnusedPart, NotifierGone, PutRef, PutRefs
<1>18. ASSUME NEW t \in Thread, Timeout(t) PROVE UnusedPart(k)'
  BY <1>0, <1>18
  DEF UnusedPart, Timeout
<1>19. ASSUME NEW t \in Thread, ReleaseClient(t) PROVE UnusedPart(k)'
  <2>0. me[t] \in Clid
    BY <1>19, Has DEF ReleaseClient, MePc, InitHolds, OwnPc
  <2> QED BY <1>0, <1>19, <2>0
      DEF UnusedPart, ReleaseClient, GetRef
<1>20. ASSUME NEW t \in Thread, StopSending(t) PROVE UnusedPart(k)'
  <2>0. me[t] \in Clid
    BY <1>20, Has DEF StopSending, MePc, InitHolds, OwnPc
  <2> QED BY <1>0, <1>20, <2>0
      DEF UnusedPart, StopSending
<1>21. ASSUME NEW t \in Thread, CloseClient(t) PROVE UnusedPart(k)'
  <2>0. me[t] \in Clid
    BY <1>21, Has DEF CloseClient, MePc, InitHolds, OwnPc
  <2> QED BY <1>0, <1>21, <2>0
      DEF UnusedPart, CloseClient
<1>22. ASSUME NEW t \in Thread, PutReleased(t) PROVE UnusedPart(k)'
  <2>0. me[t] \in Clid
    BY <1>22, Has DEF PutReleased, MePc, InitHolds, OwnPc
  <2> QED BY <1>0, <1>22, <2>0
      DEF UnusedPart, PutReleased, PutRef, PutRefs
<1>23. ASSUME NEW t \in Thread, Released(t) PROVE UnusedPart(k)'
  <2>0. me[t] \in Clid
    BY <1>23, Has DEF Released, MePc, InitHolds, OwnPc
  <2> QED BY <1>0, <1>23, <2>0
      DEF UnusedPart, Released
<1>24. ASSUME NEW t \in Thread, EnterCall(t) PROVE UnusedPart(k)'
  <2>0. me[t] \in Clid
    BY <1>24, Has DEF EnterCall, MePc, InitHolds, OwnPc
  <2> QED BY <1>0, <1>24, <2>0
      DEF UnusedPart, EnterCall, GetRef
<1>25. ASSUME NEW c \in Clid, StartSend(c) PROVE UnusedPart(k)'
  BY <1>0, <1>25
  DEF UnusedPart, StartSend
<1>26. ASSUME NEW c \in Clid, EndSend(c) PROVE UnusedPart(k)'
  BY <1>0, <1>26
  DEF UnusedPart, EndSend
<1>27. ASSUME NEW c \in Clid, LeaveCall(c) PROVE UnusedPart(k)'
  BY <1>0, <1>27
  DEF UnusedPart, LeaveCall, PutRef, PutRefs
<1>28. ASSUME NEW c \in Clid, DataReset(c) PROVE UnusedPart(k)'
  BY <1>0, <1>28
  DEF UnusedPart, DataReset
<1>29. ASSUME NEW c \in Clid, DataClose(c) PROVE UnusedPart(k)'
  BY <1>0, <1>29
  DEF UnusedPart, DataClose
<1>30. ASSUME NEW c \in Clid, DataRelease(c) PROVE UnusedPart(k)'
  BY <1>0, <1>30
  DEF UnusedPart, DataRelease, PutRef, PutRefs
<1>31. ASSUME CtlRead PROVE UnusedPart(k)'
  BY <1>0, <1>31
  DEF UnusedPart, CtlRead
<1>32. ASSUME CtlDone PROVE UnusedPart(k)'
  BY <1>0, <1>32
  DEF UnusedPart, CtlDone
<1>33. ASSUME NEW c \in Clid, CtlNotify(c) PROVE UnusedPart(k)'
  BY <1>0, <1>33
  DEF UnusedPart, CtlNotify
<1>34. ASSUME NEW c \in Clid, CtlReset(c) PROVE UnusedPart(k)'
  BY <1>0, <1>34
  DEF UnusedPart, CtlReset
<1>35. ASSUME NEW s \in Server, ServerUp(s) PROVE UnusedPart(k)'
  BY <1>0, <1>35
  DEF UnusedPart, ServerUp
<1>36. ASSUME NEW s \in Server, ServerDown(s) PROVE UnusedPart(k)'
  BY <1>0, <1>36
  DEF UnusedPart, ServerDown
<1>37. CASE UNCHANGED vars
  BY <1>0, <1>37 DEF UnusedPart, vars
<1> QED
  BY <1>1, <1>2, <1>3, <1>4, <1>5, <1>6, <1>7, <1>8, <1>9, <1>10, <1>11,
     <1>12, <1>13, <1>14, <1>15, <1>16, <1>17, <1>18, <1>19, <1>20, <1>21,
     <1>22, <1>23, <1>24, <1>25, <1>26, <1>27, <1>28, <1>29, <1>30, <1>31,
     <1>32, <1>33, <1>34, <1>35, <1>36, <1>37
  DEF Next, InitInstance, Release, Call, Control, Data, Rest

\* An object is live as long as somebody holds it.
LEMMA AliveStep == LifeInv /\ [Next]_vars => Alive'
<1> SUFFICES ASSUME LifeInv, [Next]_vars, NEW k \in Clid
             PROVE  AlivePart(k)'
  BY DEF Alive
<1> USE DEF Goto, objects, transport, control, threads
<1>a. AlivePart(k) /\ UnusedPart(k)
  BY DEF LifeInv, Alive, Unused
<1>0. /\ obj \in [Clid -> {"unused", "live", "freed"}]
      /\ ref_count \in [Clid -> Nat]
      /\ AlivePart(k) /\ UnusedPart(k) /\ next_clid \in Nat
      /\ tbl \subseteq Clid
  BY <1>a DEF LifeInv, TypeOK, ObjectType
<1>1. ASSUME NEW t \in Thread, CountServers(t) PROVE AlivePart(k)'
  BY <1>0, <1>1
  DEF AlivePart, UnusedPart, CountServers, Miss
<1>2. ASSUME NEW t \in Thread, LookForInstance(t) PROVE AlivePart(k)'
  BY <1>0, <1>2
  DEF AlivePart, UnusedPart, LookForInstance, Miss
<1>3. ASSUME NEW t \in Thread, InitClient(t) PROVE AlivePart(k)'
  BY <1>0, <1>3
  DEF AlivePart, UnusedPart, InitClient, Alloc
<1>4. ASSUME NEW t \in Thread, OpenClient(t) PROVE AlivePart(k)'
  <2>0. me[t] \in Clid /\ ref_count[me[t]] >= 2 /\ ref_count[me[t]] \in Nat
    BY <1>0, <1>4, Has, Held DEF OpenClient, MePc, InitHolds
  <2> QED BY <1>0, <1>4, <2>0 DEF AlivePart, OpenClient, PutRefs
<1>5. ASSUME NEW t \in Thread, ListClient(t) PROVE AlivePart(k)'
  <2>0. me[t] \in Clid
    BY <1>5, Has DEF ListClient, MePc, InitHolds, OwnPc
  <2> QED BY <1>0, <1>5, <2>0
      DEF AlivePart, UnusedPart, ListClient
<1>6. ASSUME NEW t \in Thread, LinkClient(t) PROVE AlivePart(k)'
  <2>0. me[t] \in Clid
    BY <1>6, Has DEF LinkClient, MePc, InitHolds, OwnPc
  <2> QED BY <1>0, <1>6, <2>0
      DEF AlivePart, UnusedPart, LinkClient
<1>7. ASSUME NEW t \in Thread, Relookup(t) PROVE AlivePart(k)'
  <2>0. me[t] \in Clid
    BY <1>7, Has DEF Relookup, MePc, InitHolds, OwnPc
  <2> QED BY <1>0, <1>7, <2>0
      DEF AlivePart, UnusedPart, Relookup, CloseAgain
<1>8. ASSUME NEW t \in Thread, NoMemory(t) PROVE AlivePart(k)'
  <2>0. me[t] \in Clid
    BY <1>8, Has DEF NoMemory, MePc, InitHolds, OwnPc
  <2> QED BY <1>0, <1>8, <2>0
      DEF AlivePart, UnusedPart, NoMemory, CloseAgain
<1>9. ASSUME NEW t \in Thread, InitDone(t) PROVE AlivePart(k)'
  <2>0. me[t] \in Clid /\ ref_count[me[t]] >= 1 /\ ref_count[me[t]] \in Nat
    BY <1>0, <1>9, Has, Held DEF InitDone, MePc, InitHolds, ReleaseHolds, OwnPc
  <2> QED BY <1>0, <1>9, <2>0 DEF AlivePart, InitDone, PutRef, PutRefs
<1>10. ASSUME NEW t \in Thread, InitNotifier(t) PROVE AlivePart(k)'
  BY <1>0, <1>10
  DEF AlivePart, UnusedPart, InitNotifier, Alloc
<1>11. ASSUME NEW t \in Thread, ListNotifier(t) PROVE AlivePart(k)'
  <2>0. note[t] \in Clid
    BY <1>11, Has DEF ListNotifier, NotePc
  <2> QED BY <1>0, <1>11, <2>0
      DEF AlivePart, UnusedPart, ListNotifier
<1>12. ASSUME NEW t \in Thread, LookupNotifier(t) PROVE AlivePart(k)'
  <2>0. /\ note[t] \in Clid /\ ref_count[note[t]] >= 2
        /\ ref_count[note[t]] \in Nat
    BY <1>0, <1>12, Has, Held DEF LookupNotifier, NotePc
  <2> QED BY <1>0, <1>12, <2>0 DEF AlivePart, LookupNotifier
<1>13. ASSUME NEW t \in Thread, ClearSignal(t) PROVE AlivePart(k)'
  BY <1>0, <1>13
  DEF AlivePart, UnusedPart, ClearSignal
<1>14. ASSUME NEW t \in Thread, Wait(t) PROVE AlivePart(k)'
  BY <1>0, <1>14
  DEF AlivePart, UnusedPart, Wait
<1>15. ASSUME NEW t \in Thread, ReleaseNotifier(t) PROVE AlivePart(k)'
  <2>0. note[t] \in Clid
    BY <1>15, Has DEF ReleaseNotifier, NotePc
  <2> QED BY <1>0, <1>15, <2>0
      DEF AlivePart, UnusedPart, ReleaseNotifier, GetRef
<1>16. ASSUME NEW t \in Thread, CloseNotifier(t) PROVE AlivePart(k)'
  <2>0. note[t] \in Clid /\ ref_count[note[t]] >= 1 /\ ref_count[note[t]] \in Nat
    BY <1>0, <1>16, Has, Held DEF CloseNotifier, NotePc
  <2> QED BY <1>0, <1>16, <2>0 DEF AlivePart, CloseNotifier, PutRef, PutRefs
<1>17. ASSUME NEW t \in Thread, NotifierGone(t) PROVE AlivePart(k)'
  <2>0. note[t] \in Clid /\ ref_count[note[t]] >= 1 /\ ref_count[note[t]] \in Nat
    BY <1>0, <1>17, Has, Held DEF NotifierGone, NotePc
  <2> QED BY <1>0, <1>17, <2>0 DEF AlivePart, NotifierGone, PutRef, PutRefs
<1>18. ASSUME NEW t \in Thread, Timeout(t) PROVE AlivePart(k)'
  BY <1>0, <1>18
  DEF AlivePart, UnusedPart, Timeout
<1>19. ASSUME NEW t \in Thread, ReleaseClient(t) PROVE AlivePart(k)'
  <2>0. me[t] \in Clid
    BY <1>19, Has DEF ReleaseClient, MePc, InitHolds, OwnPc
  <2> QED BY <1>0, <1>19, <2>0
      DEF AlivePart, UnusedPart, ReleaseClient, GetRef
<1>20. ASSUME NEW t \in Thread, StopSending(t) PROVE AlivePart(k)'
  <2>0. me[t] \in Clid
    BY <1>20, Has DEF StopSending, MePc, InitHolds, OwnPc
  <2> QED BY <1>0, <1>20, <2>0
      DEF AlivePart, UnusedPart, StopSending
<1>21. ASSUME NEW t \in Thread, CloseClient(t) PROVE AlivePart(k)'
  <2>0. me[t] \in Clid
    BY <1>21, Has DEF CloseClient, MePc, InitHolds, OwnPc
  <2> QED BY <1>0, <1>21, <2>0
      DEF AlivePart, UnusedPart, CloseClient
<1>22. ASSUME NEW t \in Thread, PutReleased(t) PROVE AlivePart(k)'
  <2>0. me[t] \in Clid /\ ref_count[me[t]] >= 1 /\ ref_count[me[t]] \in Nat
    BY <1>0, <1>22, Has, Held DEF PutReleased, MePc, InitHolds, ReleaseHolds, OwnPc
  <2> QED BY <1>0, <1>22, <2>0 DEF AlivePart, PutReleased, PutRef, PutRefs
<1>23. ASSUME NEW t \in Thread, Released(t) PROVE AlivePart(k)'
  <2>0. me[t] \in Clid
    BY <1>23, Has DEF Released, MePc, InitHolds, OwnPc
  <2> QED BY <1>0, <1>23, <2>0
      DEF AlivePart, UnusedPart, Released
<1>24. ASSUME NEW t \in Thread, EnterCall(t) PROVE AlivePart(k)'
  <2>0. me[t] \in Clid
    BY <1>24, Has DEF EnterCall, MePc, InitHolds, OwnPc
  <2> QED BY <1>0, <1>24, <2>0
      DEF AlivePart, UnusedPart, EnterCall, GetRef
<1>25. ASSUME NEW c \in Clid, StartSend(c) PROVE AlivePart(k)'
  BY <1>0, <1>25
  DEF AlivePart, UnusedPart, StartSend
<1>26. ASSUME NEW c \in Clid, EndSend(c) PROVE AlivePart(k)'
  BY <1>0, <1>26
  DEF AlivePart, UnusedPart, EndSend
<1>27. ASSUME NEW c \in Clid, LeaveCall(c) PROVE AlivePart(k)'
  <2>0. c \in Clid /\ ref_count[c] >= 1 /\ ref_count[c] \in Nat
    BY <1>0, <1>27, Held DEF LeaveCall
  <2> QED BY <1>0, <1>27, <2>0 DEF AlivePart, LeaveCall, PutRef, PutRefs
<1>28. ASSUME NEW c \in Clid, DataReset(c) PROVE AlivePart(k)'
  BY <1>0, <1>28
  DEF AlivePart, UnusedPart, DataReset
<1>29. ASSUME NEW c \in Clid, DataClose(c) PROVE AlivePart(k)'
  BY <1>0, <1>29
  DEF AlivePart, UnusedPart, DataClose
<1>30. ASSUME NEW c \in Clid, DataRelease(c) PROVE AlivePart(k)'
  <2>0. c \in Clid /\ ref_count[c] >= 1 /\ ref_count[c] \in Nat
    BY <1>0, <1>30, Held DEF DataRelease
  <2> QED BY <1>0, <1>30, <2>0 DEF AlivePart, DataRelease, PutRef, PutRefs
<1>31. ASSUME CtlRead PROVE AlivePart(k)'
  BY <1>0, <1>31
  DEF AlivePart, UnusedPart, CtlRead
<1>32. ASSUME CtlDone PROVE AlivePart(k)'
  BY <1>0, <1>32
  DEF AlivePart, UnusedPart, CtlDone
<1>33. ASSUME NEW c \in Clid, CtlNotify(c) PROVE AlivePart(k)'
  BY <1>0, <1>33
  DEF AlivePart, UnusedPart, CtlNotify
<1>34. ASSUME NEW c \in Clid, CtlReset(c) PROVE AlivePart(k)'
  BY <1>0, <1>34
  DEF AlivePart, UnusedPart, CtlReset
<1>35. ASSUME NEW s \in Server, ServerUp(s) PROVE AlivePart(k)'
  BY <1>0, <1>35
  DEF AlivePart, UnusedPart, ServerUp
<1>36. ASSUME NEW s \in Server, ServerDown(s) PROVE AlivePart(k)'
  BY <1>0, <1>36
  DEF AlivePart, UnusedPart, ServerDown
<1>37. CASE UNCHANGED vars
  BY <1>0, <1>37 DEF AlivePart, vars
<1> QED
  BY <1>1, <1>2, <1>3, <1>4, <1>5, <1>6, <1>7, <1>8, <1>9, <1>10, <1>11,
     <1>12, <1>13, <1>14, <1>15, <1>16, <1>17, <1>18, <1>19, <1>20, <1>21,
     <1>22, <1>23, <1>24, <1>25, <1>26, <1>27, <1>28, <1>29, <1>30, <1>31,
     <1>32, <1>33, <1>34, <1>35, <1>36, <1>37
  DEF Next, InitInstance, Release, Call, Control, Data, Rest

\* A call is made on a client that a user has, and sends only before the
\* release has stopped it.
LEMMA CallStep == LifeInv /\ [Next]_vars => Calls'
<1> SUFFICES ASSUME LifeInv, [Next]_vars, NEW k \in Clid
             PROVE  CallPart(k)'
  BY DEF Calls
<1> USE DEF Goto, objects, transport, control, threads
<1>a. /\ pc \in [Thread -> Pc] /\ me \in [Thread -> Clid \cup {NoClid}]
      /\ call \in [Clid -> {"none", "in", "send", "sent"}]
  BY DEF LifeInv, TypeOK, ThreadType, WorldType
<1>0. /\ pc \in [Thread -> Pc] /\ me \in [Thread -> Clid \cup {NoClid}]
      /\ call \in [Clid -> {"none", "in", "send", "sent"}]
      /\ next_clid \in Nat \ {0} /\ NoClid \notin Clid /\ NoClid = 0
      /\ Clid \subseteq Nat
      /\ CallPart(k) /\ UnusedPart(k)
  BY <1>a, Kinds
<1>1. ASSUME NEW t \in Thread, CountServers(t) PROVE CallPart(k)'
  <2>1. /\ UNCHANGED <<accepting, call>>
        /\ \A u \in Thread : me[u] = k /\ pc[u] \in OwnPc
                             => me'[u] = k /\ pc'[u] \in OwnPc
    BY <1>0, <1>1 DEF CountServers, Miss, OwnPc
  <2> QED BY <1>0, <2>1 DEF CallPart
<1>2. ASSUME NEW t \in Thread, LookForInstance(t) PROVE CallPart(k)'
  <2>1. /\ UNCHANGED <<accepting, call>>
        /\ \A u \in Thread : me[u] = k /\ pc[u] \in OwnPc
                             => me'[u] = k /\ pc'[u] \in OwnPc
    BY <1>0, <1>2 DEF LookForInstance, Miss, OwnPc
  <2> QED BY <1>0, <2>1 DEF CallPart
<1>3. ASSUME NEW t \in Thread, InitClient(t) PROVE CallPart(k)'
  <2>1. /\ accepting \subseteq accepting' /\ UNCHANGED call
        /\ \A u \in Thread : me[u] = k /\ pc[u] \in OwnPc
                             => me'[u] = k /\ pc'[u] \in OwnPc
    BY <1>0, <1>3 DEF InitClient, Alloc, OwnPc
  <2> QED BY <1>0, <2>1 DEF CallPart
<1>4. ASSUME NEW t \in Thread, OpenClient(t) PROVE CallPart(k)'
  <2>1. /\ UNCHANGED <<accepting, call>>
        /\ \A u \in Thread : me[u] = k /\ pc[u] \in OwnPc
                             => me'[u] = k /\ pc'[u] \in OwnPc
    BY <1>0, <1>4 DEF OpenClient, Failed, OwnPc
  <2> QED BY <1>0, <2>1 DEF CallPart
<1>5. ASSUME NEW t \in Thread, ListClient(t) PROVE CallPart(k)'
  <2>1. /\ UNCHANGED <<accepting, call>>
        /\ \A u \in Thread : me[u] = k /\ pc[u] \in OwnPc
                             => me'[u] = k /\ pc'[u] \in OwnPc
    BY <1>0, <1>5 DEF ListClient, OwnPc
  <2> QED BY <1>0, <2>1 DEF CallPart
<1>6. ASSUME NEW t \in Thread, LinkClient(t) PROVE CallPart(k)'
  <2>1. /\ UNCHANGED <<accepting, call>>
        /\ \A u \in Thread : me[u] = k /\ pc[u] \in OwnPc
                             => me'[u] = k /\ pc'[u] \in OwnPc
    BY <1>0, <1>6 DEF LinkClient, OwnPc
  <2> QED BY <1>0, <2>1 DEF CallPart
<1>7. ASSUME NEW t \in Thread, Relookup(t) PROVE CallPart(k)'
  <2>1. /\ UNCHANGED <<accepting, call>>
        /\ \A u \in Thread : me[u] = k /\ pc[u] \in OwnPc
                             => me'[u] = k /\ pc'[u] \in OwnPc
    BY <1>0, <1>7 DEF Relookup, CloseAgain, OwnPc
  <2> QED BY <1>0, <2>1 DEF CallPart
<1>8. ASSUME NEW t \in Thread, NoMemory(t) PROVE CallPart(k)'
  <2>1. /\ UNCHANGED <<accepting, call>>
        /\ \A u \in Thread : me[u] = k /\ pc[u] \in OwnPc
                             => me'[u] = k /\ pc'[u] \in OwnPc
    BY <1>0, <1>8 DEF NoMemory, CloseAgain, OwnPc
  <2> QED BY <1>0, <2>1 DEF CallPart
<1>9. ASSUME NEW t \in Thread, InitDone(t) PROVE CallPart(k)'
  <2>1. /\ UNCHANGED <<accepting, call>>
        /\ \A u \in Thread : me[u] = k /\ pc[u] \in OwnPc
                             => me'[u] = k /\ pc'[u] \in OwnPc
    BY <1>0, <1>9 DEF InitDone, Miss, Failed, OwnPc
  <2> QED BY <1>0, <2>1 DEF CallPart
<1>10. ASSUME NEW t \in Thread, InitNotifier(t) PROVE CallPart(k)'
  <2>1. /\ UNCHANGED <<accepting, call>>
        /\ \A u \in Thread : me[u] = k /\ pc[u] \in OwnPc
                             => me'[u] = k /\ pc'[u] \in OwnPc
    BY <1>0, <1>10 DEF Alloc, InitNotifier, OwnPc
  <2> QED BY <1>0, <2>1 DEF Alloc, CallPart
<1>11. ASSUME NEW t \in Thread, ListNotifier(t) PROVE CallPart(k)'
  <2>1. /\ UNCHANGED <<accepting, call>>
        /\ \A u \in Thread : me[u] = k /\ pc[u] \in OwnPc
                             => me'[u] = k /\ pc'[u] \in OwnPc
    BY <1>0, <1>11 DEF ListNotifier, OwnPc
  <2> QED BY <1>0, <2>1 DEF CallPart
<1>12. ASSUME NEW t \in Thread, LookupNotifier(t) PROVE CallPart(k)'
  <2>1. /\ UNCHANGED <<accepting, call>>
        /\ \A u \in Thread : me[u] = k /\ pc[u] \in OwnPc
                             => me'[u] = k /\ pc'[u] \in OwnPc
    BY <1>0, <1>12 DEF LookupNotifier, OwnPc
  <2> QED BY <1>0, <2>1 DEF CallPart
<1>13. ASSUME NEW t \in Thread, ClearSignal(t) PROVE CallPart(k)'
  <2>1. /\ UNCHANGED <<accepting, call>>
        /\ \A u \in Thread : me[u] = k /\ pc[u] \in OwnPc
                             => me'[u] = k /\ pc'[u] \in OwnPc
    BY <1>0, <1>13 DEF ClearSignal, OwnPc
  <2> QED BY <1>0, <2>1 DEF CallPart
<1>14. ASSUME NEW t \in Thread, Wait(t) PROVE CallPart(k)'
  <2>1. /\ UNCHANGED <<accepting, call>>
        /\ \A u \in Thread : me[u] = k /\ pc[u] \in OwnPc
                             => me'[u] = k /\ pc'[u] \in OwnPc
    BY <1>0, <1>14 DEF Wait, OwnPc
  <2> QED BY <1>0, <2>1 DEF CallPart
<1>15. ASSUME NEW t \in Thread, ReleaseNotifier(t) PROVE CallPart(k)'
  <2>1. /\ UNCHANGED <<accepting, call>>
        /\ \A u \in Thread : me[u] = k /\ pc[u] \in OwnPc
                             => me'[u] = k /\ pc'[u] \in OwnPc
    BY <1>0, <1>15 DEF ReleaseNotifier, OwnPc
  <2> QED BY <1>0, <2>1 DEF CallPart
<1>16. ASSUME NEW t \in Thread, CloseNotifier(t) PROVE CallPart(k)'
  <2>1. /\ UNCHANGED <<accepting, call>>
        /\ \A u \in Thread : me[u] = k /\ pc[u] \in OwnPc
                             => me'[u] = k /\ pc'[u] \in OwnPc
    BY <1>0, <1>16 DEF CloseNotifier, OwnPc
  <2> QED BY <1>0, <2>1 DEF CallPart
<1>17. ASSUME NEW t \in Thread, NotifierGone(t) PROVE CallPart(k)'
  <2>1. /\ UNCHANGED <<accepting, call>>
        /\ \A u \in Thread : me[u] = k /\ pc[u] \in OwnPc
                             => me'[u] = k /\ pc'[u] \in OwnPc
    BY <1>0, <1>17 DEF NotifierGone, OwnPc
  <2> QED BY <1>0, <2>1 DEF CallPart
<1>18. ASSUME NEW t \in Thread, Timeout(t) PROVE CallPart(k)'
  <2>1. /\ UNCHANGED <<accepting, call>>
        /\ \A u \in Thread : me[u] = k /\ pc[u] \in OwnPc
                             => me'[u] = k /\ pc'[u] \in OwnPc
    BY <1>0, <1>18 DEF Timeout, OwnPc
  <2> QED BY <1>0, <2>1 DEF CallPart
<1>19. ASSUME NEW t \in Thread, ReleaseClient(t) PROVE CallPart(k)'
  <2>1. /\ UNCHANGED <<accepting, call>>
        /\ \A u \in Thread : me[u] = k /\ pc[u] \in OwnPc
                             => me'[u] = k /\ pc'[u] \in OwnPc
    BY <1>0, <1>19 DEF ReleaseClient, OwnPc
  <2> QED BY <1>0, <2>1 DEF CallPart
<1>20. ASSUME NEW t \in Thread, StopSending(t) PROVE CallPart(k)'
  <2>1. /\ accepting' = accepting \ {me[t]} /\ UNCHANGED call
        /\ call[me[t]] # "send"
        /\ \A u \in Thread : me[u] = k /\ pc[u] \in OwnPc
                             => me'[u] = k /\ pc'[u] \in OwnPc
    BY <1>0, <1>20 DEF StopSending, OwnPc
  <2> QED BY <1>0, <2>1 DEF CallPart
<1>21. ASSUME NEW t \in Thread, CloseClient(t) PROVE CallPart(k)'
  <2>1. /\ UNCHANGED <<accepting, call>>
        /\ \A u \in Thread : me[u] = k /\ pc[u] \in OwnPc
                             => me'[u] = k /\ pc'[u] \in OwnPc
    BY <1>0, <1>21 DEF CloseClient, OwnPc
  <2> QED BY <1>0, <2>1 DEF CallPart
<1>22. ASSUME NEW t \in Thread, PutReleased(t) PROVE CallPart(k)'
  <2>1. /\ UNCHANGED <<accepting, call>>
        /\ \A u \in Thread : me[u] = k /\ pc[u] \in OwnPc
                             => me'[u] = k /\ pc'[u] \in OwnPc
    BY <1>0, <1>22 DEF PutReleased, OwnPc
  <2> QED BY <1>0, <2>1 DEF CallPart
<1>23. ASSUME NEW t \in Thread, Released(t) PROVE CallPart(k)'
  <2>1. /\ UNCHANGED <<accepting, call>>
        /\ \A u \in Thread : me[u] = k /\ pc[u] \in OwnPc
                             => me'[u] = k /\ pc'[u] \in OwnPc
    BY <1>0, <1>23 DEF Released, OwnPc
  <2> QED BY <1>0, <2>1 DEF CallPart
<1>24. ASSUME NEW t \in Thread, EnterCall(t) PROVE CallPart(k)'
  <2>0. me[t] \in Clid
    BY <1>24, Has DEF EnterCall, MePc, InitHolds, OwnPc
  <2> QED BY <1>0, <1>24, <2>0
      DEF CallPart, OwnPc, EnterCall, GetRef
<1>25. ASSUME NEW c \in Clid, StartSend(c) PROVE CallPart(k)'
  BY <1>0, <1>25
  DEF CallPart, OwnPc, StartSend
<1>26. ASSUME NEW c \in Clid, EndSend(c) PROVE CallPart(k)'
  BY <1>0, <1>26
  DEF CallPart, OwnPc, EndSend
<1>27. ASSUME NEW c \in Clid, LeaveCall(c) PROVE CallPart(k)'
  BY <1>0, <1>27
  DEF CallPart, OwnPc, LeaveCall, PutRef, PutRefs
<1>28. ASSUME NEW c \in Clid, DataReset(c) PROVE CallPart(k)'
  BY <1>0, <1>28
  DEF CallPart, OwnPc, DataReset
<1>29. ASSUME NEW c \in Clid, DataClose(c) PROVE CallPart(k)'
  BY <1>0, <1>29
  DEF CallPart, OwnPc, DataClose
<1>30. ASSUME NEW c \in Clid, DataRelease(c) PROVE CallPart(k)'
  BY <1>0, <1>30
  DEF CallPart, OwnPc, DataRelease, PutRef, PutRefs
<1>31. ASSUME CtlRead PROVE CallPart(k)'
  BY <1>0, <1>31
  DEF CallPart, OwnPc, CtlRead
<1>32. ASSUME CtlDone PROVE CallPart(k)'
  BY <1>0, <1>32
  DEF CallPart, OwnPc, CtlDone
<1>33. ASSUME NEW c \in Clid, CtlNotify(c) PROVE CallPart(k)'
  BY <1>0, <1>33
  DEF CallPart, OwnPc, CtlNotify
<1>34. ASSUME NEW c \in Clid, CtlReset(c) PROVE CallPart(k)'
  BY <1>0, <1>34
  DEF CallPart, OwnPc, CtlReset
<1>35. ASSUME NEW s \in Server, ServerUp(s) PROVE CallPart(k)'
  BY <1>0, <1>35
  DEF CallPart, OwnPc, ServerUp
<1>36. ASSUME NEW s \in Server, ServerDown(s) PROVE CallPart(k)'
  BY <1>0, <1>36
  DEF CallPart, OwnPc, ServerDown
<1>37. CASE UNCHANGED vars
  BY <1>0, <1>37 DEF CallPart, vars
<1> QED
  BY <1>1, <1>2, <1>3, <1>4, <1>5, <1>6, <1>7, <1>8, <1>9, <1>10, <1>11,
     <1>12, <1>13, <1>14, <1>15, <1>16, <1>17, <1>18, <1>19, <1>20, <1>21,
     <1>22, <1>23, <1>24, <1>25, <1>26, <1>27, <1>28, <1>29, <1>30, <1>31,
     <1>32, <1>33, <1>34, <1>35, <1>36, <1>37
  DEF Next, InitInstance, Release, Call, Control, Data, Rest

\* The control thread walks transports that are in the list, which nobody
\* shortens meanwhile.
LEMMA WalkStep == LifeInv /\ [Next]_vars => Walk'
<1> SUFFICES ASSUME LifeInv, [Next]_vars, NEW k \in Clid
             PROVE  WalkPart(k)'
  BY DEF Walk
<1> USE DEF Goto, objects, transport, control, threads
<1>a. /\ category \in [Clid -> {"none", "connected", "dormant", "notifier"}]
      /\ data \in [Clid -> {"none", "poll", "closing", "gone"}]
      /\ me \in [Thread -> Clid \cup {NoClid}]
      /\ ListFree => todo = {}
  BY DEF LifeInv, TypeOK, ObjectType, TransportType, ThreadType, Idle, ListFree
<1>0. /\ category \in [Clid -> {"none", "connected", "dormant", "notifier"}]
      /\ data \in [Clid -> {"none", "poll", "closing", "gone"}]
      /\ me \in [Thread -> Clid \cup {NoClid}]
      /\ ListFree => todo = {}
      /\ next_clid \in Nat \ {0} /\ NoClid \notin Clid /\ NoClid = 0
      /\ Clid \subseteq Nat
      /\ \A t \in Thread : me[t] # NoClid => category[me[t]] # "notifier"
      /\ WalkPart(k) /\ UnusedPart(k)
  BY <1>a, Kinds
<1>1. ASSUME NEW t \in Thread, CountServers(t) PROVE WalkPart(k)'
  BY <1>0, <1>1
  DEF WalkPart, CountServers, Miss
<1>2. ASSUME NEW t \in Thread, LookForInstance(t) PROVE WalkPart(k)'
  BY <1>0, <1>2
  DEF WalkPart, LookForInstance, Miss
<1>3. ASSUME NEW t \in Thread, InitClient(t) PROVE WalkPart(k)'
  BY <1>0, <1>3
  DEF WalkPart, InitClient, Alloc
<1>4. ASSUME NEW t \in Thread, OpenClient(t) PROVE WalkPart(k)'
  <2>0. me[t] \in Clid
    BY <1>4, Has DEF OpenClient, MePc, InitHolds, OwnPc
  <2> QED BY <1>0, <1>4, <2>0
      DEF WalkPart, OpenClient, PutRefs, Failed
<1>5. ASSUME NEW t \in Thread, ListClient(t) PROVE WalkPart(k)'
  <2>0. me[t] \in Clid
    BY <1>5, Has DEF ListClient, MePc, InitHolds, OwnPc
  <2> QED BY <1>0, <1>5, <2>0
      DEF WalkPart, ListClient
<1>6. ASSUME NEW t \in Thread, LinkClient(t) PROVE WalkPart(k)'
  <2>0. me[t] \in Clid
    BY <1>6, Has DEF LinkClient, MePc, InitHolds, OwnPc
  <2> QED BY <1>0, <1>6, <2>0
      DEF WalkPart, LinkClient
<1>7. ASSUME NEW t \in Thread, Relookup(t) PROVE WalkPart(k)'
  <2>0. me[t] \in Clid
    BY <1>7, Has DEF Relookup, MePc, InitHolds, OwnPc
  <2> QED BY <1>0, <1>7, <2>0
      DEF WalkPart, Relookup, CloseAgain
<1>8. ASSUME NEW t \in Thread, NoMemory(t) PROVE WalkPart(k)'
  <2>0. me[t] \in Clid
    BY <1>8, Has DEF NoMemory, MePc, InitHolds, OwnPc
  <2> QED BY <1>0, <1>8, <2>0
      DEF WalkPart, NoMemory, CloseAgain
<1>9. ASSUME NEW t \in Thread, InitDone(t) PROVE WalkPart(k)'
  <2>0. me[t] \in Clid
    BY <1>9, Has DEF InitDone, MePc, InitHolds, OwnPc
  <2> QED BY <1>0, <1>9, <2>0
      DEF WalkPart, InitDone, PutRef, PutRefs, Miss, Failed
<1>10. ASSUME NEW t \in Thread, InitNotifier(t) PROVE WalkPart(k)'
  <2>1. /\ UNCHANGED <<list, data, todo>>
        /\ category' = category
             \/ category' = [category EXCEPT ![next_clid] = "notifier"]
    BY <1>10 DEF InitNotifier, Alloc
  <2>2. k = next_clid => data[k] = "none"
    BY <1>0 DEF UnusedPart
  <2>3. category'[k] = category[k] \/ k = next_clid
    BY <1>0, <2>1
  <2> QED BY <1>0, <2>1, <2>2, <2>3 DEF WalkPart
<1>11. ASSUME NEW t \in Thread, ListNotifier(t) PROVE WalkPart(k)'
  <2>0. note[t] \in Clid
    BY <1>11, Has DEF ListNotifier, NotePc
  <2> QED BY <1>0, <1>11, <2>0
      DEF WalkPart, ListNotifier
<1>12. ASSUME NEW t \in Thread, LookupNotifier(t) PROVE WalkPart(k)'
  <2>0. note[t] \in Clid
    BY <1>12, Has DEF LookupNotifier, NotePc
  <2> QED BY <1>0, <1>12, <2>0
      DEF WalkPart, LookupNotifier
<1>13. ASSUME NEW t \in Thread, ClearSignal(t) PROVE WalkPart(k)'
  BY <1>0, <1>13
  DEF WalkPart, ClearSignal
<1>14. ASSUME NEW t \in Thread, Wait(t) PROVE WalkPart(k)'
  BY <1>0, <1>14
  DEF WalkPart, Wait
<1>15. ASSUME NEW t \in Thread, ReleaseNotifier(t) PROVE WalkPart(k)'
  <2>0. note[t] \in Clid
    BY <1>15, Has DEF ReleaseNotifier, NotePc
  <2> QED BY <1>0, <1>15, <2>0
      DEF WalkPart, ReleaseNotifier, GetRef
<1>16. ASSUME NEW t \in Thread, CloseNotifier(t) PROVE WalkPart(k)'
  <2>0. note[t] \in Clid
    BY <1>16, Has DEF CloseNotifier, NotePc
  <2> QED BY <1>0, <1>16, <2>0
      DEF WalkPart, CloseNotifier, PutRef, PutRefs
<1>17. ASSUME NEW t \in Thread, NotifierGone(t) PROVE WalkPart(k)'
  <2>0. note[t] \in Clid
    BY <1>17, Has DEF NotifierGone, NotePc
  <2> QED BY <1>0, <1>17, <2>0
      DEF WalkPart, NotifierGone, PutRef, PutRefs
<1>18. ASSUME NEW t \in Thread, Timeout(t) PROVE WalkPart(k)'
  BY <1>0, <1>18
  DEF WalkPart, Timeout
<1>19. ASSUME NEW t \in Thread, ReleaseClient(t) PROVE WalkPart(k)'
  <2>0. me[t] \in Clid
    BY <1>19, Has DEF ReleaseClient, MePc, InitHolds, OwnPc
  <2> QED BY <1>0, <1>19, <2>0
      DEF WalkPart, ReleaseClient, GetRef
<1>20. ASSUME NEW t \in Thread, StopSending(t) PROVE WalkPart(k)'
  <2>0. me[t] \in Clid
    BY <1>20, Has DEF StopSending, MePc, InitHolds, OwnPc
  <2> QED BY <1>0, <1>20, <2>0
      DEF WalkPart, StopSending
<1>21. ASSUME NEW t \in Thread, CloseClient(t) PROVE WalkPart(k)'
  <2>0. me[t] \in Clid
    BY <1>21, Has DEF CloseClient, MePc, InitHolds, OwnPc
  <2> QED BY <1>0, <1>21, <2>0
      DEF WalkPart, CloseClient
<1>22. ASSUME NEW t \in Thread, PutReleased(t) PROVE WalkPart(k)'
  <2>0. me[t] \in Clid
    BY <1>22, Has DEF PutReleased, MePc, InitHolds, OwnPc
  <2> QED BY <1>0, <1>22, <2>0
      DEF WalkPart, PutReleased, PutRef, PutRefs
<1>23. ASSUME NEW t \in Thread, Released(t) PROVE WalkPart(k)'
  <2>0. me[t] \in Clid
    BY <1>23, Has DEF Released, MePc, InitHolds, OwnPc
  <2> QED BY <1>0, <1>23, <2>0
      DEF WalkPart, Released
<1>24. ASSUME NEW t \in Thread, EnterCall(t) PROVE WalkPart(k)'
  <2>0. me[t] \in Clid
    BY <1>24, Has DEF EnterCall, MePc, InitHolds, OwnPc
  <2> QED BY <1>0, <1>24, <2>0
      DEF WalkPart, EnterCall, GetRef
<1>25. ASSUME NEW c \in Clid, StartSend(c) PROVE WalkPart(k)'
  BY <1>0, <1>25
  DEF WalkPart, StartSend
<1>26. ASSUME NEW c \in Clid, EndSend(c) PROVE WalkPart(k)'
  <2>1. category[k] # "notifier" => category'[k] # "notifier"
    BY <1>0, <1>26 DEF EndSend
  <2> QED BY <1>0, <1>26, <2>1 DEF WalkPart, EndSend
<1>27. ASSUME NEW c \in Clid, LeaveCall(c) PROVE WalkPart(k)'
  BY <1>0, <1>27
  DEF WalkPart, LeaveCall, PutRef, PutRefs
<1>28. ASSUME NEW c \in Clid, DataReset(c) PROVE WalkPart(k)'
  BY <1>0, <1>28
  DEF WalkPart, DataReset
<1>29. ASSUME NEW c \in Clid, DataClose(c) PROVE WalkPart(k)'
  BY <1>0, <1>29
  DEF WalkPart, DataClose
<1>30. ASSUME NEW c \in Clid, DataRelease(c) PROVE WalkPart(k)'
  BY <1>0, <1>30
  DEF WalkPart, DataRelease, PutRef, PutRefs
<1>31. ASSUME CtlRead PROVE WalkPart(k)'
  BY <1>0, <1>31 DEF WalkPart, CtlRead, Concerned
<1>32. ASSUME CtlDone PROVE WalkPart(k)'
  BY <1>0, <1>32
  DEF WalkPart, CtlDone
<1>33. ASSUME NEW c \in Clid, CtlNotify(c) PROVE WalkPart(k)'
  BY <1>0, <1>33
  DEF WalkPart, CtlNotify
<1>34. ASSUME NEW c \in Clid, CtlReset(c) PROVE WalkPart(k)'
  BY <1>0, <1>34
  DEF WalkPart, CtlReset
<1>35. ASSUME NEW s \in Server, ServerUp(s) PROVE WalkPart(k)'
  BY <1>0, <1>35
  DEF WalkPart, ServerUp
<1>36. ASSUME NEW s \in Server, ServerDown(s) PROVE WalkPart(k)'
  BY <1>0, <1>36
  DEF WalkPart, ServerDown
<1>37. CASE UNCHANGED vars
  BY <1>0, <1>37 DEF WalkPart, vars
<1> QED
  BY <1>1, <1>2, <1>3, <1>4, <1>5, <1>6, <1>7, <1>8, <1>9, <1>10, <1>11,
     <1>12, <1>13, <1>14, <1>15, <1>16, <1>17, <1>18, <1>19, <1>20, <1>21,
     <1>22, <1>23, <1>24, <1>25, <1>26, <1>27, <1>28, <1>29, <1>30, <1>31,
     <1>32, <1>33, <1>34, <1>35, <1>36, <1>37
  DEF Next, InitInstance, Release, Call, Control, Data, Rest

\* The control thread lets go of the list when it has visited them all.
LEMMA IdleStep == LifeInv /\ [Next]_vars => Idle'
<1> SUFFICES ASSUME LifeInv, [Next]_vars PROVE Idle'
  OBVIOUS
<1> USE DEF Goto, objects, transport, control, threads
<1>0. Idle /\ ctl_q \in Seq(Event)
  BY DEF LifeInv, TypeOK, ControlType
<1>1. ASSUME NEW t \in Thread, CountServers(t) PROVE Idle'
  BY <1>0, <1>1 DEF Idle, CountServers, Miss
<1>2. ASSUME NEW t \in Thread, LookForInstance(t) PROVE Idle'
  BY <1>0, <1>2 DEF Idle, LookForInstance, Miss
<1>3. ASSUME NEW t \in Thread, InitClient(t) PROVE Idle'
  BY <1>0, <1>3 DEF Idle, InitClient
<1>4. ASSUME NEW t \in Thread, OpenClient(t) PROVE Idle'
  BY <1>0, <1>4 DEF Idle, OpenClient, Failed
<1>5. ASSUME NEW t \in Thread, ListClient(t) PROVE Idle'
  BY <1>0, <1>5 DEF Idle, ListClient
<1>6. ASSUME NEW t \in Thread, LinkClient(t) PROVE Idle'
  BY <1>0, <1>6 DEF Idle, LinkClient
<1>7. ASSUME NEW t \in Thread, Relookup(t) PROVE Idle'
  BY <1>0, <1>7 DEF Idle, Relookup, CloseAgain
<1>8. ASSUME NEW t \in Thread, NoMemory(t) PROVE Idle'
  BY <1>0, <1>8 DEF Idle, NoMemory, CloseAgain
<1>9. ASSUME NEW t \in Thread, InitDone(t) PROVE Idle'
  BY <1>0, <1>9 DEF Idle, InitDone, Miss, Failed
<1>10. ASSUME NEW t \in Thread, InitNotifier(t) PROVE Idle'
  BY <1>0, <1>10 DEF Idle, InitNotifier
<1>11. ASSUME NEW t \in Thread, ListNotifier(t) PROVE Idle'
  BY <1>0, <1>11 DEF Idle, ListNotifier
<1>12. ASSUME NEW t \in Thread, LookupNotifier(t) PROVE Idle'
  BY <1>0, <1>12 DEF Idle, LookupNotifier
<1>13. ASSUME NEW t \in Thread, ClearSignal(t) PROVE Idle'
  BY <1>0, <1>13 DEF Idle, ClearSignal
<1>14. ASSUME NEW t \in Thread, Wait(t) PROVE Idle'
  BY <1>0, <1>14 DEF Idle, Wait
<1>15. ASSUME NEW t \in Thread, ReleaseNotifier(t) PROVE Idle'
  BY <1>0, <1>15 DEF Idle, ReleaseNotifier
<1>16. ASSUME NEW t \in Thread, CloseNotifier(t) PROVE Idle'
  BY <1>0, <1>16 DEF Idle, CloseNotifier
<1>17. ASSUME NEW t \in Thread, NotifierGone(t) PROVE Idle'
  BY <1>0, <1>17 DEF Idle, NotifierGone
<1>18. ASSUME NEW t \in Thread, Timeout(t) PROVE Idle'
  BY <1>0, <1>18 DEF Idle, Timeout
<1>19. ASSUME NEW t \in Thread, ReleaseClient(t) PROVE Idle'
  BY <1>0, <1>19 DEF Idle, ReleaseClient
<1>20. ASSUME NEW t \in Thread, StopSending(t) PROVE Idle'
  BY <1>0, <1>20 DEF Idle, StopSending
<1>21. ASSUME NEW t \in Thread, CloseClient(t) PROVE Idle'
  BY <1>0, <1>21 DEF Idle, CloseClient
<1>22. ASSUME NEW t \in Thread, PutReleased(t) PROVE Idle'
  BY <1>0, <1>22 DEF Idle, PutReleased
<1>23. ASSUME NEW t \in Thread, Released(t) PROVE Idle'
  BY <1>0, <1>23 DEF Idle, Released
<1>24. ASSUME NEW t \in Thread, EnterCall(t) PROVE Idle'
  BY <1>0, <1>24 DEF Idle, EnterCall
<1>25. ASSUME NEW c \in Clid, StartSend(c) PROVE Idle'
  BY <1>0, <1>25 DEF Idle, StartSend
<1>26. ASSUME NEW c \in Clid, EndSend(c) PROVE Idle'
  BY <1>0, <1>26 DEF Idle, EndSend
<1>27. ASSUME NEW c \in Clid, LeaveCall(c) PROVE Idle'
  BY <1>0, <1>27 DEF Idle, LeaveCall
<1>28. ASSUME NEW c \in Clid, DataReset(c) PROVE Idle'
  BY <1>0, <1>28 DEF Idle, DataReset
<1>29. ASSUME NEW c \in Clid, DataClose(c) PROVE Idle'
  BY <1>0, <1>29 DEF Idle, DataClose
<1>30. ASSUME NEW c \in Clid, DataRelease(c) PROVE Idle'
  BY <1>0, <1>30 DEF Idle, DataRelease
<1>31. ASSUME CtlRead PROVE Idle'
  <2>1. Head(ctl_q) \in Event
    BY <1>0, <1>31 DEF CtlRead
  <2>2. Head(ctl_q) # NoEvent
    <3>1. PICK n \in {"new", "del"}, s \in Server : Head(ctl_q) = <<n, s>>
      BY <2>1 DEF Event
    <3>2. Len(<<n, s>>) = 2 /\ Len(<<>>) = 0
      OBVIOUS
    <3> QED BY <3>1, <3>2 DEF NoEvent
  <2> QED BY <1>31, <2>2 DEF Idle, CtlRead
<1>32. ASSUME CtlDone PROVE Idle'
  BY <1>0, <1>32 DEF Idle, CtlDone
<1>33. ASSUME NEW c \in Clid, CtlNotify(c) PROVE Idle'
  BY <1>0, <1>33 DEF Idle, CtlNotify
<1>34. ASSUME NEW c \in Clid, CtlReset(c) PROVE Idle'
  BY <1>0, <1>34 DEF Idle, CtlReset
<1>35. ASSUME NEW s \in Server, ServerUp(s) PROVE Idle'
  BY <1>0, <1>35 DEF Idle, ServerUp
<1>36. ASSUME NEW s \in Server, ServerDown(s) PROVE Idle'
  BY <1>0, <1>36 DEF Idle, ServerDown
<1>37. CASE UNCHANGED vars
  BY <1>0, <1>37 DEF Idle, vars
<1> QED
  BY <1>1, <1>2, <1>3, <1>4, <1>5, <1>6, <1>7, <1>8, <1>9, <1>10, <1>11,
     <1>12, <1>13, <1>14, <1>15, <1>16, <1>17, <1>18, <1>19, <1>20, <1>21,
     <1>22, <1>23, <1>24, <1>25, <1>26, <1>27, <1>28, <1>29, <1>30, <1>31,
     <1>32, <1>33, <1>34, <1>35, <1>36, <1>37
  DEF Next, InitInstance, Release, Call, Control, Data, Rest

\* References are taken and given up by those who hold them.
LEMMA RefStep == LifeInv /\ [Next]_vars => References'
<1> SUFFICES ASSUME LifeInv, [Next]_vars, NEW k \in Clid
             PROVE  RefPart(k)'
  BY DEF References
<1> USE DEF Goto, objects, transport, control, threads
<1>a. /\ pc \in [Thread -> Pc] /\ me \in [Thread -> Clid \cup {NoClid}]
      /\ note \in [Thread -> Clid \cup {NoClid}]
      /\ obj \in [Clid -> {"unused", "live", "freed"}]
      /\ category \in [Clid -> {"none", "connected", "dormant", "notifier"}]
      /\ ref_count \in [Clid -> Nat]
      /\ data \in [Clid -> {"none", "poll", "closing", "gone"}]
      /\ call \in [Clid -> {"none", "in", "send", "sent"}]
      /\ RefPart(k)
  BY DEF LifeInv, TypeOK, ObjectType, TransportType, ThreadType, WorldType,
     References
<1>b. \A t \in Thread : /\ me[t] # NoClid => me[t] < next_clid
                        /\ note[t] # NoClid => note[t] < next_clid
  BY Kinds DEF ClientPart, NotePart
<1>c. ASSUME UNCHANGED <<pc, me, note>>
      PROVE  /\ ClientHeld(k)' <=> ClientHeld(k)
             /\ NoteHeld(k)' <=> NoteHeld(k)
             /\ ClientOpens(k)' <=> ClientOpens(k)
             /\ NoteOpens(k)' <=> NoteOpens(k)
  BY <1>c DEF ClientHeld, NoteHeld, ClientOpens, NoteOpens
<1>0. /\ pc \in [Thread -> Pc] /\ me \in [Thread -> Clid \cup {NoClid}]
      /\ note \in [Thread -> Clid \cup {NoClid}]
      /\ obj \in [Clid -> {"unused", "live", "freed"}]
      /\ category \in [Clid -> {"none", "connected", "dormant", "notifier"}]
      /\ ref_count \in [Clid -> Nat]
      /\ data \in [Clid -> {"none", "poll", "closing", "gone"}]
      /\ call \in [Clid -> {"none", "in", "send", "sent"}]
      /\ RefPart(k) /\ UnusedPart(k)
      /\ next_clid \in Nat \ {0} /\ NoClid \notin Clid /\ NoClid = 0
      /\ Clid \subseteq Nat
      /\ \A t \in Thread : PlacePart(t) /\ ClientPart(t) /\ NotePart(t)
  BY <1>a, Kinds
<1>1. ASSUME NEW t \in Thread, CountServers(t) PROVE RefPart(k)'
  <2>1. HolderStep(t, k)
    <3>1. Frame(t)
      BY <1>0, <1>1 DEF Frame, CountServers, Miss
    <3> QED BY <3>1, Moves
  <2> QED BY <1>0, <1>1, <2>1
    DEF HolderStep, RefPart, One, TransportHeld, InitHolds, ReleaseHolds,
       PlacePart, CountServers, Miss
<1>2. ASSUME NEW t \in Thread, LookForInstance(t) PROVE RefPart(k)'
  <2>1. HolderStep(t, k)
    <3>1. Frame(t)
      BY <1>0, <1>2 DEF Frame, LookForInstance, Miss
    <3> QED BY <3>1, Moves
  <2> QED BY <1>0, <1>2, <2>1
    DEF HolderStep, RefPart, One, TransportHeld, InitHolds, ReleaseHolds,
       PlacePart, LookForInstance, Miss
<1>3. ASSUME NEW t \in Thread, InitClient(t) PROVE RefPart(k)'
  <2>1. HolderStep(t, k)
    <3>1. Frame(t)
      BY <1>0, <1>3 DEF Frame, InitClient, Alloc
    <3> QED BY <3>1, Moves
  <2>2. CASE Alloc("connected") /\ me' = [me EXCEPT ![t] = next_clid] /\ Goto(t, "open")
    <3>1. /\ ref_count' = [ref_count EXCEPT ![next_clid] = 2]
          /\ UNCHANGED <<note, list, data, call>>
          /\ next_clid \in Clid /\ pc[t] = "alloc"
      BY <1>0, <1>3, <2>2 DEF Alloc, InitClient, Clid
    <3>2. me[t] # next_clid /\ note[t] # next_clid
      BY <1>0, <1>b, <3>1
    <3>3. CASE k = next_clid
      <4>1. ref_count[k] = 0 /\ call[k] = "none"
        BY <1>0, <3>3 DEF UnusedPart
      <4>2. /\ ~ClientHeld(k) /\ ~NoteHeld(k) /\ ~TransportHeld(k)
        BY <1>0, <4>1 DEF RefPart, One
      <4>3. /\ ClientHeld(k)' /\ TransportHeld(k)' /\ ~NoteHeld(k)'
        BY <1>0, <2>1, <2>2, <3>1, <3>2, <3>3, <4>2
           DEF HolderStep, TransportHeld, InitHolds
      <4>4. ref_count'[k] = 2 /\ call'[k] = "none"
        BY <1>0, <3>1, <3>3, <4>1
      <4> QED BY <4>3, <4>4 DEF RefPart, One
    <3>4. CASE k # next_clid
      <4>1. /\ ClientHeld(k)' <=> ClientHeld(k)
            /\ NoteHeld(k)' <=> NoteHeld(k)
            /\ TransportHeld(k)' <=> TransportHeld(k)
        BY <1>0, <2>1, <2>2, <3>1, <3>4
           DEF HolderStep, TransportHeld, InitHolds, ReleaseHolds
      <4>2. ref_count'[k] = ref_count[k] /\ call'[k] = call[k]
        BY <1>0, <3>1, <3>4
      <4> QED BY <1>0, <4>1, <4>2 DEF RefPart, One
    <3> QED BY <3>3, <3>4
  <2> QED BY <1>3, <2>2 DEF InitClient
<1>4. ASSUME NEW t \in Thread, OpenClient(t) PROVE RefPart(k)'
  <2>0. me[t] \in Clid /\ me[t] # NoClid /\ pc[t] = "open"
    BY <1>0, <1>4, Has DEF OpenClient, MePc, InitHolds
  <2>1. HolderStep(t, k)
    <3>1. Frame(t)
      BY <1>0, <1>4 DEF Frame, OpenClient, Failed
    <3> QED BY <3>1, Moves
  <2>2. data[me[t]] = "none" /\ me[t] \notin list
    BY <1>0, <2>0 DEF ClientPart
  <2>3. CASE /\ data' = [data EXCEPT ![me[t]] = "poll"] /\ Goto(t, "list")
             /\ UNCHANGED <<ref_count, me, note, list, call>>
    <3>1. /\ ClientHeld(k)' <=> ClientHeld(k)
          /\ NoteHeld(k)' <=> NoteHeld(k)
          /\ TransportHeld(k)' <=> TransportHeld(k)
      BY <1>0, <2>0, <2>1, <2>3
         DEF HolderStep, TransportHeld, InitHolds, ReleaseHolds
    <3> QED BY <1>0, <2>3, <3>1 DEF RefPart, One
  <2>4. CASE /\ PutRefs(me[t], 2) /\ me' = [me EXCEPT ![t] = NoClid]
             /\ Failed(t) /\ UNCHANGED <<note, data, list, call>>
    <3>1. CASE k = me[t]
      <4>1. /\ ClientHeld(k) /\ TransportHeld(k)
            /\ ~ClientHeld(k)' /\ ~TransportHeld(k)'
            /\ ~NoteHeld(k) /\ ~NoteHeld(k)'
        BY <1>0, <2>0, <2>1, <2>2, <2>4, <3>1
           DEF HolderStep, TransportHeld, InitHolds, Failed
      <4>2. ref_count'[k] = ref_count[k] - 2 /\ call'[k] = call[k]
        BY <1>0, <2>0, <2>4, <3>1 DEF PutRefs
      <4> QED BY <1>0, <4>1, <4>2 DEF RefPart, One
    <3>2. CASE k # me[t]
      <4>1. /\ ClientHeld(k)' <=> ClientHeld(k)
            /\ NoteHeld(k)' <=> NoteHeld(k)
            /\ TransportHeld(k)' <=> TransportHeld(k)
        BY <1>0, <2>0, <2>1, <2>4, <3>2 DEF HolderStep, TransportHeld, Failed
      <4>2. ref_count'[k] = ref_count[k] /\ call'[k] = call[k]
        BY <1>0, <2>0, <2>4, <3>2 DEF PutRefs
      <4> QED BY <1>0, <4>1, <4>2 DEF RefPart, One
    <3> QED BY <3>1, <3>2
  <2> QED BY <1>4, <2>3, <2>4 DEF OpenClient
<1>5. ASSUME NEW t \in Thread, ListClient(t) PROVE RefPart(k)'
  <2>0. me[t] \in Clid /\ me[t] # NoClid /\ pc[t] = "list"
    BY <1>0, <1>5, Has DEF ListClient, MePc, InitHolds
  <2>1. HolderStep(t, k)
    <3>1. Frame(t)
      BY <1>0, <1>5 DEF Frame, ListClient
    <3> QED BY <3>1, Moves
  <2>2. data[me[t]] = "poll"
    BY <1>0, <2>0 DEF ClientPart, OpenPc
  <2>3. /\ list' = list \cup {me[t]} /\ Goto(t, "link")
        /\ UNCHANGED <<ref_count, me, note, data, call>>
    BY <1>5 DEF ListClient
  <2>4. /\ ClientHeld(k)' <=> ClientHeld(k)
        /\ NoteHeld(k)' <=> NoteHeld(k)
        /\ TransportHeld(k)' <=> TransportHeld(k)
    BY <1>0, <2>0, <2>1, <2>2, <2>3
       DEF HolderStep, TransportHeld, InitHolds, ReleaseHolds
  <2> QED BY <1>0, <2>3, <2>4 DEF RefPart, One
<1>6. ASSUME NEW t \in Thread, LinkClient(t) PROVE RefPart(k)'
  <2>0. me[t] \in Clid
    BY <1>6, Has DEF LinkClient, MePc, InitHolds, OwnPc
  <2>1. HolderStep(t, k)
    <3>1. Frame(t)
      BY <1>0, <1>6 DEF Frame, LinkClient
    <3> QED BY <3>1, Moves
  <2> QED BY <1>0, <1>6, <2>0, <2>1
    DEF HolderStep, RefPart, One, TransportHeld, InitHolds, ReleaseHolds,
       PlacePart, LinkClient
<1>7. ASSUME NEW t \in Thread, Relookup(t) PROVE RefPart(k)'
  <2>0. me[t] \in Clid
    BY <1>7, Has DEF Relookup, MePc, InitHolds, OwnPc
  <2>1. HolderStep(t, k)
    <3>1. Frame(t)
      BY <1>0, <1>7 DEF Frame, Relookup, CloseAgain
    <3> QED BY <3>1, Moves
  <2> QED BY <1>0, <1>7, <2>0, <2>1
    DEF HolderStep, RefPart, One, TransportHeld, InitHolds, ReleaseHolds,
       PlacePart, Relookup, CloseAgain
<1>8. ASSUME NEW t \in Thread, NoMemory(t) PROVE RefPart(k)'
  <2>0. me[t] \in Clid
    BY <1>8, Has DEF NoMemory, MePc, InitHolds, OwnPc
  <2>1. HolderStep(t, k)
    <3>1. Frame(t)
      BY <1>0, <1>8 DEF Frame, NoMemory, CloseAgain
    <3> QED BY <3>1, Moves
  <2> QED BY <1>0, <1>8, <2>0, <2>1
    DEF HolderStep, RefPart, One, TransportHeld, InitHolds, ReleaseHolds,
       PlacePart, NoMemory, CloseAgain
<1>9. ASSUME NEW t \in Thread, InitDone(t) PROVE RefPart(k)'
  <2>0. me[t] \in Clid
    BY <1>9, Has DEF InitDone, MePc, InitHolds, OwnPc
  <2>1. HolderStep(t, k)
    <3>1. Frame(t)
      BY <1>0, <1>9 DEF Frame, InitDone, Miss, Failed
    <3> QED BY <3>1, Moves
  <2> QED BY <1>0, <1>9, <2>0, <2>1
    DEF HolderStep, RefPart, One, TransportHeld, InitHolds, ReleaseHolds,
       PlacePart, InitDone, PutRef, PutRefs, Miss, Failed
<1>10. ASSUME NEW t \in Thread, InitNotifier(t) PROVE RefPart(k)'
  <2>1. HolderStep(t, k)
    <3>1. Frame(t)
      BY <1>0, <1>10 DEF Frame, InitNotifier
    <3> QED BY <3>1, Moves
  <2>2. CASE Alloc("notifier") /\ note' = [note EXCEPT ![t] = next_clid] /\ Goto(t, "nlist")
    <3>1. /\ ref_count' = [ref_count EXCEPT ![next_clid] = 2]
          /\ UNCHANGED <<me, list, data, call>>
          /\ next_clid \in Clid /\ pc[t] = "nalloc"
      BY <1>0, <1>10, <2>2 DEF Alloc, InitNotifier, Clid
    <3>2. me[t] # next_clid /\ note[t] # next_clid
      BY <1>0, <1>b, <3>1
    <3>3. CASE k = next_clid
      <4>1. ref_count[k] = 0 /\ call[k] = "none"
        BY <1>0, <3>3 DEF UnusedPart
      <4>2. /\ ~ClientHeld(k) /\ ~NoteHeld(k) /\ ~TransportHeld(k)
        BY <1>0, <4>1 DEF RefPart, One
      <4>3. /\ NoteHeld(k)' /\ TransportHeld(k)' /\ ~ClientHeld(k)'
        BY <1>0, <2>1, <2>2, <3>1, <3>2, <3>3, <4>2
           DEF HolderStep, TransportHeld, InitHolds
      <4>4. ref_count'[k] = 2 /\ call'[k] = "none"
        BY <1>0, <3>1, <3>3, <4>1
      <4> QED BY <4>3, <4>4 DEF RefPart, One
    <3>4. CASE k # next_clid
      <4>1. /\ ClientHeld(k)' <=> ClientHeld(k)
            /\ NoteHeld(k)' <=> NoteHeld(k)
            /\ TransportHeld(k)' <=> TransportHeld(k)
        BY <1>0, <2>1, <2>2, <3>1, <3>4
           DEF HolderStep, TransportHeld, InitHolds, ReleaseHolds
      <4>2. ref_count'[k] = ref_count[k] /\ call'[k] = call[k]
        BY <1>0, <3>1, <3>4
      <4> QED BY <1>0, <4>1, <4>2 DEF RefPart, One
    <3> QED BY <3>3, <3>4
  <2>3. CASE Goto(t, "failed") /\ UNCHANGED <<me, note, ref_count, list, data, call>>
    <3>1. pc[t] = "nalloc"
      BY <1>10 DEF InitNotifier
    <3>2. /\ ClientHeld(k)' <=> ClientHeld(k)
          /\ NoteHeld(k)' <=> NoteHeld(k)
          /\ TransportHeld(k)' <=> TransportHeld(k)
      BY <1>0, <2>1, <2>3, <3>1 DEF HolderStep, TransportHeld, InitHolds,
         ReleaseHolds
    <3> QED BY <1>0, <2>3, <3>2 DEF RefPart, One
  <2> QED BY <1>10, <2>2, <2>3 DEF InitNotifier, Alloc
<1>11. ASSUME NEW t \in Thread, ListNotifier(t) PROVE RefPart(k)'
  <2>0. note[t] \in Clid
    BY <1>11, Has DEF ListNotifier, NotePc
  <2>1. HolderStep(t, k)
    <3>1. Frame(t)
      BY <1>0, <1>11 DEF Frame, ListNotifier
    <3> QED BY <3>1, Moves
  <2> QED BY <1>0, <1>11, <2>0, <2>1
    DEF HolderStep, RefPart, One, TransportHeld, InitHolds, ReleaseHolds,
       PlacePart, ListNotifier
<1>12. ASSUME NEW t \in Thread, LookupNotifier(t) PROVE RefPart(k)'
  <2>0. note[t] \in Clid
    BY <1>12, Has DEF LookupNotifier, NotePc
  <2>1. HolderStep(t, k)
    <3>1. Frame(t)
      BY <1>0, <1>12 DEF Frame, LookupNotifier
    <3> QED BY <3>1, Moves
  <2> QED BY <1>0, <1>12, <2>0, <2>1
    DEF HolderStep, RefPart, One, TransportHeld, InitHolds, ReleaseHolds,
       PlacePart, LookupNotifier
<1>13. ASSUME NEW t \in Thread, ClearSignal(t) PROVE RefPart(k)'
  <2>1. HolderStep(t, k)
    <3>1. Frame(t)
      BY <1>0, <1>13 DEF Frame, ClearSignal
    <3> QED BY <3>1, Moves
  <2> QED BY <1>0, <1>13, <2>1
    DEF HolderStep, RefPart, One, TransportHeld, InitHolds, ReleaseHolds,
       PlacePart, ClearSignal
<1>14. ASSUME NEW t \in Thread, Wait(t) PROVE RefPart(k)'
  <2>1. HolderStep(t, k)
    <3>1. Frame(t)
      BY <1>0, <1>14 DEF Frame, Wait
    <3> QED BY <3>1, Moves
  <2> QED BY <1>0, <1>14, <2>1
    DEF HolderStep, RefPart, One, TransportHeld, InitHolds, ReleaseHolds,
       PlacePart, Wait
<1>15. ASSUME NEW t \in Thread, ReleaseNotifier(t) PROVE RefPart(k)'
  <2>0. note[t] \in Clid
    BY <1>15, Has DEF ReleaseNotifier, NotePc
  <2>1. HolderStep(t, k)
    <3>1. Frame(t)
      BY <1>0, <1>15 DEF Frame, ReleaseNotifier
    <3> QED BY <3>1, Moves
  <2> QED BY <1>0, <1>15, <2>0, <2>1
    DEF HolderStep, RefPart, One, TransportHeld, InitHolds, ReleaseHolds,
       PlacePart, ReleaseNotifier, GetRef
<1>16. ASSUME NEW t \in Thread, CloseNotifier(t) PROVE RefPart(k)'
  <2>0. note[t] \in Clid /\ note[t] # NoClid /\ pc[t] = "nclose"
    BY <1>0, <1>16, Has DEF CloseNotifier, NotePc
  <2>1. HolderStep(t, k)
    <3>1. Frame(t)
      BY <1>0, <1>16 DEF Frame, CloseNotifier
    <3> QED BY <3>1, Moves
  <2>2. note[t] \in list /\ data[note[t]] = "none"
    BY <1>0, <2>0, Kinds DEF NotePart
  <2>3. /\ list' = list \ {note[t]} /\ PutRefs(note[t], 1) /\ Goto(t, "nput")
        /\ UNCHANGED <<me, note, data, call>>
    BY <1>16 DEF CloseNotifier, PutRef
  <2>4. CASE k = note[t]
    <3>1. /\ NoteHeld(k) /\ NoteHeld(k)' /\ TransportHeld(k)
          /\ ~TransportHeld(k)' /\ ~ClientHeld(k) /\ ~ClientHeld(k)'
      BY <1>0, <2>0, <2>1, <2>2, <2>3, <2>4, Kinds DEF HolderStep, TransportHeld
    <3>2. ref_count'[k] = ref_count[k] - 1 /\ call'[k] = call[k]
      BY <1>0, <2>0, <2>3, <2>4 DEF PutRefs
    <3> QED BY <1>0, <3>1, <3>2 DEF RefPart, One
  <2>5. CASE k # note[t]
    <3>1. /\ ClientHeld(k)' <=> ClientHeld(k)
          /\ NoteHeld(k)' <=> NoteHeld(k)
          /\ TransportHeld(k)' <=> TransportHeld(k)
      BY <1>0, <2>0, <2>1, <2>3, <2>5 DEF HolderStep, TransportHeld, InitHolds,
         ReleaseHolds
    <3>2. ref_count'[k] = ref_count[k] /\ call'[k] = call[k]
      BY <1>0, <2>0, <2>3, <2>5 DEF PutRefs
    <3> QED BY <1>0, <3>1, <3>2 DEF RefPart, One
  <2> QED BY <2>4, <2>5
<1>17. ASSUME NEW t \in Thread, NotifierGone(t) PROVE RefPart(k)'
  <2>0. note[t] \in Clid
    BY <1>17, Has DEF NotifierGone, NotePc
  <2>1. HolderStep(t, k)
    <3>1. Frame(t)
      BY <1>0, <1>17 DEF Frame, NotifierGone
    <3> QED BY <3>1, Moves
  <2> QED BY <1>0, <1>17, <2>0, <2>1
    DEF HolderStep, RefPart, One, TransportHeld, InitHolds, ReleaseHolds,
       PlacePart, NotifierGone, PutRef, PutRefs
<1>18. ASSUME NEW t \in Thread, Timeout(t) PROVE RefPart(k)'
  <2>1. HolderStep(t, k)
    <3>1. Frame(t)
      BY <1>0, <1>18 DEF Frame, Timeout
    <3> QED BY <3>1, Moves
  <2> QED BY <1>0, <1>18, <2>1
    DEF HolderStep, RefPart, One, TransportHeld, InitHolds, ReleaseHolds,
       PlacePart, Timeout
<1>19. ASSUME NEW t \in Thread, ReleaseClient(t) PROVE RefPart(k)'
  <2>0. me[t] \in Clid
    BY <1>19, Has DEF ReleaseClient, MePc, InitHolds, OwnPc
  <2>1. HolderStep(t, k)
    <3>1. Frame(t)
      BY <1>0, <1>19 DEF Frame, ReleaseClient
    <3> QED BY <3>1, Moves
  <2> QED BY <1>0, <1>19, <2>0, <2>1
    DEF HolderStep, RefPart, One, TransportHeld, InitHolds, ReleaseHolds,
       PlacePart, ReleaseClient, GetRef
<1>20. ASSUME NEW t \in Thread, StopSending(t) PROVE RefPart(k)'
  <2>0. me[t] \in Clid
    BY <1>20, Has DEF StopSending, MePc, InitHolds, OwnPc
  <2>1. HolderStep(t, k)
    <3>1. Frame(t)
      BY <1>0, <1>20 DEF Frame, StopSending
    <3> QED BY <3>1, Moves
  <2> QED BY <1>0, <1>20, <2>0, <2>1
    DEF HolderStep, RefPart, One, TransportHeld, InitHolds, ReleaseHolds,
       PlacePart, StopSending
<1>21. ASSUME NEW t \in Thread, CloseClient(t) PROVE RefPart(k)'
  <2>0. me[t] \in Clid
    BY <1>21, Has DEF CloseClient, MePc, InitHolds, OwnPc
  <2>1. HolderStep(t, k)
    <3>1. Frame(t)
      BY <1>0, <1>21 DEF Frame, CloseClient
    <3> QED BY <3>1, Moves
  <2> QED BY <1>0, <1>21, <2>0, <2>1
    DEF HolderStep, RefPart, One, TransportHeld, InitHolds, ReleaseHolds,
       PlacePart, CloseClient
<1>22. ASSUME NEW t \in Thread, PutReleased(t) PROVE RefPart(k)'
  <2>0. me[t] \in Clid
    BY <1>22, Has DEF PutReleased, MePc, InitHolds, OwnPc
  <2>1. HolderStep(t, k)
    <3>1. Frame(t)
      BY <1>0, <1>22 DEF Frame, PutReleased
    <3> QED BY <3>1, Moves
  <2> QED BY <1>0, <1>22, <2>0, <2>1
    DEF HolderStep, RefPart, One, TransportHeld, InitHolds, ReleaseHolds,
       PlacePart, PutReleased, PutRef, PutRefs
<1>23. ASSUME NEW t \in Thread, Released(t) PROVE RefPart(k)'
  <2>0. me[t] \in Clid
    BY <1>23, Has DEF Released, MePc, InitHolds, OwnPc
  <2>1. HolderStep(t, k)
    <3>1. Frame(t)
      BY <1>0, <1>23 DEF Frame, Released
    <3> QED BY <3>1, Moves
  <2> QED BY <1>0, <1>23, <2>0, <2>1
    DEF HolderStep, RefPart, One, TransportHeld, InitHolds, ReleaseHolds,
       PlacePart, Released
<1>24. ASSUME NEW t \in Thread, EnterCall(t) PROVE RefPart(k)'
  <2>0. me[t] \in Clid
    BY <1>24, Has DEF EnterCall, MePc, InitHolds, OwnPc
  <2> QED BY <1>0, <1>c, <1>24, <2>0
    DEF RefPart, One, TransportHeld, EnterCall, GetRef
<1>25. ASSUME NEW c \in Clid, StartSend(c) PROVE RefPart(k)'
  BY <1>0, <1>c, <1>25
  DEF RefPart, One, TransportHeld, StartSend
<1>26. ASSUME NEW c \in Clid, EndSend(c) PROVE RefPart(k)'
  BY <1>0, <1>c, <1>26
  DEF RefPart, One, TransportHeld, EndSend
<1>27. ASSUME NEW c \in Clid, LeaveCall(c) PROVE RefPart(k)'
  BY <1>0, <1>c, <1>27
  DEF RefPart, One, TransportHeld, LeaveCall, PutRef, PutRefs
<1>28. ASSUME NEW c \in Clid, DataReset(c) PROVE RefPart(k)'
  BY <1>0, <1>c, <1>28
  DEF RefPart, One, TransportHeld, DataReset
<1>29. ASSUME NEW c \in Clid, DataClose(c) PROVE RefPart(k)'
  BY <1>0, <1>c, <1>29
  DEF RefPart, One, TransportHeld, DataClose
<1>30. ASSUME NEW c \in Clid, DataRelease(c) PROVE RefPart(k)'
  <2>1. /\ list' = list \ {c} /\ data' = [data EXCEPT ![c] = "gone"]
        /\ PutRefs(c, 1) /\ data[c] = "closing" /\ UNCHANGED <<pc, me, note, call>>
    BY <1>30 DEF DataRelease, PutRef
  <2>2. CASE k = c
    <3>1. ~ClientOpens(c) /\ ~NoteOpens(c)
      BY <1>0, <2>1, Kinds DEF ClientOpens, NoteOpens, ClientPart, NotePart
    <3>2. TransportHeld(k) /\ ~TransportHeld(k)'
      BY <1>0, <1>c, <2>1, <2>2, <3>1 DEF TransportHeld
    <3>3. ref_count'[k] = ref_count[k] - 1 /\ call'[k] = call[k]
      BY <1>0, <2>1, <2>2 DEF PutRefs
    <3> QED BY <1>0, <1>c, <2>1, <3>2, <3>3 DEF RefPart, One
  <2>3. CASE k # c
    <3>1. TransportHeld(k)' <=> TransportHeld(k)
      BY <1>0, <1>c, <2>1, <2>3 DEF TransportHeld
    <3>2. ref_count'[k] = ref_count[k] /\ call'[k] = call[k]
      BY <1>0, <2>1, <2>3 DEF PutRefs
    <3> QED BY <1>0, <1>c, <2>1, <3>1, <3>2 DEF RefPart, One
  <2> QED BY <2>2, <2>3
<1>31. ASSUME CtlRead PROVE RefPart(k)'
  BY <1>0, <1>c, <1>31
  DEF RefPart, One, TransportHeld, CtlRead
<1>32. ASSUME CtlDone PROVE RefPart(k)'
  BY <1>0, <1>c, <1>32
  DEF RefPart, One, TransportHeld, CtlDone
<1>33. ASSUME NEW c \in Clid, CtlNotify(c) PROVE RefPart(k)'
  BY <1>0, <1>c, <1>33
  DEF RefPart, One, TransportHeld, CtlNotify
<1>34. ASSUME NEW c \in Clid, CtlReset(c) PROVE RefPart(k)'
  BY <1>0, <1>c, <1>34
  DEF RefPart, One, TransportHeld, CtlReset
<1>35. ASSUME NEW s \in Server, ServerUp(s) PROVE RefPart(k)'
  BY <1>0, <1>c, <1>35
  DEF RefPart, One, TransportHeld, ServerUp
<1>36. ASSUME NEW s \in Server, ServerDown(s) PROVE RefPart(k)'
  BY <1>0, <1>c, <1>36
  DEF RefPart, One, TransportHeld, ServerDown
<1>37. CASE UNCHANGED vars
  BY <1>0, <1>c, <1>37 DEF RefPart, One, TransportHeld, vars
<1> QED
  BY <1>1, <1>2, <1>3, <1>4, <1>5, <1>6, <1>7, <1>8, <1>9, <1>10, <1>11,
     <1>12, <1>13, <1>14, <1>15, <1>16, <1>17, <1>18, <1>19, <1>20, <1>21,
     <1>22, <1>23, <1>24, <1>25, <1>26, <1>27, <1>28, <1>29, <1>30, <1>31,
     <1>32, <1>33, <1>34, <1>35, <1>36, <1>37
  DEF Next, InitInstance, Release, Call, Control, Data, Rest

------------------------------------------------------------------------------
(* The invariant holds.                                                    *)

\* At first nothing is held and nobody has anything.
LEMMA LifeInit == Init => LifeInv
<1> SUFFICES ASSUME Init PROVE LifeInv
  OBVIOUS
<1> DEFINE first == CHOOSE s \in Server : TRUE
<1>1. first \in Server
  BY ServerAssumption
<1>2. /\ Clid \subseteq Nat /\ NoClid \notin Clid /\ 1 \in 1..(MaxClid + 1)
      /\ 0 \in 0..Cardinality(Server)
  BY BoundAssumption, ServerAssumption, FS_CardinalityType DEF Clid, NoClid
<1> HIDE DEF first
<1>3. server = [c \in Clid |-> first] /\ found = [t \in Thread |-> first]
  BY DEF Init, first
<1>4. TypeOK
  <2>1. ObjectType
    BY <1>1, <1>2, <1>3 DEF Init, ObjectType
  <2>2. TransportType
    BY DEF Init, TransportType
  <2>3. ControlType
    BY DEF Init, ControlType, NoEvent
  <2>4. ThreadType
    BY <1>1, <1>2, <1>3 DEF Init, ThreadType, Pc
  <2>5. WorldType
    BY DEF Init, WorldType
  <2>6. FlagType
    BY DEF Init, FlagType
  <2> QED BY <2>1, <2>2, <2>3, <2>4, <2>5, <2>6 DEF TypeOK
<1>5. Places /\ Clients /\ Notes /\ Distinct
  <2>1. \A t \in Thread : /\ pc[t] = "count" /\ me[t] = NoClid
                          /\ note[t] = NoClid
    BY DEF Init
  <2>2. Places
    BY <2>1 DEF Places, PlacePart, MePc, InitHolds, OwnPc, NotePc, NoNotePc
  <2> QED BY <2>1, <2>2 DEF Clients, ClientPart, Notes, NotePart, Distinct
<1>6. Unused /\ Alive /\ Calls /\ Walk
  BY <1>2 DEF Init, Unused, UnusedPart, Alive, AlivePart, Calls, CallPart,
     Walk, WalkPart
<1>7. References
  <2> SUFFICES ASSUME NEW c \in Clid PROVE RefPart(c)
    BY DEF References
  <2>1. \A t \in Thread : me[t] # c /\ note[t] # c
    BY <1>2 DEF Init
  <2>2. ~ClientHeld(c) /\ ~NoteHeld(c) /\ ~ClientOpens(c) /\ ~NoteOpens(c)
    BY <2>1 DEF ClientHeld, NoteHeld, ClientOpens, NoteOpens
  <2>3. data[c] = "none" /\ list = {} /\ call[c] = "none" /\ ref_count[c] = 0
    BY DEF Init
  <2> QED BY <2>2, <2>3 DEF RefPart, One, TransportHeld
<1>8. Idle
  BY DEF Init, Idle
<1> QED BY <1>4, <1>5, <1>6, <1>7, <1>8 DEF LifeInv

\* Every step keeps all parts ...
LEMMA LifeNext == LifeInv /\ [Next]_vars => LifeInv'
BY TypeStep, PlaceStep, ClientStep, NoteStep, DistinctStep, UnusedStep,
   AliveStep, CallStep, WalkStep, RefStep, IdleStep DEF LifeInv

\* ... so they always hold.
LEMMA LifeAlways == Spec => []LifeInv
BY LifeInit, LifeNext, PTL DEF Spec

------------------------------------------------------------------------------
(* What the invariant is for.                                              *)

\* The variables of the objects, the transports, the control thread, the
\* users' threads and the servers have their types, and no reference count is
\* ever taken below zero.
THEOREM ClientTypes == Spec => []TypeOK
<1>1. LifeInv => TypeOK
  BY DEF LifeInv
<1> QED BY <1>1, LifeAlways, PTL

\* What a thread works on is still there: no thread ever touches an object
\* after the last reference to it was given up.
THEOREM UsesLive == Spec => []UsesAreLive
<1>1. LifeInv => UsesAreLive
  <2> SUFFICES ASSUME LifeInv PROVE UsesAreLive
    OBVIOUS
  <2>1. \A c \in Clid : ref_count[c] > 0 => c \in Live
    BY DEF LifeInv, Alive, AlivePart, Live
  <2>2. list \cup todo \subseteq Live
    <3>1. list \subseteq Clid /\ todo \subseteq Clid
      BY DEF LifeInv, TypeOK, TransportType, ControlType
    <3>2. todo \subseteq list
      BY <3>1, Kinds DEF WalkPart
    <3> QED BY <2>1, <3>1, <3>2, Counted DEF TransportHeld
  <2>3. ASSUME NEW c \in Clid
        PROVE  /\ data[c] \in {"poll", "closing"} => c \in Live
               /\ call[c] # "none" => c \in Live
    BY <2>1, Counted DEF TransportHeld
  <2>4. ASSUME NEW c \in Clid, call[c] = "send" PROVE data[c] = "poll"
    <3>1. PICK t \in Thread : me[t] = c /\ pc[t] \in OwnPc
      BY <2>4, Kinds DEF CallPart
    <3>2. c \in accepting /\ c # NoClid
      BY <2>4, Kinds DEF CallPart
    <3> QED BY <3>1, <3>2, Kinds DEF ClientPart, OpenPc, OwnPc
  <2>5. ASSUME NEW t \in Thread, pc[t] \in InitHolds \cup ReleaseHolds
        PROVE  me[t] \in Live
    BY <2>1, <2>5, Has, Held, Counted DEF MePc, OwnPc, ReleaseHolds
  <2>6. ASSUME NEW t \in Thread, note[t] # NoClid PROVE note[t] \in Live
    <3>1. note[t] \in Clid
      BY <2>6 DEF LifeInv, TypeOK, ThreadType
    <3>2. CASE pc[t] \in {"nlist", "nput"}
      BY <2>1, <3>1, <3>2, Held, Counted
    <3>3. CASE pc[t] \notin {"nlist", "nput"}
      BY <2>2, <2>6, <3>3, Kinds DEF NotePart
    <3> QED BY <3>2, <3>3
  <2> QED BY <2>2, <2>3, <2>4, <2>5, <2>6 DEF UsesAreLive
<1> QED BY <1>1, LifeAlways, PTL

\* A set grows by one where it takes in something new.
LEMMA AddOne ==
  ASSUME NEW S, IsFiniteSet(S), NEW x, x \notin S, NEW b \in BOOLEAN
  PROVE  LET T == S \cup (IF b THEN {x} ELSE {})
         IN  IsFiniteSet(T) /\ Cardinality(T) = Cardinality(S) + One(b)
<1>1. CASE b
  BY <1>1, FS_AddElement DEF One
<1>2. CASE ~b
  <2>1. S \cup (IF b THEN {x} ELSE {}) = S
    BY <1>2
  <2> QED BY <1>2, <2>1, FS_CardinalityType DEF One
<1> QED BY <1>1, <1>2

\* An object's reference count is the number of those that hold it, and it is
\* freed exactly when the last of them lets go.
THEOREM CountsExact == Spec => []CountsAreHolders
<1>1. LifeInv => CountsAreHolders
  <2> SUFFICES ASSUME LifeInv, NEW c \in Clid
               PROVE  ref_count[c] = IF c \in Live THEN Cardinality(Holders(c))
                                     ELSE 0
    BY DEF CountsAreHolders
  <2>1. ref_count[c] \in Nat /\ RefPart(c) /\ AlivePart(c)
    BY Counted DEF LifeInv, References, Alive
  <2>2. c \notin Live => ref_count[c] = 0
    BY <2>1 DEF AlivePart, Live
  <2> DEFINE mine == {u \in Thread : /\ me[u] = c
                                     /\ pc[u] \in InitHolds \cup ReleaseHolds}
             noted == {u \in Thread : /\ note[u] = c
                         /\ pc[u] \in {"nlist", "nlook", "nclose", "nput"}}
             t0 == CHOOSE u \in mine : TRUE
             u0 == CHOOSE u \in noted : TRUE
             A == IF ClientHeld(c) THEN {<<t0, "me">>} ELSE {}
             B == IF NoteHeld(c) THEN {<<u0, "note">>} ELSE {}
             T == IF TransportHeld(c) THEN {<<"transport">>} ELSE {}
             K == IF call[c] # "none" THEN {<<"call">>} ELSE {}
  <2>3. \A t, u \in Thread : t # u => /\ me[t] = c => me[u] # c
                                      /\ note[t] = c => note[u] # c
    BY Kinds DEF LifeInv, Distinct
  <2>4. {<<t, "me">> : t \in mine} = A
    <3>1. CASE ClientHeld(c)
      <4>1. mine # {}
        BY <3>1 DEF ClientHeld
      <4>2. t0 \in mine
        BY <4>1
      <4>3. mine = {t0}
        BY <2>3, <4>2
      <4> QED BY <3>1, <4>3
    <3>2. CASE ~ClientHeld(c)
      BY <3>2 DEF ClientHeld
    <3> QED BY <3>1, <3>2
  <2>5. {<<t, "note">> : t \in noted} = B
    <3>1. CASE NoteHeld(c)
      <4>1. noted # {}
        BY <3>1 DEF NoteHeld
      <4>2. u0 \in noted
        BY <4>1
      <4>3. noted = {u0}
        BY <2>3, <4>2
      <4> QED BY <3>1, <4>3
    <3>2. CASE ~NoteHeld(c)
      BY <3>2 DEF NoteHeld
    <3> QED BY <3>1, <3>2
  <2>6. Holders(c) = A \cup B \cup T \cup K
    <3>1. TransportHeld(c) <=>
            \/ data[c] \in {"poll", "closing"}
            \/ c \in list
            \/ \E t \in Thread : \/ (me[t] = c /\ pc[t] = "open")
                                 \/ (note[t] = c /\ pc[t] = "nlist")
      BY DEF TransportHeld, ClientOpens, NoteOpens
    <3> QED BY <2>4, <2>5, <3>1, Zenon DEF Holders
  <2>7. /\ <<u0, "note">> \notin A
        /\ <<"transport">> \notin A \cup B
        /\ <<"call">> \notin A \cup B \cup T
    OBVIOUS
  <2>8. ClientHeld(c) \in BOOLEAN /\ NoteHeld(c) \in BOOLEAN
        /\ TransportHeld(c) \in BOOLEAN
    BY DEF ClientHeld, NoteHeld, TransportHeld
  <2>9. IsFiniteSet(A) /\ Cardinality(A) = One(ClientHeld(c))
    BY <2>8, FS_EmptySet, FS_Singleton DEF One
  <2> HIDE DEF mine, noted, t0, u0, A, B, T, K
  <2>10. /\ IsFiniteSet(A \cup B)
         /\ Cardinality(A \cup B) = Cardinality(A) + One(NoteHeld(c))
    BY <2>7, <2>8, <2>9, AddOne DEF B
  <2>11. /\ IsFiniteSet(A \cup B \cup T)
         /\ Cardinality(A \cup B \cup T)
              = Cardinality(A \cup B) + One(TransportHeld(c))
    BY <2>7, <2>8, <2>10, AddOne DEF T
  <2>12. Cardinality(A \cup B \cup T \cup K)
           = Cardinality(A \cup B \cup T) + One(call[c] # "none")
    BY <2>7, <2>11, AddOne DEF K
  <2>13. ref_count[c] = Cardinality(Holders(c))
    BY <2>1, <2>6, <2>9, <2>10, <2>11, <2>12 DEF RefPart
  <2> QED BY <2>2, <2>13
<1> QED BY <1>1, LifeAlways, PTL

------------------------------------------------------------------------------
(* The loss of a server.                                                   *)

\* The client's user has it, or will have it with the next step.
GivenPc == {"put_ok", "nrel", "nclose", "nput", "ready"}

\* From then on its list of transports holds the transport ...
LinkedPart(t) ==
  me[t] # NoClid /\ pc[t] \in GivenPc \cup {"relook"} => me[t] \in linked

\* ... and the news that its server left are on their way.
NewsPart(t) == LET c == me[t] IN
  (/\ pc[t] \in GivenPc /\ c # NoClid
   /\ state[server[c]] = "down" /\ category[c] = "connected")
  => \/ <<"del", server[c]>> \in Elems(ctl_q)
     \/ ev = <<"del", server[c]>> /\ c \in todo
     \/ "r" \in Elems(pipe[c])

LinkedAll == \A t \in Thread : LinkedPart(t)
NewsAll == \A t \in Thread : NewsPart(t)
LossInv == LifeInv /\ LinkedAll /\ NewsAll

\* A client that is used has a list of transports that holds its own.
LEMMA LinkedStep == LossInv /\ [Next]_vars => LinkedAll'
<1> SUFFICES ASSUME LossInv, [Next]_vars, NEW u \in Thread
             PROVE  LinkedPart(u)'
  BY DEF LinkedAll
<1> USE DEF Goto, objects, transport, control, threads, GivenPc
<1>l. LifeInv /\ LinkedPart(u)
  BY DEF LossInv, LinkedAll
<1>a. /\ pc \in [Thread -> Pc] /\ me \in [Thread -> Clid \cup {NoClid}]
      /\ note \in [Thread -> Clid \cup {NoClid}]
      /\ ref_count \in [Clid -> Nat]
      /\ \A t \in Thread : t # u /\ me[t] = me[u] => me[u] = NoClid
  BY <1>l DEF LifeInv, TypeOK, ObjectType, ThreadType, Distinct
<1>b. me[u] # NoClid /\ pc[u] \in GivenPc =>
         data[me[u]] = "poll" /\ TransportHeld(me[u])
  BY <1>l, Kinds DEF ClientPart, OpenPc, TransportHeld
<1>0. /\ pc \in [Thread -> Pc] /\ me \in [Thread -> Clid \cup {NoClid}]
      /\ note \in [Thread -> Clid \cup {NoClid}]
      /\ ref_count \in [Clid -> Nat]
      /\ \A t \in Thread : t # u /\ me[t] = me[u] => me[u] = NoClid
      /\ LinkedPart(u) /\ LifeInv
      /\ next_clid \in Nat \ {0} /\ NoClid \notin Clid /\ NoClid = 0
      /\ Clid \subseteq Nat
      /\ \A t \in Thread : PlacePart(t)
      /\ \A t \in Thread : note[t] # NoClid => me[u] # note[t]
  BY <1>a, <1>l, Kinds DEF NotePart
<1>1. ASSUME NEW t \in Thread, CountServers(t) PROVE LinkedPart(u)'
  BY <1>0, <1>1
  DEF LinkedPart, PlacePart, NoMePc, CountServers, Miss
<1>2. ASSUME NEW t \in Thread, LookForInstance(t) PROVE LinkedPart(u)'
  BY <1>0, <1>2
  DEF LinkedPart, PlacePart, NoMePc, LookForInstance, Miss
<1>3. ASSUME NEW t \in Thread, InitClient(t) PROVE LinkedPart(u)'
  BY <1>0, <1>3
  DEF LinkedPart, PlacePart, NoMePc, InitClient, Alloc
<1>4. ASSUME NEW t \in Thread, OpenClient(t) PROVE LinkedPart(u)'
  <2>0. me[t] \in Clid
    BY <1>0, <1>4, Has DEF OpenClient, MePc, InitHolds
  <2>1. /\ pc[t] = "open" /\ pc'[u] \in GivenPc \cup {"relook"} /\ me'[u] # NoClid
             => u # t /\ pc'[u] = pc[u]
        /\ u # t => me'[u] = me[u]
        /\ linked \ {me[t]} \subseteq linked'
    BY <1>0, <1>4, <2>0 DEF OpenClient, PutRefs, Failed
  <2> QED BY <1>0, <1>4, <2>0, <2>1 DEF LinkedPart, OpenClient
<1>5. ASSUME NEW t \in Thread, ListClient(t) PROVE LinkedPart(u)'
  <2>0. me[t] \in Clid
    BY <1>l, <1>5, Has DEF ListClient, MePc, InitHolds, OwnPc
  <2> QED BY <1>0, <1>5, <2>0
      DEF LinkedPart, PlacePart, NoMePc, ListClient
<1>6. ASSUME NEW t \in Thread, LinkClient(t) PROVE LinkedPart(u)'
  <2>0. me[t] \in Clid
    BY <1>l, <1>6, Has DEF LinkClient, MePc, InitHolds, OwnPc
  <2> QED BY <1>0, <1>6, <2>0
      DEF LinkedPart, PlacePart, NoMePc, LinkClient
<1>7. ASSUME NEW t \in Thread, Relookup(t) PROVE LinkedPart(u)'
  <2>0. me[t] \in Clid
    BY <1>l, <1>7, Has DEF Relookup, MePc, InitHolds, OwnPc
  <2> QED BY <1>0, <1>7, <2>0
      DEF LinkedPart, PlacePart, NoMePc, Relookup, CloseAgain
<1>8. ASSUME NEW t \in Thread, NoMemory(t) PROVE LinkedPart(u)'
  <2>0. me[t] \in Clid
    BY <1>l, <1>8, Has DEF NoMemory, MePc, InitHolds, OwnPc
  <2> QED BY <1>0, <1>8, <2>0
      DEF LinkedPart, PlacePart, NoMePc, NoMemory, CloseAgain
<1>9. ASSUME NEW t \in Thread, InitDone(t) PROVE LinkedPart(u)'
  <2>1. me[t] \in Clid /\ PutRefs(me[t], 1)
    BY <1>0, <1>9, Has DEF InitDone, PutRef, MePc, InitHolds
  <2>2. CASE u # t
    <3>1. /\ me'[u] = me[u] /\ pc'[u] = pc[u] /\ me[t] # NoClid
          /\ linked \ {me[t]} \subseteq linked'
      BY <1>0, <1>9, <2>1, <2>2 DEF InitDone, PutRefs, Miss, Failed
    <3> QED BY <1>0, <2>2, <3>1 DEF LinkedPart
  <2>3. CASE u = t /\ pc[t] = "put_ok"
    <3>1. ClientHeld(me[t]) /\ TransportHeld(me[t])
      BY <1>0, <1>b, <2>1, <2>3 DEF ClientHeld, InitHolds
    <3>2. ref_count[me[t]] >= 2
      BY <1>0, <2>1, <3>1, Counted
    <3> QED BY <1>0, <1>9, <2>1, <2>3, <3>2 DEF LinkedPart, PutRefs, InitDone
  <2>4. CASE u = t /\ pc[t] # "put_ok"
    BY <1>0, <1>9, <2>4 DEF LinkedPart, InitDone
  <2> QED BY <2>2, <2>3, <2>4
<1>10. ASSUME NEW t \in Thread, InitNotifier(t) PROVE LinkedPart(u)'
  BY <1>0, <1>10
  DEF LinkedPart, PlacePart, NoMePc, InitNotifier, Alloc
<1>11. ASSUME NEW t \in Thread, ListNotifier(t) PROVE LinkedPart(u)'
  <2>0. note[t] \in Clid
    BY <1>l, <1>11, Has DEF ListNotifier, NotePc
  <2> QED BY <1>0, <1>11, <2>0
      DEF LinkedPart, PlacePart, NoMePc, ListNotifier
<1>12. ASSUME NEW t \in Thread, LookupNotifier(t) PROVE LinkedPart(u)'
  <2>0. note[t] \in Clid
    BY <1>l, <1>12, Has DEF LookupNotifier, NotePc
  <2> QED BY <1>0, <1>12, <2>0
      DEF LinkedPart, PlacePart, NoMePc, LookupNotifier
<1>13. ASSUME NEW t \in Thread, ClearSignal(t) PROVE LinkedPart(u)'
  BY <1>0, <1>13
  DEF LinkedPart, PlacePart, NoMePc, ClearSignal
<1>14. ASSUME NEW t \in Thread, Wait(t) PROVE LinkedPart(u)'
  BY <1>0, <1>14
  DEF LinkedPart, PlacePart, NoMePc, Wait
<1>15. ASSUME NEW t \in Thread, ReleaseNotifier(t) PROVE LinkedPart(u)'
  <2>0. note[t] \in Clid
    BY <1>l, <1>15, Has DEF ReleaseNotifier, NotePc
  <2> QED BY <1>0, <1>15, <2>0
      DEF LinkedPart, PlacePart, NoMePc, ReleaseNotifier, GetRef
<1>16. ASSUME NEW t \in Thread, CloseNotifier(t) PROVE LinkedPart(u)'
  <2>1. /\ note[t] \in Clid /\ note[t] # NoClid
        /\ linked \ {note[t]} \subseteq linked'
        /\ UNCHANGED me
        /\ pc'[u] \in GivenPc => pc[u] \in GivenPc
        /\ pc'[u] = "relook" => pc[u] = "relook"
    BY <1>0, <1>16, Has DEF CloseNotifier, PutRef, PutRefs, NotePc
  <2> QED BY <1>0, <2>1 DEF LinkedPart
<1>17. ASSUME NEW t \in Thread, NotifierGone(t) PROVE LinkedPart(u)'
  <2>1. /\ note[t] \in Clid /\ note[t] # NoClid
        /\ linked \ {note[t]} \subseteq linked'
        /\ UNCHANGED me
        /\ pc'[u] \in GivenPc => pc[u] \in GivenPc
        /\ pc'[u] = "relook" => pc[u] = "relook"
    BY <1>0, <1>17, Has DEF NotifierGone, PutRef, PutRefs, NotePc
  <2> QED BY <1>0, <2>1 DEF LinkedPart
<1>18. ASSUME NEW t \in Thread, Timeout(t) PROVE LinkedPart(u)'
  BY <1>0, <1>18
  DEF LinkedPart, PlacePart, NoMePc, Timeout
<1>19. ASSUME NEW t \in Thread, ReleaseClient(t) PROVE LinkedPart(u)'
  <2>0. me[t] \in Clid
    BY <1>l, <1>19, Has DEF ReleaseClient, MePc, InitHolds, OwnPc
  <2> QED BY <1>0, <1>19, <2>0
      DEF LinkedPart, PlacePart, NoMePc, ReleaseClient, GetRef
<1>20. ASSUME NEW t \in Thread, StopSending(t) PROVE LinkedPart(u)'
  <2>0. me[t] \in Clid
    BY <1>l, <1>20, Has DEF StopSending, MePc, InitHolds, OwnPc
  <2> QED BY <1>0, <1>20, <2>0
      DEF LinkedPart, PlacePart, NoMePc, StopSending
<1>21. ASSUME NEW t \in Thread, CloseClient(t) PROVE LinkedPart(u)'
  <2>0. me[t] \in Clid
    BY <1>l, <1>21, Has DEF CloseClient, MePc, InitHolds, OwnPc
  <2> QED BY <1>0, <1>21, <2>0
      DEF LinkedPart, PlacePart, NoMePc, CloseClient
<1>22. ASSUME NEW t \in Thread, PutReleased(t) PROVE LinkedPart(u)'
  <2>1. /\ me[t] \in Clid /\ me[t] # NoClid
        /\ linked \ {me[t]} \subseteq linked'
        /\ UNCHANGED me
        /\ pc'[u] \in GivenPc \cup {"relook"} => u # t /\ pc'[u] = pc[u]
    BY <1>0, <1>22, Has DEF PutReleased, PutRef, PutRefs, MePc, OwnPc
  <2> QED BY <1>0, <2>1 DEF LinkedPart
<1>23. ASSUME NEW t \in Thread, Released(t) PROVE LinkedPart(u)'
  <2>0. me[t] \in Clid
    BY <1>l, <1>23, Has DEF Released, MePc, InitHolds, OwnPc
  <2> QED BY <1>0, <1>23, <2>0
      DEF LinkedPart, PlacePart, NoMePc, Released
<1>24. ASSUME NEW t \in Thread, EnterCall(t) PROVE LinkedPart(u)'
  <2>0. me[t] \in Clid
    BY <1>l, <1>24, Has DEF EnterCall, MePc, InitHolds, OwnPc
  <2> QED BY <1>0, <1>24, <2>0
      DEF LinkedPart, PlacePart, NoMePc, EnterCall, GetRef
<1>25. ASSUME NEW c \in Clid, StartSend(c) PROVE LinkedPart(u)'
  BY <1>0, <1>25
  DEF LinkedPart, PlacePart, NoMePc, StartSend
<1>26. ASSUME NEW c \in Clid, EndSend(c) PROVE LinkedPart(u)'
  BY <1>0, <1>26
  DEF LinkedPart, PlacePart, NoMePc, EndSend
<1>27. ASSUME NEW c \in Clid, LeaveCall(c) PROVE LinkedPart(u)'
  <2>1. /\ PutRefs(c, 1) /\ call[c] # "none" /\ UNCHANGED <<me, pc>>
    BY <1>27 DEF LeaveCall, PutRef
  <2>2. CASE me[u] = c /\ pc[u] \in GivenPc
    <3>1. ref_count[c] >= 2
      <4>1. TransportHeld(c) /\ RefPart(c)
        BY <1>0, <1>b, <2>2 DEF LifeInv, References
      <4> QED BY <1>0, <2>1, <4>1 DEF RefPart, One
    <3> QED BY <1>0, <2>1, <3>1 DEF LinkedPart, PutRefs
  <2>3. CASE me[u] = c /\ pc[u] = "relook"
    <3>1. ref_count[c] >= 2
      <4>1. ClientHeld(c) /\ RefPart(c)
        BY <1>0, <2>3 DEF LifeInv, References, ClientHeld, InitHolds
      <4> QED BY <1>0, <2>1, <4>1 DEF RefPart, One
    <3> QED BY <1>0, <2>1, <3>1 DEF LinkedPart, PutRefs
  <2>4. CASE me[u] # c \/ pc[u] \notin GivenPc \cup {"relook"}
    BY <1>0, <2>1, <2>4 DEF LinkedPart, PutRefs
  <2> QED BY <2>2, <2>3, <2>4
<1>28. ASSUME NEW c \in Clid, DataReset(c) PROVE LinkedPart(u)'
  BY <1>0, <1>28
  DEF LinkedPart, PlacePart, NoMePc, DataReset
<1>29. ASSUME NEW c \in Clid, DataClose(c) PROVE LinkedPart(u)'
  BY <1>0, <1>29
  DEF LinkedPart, PlacePart, NoMePc, DataClose
<1>30. ASSUME NEW c \in Clid, DataRelease(c) PROVE LinkedPart(u)'
  <2>1. /\ PutRefs(c, 1) /\ data[c] = "closing" /\ UNCHANGED <<me, pc>>
    BY <1>30 DEF DataRelease, PutRef
  <2>2. CASE me[u] = c
    <3>1. pc[u] \notin GivenPc \cup {"relook"}
      BY <1>0, <2>1, <2>2, Kinds DEF ClientPart, OpenPc
    <3> QED BY <2>1, <3>1 DEF LinkedPart
  <2>3. CASE me[u] # c
    BY <1>0, <2>1, <2>3 DEF LinkedPart, PutRefs
  <2> QED BY <2>2, <2>3
<1>31. ASSUME CtlRead PROVE LinkedPart(u)'
  BY <1>0, <1>31
  DEF LinkedPart, PlacePart, NoMePc, CtlRead
<1>32. ASSUME CtlDone PROVE LinkedPart(u)'
  BY <1>0, <1>32
  DEF LinkedPart, PlacePart, NoMePc, CtlDone
<1>33. ASSUME NEW c \in Clid, CtlNotify(c) PROVE LinkedPart(u)'
  BY <1>0, <1>33
  DEF LinkedPart, PlacePart, NoMePc, CtlNotify
<1>34. ASSUME NEW c \in Clid, CtlReset(c) PROVE LinkedPart(u)'
  BY <1>0, <1>34
  DEF LinkedPart, PlacePart, NoMePc, CtlReset
<1>35. ASSUME NEW s \in Server, ServerUp(s) PROVE LinkedPart(u)'
  BY <1>0, <1>35
  DEF LinkedPart, PlacePart, NoMePc, ServerUp
<1>36. ASSUME NEW s \in Server, ServerDown(s) PROVE LinkedPart(u)'
  BY <1>0, <1>36
  DEF LinkedPart, PlacePart, NoMePc, ServerDown
<1>37. CASE UNCHANGED vars
  BY <1>0, <1>37 DEF LinkedPart, vars
<1> QED
  BY <1>1, <1>2, <1>3, <1>4, <1>5, <1>6, <1>7, <1>8, <1>9, <1>10, <1>11,
     <1>12, <1>13, <1>14, <1>15, <1>16, <1>17, <1>18, <1>19, <1>20, <1>21,
     <1>22, <1>23, <1>24, <1>25, <1>26, <1>27, <1>28, <1>29, <1>30, <1>31,
     <1>32, <1>33, <1>34, <1>35, <1>36, <1>37
  DEF Next, InitInstance, Release, Call, Control, Data, Rest

\* The news of a server's departure pass from the control socket to the control
\* thread, to the wake-up pipe and to the data thread, and are lost nowhere.
LEMMA NewsStep == LossInv /\ [Next]_vars => NewsAll'
<1> SUFFICES ASSUME LossInv, [Next]_vars, NEW u \in Thread
             PROVE  NewsPart(u)'
  BY DEF NewsAll
<1> USE DEF Goto, objects, transport, control, threads, GivenPc
<1>l. LifeInv /\ NewsPart(u) /\ LinkedPart(u)
  BY DEF LossInv, LinkedAll, NewsAll
<1>a. /\ pc \in [Thread -> Pc] /\ me \in [Thread -> Clid \cup {NoClid}]
      /\ category \in [Clid -> {"none", "connected", "dormant", "notifier"}]
      /\ server \in [Clid -> Server] /\ ctl_q \in Seq(Event)
      /\ state \in [Server -> {"new", "up", "down"}]
      /\ pipe \in [Clid -> Seq({"r", "d"})]
      /\ data \in [Clid -> {"none", "poll", "closing", "gone"}]
      /\ \A t \in Thread : t # u /\ me[t] = me[u] => me[u] = NoClid
  BY <1>l DEF LifeInv, TypeOK, ObjectType, TransportType, ControlType,
     ThreadType, WorldType, Distinct
<1>0. /\ pc \in [Thread -> Pc] /\ me \in [Thread -> Clid \cup {NoClid}]
      /\ category \in [Clid -> {"none", "connected", "dormant", "notifier"}]
      /\ server \in [Clid -> Server] /\ ctl_q \in Seq(Event)
      /\ state \in [Server -> {"new", "up", "down"}]
      /\ pipe \in [Clid -> Seq({"r", "d"})]
      /\ data \in [Clid -> {"none", "poll", "closing", "gone"}]
      /\ \A t \in Thread : t # u /\ me[t] = me[u] => me[u] = NoClid
      /\ NewsPart(u)
      /\ next_clid \in Nat \ {0} /\ NoClid \notin Clid /\ NoClid = 0
      /\ Clid \subseteq Nat
      /\ \A t \in Thread : PlacePart(t)
      /\ me[u] # NoClid => me[u] \in Clid /\ me[u] < next_clid
                           /\ category[me[u]] # "notifier"
  BY <1>a, <1>l, Kinds DEF ClientPart
<1>b. me[u] # NoClid /\ pc[u] \in GivenPc =>
         /\ me[u] \in list /\ data[me[u]] = "poll" /\ me[u] \in linked
         /\ "d" \notin Elems(pipe[me[u]])
  BY <1>l, Kinds DEF ClientPart, OpenPc, LinkedPart
<1>1. ASSUME NEW t \in Thread, CountServers(t) PROVE NewsPart(u)'
  <2>1. UNCHANGED <<state, server, category, pipe, ctl_q, ev, todo>>
    BY <1>1 DEF CountServers
  <2>2. me'[u] # NoClid /\ pc'[u] \in GivenPc
          => me'[u] = me[u] /\ pc[u] \in GivenPc
    BY <1>0, <1>1 DEF CountServers, Miss
  <2> QED BY <1>0, <2>1, <2>2 DEF NewsPart
<1>2. ASSUME NEW t \in Thread, LookForInstance(t) PROVE NewsPart(u)'
  <2>1. UNCHANGED <<state, server, category, pipe, ctl_q, ev, todo>>
    BY <1>2 DEF LookForInstance
  <2>2. me'[u] # NoClid /\ pc'[u] \in GivenPc
          => me'[u] = me[u] /\ pc[u] \in GivenPc
    BY <1>0, <1>2 DEF LookForInstance, Miss
  <2> QED BY <1>0, <2>1, <2>2 DEF NewsPart
<1>3. ASSUME NEW t \in Thread, InitClient(t) PROVE NewsPart(u)'
  BY <1>0, <1>3
  DEF NewsPart, InitClient, Alloc
<1>4. ASSUME NEW t \in Thread, OpenClient(t) PROVE NewsPart(u)'
  <2>0. me[t] \in Clid
    BY <1>l, <1>4, Has DEF OpenClient, MePc, InitHolds, OwnPc
  <2> QED BY <1>0, <1>4, <2>0
      DEF NewsPart, OpenClient, PutRefs, Failed
<1>5. ASSUME NEW t \in Thread, ListClient(t) PROVE NewsPart(u)'
  <2>1. UNCHANGED <<state, server, category, pipe, ctl_q, ev, todo>>
    BY <1>5 DEF ListClient
  <2>2. me'[u] # NoClid /\ pc'[u] \in GivenPc
          => me'[u] = me[u] /\ pc[u] \in GivenPc
    BY <1>0, <1>5 DEF ListClient
  <2> QED BY <1>0, <2>1, <2>2 DEF NewsPart
<1>6. ASSUME NEW t \in Thread, LinkClient(t) PROVE NewsPart(u)'
  <2>1. UNCHANGED <<state, server, category, pipe, ctl_q, ev, todo>>
    BY <1>6 DEF LinkClient
  <2>2. me'[u] # NoClid /\ pc'[u] \in GivenPc
          => me'[u] = me[u] /\ pc[u] \in GivenPc
    BY <1>0, <1>6 DEF LinkClient
  <2> QED BY <1>0, <2>1, <2>2 DEF NewsPart
<1>7. ASSUME NEW t \in Thread, Relookup(t) PROVE NewsPart(u)'
  <2>0. me[t] \in Clid /\ me[t] # NoClid
    BY <1>0, <1>l, <1>7, Has DEF Relookup, MePc, InitHolds
  <2>1. /\ UNCHANGED <<state, server, category, ctl_q, ev, todo, me>>
        /\ \A c \in Clid : c # me[t] => pipe'[c] = pipe[c]
    BY <1>0, <1>7, <2>0 DEF Relookup, CloseAgain
  <2>2. CASE u = t
    <3>1. server[me[t]] = found[t]
      BY <1>l, <1>7, <2>0, Kinds DEF ClientPart, Relookup
    <3>2. pc'[t] \in GivenPc => state[server[me[t]]] = "up"
      BY <1>0, <1>7, <3>1 DEF Relookup, CloseAgain, Up
    <3> QED BY <1>0, <2>1, <2>2, <3>2 DEF NewsPart
  <2>3. CASE u # t
    <3>1. pc'[u] = pc[u] /\ (me[u] # NoClid => me[u] # me[t])
      BY <1>0, <1>7, <2>0, <2>3 DEF Relookup, CloseAgain
    <3> QED BY <1>0, <2>1, <3>1 DEF NewsPart
  <2> QED BY <2>2, <2>3
<1>8. ASSUME NEW t \in Thread, NoMemory(t) PROVE NewsPart(u)'
  <2>0. me[t] \in Clid
    BY <1>l, <1>8, Has DEF NoMemory, MePc, InitHolds, OwnPc
  <2> QED BY <1>0, <1>8, <2>0
      DEF NewsPart, NoMemory, CloseAgain
<1>9. ASSUME NEW t \in Thread, InitDone(t) PROVE NewsPart(u)'
  <2>0. me[t] \in Clid
    BY <1>l, <1>9, Has DEF InitDone, MePc, InitHolds, OwnPc
  <2> QED BY <1>0, <1>9, <2>0
      DEF NewsPart, InitDone, PutRef, PutRefs, Miss, Failed
<1>10. ASSUME NEW t \in Thread, InitNotifier(t) PROVE NewsPart(u)'
  BY <1>0, <1>10
  DEF NewsPart, InitNotifier, Alloc
<1>11. ASSUME NEW t \in Thread, ListNotifier(t) PROVE NewsPart(u)'
  <2>1. UNCHANGED <<state, server, category, pipe, ctl_q, ev, todo>>
    BY <1>11 DEF ListNotifier
  <2>2. me'[u] # NoClid /\ pc'[u] \in GivenPc
          => me'[u] = me[u] /\ pc[u] \in GivenPc
    BY <1>0, <1>11 DEF ListNotifier
  <2> QED BY <1>0, <2>1, <2>2 DEF NewsPart
<1>12. ASSUME NEW t \in Thread, LookupNotifier(t) PROVE NewsPart(u)'
  <2>1. UNCHANGED <<state, server, category, pipe, ctl_q, ev, todo>>
    BY <1>12 DEF LookupNotifier
  <2>2. me'[u] # NoClid /\ pc'[u] \in GivenPc
          => me'[u] = me[u] /\ pc[u] \in GivenPc
    BY <1>0, <1>12 DEF LookupNotifier
  <2> QED BY <1>0, <2>1, <2>2 DEF NewsPart
<1>13. ASSUME NEW t \in Thread, ClearSignal(t) PROVE NewsPart(u)'
  <2>1. UNCHANGED <<state, server, category, pipe, ctl_q, ev, todo>>
    BY <1>13 DEF ClearSignal
  <2>2. me'[u] # NoClid /\ pc'[u] \in GivenPc
          => me'[u] = me[u] /\ pc[u] \in GivenPc
    BY <1>0, <1>13 DEF ClearSignal
  <2> QED BY <1>0, <2>1, <2>2 DEF NewsPart
<1>14. ASSUME NEW t \in Thread, Wait(t) PROVE NewsPart(u)'
  <2>1. UNCHANGED <<state, server, category, pipe, ctl_q, ev, todo>>
    BY <1>14 DEF Wait
  <2>2. me'[u] # NoClid /\ pc'[u] \in GivenPc
          => me'[u] = me[u] /\ pc[u] \in GivenPc
    BY <1>0, <1>14 DEF Wait
  <2> QED BY <1>0, <2>1, <2>2 DEF NewsPart
<1>15. ASSUME NEW t \in Thread, ReleaseNotifier(t) PROVE NewsPart(u)'
  <2>1. UNCHANGED <<state, server, category, pipe, ctl_q, ev, todo>>
    BY <1>15 DEF ReleaseNotifier
  <2>2. me'[u] # NoClid /\ pc'[u] \in GivenPc
          => me'[u] = me[u] /\ pc[u] \in GivenPc
    BY <1>0, <1>15 DEF ReleaseNotifier
  <2> QED BY <1>0, <2>1, <2>2 DEF NewsPart
<1>16. ASSUME NEW t \in Thread, CloseNotifier(t) PROVE NewsPart(u)'
  <2>1. UNCHANGED <<state, server, category, pipe, ctl_q, ev, todo>>
    BY <1>16 DEF CloseNotifier
  <2>2. me'[u] # NoClid /\ pc'[u] \in GivenPc
          => me'[u] = me[u] /\ pc[u] \in GivenPc
    BY <1>0, <1>16 DEF CloseNotifier
  <2> QED BY <1>0, <2>1, <2>2 DEF NewsPart
<1>17. ASSUME NEW t \in Thread, NotifierGone(t) PROVE NewsPart(u)'
  <2>1. UNCHANGED <<state, server, category, pipe, ctl_q, ev, todo>>
    BY <1>17 DEF NotifierGone
  <2>2. me'[u] # NoClid /\ pc'[u] \in GivenPc
          => me'[u] = me[u] /\ pc[u] \in GivenPc
    BY <1>0, <1>17 DEF NotifierGone
  <2> QED BY <1>0, <2>1, <2>2 DEF NewsPart
<1>18. ASSUME NEW t \in Thread, Timeout(t) PROVE NewsPart(u)'
  <2>1. UNCHANGED <<state, server, category, pipe, ctl_q, ev, todo>>
    BY <1>18 DEF Timeout
  <2>2. me'[u] # NoClid /\ pc'[u] \in GivenPc
          => me'[u] = me[u] /\ pc[u] \in GivenPc
    BY <1>0, <1>18 DEF Timeout, PlacePart, NoMePc
  <2> QED BY <1>0, <2>1, <2>2 DEF NewsPart
<1>19. ASSUME NEW t \in Thread, ReleaseClient(t) PROVE NewsPart(u)'
  <2>1. UNCHANGED <<state, server, category, pipe, ctl_q, ev, todo>>
    BY <1>19 DEF ReleaseClient
  <2>2. me'[u] # NoClid /\ pc'[u] \in GivenPc
          => me'[u] = me[u] /\ pc[u] \in GivenPc
    BY <1>0, <1>19 DEF ReleaseClient
  <2> QED BY <1>0, <2>1, <2>2 DEF NewsPart
<1>20. ASSUME NEW t \in Thread, StopSending(t) PROVE NewsPart(u)'
  <2>1. UNCHANGED <<state, server, category, pipe, ctl_q, ev, todo>>
    BY <1>20 DEF StopSending
  <2>2. me'[u] # NoClid /\ pc'[u] \in GivenPc
          => me'[u] = me[u] /\ pc[u] \in GivenPc
    BY <1>0, <1>20 DEF StopSending
  <2> QED BY <1>0, <2>1, <2>2 DEF NewsPart
<1>21. ASSUME NEW t \in Thread, CloseClient(t) PROVE NewsPart(u)'
  <2>0. me[t] \in Clid
    BY <1>l, <1>21, Has DEF CloseClient, MePc, InitHolds, OwnPc
  <2> QED BY <1>0, <1>21, <2>0
      DEF NewsPart, CloseClient
<1>22. ASSUME NEW t \in Thread, PutReleased(t) PROVE NewsPart(u)'
  <2>1. UNCHANGED <<state, server, category, pipe, ctl_q, ev, todo>>
    BY <1>22 DEF PutReleased
  <2>2. me'[u] # NoClid /\ pc'[u] \in GivenPc
          => me'[u] = me[u] /\ pc[u] \in GivenPc
    BY <1>0, <1>22 DEF PutReleased
  <2> QED BY <1>0, <2>1, <2>2 DEF NewsPart
<1>23. ASSUME NEW t \in Thread, Released(t) PROVE NewsPart(u)'
  <2>1. UNCHANGED <<state, server, category, pipe, ctl_q, ev, todo>>
    BY <1>23 DEF Released
  <2>2. me'[u] # NoClid /\ pc'[u] \in GivenPc
          => me'[u] = me[u] /\ pc[u] \in GivenPc
    BY <1>0, <1>23 DEF Released
  <2> QED BY <1>0, <2>1, <2>2 DEF NewsPart
<1>24. ASSUME NEW t \in Thread, EnterCall(t) PROVE NewsPart(u)'
  <2>1. UNCHANGED <<state, server, category, pipe, ctl_q, ev, todo>>
    BY <1>24 DEF EnterCall
  <2>2. me'[u] # NoClid /\ pc'[u] \in GivenPc
          => me'[u] = me[u] /\ pc[u] \in GivenPc
    BY <1>0, <1>24 DEF EnterCall
  <2> QED BY <1>0, <2>1, <2>2 DEF NewsPart
<1>25. ASSUME NEW c \in Clid, StartSend(c) PROVE NewsPart(u)'
  BY <1>0, <1>25
  DEF NewsPart, StartSend
<1>26. ASSUME NEW c \in Clid, EndSend(c) PROVE NewsPart(u)'
  BY <1>0, <1>26
  DEF NewsPart, EndSend
<1>27. ASSUME NEW c \in Clid, LeaveCall(c) PROVE NewsPart(u)'
  BY <1>0, <1>27
  DEF NewsPart, LeaveCall, PutRef, PutRefs
<1>28. ASSUME NEW c \in Clid, DataReset(c) PROVE NewsPart(u)'
  <2>1. /\ pipe' = [pipe EXCEPT ![c] = Tail(@)]
        /\ category[c] = "connected" /\ c \in linked
             => category' = [category EXCEPT ![c] = "dormant"]
        /\ category' = category \/ category' = [category EXCEPT ![c] = "dormant"]
        /\ UNCHANGED <<server, ctl_q, ev, todo, me, pc, state>>
    BY <1>28 DEF DataReset
  <2>2. CASE me[u] = c
    BY <1>0, <1>b, <2>1, <2>2 DEF NewsPart
  <2>3. CASE me[u] # c
    BY <1>0, <2>1, <2>3 DEF NewsPart
  <2> QED BY <2>2, <2>3
<1>29. ASSUME NEW c \in Clid, DataClose(c) PROVE NewsPart(u)'
  <2>1. /\ pipe' = [pipe EXCEPT ![c] = <<>>]
        /\ UNCHANGED <<server, category, ctl_q, ev, todo, me, pc, state>>
        /\ "d" \in Elems(pipe[c])
    BY <1>0, <1>29, ElemsTail DEF DataClose
  <2> QED BY <1>0, <1>b, <2>1 DEF NewsPart
<1>30. ASSUME NEW c \in Clid, DataRelease(c) PROVE NewsPart(u)'
  BY <1>0, <1>30
  DEF NewsPart, DataRelease, PutRef, PutRefs
<1>31. ASSUME CtlRead PROVE NewsPart(u)'
  <2>1. /\ ctl_q # <<>> /\ ev' = Head(ctl_q) /\ ctl_q' = Tail(ctl_q)
        /\ todo' = Concerned(ev') /\ UNCHANGED <<objects, pipe, me, pc, state>>
    BY <1>31 DEF CtlRead
  <2>2. todo = {}
    BY <1>l, <1>31 DEF LifeInv, Idle, CtlRead
  <2>3. Elems(ctl_q) = {ev'} \cup Elems(ctl_q')
    BY <1>0, <2>1, ElemsTail
  <2>4. ASSUME ev' = <<"del", server[me[u]]>>, me[u] # NoClid, pc[u] \in GivenPc
        PROVE  me[u] \in todo'
    <3>1. ev'[1] = "del" /\ ev'[2] = server[me[u]]
      BY <2>4
    <3> QED BY <1>b, <2>1, <2>4, <3>1 DEF Concerned
  <2> QED BY <2>1, <2>2, <2>3, <2>4, <1>0 DEF NewsPart
<1>32. ASSUME CtlDone PROVE NewsPart(u)'
  BY <1>0, <1>32
  DEF NewsPart, CtlDone
<1>33. ASSUME NEW c \in Clid, CtlNotify(c) PROVE NewsPart(u)'
  <2>1. /\ todo' = todo \ {c}
        /\ ev[1] = "new" \/ category[c] = "notifier"
        /\ UNCHANGED <<objects, pipe, ctl_q, ev, me, pc, state>>
    BY <1>33 DEF CtlNotify, IsNotifier
  <2>2. ASSUME ev = <<"del", server[me[u]]>>, me[u] # NoClid
        PROVE  me[u] # c
    <3>1. ev[1] = "del"
      BY <2>2
    <3> QED BY <1>0, <2>1, <2>2, <3>1
  <2> QED BY <1>0, <2>1, <2>2 DEF NewsPart
<1>34. ASSUME NEW c \in Clid, CtlReset(c) PROVE NewsPart(u)'
  <2>1. /\ todo' = todo \ {c}
        /\ pipe' = IF data[c] = "poll" THEN [pipe EXCEPT ![c] = Append(@, "r")]
                   ELSE pipe
        /\ UNCHANGED <<objects, ctl_q, ev, me, pc, state>>
    BY <1>34 DEF CtlReset
  <2>2. CASE me[u] = c
    <3>1. "r" \in Elems(Append(pipe[c], "r"))
      BY <1>0, ElemsAppend
    <3> QED BY <1>0, <1>b, <2>1, <2>2, <3>1 DEF NewsPart
  <2>3. CASE me[u] # c
    BY <1>0, <2>1, <2>3 DEF NewsPart
  <2> QED BY <2>2, <2>3
<1>35. ASSUME NEW s \in Server, ServerUp(s) PROVE NewsPart(u)'
  <2>1. <<"new", s>> \in Event
    BY DEF Event
  <2>2. /\ Elems(ctl_q') = Elems(ctl_q) \cup {<<"new", s>>}
        /\ state' = [state EXCEPT ![s] = "up"]
        /\ UNCHANGED <<server, category, pipe, ev, todo, me, pc>>
    BY <1>0, <1>35, <2>1, ElemsAppend DEF ServerUp
  <2>3. me[u] # NoClid => server[me[u]] \in Server
    BY <1>0
  <2> QED BY <1>0, <2>2, <2>3 DEF NewsPart
<1>36. ASSUME NEW s \in Server, ServerDown(s) PROVE NewsPart(u)'
  <2>1. <<"del", s>> \in Event
    BY DEF Event
  <2>2. /\ Elems(ctl_q') = Elems(ctl_q) \cup {<<"del", s>>}
        /\ state' = [state EXCEPT ![s] = "down"]
        /\ UNCHANGED <<server, category, pipe, ev, todo, me, pc>>
    BY <1>0, <1>36, <2>1, ElemsAppend DEF ServerDown
  <2>3. me[u] # NoClid => server[me[u]] \in Server
    BY <1>0
  <2> QED BY <1>0, <2>2, <2>3 DEF NewsPart
<1>37. CASE UNCHANGED vars
  BY <1>0, <1>37 DEF NewsPart, vars
<1> QED
  BY <1>1, <1>2, <1>3, <1>4, <1>5, <1>6, <1>7, <1>8, <1>9, <1>10, <1>11,
     <1>12, <1>13, <1>14, <1>15, <1>16, <1>17, <1>18, <1>19, <1>20, <1>21,
     <1>22, <1>23, <1>24, <1>25, <1>26, <1>27, <1>28, <1>29, <1>30, <1>31,
     <1>32, <1>33, <1>34, <1>35, <1>36, <1>37
  DEF Next, InitInstance, Release, Call, Control, Data, Rest

\* Every step keeps what the news rest on.
LEMMA LossNext == LossInv /\ [Next]_vars => LossInv'
BY LifeNext, LinkedStep, NewsStep DEF LossInv

\* A client that qmi_client_init has given to its user and whose server is gone
\* is dormant, or the news is on the way to its data thread, whatever threads,
\* servers and lookups there are.
THEOREM LossKnown == Spec => []LossReaches
<1>1. Init => LossInv
  <2> SUFFICES ASSUME Init PROVE LossInv
    OBVIOUS
  <2>1. \A t \in Thread : me[t] = NoClid
    BY DEF Init
  <2> QED BY <2>1, LifeInit DEF LossInv, LinkedAll, LinkedPart, NewsAll, NewsPart
<1>2. LossInv => LossReaches
  BY DEF LossInv, NewsAll, NewsPart, GivenPc, LossReaches
<1> QED BY <1>1, <1>2, LossNext, PTL DEF Spec

------------------------------------------------------------------------------
(* Waiting for a service.                                                  *)

\* The notifier's signal is set, or the control thread will set it.
Told(t) == sig[t] \/ ctl_q # <<>> \/ note[t] \in todo

\* A thread that has a notifier and comes to wait, on whatever way, has not
\* overlooked a server: the number it asked for is not smaller than that of the
\* servers there are, the server it tries is there, or its notifier was told of
\* a change.
WakePart(t) ==
  note[t] # NoClid =>
    /\ pc[t] = "look" => Cardinality(Up) <= cnt[t] \/ Told(t)
    /\ pc[t] \in {"alloc", "open", "list", "link", "relook"}
         => found[t] \in Up \/ Told(t)
    /\ pc[t] = "put_err" => Told(t)
    /\ pc[t] = "wait" => Wanted \cap Up = {} \/ Told(t)

WakeAll == \A t \in Thread : WakePart(t)
WakeInv == LifeInv /\ WakeAll

\* The states of a thread that go with WakePart.
SeekPc == {"look", "alloc", "open", "list", "link", "relook", "put_err", "wait"}

\* Servers come and go with an event.
LEMMA UpKept == LifeInv /\ [Next]_vars => Up' = Up \/ ctl_q' # <<>>
<1> SUFFICES ASSUME LifeInv, [Next]_vars, state' # state PROVE ctl_q' # <<>>
  BY DEF Up
<1>1. ctl_q \in Seq(Event)
  BY DEF LifeInv, TypeOK, ControlType
<1>2. PICK s \in Server : ServerUp(s) \/ ServerDown(s)
  BY DEF Next, InitInstance, Release, Call, Control, Data, Rest, vars,
     CountServers, LookForInstance, InitClient, OpenClient, ListClient,
     LinkClient, Relookup, NoMemory, InitDone, InitNotifier, ListNotifier,
     LookupNotifier, ClearSignal, Wait, Timeout, ReleaseNotifier,
     CloseNotifier, NotifierGone, ReleaseClient, StopSending, CloseClient,
     PutReleased, Released, EnterCall, StartSend, EndSend, LeaveCall,
     DataReset, DataClose, DataRelease, CtlRead, CtlDone, CtlNotify, CtlReset
<1>3. PICK e \in Event : ctl_q' = Append(ctl_q, e)
  BY <1>2 DEF ServerUp, ServerDown, Event
<1> QED BY <1>1, <1>3

\* What a thread has and where it stands is its own business.
Stays(u) == /\ pc'[u] = pc[u] /\ note'[u] = note[u]
            /\ found'[u] = found[u] /\ cnt'[u] = cnt[u]

\* A thread's own state changes only in its own wait, time-out, retry or
\* release.
LEMMA OwnStep ==
  ASSUME LifeInv, [Next]_vars, NEW u \in Thread
  PROVE  \/ Stays(u) \/ InitInstance(u) \/ Timeout(u)
         \/ ReleaseClient(u) \/ Release(u)
<1> USE DEF Goto, threads, Stays
<1>1. ASSUME NEW t \in Thread, t # u,
             InitInstance(t) \/ Timeout(t) \/ ReleaseClient(t) \/ Release(t)
      PROVE  Stays(u)
  BY <1>1 DEF LifeInv, TypeOK, ThreadType, InitInstance, Release, CountServers,
     LookForInstance, InitClient, OpenClient, ListClient, LinkClient, Relookup,
     NoMemory, InitDone, InitNotifier, ListNotifier, LookupNotifier,
     ClearSignal, Wait, Timeout, ReleaseNotifier, CloseNotifier, NotifierGone,
     ReleaseClient, StopSending, CloseClient, PutReleased, Released, Miss,
     Failed, CloseAgain
<1>2. ASSUME NEW c \in Clid, Call(c) \/ Data(c) PROVE Stays(u)
  BY <1>2 DEF Call, Data, StartSend, EndSend, LeaveCall, DataReset, DataClose,
     DataRelease
<1>3. ASSUME Control PROVE Stays(u)
  BY <1>3 DEF Control, CtlRead, CtlDone, CtlNotify, CtlReset
<1>4. ASSUME NEW s \in Server, ServerUp(s) \/ ServerDown(s) PROVE Stays(u)
  BY <1>4 DEF ServerUp, ServerDown
<1>5. ASSUME NEW t \in Thread, EnterCall(t) PROVE Stays(u)
  BY <1>5 DEF EnterCall
<1>6. ASSUME UNCHANGED vars PROVE Stays(u)
  BY <1>6 DEF vars
<1> QED BY <1>1, <1>2, <1>3, <1>4, <1>5, <1>6 DEF Next, Rest

\* What a notifier was told is not lost before its thread clears the signal.
LEMMA ToldKept ==
  ASSUME LifeInv, [Next]_vars, NEW u \in Thread, note[u] # NoClid,
         note'[u] = note[u], pc[u] \in SeekPc, Told(u)
  PROVE  Told(u)'
<1> USE DEF Goto, objects, transport, control, threads
<1>0. /\ sig \in [Thread -> BOOLEAN] /\ ctl_q \in Seq(Event)
      /\ note \in [Thread -> Clid \cup {NoClid}]
      /\ note[u] \in list /\ IsNotifier(note[u])
      /\ pc[u] \notin {"clear"}
  BY Kinds DEF LifeInv, TypeOK, FlagType, ControlType, ThreadType, NotePart,
     SeekPc, IsNotifier
<1>1. CASE CtlRead
  <2>1. ev' = Head(ctl_q) /\ todo' = Concerned(ev') /\ UNCHANGED <<list, category>>
    BY <1>1 DEF CtlRead
  <2>2. note[u] \in todo'
    BY <1>0, <2>1 DEF Concerned
  <2> QED BY <2>2 DEF Told
<1>2. CASE \E c \in Clid : CtlNotify(c) \/ CtlReset(c)
  <2>1. PICK c \in Clid : CtlNotify(c) \/ CtlReset(c)
    BY <1>2
  <2>2. CASE CtlNotify(c)
    BY <1>0, <2>2 DEF CtlNotify, Told
  <2>3. CASE CtlReset(c)
    BY <1>0, <2>3 DEF CtlReset, Told
  <2> QED BY <2>1, <2>2, <2>3
<1>3. CASE \E s \in Server : ServerUp(s) \/ ServerDown(s)
  <2>1. \A e : Append(ctl_q, e) # <<>>
    BY <1>0
  <2> QED BY <1>3, <2>1 DEF ServerUp, ServerDown, Told
<1>4. CASE \E t \in Thread : LookupNotifier(t)
  BY <1>0, <1>4 DEF LookupNotifier, Told
<1>5. CASE \E t \in Thread : ClearSignal(t)
  <2>1. PICK t \in Thread : ClearSignal(t)
    BY <1>5
  <2>2. t # u
    BY <1>0, <2>1 DEF ClearSignal
  <2> QED BY <1>0, <2>1, <2>2 DEF ClearSignal, Told
<1>6. CASE UNCHANGED <<sig, ctl_q, todo>>
  BY <1>6 DEF Told
<1> QED
  BY <1>1, <1>2, <1>3, <1>4, <1>5, <1>6
  DEF Next, InitInstance, Release, Call, Control, Data, Rest, vars,
     CountServers, LookForInstance, InitClient, OpenClient, ListClient,
     LinkClient, Relookup, NoMemory, InitDone, InitNotifier, ListNotifier,
     Wait, Timeout, ReleaseNotifier,
     CloseNotifier, NotifierGone, ReleaseClient, StopSending, CloseClient,
     PutReleased, Released, EnterCall, StartSend, EndSend, LeaveCall,
     DataReset, DataClose, DataRelease, CtlDone

\* A list with room for all the servers there are holds them all.
LEMMA AllListed ==
  ASSUME LifeInv, NEW t \in Thread, Cardinality(Up) <= cnt[t],
         NEW seen \in Listed(t)
  PROVE  seen = Up
<1>1. IsFiniteSet(Up) /\ seen \subseteq Up
  BY ServerAssumption, FS_Subset DEF Up, Listed
<1>2. cnt[t] \in Nat /\ IsFiniteSet(seen) /\ Cardinality(Up) \in Nat
  BY <1>1, FS_Subset, FS_CardinalityType, ServerAssumption
  DEF LifeInv, TypeOK, ThreadType
<1>3. CASE seen # Up
  <2>1. /\ Cardinality(seen) <= Cardinality(Up)
        /\ Cardinality(seen) = Cardinality(Up) => seen = Up
    BY <1>1, FS_Subset
  <2>2. Cardinality(seen) = cnt[t]
    BY <1>3 DEF Listed
  <2> QED BY <1>2, <2>1, <2>2
<1> QED BY <1>3

\* Every step keeps it: of the others' steps only those that bring or take a
\* server matter, and these are told.
LEMMA WakeStep == WakeInv /\ [Next]_vars => WakeAll'
<1> SUFFICES ASSUME WakeInv, [Next]_vars, NEW u \in Thread
             PROVE  WakePart(u)'
  BY DEF WakeAll
<1> USE DEF Goto, objects, transport, control, threads, SeekPc
<1>0. /\ LifeInv /\ WakePart(u)
      /\ pc \in [Thread -> Pc] /\ note \in [Thread -> Clid \cup {NoClid}]
      /\ found \in [Thread -> Server]
      /\ cnt \in [Thread -> 0..Cardinality(Server)]
      /\ PlacePart(u)
  BY Kinds DEF WakeInv, WakeAll, LifeInv, TypeOK, ThreadType
<1>1. Up' = Up \/ Told(u)'
  BY <1>0, UpKept DEF Told
<1>2. ASSUME note[u] # NoClid, note'[u] = note[u], pc[u] \in SeekPc, Told(u)
      PROVE  Told(u)'
  BY <1>0, <1>2, ToldKept
<1>3. CASE Stays(u)
  BY <1>0, <1>1, <1>2, <1>3 DEF WakePart, Stays
<1>4. CASE CountServers(u)
  <2>1. UNCHANGED Up /\ note' = note
    BY <1>4 DEF CountServers, Up
  <2>2. CASE Up = {}
    BY <1>0, <1>4, <2>1, <2>2 DEF CountServers, Miss, WakePart
  <2>3. CASE Up # {}
    <3>1. Cardinality(Up) \in Nat
      BY ServerAssumption, FS_Subset, FS_CardinalityType DEF Up
    <3>2. pc'[u] = "look" /\ cnt'[u] = Cardinality(Up)
      BY <1>0, <1>4, <2>3 DEF CountServers
    <3> QED BY <2>1, <3>1, <3>2 DEF WakePart
  <2> QED BY <2>2, <2>3
<1>5. CASE LookForInstance(u)
  <2>1. PICK seen \in Listed(u) :
          IF seen \cap Wanted = {} THEN Miss(u) /\ UNCHANGED found
          ELSE /\ Goto(u, "alloc")
               /\ \E s \in seen \cap Wanted : found' = [found EXCEPT ![u] = s]
    BY <1>5 DEF LookForInstance
  <2>2. pc[u] = "look" /\ UNCHANGED <<note, cnt, state>> /\ UNCHANGED Up
    BY <1>5 DEF LookForInstance, Up
  <2>3. CASE seen \cap Wanted = {}
    <3>1. note[u] # NoClid => Wanted \cap Up = {} \/ Told(u)
      BY <1>0, <2>2, <2>3, AllListed DEF WakePart
    <3>2. pc'[u] = IF note[u] = NoClid THEN "nalloc" ELSE "wait"
      BY <1>0, <2>1, <2>3 DEF Miss
    <3> QED BY <1>2, <2>2, <3>1, <3>2 DEF WakePart
  <2>4. CASE seen \cap Wanted # {}
    <3>1. pc'[u] = "alloc" /\ found'[u] \in Up
      BY <1>0, <2>1, <2>4 DEF Listed
    <3> QED BY <2>2, <3>1 DEF WakePart
  <2> QED BY <2>3, <2>4
<1>6. CASE InitClient(u) \/ ListClient(u) \/ LinkClient(u)
  <2>1. /\ UNCHANGED <<note, found, state, cnt>>
        /\ pc[u] \in {"alloc", "list", "link"}
        /\ pc'[u] \in {"open", "link", "relook"}
    BY <1>0, <1>6 DEF InitClient, ListClient, LinkClient
  <2> QED BY <1>0, <1>1, <1>2, <2>1 DEF WakePart
<1>7. CASE OpenClient(u)
  <2>1. /\ UNCHANGED <<note, found, state, cnt>>
        /\ pc[u] = "open" /\ pc'[u] \in {"list", "failed", "nrel"}
    BY <1>0, <1>7 DEF OpenClient, Failed
  <2> QED BY <1>0, <1>1, <1>2, <2>1 DEF WakePart
<1>8. CASE Relookup(u)
  <2>1. /\ UNCHANGED <<note, found, state, cnt>>
        /\ pc[u] = "relook"
        /\ pc'[u] = IF found[u] \in Up THEN "put_ok" ELSE "put_err"
    BY <1>0, <1>8 DEF Relookup, CloseAgain
  <2> QED BY <1>0, <1>2, <2>1 DEF WakePart
<1>9. CASE InitDone(u)
  <2>1. /\ UNCHANGED <<note, state, cnt>>
        /\ pc'[u] \in {"ready", "nrel", "failed", "nalloc", "wait"}
        /\ pc'[u] = "wait" => pc[u] = "put_err"
    BY <1>0, <1>9 DEF InitDone, Miss, Failed
  <2> QED BY <1>0, <1>2, <2>1 DEF WakePart
<1>10. CASE NoMemory(u) \/ InitNotifier(u) \/ ListNotifier(u)
             \/ LookupNotifier(u) \/ ClearSignal(u) \/ Wait(u) \/ Timeout(u)
             \/ ReleaseNotifier(u) \/ CloseNotifier(u) \/ NotifierGone(u)
             \/ ReleaseClient(u) \/ Release(u)
  <2>1. pc'[u] \notin SeekPc
    BY <1>0, <1>10
    DEF NoMemory, InitNotifier, ListNotifier, LookupNotifier, ClearSignal,
        Wait, Timeout, ReleaseNotifier, CloseNotifier, NotifierGone,
        ReleaseClient, Release, StopSending, CloseClient, PutReleased,
        Released, CloseAgain
  <2> QED BY <2>1 DEF WakePart
<1> QED
  BY <1>0, <1>3, <1>4, <1>5, <1>6, <1>7, <1>8, <1>9, <1>10, OwnStep
  DEF InitInstance

\* Whoever waits for a service that is there will be woken, whatever servers
\* come and go while it looks, and whatever the other threads do: the signal
\* is cleared before the lookup, and the control thread tells every notifier
\* in its list of every change.
THEOREM NoServerMissed == Spec => []NoMissedServer
<1>1. Init => WakeInv
  <2> SUFFICES ASSUME Init PROVE WakeInv
    OBVIOUS
  <2>1. \A t \in Thread : note[t] = NoClid
    BY DEF Init
  <2> QED BY <2>1, LifeInit DEF WakeInv, WakeAll, WakePart
<1>2. WakeInv /\ [Next]_vars => WakeInv'
  BY LifeNext, WakeStep DEF WakeInv
<1>3. WakeInv => NoMissedServer
  <2> SUFFICES ASSUME WakeInv, NEW t \in Thread,
                      pc[t] = "wait" /\ ~sig[t] /\ Wanted \cap Up # {}
               PROVE  ctl_q # <<>> \/ note[t] \in todo
    BY DEF NoMissedServer
  <2>1. note[t] # NoClid /\ WakePart(t)
    BY Kinds DEF WakeInv, WakeAll, PlacePart, NotePc
  <2> QED BY <2>1 DEF WakePart, Told
<1> QED BY <1>1, <1>2, <1>3, PTL DEF Spec

=============================================================================
