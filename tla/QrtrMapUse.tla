----------------------------- MODULE QrtrMapUse -----------------------------
(***************************************************************************)
(* One map of qrtr/src/map.c under the calls ns.c makes: a key is stored   *)
(* when it is absent (node_get; server_add for a port that has no server), *)
(* removed (server_del) or all keys are dropped (map_clear at exit). What  *)
(* storing a present key does is the subject of QrtrNs.                    *)
(***************************************************************************)
EXTENDS QrtrMap

CONSTANTS Key,      \* the keys in use
          Value,    \* what distinguishes two items of a key
          MaxSize   \* bound: no store into a full table of this size

Item == [key : Key, value : Value]

ASSUME KeyAssumption == Key \subseteq Nat /\ NoItem \notin Item

VARIABLE map

Init == map = EmptyMap

Store(k) ==
  /\ MapGet(map, k) = NoItem
  /\ map.count < map.size \/ map.size < MaxSize
  /\ \E v \in Value : map' = MapPut(map, [key |-> k, value |-> v])

Drop(k) == map' = MapRemove(map, k)

DropAll == map' = MapClear(map)

Next == (\E k \in Key : Store(k) \/ Drop(k)) \/ DropAll

Spec == Init /\ [][Next]_map

------------------------------------------------------------------------------
\* count is the number of used slots: map_hash never reports a full table
\* that has room, nor loops over a table that has none.
CountExact == map.count = Cardinality(Used(map)) /\ map.count <= map.size

\* The lookup order is independent of the layout: whatever was removed or
\* rehashed in between, every stored key is found again and only once on a
\* walk.
EachKeyOnce ==
  \A k \in Key :
    Cardinality(SlotsOf(map, k)) = IF MapGet(map, k) = NoItem THEN 0 ELSE 1

Dict == INSTANCE Dictionary WITH dict <- [k \in Key |-> MapGet(map, k)]

\* The map implements a dictionary: a call changes what is found under its own
\* key and under no other, although growing the table moves all items and
\* removals leave holes in the middle of probing sequences.
IsDictionary == Dict!Spec
=============================================================================
