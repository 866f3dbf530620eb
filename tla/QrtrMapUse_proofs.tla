-------------------------- MODULE QrtrMapUse_proofs --------------------------
(***************************************************************************)
(* The map under the calls of the name service is a dictionary, for any    *)
(* keys, values and table sizes.                                           *)
(***************************************************************************)
EXTENDS QrtrMapUse, QrtrMap_proofs

\* The inductive invariant.
MapInv == MapOver(map, Item)

LEMMA ItemKeyed == Keyed(Item)
BY KeyAssumption DEF Keyed, Item

\* What is found under the keys when the items of the map are X.
Lookups(m, X) ==
  \A k \in Key : \/ /\ MapGet(m, k) = NoItem
                    /\ \A x \in X : x.key # k
                 \/ /\ MapGet(m, k) \in X
                    /\ MapGet(m, k).key = k

\* map_get finds the items of the map and no others.
LEMMA GetLookups == ASSUME NEW m, MapOver(m, Item) PROVE Lookups(m, Items(m))
<1> SUFFICES ASSUME NEW k \in Key
             PROVE  \/ MapGet(m, k) = NoItem /\ \A x \in Items(m) : x.key # k
                    \/ MapGet(m, k) \in Items(m) /\ MapGet(m, k).key = k
  BY DEF Lookups
<1>1. k \in Nat
  BY KeyAssumption
<1> QED
  BY <1>1, ItemKeyed, GetFinds

\* A key that is not found is not stored, so a store adds a new key.
LEMMA AbsentMeans ==
  ASSUME NEW m, MapOver(m, Item), NEW k \in Key, MapGet(m, k) = NoItem
  PROVE  \A x \in Items(m) : x.key # k
<1>1. k \in Nat
  BY KeyAssumption
<1> QED
  BY <1>1, ItemKeyed, GetFinds

------------------------------------------------------------------------------
(* What each call does to the map.                                         *)

LEMMA StoreDone ==
  ASSUME MapInv, NEW k \in Key, Store(k)
  PROVE  \E v \in Value : PutDone(Item, map, [key |-> k, value |-> v], map')
<1>1. MapGet(map, k) = NoItem
  BY DEF Store
<1>2. PICK v \in Value : map' = MapPut(map, [key |-> k, value |-> v])
  BY DEF Store
<1> DEFINE it == [key |-> k, value |-> v]
<1>3. it \in Item /\ it.key = k
  BY DEF Item
<1>4. \A x \in Items(map) : x.key # k
  BY <1>1, AbsentMeans DEF MapInv
<1> HIDE DEF it
<1>5. MapOver(map, Item)
  BY DEF MapInv
<1>6. PutDone(Item, map, it, MapPut(map, it))
  BY <1>3, <1>4, <1>5, ItemKeyed, PutStores
<1> QED
  BY <1>2, <1>6 DEF it

LEMMA DropDone ==
  ASSUME MapInv, NEW k \in Key, Drop(k)
  PROVE  RemoveDone(Item, map, k, map')
<1>1. k \in Nat /\ MapOver(map, Item)
  BY KeyAssumption DEF MapInv
<1> QED
  BY <1>1, ItemKeyed, RemoveKeeps DEF Drop

LEMMA DropAllDone ==
  ASSUME MapInv, DropAll
  PROVE  MapOver(map', Item) /\ Items(map') = {}
BY ClearEmpties DEF MapInv, DropAll

LEMMA MapInit == Init => MapInv
BY EmptyMapIs DEF Init, MapInv

LEMMA MapStep == MapInv /\ [Next]_map => MapInv'
<1> SUFFICES ASSUME MapInv, [Next]_map PROVE MapInv'
  OBVIOUS
<1>1. ASSUME NEW k \in Key, Store(k) PROVE MapInv'
  BY <1>1, StoreDone DEF PutDone, MapInv
<1>2. ASSUME NEW k \in Key, Drop(k) PROVE MapInv'
  BY <1>2, DropDone DEF RemoveDone, MapInv
<1>3. CASE DropAll
  BY <1>3, DropAllDone DEF MapInv
<1>4. CASE UNCHANGED map
  BY <1>4 DEF MapInv
<1> QED
  BY <1>1, <1>2, <1>3, <1>4 DEF Next

------------------------------------------------------------------------------
\* Whatever is stored, removed and cleared, in whatever order and with the
\* table growing meanwhile: the map stays one in which no key is stored twice
\* and count is the number of used slots.
THEOREM MapCorrect == Spec => []MapInv
BY MapInit, MapStep, PTL DEF Spec

\* count never drifts from the number of used slots, so that map_hash reports
\* a full table only when it is full and map_put grows it in time.
THEOREM CountExactAlways == Spec => []CountExact
<1>1. MapInv => CountExact
  BY UsedFinite DEF MapInv, MapOver, CountExact
<1> QED
  BY <1>1, MapCorrect, PTL

\* map_get finds every stored key, past the holes that map_remove leaves, and
\* a walk over the map meets each key once.
THEOREM EachKeyOnceAlways == Spec => []EachKeyOnce
<1>1. ASSUME MapInv PROVE EachKeyOnce
  <2> SUFFICES ASSUME NEW k \in Key
               PROVE  Cardinality(SlotsOf(map, k))
                        = IF MapGet(map, k) = NoItem THEN 0 ELSE 1
    BY DEF EachKeyOnce
  <2>1. MapOver(map, Item) /\ k \in Nat
    BY <1>1, KeyAssumption DEF MapInv
  <2>2. CASE MapGet(map, k) = NoItem
    <3>1. \A x \in Items(map) : x.key # k
      BY <2>1, <2>2, AbsentMeans
    <3>2. SlotsOf(map, k) = {}
      BY <3>1 DEF SlotsOf, Items
    <3> QED
      BY <2>2, <3>2, FS_EmptySet
  <2>3. CASE MapGet(map, k) # NoItem
    <3>1. MapGet(map, k) \in Items(map) /\ MapGet(map, k).key = k
      BY <2>1, <2>3, ItemKeyed, GetFinds
    <3>2. PICK i \in Used(map) : map.data[i].key = k
      BY <3>1 DEF Items
    <3>3. UniqueKeys(map)
      BY <2>1 DEF MapOver
    <3>4. SlotsOf(map, k) = {i}
      BY <3>2, <3>3 DEF SlotsOf, UniqueKeys
    <3> QED
      BY <2>3, <3>4, FS_Singleton
  <2> QED
    BY <2>2, <2>3
<1> QED
  BY <1>1, MapCorrect, PTL

------------------------------------------------------------------------------
\* The dictionary the map stands for.
Entries == [k \in Key |-> MapGet(map, k)]

\* The map implements a dictionary: map_put changes what is found under its
\* own key and map_remove what is found under its key, and neither moves of
\* the rehashing nor holes change what is found under any other.
THEOREM MapIsDictionary == Spec => IsDictionary
<1>1. Init => Dict!Init
  <2> SUFFICES ASSUME Init PROVE Dict!Init
    OBVIOUS
  <2>1. MapOver(map, Item) /\ Items(map) = {}
    BY EmptyMapIs DEF Init
  <2>2. Lookups(map, {})
    BY <2>1, GetLookups
  <2>3. \A k \in Key : MapGet(map, k) = NoItem
    BY <2>2 DEF Lookups
  <2> QED
    BY <2>3 DEF Dict!Init
<1>2. MapInv /\ [Next]_map => [Dict!Next]_Entries
  <2> SUFFICES ASSUME MapInv, [Next]_map PROVE [Dict!Next]_Entries
    OBVIOUS
  <2>1. MapOver(map, Item) /\ MapOver(map', Item)
    BY MapStep DEF MapInv
  <2>2. Lookups(map, Items(map)) /\ Lookups(map', Items(map'))
    BY <2>1, GetLookups
  <2>3. ASSUME NEW j \in Key, Store(j) PROVE Dict!Next
    <3>1. PICK v \in Value : PutDone(Item, map, [key |-> j, value |-> v], map')
      BY <2>3, StoreDone
    <3> DEFINE it == [key |-> j, value |-> v]
    <3>2. it \in Item /\ it.key = j
      BY DEF Item
    <3> HIDE DEF it
    <3>3. Items(map') = WithoutKey(Items(map), j) \cup {it}
      BY <3>1, <3>2 DEF PutDone, it
    <3>4. \A k \in Key : MapGet(map', k) = IF k = j THEN it ELSE MapGet(map, k)
      BY <2>1, <2>2, <3>2, <3>3, OneItemPerKey DEF Lookups, WithoutKey
    <3>5. Entries' = [Entries EXCEPT ![j] = it]
      BY <3>4 DEF Entries
    <3>6. Dict!Store(j, it)
      BY <3>5 DEF Dict!Store, Entries
    <3> QED
      BY <3>2, <3>6 DEF Dict!Next
  <2>4. ASSUME NEW j \in Key, Drop(j) PROVE Dict!Next
    <3>1. RemoveDone(Item, map, j, map')
      BY <2>4, DropDone
    <3>2. Items(map') = WithoutKey(Items(map), j)
      BY <3>1 DEF RemoveDone
    <3>3. \A k \in Key : MapGet(map', k) = IF k = j THEN NoItem ELSE MapGet(map, k)
      BY <2>1, <2>2, <3>2, OneItemPerKey DEF Lookups, WithoutKey
    <3>4. Entries' = [Entries EXCEPT ![j] = NoItem]
      BY <3>3 DEF Entries
    <3>5. Dict!Forget(j)
      BY <3>4 DEF Dict!Forget, Entries
    <3> QED
      BY <3>5 DEF Dict!Next
  <2>5. CASE DropAll
    <3>1. Items(map') = {}
      BY <2>5, DropAllDone
    <3>2. \A k \in Key : MapGet(map', k) = NoItem
      BY <2>2, <3>1 DEF Lookups
    <3>3. Dict!ForgetAll
      BY <3>2 DEF Dict!ForgetAll
    <3> QED
      BY <3>3 DEF Dict!Next
  <2>6. CASE UNCHANGED map
    BY <2>6 DEF Entries
  <2> QED
    BY <2>3, <2>4, <2>5, <2>6 DEF Next
<1> QED
  BY <1>1, <1>2, MapCorrect, PTL DEF Spec, IsDictionary, Dict!Spec, Entries
=============================================================================
