------------------------------- MODULE QrtrMap -------------------------------
(***************************************************************************)
(* The hash map of the name service (qrtr/src/map.c) as operators: open    *)
(* addressing with linear probing, no tombstones, growth by Step slots     *)
(* when full. A map is a record of the fields of struct map; an item is a  *)
(* record with a field key and whatever its owner stores. Keys are what    *)
(* hash_u32 returns, a bijection of 32-bit words (it multiplies by an odd  *)
(* number), so different ports have different keys.                        *)
(***************************************************************************)
EXTENDS Integers, FiniteSets, Sequences, SequencesExt

CONSTANTS Step,      \* by how many slots map_rehash grows the table (256)
          NoItem     \* the content of an empty slot

ASSUME StepAssumption == Step \in Nat \ {0}

Blank(size) ==
  [size |-> size, count |-> 0, data |-> [i \in 0..size - 1 |-> NoItem]]

EmptyMap == Blank(0)

Slots(m) == 0..m.size - 1
Used(m)  == {i \in Slots(m) : m.data[i] # NoItem}
Items(m) == {m.data[i] : i \in Used(m)}  \* what map_for_each visits
SlotsOf(m, key) == {i \in Used(m) : m.data[i].key = key}

\* The slot of S that probing for key reaches first.
FirstSlot(m, key, S) ==
  LET Distance(i) == (i - key) % m.size
  IN  CHOOSE i \in S : \A j \in S : Distance(i) <= Distance(j)

\* map_hash, and the store of map_reput in the slot it found.
MapHash(m, item) ==
  LET i == FirstSlot(m, item.key,
                     (Slots(m) \ Used(m)) \cup SlotsOf(m, item.key))
  IN  [m EXCEPT !.data[i] = item,
                !.count = IF m.data[i] = NoItem THEN @ + 1 ELSE @]

\* Fault: the last slot of the old table is not visited.
MapRehash_Short(m) ==
  LET new[k \in 0..m.size] ==
        IF k = 0 THEN Blank(m.size + Step)
        ELSE IF m.data[k - 1] = NoItem \/ k = m.size THEN new[k - 1]
        ELSE MapHash(new[k - 1], m.data[k - 1])
  IN  new[m.size]

\* map_rehash: the items are stored in a larger table slot by slot; new[k] is
\* the table when map_for_each has visited k slots.
MapRehash(m) ==
  LET new[k \in 0..m.size] ==
        IF k = 0 THEN Blank(m.size + Step)
        ELSE IF m.data[k - 1] = NoItem THEN new[k - 1]
        ELSE MapHash(new[k - 1], m.data[k - 1])
  IN  new[m.size]

\* map_put and map_reput.
MapPut(m, item) == MapHash(IF m.count = m.size THEN MapRehash(m) ELSE m, item)

\* Fault: the search ends at the first empty slot.
MapGet_UntilHole(m, key) ==
  LET S == (Slots(m) \ Used(m)) \cup SlotsOf(m, key)
  IN  IF S = {} THEN NoItem ELSE m.data[FirstSlot(m, key, S)]

\* map_get: the search passes over empty slots.
MapGet(m, key) ==
  LET S == SlotsOf(m, key)
  IN  IF S = {} THEN NoItem ELSE m.data[FirstSlot(m, key, S)]

\* Fault: the count is not adjusted.
MapRemove_KeepCount(m, key) ==
  LET S == SlotsOf(m, key)
  IN  IF S = {} THEN m
      ELSE [m EXCEPT !.data[FirstSlot(m, key, S)] = NoItem]

MapRemove(m, key) ==
  LET S == SlotsOf(m, key)
  IN  IF S = {} THEN m
      ELSE [m EXCEPT !.data[FirstSlot(m, key, S)] = NoItem, !.count = @ - 1]

\* map_clear: the table keeps its size.
MapClear(m) == Blank(m.size)
=============================================================================
