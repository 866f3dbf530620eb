---------------------------- MODULE QrtrMap_proofs ----------------------------
(***************************************************************************)
(* What the operations of the hash map do (qrtr/src/map.c), for maps of    *)
(* any size over any items: storing a new key, looking up, removing,       *)
(* growing and clearing.  Storing a key that is present replaces its item  *)
(* only if no two items compete for a slot: otherwise a removed item may   *)
(* have left a hole in front of it, and the new item goes there.           *)
(***************************************************************************)
EXTENDS QrtrMap, WellFoundedInduction, FiniteSetTheorems, TLAPS

------------------------------------------------------------------------------
(* Induction over numbers, and the table map_rehash builds slot by slot.    *)

Less == {ss \in Nat \X Nat : ss[1] < ss[2]}

LEMMA LessWF == IsWellFoundedOn(Less, Nat)
BY NatLessThanWellFounded DEF Less, OpToRel

\* A set of numbers that is not empty has a least one.
LEMMA LeastNat ==
  ASSUME NEW S \in SUBSET Nat, S # {}
  PROVE  \E x \in S : \A y \in S : x <= y
<1>1. PICK x \in S : \A y \in S : <<y, x>> \notin Less
  BY LessWF, WFMin
<1>2. \A y \in S : ~ (y < x)
  BY <1>1 DEF Less
<1> QED
  BY <1>2

\* A set with 0 that is closed under successors has all numbers.
LEMMA SetInduction ==
  ASSUME NEW S \in SUBSET Nat, 0 \in S, \A n \in S : n + 1 \in S
  PROVE  S = Nat
<1>1. SUFFICES ASSUME Nat \ S # {} PROVE FALSE
  OBVIOUS
<1>2. PICK x \in Nat \ S : \A y \in Nat \ S : x <= y
  BY <1>1, LeastNat
<1>3. x # 0 /\ x \in Nat
  OBVIOUS
<1>4. x - 1 \in Nat /\ x - 1 < x
  BY <1>3
<1>5. x - 1 \in S
  BY <1>2, <1>3, <1>4
<1>6. x - 1 + 1 \in S
  BY <1>5
<1> QED
  BY <1>3, <1>6

\* A visit of slot i of m by map_rehash, when the new table is t.
Visited(m, i, t) == IF m.data[i] = NoItem THEN t ELSE MapHash(t, m.data[i])

\* f[j] is the new table when j of the first k slots of m have been visited.
RehashTo(m, f, k) ==
  f = [j \in 0..k |-> IF j = 0 THEN Blank(m.size + Step)
                      ELSE Visited(m, j - 1, f[j - 1])]

LEMMA RehashToExists ==
  ASSUME NEW m, NEW k \in Nat
  PROVE  \E f : RehashTo(m, f, k)
<1> DEFINE S == {i \in Nat : \E f : RehashTo(m, f, i)}
<1>1. 0 \in S
  <2> DEFINE f == [j \in 0..0 |-> Blank(m.size + Step)]
  <2>1. RehashTo(m, f, 0)
    BY DEF RehashTo
  <2> QED
    BY <2>1
<1>2. ASSUME NEW i \in S PROVE i + 1 \in S
  <2>1. PICK f : RehashTo(m, f, i)
    OBVIOUS
  <2> DEFINE g == [j \in 0..i + 1 |-> IF j <= i THEN f[j] ELSE Visited(m, i, f[i])]
  <2>2. i \in Nat
    OBVIOUS
  <2>3. \A j \in 0..i : f[j] = IF j = 0 THEN Blank(m.size + Step)
                               ELSE Visited(m, j - 1, f[j - 1])
    BY <2>1, <2>2 DEF RehashTo
  <2>4. \A j \in 0..i : g[j] = f[j]
    BY <2>2
  <2>5. g[i + 1] = Visited(m, i, f[i])
    BY <2>2
  <2>6. g = [j \in 0..i + 1 |-> g[j]]
    OBVIOUS
  <2> HIDE DEF g
  <2>7. \A j \in 0..i + 1 :
          g[j] = IF j = 0 THEN Blank(m.size + Step) ELSE Visited(m, j - 1, g[j - 1])
    <3> SUFFICES ASSUME NEW j \in 0..i + 1
                 PROVE  g[j] = IF j = 0 THEN Blank(m.size + Step)
                               ELSE Visited(m, j - 1, g[j - 1])
      OBVIOUS
    <3>1. CASE j = i + 1
      <4>1. j # 0 /\ j - 1 = i /\ i \in 0..i
        BY <3>1, <2>2
      <4> QED
        BY <3>1, <4>1, <2>4, <2>5
    <3>2. CASE j = 0
      <4>1. 0 \in 0..i
        BY <2>2
      <4> QED
        BY <3>2, <4>1, <2>3, <2>4
    <3>3. CASE j # 0 /\ j # i + 1
      <4>1. j \in 0..i /\ j - 1 \in 0..i
        BY <3>3, <2>2
      <4> QED
        BY <3>3, <4>1, <2>3, <2>4
    <3> QED
      BY <3>1, <3>2, <3>3
  <2>8. RehashTo(m, g, i + 1)
    BY <2>6, <2>7 DEF RehashTo
  <2> QED
    BY <2>2, <2>8
<1>3. S = Nat
  <2> HIDE DEF S
  <2>1. S \in SUBSET Nat
    BY DEF S
  <2> QED
    BY <1>1, <1>2, <2>1, SetInduction
<1> QED
  BY <1>3

\* The recursive definition of map_rehash has the values it states.
LEMMA RehashDef ==
  ASSUME NEW m, m.size \in Nat
  PROVE  \E f : RehashTo(m, f, m.size) /\ MapRehash(m) = f[m.size]
<1> DEFINE g == CHOOSE f : RehashTo(m, f, m.size)
<1>1. RehashTo(m, g, m.size)
  BY RehashToExists
<1>2. MapRehash(m) = g[m.size]
  BY DEF MapRehash, RehashTo, Visited
<1> QED
  BY <1>1, <1>2

------------------------------------------------------------------------------
(* Remainders.                                                             *)

LEMMA DivMod ==
  ASSUME NEW p \in Int, NEW n \in Nat \ {0}
  PROVE  /\ p \div n \in Int /\ p = n * (p \div n) + (p % n)
         /\ p % n \in 0..n-1
OBVIOUS

LEMMA Multiple ==
  ASSUME NEW a \in Int, NEW n \in Nat \ {0}, a >= 1
  PROVE  n * a >= n
OBVIOUS

\* Quotient and remainder are unique.
LEMMA Unique ==
  ASSUME NEW n \in Nat \ {0}, NEW a \in Int, NEW b \in Int,
         NEW r \in 0..n-1, NEW s \in 0..n-1, n*a + r = n*b + s
  PROVE  a = b /\ r = s
<1>1. n * (a - b) = s - r /\ n * (b - a) = r - s
  OBVIOUS
<1>2. CASE a - b >= 1
  <2>1. n * (a - b) >= n
    BY <1>2, Multiple
  <2> QED
    BY <1>1, <2>1
<1>3. CASE b - a >= 1
  <2>1. n * (b - a) >= n
    BY <1>3, Multiple
  <2> QED
    BY <1>1, <2>1
<1>4. CASE a = b
  BY <1>4
<1> QED
  BY <1>2, <1>3, <1>4

LEMMA ModSlot ==
  ASSUME NEW p \in Nat, NEW n \in Nat \ {0}
  PROVE  ((p % n) - p) % n = 0
<1> DEFINE q == p \div n
           d == (p % n) - p
<1>1. q \in Int /\ p = n * q + (p % n) /\ p % n \in 0..n-1
  BY DivMod
<1>2. d \in Int
  BY <1>1
<1>3. d = n * (0 - q) + 0
  BY <1>1
<1>4. d \div n \in Int /\ d = n * (d \div n) + (d % n) /\ d % n \in 0..n-1
  BY <1>2, DivMod
<1> HIDE DEF d
<1>5. n * (0 - q) + 0 = n * (d \div n) + (d % n) /\ 0 - q \in Int /\ 0 \in 0..n-1
  BY <1>1, <1>3, <1>4
<1> HIDE DEF q
<1>6. 0 = d % n
  BY <1>4, <1>5, Unique
<1> QED
  BY <1>6 DEF d

LEMMA ModSlotUnique ==
  ASSUME NEW p \in Nat, NEW n \in Nat \ {0}, NEW i \in 0..n-1, (i - p) % n = 0
  PROVE  i = p % n
<1> DEFINE d == i - p
           a == 0 - (d \div n)
           b == p \div n
           r == p % n
<1>1. b \in Int /\ p = n * b + r /\ r \in 0..n-1
  BY DivMod
<1>2. d \in Int
  OBVIOUS
<1>3. d \div n \in Int /\ d = n * (d \div n)
  BY <1>2, DivMod
<1>4. n * a + i = n * b + r
  BY <1>1, <1>3
<1>5. a \in Int
  BY <1>3
<1>6. i = r
  <2> HIDE DEF a, b, r
  <2> QED
    BY <1>1, <1>4, <1>5, Unique
<1> QED
  BY <1>6

------------------------------------------------------------------------------
(* Maps over a set I of items.                                             *)

WithoutKey(X, key) == {x \in X : x.key # key}

\* Items have a port number as their key, and none is the empty slot.
Keyed(I) == NoItem \notin I /\ \A x \in I : x.key \in Nat

UniqueKeys(m) ==
  \A i, j \in Used(m) : m.data[i].key = m.data[j].key => i = j

\* Table sizes are the multiples of Step.
Sized(size) == \E k \in Nat : size = k * Step

\* No two items compete for a slot, in a table of whatever size.
NoCollision(I) ==
  \A k \in Nat \ {0} : \A x, y \in I :
    x.key % (k * Step) = y.key % (k * Step) => x.key = y.key

\* Then every item is in the slot its key begins to probe at.
Placed(m) == \A i \in Used(m) : (i - m.data[i].key) % m.size = 0

\* m is a map of items of I: count is the number of used slots, no key is
\* stored twice.
MapOver(m, I) ==
  /\ m.size \in Nat /\ m.count \in Nat
  /\ m.data \in [Slots(m) -> I \cup {NoItem}]
  /\ m = [size |-> m.size, count |-> m.count, data |-> m.data]
  /\ m.count = Cardinality(Used(m))
  /\ UniqueKeys(m)
  /\ Sized(m.size) /\ (NoCollision(I) => Placed(m))

\* There is a slot that probing reaches first, as there are finitely many.
LEMMA FirstSlotIsFirst ==
  ASSUME NEW m, m.size \in Nat, NEW key \in Nat,
         NEW S \in SUBSET Slots(m), S # {}
  PROVE  /\ FirstSlot(m, key, S) \in S
         /\ \A j \in S : (FirstSlot(m, key, S) - key) % m.size
                           <= (j - key) % m.size
<1> DEFINE D(i) == (i - key) % m.size
<1>1. m.size \in Nat \ {0} /\ S \subseteq Int
  <2>1. PICK i \in S : i \in 0..m.size - 1
    BY DEF Slots
  <2>2. S \subseteq 0..m.size - 1
    BY DEF Slots
  <2> QED
    BY <2>1, <2>2
<1>2. \A i \in S : D(i) \in Nat
  BY <1>1
<1>3. \E d \in {D(i) : i \in S} : \A e \in {D(i) : i \in S} : d <= e
  <2> HIDE DEF D
  <2>1. {D(i) : i \in S} \in SUBSET Nat
    BY <1>2
  <2>2. {D(i) : i \in S} # {}
    OBVIOUS
  <2> QED
    BY <2>1, <2>2, LeastNat
<1>4. \E i \in S : \A j \in S : D(i) <= D(j)
  BY <1>3
<1> QED
  BY <1>4 DEF FirstSlot

\* A map with room has an empty slot, a full one has none.
LEMMA UsedFinite ==
  ASSUME NEW I, NEW m, MapOver(m, I)
  PROVE  /\ IsFiniteSet(Used(m)) /\ IsFiniteSet(Slots(m))
         /\ Cardinality(Slots(m)) = m.size
         /\ m.count <= m.size
         /\ m.count < m.size => Slots(m) \ Used(m) # {}
         /\ m.count = m.size => Used(m) = Slots(m)
<1>1. IsFiniteSet(Slots(m)) /\ Cardinality(Slots(m)) = m.size
  <2>1. m.size \in Nat
    BY DEF MapOver
  <2>2. m.size - 1 \in Int /\ 0 \in Int
    BY <2>1
  <2>3. /\ IsFiniteSet(0..m.size - 1)
        /\ Cardinality(0..m.size - 1)
             = IF 0 > m.size - 1 THEN 0 ELSE m.size - 1 - 0 + 1
    BY <2>2, FS_Interval
  <2> QED
    BY <2>1, <2>3 DEF Slots
<1>2. Used(m) \in SUBSET Slots(m)
  BY DEF Used
<1>3. /\ IsFiniteSet(Used(m)) /\ Cardinality(Used(m)) <= Cardinality(Slots(m))
      /\ Cardinality(Slots(m)) = Cardinality(Used(m)) => Slots(m) = Used(m)
  BY <1>1, <1>2, FS_Subset
<1>4. m.count = Cardinality(Used(m)) /\ m.size \in Nat
  BY DEF MapOver
<1> QED
  BY <1>1, <1>2, <1>3, <1>4

\* The result of a store in slot i.
StoredAt(m, item, i, n) ==
  n = [size |-> m.size,
       count |-> IF i \in Used(m) THEN m.count ELSE m.count + 1,
       data |-> [m.data EXCEPT ![i] = item]]

\* map_hash stores in an empty slot or in one of the key.
LEMMA HashStores ==
  ASSUME NEW I, Keyed(I), NEW m, MapOver(m, I), NEW item \in I,
         (Slots(m) \ Used(m)) \cup SlotsOf(m, item.key) # {}
  PROVE  \E i \in (Slots(m) \ Used(m)) \cup SlotsOf(m, item.key) :
            /\ StoredAt(m, item, i, MapHash(m, item))
            /\ i = FirstSlot(m, item.key,
                             (Slots(m) \ Used(m)) \cup SlotsOf(m, item.key))
<1> DEFINE S == (Slots(m) \ Used(m)) \cup SlotsOf(m, item.key)
           i == FirstSlot(m, item.key, S)
<1>1. m.size \in Nat /\ item.key \in Nat
  BY DEF MapOver, Keyed
<1>2. S \in SUBSET Slots(m)
  BY DEF SlotsOf, Used
<1>3. i \in S
  BY <1>1, <1>2, FirstSlotIsFirst
<1>4. m = [size |-> m.size, count |-> m.count, data |-> m.data]
  BY DEF MapOver
<1>5. MapHash(m, item) = [m EXCEPT !.data[i] = item,
                !.count = IF m.data[i] = NoItem THEN @ + 1 ELSE @]
  BY DEF MapHash
<1>6. (m.data[i] = NoItem) <=> i \notin Used(m)
  BY <1>2, <1>3 DEF Used
<1>7. StoredAt(m, item, i, MapHash(m, item))
  <2> HIDE DEF i, S
  <2> DEFINE d == m.data
             c == m.count
             s == m.size
  <2>1. m = [size |-> s, count |-> c, data |-> d]
    BY <1>4
  <2> HIDE DEF d, c, s
  <2>2. MapHash(m, item) = [size |-> s, count |-> IF m.data[i] = NoItem THEN c + 1 ELSE c,
                            data |-> [d EXCEPT ![i] = item]]
    BY <1>5, <2>1
  <2>3. d = m.data /\ c = m.count /\ s = m.size
    BY DEF d, c, s
  <2> QED
    BY <1>6, <2>2, <2>3 DEF StoredAt
<1> QED
  BY <1>3, <1>7

\* Slot i is empty and the key of item absent, or slot i alone holds the key.
Storing(I, m, item, i, n) ==
  /\ i \in (Slots(m) \ Used(m)) \cup SlotsOf(m, item.key)
  /\ \A j \in SlotsOf(m, item.key) : j = i
  /\ StoredAt(m, item, i, n)
  /\ NoCollision(I) => (i - item.key) % m.size = 0

Stored(I, m, item, i, n) ==
  /\ MapOver(n, I) /\ n.size = m.size
  /\ Used(n) = Used(m) \cup {i}
  /\ n.data = [m.data EXCEPT ![i] = item]
  /\ Items(n) = WithoutKey(Items(m), item.key) \cup {item}
  /\ i \notin Used(m) => n.count = m.count + 1

\* Such a store keeps the map a map, with the item in place of its key's.
LEMMA StoredKeeps ==
  ASSUME NEW I, Keyed(I), NEW m, MapOver(m, I), NEW item \in I,
         NEW n, NEW i, Storing(I, m, item, i, n)
  PROVE  Stored(I, m, item, i, n)
<1> DEFINE D == m.data
           E == [m.data EXCEPT ![i] = item]
           c == IF i \in Used(m) THEN m.count ELSE m.count + 1
           s == m.size
<1>1. D \in [Slots(m) -> I \cup {NoItem}] /\ i \in Slots(m)
  BY DEF MapOver, SlotsOf, Used, Storing
<1>3. /\ E \in [Slots(m) -> I \cup {NoItem}] /\ E[i] = item
      /\ \A j \in Slots(m) : j # i => E[j] = D[j]
  BY <1>1
<1>4. item # NoItem
  BY DEF Keyed
<1>2. /\ n.size = s /\ n.data = E /\ n.count = c
      /\ n = [size |-> n.size, count |-> n.count, data |-> n.data]
  <2>1. n = [size |-> s, count |-> c, data |-> E]
    BY DEF StoredAt, Storing
  <2> HIDE DEF s, c, E
  <2> QED
    BY <2>1
<1>11. Slots(n) = Slots(m)
  BY <1>2 DEF Slots
<1>12. Used(m) = {j \in Slots(m) : D[j] # NoItem}
  BY DEF Used
<1>13. Used(n) = {j \in Slots(m) : E[j] # NoItem}
  BY <1>2, <1>11 DEF Used
<1> HIDE DEF D, E, s
<1>5. Used(n) = Used(m) \cup {i}
  BY <1>1, <1>3, <1>4, <1>12, <1>13
<1>6. n.count = Cardinality(Used(n)) /\ n.count \in Nat
  <2>1. IsFiniteSet(Used(m)) /\ m.count = Cardinality(Used(m)) /\ m.count \in Nat
    BY UsedFinite DEF MapOver
  <2>2. Cardinality(Used(m) \cup {i}) =
          IF i \in Used(m) THEN Cardinality(Used(m)) ELSE Cardinality(Used(m)) + 1
    BY <2>1, FS_AddElement
  <2>3. c = Cardinality(Used(m) \cup {i}) /\ c \in Nat
    BY <2>1, <2>2
  <2>4. n.count = c
    BY <1>2
  <2> HIDE DEF c
  <2> QED
    BY <1>5, <2>3, <2>4
<1>7. \A j \in Used(m) : j # i => D[j].key # item.key
  BY DEF SlotsOf, D, Storing
<1>8. UniqueKeys(n)
  <2>1. \A j, k \in Used(m) : D[j].key = D[k].key => j = k
    BY DEF MapOver, UniqueKeys, D
  <2>2. \A j \in Used(m) : j # i => E[j] = D[j]
    BY <1>3, <1>12
  <2>3. \A j, k \in Used(n) : E[j].key = E[k].key => j = k
    BY <2>1, <2>2, <1>3, <1>5, <1>7
  <2>4. n.data = E
    BY <1>2
  <2> QED
    BY <2>3, <2>4 DEF UniqueKeys
<1>9. Items(n) = WithoutKey(Items(m), item.key) \cup {item}
  <2>1. ASSUME NEW x \in Items(n)
        PROVE  x \in WithoutKey(Items(m), item.key) \cup {item}
    <3>1. PICK j \in Used(n) : x = E[j]
      BY <1>2 DEF Items
    <3>2. CASE j = i
      BY <3>1, <3>2, <1>3
    <3>3. CASE j # i
      <4>1. j \in Used(m) /\ x = D[j]
        BY <3>1, <3>3, <1>3, <1>5, <1>12
      <4> QED
        BY <4>1, <3>3, <1>7 DEF Items, D, WithoutKey
    <3> QED
      BY <3>2, <3>3 DEF WithoutKey
  <2>2. ASSUME NEW x \in Items(m), x.key # item.key
        PROVE  x \in Items(n)
    <3>1. PICK j \in Used(m) : x = D[j]
      BY DEF Items, D
    <3>2. CASE j = i
      <4>1. i \in SlotsOf(m, item.key)
        BY <3>1, <3>2 DEF Storing
      <4> QED
        BY <3>1, <3>2, <2>2, <4>1 DEF SlotsOf, D
    <3>3. CASE j # i
      <4>1. j \in Used(n) /\ x = E[j]
        BY <3>1, <3>3, <1>3, <1>5, <1>12
      <4> QED
        BY <4>1, <1>2 DEF Items
    <3> QED
      BY <3>2, <3>3
  <2>3. item \in Items(n)
    BY <1>2, <1>3, <1>5 DEF Items
  <2> QED
    BY <2>1, <2>2, <2>3 DEF WithoutKey
<1>14. MapOver(n, I)
  <2>1. n.size \in Nat
    BY <1>2 DEF MapOver, s
  <2>4. Sized(n.size)
    BY <1>2 DEF MapOver, s
  <2>5. NoCollision(I) => Placed(n)
    <3>1. SUFFICES ASSUME NoCollision(I), NEW j \in Used(n)
                   PROVE  (j - E[j].key) % s = 0
      BY <1>2 DEF Placed
    <3>2. CASE j = i
      BY <3>1, <3>2, <1>3 DEF Storing, s
    <3>3. CASE j # i
      <4>1. j \in Used(m) /\ E[j] = D[j]
        BY <3>1, <3>3, <1>3, <1>5, <1>12
      <4>2. Placed(m)
        BY <3>1 DEF MapOver
      <4> QED
        BY <4>1, <4>2 DEF Placed, D, s
    <3> QED
      BY <3>2, <3>3
  <2>2. n.data \in [Slots(n) -> I \cup {NoItem}]
    BY <1>2, <1>3, <1>11
  <2>3. n = [size |-> n.size, count |-> n.count, data |-> n.data]
    BY <1>2
  <2> QED
    BY <2>1, <2>2, <2>3, <2>4, <2>5, <1>6, <1>8 DEF MapOver
<1>15. i \notin Used(m) => n.count = m.count + 1
  BY <1>2
<1>16. n.size = m.size /\ n.data = [m.data EXCEPT ![i] = item]
  BY <1>2 DEF s, E
<1> QED
  BY <1>5, <1>9, <1>14, <1>15, <1>16 DEF Stored

------------------------------------------------------------------------------
(* The operations.                                                         *)

\* A blank table is a map without items.
LEMMA BlankIsMap ==
  ASSUME NEW I, NEW size \in Nat, Sized(size)
  PROVE  /\ MapOver(Blank(size), I) /\ Blank(size).size = size
         /\ Blank(size).count = 0
         /\ Used(Blank(size)) = {} /\ Items(Blank(size)) = {}
<1> DEFINE d == [i \in 0..size - 1 |-> NoItem]
           n == Blank(size)
<1>1. n.size = size /\ n.count = 0 /\ n.data = d
      /\ n = [size |-> n.size, count |-> n.count, data |-> n.data]
  BY DEF Blank
<1> HIDE DEF n
<1>2. Slots(n) = 0..size - 1
  BY <1>1 DEF Slots
<1>3. Used(n) = {}
  BY <1>1, <1>2 DEF Used
<1>4. n.count = Cardinality(Used(n))
  BY <1>1, <1>3, FS_EmptySet
<1>5. n.data \in [Slots(n) -> I \cup {NoItem}]
  BY <1>1, <1>2
<1>6. MapOver(n, I)
  BY <1>1, <1>3, <1>4, <1>5 DEF MapOver, UniqueKeys, Placed
<1>7. Items(n) = {}
  BY <1>3 DEF Items
<1> QED
  BY <1>1, <1>3, <1>6, <1>7 DEF n

LEMMA NextSize ==
  ASSUME NEW size \in Nat, Sized(size)
  PROVE  size + Step \in Nat /\ Sized(size + Step) /\ size + Step > size
<1>1. Step \in Nat \ {0}
  BY StepAssumption
<1>2. PICK k \in Nat : size = k * Step
  BY DEF Sized
<1>3. size + Step = (k + 1) * Step
  BY <1>1, <1>2
<1>4. k + 1 \in Nat
  OBVIOUS
<1> QED
  BY <1>1, <1>3, <1>4 DEF Sized

\* Where probing for a key begins.
LEMMA HomeSlot ==
  ASSUME NEW key \in Nat, NEW size \in Nat \ {0}
  PROVE  /\ key % size \in 0..size - 1
         /\ ((key % size) - key) % size = 0
         /\ \A i \in 0..size - 1 : (i - key) % size = 0 => i = key % size
<1>1. key % size \in 0..size - 1
  OBVIOUS
<1>2. ((key % size) - key) % size = 0
  BY ModSlot
<1>3. ASSUME NEW i \in 0..size - 1, (i - key) % size = 0
      PROVE  i = key % size
  BY <1>3, ModSlotUnique
<1> QED
  BY <1>1, <1>2, <1>3

\* Without collisions each item is where probing for it begins.
LEMMA PlacedAtHome ==
  ASSUME NEW I, Keyed(I), NEW m, MapOver(m, I), NoCollision(I),
         NEW i \in Used(m)
  PROVE  i = m.data[i].key % m.size /\ m.size \in Nat \ {0} /\ i \in 0..m.size - 1
<1>1. i \in 0..m.size - 1 /\ m.size \in Nat /\ m.data[i] \in I
  BY DEF MapOver, Used, Slots
<1>2. m.size \in Nat \ {0}
  BY <1>1
<1>3. m.data[i].key \in Nat
  BY <1>1 DEF Keyed
<1>4. (i - m.data[i].key) % m.size = 0
  BY DEF MapOver, Placed
<1> QED
  BY <1>1, <1>2, <1>3, <1>4, HomeSlot

\* A new key is stored in an empty slot.
LEMMA HashFresh ==
  ASSUME NEW I, Keyed(I), NEW m, MapOver(m, I), NEW item \in I,
         m.count < m.size, \A x \in Items(m) : x.key # item.key
  PROVE  \E i : Storing(I, m, item, i, MapHash(m, item)) /\ i \notin Used(m)
<1>1. SlotsOf(m, item.key) = {}
  BY DEF SlotsOf, Items
<1>2. Slots(m) \ Used(m) # {}
  BY UsedFinite
<1> DEFINE S == (Slots(m) \ Used(m)) \cup SlotsOf(m, item.key)
<1>3. PICK i \in S :
         /\ StoredAt(m, item, i, MapHash(m, item))
         /\ i = FirstSlot(m, item.key, S)
  BY <1>2, HashStores
<1>4. i \notin Used(m)
  BY <1>1
<1>5. ASSUME NoCollision(I) PROVE (i - item.key) % m.size = 0
  <2> DEFINE h == item.key % m.size
  <2>1. m.size \in Nat \ {0} /\ item.key \in Nat /\ i \in Slots(m)
        /\ i \in 0..m.size - 1
    BY <1>1 DEF MapOver, Keyed, Slots
  <2>2. h \in 0..m.size - 1 /\ (h - item.key) % m.size = 0
    BY <2>1, HomeSlot
  <2> HIDE DEF h
  <2>3. h \notin Used(m)
    <3>1. SUFFICES ASSUME h \in Used(m) PROVE FALSE
      OBVIOUS
    <3>2. m.data[h] \in I /\ m.data[h] \in Items(m)
      BY <3>1 DEF MapOver, Used, Items
    <3>3. h = m.data[h].key % m.size
      BY <3>1, <1>5, PlacedAtHome
    <3>4. PICK k \in Nat : m.size = k * Step
      BY DEF MapOver, Sized
    <3>5. k # 0
      <4>1. Step \in Nat
        BY StepAssumption
      <4>2. 0 * Step = 0
        BY <4>1
      <4> QED
        BY <2>1, <3>4, <4>2
    <3>6. m.data[h].key % m.size = item.key % m.size
      BY <3>3 DEF h
    <3>7. m.data[h].key = item.key
      BY <3>2, <3>4, <3>5, <3>6, <1>5 DEF NoCollision
    <3> QED
      BY <3>2, <3>7
  <2>4. h \in S /\ S \in SUBSET Slots(m)
    BY <2>2, <2>3 DEF Slots, SlotsOf, Used
  <2>5. (i - item.key) % m.size <= (h - item.key) % m.size
    <3> HIDE DEF S
    <3> QED
      BY <1>3, <2>1, <2>4, FirstSlotIsFirst
  <2>6. (i - item.key) % m.size \in Nat
    BY <2>1
  <2> QED
    BY <2>2, <2>5, <2>6
<1>6. Storing(I, m, item, i, MapHash(m, item))
  BY <1>1, <1>3, <1>5 DEF Storing
<1> QED
  BY <1>4, <1>6

\* Without collisions a stored key is replaced where it is.
LEMMA HashAgain ==
  ASSUME NEW I, Keyed(I), NEW m, MapOver(m, I), NEW item \in I,
         NoCollision(I), NEW x \in Items(m), x.key = item.key
  PROVE  \E i : Storing(I, m, item, i, MapHash(m, item)) /\ i \in Used(m)
<1>1. PICK h \in Used(m) : m.data[h].key = item.key
  BY DEF Items
<1>2. h = item.key % m.size /\ m.size \in Nat \ {0} /\ h \in 0..m.size - 1
  BY <1>1, PlacedAtHome
<1>3. item.key \in Nat
  BY DEF Keyed
<1>4. (h - item.key) % m.size = 0
  BY <1>2, <1>3, HomeSlot
<1> DEFINE S == (Slots(m) \ Used(m)) \cup SlotsOf(m, item.key)
<1>5. h \in SlotsOf(m, item.key)
  BY <1>1 DEF SlotsOf
<1>6. S # {}
  BY <1>5
<1>7. PICK i \in S :
         /\ StoredAt(m, item, i, MapHash(m, item))
         /\ i = FirstSlot(m, item.key, S)
  BY <1>6, HashStores
<1>8. S \in SUBSET Slots(m) /\ h \in S
  BY <1>5 DEF SlotsOf, Used
<1>9. (i - item.key) % m.size <= (h - item.key) % m.size
  <2> HIDE DEF S
  <2> QED
    BY <1>2, <1>3, <1>7, <1>8, FirstSlotIsFirst
<1>10. i \in 0..m.size - 1
  BY <1>8 DEF Slots
<1>11. (i - item.key) % m.size \in Nat
  BY <1>2, <1>3, <1>10
<1>12. (i - item.key) % m.size = 0
  BY <1>4, <1>9, <1>11
<1>13. i = h
  BY <1>2, <1>3, <1>10, <1>12, HomeSlot
<1>14. \A j \in SlotsOf(m, item.key) : j = i
  BY <1>1, <1>13 DEF SlotsOf, MapOver, UniqueKeys
<1>15. Storing(I, m, item, i, MapHash(m, item))
  BY <1>7, <1>12, <1>14 DEF Storing
<1> QED
  BY <1>1, <1>13, <1>15

\* The new table when k slots of m have been visited.
Moved(m, I, n, k) ==
  /\ MapOver(n, I) /\ n.size = m.size + Step /\ n.count <= k
  /\ Items(n) = {m.data[i] : i \in {j \in Used(m) : j < k}}

\* map_rehash visits every slot and loses nothing.
LEMMA RehashKeeps ==
  ASSUME NEW I, Keyed(I), NEW m, MapOver(m, I)
  PROVE  Moved(m, I, MapRehash(m), m.size)
<1>1. m.size \in Nat /\ Step \in Nat \ {0}
  BY StepAssumption DEF MapOver
<1>2. PICK f : RehashTo(m, f, m.size) /\ MapRehash(m) = f[m.size]
  BY <1>1, RehashDef
<1>3. \A j \in 0..m.size : f[j] = IF j = 0 THEN Blank(m.size + Step)
                                  ELSE Visited(m, j - 1, f[j - 1])
  BY <1>2 DEF RehashTo
<1> DEFINE S == {k \in Nat : k <= m.size => Moved(m, I, f[k], k)}
<1>4. 0 \in S
  <2>1. f[0] = Blank(m.size + Step)
    BY <1>1, <1>3
  <2>2. m.size + Step \in Nat /\ Sized(m.size + Step)
    BY <1>1, NextSize DEF MapOver
  <2>3. {j \in Used(m) : j < 0} = {}
    BY DEF Used, Slots
  <2>4. Moved(m, I, f[0], 0)
    BY <2>1, <2>2, <2>3, BlankIsMap DEF Moved
  <2> QED
    BY <2>4
<1>5. ASSUME NEW k \in S PROVE k + 1 \in S
  <2>1. k \in Nat
    OBVIOUS
  <2>2. SUFFICES ASSUME k + 1 <= m.size PROVE Moved(m, I, f[k + 1], k + 1)
    BY <2>1
  <2>3. k <= m.size /\ k \in Slots(m) /\ k + 1 \in 0..m.size /\ k + 1 # 0
        /\ k + 1 - 1 = k
    BY <2>1, <2>2, <1>1 DEF Slots
  <2>4. f[k + 1] = Visited(m, k, f[k])
    BY <2>3, <1>3
  <2> DEFINE n == f[k]
  <2>5. Moved(m, I, n, k)
    BY <2>3
  <2> HIDE DEF n, S
  <2>6. CASE m.data[k] = NoItem
    <3>1. f[k + 1] = n
      BY <2>3, <2>4, <2>6 DEF Visited, n
    <3>2. {j \in Used(m) : j < k + 1} = {j \in Used(m) : j < k}
      BY <2>1, <2>6 DEF Used, Slots
    <3>3. n.count <= k + 1
      BY <2>1, <2>5 DEF Moved, MapOver
    <3> QED
      BY <3>1, <3>2, <3>3, <2>5 DEF Moved
  <2>7. CASE m.data[k] # NoItem
    <3> DEFINE x == m.data[k]
    <3>1. f[k + 1] = MapHash(n, x)
      BY <2>3, <2>4, <2>7 DEF Visited, n
    <3>2. k \in Used(m) /\ x \in I
      BY <2>3, <2>7 DEF Used, MapOver
    <3>3. {j \in Used(m) : j < k + 1} = {j \in Used(m) : j < k} \cup {k}
      BY <2>1, <3>2 DEF Used, Slots
    <3>4. Items(n) = {m.data[i] : i \in {j \in Used(m) : j < k}}
      BY <2>5 DEF Moved
    <3>5. \A y \in Items(n) : y.key # x.key
      <4>1. UniqueKeys(m)
        BY DEF MapOver
      <4> QED
        BY <4>1, <3>2, <3>4, <2>1 DEF UniqueKeys
    <3>6. MapOver(n, I) /\ n.count < n.size /\ n.size = m.size + Step
          /\ n.count <= k /\ n.count \in Nat
      BY <2>1, <2>2, <2>5, <1>1 DEF Moved, MapOver
    <3> HIDE DEF x
    <3>7. /\ MapOver(MapHash(n, x), I)
          /\ MapHash(n, x).size = n.size
          /\ MapHash(n, x).count = n.count + 1
          /\ Items(MapHash(n, x)) = Items(n) \cup {x}
      <4>1. PICK i : Storing(I, n, x, i, MapHash(n, x)) /\ i \notin Used(n)
        BY <3>2, <3>5, <3>6, HashFresh
      <4>2. Stored(I, n, x, i, MapHash(n, x))
        BY <3>2, <3>6, <4>1, StoredKeeps
      <4>3. WithoutKey(Items(n), x.key) = Items(n)
        BY <3>5 DEF WithoutKey
      <4> QED
        BY <4>1, <4>2, <4>3 DEF Stored
    <3>8. Items(MapHash(n, x))
            = {m.data[i] : i \in {j \in Used(m) : j < k + 1}}
      BY <3>3, <3>4, <3>7 DEF x
    <3>9. MapHash(n, x).count <= k + 1
      BY <3>6, <3>7, <2>1
    <3> QED
      BY <3>1, <3>6, <3>7, <3>8, <3>9 DEF Moved
  <2> QED
    BY <2>6, <2>7
<1>6. S = Nat
  <2> HIDE DEF S
  <2>1. S \in SUBSET Nat
    BY DEF S
  <2> QED
    BY <1>4, <1>5, <2>1, SetInduction
<1>7. m.size \in S
  BY <1>1, <1>6
<1> QED
  BY <1>1, <1>2, <1>7

\* The new table has the items of the old one, and room for another.
LEMMA RehashRoom ==
  ASSUME NEW I, Keyed(I), NEW m, MapOver(m, I)
  PROVE  /\ MapOver(MapRehash(m), I)
         /\ MapRehash(m).size = m.size + Step
         /\ MapRehash(m).count < MapRehash(m).size
         /\ Items(MapRehash(m)) = Items(m)
<1> DEFINE n == MapRehash(m)
<1>1. Moved(m, I, n, m.size)
  BY RehashKeeps
<1> HIDE DEF n
<1>2. m.size \in Nat /\ Step \in Nat \ {0}
  BY StepAssumption DEF MapOver
<1>3. {j \in Used(m) : j < m.size} = Used(m)
  BY <1>2 DEF Used, Slots
<1>4. Items(n) = Items(m)
  BY <1>1, <1>3 DEF Moved, Items
<1>5. n.count < n.size
  BY <1>1, <1>2 DEF Moved, MapOver
<1> QED
  BY <1>1, <1>4, <1>5 DEF Moved, n

\* map_put adds its item, in whatever table, if the key is new; and replaces
\* the item of the key if there are no collisions.
PutDone(I, m, item, n) ==
  /\ MapOver(n, I)
  /\ Items(n) = WithoutKey(Items(m), item.key) \cup {item}
  /\ n.size = IF m.count = m.size THEN m.size + Step ELSE m.size

LEMMA HashPuts ==
  ASSUME NEW I, Keyed(I), NEW m, MapOver(m, I), NEW item \in I,
         m.count < m.size,
         NoCollision(I) \/ \A x \in Items(m) : x.key # item.key
  PROVE  /\ MapOver(MapHash(m, item), I)
         /\ Items(MapHash(m, item))
              = WithoutKey(Items(m), item.key) \cup {item}
         /\ MapHash(m, item).size = m.size
<1>1. \E i : Storing(I, m, item, i, MapHash(m, item))
  <2>1. CASE \A x \in Items(m) : x.key # item.key
    BY <2>1, HashFresh
  <2>2. CASE \E x \in Items(m) : x.key = item.key
    BY <2>2, HashAgain
  <2> QED
    BY <2>1, <2>2
<1>2. PICK i : Storing(I, m, item, i, MapHash(m, item))
  BY <1>1
<1>3. Stored(I, m, item, i, MapHash(m, item))
  BY <1>2, StoredKeeps
<1> QED
  BY <1>3 DEF Stored

LEMMA PutStores ==
  ASSUME NEW I, Keyed(I), NEW m, MapOver(m, I), NEW item \in I,
         NoCollision(I) \/ \A x \in Items(m) : x.key # item.key
  PROVE  PutDone(I, m, item, MapPut(m, item))
<1>1. CASE m.count = m.size
  <2> DEFINE n == MapRehash(m)
  <2>1. /\ MapOver(n, I) /\ n.count < n.size /\ Items(n) = Items(m)
        /\ n.size = m.size + Step
    BY RehashRoom
  <2>2. MapPut(m, item) = MapHash(n, item)
    BY <1>1 DEF MapPut
  <2> HIDE DEF n
  <2>3. /\ MapOver(MapHash(n, item), I)
        /\ Items(MapHash(n, item))
              = WithoutKey(Items(n), item.key) \cup {item}
        /\ MapHash(n, item).size = n.size
    BY <2>1, HashPuts
  <2> QED
    BY <1>1, <2>1, <2>2, <2>3 DEF PutDone
<1>2. CASE m.count # m.size
  <2>1. m.count < m.size
    <3>1. m.count <= m.size
      BY UsedFinite
    <3>2. m.count \in Nat /\ m.size \in Nat
      BY DEF MapOver
    <3> QED
      BY <1>2, <3>1, <3>2
  <2>2. MapPut(m, item) = MapHash(m, item)
    BY <1>2 DEF MapPut
  <2>3. /\ MapOver(MapHash(m, item), I)
        /\ Items(MapHash(m, item))
              = WithoutKey(Items(m), item.key) \cup {item}
        /\ MapHash(m, item).size = m.size
    BY <2>1, HashPuts
  <2> QED
    BY <1>2, <2>2, <2>3 DEF PutDone
<1> QED
  BY <1>1, <1>2

\* map_remove drops the item of the key and leaves the others in their slots.
RemoveDone(I, m, key, n) ==
  /\ MapOver(n, I) /\ n.size = m.size
  /\ Used(n) = Used(m) \ SlotsOf(m, key)
  /\ \A i \in Used(n) : n.data[i] = m.data[i]
  /\ Items(n) = WithoutKey(Items(m), key)

LEMMA RemoveKeeps ==
  ASSUME NEW I, Keyed(I), NEW m, MapOver(m, I), NEW key \in Nat
  PROVE  RemoveDone(I, m, key, MapRemove(m, key))
<1> DEFINE S == SlotsOf(m, key)
<1>1. CASE S = {}
  <2>1. MapRemove(m, key) = m
    BY <1>1 DEF MapRemove
  <2>2. WithoutKey(Items(m), key) = Items(m)
    BY <1>1 DEF WithoutKey, Items, SlotsOf
  <2> QED
    BY <1>1, <2>1, <2>2 DEF RemoveDone
<1>2. CASE S # {}
  <2> DEFINE i == FirstSlot(m, key, S)
             n == MapRemove(m, key)
             s == m.size
             c == m.count
             D == m.data
             E == [D EXCEPT ![i] = NoItem]
  <2>1. m.size \in Nat /\ S \in SUBSET Slots(m)
    BY DEF MapOver, SlotsOf, Used
  <2>2. i \in S
    BY <1>2, <2>1, FirstSlotIsFirst
  <2>3. n = [m EXCEPT !.data[i] = NoItem, !.count = @ - 1]
    BY <1>2 DEF MapRemove
  <2>4. m = [size |-> s, count |-> c, data |-> D]
    BY DEF MapOver
  <2> HIDE DEF i, n, s, c, D
  <2>5. n = [size |-> s, count |-> c - 1, data |-> E]
    BY <2>3, <2>4
  <2>6. D \in [Slots(m) -> I \cup {NoItem}] /\ i \in Slots(m)
    BY <2>2 DEF MapOver, SlotsOf, Used, D
  <2>7. /\ E \in [Slots(m) -> I \cup {NoItem}] /\ E[i] = NoItem
        /\ \A j \in Slots(m) : j # i => E[j] = D[j]
    BY <2>6
  <2> HIDE DEF E
  <2>8. n.size = s /\ n.count = c - 1 /\ n.data = E
        /\ n = [size |-> n.size, count |-> n.count, data |-> n.data]
    BY <2>5
  <2>9. Slots(n) = Slots(m)
    BY <2>8 DEF Slots, s
  <2>10. Used(m) = {j \in Slots(m) : D[j] # NoItem}
         /\ Used(n) = {j \in Slots(m) : E[j] # NoItem}
    BY <2>8, <2>9 DEF Used, D
  <2>11. i \in Used(m) /\ D[i].key = key
    BY <2>2 DEF SlotsOf, D
  <2>12. Used(n) = Used(m) \ {i} /\ \A j \in Used(n) : E[j] = D[j]
    BY <2>7, <2>10
  <2>13. n.count = Cardinality(Used(n)) /\ n.count \in Nat
    <3>1. IsFiniteSet(Used(m)) /\ c = Cardinality(Used(m)) /\ c \in Nat
      BY UsedFinite DEF MapOver, c
    <3>2. /\ IsFiniteSet(Used(m) \ {i})
          /\ Cardinality(Used(m) \ {i}) =
            IF i \in Used(m) THEN Cardinality(Used(m)) - 1 ELSE Cardinality(Used(m))
      BY <3>1, FS_RemoveElement
    <3>3. Cardinality(Used(m) \ {i}) \in Nat
      BY <3>2, FS_CardinalityType
    <3>4. c - 1 = Cardinality(Used(m) \ {i})
      BY <3>1, <3>2, <2>11
    <3> QED
      BY <2>8, <2>12, <3>3, <3>4
  <2>14. \A j, k \in Used(m) : D[j].key = D[k].key => j = k
    BY DEF MapOver, UniqueKeys, D
  <2>15. UniqueKeys(n)
    BY <2>8, <2>12, <2>14 DEF UniqueKeys
  <2>16. S = {i}
    BY <2>2, <2>11, <2>14 DEF SlotsOf, D
  <2>17. Sized(n.size) /\ (NoCollision(I) => Placed(n))
    BY <2>8, <2>12 DEF MapOver, Placed, s, D
  <2>18. MapOver(n, I)
    BY <2>1, <2>7, <2>8, <2>9, <2>13, <2>15, <2>17 DEF MapOver, s
  <2>19. Items(n) = WithoutKey(Items(m), key)
    <3>1. Items(n) = {E[j] : j \in Used(m) \ {i}}
      BY <2>8, <2>12 DEF Items
    <3>2. {E[j] : j \in Used(m) \ {i}} = {D[j] : j \in Used(m) \ {i}}
      BY <2>12
    <3>3. Items(m) = {D[j] : j \in Used(m)}
      BY DEF Items, D
    <3>4. \A j \in Used(m) : D[j].key = key <=> j = i
      BY <2>11, <2>14
    <3> QED
      BY <3>1, <3>2, <3>3, <3>4 DEF WithoutKey
  <2>20. n.size = m.size /\ \A j \in Used(n) : n.data[j] = m.data[j]
    BY <2>8, <2>12 DEF s, D
  <2>21. Used(n) = Used(m) \ SlotsOf(m, key)
    BY <2>12, <2>16
  <2> QED
    BY <2>18, <2>19, <2>20, <2>21 DEF RemoveDone, n
<1> QED
  BY <1>1, <1>2

\* map_get finds the item of a key, wherever it is.
LEMMA GetFinds ==
  ASSUME NEW I, Keyed(I), NEW m, MapOver(m, I), NEW key \in Nat
  PROVE  /\ MapGet(m, key) = NoItem => \A x \in Items(m) : x.key # key
         /\ MapGet(m, key) # NoItem => /\ MapGet(m, key) \in Items(m)
                                       /\ MapGet(m, key).key = key
         /\ \A x \in Items(m) : x.key = key => MapGet(m, key) = x
<1> DEFINE S == SlotsOf(m, key)
<1>1. CASE S = {}
  <2>1. \A x \in Items(m) : x.key # key
    BY <1>1 DEF SlotsOf, Items
  <2>2. MapGet(m, key) = NoItem
    BY <1>1 DEF MapGet
  <2> QED
    BY <2>1, <2>2
<1>2. CASE S # {}
  <2> DEFINE i == FirstSlot(m, key, S)
  <2>1. m.size \in Nat
    BY DEF MapOver
  <2>2. S \in SUBSET Slots(m)
    BY DEF SlotsOf, Used
  <2>3. i \in S
    BY <1>2, <2>1, <2>2, FirstSlotIsFirst
  <2>4. MapGet(m, key) = m.data[i]
    BY <1>2 DEF MapGet
  <2> HIDE DEF i
  <2>5. i \in Used(m) /\ m.data[i].key = key
    BY <2>3 DEF SlotsOf
  <2>6. m.data[i] # NoItem /\ m.data[i] \in Items(m)
    BY <2>5 DEF Used, Items
  <2>7. \A x \in Items(m) : x.key = key => m.data[i] = x
    <3>1. UniqueKeys(m)
      BY DEF MapOver
    <3> QED
      BY <3>1, <2>5 DEF UniqueKeys, Items
  <2> QED
    BY <2>4, <2>5, <2>6, <2>7
<1> QED
  BY <1>1, <1>2

\* What a map holds are items of I.
LEMMA ItemsTyped ==
  ASSUME NEW I, Keyed(I), NEW m, MapOver(m, I)
  PROVE  Items(m) \subseteq I
BY DEF Items, Used, MapOver

\* A key is stored once.
LEMMA OneItemPerKey ==
  ASSUME NEW I, NEW m, MapOver(m, I), NEW x \in Items(m), NEW y \in Items(m),
         x.key = y.key
  PROVE  x = y
<1>1. UniqueKeys(m)
  BY DEF MapOver
<1> QED
  BY <1>1 DEF UniqueKeys, Items

\* The map a node starts with, and the one map_clear leaves.
LEMMA EmptyMapIs ==
  ASSUME NEW I
  PROVE  MapOver(EmptyMap, I) /\ Items(EmptyMap) = {}
<1>1. Step \in Nat /\ 0 = 0 * Step
  BY StepAssumption
<1>2. Sized(0)
  BY <1>1 DEF Sized
<1> QED
  BY <1>2, BlankIsMap DEF EmptyMap

LEMMA ClearEmpties ==
  ASSUME NEW I, NEW m, MapOver(m, I)
  PROVE  MapOver(MapClear(m), I) /\ Items(MapClear(m)) = {}
<1>1. m.size \in Nat /\ Sized(m.size)
  BY DEF MapOver
<1> QED
  BY <1>1, BlankIsMap DEF MapClear
=============================================================================
