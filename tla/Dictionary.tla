----------------------------- MODULE Dictionary -----------------------------
(* What qrtr/src/map.h promises: a map holds at most one item per key.     *)
CONSTANTS Key, Item, NoItem
VARIABLE dict

Init == dict = [k \in Key |-> NoItem]

Store(k, x) == dict' = [dict EXCEPT ![k] = x]
Forget(k)   == dict' = [dict EXCEPT ![k] = NoItem]
ForgetAll   == dict' = [k \in Key |-> NoItem]

Next == \/ \E k \in Key, x \in Item : Store(k, x)
        \/ \E k \in Key : Forget(k)
        \/ ForgetAll

Spec == Init /\ [][Next]_dict
=============================================================================
