----------------------------- MODULE AbstractMap -----------------------------
(***************************************************************************)
(* What an iterable mapping promises its users: it is a partial function   *)
(* from addresses to numbers.  set binds one key, remove unbinds one, and  *)
(* no other binding is ever disturbed.                                     *)
(***************************************************************************)
CONSTANTS Address, Values      \* the keys, and the numbers a key can be bound to

VARIABLE contents       \* a function from a subset of Address to Values

Init == contents = [k \in {} |-> 0]

Bind(key, val) ==
    contents' = [k \in DOMAIN contents \union {key} |->
                    IF k = key THEN val ELSE contents[k]]

Unbind(key) ==
    contents' = [k \in DOMAIN contents \ {key} |-> contents[k]]

Next == \E key \in Address : \/ \E val \in Values : Bind(key, val)
                             \/ Unbind(key)

Spec == Init /\ [][Next]_contents
=============================================================================
