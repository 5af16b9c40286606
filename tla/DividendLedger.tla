--------------------------- MODULE DividendLedger ---------------------------
(***************************************************************************)
(* What the dividend contracts promise each account, with no word about    *)
(* shares, lists or loops: what an account has earned only grows, nothing  *)
(* but earnings is ever paid, and a payment settles everything earned.     *)
(***************************************************************************)
EXTENDS Integers

CONSTANT Address

VARIABLES earned, paid      \* functions from Address to Nat

Init == /\ earned = [a \in Address |-> 0]
        /\ paid = [a \in Address |-> 0]

(* Earnings are added, to any accounts, and nobody is paid.                *)
Earn == /\ earned' \in [Address -> Int]
        /\ \A a \in Address : earned'[a] >= earned[a]
        /\ UNCHANGED paid

(* Some accounts are paid all they have earned.                            *)
Settle(accounts) ==
    /\ paid' = [a \in Address |-> IF a \in accounts THEN earned[a] ELSE paid[a]]
    /\ UNCHANGED earned

Next == Earn \/ \E accounts \in SUBSET Address : Settle(accounts)

Spec == Init /\ [][Next]_<< earned, paid >>
=============================================================================
