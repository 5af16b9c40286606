------------------------------ MODULE HolderMap ------------------------------
(***************************************************************************)
(* One IterableMapping.Map and the calls a contract makes on it: the       *)
(* holder list of TokenDividendTracker.sol (line 15), changed by set at    *)
(* line 159 and by remove at lines 64 and 163.                             *)
(***************************************************************************)
EXTENDS IterableMapping

CONSTANT Values         \* the values a caller stores: a bound for TLC

ASSUME ValuesAssumption == Values \subseteq Nat

VARIABLE map

Init == map = EmptyMap

(* tokenHoldersMap.set(account, newBalance), TokenDividendTracker.sol:159  *)
Set(key, val) == map' = MapSet(map, key, val)

(* tokenHoldersMap.remove(account), TokenDividendTracker.sol:64 and 163    *)
Remove(key) == map' = MapRemove(map, key)

Next == \E key \in Address : \/ \E val \in Values : Set(key, val)
                             \/ Remove(key)

Spec == Init /\ [][Next]_map

----------------------------------------------------------------------------
(* The structure keeps its shape: every stored index addresses a slot of   *)
(* the key array of IterableMapping.sol:6, or is zero.                     *)
TypeOK == /\ map \in MapType
          /\ \A k \in Address : map.indexOf[k] <= Len(map.keys)
          /\ \A i \in 1 .. Len(map.keys) : map.indexOf[map.keys[i]] < Len(map.keys)

(* Whatever sequence of set and remove ran, walking keys[0 .. size-1] meets *)
(* every present key exactly once and nothing else, and indexOf finds it:   *)
(* what the loop of TokenDividendTracker.sol:185-209 and getAccount rely on. *)
MapIsWellFormed == WellFormed(map)

(* A step moves no key that stays, except that the last key may take the   *)
(* place of the one removed (IterableMapping.sol:51-59): a walk by index    *)
(* in progress can lose or repeat only that one key.                        *)
MovesOnlyTheLastKey ==
    \A k \in Address :
        map.inserted[k] /\ map'.inserted[k] =>
            \/ map'.indexOf[k] = map.indexOf[k]
            \/ /\ k = map.keys[Len(map.keys)]
               /\ \E removed \in Address :
                     /\ map.inserted[removed]
                     /\ ~map'.inserted[removed]
                     /\ map'.indexOf[k] = map.indexOf[removed]

OnlyTheLastKeyMoves == [][MovesOnlyTheLastKey]_map

(* The struct is a faithful partial function: the bindings of the inserted *)
(* keys change as AbstractMap says (IterableMapping.sol:32-60).             *)
Contents == [k \in {a \in Address : map.inserted[a]} |-> map.values[k]]

Abstract == INSTANCE AbstractMap WITH contents <- Contents

ImplementsAbstractMap == Abstract!Spec
=============================================================================
