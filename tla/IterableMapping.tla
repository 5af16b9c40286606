--------------------------- MODULE IterableMapping ---------------------------
(***************************************************************************)
(* The library contracts/library/IterableMapping.sol: a mapping from       *)
(* addresses to numbers whose keys can also be walked by index.  A Map is  *)
(* the struct of lines 5-10; a Solidity mapping is a total function whose  *)
(* entries start at zero.  Indexes are the contract's, from 0: the key at  *)
(* index i is map.keys[i + 1].                                             *)
(***************************************************************************)
EXTENDS Accounts, Integers, Sequences

MapType == [keys     : Seq(Address),
            values   : [Address -> Nat],
            indexOf  : [Address -> Nat],
            inserted : [Address -> BOOLEAN]]

EmptyMap == [keys     |-> << >>,
             values   |-> [k \in Address |-> 0],
             indexOf  |-> [k \in Address |-> 0],
             inserted |-> [k \in Address |-> FALSE]]

MapSize(map) == Len(map.keys)

GetKeyAtIndex(map, index) == map.keys[index + 1]

GetIndexOfKey(map, key) == IF map.inserted[key] THEN map.indexOf[key] ELSE -1

----------------------------------------------------------------------------
(* Mutant: the index is read after the push, so it is one too large.       *)
MapSetIndexAfterPush(map, key, val) ==
    IF map.inserted[key]
    THEN [map EXCEPT !.values[key] = val]
    ELSE [keys     |-> Append(map.keys, key),
          values   |-> [map.values EXCEPT ![key] = val],
          indexOf  |-> [map.indexOf EXCEPT ![key] = Len(map.keys) + 1],
          inserted |-> [map.inserted EXCEPT ![key] = TRUE]]

(* set, lines 32-41: a new key goes to the end of the key array, a known   *)
(* key only gets its value replaced.                                       *)
MapSet(map, key, val) ==
    IF map.inserted[key]
    THEN [map EXCEPT !.values[key] = val]
    ELSE [keys     |-> Append(map.keys, key),
          values   |-> [map.values EXCEPT ![key] = val],
          indexOf  |-> [map.indexOf EXCEPT ![key] = Len(map.keys)],
          inserted |-> [map.inserted EXCEPT ![key] = TRUE]]

----------------------------------------------------------------------------
(* Mutant: the key moved into the gap keeps its old index.                 *)
MapRemoveNoReindex(map, key) ==
    IF ~map.inserted[key]
    THEN map
    ELSE LET index   == map.indexOf[key]
             lastKey == map.keys[Len(map.keys)]
         IN  [keys     |-> [i \in 1 .. Len(map.keys) - 1 |->
                              IF i = index + 1 THEN lastKey ELSE map.keys[i]],
              values   |-> [map.values EXCEPT ![key] = 0],
              indexOf  |-> [map.indexOf EXCEPT ![key] = 0],
              inserted |-> [map.inserted EXCEPT ![key] = FALSE]]

(* Mutant: the value is deleted and the key stays inserted.                *)
MapRemoveKeepsInserted(map, key) ==
    IF ~map.inserted[key]
    THEN map
    ELSE LET index   == map.indexOf[key]
             lastKey == map.keys[Len(map.keys)]
         IN  [keys     |-> [i \in 1 .. Len(map.keys) - 1 |->
                              IF i = index + 1 THEN lastKey ELSE map.keys[i]],
              values   |-> [map.values EXCEPT ![key] = 0],
              indexOf  |-> [[map.indexOf EXCEPT ![lastKey] = index]
                              EXCEPT ![key] = 0],
              inserted |-> map.inserted]

(* Mutant: the gap is closed by shifting every later key one place down.   *)
MapRemoveShift(map, key) ==
    IF ~map.inserted[key]
    THEN map
    ELSE LET index == map.indexOf[key]
         IN  [keys     |-> [i \in 1 .. Len(map.keys) - 1 |->
                              IF i > index THEN map.keys[i + 1] ELSE map.keys[i]],
              values   |-> [map.values EXCEPT ![key] = 0],
              indexOf  |-> [k \in Address |->
                              IF k = key THEN 0
                              ELSE IF map.indexOf[k] > index
                                   THEN map.indexOf[k] - 1 ELSE map.indexOf[k]],
              inserted |-> [map.inserted EXCEPT ![key] = FALSE]]

(* remove, lines 43-60: the last key takes the place of the removed one    *)
(* and the array loses its last slot.  The order of lines 55 and 56        *)
(* matters when the removed key is itself the last one.                    *)
MapRemove(map, key) ==
    IF ~map.inserted[key]
    THEN map
    ELSE LET index   == map.indexOf[key]
             lastKey == map.keys[Len(map.keys)]
         IN  [keys     |-> [i \in 1 .. Len(map.keys) - 1 |->
                              IF i = index + 1 THEN lastKey ELSE map.keys[i]],
              values   |-> [map.values EXCEPT ![key] = 0],
              indexOf  |-> [[map.indexOf EXCEPT ![lastKey] = index]
                              EXCEPT ![key] = 0],
              inserted |-> [map.inserted EXCEPT ![key] = FALSE]]

----------------------------------------------------------------------------
(* The key array and the index table are inverse to each other, and a key  *)
(* that was removed has left nothing behind.                               *)
KeysAreIndexed(map) ==
    \A i \in 1 .. Len(map.keys) : /\ map.inserted[map.keys[i]]
                                  /\ map.indexOf[map.keys[i]] = i - 1

IndexesHitTheirKeys(map) ==
    \A k \in Address : map.inserted[k] => /\ map.indexOf[k] < Len(map.keys)
                                          /\ map.keys[map.indexOf[k] + 1] = k

RemovedLeavesNothing(map) ==
    \A k \in Address : ~map.inserted[k] => map.values[k] = 0 /\ map.indexOf[k] = 0

WellFormed(map) == /\ KeysAreIndexed(map)
                   /\ IndexesHitTheirKeys(map)
                   /\ RemovedLeavesNothing(map)
=============================================================================
