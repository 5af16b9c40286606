---------------------------- MODULE HolderMapProofs ----------------------------
(***************************************************************************)
(* The holder list keeps its shape, and implements a partial function, for *)
(* every set of addresses and of values.                                   *)
(***************************************************************************)
EXTENDS HolderMap, IterableMappingTheorems

Good == GoodMap(map)

(* Every reachable list is a good map: the invariant the others rest on.   *)
LEMMA SpecKeepsGoodMap == Spec => []Good
<1>1. Init => Good
  BY EmptyMapGood DEF Init, Good
<1>2. Good /\ [Next]_map => Good'
  <2> SUFFICES ASSUME GoodMap(map), [Next]_map PROVE GoodMap(map')
    BY DEF Good
  <2>1. ASSUME NEW key \in Address, NEW val \in Values, Set(key, val)
        PROVE  GoodMap(map')
    BY <2>1, MapSetGood, ValuesAssumption DEF Set
  <2>2. ASSUME NEW key \in Address, Remove(key)
        PROVE  GoodMap(map')
    BY <2>2, MapRemoveGood DEF Remove
  <2>3. CASE UNCHANGED map
    BY <2>3
  <2> QED  BY <2>1, <2>2, <2>3 DEF Next
<1> QED  BY <1>1, <1>2, PTL DEF Spec

(* The indexes of IterableMapping.sol:6-9 never leave the key array.       *)
THEOREM TypeCorrect == Spec => []TypeOK
<1>1. Good => TypeOK
  <2> SUFFICES ASSUME GoodMap(map) PROVE TypeOK
    BY DEF Good
  <2>1. map \in MapType
    BY DEF GoodMap
  <2>2. \A k \in Address : map.indexOf[k] <= Len(map.keys)
    <3> SUFFICES ASSUME NEW k \in Address PROVE map.indexOf[k] <= Len(map.keys)
      OBVIOUS
    <3>1. Len(map.keys) \in Nat /\ map.indexOf[k] \in Nat
      BY DEF GoodMap, MapType
    <3>2. CASE map.inserted[k]
      BY <3>1, <3>2 DEF GoodMap, WellFormed, IndexesHitTheirKeys
    <3>3. CASE ~map.inserted[k]
      BY <3>1, <3>3 DEF GoodMap, WellFormed, RemovedLeavesNothing
    <3> QED  BY <3>2, <3>3
  <2>3. \A i \in 1 .. Len(map.keys) : map.indexOf[map.keys[i]] < Len(map.keys)
    BY DEF GoodMap, WellFormed, KeysAreIndexed, MapType
  <2> QED  BY <2>1, <2>2, <2>3 DEF TypeOK
<1> QED  BY <1>1, SpecKeepsGoodMap, PTL

(* Walking the key array meets each present key once, and indexOf finds it *)
(* (what TokenDividendTracker.sol:185-209 relies on).                      *)
THEOREM AlwaysWellFormed == Spec => []MapIsWellFormed
  BY SpecKeepsGoodMap, PTL DEF Good, GoodMap, MapIsWellFormed

(* A step of the list is a step of a partial function, or leaves it alone  *)
(* (IterableMapping.sol:32-60).                                            *)
THEOREM ListImplementsAbstractMap == Spec => ImplementsAbstractMap
<1>1. Init => Abstract!Init
  BY DEF Init, Abstract!Init, Contents, EmptyMap
<1>2. Good /\ [Next]_map => [Abstract!Next]_Contents
  <2> SUFFICES ASSUME GoodMap(map), [Next]_map PROVE [Abstract!Next]_Contents
    BY DEF Good
  <2>1. ASSUME NEW key \in Address, NEW val \in Values, Set(key, val)
        PROVE  Abstract!Bind(key, val)
    <3>1. /\ map'.inserted = [map.inserted EXCEPT ![key] = TRUE]
          /\ map'.values = [map.values EXCEPT ![key] = val]
      BY <2>1, MapSetGood, ValuesAssumption DEF Set
    <3>2. {a \in Address : map'.inserted[a]} = {a \in Address : map.inserted[a]} \union {key}
      BY <3>1 DEF GoodMap, MapType
    <3>3. \A k \in Address : map'.values[k] = IF k = key THEN val ELSE map.values[k]
      BY <3>1 DEF GoodMap, MapType
    <3> QED  BY <3>2, <3>3 DEF Abstract!Bind, Contents
  <2>2. ASSUME NEW key \in Address, Remove(key)
        PROVE  Abstract!Unbind(key)
    <3>1. /\ map'.inserted = [map.inserted EXCEPT ![key] = FALSE]
          /\ map'.values = [map.values EXCEPT ![key] = 0]
      BY <2>2, MapRemoveGood DEF Remove
    <3>2. {a \in Address : map'.inserted[a]} = {a \in Address : map.inserted[a]} \ {key}
      BY <3>1 DEF GoodMap, MapType
    <3>3. \A k \in Address \ {key} : map'.values[k] = map.values[k]
      BY <3>1 DEF GoodMap, MapType
    <3> QED  BY <3>2, <3>3 DEF Abstract!Unbind, Contents
  <2>3. CASE UNCHANGED map
    BY <2>3 DEF Contents
  <2> QED  BY <2>1, <2>2, <2>3 DEF Next, Abstract!Next
<1> QED  BY <1>1, <1>2, SpecKeepsGoodMap, PTL DEF Spec, ImplementsAbstractMap, Abstract!Spec

(* A call moves no key that stays but the last one, and that one only into *)
(* the gap of the key removed (IterableMapping.sol:51-59).                 *)
THEOREM OtherKeysStay == Spec => OnlyTheLastKeyMoves
<1>1. Good /\ [Next]_map => MovesOnlyTheLastKey
  <2> SUFFICES ASSUME GoodMap(map), [Next]_map,
                      NEW k \in Address, map.inserted[k], map'.inserted[k],
                      map'.indexOf[k] # map.indexOf[k]
               PROVE  /\ k = map.keys[Len(map.keys)]
                      /\ \E removed \in Address :
                            /\ map.inserted[removed]
                            /\ ~map'.inserted[removed]
                            /\ map'.indexOf[k] = map.indexOf[removed]
    BY DEF Good, MovesOnlyTheLastKey
  <2>0. map.indexOf \in [Address -> Nat] /\ map.inserted \in [Address -> BOOLEAN]
    BY DEF GoodMap, MapType
  <2>1. ASSUME NEW key \in Address, NEW val \in Values, Set(key, val)
        PROVE  FALSE
    <3>1. CASE map.inserted[key]
      <4>1. map'.indexOf = map.indexOf
        BY <2>1, <3>1 DEF Set, MapSet
      <4> QED  BY <4>1
    <3>2. CASE ~map.inserted[key]
      <4>1. map'.indexOf = [map.indexOf EXCEPT ![key] = Len(map.keys)]
        BY <2>1, <3>2 DEF Set, MapSet
      <4>2. k # key
        BY <3>2
      <4> QED  BY <2>0, <4>1, <4>2
    <3> QED  BY <3>1, <3>2
  <2>2. ASSUME NEW key \in Address, Remove(key)
        PROVE  /\ k = map.keys[Len(map.keys)]
               /\ map.inserted[key]
               /\ ~map'.inserted[key]
               /\ map'.indexOf[k] = map.indexOf[key]
    <3>1. map.inserted[key]
      BY <2>2 DEF Remove, MapRemove
    <3>2. /\ map'.inserted = [map.inserted EXCEPT ![key] = FALSE]
          /\ map'.indexOf = [[map.indexOf EXCEPT ![map.keys[Len(map.keys)]] = map.indexOf[key]]
                               EXCEPT ![key] = 0]
      BY <2>2, <3>1 DEF Remove, MapRemove
    <3>3. ~map'.inserted[key]
      BY <2>0, <3>2
    <3>4. k # key
      BY <3>3
    <3>5. k = map.keys[Len(map.keys)]
      BY <2>0, <3>2, <3>4
    <3>6. map'.indexOf[k] = map.indexOf[key]
      BY <2>0, <3>2, <3>4, <3>5
    <3> QED  BY <3>1, <3>3, <3>5, <3>6
  <2>3. CASE UNCHANGED map
    BY <2>3
  <2> QED  BY <2>1, <2>2, <2>3 DEF Next
<1>2. Spec /\ []Good => OnlyTheLastKeyMoves
  BY <1>1, PTL DEF Spec, OnlyTheLastKeyMoves
<1> QED  BY <1>2, SpecKeepsGoodMap, PTL
=============================================================================
