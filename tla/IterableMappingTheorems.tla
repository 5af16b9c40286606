----------------------- MODULE IterableMappingTheorems -----------------------
(***************************************************************************)
(* What set and remove of IterableMapping.sol do to a well-formed map, for *)
(* every set of addresses.  The proofs of the modules that keep such a map *)
(* cite these lemmas and never look into the struct.                       *)
(***************************************************************************)
EXTENDS IterableMapping, TLAPS

(* A map of the right type that is also well formed.                       *)
GoodMap(map) == map \in MapType /\ WellFormed(map)

(* The empty map is a good map.                                            *)
LEMMA EmptyMapGood == GoodMap(EmptyMap)
  BY DEF GoodMap, MapType, EmptyMap, WellFormed, KeysAreIndexed,
         IndexesHitTheirKeys, RemovedLeavesNothing

(* Four fields of the right types make a map.                              *)
LEMMA MapsAreRecords ==
  ASSUME NEW keys \in Seq(Address), NEW values \in [Address -> Nat],
         NEW indexOf \in [Address -> Nat], NEW inserted \in [Address -> BOOLEAN]
  PROVE  [keys |-> keys, values |-> values,
          indexOf |-> indexOf, inserted |-> inserted] \in MapType
  BY DEF MapType

(* A function on 1 .. n is a sequence of length n.                         *)
LEMMA FunctionsAreSequences ==
  ASSUME NEW n \in Nat, NEW f \in [1 .. n -> Address]
  PROVE  f \in Seq(Address) /\ Len(f) = n
  OBVIOUS

(* set (IterableMapping.sol:32-41) keeps a map good and binds one key.     *)
LEMMA MapSetGood ==
  ASSUME NEW map, GoodMap(map), NEW key \in Address, NEW val \in Nat
  PROVE  /\ GoodMap(MapSet(map, key, val))
         /\ MapSet(map, key, val).inserted = [map.inserted EXCEPT ![key] = TRUE]
         /\ MapSet(map, key, val).values = [map.values EXCEPT ![key] = val]
<1> DEFINE new == MapSet(map, key, val)
<1>1. CASE map.inserted[key]
  <2>1. new = [map EXCEPT !.values[key] = val]
    BY <1>1 DEF MapSet
  <2>2. new \in MapType
    <3>1. /\ map \in MapType
          /\ map = [keys |-> map.keys, values |-> map.values,
                    indexOf |-> map.indexOf, inserted |-> map.inserted]
      BY DEF GoodMap, MapType
    <3>2. new = [keys |-> map.keys, values |-> [map.values EXCEPT ![key] = val],
                 indexOf |-> map.indexOf, inserted |-> map.inserted]
      BY <2>1, <3>1
    <3>3. /\ map.keys \in Seq(Address)
          /\ [map.values EXCEPT ![key] = val] \in [Address -> Nat]
          /\ map.indexOf \in [Address -> Nat]
          /\ map.inserted \in [Address -> BOOLEAN]
      BY <3>1 DEF MapType
    <3> HIDE DEF new
    <3> QED  BY <3>2, <3>3, MapsAreRecords
  <2>3. WellFormed(new)
    BY <2>1, <1>1 DEF GoodMap, MapType, WellFormed, KeysAreIndexed,
                      IndexesHitTheirKeys, RemovedLeavesNothing
  <2>4. /\ new.inserted = [map.inserted EXCEPT ![key] = TRUE]
        /\ new.values = [map.values EXCEPT ![key] = val]
    BY <2>1, <1>1 DEF GoodMap, MapType
  <2> QED  BY <2>2, <2>3, <2>4 DEF GoodMap
<1>2. CASE ~map.inserted[key]
  <2>1. /\ new.keys = Append(map.keys, key)
        /\ new.values = [map.values EXCEPT ![key] = val]
        /\ new.indexOf = [map.indexOf EXCEPT ![key] = Len(map.keys)]
        /\ new.inserted = [map.inserted EXCEPT ![key] = TRUE]
        /\ new \in MapType
    BY <1>2 DEF MapSet, GoodMap, MapType
  <2>2. /\ Len(new.keys) = Len(map.keys) + 1
        /\ \A i \in 1 .. Len(map.keys) : new.keys[i] = map.keys[i]
        /\ new.keys[Len(map.keys) + 1] = key
        /\ Len(map.keys) \in Nat
    BY <2>1 DEF GoodMap, MapType
  <2>3. KeysAreIndexed(new)
    <3> SUFFICES ASSUME NEW i \in 1 .. Len(map.keys) + 1
                 PROVE  new.inserted[new.keys[i]] /\ new.indexOf[new.keys[i]] = i - 1
      BY <2>2 DEF KeysAreIndexed
    <3>1. CASE i = Len(map.keys) + 1
      BY <3>1, <2>1, <2>2 DEF GoodMap, MapType
    <3>2. CASE i # Len(map.keys) + 1
      <4>1. /\ i \in 1 .. Len(map.keys)
            /\ new.keys[i] = map.keys[i]
            /\ map.keys[i] \in Address
        BY <3>2, <2>2 DEF GoodMap, MapType
      <4>2. map.inserted[map.keys[i]] /\ map.indexOf[map.keys[i]] = i - 1
        BY <4>1 DEF GoodMap, WellFormed, KeysAreIndexed
      <4>3. map.keys[i] # key
        BY <1>2, <4>2
      <4>4. new.inserted[map.keys[i]] /\ new.indexOf[map.keys[i]] = i - 1
        BY <4>1, <4>2, <4>3, <2>1 DEF GoodMap, MapType
      <4> QED  BY <4>1, <4>4
    <3> QED  BY <3>1, <3>2
  <2>4. IndexesHitTheirKeys(new)
    <3> SUFFICES ASSUME NEW k \in Address, new.inserted[k]
                 PROVE  /\ new.indexOf[k] < Len(map.keys) + 1
                        /\ new.keys[new.indexOf[k] + 1] = k
      BY <2>2 DEF IndexesHitTheirKeys
    <3>1. CASE k = key
      BY <3>1, <2>1, <2>2 DEF GoodMap, MapType
    <3>2. CASE k # key
      <4>1. map.inserted[k] /\ new.indexOf[k] = map.indexOf[k]
        BY <3>2, <2>1 DEF GoodMap, MapType
      <4>2. /\ map.indexOf[k] \in Nat
            /\ map.indexOf[k] < Len(map.keys)
            /\ map.keys[map.indexOf[k] + 1] = k
        BY <4>1 DEF GoodMap, MapType, WellFormed, IndexesHitTheirKeys
      <4>3. map.indexOf[k] + 1 \in 1 .. Len(map.keys)
        BY <4>2, <2>2
      <4>4. new.keys[map.indexOf[k] + 1] = k
        BY <4>2, <4>3, <2>2
      <4> QED  BY <4>1, <4>2, <4>4, <2>2
    <3> QED  BY <3>1, <3>2
  <2>5. RemovedLeavesNothing(new)
    BY <1>2, <2>1 DEF GoodMap, MapType, WellFormed, RemovedLeavesNothing
  <2> QED  BY <2>1, <2>3, <2>4, <2>5 DEF GoodMap, WellFormed
<1> QED  BY <1>1, <1>2

(* remove (IterableMapping.sol:43-60) keeps a map good and unbinds one key. *)
LEMMA MapRemoveGood ==
  ASSUME NEW map, GoodMap(map), NEW key \in Address
  PROVE  /\ GoodMap(MapRemove(map, key))
         /\ MapRemove(map, key).inserted = [map.inserted EXCEPT ![key] = FALSE]
         /\ MapRemove(map, key).values = [map.values EXCEPT ![key] = 0]
<1> DEFINE new == MapRemove(map, key)
           n   == Len(map.keys)
           gap == map.indexOf[key] + 1
<1>1. CASE ~map.inserted[key]
  BY <1>1 DEF MapRemove, GoodMap, MapType, WellFormed, RemovedLeavesNothing
<1>2. CASE map.inserted[key]
  <2>1. /\ n \in Nat \ {0}
        /\ gap \in 1 .. n
        /\ map.keys[gap] = key
        /\ \A i \in 1 .. n : map.keys[i] \in Address
    BY <1>2 DEF GoodMap, MapType, WellFormed, IndexesHitTheirKeys
  <2>2. /\ new.keys = [i \in 1 .. n - 1 |->
                          IF i = gap THEN map.keys[n] ELSE map.keys[i]]
        /\ new.values = [map.values EXCEPT ![key] = 0]
        /\ new.indexOf = [[map.indexOf EXCEPT ![map.keys[n]] = gap - 1]
                            EXCEPT ![key] = 0]
        /\ new.inserted = [map.inserted EXCEPT ![key] = FALSE]
    <3> SUFFICES new = [keys     |-> [i \in 1 .. n - 1 |->
                                       IF i = gap THEN map.keys[n] ELSE map.keys[i]],
                        values   |-> [map.values EXCEPT ![key] = 0],
                        indexOf  |-> [[map.indexOf EXCEPT ![map.keys[n]] = gap - 1]
                                        EXCEPT ![key] = 0],
                        inserted |-> [map.inserted EXCEPT ![key] = FALSE]]
      OBVIOUS
    <3>1. gap - 1 = map.indexOf[key]
      BY DEF GoodMap, MapType
    <3> QED  BY <1>2, <3>1 DEF MapRemove
  <2>3. /\ new.keys \in Seq(Address)
        /\ Len(new.keys) = n - 1
    <3>1. n - 1 \in Nat /\ new.keys \in [1 .. n - 1 -> Address]
      BY <2>1, <2>2
    <3> HIDE DEF new, n
    <3> QED  BY <3>1, FunctionsAreSequences
  <2>4. new \in MapType
    <3>1. new = [keys |-> new.keys, values |-> new.values,
                 indexOf |-> new.indexOf, inserted |-> new.inserted]
      BY <1>2 DEF MapRemove
    <3> DEFINE index == gap - 1
    <3>a. index \in Nat
      BY <2>1
    <3>b. /\ map.values \in [Address -> Nat]
          /\ map.indexOf \in [Address -> Nat]
          /\ map.inserted \in [Address -> BOOLEAN]
      BY DEF GoodMap, MapType
    <3>c. /\ new.values = [map.values EXCEPT ![key] = 0]
          /\ new.indexOf = [[map.indexOf EXCEPT ![map.keys[n]] = index]
                              EXCEPT ![key] = 0]
          /\ new.inserted = [map.inserted EXCEPT ![key] = FALSE]
      BY <2>2
    <3> HIDE DEF new, index, n, gap
    <3>2. /\ new.values \in [Address -> Nat]
          /\ new.indexOf \in [Address -> Nat]
          /\ new.inserted \in [Address -> BOOLEAN]
      BY <3>a, <3>b, <3>c
    <3>3. [keys |-> new.keys, values |-> new.values,
           indexOf |-> new.indexOf, inserted |-> new.inserted] \in MapType
      BY <3>2, <2>3, MapsAreRecords
    <3> QED  BY <3>1, <3>3
  <2>5. \A i \in 1 .. n : /\ map.inserted[map.keys[i]]
                          /\ map.indexOf[map.keys[i]] = i - 1
    BY DEF GoodMap, WellFormed, KeysAreIndexed
  <2>6. KeysAreIndexed(new)
    <3> SUFFICES ASSUME NEW i \in 1 .. n - 1
                 PROVE  new.inserted[new.keys[i]] /\ new.indexOf[new.keys[i]] = i - 1
      BY <2>3 DEF KeysAreIndexed
    <3> DEFINE k == new.keys[i]
    <3>1. k = IF i = gap THEN map.keys[n] ELSE map.keys[i]
      BY <2>2
    <3>2. map.keys \in [1 .. n -> Address] /\ map.indexOf \in [Address -> Nat]
      BY DEF GoodMap, MapType
    <3> HIDE DEF k
    <3>3. /\ k # map.keys[gap]
          /\ \E j \in 1 .. n : k = map.keys[j]
          /\ i - 1 = IF k = map.keys[n] THEN gap - 1 ELSE map.indexOf[k]
      <4>1. \A j \in 1 .. n : map.indexOf[map.keys[j]] = j - 1
        BY <2>5
      <4>2. n \in Nat \ {0} /\ gap \in 1 .. n /\ k \in Address
        BY <3>1, <2>1
      <4> HIDE DEF n, gap
      <4>3. k # map.keys[gap] /\ \E j \in 1 .. n : k = map.keys[j]
        <5>1. CASE i = gap
          <6>1. k = map.keys[n] /\ n # gap /\ n \in 1 .. n
            BY ONLY <5>1, <3>1, <4>2, i \in 1 .. n - 1
          <6> QED  BY ONLY <6>1, <4>1, <4>2
        <5>2. CASE i # gap
          <6>1. k = map.keys[i] /\ i \in 1 .. n
            BY ONLY <5>2, <3>1, <4>2, i \in 1 .. n - 1
          <6> QED  BY ONLY <5>2, <6>1, <4>1, <4>2
        <5> QED  BY ONLY <5>1, <5>2
      <4>4. CASE i = gap
        BY ONLY <4>3, <4>4, <3>1, <3>2, <4>1, <4>2, i \in 1 .. n - 1
      <4>5. CASE i # gap
        <5>1. k = map.keys[i] /\ k # map.keys[n]
          BY ONLY <4>5, <3>1, <3>2, <4>1, <4>2, i \in 1 .. n - 1
        <5> QED  BY ONLY <4>3, <5>1, <4>1, <4>2, i \in 1 .. n - 1
      <4> QED  BY ONLY <4>3, <4>4, <4>5
    <3>4. new.indexOf[k] = i - 1
      BY <3>2, <3>3, <2>1, <2>2
    <3>5. new.inserted[k]
      <4>1. map.inserted[k]
        BY <3>3, <2>5
      <4> QED  BY <4>1, <3>3, <2>1, <2>2 DEF GoodMap, MapType
    <3> QED  BY <3>4, <3>5 DEF k
  <2>7. IndexesHitTheirKeys(new)
    <3> SUFFICES ASSUME NEW k \in Address, new.inserted[k]
                 PROVE  new.indexOf[k] < n - 1 /\ new.keys[new.indexOf[k] + 1] = k
      BY <2>3 DEF IndexesHitTheirKeys
    <3>1. k # key /\ map.inserted[k]
      BY <2>2 DEF GoodMap, MapType
    <3>2. map.indexOf[k] < n /\ map.indexOf[k] \in Nat /\ map.keys[map.indexOf[k] + 1] = k
      BY <3>1 DEF GoodMap, MapType, WellFormed, IndexesHitTheirKeys
    <3>3. CASE k = map.keys[n]
      <4>1. gap # n
        BY <3>1, <3>3, <2>1
      <4>2. new.indexOf[k] = gap - 1
        BY <3>1, <3>3, <2>1, <2>2 DEF GoodMap, MapType
      <4> QED  BY <4>1, <4>2, <3>3, <2>1, <2>2
    <3>4. CASE k # map.keys[n]
      <4>1. new.indexOf[k] = map.indexOf[k]
        BY <3>1, <3>4, <2>1, <2>2 DEF GoodMap, MapType
      <4>2. map.indexOf[k] + 1 # n /\ map.indexOf[k] + 1 # gap
        BY <3>1, <3>2, <3>4, <2>1
      <4> QED  BY <4>1, <4>2, <3>2, <2>1, <2>2
    <3> QED  BY <3>3, <3>4
  <2>8. RemovedLeavesNothing(new)
    <3> SUFFICES ASSUME NEW k \in Address, ~new.inserted[k]
                 PROVE  new.values[k] = 0 /\ new.indexOf[k] = 0
      BY DEF RemovedLeavesNothing
    <3>1. CASE k = key
      BY <3>1, <2>2 DEF GoodMap, MapType
    <3>2. CASE k # key
      <4>1. ~map.inserted[k]
        BY <3>2, <2>2 DEF GoodMap, MapType
      <4>2. k # map.keys[n]
        BY <4>1, <2>1, <2>5
      <4> QED  BY <4>1, <4>2, <3>2, <2>1, <2>2
                  DEF GoodMap, MapType, WellFormed, RemovedLeavesNothing
    <3> QED  BY <3>1, <3>2
  <2> QED  BY <2>2, <2>4, <2>6, <2>7, <2>8 DEF GoodMap, WellFormed
<1> QED  BY <1>1, <1>2
=============================================================================
