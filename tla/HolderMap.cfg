SPECIFICATION Spec
CONSTANTS
    Address = {a1, a2, a3, a4}
    Values = {1, 2}
INVARIANTS
    TypeOK
    MapIsWellFormed
PROPERTIES
    OnlyTheLastKeyMoves
    ImplementsAbstractMap
