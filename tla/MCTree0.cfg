CONSTANTS
    id1 = id1
    id2 = id2
    Compositions <- MCCompositions
    Ids <- MCIds
    Columns <- MCColumns
    Hash <- MCHash
    NotSeen = NotSeen
SPECIFICATION Spec
SYMMETRY Symmetry
INVARIANTS
    IdsResolveToOwnColumn
    LayoutDescribesTree
    ComposableNeverPanics
CHECK_DEADLOCK FALSE
