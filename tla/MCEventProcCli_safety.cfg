CONSTANTS
    Hdl = {h1, h2}
    Dev = {d1}
    Attr = {a1, a2}
    EvType = {change, periodic}
    SubId = {i1, i2}
    NoKey = NoKey
    NoType = NoType
    NoId = NoId
SPECIFICATION Spec
SYMMETRY Symmetry
INVARIANT BackRefs
INVARIANT IdsMatch
INVARIANT NoneLeaked
INVARIANT KnownToListeners
PROPERTY ToldUsableId
