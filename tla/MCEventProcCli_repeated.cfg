CONSTANTS
    Hdl = {h1}
    Dev = {d1}
    Attr = {a1}
    EvType = {change}
    SubId = {i1}
    NoKey = NoKey
    NoType = NoType
    NoId = NoId
SPECIFICATION Spec
SYMMETRY Symmetry
PROPERTY SentOnce
