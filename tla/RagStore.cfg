CONSTANTS
    Paths = {a, b}
    Indexes = {0}
    Texts = {new, old}
    NoText = NoText
    Searchers = {s1}
    SearchLimit = 1
    MaxRows = 3
SYMMETRY Symmetry
SPECIFICATION Spec
INVARIANTS
    TypeOK
    VectorsAgree
PROPERTIES
    KeepsMap
