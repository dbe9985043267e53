SPECIFICATION Spec
CONSTANTS
    p1 = p1
    p2 = p2
    v1 = v1
    v2 = v2
    Proc = {p1, p2}
    Value = {v1, v2}
    Path = Path
    Real = Real
SYMMETRY MCSymmetry
INVARIANTS
    TypeOK
    NeverTorn
PROPERTIES
    ImplementsAtomicFile
    WriteThrough
