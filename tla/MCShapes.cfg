CONSTANTS
    g = g
    o1 = o1
    o2 = o2
    n1 = n1
    n2 = n2
    n3 = n3
    v1 = v1
    undef = undef
    Objects <- ThreeObjects
    GlobalObject = g
    Names <- TwoNames
    Values <- TwoValues
    Undefined = undef
SPECIFICATION Spec
SYMMETRY StoreSymmetry
INVARIANTS
    ObjectFitsShape
PROPERTIES
    ImplementsStore
