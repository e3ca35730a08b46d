CONSTANTS
    g = g
    o1 = o1
    o2 = o2
    n1 = n1
    n2 = n2
    n3 = n3
    v1 = v1
    undef = undef
    Objects <- TwoObjects
    GlobalObject = g
    Names <- ThreeNames
    Values <- OneValue
    Undefined = undef
SPECIFICATION Spec
SYMMETRY NameSymmetry
INVARIANTS
    MembersArePacked
    ChildExtendsParent
    LayoutsAreShared
PROPERTIES
    ShapesAreImmutable
