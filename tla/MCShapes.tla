------------------------------ MODULE MCShapes -------------------------------
\* Small instances of Shapes: a few objects, names and values.
EXTENDS Shapes, TLC

CONSTANTS g, o1, o2, n1, n2, n3, v1, undef

TwoObjects == {g, o1}
ThreeObjects == {g, o1, o2}
TwoNames == {n1, n2}
ThreeNames == {n1, n2, n3}
TwoValues == {undef, v1}
OneValue == {undef}
NameSymmetry == Permutations(Names)
StoreSymmetry == Permutations(Objects \ {g}) \cup Permutations(Names)
==============================================================================
