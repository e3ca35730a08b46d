----------------------------- MODULE ShapesProofs ----------------------------
(***************************************************************************)
(* Proofs about Shapes, for any objects, names and values.  The inductive  *)
(* invariant ShapeInv adds to the checked invariants what they lean on:    *)
(* the first shape is empty, and every other shape hangs under an edge.    *)
(***************************************************************************)
EXTENDS Shapes, TLAPS

RootIsEmpty ==
    /\ EmptyShape \in ShapeIds
    /\ shapes[EmptyShape].size = 0
    /\ shapes[EmptyShape].members = [m \in Names |-> NoIndex]

EveryShapeHasParent ==
    \A t \in ShapeIds \ {EmptyShape} :
        \E s \in ShapeIds, m \in Names : shapes[s].children[m] = t

TreeInv ==
    /\ RootIsEmpty
    /\ EveryShapeHasParent
    /\ MembersArePacked
    /\ ChildExtendsParent
    /\ LayoutsAreShared

ShapeInv == TypeOK /\ TreeInv /\ ObjectFitsShape

\* A child edge may be added to shape s for the name m.
MayGrow(s, m) ==
    /\ s \in ShapeIds
    /\ m \in Names
    /\ shapes[s].members[m] = NoIndex
    /\ shapes[s].children[m] = NoShape
------------------------------------------------------------------------------
\* What GrowTree does to each shape: the parent gets the edge, the new shape
\* comes last, and the others keep everything.
LEMMA GrowTreeEffect ==
    ASSUME TypeOK, NEW s, NEW m, MayGrow(s, m), GrowTree(s, shapes[s].size, m)
    PROVE  /\ shapes' \in Seq(Shape)
           /\ Len(shapes') = Len(shapes) + 1
           /\ \A t \in ShapeIds :
                /\ shapes'[t].size = shapes[t].size
                /\ shapes'[t].members = shapes[t].members
                /\ \A n \in Names : shapes'[t].children[n] =
                     IF t = s /\ n = m THEN Len(shapes) + 1 ELSE shapes[t].children[n]
           /\ shapes'[Len(shapes) + 1] = ChildShape(s, shapes[s].size, m)
<1> DEFINE linked == [shapes EXCEPT ![s].children[m] = Len(shapes) + 1]
           child  == ChildShape(s, shapes[s].size, m)
<1>1. /\ shapes \in Seq(Shape) /\ Len(shapes) \in Nat
      /\ DOMAIN shapes = 1 .. Len(shapes)
      /\ \A t \in 1 .. Len(shapes) : shapes[t] \in Shape
  BY DEF TypeOK
<1>2. s \in 1 .. Len(shapes) /\ m \in Names
  BY DEF MayGrow, ShapeIds
<1>3. /\ shapes[s].children \in [Names -> Nat]
      /\ shapes[s].members \in [Names -> Nat \cup {NoIndex}]
      /\ shapes[s].size \in Nat
  BY <1>1, <1>2 DEF Shape
<1>4. [shapes[s] EXCEPT !.children[m] = Len(shapes) + 1] \in Shape
  <2>1. [shapes[s].children EXCEPT ![m] = Len(shapes) + 1] \in [Names -> Nat]
    <3>1. \A f \in [Names -> Nat], k \in Nat : [f EXCEPT ![m] = k] \in [Names -> Nat]
      OBVIOUS
    <3>2. Len(shapes) + 1 \in Nat
      BY <1>1
    <3> QED BY <1>3, <3>1, <3>2
  <2>2. \A r \in Shape, c \in [Names -> Nat] : [r EXCEPT !.children = c] \in Shape
    <3> SUFFICES ASSUME NEW r \in Shape, NEW c \in [Names -> Nat]
                 PROVE  [r EXCEPT !.children = c] \in Shape
      OBVIOUS
    <3>1. [r EXCEPT !.children = c] =
            [size |-> r.size, children |-> c, members |-> r.members]
      BY DEF Shape
    <3> QED BY <3>1 DEF Shape
  <2>3. [shapes[s] EXCEPT !.children[m] = Len(shapes) + 1] =
        [shapes[s] EXCEPT !.children = [shapes[s].children EXCEPT ![m] = Len(shapes) + 1]]
    OBVIOUS
  <2> QED BY <2>1, <2>2, <2>3, <1>1, <1>2
<1>5. linked \in Seq(Shape) /\ Len(linked) = Len(shapes)
  BY <1>1, <1>2, <1>4
<1>6. child \in Shape
  BY <1>2, <1>3 DEF ChildShape, NoChildren, NoShape, Shape
<1>7. shapes' = Append(linked, child)
  BY DEF GrowTree
<1> HIDE DEF child
<1>8. /\ shapes' \in Seq(Shape) /\ Len(shapes') = Len(shapes) + 1
      /\ shapes'[Len(shapes) + 1] = child
      /\ \A t \in 1 .. Len(shapes) : shapes'[t] = linked[t]
  <2> HIDE DEF linked
  <2> QED BY <1>1, <1>5, <1>6, <1>7
<1>9. \A t \in 1 .. Len(shapes) :
        /\ linked[t].size = shapes[t].size
        /\ linked[t].members = shapes[t].members
        /\ \A n \in Names : linked[t].children[n] =
             IF t = s /\ n = m THEN Len(shapes) + 1 ELSE shapes[t].children[n]
  BY <1>1, <1>2, <1>3 DEF Shape
<1>10. \A t \in ShapeIds :
         /\ shapes'[t].size = shapes[t].size
         /\ shapes'[t].members = shapes[t].members
         /\ \A n \in Names : shapes'[t].children[n] =
              IF t = s /\ n = m THEN Len(shapes) + 1 ELSE shapes[t].children[n]
  <2> HIDE DEF linked
  <2> QED BY <1>8, <1>9 DEF ShapeIds
<1> QED BY <1>8, <1>10 DEF child

\* Growing the tree under a leaf edge keeps it a tree of packed, shared layouts.
LEMMA GrowTreePreservesTree ==
    ASSUME TypeOK, TreeInv, NEW s, NEW m, MayGrow(s, m),
           GrowTree(s, shapes[s].size, m)
    PROVE  TreeInv'
<1> DEFINE last == Len(shapes) + 1
<1>0. /\ Len(shapes') = Len(shapes) + 1
      /\ \A t \in ShapeIds :
           /\ shapes'[t].size = shapes[t].size
           /\ shapes'[t].members = shapes[t].members
           /\ \A n \in Names : shapes'[t].children[n] =
                IF t = s /\ n = m THEN Len(shapes) + 1 ELSE shapes[t].children[n]
      /\ shapes'[Len(shapes) + 1] = ChildShape(s, shapes[s].size, m)
  BY GrowTreeEffect
<1>1. /\ Len(shapes) \in Nat /\ Len(shapes') = last
      /\ s \in 1 .. Len(shapes) /\ m \in Names
      /\ shapes[s].members[m] = NoIndex /\ shapes[s].children[m] = NoShape
  BY <1>0 DEF MayGrow, ShapeIds, TypeOK
<1>2. \A t \in 1 .. Len(shapes) :
        /\ shapes'[t].size = shapes[t].size
        /\ shapes'[t].members = shapes[t].members
        /\ \A n \in Names : shapes'[t].children[n] =
             IF t = s /\ n = m THEN last ELSE shapes[t].children[n]
  BY <1>0 DEF ShapeIds
<1>3. \A t \in 1 .. Len(shapes) :
        /\ shapes[t].size \in Nat
        /\ shapes[t].members \in [Names -> Nat \cup {NoIndex}]
        /\ shapes[t].children \in [Names -> Nat]
  <2>1. \A t \in 1 .. Len(shapes) : shapes[t] \in Shape
    BY DEF TypeOK
  <2> QED BY <2>1 DEF Shape
<1>4. /\ shapes'[last].size = shapes[s].size + 1
      /\ shapes'[last].members = [shapes[s].members EXCEPT ![m] = shapes[s].size]
      /\ shapes'[last].children = [n \in Names |-> NoShape]
  BY <1>0 DEF ChildShape, NoChildren
<1>5. \A t \in 1 .. last : t \in 1 .. Len(shapes) \/ t = last
  BY <1>1
<1>6. /\ RootIsEmpty /\ EveryShapeHasParent /\ MembersArePacked
      /\ ChildExtendsParent /\ LayoutsAreShared
  BY DEF TreeInv
<1> HIDE DEF last
<1>7. RootIsEmpty'
  BY <1>1, <1>2, <1>6 DEF RootIsEmpty, ShapeIds, EmptyShape, last
<1>8. EveryShapeHasParent'
  <2> SUFFICES ASSUME NEW t \in 1 .. last, t # EmptyShape
               PROVE  \E p \in 1 .. last, n \in Names : shapes'[p].children[n] = t
    BY <1>1 DEF EveryShapeHasParent, ShapeIds
  <2>1. CASE t = last
    BY <2>1, <1>1, <1>2 DEF last
  <2>2. CASE t \in 1 .. Len(shapes)
    <3>1. PICK p \in 1 .. Len(shapes), n \in Names : shapes[p].children[n] = t
      BY <2>2, <1>6 DEF EveryShapeHasParent, ShapeIds
    <3>2. ~(p = s /\ n = m)
      BY <3>1, <2>2, <1>1 DEF NoShape
    <3>3. shapes'[p].children[n] = t
      BY <3>1, <3>2, <1>2
    <3> QED BY <3>3, <1>1 DEF last
  <2> QED BY <1>5, <2>1, <2>2
<1>9. MembersArePacked'
  <2> SUFFICES ASSUME NEW t \in 1 .. last
               PROVE  /\ \A n \in Names : shapes'[t].members[n] # NoIndex =>
                            shapes'[t].members[n] < shapes'[t].size
                      /\ \A i \in 0 .. shapes'[t].size - 1 :
                            \E n \in Names : shapes'[t].members[n] = i
                      /\ \A n, o \in Names : (/\ shapes'[t].members[n] # NoIndex
                                              /\ shapes'[t].members[n] = shapes'[t].members[o])
                                             => n = o
    BY <1>1 DEF MembersArePacked, Members, ShapeIds
  <2>1. CASE t \in 1 .. Len(shapes)
    BY <2>1, <1>2, <1>6 DEF MembersArePacked, Members, ShapeIds
  <2>2. CASE t = last
    <3>1. /\ \A n \in Names : shapes[s].members[n] # NoIndex =>
                 shapes[s].members[n] < shapes[s].size
          /\ \A i \in 0 .. shapes[s].size - 1 : \E n \in Names : shapes[s].members[n] = i
          /\ \A n, o \in Names : (/\ shapes[s].members[n] # NoIndex
                                  /\ shapes[s].members[n] = shapes[s].members[o]) => n = o
      BY <1>1, <1>6 DEF MembersArePacked, Members, ShapeIds
    <3>2. \A n \in Names : shapes'[t].members[n] =
             IF n = m THEN shapes[s].size ELSE shapes[s].members[n]
      BY <2>2, <1>1, <1>3, <1>4
    <3>3. shapes'[t].size = shapes[s].size + 1 /\ shapes[s].size \in Nat
          /\ \A n \in Names : shapes[s].members[n] \in Nat \cup {NoIndex}
      BY <2>2, <1>1, <1>3, <1>4
    <3>4. \A n \in Names : shapes'[t].members[n] # NoIndex =>
             shapes'[t].members[n] < shapes'[t].size
      BY <3>1, <3>2, <3>3 DEF NoIndex
    <3>5. \A i \in 0 .. shapes'[t].size - 1 : \E n \in Names : shapes'[t].members[n] = i
      <4> SUFFICES ASSUME NEW i \in 0 .. shapes[s].size
                   PROVE  \E n \in Names : shapes'[t].members[n] = i
        BY <3>3
      <4>1. CASE i = shapes[s].size
        BY <4>1, <3>2, <1>1
      <4>2. CASE i \in 0 .. shapes[s].size - 1
        <5>1. PICK n \in Names : shapes[s].members[n] = i
          BY <4>2, <3>1
        <5>2. n # m
          BY <5>1, <4>2, <1>1 DEF NoIndex
        <5> QED BY <5>1, <5>2, <3>2
      <4> QED BY <4>1, <4>2, <3>3
    <3>6. \A n, o \in Names : (/\ shapes'[t].members[n] # NoIndex
                               /\ shapes'[t].members[n] = shapes'[t].members[o]) => n = o
      BY <3>1, <3>2, <3>3 DEF NoIndex
    <3> QED BY <3>4, <3>5, <3>6
  <2> QED BY <1>5, <2>1, <2>2
<1>10. ChildExtendsParent'
  <2> SUFFICES ASSUME NEW t \in 1 .. last, NEW n \in Names,
                      shapes'[t].children[n] # NoShape
               PROVE  /\ shapes'[t].children[n] \in 1 .. last
                      /\ shapes'[t].members[n] = NoIndex
                      /\ shapes'[shapes'[t].children[n]].size = shapes'[t].size + 1
                      /\ shapes'[shapes'[t].children[n]].members =
                           [shapes'[t].members EXCEPT ![n] = shapes'[t].size]
    BY <1>1 DEF ChildExtendsParent, Members, ShapeIds
  <2> DEFINE c == shapes'[t].children[n]
  <2>1. t # last
    BY <1>4
  <2>2. t \in 1 .. Len(shapes)
    BY <2>1, <1>5
  <2>3. CASE t = s /\ n = m
    <3>1. c = last
      BY <2>3, <1>1, <1>2
    <3>2. /\ shapes'[t].size = shapes[s].size
          /\ shapes'[t].members = shapes[s].members
      BY <2>3, <1>1, <1>2
    <3>3. c \in 1 .. last
      BY <3>1, <1>1 DEF last
    <3> QED BY <3>1, <3>2, <3>3, <2>3, <1>1, <1>4
  <2>4. CASE ~(t = s /\ n = m)
    <3>1. c = shapes[t].children[n]
      BY <2>4, <2>2, <1>2
    <3>2. /\ c \in 1 .. Len(shapes)
          /\ shapes[t].members[n] = NoIndex
          /\ shapes[c].size = shapes[t].size + 1
          /\ shapes[c].members = [shapes[t].members EXCEPT ![n] = shapes[t].size]
      BY <3>1, <2>2, <1>6 DEF ChildExtendsParent, Members, ShapeIds
    <3>3. c \in 1 .. last
      BY <3>2, <1>1 DEF last
    <3> QED BY <3>2, <3>3, <2>2, <1>2
  <2> QED BY <2>3, <2>4
<1>11. LayoutsAreShared'
  \* The only new layout is the one of the last shape; a shape that already had
  \* it hangs under s by m, where there was no edge.
  <2>1. ASSUME NEW t \in 1 .. Len(shapes), shapes[t].members = shapes'[last].members
        PROVE  FALSE
    <3> DEFINE layout == [shapes[s].members EXCEPT ![m] = shapes[s].size]
    <3>1. shapes[t].members = layout
      BY <2>1, <1>4
    <3>2. /\ shapes[s].size \in Nat
          /\ shapes[s].members \in [Names -> Nat \cup {NoIndex}]
          /\ shapes[t].members[m] = shapes[s].size
      BY <3>1, <1>1, <1>3
    <3>3. t # EmptyShape
      BY <3>2, <1>1, <1>6 DEF RootIsEmpty, NoIndex
    <3>4. PICK p \in 1 .. Len(shapes), n \in Names : shapes[p].children[n] = t
      BY <3>3, <1>6 DEF EveryShapeHasParent, ShapeIds
    <3>5. /\ shapes[p].members[n] = NoIndex
          /\ shapes[t].size = shapes[p].size + 1
          /\ shapes[t].members = [shapes[p].members EXCEPT ![n] = shapes[p].size]
      <4>1. shapes[p].children[n] # NoShape
        BY <3>4, <1>1 DEF NoShape
      <4> QED BY <3>4, <4>1, <1>6 DEF ChildExtendsParent, Members, ShapeIds
    <3>6. /\ shapes[p].size \in Nat
          /\ shapes[p].members \in [Names -> Nat \cup {NoIndex}]
          /\ shapes[t].members[n] = shapes[p].size
      BY <3>5, <1>3
    <3>7. /\ \A k \in Names : shapes[s].members[k] # NoIndex =>
                 shapes[s].members[k] < shapes[s].size
          /\ \A k \in Names : shapes[t].members[k] # NoIndex =>
                 shapes[t].members[k] < shapes[t].size
          /\ \A k, l \in Names : (/\ shapes[t].members[k] # NoIndex
                                  /\ shapes[t].members[k] = shapes[t].members[l]) => k = l
      BY <1>1, <1>6 DEF MembersArePacked, Members, ShapeIds
    <3>8. shapes[s].size <= shapes[p].size
      BY <3>2, <3>5, <3>6, <3>7, <1>1 DEF NoIndex
    <3>9. shapes[p].size <= shapes[s].size
      BY <3>1, <3>2, <3>6, <3>7 DEF NoIndex
    <3>10. n = m
      BY <3>2, <3>6, <3>7, <3>8, <3>9, <1>1 DEF NoIndex
    <3>11. \A k \in Names : shapes[p].members[k] = shapes[s].members[k]
      BY <3>1, <3>2, <3>5, <3>6, <3>10, <1>1
    <3>12. shapes[p].members = shapes[s].members
      BY <3>2, <3>6, <3>11
    <3>13. p = s
      BY <3>12, <1>1, <1>6 DEF LayoutsAreShared, ShapeIds
    <3> QED BY <3>4, <3>10, <3>13, <1>1 DEF NoShape
  <2> SUFFICES ASSUME NEW t \in 1 .. last, NEW u \in 1 .. last,
                      shapes'[t].members = shapes'[u].members
               PROVE  t = u
    BY <1>1 DEF LayoutsAreShared, ShapeIds
  <2>2. CASE t \in 1 .. Len(shapes) /\ u \in 1 .. Len(shapes)
    BY <2>2, <1>2, <1>6 DEF LayoutsAreShared, ShapeIds
  <2>3. CASE t = last /\ u \in 1 .. Len(shapes)
    BY <2>3, <2>1, <1>2
  <2>4. CASE u = last /\ t \in 1 .. Len(shapes)
    BY <2>4, <2>1, <1>2
  <2> QED BY <1>5, <2>2, <2>3, <2>4
<1> QED BY <1>7, <1>8, <1>9, <1>10, <1>11 DEF TreeInv
------------------------------------------------------------------------------
\* The tree invariant is about the shapes alone.
LEMMA SameTree ==
    ASSUME TreeInv, UNCHANGED shapes
    PROVE  TreeInv'
<1>1. RootIsEmpty'
  BY DEF TreeInv, RootIsEmpty, ShapeIds
<1>2. EveryShapeHasParent'
  BY DEF TreeInv, EveryShapeHasParent, ShapeIds
<1>3. MembersArePacked'
  BY DEF TreeInv, MembersArePacked, ShapeIds, Members
<1>4. ChildExtendsParent'
  BY DEF TreeInv, ChildExtendsParent, ShapeIds, Members
<1>5. LayoutsAreShared'
  BY DEF TreeInv, LayoutsAreShared, ShapeIds
<1> QED BY <1>1, <1>2, <1>3, <1>4, <1>5 DEF TreeInv

\* An allocated object's shape exists and accounts for its array.
LEMMA AllocatedObject ==
    ASSUME ShapeInv, NEW o \in Objects, o \in Allocated
    PROVE  /\ objects[o].shape \in ShapeIds
           /\ objects[o].members \in Seq(Values)
           /\ Len(objects[o].members) = shapes[objects[o].shape].size
           /\ shapes[objects[o].shape].size \in Nat
           /\ shapes[objects[o].shape].members \in [Names -> Nat \cup {NoIndex}]
           /\ shapes[objects[o].shape].children \in [Names -> Nat]
<1>1. objects[o].shape \in ShapeIds /\ Len(objects[o].members) = shapes[objects[o].shape].size
  BY DEF ShapeInv, ObjectFitsShape
<1>2. objects[o].members \in Seq(Values)
  BY DEF ShapeInv, TypeOK, Object
<1>3. shapes[objects[o].shape] \in Shape
  BY <1>1 DEF ShapeInv, TypeOK, ShapeIds
<1> QED BY <1>1, <1>2, <1>3 DEF Shape

\* The index a shape gives for a member is inside the array.
LEMMA IndexInArray ==
    ASSUME ShapeInv, NEW o \in Objects, o \in Allocated, NEW m \in Names, HasMember(o, m)
    PROVE  At(Index(o, m)) \in 1 .. Len(objects[o].members)
<1>1. Index(o, m) \in Nat
  BY AllocatedObject DEF HasMember, Index
<1>2. Index(o, m) < Len(objects[o].members)
  BY AllocatedObject DEF HasMember, Index, ShapeInv, TreeInv, MembersArePacked, Members
<1> QED BY <1>1, <1>2, AllocatedObject DEF At

\* A member is added at the end of the array, where the object's new shape says
\* it is; the other objects and the layouts of the old shapes are untouched.
LEMMA AddMemberEffect ==
    ASSUME ShapeInv, NEW o \in Objects, o \in Allocated, NEW m \in Names,
           NEW v \in Values, AddMember(o, m, v)
    PROVE  /\ shapes' \in Seq(Shape)
           /\ objects' \in [Objects -> Object]
           /\ TreeInv'
           /\ \A p \in Objects : p # o => objects'[p] = objects[p]
           /\ objects'[o].members = Append(objects[o].members, v)
           /\ objects'[o].shape \in ShapeIds'
           /\ shapes'[objects'[o].shape].size = Len(objects[o].members) + 1
           /\ shapes'[objects'[o].shape].members =
                [shapes[objects[o].shape].members EXCEPT ![m] = Len(objects[o].members)]
           /\ \A t \in ShapeIds : /\ t \in ShapeIds'
                                  /\ shapes'[t].size = shapes[t].size
                                  /\ shapes'[t].members = shapes[t].members
<1> DEFINE s == objects[o].shape
<1>1. /\ s \in ShapeIds
      /\ objects[o].members \in Seq(Values)
      /\ Len(objects[o].members) = shapes[s].size
      /\ shapes[s].children \in [Names -> Nat]
  BY AllocatedObject
<1>2. /\ TypeOK /\ TreeInv /\ Len(shapes) \in Nat
      /\ shapes \in Seq(Shape) /\ objects \in [Objects -> Object]
  BY DEF ShapeInv, TypeOK
<1>3. shapes[s].members[m] = NoIndex
  BY DEF AddMember, HasMember, Index
<1>4. \A c \in Nat : Extend(o, c, v) =>
        /\ objects' \in [Objects -> Object]
        /\ \A p \in Objects : p # o => objects'[p] = objects[p]
        /\ objects'[o].members = Append(objects[o].members, v)
        /\ objects'[o].shape = c
  <2> SUFFICES ASSUME NEW c \in Nat, Extend(o, c, v)
               PROVE  /\ objects' \in [Objects -> Object]
                      /\ \A p \in Objects : p # o => objects'[p] = objects[p]
                      /\ objects'[o].members = Append(objects[o].members, v)
                      /\ objects'[o].shape = c
    OBVIOUS
  <2>1. [shape |-> c, members |-> Append(objects[o].members, v)] \in Object
    BY <1>1 DEF Object
  <2>2. objects' = [objects EXCEPT ![o] =
                      [shape |-> c, members |-> Append(objects[o].members, v)]]
    BY DEF Extend
  <2> QED BY <2>1, <2>2, <1>2
<1>5. CASE FollowChild(o, m, v)
  <2>1. /\ shapes[s].children[m] # NoShape
        /\ Extend(o, shapes[s].children[m], v)
        /\ shapes' = shapes
    BY <1>5 DEF FollowChild
  <2>2. /\ shapes[s].children[m] \in ShapeIds
        /\ shapes[shapes[s].children[m]].size = shapes[s].size + 1
        /\ shapes[shapes[s].children[m]].members =
             [shapes[s].members EXCEPT ![m] = shapes[s].size]
    BY <2>1, <1>1, <1>2 DEF TreeInv, ChildExtendsParent
  <2>3. TreeInv'
    BY <2>1, <1>2, SameTree
  <2>4. shapes[s].children[m] \in Nat
    BY <1>1
  <2> QED BY <1>1, <1>2, <1>4, <2>1, <2>2, <2>3, <2>4 DEF ShapeIds
<1>6. CASE MakeChild(o, m, v)
  <2>1. /\ shapes[s].children[m] = NoShape
        /\ GrowTree(s, Len(objects[o].members), m)
        /\ Extend(o, Len(shapes) + 1, v)
    BY <1>6 DEF MakeChild
  <2>2. PICK t \in ShapeIds : t = s
    BY <1>1
  <2>3. MayGrow(t, m) /\ GrowTree(t, shapes[t].size, m)
    <3>1. MayGrow(t, m)
      BY <2>1, <2>2, <1>3 DEF MayGrow
    <3>2. GrowTree(t, shapes[t].size, m)
      BY <2>1, <2>2, <1>1 DEF GrowTree, ChildShape
    <3> QED BY <3>1, <3>2
  <2>4. TreeInv'
    BY <2>3, <1>2, GrowTreePreservesTree
  <2>5. /\ shapes' \in Seq(Shape)
        /\ Len(shapes') = Len(shapes) + 1
        /\ \A u \in ShapeIds : /\ shapes'[u].size = shapes[u].size
                               /\ shapes'[u].members = shapes[u].members
        /\ shapes'[Len(shapes) + 1] = ChildShape(t, shapes[t].size, m)
    BY <2>3, <1>2, GrowTreeEffect
  <2>6. /\ shapes'[Len(shapes) + 1].size = shapes[s].size + 1
        /\ shapes'[Len(shapes) + 1].members =
             [shapes[s].members EXCEPT ![m] = shapes[s].size]
    BY <2>2, <2>5 DEF ChildShape
  <2>7. /\ \A u \in ShapeIds : u \in ShapeIds'
        /\ Len(shapes) + 1 \in ShapeIds'
    BY <2>5, <1>2 DEF ShapeIds
  <2> QED BY <1>1, <1>2, <1>4, <2>1, <2>4, <2>5, <2>6, <2>7
<1> QED BY <1>5, <1>6 DEF AddMember
------------------------------------------------------------------------------
LEMMA InitShapeInv == Init => ShapeInv
<1> SUFFICES ASSUME Init PROVE ShapeInv
  OBVIOUS
<1> USE ShapesAssumption DEF NoShape, NoIndex, EmptyShape
<1>1. /\ shapes = << [size |-> 0, children |-> NoChildren,
                      members |-> [m \in Names |-> NoIndex]] >>
      /\ answer = Undefined
      /\ \A o \in Objects : /\ objects[o].members = <<>>
                            /\ objects[o].shape \in {NoShape, EmptyShape}
      /\ objects \in [Objects -> Object]
  <2>0. [NewRecord EXCEPT !.shape = NoShape] = [shape |-> NoShape, members |-> <<>>]
    BY DEF NewRecord
  <2>1. /\ NewRecord \in Object
        /\ [shape |-> NoShape, members |-> <<>>] \in Object
    <3>1. <<>> \in Seq(Values)
      OBVIOUS
    <3> QED BY <3>1 DEF NewRecord, Object
  <2> QED BY <2>0, <2>1 DEF Init, NewRecord
<1>2. /\ shapes \in Seq(Shape)
      /\ Len(shapes) = 1
      /\ shapes[1].size = 0
      /\ \A m \in Names : shapes[1].children[m] = NoShape
      /\ shapes[1].members = [m \in Names |-> NoIndex]
      /\ \A m \in Names : shapes[1].members[m] = NoIndex
  BY <1>1 DEF Shape, NoChildren
<1>3. ShapeIds = {1}
  BY <1>2 DEF ShapeIds
<1>4. TypeOK
  BY <1>1, <1>2 DEF TypeOK
<1>5. RootIsEmpty /\ EveryShapeHasParent /\ LayoutsAreShared
  BY <1>2, <1>3 DEF RootIsEmpty, EveryShapeHasParent, LayoutsAreShared
<1>6. MembersArePacked /\ ChildExtendsParent
  BY <1>2, <1>3 DEF MembersArePacked, ChildExtendsParent, Members
<1>7. ObjectFitsShape
  BY <1>1, <1>2, <1>3 DEF ObjectFitsShape, Allocated
<1> QED BY <1>4, <1>5, <1>6, <1>7 DEF ShapeInv, TreeInv

LEMMA NextShapeInv == ShapeInv /\ [Next]_vars => ShapeInv'
<1> SUFFICES ASSUME ShapeInv, [Next]_vars PROVE ShapeInv'
  OBVIOUS
<1> USE DEF ShapeInv
<1>0. /\ shapes \in Seq(Shape) /\ objects \in [Objects -> Object] /\ answer \in Values
      /\ Undefined \in Values
  BY ShapesAssumption DEF TypeOK
<1>1. ASSUME UNCHANGED <<shapes, objects>>, answer' \in Values
      PROVE  ShapeInv'
  <2>1. TreeInv'
    BY <1>1, SameTree
  <2> QED BY <1>1, <2>1 DEF TypeOK, ObjectFitsShape, Allocated, ShapeIds
<1>2. ASSUME NEW o \in Objects, o \in Allocated, NEW m \in Names, NEW v \in Values,
             AddMember(o, m, v), answer' \in Values
      PROVE  ShapeInv'
  <2>1. /\ TypeOK' /\ TreeInv'
        /\ \A p \in Objects : p # o => objects'[p] = objects[p]
        /\ objects'[o].shape \in ShapeIds'
        /\ Len(objects'[o].members) = shapes'[objects'[o].shape].size
        /\ \A t \in ShapeIds : t \in ShapeIds' /\ shapes'[t].size = shapes[t].size
    <3>1. /\ shapes' \in Seq(Shape) /\ objects' \in [Objects -> Object] /\ TreeInv'
          /\ \A p \in Objects : p # o => objects'[p] = objects[p]
          /\ objects'[o].members = Append(objects[o].members, v)
          /\ objects'[o].shape \in ShapeIds'
          /\ shapes'[objects'[o].shape].size = Len(objects[o].members) + 1
          /\ \A t \in ShapeIds : t \in ShapeIds' /\ shapes'[t].size = shapes[t].size
      <4> HIDE DEF ShapeInv
      <4> QED BY <1>2, AddMemberEffect
    <3>2. objects[o].members \in Seq(Values)
      BY <1>0 DEF Object
    <3> QED BY <1>2, <3>1, <3>2 DEF TypeOK
  <2>2. ASSUME NEW p \in Objects, p \in Allocated'
        PROVE  /\ objects'[p].shape \in ShapeIds'
               /\ Len(objects'[p].members) = shapes'[objects'[p].shape].size
    BY <2>1, <2>2 DEF ObjectFitsShape, Allocated
  <2>3. ObjectFitsShape'
    BY <2>2 DEF ObjectFitsShape, Allocated
  <2> QED BY <2>1, <2>3
<1>3. ASSUME NEW m \in Names, GetMemberOfNonObject(m)
      PROVE  ShapeInv'
  BY <1>0, <1>1, <1>3 DEF GetMemberOfNonObject
<1>4. ASSUME NEW m \in Names, NEW v \in Values, SetMemberOfNonObject(m, v)
      PROVE  ShapeInv'
  <2>1. CASE UNCHANGED shapes
    BY <2>1, <1>1, <1>4 DEF SetMemberOfNonObject
  <2>2. CASE shapes[EmptyShape].children[m] = NoShape /\ GrowTree(EmptyShape, 0, m)
    <3>1. /\ MayGrow(EmptyShape, m)
          /\ shapes[EmptyShape].size = 0
      BY <2>2 DEF MayGrow, TreeInv, RootIsEmpty
    <3>2. /\ shapes' \in Seq(Shape) /\ Len(shapes') = Len(shapes) + 1
          /\ \A t \in ShapeIds : shapes'[t].size = shapes[t].size
      BY <2>2, <3>1, GrowTreeEffect
    <3>3. TreeInv'
      BY <2>2, <3>1, GrowTreePreservesTree
    <3>4. \A t \in ShapeIds : t \in ShapeIds'
      BY <1>0, <3>2 DEF ShapeIds
    <3>5. UNCHANGED objects /\ answer' = v
      BY <1>4 DEF SetMemberOfNonObject
    <3>6. ObjectFitsShape'
      BY <3>2, <3>4, <3>5 DEF ObjectFitsShape, Allocated
    <3> QED BY <1>0, <3>2, <3>3, <3>5, <3>6 DEF TypeOK
  <2> QED BY <2>1, <2>2, <1>4 DEF SetMemberOfNonObject
<1>5. ASSUME NEW o \in Objects, NewObject(o)
      PROVE  ShapeInv'
  <2>1. TreeInv'
    BY <1>5, SameTree DEF NewObject
  <2>2. objects' = [objects EXCEPT ![o] = NewRecord] /\ UNCHANGED <<shapes, answer>>
    BY <1>5 DEF NewObject
  <2>3. NewRecord \in Object /\ NewRecord.shape = EmptyShape /\ Len(NewRecord.members) = 0
    BY DEF NewRecord, Object, EmptyShape
  <2>4. TypeOK'
    BY <1>0, <2>2, <2>3 DEF TypeOK
  <2>5. \A p \in Objects : objects'[p] = IF p = o THEN NewRecord ELSE objects[p]
    BY <1>0, <2>2
  <2>6. EmptyShape \in ShapeIds /\ shapes[EmptyShape].size = 0
    BY DEF TreeInv, RootIsEmpty
  <2>7. ObjectFitsShape'
    BY <2>2, <2>3, <2>5, <2>6 DEF ObjectFitsShape, Allocated, ShapeIds
  <2> QED BY <2>1, <2>4, <2>7
<1>6. ASSUME NEW o \in Objects, NEW m \in Names, GetObjectMember(o, m)
      PROVE  ShapeInv'
  <2>1. o \in Allocated /\ answer' = Read(o, m) /\ UNCHANGED <<shapes, objects>>
    BY <1>6 DEF GetObjectMember
  <2>2. Read(o, m) \in Values
    <3>1. CASE HasMember(o, m)
      <4> HIDE DEF ShapeInv
      <4>1. At(Index(o, m)) \in 1 .. Len(objects[o].members)
        BY <2>1, <3>1, IndexInArray
      <4>2. objects[o].members \in Seq(Values)
        BY <2>1, AllocatedObject
      <4> QED BY <3>1, <4>1, <4>2 DEF Read
    <3>2. CASE ~HasMember(o, m)
      BY <1>0, <3>2 DEF Read
    <3> QED BY <3>1, <3>2
  <2> QED BY <2>1, <2>2, <1>1
<1>7. ASSUME NEW o \in Objects, NEW m \in Names, DeclareMember(o, m)
      PROVE  ShapeInv'
  BY <1>0, <1>1, <1>2, <1>7 DEF DeclareMember
<1>8. ASSUME NEW o \in Objects, NEW m \in Names, NEW v \in Values, SetObjectMember(o, m, v)
      PROVE  ShapeInv'
  <2>1. o \in Allocated /\ answer' = v
    BY <1>8 DEF SetObjectMember
  <2>2. CASE AddMember(o, m, v)
    BY <2>1, <2>2, <1>2
  <2>3. CASE Overwrite(o, m, v)
    <3> DEFINE i == At(Index(o, m))
               r == [objects[o] EXCEPT !.members[i] = v]
    <3>1. UNCHANGED shapes /\ objects' = [objects EXCEPT ![o].members[i] = v]
      BY <2>3 DEF Overwrite
    <3>2. objects[o].members \in Seq(Values) /\ objects[o] \in Object
      BY <1>0 DEF Object
    <3>9. /\ [objects[o].members EXCEPT ![i] = v] \in Seq(Values)
          /\ Len([objects[o].members EXCEPT ![i] = v]) = Len(objects[o].members)
      <4> HIDE DEF ShapeInv
      <4>1. HasMember(o, m)
        BY <2>3 DEF Overwrite
      <4>2. i \in 1 .. Len(objects[o].members)
        BY <2>1, <4>1, IndexInArray
      <4> HIDE DEF i
      <4> QED BY <3>2, <4>2
    <3>3. /\ r.shape = objects[o].shape
          /\ r.members \in Seq(Values)
          /\ Len(r.members) = Len(objects[o].members)
          /\ r = [shape |-> r.shape, members |-> r.members]
      <4> HIDE DEF ShapeInv, i
      <4>1. objects[o] = [shape |-> objects[o].shape, members |-> objects[o].members]
        BY <3>2 DEF Object
      <4>2. r = [shape |-> objects[o].shape, members |-> [objects[o].members EXCEPT ![i] = v]]
        BY <4>1
      <4> QED BY <3>9, <4>2
    <3>4. r \in Object
      BY <3>2, <3>3 DEF Object
    <3>5. \A p \in Objects : objects'[p] = IF p = o THEN r ELSE objects[p]
      BY <1>0, <3>1
    <3>6. objects' \in [Objects -> Object]
      BY <1>0, <3>1, <3>4
    <3> HIDE DEF r
    <3>7. TreeInv'
      BY <3>1, SameTree
    <3>8. ObjectFitsShape'
      BY <3>1, <3>3, <3>5 DEF ObjectFitsShape, Allocated, ShapeIds
    <3> QED BY <1>0, <2>1, <3>1, <3>6, <3>7, <3>8 DEF TypeOK
  <2> QED BY <1>8, <2>2, <2>3 DEF SetObjectMember
<1>9. CASE UNCHANGED vars
  BY <1>0, <1>1, <1>9 DEF vars
<1> QED BY <1>3, <1>4, <1>5, <1>6, <1>7, <1>8, <1>9 DEF Next

\* The objects of value.c keep the invariant in every reachable state, whatever
\* the objects, names and values are.
THEOREM ShapesInvariant == Spec => []ShapeInv
<1> QED BY InitShapeInv, NextShapeInv, PTL DEF Spec

\* A member array always has exactly the elements the object's shape accounts
\* for: the unchecked array accesses of value.c stay inside the array.
THEOREM AlwaysObjectFitsShape == Spec => []ObjectFitsShape
<1>1. ShapeInv => ObjectFitsShape
  BY DEF ShapeInv
<1> QED BY <1>1, ShapesInvariant, PTL

\* Objects built alike share one shape, whatever was built in between.
THEOREM AlwaysLayoutsAreShared == Spec => []LayoutsAreShared
<1>1. ShapeInv => LayoutsAreShared
  BY DEF ShapeInv, TreeInv
<1> QED BY <1>1, ShapesInvariant, PTL
------------------------------------------------------------------------------
\* A step in which the old layouts are kept and the objects are untouched does
\* not change what any object stands for.
LEMMA SameStore ==
    ASSUME ShapeInv, UNCHANGED objects,
           \A t \in ShapeIds : shapes'[t].members = shapes[t].members
    PROVE  UNCHANGED <<Allocated, StoreOf>>
<1>1. UNCHANGED Allocated
  BY DEF Allocated
<1>2. ASSUME NEW o \in Objects, o \in Allocated, NEW m \in Names
      PROVE  Read(o, m)' = Read(o, m)
  <2>1. objects[o].shape \in ShapeIds
    BY <1>2, AllocatedObject
  <2>2. Index(o, m)' = Index(o, m)
    BY <2>1 DEF Index
  <2> QED BY <2>2 DEF Read, HasMember
<1>3. UNCHANGED StoreOf
  BY <1>1, <1>2 DEF StoreOf
<1> QED BY <1>1, <1>3

\* A step that binds member m of object o to v, and does so in the abstract.
LEMMA BindsOneMember ==
    ASSUME ShapeInv, NEW o \in Objects, o \in Allocated, NEW m \in Names,
           NEW v \in Values, UNCHANGED Allocated, Read(o, m)' = v,
           \A n \in Names : n # m => Read(o, n)' = Read(o, n),
           \A p \in Objects : p # o /\ p \in Allocated =>
                \A n \in Names : Read(p, n)' = Read(p, n)
    PROVE  StoreOf' = [StoreOf EXCEPT ![o][m] = v]
<1>1. ASSUME NEW p \in Objects, NEW n \in Names
      PROVE  StoreOf'[p][n] = [StoreOf EXCEPT ![o][m] = v][p][n]
  BY <1>1 DEF StoreOf
<1> QED BY <1>1 DEF StoreOf

\* Adding a member binds it and leaves every other member of every object alone.
LEMMA AddMemberBinds ==
    ASSUME ShapeInv, NEW o \in Objects, o \in Allocated, NEW m \in Names,
           NEW v \in Values, AddMember(o, m, v)
    PROVE  /\ UNCHANGED Allocated
           /\ StoreOf' = [StoreOf EXCEPT ![o][m] = v]
<1>1. /\ \A p \in Objects : p # o => objects'[p] = objects[p]
      /\ objects'[o].members = Append(objects[o].members, v)
      /\ objects'[o].shape \in ShapeIds'
      /\ shapes'[objects'[o].shape].members =
           [shapes[objects[o].shape].members EXCEPT ![m] = Len(objects[o].members)]
      /\ \A t \in ShapeIds : shapes'[t].members = shapes[t].members
      /\ Len(shapes') \in Nat
  BY AddMemberEffect
<1>2. /\ objects[o].members \in Seq(Values) /\ Len(objects[o].members) \in Nat
      /\ shapes[objects[o].shape].members \in [Names -> Nat \cup {NoIndex}]
  BY AllocatedObject
<1>3. UNCHANGED Allocated
  BY <1>1 DEF Allocated, ShapeIds, NoShape
<1>4. \A n \in Names : Index(o, n)' = IF n = m THEN Len(objects[o].members) ELSE Index(o, n)
  BY <1>1, <1>2 DEF Index
<1>5. Read(o, m)' = v
  BY <1>1, <1>2, <1>4 DEF Read, HasMember, At, NoIndex
<1>6. ASSUME NEW n \in Names, n # m
      PROVE  Read(o, n)' = Read(o, n)
  <2>1. Index(o, n)' = Index(o, n)
    BY <1>4, <1>6
  <2>2. CASE HasMember(o, n)
    <3>1. At(Index(o, n)) \in 1 .. Len(objects[o].members)
      BY <2>2, IndexInArray
    <3>2. objects'[o].members[At(Index(o, n))] = objects[o].members[At(Index(o, n))]
      BY <3>1, <1>1, <1>2
    <3> QED BY <2>1, <2>2, <3>2 DEF Read, HasMember, At
  <2>3. CASE ~HasMember(o, n)
    BY <2>1, <2>3 DEF Read, HasMember
  <2> QED BY <2>2, <2>3
<1>7. ASSUME NEW p \in Objects, p # o, p \in Allocated, NEW n \in Names
      PROVE  Read(p, n)' = Read(p, n)
  <2>1. objects[p].shape \in ShapeIds /\ objects'[p] = objects[p]
    BY <1>1, <1>7, AllocatedObject
  <2>2. Index(p, n)' = Index(p, n)
    BY <2>1, <1>1 DEF Index
  <2> QED BY <2>1, <2>2 DEF Read, HasMember
<1>8. StoreOf' = [StoreOf EXCEPT ![o][m] = v]
  BY <1>3, <1>5, <1>6, <1>7, BindsOneMember
<1> QED BY <1>3, <1>8

\* Overwriting binds the member and leaves every other member alone: no two
\* members share an array element.
LEMMA OverwriteBinds ==
    ASSUME ShapeInv, NEW o \in Objects, o \in Allocated, NEW m \in Names,
           NEW v \in Values, Overwrite(o, m, v)
    PROVE  /\ UNCHANGED Allocated
           /\ StoreOf' = [StoreOf EXCEPT ![o][m] = v]
<1> DEFINE i == At(Index(o, m))
<1>1. /\ HasMember(o, m) /\ UNCHANGED shapes
      /\ objects' = [objects EXCEPT ![o].members[i] = v]
      /\ objects \in [Objects -> Object]
  BY DEF Overwrite, ShapeInv, TypeOK
<1>2. /\ \A p \in Objects : objects'[p].shape = objects[p].shape
      /\ \A p \in Objects : p # o => objects'[p] = objects[p]
      /\ objects'[o].members = [objects[o].members EXCEPT ![i] = v]
  BY <1>1 DEF Object
<1>3. UNCHANGED Allocated
  BY <1>2 DEF Allocated
<1>4. \A p \in Objects, n \in Names : Index(p, n)' = Index(p, n)
  BY <1>1, <1>2 DEF Index
<1>5. i \in 1 .. Len(objects[o].members) /\ objects[o].members \in Seq(Values)
  BY <1>1, IndexInArray, AllocatedObject
<1>6. Read(o, m)' = v
  BY <1>1, <1>2, <1>4, <1>5 DEF Read, HasMember, At
<1>7. ASSUME NEW n \in Names, n # m
      PROVE  Read(o, n)' = Read(o, n)
  <2>1. CASE HasMember(o, n)
    <3>1. At(Index(o, n)) \in 1 .. Len(objects[o].members)
      BY <2>1, IndexInArray
    <3>2. Index(o, n) # Index(o, m)
      <4>1. objects[o].shape \in ShapeIds
        BY AllocatedObject
      <4> QED BY <4>1, <1>1, <1>7, <2>1
              DEF HasMember, Index, ShapeInv, TreeInv, MembersArePacked, Members
    <3>3. Index(o, n) \in Nat /\ Index(o, m) \in Nat
      BY <1>1, <2>1, AllocatedObject DEF HasMember, Index
    <3>4. At(Index(o, n)) # i
      BY <3>2, <3>3 DEF At
    <3> QED BY <3>1, <3>4, <2>1, <1>2, <1>4, <1>5 DEF Read, HasMember, At
  <2>2. CASE ~HasMember(o, n)
    BY <2>2, <1>4 DEF Read, HasMember
  <2> QED BY <2>1, <2>2
<1>8. ASSUME NEW p \in Objects, p # o, p \in Allocated, NEW n \in Names
      PROVE  Read(p, n)' = Read(p, n)
  BY <1>2, <1>4, <1>8 DEF Read, HasMember
<1>9. StoreOf' = [StoreOf EXCEPT ![o][m] = v]
  BY <1>3, <1>6, <1>7, <1>8, BindsOneMember
<1> QED BY <1>3, <1>9
------------------------------------------------------------------------------
LEMMA InitImplementsStore == Init => Store!StoreInit
<1> SUFFICES ASSUME Init PROVE Store!StoreInit
  OBVIOUS
<1>1. ASSUME NEW o \in Objects
      PROVE  objects[o].shape # NoShape <=> o = GlobalObject
  <2>1. objects[o] = IF o = GlobalObject THEN NewRecord
                                         ELSE [NewRecord EXCEPT !.shape = NoShape]
    BY DEF Init
  <2> QED BY <2>1 DEF NewRecord, NoShape, EmptyShape
<1>2. Allocated = {GlobalObject}
  BY <1>1, ShapesAssumption DEF Allocated
<1>3. ASSUME NEW m \in Names
      PROVE  Read(GlobalObject, m) = Undefined
  <2>1. objects[GlobalObject].shape = 1
    BY ShapesAssumption DEF Init, NewRecord, EmptyShape
  <2>2. shapes[1].members[m] = NoIndex
    BY DEF Init
  <2> QED BY <2>1, <2>2 DEF Read, HasMember, Index
<1>4. StoreOf = [o \in Objects |-> [m \in Names |-> Undefined]]
  BY <1>2, <1>3 DEF StoreOf
<1> QED BY <1>2, <1>4 DEF Init, Store!StoreInit

LEMMA StepImplementsStore ==
    ShapeInv /\ [Next]_vars => [Store!StoreNext]_(Store!storeVars)
<1> SUFFICES ASSUME ShapeInv, [Next]_vars
             PROVE  [Store!StoreNext]_(Store!storeVars)
  OBVIOUS
<1> USE DEF Store!storeVars
<1>1. ASSUME NEW m \in Names, GetMemberOfNonObject(m)
      PROVE  [Store!StoreNext]_(Store!storeVars)
  <2>1. UNCHANGED <<Allocated, StoreOf>>
    BY <1>1, SameStore DEF GetMemberOfNonObject
  <2> QED BY <1>1, <2>1 DEF GetMemberOfNonObject, Store!GetOfNonObject, Store!StoreNext
<1>2. ASSUME NEW m \in Names, NEW v \in Values, SetMemberOfNonObject(m, v)
      PROVE  [Store!StoreNext]_(Store!storeVars)
  <2>1. \A t \in ShapeIds : shapes'[t].members = shapes[t].members
    <3>1. CASE UNCHANGED shapes
      BY <3>1
    <3>2. CASE shapes[EmptyShape].children[m] = NoShape /\ GrowTree(EmptyShape, 0, m)
      <4>1. MayGrow(EmptyShape, m) /\ shapes[EmptyShape].size = 0 /\ TypeOK
        BY <3>2 DEF MayGrow, ShapeInv, TreeInv, RootIsEmpty
      <4> QED BY <3>2, <4>1, GrowTreeEffect
    <3> QED BY <1>2, <3>1, <3>2 DEF SetMemberOfNonObject
  <2>2. UNCHANGED objects /\ answer' = v /\ call' = <<"set", m, v>>
    BY <1>2 DEF SetMemberOfNonObject
  <2>3. UNCHANGED <<Allocated, StoreOf>>
    BY <2>1, <2>2, SameStore
  <2> QED BY <2>2, <2>3 DEF Store!SetOfNonObject, Store!StoreNext
<1>3. ASSUME NEW o \in Objects, NewObject(o)
      PROVE  [Store!StoreNext]_(Store!storeVars)
  <2>1. /\ o \notin Allocated
        /\ call' = <<"new", o>>
        /\ objects' = [objects EXCEPT ![o] = NewRecord]
        /\ UNCHANGED <<shapes, answer>>
        /\ objects \in [Objects -> Object]
    BY <1>3 DEF NewObject, ShapeInv, TypeOK
  <2>2. \A p \in Objects : objects'[p] = IF p = o THEN NewRecord ELSE objects[p]
    BY <2>1
  <2>3. Allocated' = Allocated \cup {o}
    BY <2>2 DEF Allocated, NewRecord, NoShape, EmptyShape
  <2>4. ASSUME NEW m \in Names
        PROVE  Read(o, m)' = Undefined
    BY <2>1, <2>2 DEF Read, HasMember, Index, NewRecord, ShapeInv, TreeInv, RootIsEmpty
  <2>5. ASSUME NEW p \in Objects, p # o, NEW m \in Names
        PROVE  Read(p, m)' = Read(p, m)
    BY <2>1, <2>2, <2>5 DEF Read, HasMember, Index
  <2>6. ASSUME NEW p \in Objects
        PROVE  [m \in Names |-> IF p \in Allocated' THEN Read(p, m)' ELSE Undefined] =
               [m \in Names |-> IF p \in Allocated THEN Read(p, m) ELSE Undefined]
    BY <2>1, <2>3, <2>4, <2>5
  <2>7. StoreOf' = StoreOf
    BY <2>6 DEF StoreOf
  <2> QED BY <2>1, <2>3, <2>7 DEF Store!New, Store!StoreNext
<1>4. ASSUME NEW o \in Objects, NEW m \in Names, GetObjectMember(o, m)
      PROVE  [Store!StoreNext]_(Store!storeVars)
  <2>1. /\ o \in Allocated /\ answer' = Read(o, m)
        /\ UNCHANGED <<shapes, objects>> /\ call' = <<"get", o, m>>
    BY <1>4 DEF GetObjectMember
  <2>2. UNCHANGED <<Allocated, StoreOf>>
    BY <2>1, SameStore
  <2>3. StoreOf[o][m] = Read(o, m)
    BY <2>1 DEF StoreOf
  <2> QED BY <2>1, <2>2, <2>3 DEF Store!Get, Store!StoreNext
<1>5. ASSUME NEW o \in Objects, NEW m \in Names, DeclareMember(o, m)
      PROVE  [Store!StoreNext]_(Store!storeVars)
  <2>1. o \in Allocated /\ UNCHANGED answer /\ call' = <<"declare", o, m>>
    BY <1>5 DEF DeclareMember
  <2>2. UNCHANGED <<Allocated, StoreOf>>
    <3>1. CASE UNCHANGED <<shapes, objects>>
      BY <3>1, SameStore
    <3>2. CASE AddMember(o, m, Undefined)
      <4>1. UNCHANGED Allocated /\ StoreOf' = [StoreOf EXCEPT ![o][m] = Undefined]
        BY <2>1, <3>2, AddMemberBinds, ShapesAssumption
      <4>2. StoreOf[o][m] = Undefined
        BY <3>2 DEF StoreOf, Read, AddMember
      <4>3. StoreOf \in [Objects -> [Names -> {StoreOf[p][n] : p \in Objects, n \in Names}]]
        BY DEF StoreOf
      <4>4. [StoreOf EXCEPT ![o][m] = Undefined] = StoreOf
        BY <4>2, <4>3
      <4> QED BY <4>1, <4>4
    <3> QED BY <1>5, <3>1, <3>2 DEF DeclareMember
  <2>3. Store!Declare(o, m)
    BY <2>1, <2>2 DEF Store!Declare
  <2> QED BY <2>3 DEF Store!StoreNext
<1>6. ASSUME NEW o \in Objects, NEW m \in Names, NEW v \in Values, SetObjectMember(o, m, v)
      PROVE  [Store!StoreNext]_(Store!storeVars)
  <2>1. /\ o \in Allocated /\ answer' = v /\ call' = <<"set", o, m, v>>
        /\ Overwrite(o, m, v) \/ AddMember(o, m, v)
    BY <1>6 DEF SetObjectMember
  <2>2. UNCHANGED Allocated /\ StoreOf' = [StoreOf EXCEPT ![o][m] = v]
    BY <2>1, AddMemberBinds, OverwriteBinds
  <2>3. Store!Set(o, m, v)
    BY <2>1, <2>2 DEF Store!Set
  <2> QED BY <2>3 DEF Store!StoreNext
<1>7. CASE UNCHANGED vars
  BY <1>7, SameStore DEF vars
<1> QED BY <1>1, <1>2, <1>3, <1>4, <1>5, <1>6, <1>7 DEF Next

\* Objects with shared shapes implement plain maps from names to values, for any
\* objects, names and values: a read gives what was last written to that name of
\* that object.
THEOREM ShapesImplementStore == Spec => ImplementsStore
<1> QED BY InitImplementsStore, StepImplementsStore, ShapesInvariant, PTL
        DEF Spec, ImplementsStore, Store!StoreSpec
------------------------------------------------------------------------------
\* what a step may do to the tree: add a shape and an edge to it, nothing else
TreeOnlyGrows ==
    \A s \in ShapeIds :
        /\ s \in DOMAIN shapes'
        /\ shapes'[s].members = shapes[s].members
        /\ shapes'[s].size = shapes[s].size
        /\ \A m \in Names : shapes[s].children[m] # NoShape =>
              shapes'[s].children[m] = shapes[s].children[m]

LEMMA StepGrowsTree == ShapeInv /\ [Next]_vars => TreeOnlyGrows
<1> SUFFICES ASSUME ShapeInv, [Next]_vars PROVE TreeOnlyGrows
  OBVIOUS
<1>1. /\ shapes \in Seq(Shape) /\ Len(shapes) \in Nat /\ DOMAIN shapes = ShapeIds
      /\ TypeOK
  BY DEF ShapeInv, TypeOK, ShapeIds
<1>2. ASSUME UNCHANGED shapes
      PROVE  TreeOnlyGrows
  BY <1>1, <1>2 DEF TreeOnlyGrows
<1>3. ASSUME NEW s, NEW m, MayGrow(s, m), GrowTree(s, shapes[s].size, m)
      PROVE  TreeOnlyGrows
  <2>1. /\ shapes' \in Seq(Shape) /\ Len(shapes') = Len(shapes) + 1
        /\ \A t \in ShapeIds :
             /\ shapes'[t].size = shapes[t].size
             /\ shapes'[t].members = shapes[t].members
             /\ \A n \in Names : shapes'[t].children[n] =
                  IF t = s /\ n = m THEN Len(shapes) + 1 ELSE shapes[t].children[n]
    BY <1>1, <1>3, GrowTreeEffect
  <2>2. \A t \in ShapeIds : t \in DOMAIN shapes'
    BY <1>1, <2>1 DEF ShapeIds
  <2>3. shapes[s].children[m] = NoShape
    BY <1>3 DEF MayGrow
  <2> QED BY <2>1, <2>2, <2>3 DEF TreeOnlyGrows
<1>4. ASSUME NEW o \in Objects, o \in Allocated, NEW m \in Names, NEW v,
             AddMember(o, m, v)
      PROVE  TreeOnlyGrows
  <2>1. CASE FollowChild(o, m, v)
    BY <2>1, <1>2 DEF FollowChild
  <2>2. CASE MakeChild(o, m, v)
    <3>1. /\ objects[o].shape \in ShapeIds
          /\ Len(objects[o].members) = shapes[objects[o].shape].size
      BY <1>4, AllocatedObject
    <3>2. PICK s \in ShapeIds : s = objects[o].shape
      BY <3>1
    <3>3. MayGrow(s, m)
      BY <1>4, <2>2, <3>2 DEF MayGrow, MakeChild, AddMember, HasMember, Index
    <3>4. GrowTree(s, shapes[s].size, m)
      BY <2>2, <3>1, <3>2 DEF MakeChild, GrowTree, ChildShape
    <3> QED BY <1>3, <3>3, <3>4
  <2> QED BY <1>4, <2>1, <2>2 DEF AddMember
<1>5. ASSUME NEW m \in Names, GetMemberOfNonObject(m)
      PROVE  TreeOnlyGrows
  BY <1>2, <1>5 DEF GetMemberOfNonObject
<1>6. ASSUME NEW m \in Names, NEW v \in Values, SetMemberOfNonObject(m, v)
      PROVE  TreeOnlyGrows
  <2>1. CASE UNCHANGED shapes
    BY <2>1, <1>2
  <2>2. CASE shapes[EmptyShape].children[m] = NoShape /\ GrowTree(EmptyShape, 0, m)
    <3>1. MayGrow(EmptyShape, m) /\ shapes[EmptyShape].size = 0
      BY <2>2 DEF MayGrow, ShapeInv, TreeInv, RootIsEmpty
    <3> QED BY <2>2, <3>1, <1>3
  <2> QED BY <1>6, <2>1, <2>2 DEF SetMemberOfNonObject
<1>7. ASSUME NEW o \in Objects, NewObject(o)
      PROVE  TreeOnlyGrows
  BY <1>2, <1>7 DEF NewObject
<1>8. ASSUME NEW o \in Objects, NEW m \in Names, GetObjectMember(o, m)
      PROVE  TreeOnlyGrows
  BY <1>2, <1>8 DEF GetObjectMember
<1>9. ASSUME NEW o \in Objects, NEW m \in Names, DeclareMember(o, m)
      PROVE  TreeOnlyGrows
  BY <1>2, <1>4, <1>9 DEF DeclareMember
<1>10. ASSUME NEW o \in Objects, NEW m \in Names, NEW v \in Values, SetObjectMember(o, m, v)
       PROVE  TreeOnlyGrows
  <2>1. o \in Allocated /\ (Overwrite(o, m, v) \/ AddMember(o, m, v))
    BY <1>10 DEF SetObjectMember
  <2>2. CASE Overwrite(o, m, v)
    BY <2>2, <1>2 DEF Overwrite
  <2>3. CASE AddMember(o, m, v)
    BY <2>1, <2>3, <1>4
  <2> QED BY <2>1, <2>2, <2>3
<1>11. CASE UNCHANGED vars
  BY <1>2, <1>11 DEF vars
<1> QED BY <1>5, <1>6, <1>7, <1>8, <1>9, <1>10, <1>11 DEF Next

\* Shapes, objects and answers are what value.h declares.
THEOREM AlwaysTypeOK == Spec => []TypeOK
<1>1. ShapeInv => TypeOK
  BY DEF ShapeInv
<1> QED BY <1>1, ShapesInvariant, PTL

\* The members of a shape fill the indices below its size, each once.
THEOREM AlwaysMembersArePacked == Spec => []MembersArePacked
<1>1. ShapeInv => MembersArePacked
  BY DEF ShapeInv, TreeInv
<1> QED BY <1>1, ShapesInvariant, PTL

\* Following an edge puts one name at the end of the layout and moves nothing.
THEOREM AlwaysChildExtendsParent == Spec => []ChildExtendsParent
<1>1. ShapeInv => ChildExtendsParent
  BY DEF ShapeInv, TreeInv
<1> QED BY <1>1, ShapesInvariant, PTL

\* No step moves a member in a layout an object may already have.
THEOREM AlwaysShapesAreImmutable == Spec => ShapesAreImmutable
<1>1. ShapeInv /\ [Next]_vars => [TreeOnlyGrows]_vars
  BY StepGrowsTree
<1>2. [TreeOnlyGrows]_vars =>
        [\A s \in ShapeIds :
           /\ s \in DOMAIN shapes'
           /\ shapes'[s].members = shapes[s].members
           /\ shapes'[s].size = shapes[s].size
           /\ \A m \in Names : shapes[s].children[m] # NoShape =>
                  shapes'[s].children[m] = shapes[s].children[m]]_vars
  BY DEF TreeOnlyGrows
<1> QED BY <1>1, <1>2, ShapesInvariant, PTL DEF Spec, ShapesAreImmutable
==============================================================================
