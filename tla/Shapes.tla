------------------------------- MODULE Shapes --------------------------------
(***************************************************************************)
(* The objects of value.c.  An object is a shape and an array of member    *)
(* values; a shape says at which index of the array each name lives, and   *)
(* remembers, by name, the shape an object moves to when that name is      *)
(* added.  Shapes are shared by objects and never freed: they form a tree  *)
(* rooted at sdyn_emptyShape that only grows.                              *)
(***************************************************************************)
EXTENDS Integers, Sequences

CONSTANTS
    Objects,        \* the identities objects can have
    GlobalObject,   \* sdyn_globalObject
    Names,          \* member names
    Values,         \* the values members hold
    Undefined       \* sdyn_undefined

ASSUME ShapesAssumption ==
    /\ GlobalObject \in Objects
    /\ Undefined \in Values

VARIABLES
    shapes,     \* the shapes made so far; the first is sdyn_emptyShape
    objects,    \* the shape and the member array of each object
    call,       \* the last operation and its arguments
    answer      \* the value it returned

vars == <<shapes, objects, call, answer>>

EmptyShape == 1
NoShape    == 0     \* no child under a name; the shape of an unallocated object
NoIndex    == -1    \* (size_t) -1: the object has no such member

Shape  == [size : Nat, children : [Names -> Nat], members : [Names -> Nat \cup {NoIndex}]]
Object == [shape : Nat, members : Seq(Values)]

\* Shapes, objects and answers are what value.h declares (78-106): in particular no
\* element of a member array is left unset by the code that grows the array.
TypeOK ==
    /\ shapes \in Seq(Shape)
    /\ objects \in [Objects -> Object]
    /\ answer \in Values

\* an array counts from 0, a sequence from 1
At(index) == index + 1

ShapeIds == 1 .. Len(shapes)

Allocated == {o \in Objects : objects[o].shape # NoShape}
------------------------------------------------------------------------------
NoChildren == [m \in Names |-> NoShape]
NewRecord  == [shape |-> EmptyShape, members |-> <<>>]

\* sdyn_initValues: the empty shape, and the global object, which has it
Init ==
    /\ shapes = << [size     |-> 0,
                    children |-> NoChildren,
                    members  |-> [m \in Names |-> NoIndex]] >>
    /\ objects = [o \in Objects |->
                    IF o = GlobalObject THEN NewRecord
                                        ELSE [NewRecord EXCEPT !.shape = NoShape]]
    /\ call = <<>>
    /\ answer = Undefined

\* sdyn_newObject
NewObject(o) ==
    /\ call' = <<"new", o>>
    /\ o \notin Allocated
    /\ objects' = [objects EXCEPT ![o] = NewRecord]
    /\ UNCHANGED <<shapes, answer>>

\* sdyn_getObjectMemberIndex without create
Index(o, m) == shapes[objects[o].shape].members[m]

HasMember(o, m) == Index(o, m) # NoIndex

\* sdyn_getObjectMember
Read(o, m) ==
    IF HasMember(o, m) THEN objects[o].members[At(Index(o, m))] ELSE Undefined

GetObjectMember(o, m) ==
    /\ call' = <<"get", o, m>>
    /\ o \in Allocated
    /\ answer' = Read(o, m)
    /\ UNCHANGED <<shapes, objects>>

\* mutants: the child does not count its new member; the member is put one too far
UncountedChild(s, n, m) ==
    [size     |-> n,
     children |-> NoChildren,
     members  |-> [shapes[s].members EXCEPT ![m] = n]]

LooseChild(s, n, m) ==
    [size     |-> n + 1,
     children |-> NoChildren,
     members  |-> [shapes[s].members EXCEPT ![m] = n + 1]]

\* a new shape under shape s, for an object of s with n elements that gets m
ChildShape(s, n, m) ==
    [size     |-> n + 1,
     children |-> NoChildren,
     members  |-> [shapes[s].members EXCEPT ![m] = n]]

\* mutants: the edge to the child is off by one, or missing; the parent's index map is
\* extended instead of a copy of it
MisplacedEdge(s, n, m) ==
    shapes' = Append([shapes EXCEPT ![s].children[m] = Len(shapes)], ChildShape(s, n, m))

NoEdge(s, n, m) == shapes' = Append(shapes, ChildShape(s, n, m))

MapShared(s, n, m) ==
    shapes' = Append([shapes EXCEPT ![s].children[m] = Len(shapes) + 1,
                                    ![s].members[m]  = n],
                     ChildShape(s, n, m))

GrowTree(s, n, m) ==
    shapes' = Append([shapes EXCEPT ![s].children[m] = Len(shapes) + 1],
                     ChildShape(s, n, m))

\* mutant: the new element is always undefined
ExtendUndefined(o, c, v) ==
    objects' = [objects EXCEPT ![o] = [shape   |-> c,
                                       members |-> Append(objects[o].members, Undefined)]]

\* sdyn_getObjectMemberIndex with create, on an object without the member: the
\* array grows by one element, which holds v, and the object moves to the child
\* shape, which is made if no object went there before
Extend(o, c, v) ==
    objects' = [objects EXCEPT ![o] = [shape   |-> c,
                                       members |-> Append(objects[o].members, v)]]

FollowChild(o, m, v) ==
    LET c == shapes[objects[o].shape].children[m] IN
    /\ c # NoShape
    /\ Extend(o, c, v)
    /\ UNCHANGED shapes

MakeChild(o, m, v) ==
    LET s == objects[o].shape IN
    /\ shapes[s].children[m] = NoShape
    /\ GrowTree(s, Len(objects[o].members), m)
    /\ Extend(o, Len(shapes) + 1, v)

AddMember(o, m, v) ==
    /\ ~HasMember(o, m)
    /\ FollowChild(o, m, v) \/ MakeChild(o, m, v)

Overwrite(o, m, v) ==
    /\ HasMember(o, m)
    /\ objects' = [objects EXCEPT ![o].members[At(Index(o, m))] = v]
    /\ UNCHANGED shapes

\* sdyn_setObjectMember; the value of an assignment is the value assigned
SetObjectMember(o, m, v) ==
    /\ call' = <<"set", o, m, v>>
    /\ o \in Allocated
    /\ Overwrite(o, m, v) \/ AddMember(o, m, v)
    /\ answer' = v

\* a global variable declaration only asks for the member's index
DeclareMember(o, m) ==
    /\ call' = <<"declare", o, m>>
    /\ o \in Allocated
    /\ \/ HasMember(o, m) /\ UNCHANGED <<shapes, objects>>
       \/ AddMember(o, m, Undefined)
    /\ UNCHANGED answer

\* A member of a value that is not an object: sdyn_toObject makes an empty
\* object that is dropped after the access.  Reading finds nothing; writing
\* leaves its mark on the shape tree alone.
GetMemberOfNonObject(m) ==
    /\ call' = <<"get", m>>
    /\ answer' = Undefined
    /\ UNCHANGED <<shapes, objects>>

SetMemberOfNonObject(m, v) ==
    /\ call' = <<"set", m, v>>
    /\ \/ shapes[EmptyShape].children[m] # NoShape /\ UNCHANGED shapes
       \/ shapes[EmptyShape].children[m] = NoShape /\ GrowTree(EmptyShape, 0, m)
    /\ answer' = v
    /\ UNCHANGED objects

Next ==
    \/ \E o \in Objects : NewObject(o)
    \/ \E m \in Names :
         \/ GetMemberOfNonObject(m)
         \/ \E v \in Values : SetMemberOfNonObject(m, v)
         \/ \E o \in Objects :
              \/ GetObjectMember(o, m)
              \/ DeclareMember(o, m)
              \/ \E v \in Values : SetObjectMember(o, m, v)

Spec == Init /\ [][Next]_vars
------------------------------------------------------------------------------
Members(s) == {m \in Names : shapes[s].members[m] # NoIndex}

\* Every object's array has exactly the elements its shape accounts for: value.c
\* takes the index from the shape, or for a new member from the array's length,
\* and reads and writes the array there without a bounds check.
ObjectFitsShape ==
    \A o \in Allocated :
        /\ objects[o].shape \in ShapeIds
        /\ Len(objects[o].members) = shapes[objects[o].shape].size

\* A shape gives its names the indices below its size, every one of them and none
\* to two names: members never share an array element and none is wasted.
MembersArePacked ==
    \A s \in ShapeIds :
        /\ \A m \in Members(s) : shapes[s].members[m] < shapes[s].size
        /\ \A i \in 0 .. shapes[s].size - 1 : \E m \in Names : shapes[s].members[m] = i
        /\ \A m, n \in Members(s) :
             shapes[s].members[m] = shapes[s].members[n] => m = n

\* Following the edge for a name puts the name at the end of the layout and moves
\* nothing: an object that takes it keeps its values where they are.
ChildExtendsParent ==
    \A s \in ShapeIds, m \in Names :
        LET c == shapes[s].children[m] IN
        c # NoShape =>
            /\ c \in ShapeIds
            /\ m \notin Members(s)
            /\ shapes[c].size = shapes[s].size + 1
            /\ shapes[c].members = [shapes[s].members EXCEPT ![m] = shapes[s].size]

\* Objects that got the same names in the same order have the same shape,
\* however their constructions were interleaved: one layout, one shape.
LayoutsAreShared ==
    \A s, t \in ShapeIds : shapes[s].members = shapes[t].members => s = t

\* A shape's layout never changes once objects may have it, and an edge of the
\* tree is never redirected.
ShapesAreImmutable ==
    [][\A s \in ShapeIds :
         /\ s \in DOMAIN shapes'
         /\ shapes'[s].members = shapes[s].members
         /\ shapes'[s].size = shapes[s].size
         /\ \A m \in Names : shapes[s].children[m] # NoShape =>
                shapes'[s].children[m] = shapes[s].children[m]]_vars
------------------------------------------------------------------------------
\* The store the objects implement.
StoreOf ==
    [o \in Objects |-> [m \in Names |-> IF o \in Allocated THEN Read(o, m) ELSE Undefined]]

Store == INSTANCE ObjectStore WITH alive <- Allocated, store <- StoreOf

\* Objects with shapes behave as maps from names to values: what is read is what
\* was last written to that name of that object, whatever was done to other
\* names and other objects in between.
ImplementsStore == Store!StoreSpec
==============================================================================
