----------------------------- MODULE ObjectStore -----------------------------
(***************************************************************************)
(* What value.c promises the rest of SDyn about objects.  No operation     *)
(* tells a member that is missing from one that holds undefined, so an     *)
(* object is a total map from names to values, undefined everywhere at     *)
(* first; writing one name of one object disturbs nothing else.  Shapes,   *)
(* index maps and member arrays are invisible at this level.               *)
(***************************************************************************)
CONSTANTS
    Objects,        \* the identities objects can have
    GlobalObject,   \* sdyn_globalObject
    Names,          \* member names
    Values,         \* the values members hold
    Undefined       \* sdyn_undefined

VARIABLES
    alive,          \* the allocated objects
    store,          \* what each name of each object holds
    call,           \* the last operation and its arguments
    answer          \* the value it returned

storeVars == <<alive, store, call, answer>>

StoreInit ==
    /\ alive = {GlobalObject}
    /\ store = [o \in Objects |-> [m \in Names |-> Undefined]]
    /\ call = <<>>
    /\ answer = Undefined

New(o) ==
    /\ call' = <<"new", o>>
    /\ o \notin alive
    /\ alive' = alive \cup {o}
    /\ UNCHANGED <<store, answer>>

Get(o, m) ==
    /\ call' = <<"get", o, m>>
    /\ o \in alive
    /\ answer' = store[o][m]
    /\ UNCHANGED <<alive, store>>

Set(o, m, v) ==
    /\ call' = <<"set", o, m, v>>
    /\ o \in alive
    /\ store' = [store EXCEPT ![o][m] = v]
    /\ answer' = v
    /\ UNCHANGED alive

\* A declared member holds what it held, which is undefined if it was never written.
Declare(o, m) ==
    /\ call' = <<"declare", o, m>>
    /\ o \in alive
    /\ UNCHANGED <<alive, store, answer>>

\* A value that is not an object has no members to read or to keep.
GetOfNonObject(m) ==
    /\ call' = <<"get", m>>
    /\ answer' = Undefined
    /\ UNCHANGED <<alive, store>>

SetOfNonObject(m, v) ==
    /\ call' = <<"set", m, v>>
    /\ answer' = v
    /\ UNCHANGED <<alive, store>>

StoreNext ==
    \/ \E o \in Objects : New(o)
    \/ \E m \in Names :
         \/ GetOfNonObject(m)
         \/ \E v \in Values : SetOfNonObject(m, v)
         \/ \E o \in Objects :
              \/ Get(o, m)
              \/ Declare(o, m)
              \/ \E v \in Values : Set(o, m, v)

StoreSpec == StoreInit /\ [][StoreNext]_storeVars
==============================================================================
