------------------------------- MODULE History -------------------------------
(***************************************************************************)
(* The compiled function at work, with the history of its locations: what  *)
(* was last stored for each of them.  The code has no such record; a slot  *)
(* is all that a location has, and the slot is given back and handed to    *)
(* other locations as sdyn_irRegAlloc saw fit.  "latest" says what the     *)
(* code that uses a location should find in its slot.                      *)
(***************************************************************************)
EXTENDS Machine

VARIABLE latest     \* for the locations that have one: the cell last stored for it

historyVars == <<allVars, latest>>

HistoryInit == MachineInit /\ latest = [l \in {} |-> Garbage]

\* Code is being run that stores a value.  (PARAM stores none if the argument is missing.)
StoresValue(i) ==
    /\ IsValue(code[i].op) /\ ~IsUnify(i)
    /\ code[i].op = "PARAM" => code[i].imm < Len(task.args)

Active == status \in {"running", "boxing"}

Remember ==
    LET stored == stack'[StackOf(place[pc])][place[pc].addr] IN
    /\ Active /\ Active' /\ StoresValue(pc)
    /\ latest' = [l \in DOMAIN latest \cup {uidx[pc]} |-> IF l = uidx[pc] THEN stored ELSE latest[l]]

\* Some node before node b stores a value in location l.
StoredBefore(l, b) == \E i \in Indices : i < b /\ uidx[i] = l /\ IsValue(code[i].op) /\ ~IsUnify(i)

\* A loop's next round begins: what is stored nowhere but inside of the loop was the last
\* round's own.
Repeats == status = "running" /\ code[pc].op = "WEND"

NextRound ==
    LET kept == {l \in DOMAIN latest : StoredBefore(l, code[pc].left)} IN
    /\ Repeats
    /\ latest' = [l \in kept |-> latest[l]]

KeepAll ==
    /\ ~(Active /\ Active' /\ StoresValue(pc))
    /\ ~Repeats
    /\ UNCHANGED latest

HistoryNext ==
    \/ AllocNext /\ UNCHANGED <<machineVars, latest>>
    \/ Execute /\ UNCHANGED compileVars /\ (Remember \/ NextRound \/ KeepAll)

HistorySpec == HistoryInit /\ [][HistoryNext]_historyVars /\ WF_historyVars(HistoryNext)
------------------------------------------------------------------------------
\* However slots are given back and handed out again: code that uses a value finds in its
\* slot what was last stored for its location.  ("so this must be the last use", ir.c 956.)
SlotsHoldTheLatest ==
    status = "running" /\ CallsGiveBackTheDead =>
        \A v \in Reads(pc) : uidx[v] \in DOMAIN latest => Load(v) = latest[uidx[v]]

\* Along every way the branches may take, a value that no UNIFY joins with another was
\* stored before it is used, in this round of every loop or before the loop.
ValuesAreStoredFirst ==
    status = "running" =>
        \A v \in Reads(pc) : uidx[v] = v /\ StoresValue(v) => v \in DOMAIN latest
==============================================================================
