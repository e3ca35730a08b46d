------------------------------ MODULE MCMachine ------------------------------
\* Functions of Programs to compile and run, each with some lists of arguments.
EXTENDS MachineMeaning

Fuel == 4

ThisValue == BoxObject(GlobalObject)

\* both parameters are given; loops run not at all, or three times
Complete == {<<ThisValue, BoxInt(0), BoxInt(2)>>, <<ThisValue, BoxInt(3), BoxString("2a")>>}

True1 == {<<ThisValue, BoxInt(1), BoxInt(0)>>}

TasksOf(bodies, argLists) ==
    {[fun |-> Fun(b), code |-> IRCompileFunction(Fun(b)), args |-> args, fuel |-> Fuel] :
       b \in bodies, args \in argLists}

FunctionTasks == TasksOf(Straight \cup IfBodies \cup WhileBodies, Complete)
MixedTasks    == TasksOf(MixedBodies, Complete)

TwoConditionalTasks   == TasksOf(TwoConditionals, True1)
CallResultTasks       == TasksOf(CallResults, Complete)
NegativeDividendTasks == TasksOf(NegativeDividend, Complete)
==============================================================================
