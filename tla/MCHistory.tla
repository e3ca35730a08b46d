------------------------------ MODULE MCHistory ------------------------------
\* The functions and arguments of MCMachine, with the history of their locations.
EXTENDS MCMachine, History
==============================================================================
