CONSTANTS
    WordBits = 14
    Tasks <- FunctionTasks
    Codes <- TaskCodes
SPECIFICATION HistorySpec
CHECK_DEADLOCK FALSE
INVARIANTS
    MachineTypeOK
    ComputesTheMeaning
    PointerStackHoldsPointers
    TypesAreRight
    SlotsHoldTheLatest
    ValuesAreStoredFirst
PROPERTIES
    RunsToTheEnd
