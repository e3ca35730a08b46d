CONSTANTS
    WordBits = 14
    Tasks <- CallResultTasks
    Codes <- TaskCodes
SPECIFICATION MachineSpec
CHECK_DEADLOCK FALSE
INVARIANTS
    ComputesTheMeaning
