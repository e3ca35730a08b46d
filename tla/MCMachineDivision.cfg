CONSTANTS
    WordBits = 14
    Tasks <- NegativeDividendTasks
    Codes <- TaskCodes
SPECIFICATION MachineSpec
CHECK_DEADLOCK FALSE
INVARIANTS
    ComputesTheMeaning
