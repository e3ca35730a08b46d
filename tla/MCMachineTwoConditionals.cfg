CONSTANTS
    WordBits = 14
    Tasks <- TwoConditionalTasks
    Codes <- TaskCodes
SPECIFICATION MachineSpec
CHECK_DEADLOCK FALSE
INVARIANTS
    ComputesTheMeaning
