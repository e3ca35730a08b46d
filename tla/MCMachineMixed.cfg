CONSTANTS
    WordBits = 14
    Tasks <- MixedTasks
    Codes <- TaskCodes
SPECIFICATION MachineSpec
CHECK_DEADLOCK FALSE
INVARIANTS
    WordsComeFromMembers
    ConfusionIsConfined
