CONSTANTS
    Names <- TwoNames
    Bodies <- AllBodies
    Files <- AllFiles
    Declarations <- Sources
    Broken <- NoPrograms
    Invalid <- BadBodies
    Arguments <- TwoFiles
    Frame <- Frames
    StackWords = 6
    MaxDepth = 5
    MaxFunctions = 3
SPECIFICATION Spec
CHECK_DEADLOCK FALSE
INVARIANTS
    ExecTypeOK
    FramesAreStacked
    CollectorFindsValidWords
    RunsItsOwnCode
PROPERTIES
    ImplementsScope
