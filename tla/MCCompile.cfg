CONSTANTS
    Codes <- AllCodes
SPECIFICATION AllocSpec
CHECK_DEADLOCK FALSE
INVARIANTS
    ChainsHaveOneLink
    TargetsAreUnifies
    OperandsShareLocationIfUnifiedOnce
    SharedLocationsAreBoxed
    LiveValuesHoldTheirSlot
    LiveValuesAreApart
    LoopsKeepTheirValues
    LoopsNameTheirValues
    PlacesAreInFrame
    LocationsHaveOnePlace
PROPERTIES
    CompilationAdvances
    CompilationEnds
