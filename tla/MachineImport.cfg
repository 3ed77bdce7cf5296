SPECIFICATION Spec
CONSTANTS
    GuardNames <- MCGuards
    ActionNames <- MCActions
    ActorNames <- MCActors
    DelayNames <- MCDelays
    Numbers <- MCNumbers
    Texts <- MCTexts
    Configs <- Edited
    Written <- MCWritten
    Exports <- MCExports
INVARIANTS
    ReadsWhatIsWritten
    ExportsAreRead
    AcceptedIsChart
    NamesAreBound
    TargetsAddressable
CHECK_DEADLOCK FALSE
