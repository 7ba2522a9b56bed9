\* Every option, any call failing, up to two devices, signals at any moment.
SPECIFICATION Spec
CONSTANTS
    MaxNumber = 2
    MaxDevices = 2
    MaxTaken = 13
INVARIANTS
    MainIsInOrder
    NothingIsLeft
    EarlySignalTakesNone
PROPERTIES
    ProgramEnds
