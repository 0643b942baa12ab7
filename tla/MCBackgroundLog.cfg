SPECIFICATION Spec
CONSTANTS
    HoursPerDay = 2
    MaxHours = 3
    MaxMessages = 3
INVARIANTS
    AllInOrder
    CloseDrains
PROPERTIES
    LinesFitTheirFile
    CloseReturns
    LoggedIsHandled
CHECK_DEADLOCK FALSE
