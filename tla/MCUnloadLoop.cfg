SPECIFICATION LoopSpec
CONSTANTS
    p1 = p1
    x1 = x1
    none = none
    Main = Main
    CarLoop = CarLoop
    Cars <- MCCars1
    Ports <- MCPorts1
    Codes <- MCCodes1
    Callers <- MCCallers
    NoPort = none
    NoCode = none
    NoCar = none
    TestPort = p1
    EmptyLimit = 0
    MaxTurns = 1
    MaxOutstanding = 1
    MaxVersion = 2
INVARIANT CopyIsCurrent
PROPERTIES DoubleDriveOnlyIfDeferred ChangesAreSeen
