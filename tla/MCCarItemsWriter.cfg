SPECIFICATION Spec
CONSTANTS
    c1 = c1
    c2 = c2
    p1 = p1
    x1 = x1
    main = main
    carLoop = carLoop
    none = none
    Cars <- MCCars1
    Ports <- MCPorts
    Codes <- MCCodes
    Callers <- MCCallers
    NoPort = none
    NoCode = none
    NoCar = none
    MaxTurns = 1
    MaxOutstanding = 2
INVARIANTS LockDiscipline UnloadedHasNoPort NoLostPush JoinedMeansDrained
PROPERTIES ReadersSeeStableTable DeferredInOrder DeferredEventually
