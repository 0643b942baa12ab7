SPECIFICATION Spec
CONSTANTS
    camera41 = camera41
    Cameras = {camera41}
    Cells = {}
    SerialPorts = 1
    CarsPerSocket = 1
    TotalCarNum = 2
    MaxPosted = 1
INVARIANTS
    WriterOutlivesLoop
    FewCommandsLost
PROPERTIES
    ShutIsNoticed
    WaitsEnd
\* The process exits.
CHECK_DEADLOCK FALSE
