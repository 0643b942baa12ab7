SPECIFICATION Spec
CONSTANTS
    r1 = r1
    r2 = r2
    r3 = r3
    r4 = r4
    Requests <- MCRequests3
    ConcurrencyLimit = 1
    MaxQueueSize = 1
    MaxRetries = 1
PROPERTIES QueuedIsSent
CHECK_DEADLOCK FALSE
