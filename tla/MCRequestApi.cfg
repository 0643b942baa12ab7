SPECIFICATION Spec
CONSTANTS
    r1 = r1
    r2 = r2
    r3 = r3
    r4 = r4
    Requests <- MCRequests4
    ConcurrencyLimit = 1
    MaxQueueSize = 2
    MaxRetries = 1
INVARIANTS WithinLimits BudgetWithoutQueue
PROPERTIES EachEndsOnce OnlyTimeoutsLeaveRoom ServedOrAlone
CHECK_DEADLOCK FALSE
