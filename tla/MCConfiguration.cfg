SPECIFICATION MCSpec
CONSTANTS
    main = main
    init = init
    slot = slot
    job = job
    c1 = c1
    c2 = c2
    junk = junk
    none = none
    Threads = {main, init, slot, job}
    Main = main
    Starter = init
    SlotThread = slot
    Cars = {c1, c2}
    Slots = {1, 2}
    Junk = junk
    NoAnswer = none
    PoolSize = 2
    MaxUses = 2
INVARIANTS
    OneOwner
    FreeIsNoticed
    LocksMatchTable
PROPERTIES
    WaiterIsServed
    LockedPortIsLeftAlone
    ConfigArrives
CHECK_DEADLOCK FALSE
