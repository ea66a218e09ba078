SPECIFICATION Safe
CONSTANTS
    main = main
    worker = worker
    a = a
    b = b
    None = None
    MainThread = main
    Threads = {main, worker}
    UserTasks = {a, b}
    Program <- WakeProgram
    Parts = {"wake", "cancel"}
INVARIANTS OneToken NoLostWakeup NoInterruptedSleeper NoUseAfterFree
PROPERTY ImplementsPark
CHECK_DEADLOCK FALSE
