SPECIFICATION Fair
CONSTANTS
    main = main
    worker = worker
    a = a
    b = b
    None = None
    MainThread = main
    Threads = {main, worker}
    UserTasks = {a, b}
    Program <- WakeProgram
    Parts = {"quiet"}
PROPERTY ShutdownReaches
CHECK_DEADLOCK FALSE
