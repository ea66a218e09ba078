SPECIFICATION Fair
CONSTANTS
    None = None
    Stub = Stub
    a = a
    b = b
    c = c
    s1 = s1
    s2 = s2
    s3 = s3
    r1 = r1
    r2 = r2
    lt = lt
    x = x
    y = y
    Tasks = {a, b, c}
    Cancelable = {a, b}
    Parts = {"qutex", "rendez", "http_pool", "mpsc", "list"}
INVARIANTS MutualExclusion HandOver
PROPERTIES ImplementsFifoLock WaitsEnd  QueuesDeliver
CHECK_DEADLOCK FALSE
