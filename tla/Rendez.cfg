SPECIFICATION Safe
CONSTANTS
    None = None
    Waiters = {a, b, c}
    Signalers = {s1, s2}
    MaxItems = 2
    Canceled = {a, b}
    Deadlined = {}
    OneThread = FALSE
    Timed = {a, c}
    Parts = {"threads", "one_thread"}
INVARIANT RendezNoLostSignal
CHECK_DEADLOCK FALSE
