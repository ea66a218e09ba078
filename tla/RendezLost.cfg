SPECIFICATION Safe
CONSTANTS
    None = None
    Waiters = {a, b}
    Signalers = {s1, s2}
    MaxItems = 2
    Canceled = {a}
    Deadlined = {a}
    OneThread = FALSE
    Timed = {}
    Parts = {"threads"}
INVARIANT RendezNoLostSignal
CHECK_DEADLOCK FALSE
