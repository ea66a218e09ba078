SPECIFICATION Safe
CONSTANTS
    None = None
    Garbage = Garbage
    p1 = p1
    p2 = p2
    c1 = c1
    c2 = c2
    v = v
    w = w
    h1 = h1
    h2 = h2
    Producers = {p1, p2}
    Consumers = {c1, c2}
    Values = {v, w}
    Size = 2
    MaxPos = 4
    Parts = {"mpmc", "deque", "grow", "single"}
SYMMETRY Symmetric
INVARIANTS
    InOrder OwnCell 
