SPECIFICATION Safe
CONSTANTS
    a = a
    b = b
    lt = lt
    cl1 = cl1
    cl2 = cl2
    cl3 = cl3
    None = None
    Tasks = {a, b, c}
    Resources = {cl1, cl2, cl3, cl4}
    Cancelable = {a}
    Max = 1
    MayFail = FALSE
    Parts = {"pool", "pool_two", "pool_fails", "http_pool", "lru", "lru_erase", "buffer", "stack", "ring", "ring_collide", "zip", "zip_find"}
SYMMETRY Symmetric
INVARIANTS
    PoolAccounts NobodyStuck HttpPoolServes  BufferContents StackOneOwner 
 
CHECK_DEADLOCK FALSE
