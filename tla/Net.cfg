SPECIFICATION Safe
CONSTANTS
    None = None
    a = a
    b = b
    c = c
    x = x
    y = y
    z = z
    s1 = s1
    s2 = s2
    r1 = r1
    r2 = r2
    Senders = {s1, s2}
    Receivers = {r1, r2}
    Cancelable = {s1, s2, r1}
    Capacity = 1
    MaxSends = 2
    Closes = TRUE
    Clears = FALSE
    CallsInterrupted = FALSE
    Parts = {"channel", "channel_buffered", "channel_cleared", "io", "io_shared", "server", "server_throws", "http", "http_interrupts", "http_unframed", "rpc", "rpc_interrupts"}
INVARIANTS
    NobodyStuck ChannelsServe IoAgrees  
PROPERTY ChannelSendReceived
