SPECIFICATION Safe
CONSTANTS
    ULLONG_MAX = 65535
    HTTP_MAX_HEADER_SIZE = 200
    Streams <- WrittenStreams
    Parts = {"written", "any", "url", "path", "query", "normal", "uri"}
INVARIANTS
    ParserRoundTrip ParserCutFree  
CHECK_DEADLOCK FALSE
