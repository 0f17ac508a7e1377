SPECIFICATION Spec
CONSTANTS
    NKeys = 6
    Vals = {"small", "large", "huge"}
    KeySize <- MCKeySize
    ValSize <- MCValSize
    OvPages <- MCOvPages
    Pairs <- MCPairs
    NodeHdr = 1
    PgnoSize = 4
    PageMax = 16
    NodeMax = 8
    MaxPages = 16
    Cursors = {1}
    PutFlags = {"", "MDB_NOOVERWRITE"}
    CursorFlags = {"", "MDB_APPEND"}
INVARIANTS TreeSound AlwaysRoom AnswersRight 
