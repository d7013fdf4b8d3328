SPECIFICATION FairSpec
CONSTANTS
    Caller = {a, b}
    Token = {t1, t2}
    t1 = t1
    t2 = t2
    None = None
    NoList = NoList
    direct = direct
    http = http
    default = default
    own = own
    extra = extra
    Setting <- Settings
    Direct <- Directs
    Http <- Https
    Default <- Defaults
    Ttl = 2
    MaxClock = 2
    MaxRooms = 3
INVARIANTS
    TypeOK
    ServedFresh
    ListUsable
    NothingForgotten
PROPERTIES
    CloseAllCovers
    OnlyClosingCancels
    CloseAllCloses
CHECK_DEADLOCK FALSE
