SPECIFICATION FairSpec
CONSTANTS
    Token = {t1, t2}
    None = None
    Retries = 2
    MaxConnects = 2
    Liberties = {}
INVARIANTS
    TypeOK
    Stoppable
    LeftClean
PROPERTIES
    CallsReturn
    LossReported
    LeaveSilences
