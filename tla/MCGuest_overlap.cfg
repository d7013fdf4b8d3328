SPECIFICATION Spec
CONSTANTS
    Token = {t1, t2}
    None = None
    Retries = 2
    MaxConnects = 2
    Liberties = {"overlap", "retry"}
INVARIANT
    NoStrayHeartbeat
