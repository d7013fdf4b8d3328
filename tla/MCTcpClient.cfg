SPECIFICATION FairSpec
CONSTANTS
    Caller = {heartbeat, application}
    None = None
    Failed = Failed
    Mixed = Mixed
    MaxRequests = 3
PROPERTIES
    OffByAbandoned
    CallsEnd
