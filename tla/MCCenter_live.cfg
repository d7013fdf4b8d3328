SPECIFICATION FairSpec
CONSTANTS
    c1 = c1
    c2 = c2
    host = host
    alice = alice
    Machine = {host, alice}
    HostMachine = host
    NoMachine = NoMachine
    Conn = {c1}
    None = None
    Absent = Absent
    Other = Other
    Malformed = Malformed
    Sends <- OneGuest
    Verdict <- NoHook
    Calls = {"close", "cancel"}
    MaxEvents = 1
PROPERTIES
    BrokenLeaves
    ExpiredDropped
    WindsDown
CHECK_DEADLOCK FALSE
