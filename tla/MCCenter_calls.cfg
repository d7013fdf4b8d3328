SPECIFICATION Spec
CONSTANTS
    c1 = c1
    c2 = c2
    host = host
    alice = alice
    Machine = {host, alice}
    HostMachine = host
    NoMachine = NoMachine
    Conn = {c1}
    None = None
    Absent = Absent
    Other = Other
    Malformed = Malformed
    Sends <- ThirdParty
    Verdict <- Tolerant
    Calls = {"close", "disconnect", "remove"}
    MaxEvents = 1
INVARIANTS
    TasksCancellable
    ListWellFormed
    HostOnList
PROPERTY
    KeepsRoom
CHECK_DEADLOCK FALSE
