SPECIFICATION Spec
CONSTANTS
    c1 = c1
    c2 = c2
    host = host
    alice = alice
    Machine = {host, alice}
    HostMachine = host
    NoMachine = NoMachine
    Conn = {c1, c2}
    None = None
    Absent = Absent
    Other = Other
    Malformed = Malformed
    Sends <- OneMachineEach
    Verdict <- NoHook
    Calls = {}
    MaxEvents = 1
SYMMETRY Clients
INVARIANTS
    TypeOK
    RegistryClean
    TasksCancellable
    RegisteredWatched
    GuestsAccounted
CHECK_DEADLOCK FALSE
