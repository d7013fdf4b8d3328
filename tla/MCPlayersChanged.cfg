SPECIFICATION FairSpec
CONSTANTS
    g1 = g1
    g2 = g2
    consumer = consumer
    host = host
    alice = alice
    Machine = {host, alice}
    HostMachine = host
    NoMachine = NoMachine
    Connection = {g1, g2}
    Other = {consumer}
    PingId = {alice, host}
PROPERTIES
    Settles
