SPECIFICATION JoinSpec
CONSTANTS
    Foreign <- MCForeign
    Error = Error
    Supported <- MCSupported
    Minecraft <- MCMinecraft
    CustomKeys <- MCCustomKeys
    RawRequest <- MCRawRequest
    None = None
    NotNegotiated = NotNegotiated
    MaxCalls = 3
    Invalid = Invalid
    Draws <- MCDraws
    Typings <- MCTypings
    TcpPorts <- MCTcpPorts
    Strangers <- MCStrangers
    HostIp = "host"
    MaxScans = 2
INVARIANTS
    JoinTypeOK
    CenterInStep
    OwnAnswer
    NegotiatedServed
    ReachesTheRoom
PROPERTY
    NoneOverlooked
    AnswersInOrder
CHECK_DEADLOCK FALSE
