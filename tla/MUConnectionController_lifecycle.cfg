\* Two connections, one after the other, with a reconnect; stream pairs that
\* cannot be made, threads that start late, a server that stops in mid-message.
CONSTANTS
    MaxConns = 2
    None = None
    MaxReconnects = 2
    Faults = {"startLag", "streams", "stall"}
SPECIFICATION Spec
INVARIANTS
    TypeOK
    OneThread
    AudioFollowsConnection
    CredentialsHeld
    AtMostOneEnd
    OneView
PROPERTIES
    OldBlocksAreUnheeded
    DisconnectEnds
    FailureIsNoticed
    OpenedIsAuthenticated
    TeardownStopsThread
\* The user may be done, and the network silent.
CHECK_DEADLOCK FALSE
