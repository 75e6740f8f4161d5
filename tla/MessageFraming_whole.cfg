\* Headers arrive whole, payloads in any parts.
CONSTANTS
    Header = 2
    Sizes = {0, 1, 3}
    MaxMessages = 3
    WholeHeaders = TRUE
SPECIFICATION Spec
INVARIANTS
    IInv
PROPERTIES
    AllHandled
    ImplementsChannel
\* The server may have nothing more to send.
CHECK_DEADLOCK FALSE
