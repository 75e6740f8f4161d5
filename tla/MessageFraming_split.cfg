\* A header arrives in two parts.
CONSTANTS
    Header = 2
    Sizes = {0, 1, 3}
    MaxMessages = 2
    WholeHeaders = FALSE
SPECIFICATION Spec
INVARIANTS
    FullMessagesHandled
\* The server may have nothing more to send.
CHECK_DEADLOCK FALSE
