\* The client decrypts what the server sends; the server installs each of two
\* keys after the client did.
CONSTANTS
    LB = 6
    Half = 3
    Window = 3
    HB = 2
    MaxHi = 2
    MaxKey = 2
    ServerEncrypts = TRUE
    Start <- MCStart
    HistGarbage <- MCHistGarbage
SPECIFICATION Spec
INVARIANTS
    IInv
    LostNeverNegative
    ReachableIsAccepted
PROPERTIES
    AtMostOnce
    NeverRewinds
    ImplementsChannel
