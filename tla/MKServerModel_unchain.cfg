\* removeAllChannels does not end after a channel was moved.
CONSTANTS
    Root = Root
    A = A
    B = B
    Me = Me
    None = None
    Channels = {Root, A, B}
    Users = {Me}
    ServerOps = {"addChannel", "moveChannel"}
    MaxOps = 3
    MaxInbox = 1
SPECIFICATION Spec
PROPERTIES
    AllChannelsRemoved
\* The model may be deallocated, and the server may have no more to do.
CHECK_DEADLOCK FALSE
