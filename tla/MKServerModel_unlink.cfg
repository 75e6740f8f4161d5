\* Links that are reported as removed stay.
CONSTANTS
    Root = Root
    A = A
    Me = Me
    None = None
    Channels = {Root, A}
    Users = {Me}
    ServerOps = {"addChannel", "link", "unlink"}
    MaxOps = 3
    MaxInbox = 1
SPECIFICATION Spec
INVARIANTS
    RemovedLinksAreGone
\* The model may be deallocated, and the server may have no more to do.
CHECK_DEADLOCK FALSE
