\* Channels and users come, go and move, links and flags change, before, during
\* and after the login; the view comes and goes, the model may be deallocated.
CONSTANTS
    Root = Root
    A = A
    B = B
    AutoChannel = A
    Me = Me
    You = You
    None = None
    Channels = {Root, A, B}
    Users = {Me, You}
    ServerOps = {"addChannel", "moveChannel", "removeChannel", "link", "unlink",
                 "join", "moveUser", "leave", "kickMe", "flags"}
    MaxOps = 4
    MaxInbox = 2
SPECIFICATION ViewSpec
INVARIANTS
    TypeOK
    MembershipAgrees
    LinksSymmetric
    UsersReside
    TreeAgrees
    ServerMirrored
    OthersKnowModel
    UpdatesAddUp
    TableShowsModel
PROPERTIES
    TeardownEnds
    BroughtBack
\* The model may be deallocated, and the server may have no more to do.
CHECK_DEADLOCK FALSE
