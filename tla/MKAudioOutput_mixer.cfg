\* Two users, three packets, blocks longer than a request, two misses in a row.
CONSTANTS
    Sessions = {a, b}
    None = None
    FrameSize = 2
    NSamples = 3
    MaxMissed = 1
    MaxPackets = 3
SPECIFICATION Spec
INVARIANTS
    PlayedInOrder
    TalkingIsHeard
PROPERTIES
    SilentUsersGo
