\* What the message type of a packet says about its frames.
CONSTANTS
    AudioPerPacket = 2
    Settings = {"vad", "toggle", "continuous"}
    MuteFlags = {"mute", "suppress"}
    MaxInputs = 2
    MaxFrames = 4
SPECIFICATION Spec
INVARIANTS
    TypeTellsCodec
\* Inputs and frames are bounded: with no more to come the engine may rest.
CHECK_DEADLOCK FALSE
