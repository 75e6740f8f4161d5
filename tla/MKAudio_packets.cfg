\* Two inputs, packets of two frames, all transmit types.
CONSTANTS
    AudioPerPacket = 2
    Settings = {"vad", "toggle", "continuous"}
    MuteFlags = {"mute", "suppress"}
    MaxInputs = 2
    MaxFrames = 4
SPECIFICATION Spec
INVARIANTS
    TypeOK
    NothingLeftBehind
    PacketsAreWhole
    MutedSaysNothing
PROPERTIES
    SpeechEndsMarked
\* Inputs and frames are bounded: with no more to come the engine may rest.
CHECK_DEADLOCK FALSE
