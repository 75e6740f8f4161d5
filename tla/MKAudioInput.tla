------------------------------ MODULE MKAudioInput ------------------------------
(***************************************************************************)
(* An MKAudioInput: it takes the frames of 10 ms that the microphone's     *)
(* callback fills, decides whether the user is to be heard, encodes frames *)
(* and collects them into voice packets.  An input is a record, and what   *)
(* its methods do to it a function; MKAudio has the inputs and the time at *)
(* which they are called.                                                  *)
(*                                                                         *)
(* A frame is known by its number, by whether it was recorded while a mute *)
(* flag was set, and by the codec that encodes it.  Opus is enabled, the   *)
(* codec of the settings is Opus or CELT (they are treated alike), the two *)
(* variants of CELT are one, and encoders succeed.                         *)
(***************************************************************************)
EXTENDS Integers, Sequences

CONSTANT AudioPerPacket     \* frames in a packet: 1, 2 or 6 by the settings

ASSUME PacketAssumption == AudioPerPacket \in Nat \ {0}

TransmitTypes == {"vad", "toggle", "continuous"}

(* The level of a frame, as the detector of speech grades it: above vadMax, *)
(* between vadMin and vadMax, below vadMin, or below it but so soon after   *)
(* speech that the gate is still open.                                      *)
Levels == {"above", "between", "below", "gated"}

AudioFlags == {"selfMute", "mute", "suppress"}

(* initWithDevice:andSettings:, setMainConnectionForAudio:.  fed is not the *)
(* input's own: the device it was made with is set up.                      *)
NewInput(transmitType, connected) ==
    [transmitType |-> transmitType, connected |-> connected, fed |-> TRUE,
     frameCounter |-> 0, bufferedFrames |-> 0, opusBuffer |-> <<>>,
     frameList |-> <<>>, udpMessageType |-> "none", lastTransmit |-> FALSE,
     forceTransmit |-> FALSE, flags |-> {}]

(* A released input. *)
Released == [NewInput("vad", FALSE) EXCEPT !.fed = FALSE]

Frame(k, codec) == [n |-> k.frameCounter, muted |-> k.flags # {}, codec |-> codec]
Silence == [n |-> 0, muted |-> FALSE, codec |-> "opus"]
Padding(missing) == [j \in 1 .. missing |-> Silence]

--------------------------------------------------------------------------------
(* Whether the user would be heard but for the mute flags. *)
Wanted(k, level) ==
    CASE k.transmitType = "continuous" -> TRUE
      [] k.transmitType = "toggle" -> k.forceTransmit
      [] OTHER -> \/ level \in {"above", "gated"}
                  \/ level = "between" /\ k.lastTransmit

(* Mutant: suppression by the server is not looked at. *)
HeardSuppressed(k, level) == Wanted(k, level) /\ k.flags \subseteq {"suppress"}

DoTransmit(k, level) == Wanted(k, level) /\ k.flags = {}

(* Mutant: the codec changes as soon as the server says so. *)
UsesOpusAtOnce(k, server) == k.connected /\ server.opus

(* The codec is chosen when speech begins, and kept until it ends. *)
UsesOpus(k, server) ==
    IF k.lastTransmit THEN k.udpMessageType = "opus"
    ELSE k.connected /\ server.opus

(* Mutant: the last frame of speech waits for more. *)
PacketFull(k, isSpeech) == k.bufferedFrames >= AudioPerPacket

(* When the Opus encoder is given what has been collected. *)
EncodesNow(k, isSpeech) == ~isSpeech \/ k.bufferedFrames >= AudioPerPacket

(* encodeAudioFrameOfSpeech: with Opus: a packet is encoded as a whole, and *)
(* padded with silence when speech ends before it is full.                  *)
EncodedByOpus(k, isSpeech) ==
    LET k1 == [k EXCEPT !.udpMessageType = "opus", !.bufferedFrames = @ + 1,
                        !.opusBuffer = Append(@, Frame(k, "opus"))]
        missing == AudioPerPacket - k1.bufferedFrames
    IN  IF ~EncodesNow(k1, isSpeech) THEN [input |-> k1, coded |-> <<>>]
        ELSE [input |-> [k1 EXCEPT !.opusBuffer = <<>>,
                             !.bufferedFrames = IF missing > 0 THEN @ + missing ELSE @],
              coded |-> <<k1.opusBuffer \o Padding(missing)>>]

(* With CELT: each frame is encoded by itself; the message type is set when *)
(* there is a connection to ask for its variant.                            *)
EncodedByCELT(k, server) ==
    [input |-> [k EXCEPT !.bufferedFrames = @ + 1,
                         !.udpMessageType = IF k.connected /\ server.connected
                                            THEN "celt" ELSE @],
     coded |-> << <<Frame(k, "celt")>> >>]

Encoded(k, isSpeech, server) ==
    IF UsesOpus(k, server) THEN EncodedByOpus(k, isSpeech)
    ELSE EncodedByCELT(k, server)

(* Mutant: the number of frames collected is not reset. *)
FlushedCounting(k) == [k EXCEPT !.frameList = <<>>]

Flushed(k) == [k EXCEPT !.frameList = <<>>, !.bufferedFrames = 0]

(* A block of CELT is one frame. *)
Joined(list) == [j \in DOMAIN list |-> Head(list[j])]

(* The number in a packet is that of the frames taken, less those in it.    *)
(* The end of speech is marked for Opus only.                               *)
Packet(k, coded, terminator) ==
    LET opus == k.udpMessageType = "opus"
        list == Append(k.frameList, coded)
    IN  [type |-> k.udpMessageType,
         sequence |-> k.frameCounter - k.bufferedFrames,
         frames |-> IF opus THEN Head(list) ELSE Joined(list),
         last |-> terminator /\ opus]

(* flushCheck:terminator: *)
FlushCheck(k, coded, terminator) ==
    IF ~terminator /\ k.bufferedFrames < AudioPerPacket
    THEN [input |-> [k EXCEPT !.frameList = Append(@, coded)], packets |-> <<>>]
    ELSE [input |-> Flushed(k), packets |-> <<Packet(k, coded, terminator)>>]

(* processAndEncodeAudioFrame: the input after a frame and the packet, if   *)
(* one is complete, that it sends.                                          *)
ProcessAndEncode(k, level, server) ==
    LET k1 == [k EXCEPT !.frameCounter = @ + 1]
        do == DoTransmit(k1, level)
        e == Encoded(k1, do, server)
        f == IF e.coded = <<>> THEN [input |-> e.input, packets |-> <<>>]
             ELSE FlushCheck(e.input, Head(e.coded), ~do)
    IN  IF ~k.lastTransmit /\ ~do THEN [input |-> k1, packets |-> <<>>]
        ELSE [input |-> [f.input EXCEPT !.lastTransmit = do], packets |-> f.packets]
================================================================================
