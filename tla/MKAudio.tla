-------------------------------- MODULE MKAudio ---------------------------------
(***************************************************************************)
(* The audio engine: started, stopped and restarted by the application and *)
(* by the callbacks of the audio session, while the microphone's thread    *)
(* hands frames to an input, the server model sets mute flags, the view    *)
(* pushes to talk and the connection opens, ends and learns of codecs.     *)
(*                                                                         *)
(* start does not stop what runs: the device it replaces goes on feeding   *)
(* its input.  Output, sidetone and settings that do not decide what is    *)
(* sent are left out.                                                      *)
(***************************************************************************)
EXTENDS MKAudioInput, SequencesExt

CONSTANTS
    Settings,   \* the transmit types the user changes between
    MuteFlags,  \* the mute flags that are set and cleared
    MaxInputs,  \* bound: the number of inputs made
    MaxFrames   \* bound: the number of frames inputs that run are given

ASSUME AudioAssumption ==
    /\ Settings \subseteq TransmitTypes /\ Settings # {}
    /\ MuteFlags \subseteq AudioFlags
    /\ MaxInputs \in Nat /\ MaxFrames \in Nat

VARIABLES
    inputs,      \* the inputs made so far
    current,     \* the place of _audioInput in inputs, 0 for nil
    settings,    \* _audioSettings.transmitType
    connection,  \* _connection is not nil
    server,      \* the connection's variables an input asks for
    interrupted, \* an interruption of the audio session has begun
    ledger,      \* (for the properties) what an input has done, see below
    sent         \* (likewise) what the last frame made its input send, if any

engine == <<current, settings, connection, interrupted>>
vars == <<inputs, engine, server, ledger, sent>>

(* Of each input: the numbers of the frames of speech it has not sent yet,  *)
(* the sequence number of its last packet, and that its speech began        *)
(* without a connection and with the message type of Opus from earlier.     *)
NewLedger == [owed |-> <<>>, numbered |-> -1, misnamed |-> FALSE]

--------------------------------------------------------------------------------
Misnames(k) ==
    /\ k.udpMessageType = "opus" /\ ~UsesOpus(k, server)
    /\ ~(k.connected /\ server.connected)

FramesGiven == FoldSeq(LAMBDA k, frames : frames + k.frameCounter, 0, inputs)

(* The microphone's thread: addMicrophoneData has filled a frame.  The code *)
(* takes the lock of the connection three times, to choose the codec, to    *)
(* name the message and to send it; here the connection stays the same for  *)
(* a frame.  One that is lost after the codec was chosen leaves the type of *)
(* the last packet, as one that was not there at all does (Misnames).       *)
MicrophoneFrame(i) ==
    /\ inputs[i].fed
    /\ FramesGiven < MaxFrames
    /\ \E level \in Levels :
          LET k == inputs[i]
              r == ProcessAndEncode(k, level, server)
              due == IF k.lastTransmit \/ r.input.lastTransmit
                     THEN Append(ledger[i].owed, r.input.frameCounter)
                     ELSE ledger[i].owed
              entry == [ledger[i] EXCEPT !.owed = due,
                            !.misnamed = IF k.lastTransmit THEN @ ELSE Misnames(k)]
          IN  /\ inputs' = [inputs EXCEPT ![i] = r.input]
              /\ IF r.packets = <<>>
                 THEN /\ ledger' = [ledger EXCEPT ![i] = entry]
                      /\ sent' = <<>>
                 ELSE LET p == Head(r.packets)
                      IN  /\ ledger' = [ledger EXCEPT ![i] =
                                [entry EXCEPT !.owed = <<>>, !.numbered = p.sequence]]
                          /\ sent' = <<[by |-> i, packet |-> p, due |-> due,
                                        before |-> entry.numbered,
                                        heard |-> k.connected]>>
    /\ UNCHANGED <<engine, server>>

NothingSent == sent' = <<>> /\ UNCHANGED ledger

(* stop: the current input is released and its device is torn down. *)
Stopped(ins, new) == [i \in DOMAIN ins |-> IF i = current THEN new ELSE ins[i]]

Stop ==
    /\ inputs' = Stopped(inputs, Released) /\ ledger' = Stopped(ledger, NewLedger)
    /\ current' = 0
    /\ sent' = <<>>
    /\ UNCHANGED <<connection, server>>

(* start: a new device and a new input, with no flags set. *)
Started(ins, led) ==
    /\ Len(ins) < MaxInputs
    /\ inputs' = Append(ins, NewInput(settings', connection))
    /\ ledger' = Append(led, NewLedger)
    /\ current' = Len(inputs')
    /\ sent' = <<>>
    /\ UNCHANGED <<connection, server>>

Restart == Started(Stopped(inputs, Released), Stopped(ledger, NewLedger))

(* setupAudio of the application, with what the user has chosen. *)
SetupAudio ==
    /\ settings' \in Settings
    /\ Restart
    /\ UNCHANGED interrupted

(* The input became available or the route changed, and the delegate says   *)
(* whether audio should be running.                                         *)
SessionChanged ==
    /\ UNCHANGED <<settings, interrupted>>
    /\ Restart \/ Stop

BeginInterruption ==
    /\ ~interrupted
    /\ interrupted' = TRUE
    /\ Stop
    /\ UNCHANGED settings

(* start, whether the engine was restarted during the interruption or not.  *)
EndInterruption ==
    /\ interrupted
    /\ interrupted' = FALSE
    /\ UNCHANGED settings
    /\ \/ Started(inputs, ledger)
       \/ UNCHANGED <<inputs, current, connection, server>> /\ NothingSent

--------------------------------------------------------------------------------
(* The current input is told, if there is one. *)
Tell(field, value) ==
    inputs' = [i \in DOMAIN inputs |->
        IF i = current THEN [inputs[i] EXCEPT ![field] = value] ELSE inputs[i]]

(* setSelfMuted:, setMuted: and setSuppressed:, called by the server model. *)
SetMuteFlag ==
    /\ current # 0
    /\ \E f \in MuteFlags :
          \/ Tell("flags", inputs[current].flags \cup {f})
          \/ Tell("flags", inputs[current].flags \ {f})
    /\ UNCHANGED <<engine, server>> /\ NothingSent

(* talkOn and talkOff of the view, and the remote control. *)
SetForceTransmit ==
    /\ current # 0
    /\ \E on \in BOOLEAN : Tell("forceTransmit", on)
    /\ UNCHANGED <<engine, server>> /\ NothingSent

(* The connection sets itself as the main connection when it has opened,    *)
(* and nil when it has ended.                                               *)
SetMainConnection(open) ==
    /\ connection # open
    /\ connection' = open
    /\ server' = [server EXCEPT !.connected = open]
    /\ Tell("connected", open)
    /\ UNCHANGED <<current, settings, interrupted>> /\ NothingSent

(* _codecChange: *)
CodecChange ==
    /\ server.connected
    /\ \E opus \in BOOLEAN : server' = [server EXCEPT !.opus = opus]
    /\ UNCHANGED <<inputs, engine>> /\ NothingSent

--------------------------------------------------------------------------------
Init ==
    /\ inputs = <<>> /\ current = 0
    /\ settings \in Settings
    /\ connection = FALSE
    /\ server = [connected |-> FALSE, opus |-> FALSE]
    /\ interrupted = FALSE
    /\ ledger = <<>> /\ sent = <<>>

Next ==
    \/ \E i \in DOMAIN inputs : MicrophoneFrame(i)
    \/ SetupAudio \/ SessionChanged \/ BeginInterruption \/ EndInterruption
    \/ SetMuteFlag \/ SetForceTransmit \/ CodecChange
    \/ \E open \in BOOLEAN : SetMainConnection(open)

Spec == Init /\ [][Next]_vars

--------------------------------------------------------------------------------
TypeOK ==
    /\ current \in 0 .. Len(inputs)
    /\ settings \in TransmitTypes
    /\ connection \in BOOLEAN /\ interrupted \in BOOLEAN
    /\ \A i \in DOMAIN inputs :
          /\ inputs[i].bufferedFrames \in 0 .. AudioPerPacket - 1
          /\ inputs[i].udpMessageType \in {"none", "opus", "celt"}
          /\ inputs[i].flags \subseteq AudioFlags
          /\ inputs[i].lastTransmit \in BOOLEAN
    /\ Len(ledger) = Len(inputs)

(* When speech has ended nothing of it waits for more: no frame is left     *)
(* behind to begin the next packet with, whichever codec, flag, mode or     *)
(* connection changed while it was collected.                               *)
NothingLeftBehind ==
    \A i \in DOMAIN inputs : ~inputs[i].lastTransmit =>
        /\ ledger[i].owed = <<>> /\ inputs[i].bufferedFrames = 0
        /\ inputs[i].opusBuffer = <<>> /\ inputs[i].frameList = <<>>

(* A packet has the frames of speech recorded since the one before it, all  *)
(* of them, once and in order, then silence.  Its number is that of its     *)
(* first frame less one for each frame of silence.  It is larger than the   *)
(* number before it, but with more than two frames to a packet the silence  *)
(* may take it below.  Speech that begins without a connection after speech *)
(* with Opus is excepted, see below.                                        *)
PacketsAreWhole ==
    sent # <<>> /\ ~ledger[Head(sent).by].misnamed =>
        LET p == Head(sent).packet
            due == Head(sent).due
            content == [j \in DOMAIN p.frames |-> p.frames[j].n]
            padding == [j \in 1 .. Len(content) - Len(due) |-> 0]
        IN  /\ content = due \o padding
            /\ p.sequence + 1 + Len(padding) = Head(due)
            /\ padding = <<>> \/ AudioPerPacket <= 2 => p.sequence > Head(sent).before

(* What is recorded while a mute flag is set is not sent, but for one frame *)
(* that ends speech.                                                        *)
MutedSaysNothing ==
    sent # <<>> =>
        LET p == Head(sent).packet
        IN  \A j \in DOMAIN p.frames : p.frames[j].muted =>
                /\ ~inputs[Head(sent).by].lastTransmit
                /\ j = Len(Head(sent).due)

(* Speech that was sent with Opus ends with a packet that says so, which is *)
(* how the others know; the frame that ends speech always sends a packet.   *)
SpeechEndsMarked ==
    [][\A i \in DOMAIN inputs :
          inputs[i].lastTransmit /\ inputs'[i].fed /\ ~inputs'[i].lastTransmit =>
              /\ sent' # <<>> /\ Head(sent').by = i
              /\ inputs[i].udpMessageType = "opus" => Head(sent').packet.last]_vars

--------------------------------------------------------------------------------
(* What a comment promises, and the code does not keep: that the message    *)
(* type of a packet is the codec its frames are encoded with, when there is *)
(* a connection to send it to.                                              *)
TypeTellsCodec ==
    sent # <<>> /\ Head(sent).heard =>
        LET p == Head(sent).packet
        IN  \A j \in DOMAIN p.frames :
                p.frames[j].codec = "opus" <=> p.type = "opus"
================================================================================
