----------------------------- MODULE MKAudioOutput ------------------------------
(***************************************************************************)
(* The mixer and the users it mixes.  The connection's thread adds packets *)
(* of voice to the output of their session and makes an output when there  *)
(* is none of the packet's type; the audio thread asks every output for    *)
(* samples and removes those that have ended.  The map of outputs has a    *)
(* lock, and each output has one for its jitter buffer; the audio thread   *)
(* gives up the first before it removes, and then removes by session.      *)
(*                                                                         *)
(* Voice is a sequence of samples, a few to a frame of 10 ms.  The jitter  *)
(* buffer is external: packets come out in order, or none does although    *)
(* there are some.  The mixer's frequency is that of the decoders.         *)
(* _averageAvailable starts at 0 with each output, so that the wait for a  *)
(* better filled jitter buffer is never taken; it is left out, as are the  *)
(* sidetone, fading and the mixing itself.                                 *)
(***************************************************************************)
EXTENDS Integers, SequencesExt

CONSTANTS
    Sessions,   \* users
    None,       \* nil
    FrameSize,  \* samples in a frame: 480 in the code
    NSamples,   \* samples the audio thread asks for at once
    MaxMissed,  \* misses after which an output ends: 10 in the code
    MaxPackets  \* bound: packets that arrive

ASSUME OutputAssumption ==
    /\ FrameSize \in Nat \ {0} /\ NSamples \in Nat \ {0}
    /\ MaxMissed \in Nat /\ MaxPackets \in Nat

VARIABLES
    outputs,    \* _outputs: the MKAudioOutputSpeech of a session, or None
    shown,      \* the talk state of a user that was last notified
    arrived,    \* number of packets that have arrived
    adder,      \* the connection's thread: where it is in addFrameToBuffer
    mixer,      \* the audio thread: where it is in mixFrames
    (* for the properties *)
    due,        \* samples an output has decoded and not given to the mixer
    mixed,      \* what the last step gave the mixer, and what it should, if any
    recoded     \* sessions whose output was replaced while they were talking

history == <<due, mixed, recoded>>
vars == <<outputs, shown, arrived, adder, mixer, history>>

(* A packet: its message type, the length in frames of each block to be     *)
(* decoded (one block with Opus, blocks of one frame otherwise), and        *)
(* whether it says that speech ends: a bit of the header with Opus, a last  *)
(* header of 0 otherwise.                                                   *)
Kinds ==
    {[type |-> "opus", blocks |-> <<1>>, last |-> FALSE],
     [type |-> "opus", blocks |-> <<2>>, last |-> TRUE],
     [type |-> "opus", blocks |-> <<>>, last |-> TRUE],
     [type |-> "celt", blocks |-> <<1, 1>>, last |-> FALSE],
     [type |-> "celt", blocks |-> <<1, 1>>, last |-> TRUE]}

(* A sample is known by its packet, by how many blocks of it were left when *)
(* it was decoded, and by its place in the block.                           *)
Sample == Nat \X Nat \X Nat

(* MKAudioOutputSpeech *)
Speech ==
    [type : {"opus", "celt"}, jitter : Seq([n : Nat, kind : Kinds]),
     frames : Seq(Nat), hasTerminator : BOOLEAN,    \* blocks to be decoded
     buffer : Seq(Sample), lastConsume : Nat, lastAlive : BOOLEAN,
     missCount : Nat, talking : BOOLEAN, packet : Nat]

ASSUME NoneAssumption == None \notin Sessions /\ None \notin Speech

(* initWithSession:sampleRate:messageType: *)
NewSpeech(type) ==
    [type |-> type, jitter |-> <<>>, frames |-> <<>>, hasTerminator |-> FALSE,
     buffer |-> <<>>, lastConsume |-> 0, lastAlive |-> TRUE, missCount |-> 0,
     talking |-> FALSE, packet |-> 0]

Idle == [at |-> "idle"]

(* The lock of _outputs is held by the audio thread. *)
Locked == mixer.at = "mixing"

(* removeBuffer: goes by the session, whichever output it has by now.       *)
Removed(s) ==
    /\ outputs' = [outputs EXCEPT ![s] = None]
    /\ due' = [due EXCEPT ![s] = <<>>]

--------------------------------------------------------------------------------
(* addFrameToBufferWithSession:data:sequence:type: on the connection's      *)
(* thread, from one lock to the next.                                       *)

PacketArrives(s, kind) ==
    /\ adder.at = "idle" /\ arrived < MaxPackets /\ ~Locked
    /\ arrived' = arrived + 1
    /\ adder' = [session |-> s, kind |-> kind,
                 at |-> IF outputs[s] = None THEN "install"
                        ELSE IF outputs[s].type = kind.type THEN "add" ELSE "remove"]
    /\ mixed' = <<>>
    /\ UNCHANGED <<outputs, shown, mixer, due, recoded>>

RemoveOld ==
    /\ adder.at = "remove" /\ ~Locked
    /\ Removed(adder.session)
    /\ recoded' = IF shown[adder.session] THEN recoded \cup {adder.session} ELSE recoded
    /\ adder' = [adder EXCEPT !.at = "install"]
    /\ mixed' = <<>>
    /\ UNCHANGED <<shown, arrived, mixer>>

InstallNew ==
    /\ adder.at = "install" /\ ~Locked
    /\ outputs' = [outputs EXCEPT ![adder.session] = NewSpeech(adder.kind.type)]
    /\ adder' = [adder EXCEPT !.at = "add"]
    /\ mixed' = <<>>
    /\ UNCHANGED <<shown, arrived, mixer, due, recoded>>

(* addFrame:forSequence: needs the lock of the jitter buffer only.  The     *)
(* output may have been removed from the map meanwhile: it takes the packet *)
(* with it.  A packet that is too short or invalid is refused: the output   *)
(* then stays as it was, as if no packet had come, and misses end it.  That *)
(* is not an outcome here.                                                  *)
AddFrame ==
    /\ adder.at = "add"
    /\ LET s == adder.session
       IN  outputs' = IF outputs[s] = None THEN outputs
                      ELSE [outputs EXCEPT ![s].jitter =
                                Append(@, [n |-> arrived, kind |-> adder.kind])]
    /\ adder' = Idle
    /\ mixed' = <<>>
    /\ UNCHANGED <<shown, arrived, mixer, due, recoded>>

--------------------------------------------------------------------------------
(* mixFrames:amount: on the audio thread. *)

MixBegins ==
    /\ mixer.at = "idle"
    /\ mixer' = [at |-> "mixing", todo |-> {s \in Sessions : outputs[s] # None},
                 filling |-> None, nextAlive |-> TRUE, del |-> {}]
    /\ mixed' = <<>>
    /\ UNCHANGED <<outputs, shown, arrived, adder, due, recoded>>

(* Mutant: the samples that were consumed stay where they were. *)
Unmoved(k) == k.buffer

(* needSamples: moves what was not consumed to the front. *)
Moved(k) == SubSeq(k.buffer, k.lastConsume + 1, Len(k.buffer))

(* An output has enough samples: it is mixed if it was alive, else it is to *)
(* be removed.                                                              *)
Answered(s, k, alive) ==
    /\ mixer' = [mixer EXCEPT !.todo = @ \ {s}, !.filling = None, !.nextAlive = TRUE,
                              !.del = IF alive THEN @ ELSE @ \cup {s}]
    /\ mixed' = IF alive THEN <<[given |-> SubSeq(k.buffer, 1, NSamples),
                                 due |-> due[s]]>>
                ELSE <<>>
    /\ due' = [due EXCEPT ![s] = SubSeq(@, NSamples + 1, Len(@))]

NeedSamples(s) ==
    /\ mixer.at = "mixing" /\ mixer.filling = None /\ s \in mixer.todo
    /\ LET k == [outputs[s] EXCEPT !.buffer = Moved(outputs[s]), !.lastConsume = NSamples]
       IN  /\ outputs' = [outputs EXCEPT ![s] = k]
           /\ IF Len(k.buffer) >= NSamples THEN Answered(s, k, k.lastAlive)
              ELSE /\ mixer' = [mixer EXCEPT !.filling = s, !.nextAlive = k.lastAlive]
                   /\ mixed' = <<>>
                   /\ UNCHANGED due
    /\ UNCHANGED <<shown, arrived, adder, recoded>>

(* With no block left to decode the jitter buffer gives a packet or none.   *)
Received(k) ==
    LET p == Head(k.jitter)
    IN  [k EXCEPT !.jitter = Tail(@), !.missCount = 0, !.packet = p.n,
                  !.frames = p.kind.blocks, !.hasTerminator = p.kind.last,
                  !.talking = TRUE]

(* How far above its limit the count is does not matter. *)
Missed(k) == [k EXCEPT !.missCount = IF @ > MaxMissed THEN @ ELSE @ + 1]

Fetched(k) ==
    IF k.frames # <<>> THEN {k}
    ELSE {Missed(k)} \cup (IF k.jitter = <<>> THEN {} ELSE {Received(k)})

(* Mutant: an output whose packets do not come is never given up. *)
NeverGivenUp(k) == ~(Len(k.frames) = 1 /\ k.hasTerminator)

(* An output ends after too many misses, or with the last block of a packet *)
(* that says so; a packet that says so and has no block does not end it.    *)
GoesOn(k) == k.missCount <= MaxMissed /\ ~(Len(k.frames) = 1 /\ k.hasTerminator)

(* The samples of the next block, named by packet, block and place, or      *)
(* concealment, or the silence of an output that has ended.                 *)
Samples(k) ==
    IF ~k.lastAlive \/ k.frames = <<>>
    THEN [i \in 1 .. FrameSize |-> <<0, 0, 0>>]
    ELSE [i \in 1 .. FrameSize * Head(k.frames) |-> <<k.packet, Len(k.frames), i>>]

(* Mutant: an output that ends keeps the talk state of its last packet.     *)
StaysTalking(k, goesOn) == k.talking

TalkState(k, goesOn) == k.talking /\ goesOn

(* One turn of the loop: decode, tell of the talk state when it changed.    *)
FillFrame(s) ==
    /\ mixer.at = "mixing" /\ mixer.filling = s
    /\ Len(outputs[s].buffer) < NSamples
    /\ \E k \in IF outputs[s].lastAlive THEN Fetched(outputs[s]) ELSE {outputs[s]} :
          LET goesOn == mixer.nextAlive /\ GoesOn(k)
              talking == TalkState(k, goesOn)
          IN  /\ outputs' = [outputs EXCEPT ![s] =
                     [k EXCEPT !.buffer = @ \o Samples(k), !.talking = talking,
                               !.frames = IF @ = <<>> THEN @ ELSE Tail(@)]]
              /\ due' = [due EXCEPT ![s] = @ \o Samples(k)]
              /\ mixer' = [mixer EXCEPT !.nextAlive = goesOn]
              /\ IF talking # outputs[s].talking
                 THEN /\ shown' = [shown EXCEPT ![s] = talking]
                      /\ recoded' = recoded \ {s}
                 ELSE UNCHANGED <<shown, recoded>>
    /\ mixed' = <<>>
    /\ UNCHANGED <<arrived, adder>>

(* The loop ends: the answer is whether the output was alive before it.     *)
FillEnds(s) ==
    /\ mixer.at = "mixing" /\ mixer.filling = s
    /\ Len(outputs[s].buffer) >= NSamples
    /\ outputs' = [outputs EXCEPT ![s].lastAlive = mixer.nextAlive]
    /\ Answered(s, outputs[s], outputs[s].lastAlive)
    /\ UNCHANGED <<shown, arrived, adder, recoded>>

(* All outputs are asked and mixed, and the lock is given up.               *)
MixEnds ==
    /\ mixer.at = "mixing" /\ mixer.todo = {}
    /\ mixer' = [at |-> "removing", del |-> mixer.del]
    /\ mixed' = <<>>
    /\ UNCHANGED <<outputs, shown, arrived, adder, due, recoded>>

(* Those that have ended are removed, one lock after the other; the output  *)
(* found may be one the other thread has just made.                         *)
RemoveDead(s) ==
    /\ mixer.at = "removing" /\ s \in mixer.del
    /\ Removed(s)
    /\ mixer' = [mixer EXCEPT !.del = @ \ {s}]
    /\ mixed' = <<>>
    /\ UNCHANGED <<shown, arrived, adder, recoded>>

MixReturns ==
    /\ mixer.at = "removing" /\ mixer.del = {}
    /\ mixer' = Idle
    /\ mixed' = <<>>
    /\ UNCHANGED <<outputs, shown, arrived, adder, due, recoded>>

MixerStep ==
    \/ MixBegins \/ MixEnds \/ MixReturns
    \/ \E s \in Sessions : NeedSamples(s) \/ FillFrame(s) \/ FillEnds(s) \/ RemoveDead(s)

--------------------------------------------------------------------------------
Init ==
    /\ outputs = [s \in Sessions |-> None]
    /\ shown = [s \in Sessions |-> FALSE]
    /\ arrived = 0
    /\ adder = Idle /\ mixer = Idle
    /\ due = [s \in Sessions |-> <<>>] /\ mixed = <<>>
    /\ recoded = {}

Next ==
    \/ \E s \in Sessions, kind \in Kinds : PacketArrives(s, kind)
    \/ RemoveOld \/ InstallNew \/ AddFrame
    \/ MixerStep

(* The audio unit asks for samples again and again.                         *)
Spec == Init /\ [][Next]_vars /\ WF_vars(MixerStep)

--------------------------------------------------------------------------------
(* The mixer is given the samples that were decoded first and not given to  *)
(* it yet, each once, however the lengths of blocks and of requests relate  *)
(* and whatever was missed in between.                                      *)
PlayedInOrder == mixed # <<>> => IsPrefix(Head(mixed).given, Head(mixed).due)

(* A user that is shown talking has an output that talks, so that there is  *)
(* something that will show the end of it.  Not so when the output was      *)
(* replaced by one of another message type while its user talked.           *)
TalkingIsHeard ==
    \A s \in Sessions : shown[s] /\ s \notin recoded =>
        outputs[s] # None /\ outputs[s].talking

(* The mixer does not go on asking a user who has stopped: once packets     *)
(* stop coming every output ends, with or without a terminator, and every   *)
(* user is shown silent but those whose output was replaced.                *)
SilentUsersGo ==
    \A s \in Sessions : <>[](outputs[s] = None /\ (shown[s] => s \in recoded))
================================================================================
