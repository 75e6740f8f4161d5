# Verification of the Mumble client: connection, control channel, server model, voice

This directory holds TLA+ models of the part of the client that carries its own
logic: MumbleKit (`src/MumbleKit/src`), and the classes of the application that
drive a connection and show a server (`src/Source/Classes`:
`MUConnectionController.m`, `MUServerRootViewController.m`,
`MUServerViewController.m`, the audio setup of `NCCU/AppDelegate.m`). TLC checks
small instances; the modules whose names end in `Proofs` prove theorems for every
value of the constants.

## 1. The system

Most of the repository is vendored (`MumbleKit/3rdparty`, `Pods`,
`Dependencies`) or generated (`MumbleKit/proto`). What the program itself does is
written in Objective-C (`.m`) and one class of C++; the headers beside them hold
declarations.

| Part | State | Operations | Who it talks to |
|---|---|---|---|
| `CryptState`, `MKCryptState` | key, two vectors, `decrypt_history`, counters | `setKey`, `encrypt`, `decrypt`, OCB under them | used by the connection thread for UDP voice |
| `MKConnection` | an `NSThread` with a run loop: `_keepRunning`, `_reconnect`, `_connectionEstablished`, `_rejected`, `_connError`, streams, UDP socket, read buffer | from the main thread: `connectToHost:port:`, `disconnect`, `reconnect`, `authenticate...`; on its own: stream events, `_dataReady`, ping timer | dispatches blocks to the main queue for its delegate and its message handler; tells `MKAudio` which connection to send to |
| `MUConnectionController` | `_connection`, the model, the server view, alerts, credentials | callbacks of the connection, buttons | owns connection, model and view |
| `MUServerRootViewController` | retains connection and model | takes over as delegate, disconnects, is dismissed | |
| `MKServerModel`, `MKChannel`, `MKUser` | maps of channels and users, tree, links, members, flags | one handler per control message, `dealloc` | message handler of the connection; delegates via `MulticastDelegate`; mute flags to `MKAudio` |
| `MUServerViewController` | an array of rows flattened from the tree, the rows UITableView counts | notifications of the model, appearing | delegate of the model; asks the server to join a channel |
| `MKAudio` | device, input, output, settings, `_connection` | start, stop, restart, interruptions, mute flags, push to talk | from the application, the audio session, the server model, the connection |
| `MKAudioInput` | encoder, frames collected, codec of the burst, flags | `addMicrophoneData...`, `processAndEncodeAudioFrame`, `flushCheck:` | voice packets to the connection |
| `MKAudioOutput`, `MKAudioOutputSpeech` | a map of outputs by session; per output a jitter buffer, samples, misses | `addFrameToBuffer...` on the connection's thread, `mixFrames:` on the audio thread | talk states to the server model |
| `MKServerPinger`, `MKPacketDataStream`, `MulticastDelegate`, `MUMessages*` | pingers per address; a cursor; a list of delegates; a database with a cache | | |
| the rest of `Source/Classes`, certificates, devices | UIKit, OpenSSL, Audio Units | | |

What is hard: a connection's thread and the main thread share instance variables
without locks and talk through the main queue, where blocks of an old connection
wait while a new one is made; the end of a connection has four origins (rejection,
error, disconnect, reconnect); TLS hands out bytes in any parts; UDP loses, repeats
and reorders; the client's model of the server is a graph kept by hand at both ends
of every edge, and the table on the screen must follow it row by row or UITableView
raises; speech is collected by the microphone's thread while flags, mode, codec and
connection change; two threads add to and remove from the mixer. `PROJECT.json`
lists each hazard at its line.

What makes each part correct: a datagram is delivered at most once and the vector
never rewinds (CryptState); every message is handled once and in order (framing);
there is one thread, an end is reported at most once and what is torn down ends
(connection); the model is what the server said, at both ends of every edge (model);
the table is the model (view); a packet holds the frames of speech once and in
order, and nothing muted (input); samples are played once and in order, and who is
silent is forgotten (output).

## 2. The modules

    VoiceDelivery  <--implements-- CryptState --- MCCryptState, CryptStateProofs
                                   OCB        --- OCBProofs
    MessageChannel <--implements-- MessageFraming --- MessageFramingProofs
    MKConnection   <---extends---- MUConnectionController --- MUConnectionControllerProofs
    MKServerModel  <---extends---- MUServerViewController
         MKServerModelProofs  <--- MUServerViewControllerProofs
    MKAudioInput   <---extends---- MKAudio       --- MKAudioProofs
                                   MKAudioOutput --- MKAudioOutputProofs

**CryptState** models one direction of the voice channel: an encrypting end, a
network, a decrypting end. A vector is byte 0 (`lo`) and the number in bytes 1..15
(`hi`). A ciphertext is abstracted to the key and the nonce it was made with, so a
tag matches exactly when the receiver rebuilt that nonce: collisions of the 24-bit
tag are left out. `SetEncryptKey` and `SetDecryptKey` are `setKey` at the two ends;
the server's comes first and the client's when the CryptSetup message arrives.
`Encrypt`, `DecryptAccept` and `DecryptRefuse` are `encrypt` and the two outcomes
of `decrypt`. Datagrams stay in `net`, so loss is never reading one, repetition is
reading it again. The client allocates its `CryptState` with `malloc` and does not
run the constructor (`MKCryptState_openssl.mm` 30-38): its history starts with any
content of `HistGarbage`.

**OCB** is `ocb_encrypt` and then `ocb_decrypt` of the same message, a turn of their
loops a step. A block is a set of bits, and AES is any permutation of the blocks. It
shows what CryptState takes for granted of a genuine datagram: it comes out as it
went in, with the tag it was sent with. That a forged one is refused is cryptography
and not modelled.

**MessageFraming** models `_dataReady`, which cuts the TLS stream into messages.
Bytes are known by their position in the stream. A call reads a header, a part of
a payload, or both; as the second read blocks until a byte is there, the two are
separate actions. What `read` returns is any number of bytes up to what has
arrived and what was asked for.

**MKConnection** models the thread: the outer loop that opens streams, the inner
loop, teardown, the report of the end, and one action per stream event and per
message that decides about the connection. `thread` is the program counter.
Callbacks are appended to `mainQueue` only if there is a delegate when they are
dispatched, and look the delegate up again when they run, as the code does.
**MUConnectionController** extends it with the main thread: one action per button
and per block. `teardownConnection` includes `disconnect`, which busy-waits: while
`waiting` is set the main thread does nothing else. `hideConnectingView` runs the
run loop for 0.35 s to let an alert disappear; blocks of the main queue do not run
inside another block, so handlers are atomic. Three faults can be switched on by
`Faults`: a stream pair that is not made, a thread that starts late, a server that
stops in mid-message.

**MKServerModel** models the handlers of `ChannelState`, `ChannelRemove`,
`UserState`, `UserRemove` and `ServerSync` and the teardown in `dealloc`, against a
server that changes its state and sends a message for each change. The server is
external; it announces parents before children and links after channels, removes
only empty channels, and announces flags as the Mumble server does (a deaf user is
mute). Every handler is one action with everything it calls: `HandleChannelState`
adds or moves the channel and then sets, adds and removes links, in that order.
`removeAllChannels` is a loop of its own steps (`VisitChannel`, `EndPass`), so that
its termination can be asked. What lies below or above a channel is the least set
closed under children or parents (`Downward`, `Upward`), as the loops that walk there
visit it. The delegates are what they were told (`usersTold`,
`linksTold`), the audio engine is the flags it was told (`audio`).

**MUServerViewController** composes the table with the model: every handler of a
message is conjoined with the delegate method it calls. `Flattened` is
`addChannelTreeToModel`, `modelItems` the rows, `rowCount` what UITableView counts,
and `raised` its exception when a batch of deletions and insertions does not add up.
The order of channels and users in their lists, which decides that of the rows, is
kept in `chanOrder` and `userOrder`: the array of a channel is what is `Chosen` of
them. `Trees` writes every channel out once more, given what is written out of the
channels below it; as many levels as there are channels are enough for every tree.
Each flattening that meets the channel of a
certain name sends a request to join it (`MUServerViewController.m` 237-239);
`ServerGrants` answers. The view is taken to be there when `ServerSync` is handled.
The name is that of one channel at most (`AutoChannel`). Channel mode is left out:
`toggleMode` has no caller.

**MKAudioInput** is what the methods of an input do to it, as functions on a record:
`DoTransmit` (transmit type, level, flags), the choice of the codec, `EncodedByOpus`
and `EncodedByCELT`, `FlushCheck`. **MKAudio** has the inputs made so far, the
microphone that fills a frame of any level for an input whose device runs, and the
calls that change the engine: setup, session callbacks, interruptions, flags, push
to talk, the main connection and the codec message. `start` does not stop what runs,
so more than one input can be fed. `ledger` and `sent` are there for the properties.

**MKAudioOutput** is the mixer: the connection's thread looks an output up, replaces
one of another codec, makes one and adds the packet, from one lock to the next; the
audio thread asks each output for samples (`NeedSamples`, `FillFrame`, `FillEnds`),
mixes, gives up the lock and removes those that ended, one lock after the other. The
jitter buffer (Speex) is external: it hands out packets in order, or none. Samples
are named by packet, block and place.

## 3. What is checked

Twelve runs. Deadlock is checked where the environment always has a step; in the
other configurations `CHECK_DEADLOCK FALSE` says that the server, the user, the
network or the engine may have nothing more to do (in `OCB_roundtrip`, that the
message is decrypted).

| Run | What it shows | Bounds |
|---|---|---|
| `CryptState_receive` | the inductive invariant `IInv`; `AtMostOnce`; `NeverRewinds`; `LostNeverNegative`; `ReachableIsAccepted`; implements `VoiceDelivery` | byte of 6 values, window 3, two keys, one wrap of byte 0 under each, starts that include the edge of a wrap, three contents of malloc memory |
| `OCB_roundtrip` | `RoundTrip` | blocks of 2 bits, every permutation, up to two full blocks and a last part of every length |
| `MUServerViewController_table` | members, links at both ends, residence, tree, mirror of the server, what the others know, the teardown ends; updates of the table add up, it shows the model, and the user is brought back to the channel | 3 channels, 2 users, 4 changes before or after the login, 2 messages on their way |
| `MUConnectionController_lifecycle` | one thread, audio follows the connection, credentials, at most one end, one view, old blocks are unheeded; disconnect ends, failures are noticed, an opened connection is authenticated, torn down threads end | 2 connections, 2 reconnects, all faults |
| `MessageFraming_whole` | the invariant, all messages handled, implements `MessageChannel` | 3 messages of 0, 1 or 3 bytes, header of 2 |
| `MKAudio_packets` | no frame left behind, packets are whole, nothing muted is sent, the end of speech is marked | 2 frames to a packet, 2 inputs, 4 frames, all transmit types, two mute flags |
| `MKAudioOutput_mixer` | samples in order, who is shown talking has an output that will end it, silent users go | 2 users, 3 packets, 3 samples a request and 2 a frame, outputs end at the second miss in a row |

Why the bounds are enough: in CryptState every comparison of `decrypt` is between
differences of a byte and the constants, and each case (in order, late and ahead,
with and without wrap, edge of the window, edge of `Half`) occurs with 6 values of
byte 0 and the two rounds (values of `hi`, 1 and 2) that each key sees. Byte 0 wraps
once under each key, and byte 1 (`HB = 2`) repeats only from one key to the other; a
third round, in which it would wrap under one key, is more than TLC finishes in five
minutes, and the theorems cover every number of rounds. In OCB two full blocks make the loop feed back once, and the result is proved
for all sizes. In MKServerModel a channel below a channel, two users that meet, and
four changes allow every handler to follow every other; messages are handled one at
a time, so a longer inbox only delays. Two connections are what an old one needs to
disturb a new one; reconnects lead to the state after the first one again. A
payload of three bytes in parts next to an empty one covers the reader's cases. Four
frames make a full packet and one that ends early, or a packet and a second burst of
speech; two inputs are the one that was replaced and the one that runs. In the mixer
a request of three samples over frames of two leaves a rest of each length, and
three packets let an output be replaced, end and begin again.

### Fairness

A thread that can take a step of its own takes it, and the main thread handles its
queue and its loops (weak fairness of `ThreadStep`, `MainStep`, `ViewHandleMessage`,
`RemoveAllChannels`): the scheduler and `dispatch` guarantee that. The audio unit
asks for samples again and again, so the mixer has weak fairness of `MixerStep`.
`BroughtBack` needs a server that answers requests to join (`ServerGrants`), an
assumption about the environment. Nothing else is assumed of the user, of the server
or of stream events. Framing assumes that TCP delivers and the run loop reads what
has arrived.

### Assumptions and exceptions that properties state

- `LinksNameKnownChannels`, a conjunct of `TypeOK` of MKServerModel, is what keeps
  the handlers from raising: every channel a link names is known when the message
  is handled. `internalSetLinks` puts it into an array without a check, and
  `HandleChannelState` has it as a guard.
- `TreeAgrees` and `TeardownEnds` hold until a channel is moved, and `UpdatesAddUp`
  likewise (see below).
- `DisconnectEnds`, `OpenedIsAuthenticated` and `TeardownStopsThread` except a thread
  that waits in the middle of a message for a server that has stalled;
  `FailureIsNoticed` a stream pair that cannot be made; `OneThread`,
  `AudioFollowsConnection` and `TeardownStopsThread` a thread that was told to stop
  before it ran. What the code does in these cases is described below.
- `PacketsAreWhole` excepts a burst that began without a connection after one with
  Opus; `TalkingIsHeard` and `SilentUsersGo` except a user whose output was replaced
  by one of another codec while he was shown talking.
- The number of a packet grows (`PacketsAreWhole`) when no silence was added to it or
  at most two frames make a packet; with more it may not, see below.
- The runs check no type invariant of the mixer: its types (`Speech`, `Sample`) are a
  part of the invariant that is proved of it. `NoneAssumption` says that the value
  for no output is none of the users and none of the outputs.

### Where the code does something else than it says

Five runs end in a violation, and `PROJECT.json` has the quotations.

- `MKServerModel_unchain`: after a channel was moved, `removeAllChannels` never
  ends. `internalMoveChannel` sets the channel's parent and leaves it in the list
  of the old one, which then never becomes empty; `dealloc` runs on the main thread.
- `MKServerModel_unlink`: `internalRemoveLinks` unlinks a channel from itself. The
  delegate hears of removed links that are still there.
- `MUConnectionController_socket`: `_teardownUdpSock` does not set `_udpSock` to
  nil; the next try of the same connection may release it again.
- `MessageFraming_split`: a header read in two parts is dropped by halves. The
  other properties of the framing assume `WholeHeaders`.
- `MKAudio_codec`: speech that begins without a connection, after speech with Opus,
  is encoded with CELT first and sent under the type of Opus.

Further behaviour that a reader may not expect, met while modelling, with no run of
its own:

*Connection.* Without a stream pair `main` just returns (`MKConnection.m` 176-179),
although `MKConnection.h:95` promises `unableToConnectWithError:`; the user has to
cancel. `stopConnectionThread` does nothing while `isExecuting` is still NO after
`start` (287): the thread then runs on as an orphan, and may take the microphone.
The main thread waits in `disconnect` for a thread that may be blocked in the read
of a payload (820), without a timeout.

*Model and table.* `channelAdded:` (`MKServerModel.h:293`) is never sent, as
`newChannel` stays NO (`MKServerModel.m` 287-343); the table is saved by
`channelMoved:`, which is sent for a new channel as well. A removed channel stays
linked to others. A channel that was moved stays in the old list and is not put into the new
one: it keeps its one row, at the old place, and that row stays when it is removed. When its old parent is removed the table
does not reach it any more, and a user who moves there makes an update that does not
add up, for which UITableView raises; hence the guard of `UpdatesAddUp`.

*Audio engine and input.* The mute flags are told to the current input only: after a
restart a muted user is sent until the next message about his flags. They are told
for the connected user only, who is not known before `ServerSync`
(`MKServerModel.m` 671): flags of the login, such as suppression in the channel that
is joined, do not reach the engine until his flags change. `start` at the
end of an interruption, when the engine was restarted during it, leaves two devices
feeding two inputs. The last packet of a burst with Opus is padded with silence, and
its number counts the padding: with six frames to a packet (quality "low",
`MUApplicationDelegate.m` 185) a short last packet is numbered below the one before
it, and when the first frames of an input end a burst its number is negative, which
with -1 to -4 `addVarint` writes as two values (`MKPacketDataStream.m` 141-150, no
return after the short form). A restart in mid-speech sends no
terminator, and numbers begin at 0 again. CELT and Speex have no mark of the end
("fix terminator stuff here"). With the continuous transmit type the codec never
changes with the server's choice while nobody is muted. The application's own
`setupAudio` fixes Opus with one frame to a packet.

*Mixer.* `removeBuffer:` goes by the session after the lock was given up, so it may
remove an output that was just made, with its packet. An output that has ended drops
what it has decoded beyond that mix and what is in its jitter buffer. A terminator
without a block does not end speech, only misses do. `_hasTerminator` is a `BOOL`
that is given bit 13 of a header (`MKAudioOutputSpeech.m` 316): where `BOOL` is a
`signed char`, as on 32-bit builds, it is always NO and Opus speech ends by misses,
which the packets that do not end speech stand for. A user whose output is
replaced by one of another message type may be shown talking for ever. The wait for
`_averageAvailable` is never taken, as it starts at 0.

## 4. What is proved

Every theorem is for all values of the constants that the assumptions admit (any
number of channels, users, connections, packets, frames, misses; any sizes), where a
run has a small instance. The bounds of the runs (`MaxOps`, `MaxInbox`, `MaxFrames`
and the like) are constants too, so the theorems hold however large they are.

| Module | Theorem | Statement |
|---|---|---|
| `CryptStateProofs` | `Invariance` | `Spec => []IInv` |
| | `DeliversAtMostOnce` | `Spec => AtMostOnce` |
| | `VectorNeverRewinds` | `Spec => NeverRewinds` |
| | `Implementation` | `Spec => ImplementsChannel` (refines `VoiceDelivery`) |
| | `CountInvariance` | `Spec => []CInv` |
| | `LossIsNeverNegative` | `Spec => []LostNeverNegative` |
| | `WithinReachIsAccepted` | `Spec => []ReachableIsAccepted` |
| `OCBProofs` | `DecryptsWhatItEncrypts` | `Spec => []RoundTrip` |
| `MessageFramingProofs` | `Invariance` | `WholeHeaders => (Spec => []IInv)` |
| | `Implementation` | `WholeHeaders => (Spec => ImplementsChannel)` (refines `MessageChannel`) |
| `MKServerModelProofs` | `MembershipAlwaysAgrees` | `Spec => []MembershipAgrees` |
| | `LinksAlwaysSymmetric` | `Spec => []LinksSymmetric` |
| | `Invariance` | `Spec => []IInv` |
| | `TypeCorrect` | `Spec => []TypeOK` |
| | `UsersAlwaysReside` | `Spec => []UsersReside` |
| | `TreeAlwaysAgrees` | `Spec => []TreeAgrees` |
| | `ServerAlwaysMirrored` | `Spec => []ServerMirrored` |
| | `OthersAlwaysKnow` | `Spec => []OthersKnowModel` |
| `MUServerViewControllerProofs` | `ModelInvariance` | `ViewSpec => []ModelInv` |
| | `ModelRightBesideTable` | `ViewSpec => []` all seven invariants of the model |
| | `ViewInvariance` | `ViewSpec => []ViewInv` |
| | `TableAlwaysShowsModel` | `ViewSpec => []TableShowsModel` |
| | `UpdatesAlwaysAddUp` | `ViewSpec => []UpdatesAddUp` |
| | `EachAlwaysShownOnce` | `ViewSpec => []EachShownOnce` (until a channel is moved) |
| `MUConnectionControllerProofs` | `Invariance` | `Spec => []IInv` |
| | `TypeCorrect` | `Spec => []TypeOK` |
| | `NoThreadLeft` | `Spec => []OneThread` |
| | `AudioIsOfTheOpenConnection` | `Spec => []AudioFollowsConnection` |
| | `CredentialsAreThere` | `Spec => []CredentialsHeld` |
| | `EndIsToldOnce` | `Spec => []AtMostOneEnd` |
| | `ScreenBelongsToConnection` | `Spec => []OneView` |
| | `OldBlocksChangeNothing` | `Spec => OldBlocksAreUnheeded` |
| `MKAudioProofs` | `Invariance` | `Spec => []IInv` |
| | `TypeCorrect` | `Spec => []TypeOK` |
| | `SpeechLeavesNothing` | `Spec => []NothingLeftBehind` |
| | `PacketsComeWhole` | `Spec => []PacketsAreWhole` |
| | `MuteIsObeyed` | `Spec => []MutedSaysNothing` |
| | `EndIsMarked` | `Spec => SpeechEndsMarked` |
| `MKAudioOutputProofs` | `Invariance` | `Spec => []IInv` |
| | `SamplesPlayedInOrder` | `Spec => []PlayedInOrder` |
| | `WhoTalksIsHeard` | `Spec => []TalkingIsHeard` |

*CryptState.* That a datagram is delivered once is not inductive: `decrypt` looks at
one byte of history per value of byte 0. Two more facts are needed: everything
accepted under the current key lies at or before `decrypt_iv` (`NothingAhead`), and
what is accepted and still within the window behind `decrypt_iv` is remembered
(`WindowRemembered`). A datagram that is repeated is then either outside of the
window, and rebuilt with other upper bytes so that the tag does not match, or inside
of it, and refused because of its history. The lemmas about `Rebuilt` carry the
arithmetic of wraps. The proof uses `ConstAssumption`: an even number of byte
values, a window of at most half of them. That `uiLost` never goes below zero needs
to know what it counts (`CInv`): of the places `decrypt_iv` has passed under the
current key, those that nothing came from (`Missing`) are at most `uiLost`. A late
datagram that is accepted fills one of them, so there was one to take off; a gap
adds as many as it skips.

*OCB.* Nothing relates the variables of the decryption to those of the encryption,
which are overwritten. `course` keeps delta and checksum of the encryption, and the
invariant says that the encrypted blocks were made on that course (`Linked`), that
last part and tag were made at its end (`Sealed`), and that the decryption is on the
same course with the blocks behind it got back (`Decrypting`): each block it gets
back is the one that was encrypted, as AES under a key is one to one, so it adds the
same to the checksum. The last part needs that the two ways to pad it give the same
block.

*MessageFraming.* `ReaderInStep` says where in the stream the reader stands, given
how many messages it has handled; `HandledInOrder` says that they are the first ones
of the wire. The header read at the end of message n is that of message n+1, as the
wire has no gaps. The assumption that a header is read whole is in the theorems, and
the run `MessageFraming_split` shows that it is needed.

*MKServerModel.* Members and links are inductive with the shape of the functions they
speak of, and their proofs use nothing of the server: they hold for any messages. The
rest needs a legal server, and the difficulty is that the server is ahead of the
client by the messages in between. `Follows` says that there is a `Story`: a state
of the server for each message that is not handled yet, the first of which the model
mirrors (`Mirrors`), the last of which is the server's now, each of which is legal,
and each two neighbours of which differ by what the message between them says
(`Tells`). A handler takes the first step of the story; the server adds one at its
end. The login puts a whole listing in the queue and has to tell its story from the
beginning: the channels in the order of `ParentsFirst`, their links, the users, this
user, the sync (`Partly` is a state in the middle of that). Beside it stand what is
inductive of the tree (`TreeInv`: until a channel is moved the root reaches all) and
of the delegates (`People`).

*MUServerViewController.* Every step of the composition is one of the model, with
what the table does added, or a grant of the server, which changes it by a legal move
that it announces. The invariant of the model is therefore kept below the table. It
holds of `ViewSpec`, whose Next is not that of `Spec`.

That an update adds up is not inductive by itself: the delegate method deletes and
inserts one row each, and whether the rebuilt table has as many rows depends on the
whole tree. `ViewInv` adds that the table shows the model (`TableInv`), so that the
rows before are known as well, and that the arrays have every channel and every user
who is somewhere once (`OrdersInv`). The rows are then compared in two parts. Without
the user the message is about they are the same before and after (`RowsOfOthers`),
as leaving users out passes through every level of `Flattened` (`FlattenedWithout`).
His own are counted (`OneRow`): until a channel is moved the root reaches every
channel, and from a channel there is one way up (`ClimbExists`, `ClimbsOnce`), which
is shorter than there are channels (`ClimbIsShort`). On this way each level of
`Flattened` hands his row to one channel more (`LevelsOnTheWay`), and no other
channel gets it. So who is in a channel has one row, and who is in none has none.
`EachShownOnce` says the same of the channels themselves. The hypothesis
`RowAssumption` is that no object is a channel and a user.

These arguments are inductions over levels, ways and sequences. The induction
theorems of the library take an operator as a parameter, which the provers cannot
instantiate; `SetInduction` and `SequenceInduction` say the same of a set, and are
proved from `WFMin`, which takes sets only. What `FlattenSeq` of the community modules returns
is established from its definition (`FlattenIsRunning`, `FlattenAppend`).

*MUConnectionController.* The invariant has three parts. What is on the screen is a
function of the current connection and of who its delegate is (`Screen`). A thread
with something to do belongs to the current connection, to the one `disconnect` waits
for, or was told to stop before it executed (`ThreadsOwned`). And the current
connection has at most one thing to tell its owner at a time: `Current` relates the
place of its thread, its flags and its streams to whether its owner is, or is to be,
asked about a certificate, which only a reconnect follows, or has been told of its
end, which nothing follows; `ToldTrue` and `AskedOnce` say that the blocks in the
queue are true of it.

*MKAudio.* The argument is about one input at a time (`Sound`). The frames it owes are
always the last `bufferedFrames` ones and lie in one place, the buffer of Opus or the
list of what CELT has encoded; only speech that began under the wrong name has a frame
in each. What one frame does to an input is a lemma of its own (`FrameHandled`),
whatever codec, flags, mode and level; the calls that change the engine exchange or
re-flag inputs that are sound.

*MKAudioOutput.* What an output owes (`Owed`) is the part of its buffer behind
`lastConsume`, or the whole buffer while it is filled: what was asked for last has been
given, but stays until the next request moves the rest to the front. Of talking,
`EndedIsSilent` is needed: an output on the list of those to be removed does not talk.

Only model-checked:

- What must eventually happen (`AllHandled`, `TeardownEnds`, `BroughtBack`,
  `DisconnectEnds`, `FailureIsNoticed`, `OpenedIsAuthenticated`,
  `TeardownStopsThread`, `SilentUsersGo`): liveness under fairness is out of the
  prover's reach.
- The properties that are violated.

The parts of each inductive invariant were checked with TLC before they were proved,
with one exception: TLC cannot enumerate stories, so `Follows` rests on its proof.

## 5. Not modelled

`PROJECT.json` lists every component.

- The voice path of `MKConnection` (UDP or tunnel, ping, CryptSetup): no comment or
  test says what the choice should be when a socket is missing, and what CryptSetup
  does to the channel is in CryptState.
- `MKServerPinger`: what comes back is shown by the cells of the server lists and
  decides nothing else. Its socket is set up again for each pinger that joins the
  only address; the hazard is listed.
- `MKPacketDataStream`: a sequential parser of single values without state between
  packets.
- `MulticastDelegate`: third-party code; each delegate method is called in the step
  that forwards it.
- The messages and their database, remote control, notifications, favourites:
  SQLite, sockets and UIKit around the core.
- Certificates and names (wrappers of OpenSSL and a sequential parser), audio
  devices (calls of the system), access control and version records, the UIKit shell.

Left out of the modelled parts: names, comments, textures, positions, recording and
priority flags, permission denials, texts and ACLs in MKServerModel; UDP, ping, and
version messages in MKConnection; resampling, preprocessing, sidetone, Speex and
encoder failures in MKAudioInput; fading, resampling, comfort noise and the sidetone
in MKAudioOutput; cells, gestures and channel mode in MUServerViewController.

Narrower outcomes that are left out:

- A read that returns 0 or -1 in `_dataReady` (`MKConnection.m` 820, where it is added
  to the offset unchecked): the stream has ended or failed, and no message follows.
- A connection that changes within a frame: `MicrophoneFrame` is one step, and the
  code takes the lock of the connection three times (`MKAudioInput.m` 327, 384, 606).
  One that is lost after the codec was chosen leaves the stale type of Opus, which is
  the case that `PacketsAreWhole` excepts.
- A packet that `addFrame:` refuses as short or invalid (`MKAudioOutputSpeech.m`
  190-230): the output stays as if no packet had come, and misses end it.

What is modelled is nearly all in `.m` files. The headers of the repository are
declarations, generated messages or third-party code, with nothing to translate.

## 6. Plan

The inventory is modelled as far as it has behaviour worth checking, and every
invariant and action property that a passing run checks is proved.
What is left:

1. MKServerModelProofs: the proof about the login is the longest part and may be
   split by the four parts of the listing.
2. A well-founded argument for `TeardownEnds` can be given as a measure that every
   `VisitChannel` and every second `EndPass` decreases, which is an action property.
