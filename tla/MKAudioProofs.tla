------------------------------ MODULE MKAudioProofs -----------------------------
(***************************************************************************)
(* What is proved of the audio engine and its inputs, for every number of  *)
(* frames to a packet and any number of inputs.                            *)
(*                                                                         *)
(* The argument is about one input at a time.  The frames it owes are      *)
(* always the last bufferedFrames ones, and they are collected in one      *)
(* place: the buffer of Opus or the list of frames that CELT has encoded.  *)
(* Only an input that began to speak with CELT under the message type of   *)
(* Opus has a frame in each; its ledger calls it misnamed.                 *)
(***************************************************************************)
EXTENDS MKAudio, SequenceTheorems, TLAPS

MessageTypes == {"none", "opus", "celt"}

Counts == 0 .. AudioPerPacket - 1

FlagSets == SUBSET AudioFlags

FrameRecords == [n : Nat, muted : BOOLEAN, codec : {"opus", "celt"}]

InputRecords ==
    [transmitType : TransmitTypes, connected : BOOLEAN, fed : BOOLEAN,
     frameCounter : Nat, bufferedFrames : Counts,
     opusBuffer : Seq(FrameRecords), frameList : Seq(Seq(FrameRecords)),
     udpMessageType : MessageTypes, lastTransmit : BOOLEAN,
     forceTransmit : BOOLEAN, flags : FlagSets]

Ledgers == [owed : Seq(Nat), numbered : Int, misnamed : BOOLEAN]

Typed ==
    /\ current \in 0 .. Len(inputs)
    /\ settings \in TransmitTypes
    /\ connection \in BOOLEAN /\ interrupted \in BOOLEAN
    /\ server \in [connected : BOOLEAN, opus : BOOLEAN]

(* What has been collected is unmuted speech: in the buffer of Opus the     *)
(* last frames taken; in the list blocks of one frame each.                 *)
InBuffer(k) ==
    \A j \in 1 .. Len(k.opusBuffer) :
        /\ k.opusBuffer[j].n = k.frameCounter - Len(k.opusBuffer) + j
        /\ ~k.opusBuffer[j].muted

InList(k) ==
    \A j \in 1 .. Len(k.frameList) :
        Len(k.frameList[j]) = 1 /\ ~k.frameList[j][1].muted

(* It is in one place, or one frame of CELT waits before those of Opus.     *)
OnePlace(k) ==
    IF k.udpMessageType = "opus"
    THEN k.frameList # <<>> \/ Len(k.opusBuffer) = k.bufferedFrames
    ELSE /\ k.opusBuffer = <<>> /\ Len(k.frameList) = k.bufferedFrames
         /\ \A j \in 1 .. Len(k.frameList) :
               k.frameList[j][1].n = k.frameCounter - k.bufferedFrames + j

Silent(k) ==
    ~k.lastTransmit =>
        k.bufferedFrames = 0 /\ k.opusBuffer = <<>> /\ k.frameList = <<>>

Collected(k) == InBuffer(k) /\ InList(k) /\ OnePlace(k) /\ Silent(k)

(* The ledger: the frames owed are the last ones taken; packets are         *)
(* numbered below the frames taken, and a packet sent by speech that goes   *)
(* on was full.                                                             *)
LastFrames(c, b) == [j \in 1 .. b |-> c - b + j]

Accounted(k, l) ==
    /\ l.owed = LastFrames(k.frameCounter, k.bufferedFrames)
    /\ l.numbered < k.frameCounter - k.bufferedFrames
    /\ k.lastTransmit /\ k.bufferedFrames = 0 =>
          l.numbered = k.frameCounter - AudioPerPacket
    /\ k.udpMessageType = "opus" /\ k.frameList # <<>> => l.misnamed

Sound(ins, led) ==
    /\ ins \in Seq(InputRecords) /\ led \in Seq(Ledgers) /\ Len(led) = Len(ins)
    /\ \A i \in 1 .. Len(ins) : Collected(ins[i]) /\ Accounted(ins[i], led[i])

IInv == Typed /\ Sound(inputs, ledger) /\ PacketsAreWhole /\ MutedSaysNothing

--------------------------------------------------------------------------------
(* What a frame does to an input, by cases.                                 *)

Counted(k) == [k EXCEPT !.frameCounter = @ + 1]

Taken(e, do) ==
    IF e.coded = <<>> THEN [input |-> e.input, packets |-> <<>>]
    ELSE FlushCheck(e.input, Head(e.coded), ~do)

LEMMA CountedTyped ==
    ASSUME NEW k \in InputRecords
    PROVE  /\ Counted(k) \in InputRecords
           /\ Counted(k).frameCounter = k.frameCounter + 1
           /\ Counted(k).bufferedFrames = k.bufferedFrames
           /\ Counted(k).opusBuffer = k.opusBuffer
           /\ Counted(k).frameList = k.frameList
           /\ Counted(k).udpMessageType = k.udpMessageType
           /\ Counted(k).lastTransmit = k.lastTransmit
           /\ Counted(k).connected = k.connected
           /\ Counted(k).fed = k.fed
           /\ Counted(k).flags = k.flags
  <1>1. Counted(k) \in InputRecords
    BY DEF Counted, InputRecords
  <1> QED
    BY DEF Counted, InputRecords

LEMMA FrameTyped ==
    ASSUME NEW k \in InputRecords, NEW codec \in {"opus", "celt"}
    PROVE  /\ Frame(k, codec) \in FrameRecords
           /\ Frame(k, codec).n = k.frameCounter
           /\ Frame(k, codec).muted <=> k.flags # {}
  BY DEF Frame, FrameRecords, InputRecords

(* A frame that does not complete a packet of Opus. *)
LEMMA OpusCollects ==
    ASSUME NEW k \in InputRecords, k.bufferedFrames + 1 < AudioPerPacket
    PROVE  Taken(EncodedByOpus(k, TRUE), TRUE) =
             [input |-> [k EXCEPT !.udpMessageType = "opus", !.bufferedFrames = @ + 1,
                                  !.opusBuffer = Append(@, Frame(k, "opus"))],
              packets |-> <<>>]
  <1> DEFINE k1 == [k EXCEPT !.udpMessageType = "opus", !.bufferedFrames = @ + 1,
                             !.opusBuffer = Append(@, Frame(k, "opus"))]
  <1>1. k1.bufferedFrames = k.bufferedFrames + 1
    BY DEF InputRecords
  <1>2. ~EncodesNow(k1, TRUE)
    BY <1>1, PacketAssumption DEF EncodesNow, InputRecords, Counts
  <1>3. EncodedByOpus(k, TRUE) = [input |-> k1, coded |-> <<>>]
    BY <1>2 DEF EncodedByOpus
  <1>4. Taken(EncodedByOpus(k, TRUE), TRUE) = [input |-> k1, packets |-> <<>>]
    <2> DEFINE e == EncodedByOpus(k, TRUE)
    <2> HIDE DEF k1
    <2>0. e = [input |-> k1, coded |-> <<>>]
      BY <1>3
    <2> HIDE DEF e
    <2>1. e.coded = <<>> /\ e.input = k1
      BY <2>0
    <2>2. Taken(e, TRUE) = [input |-> k1, packets |-> <<>>]
      BY <2>1 DEF Taken
    <2> QED
      BY <2>2 DEF e
  <1> QED
    BY <1>4

(* One that does, because it is the last that fits or the last of speech.   *)
LEMMA OpusSends ==
    ASSUME NEW k \in InputRecords, NEW do \in BOOLEAN,
           ~do \/ k.bufferedFrames + 1 = AudioPerPacket
    PROVE  LET buffer == Append(k.opusBuffer, Frame(k, "opus"))
               coded == buffer \o
                   Padding(AudioPerPacket - (k.bufferedFrames + 1))
           IN  Taken(EncodedByOpus(k, do), do) =
                 [input |-> [k EXCEPT !.udpMessageType = "opus", !.bufferedFrames = 0,
                                      !.opusBuffer = <<>>, !.frameList = <<>>],
                  packets |-> <<[type |-> "opus",
                                 sequence |-> k.frameCounter - AudioPerPacket,
                                 frames |-> Head(Append(k.frameList, coded)),
                                 last |-> ~do]>>]
  <1> DEFINE buffer == Append(k.opusBuffer, Frame(k, "opus"))
             coded == buffer \o
                   Padding(AudioPerPacket - (k.bufferedFrames + 1))
             k1 == [k EXCEPT !.udpMessageType = "opus", !.bufferedFrames = @ + 1,
                             !.opusBuffer = Append(@, Frame(k, "opus"))]
             missing == AudioPerPacket - k1.bufferedFrames
             k2 == [k1 EXCEPT !.opusBuffer = <<>>,
                        !.bufferedFrames = IF missing > 0 THEN @ + missing ELSE @]
             k3 == [k EXCEPT !.udpMessageType = "opus", !.bufferedFrames = 0,
                             !.opusBuffer = <<>>, !.frameList = <<>>]
             p == [type |-> "opus", sequence |-> k.frameCounter - AudioPerPacket,
                   frames |-> Head(Append(k.frameList, coded)), last |-> ~do]
  <1>1. k1.bufferedFrames = k.bufferedFrames + 1 /\ k1.opusBuffer = buffer
    BY DEF InputRecords
  <1>2. EncodesNow(k1, do) /\ missing >= 0 /\ missing \in Int
    BY <1>1, PacketAssumption DEF EncodesNow, InputRecords, Counts
  <1>3. EncodedByOpus(k, do) = [input |-> k2, coded |-> <<coded>>]
    BY <1>1, <1>2 DEF EncodedByOpus
  <1>4. /\ k2.bufferedFrames = AudioPerPacket /\ k2.frameList = k.frameList
        /\ k2.udpMessageType = "opus" /\ k2.frameCounter = k.frameCounter
    <2>1. /\ k2.bufferedFrames = IF missing > 0 THEN k1.bufferedFrames + missing
                                 ELSE k1.bufferedFrames
          /\ k2.frameList = k.frameList
          /\ k2.udpMessageType = "opus" /\ k2.frameCounter = k.frameCounter
      BY DEF InputRecords
    <2>2. k1.bufferedFrames \in Int
      BY <1>1 DEF InputRecords, Counts
    <2> HIDE DEF k1, k2
    <2> QED
      BY <1>1, <1>2, <2>1, <2>2, PacketAssumption DEF InputRecords, Counts
  <1>5. Flushed(k2) = k3
    BY DEF Flushed, InputRecords
  <1>6. Packet(k2, coded, ~do) = p
    <2> HIDE DEF k2, coded
    <2> QED
      BY <1>4 DEF Packet
  <1>7. FlushCheck(k2, coded, ~do) = [input |-> k3, packets |-> <<p>>]
    <2> HIDE DEF k2, coded, p, k3
    <2> QED
      BY <1>4, <1>5, <1>6, PacketAssumption DEF FlushCheck
  <1>8. Taken(EncodedByOpus(k, do), do) = FlushCheck(k2, coded, ~do)
    <2> HIDE DEF k2, coded
    <2> QED
      BY <1>3 DEF Taken
  <1> QED
    BY <1>7, <1>8

(* The same for a frame encoded by CELT. *)
NameWithCELT(k, s) ==
    IF k.connected /\ s.connected THEN "celt" ELSE k.udpMessageType

LEMMA CeltTaken ==
    ASSUME NEW k \in InputRecords, NEW do \in BOOLEAN, NEW s
    PROVE  LET type == NameWithCELT(k, s)
               block == <<Frame(k, "celt")>>
               list == Append(k.frameList, block)
               opus == type = "opus"
           IN  Taken(EncodedByCELT(k, s), do) =
                 IF do /\ k.bufferedFrames + 1 < AudioPerPacket
                 THEN [input |-> [k EXCEPT !.udpMessageType = type,
                                    !.bufferedFrames = @ + 1, !.frameList = list],
                       packets |-> <<>>]
                 ELSE [input |-> [k EXCEPT !.udpMessageType = type,
                                    !.bufferedFrames = 0, !.frameList = <<>>],
                       packets |-> <<[type |-> type,
                           sequence |-> k.frameCounter - (k.bufferedFrames + 1),
                           frames |-> IF opus THEN Head(list)
                                      ELSE Joined(list),
                           last |-> ~do /\ opus]>>]
  <1> DEFINE type == NameWithCELT(k, s)
             block == <<Frame(k, "celt")>>
             list == Append(k.frameList, block)
             opus == type = "opus"
             k1 == [k EXCEPT !.bufferedFrames = @ + 1, !.udpMessageType = type]
             k2 == [k EXCEPT !.udpMessageType = type,
                             !.bufferedFrames = @ + 1, !.frameList = list]
             k3 == [k EXCEPT !.udpMessageType = type,
                             !.bufferedFrames = 0, !.frameList = <<>>]
             p == [type |-> type, sequence |-> k.frameCounter - (k.bufferedFrames + 1),
                   frames |-> IF opus THEN Head(list)
                              ELSE Joined(list),
                   last |-> ~do /\ opus]
  <1>1. EncodedByCELT(k, s) = [input |-> k1, coded |-> <<block>>]
    BY DEF EncodedByCELT, InputRecords, NameWithCELT
  <1>2. /\ k1.bufferedFrames = k.bufferedFrames + 1 /\ k1.frameList = k.frameList
        /\ k1.udpMessageType = type /\ k1.frameCounter = k.frameCounter
    BY DEF InputRecords
  <1>3. Flushed(k1) = k3 /\ [k1 EXCEPT !.frameList = Append(@, block)] = k2
    BY DEF Flushed, InputRecords
  <1>4. Packet(k1, block, ~do) = p
    <2> HIDE DEF k1, block
    <2> QED
      BY <1>2 DEF Packet
  <1>5. Taken(EncodedByCELT(k, s), do) = FlushCheck(k1, block, ~do)
    <2> HIDE DEF k1, block
    <2> QED
      BY <1>1 DEF Taken
  <1>6. FlushCheck(k1, block, ~do) =
          IF do /\ k.bufferedFrames + 1 < AudioPerPacket
          THEN [input |-> k2, packets |-> <<>>] ELSE [input |-> k3, packets |-> <<p>>]
    <2> HIDE DEF k1, k2, k3, block, p
    <2> QED
      BY <1>2, <1>3, <1>4 DEF FlushCheck
  <1> QED
    BY <1>5, <1>6

(* The input after a frame: what it collects has changed and nothing else.  *)
After(k, type, count, buffer, list, do) ==
    [k EXCEPT !.frameCounter = @ + 1, !.udpMessageType = type,
              !.bufferedFrames = count, !.opusBuffer = buffer,
              !.frameList = list, !.lastTransmit = do]

IsAfter(nk, k, type, count, buffer, list, do) ==
    /\ nk \in InputRecords
    /\ nk.frameCounter = k.frameCounter + 1 /\ nk.udpMessageType = type
    /\ nk.bufferedFrames = count /\ nk.opusBuffer = buffer
    /\ nk.frameList = list /\ nk.lastTransmit = do /\ nk.fed = k.fed

LEMMA AfterTyped ==
    ASSUME NEW k \in InputRecords, NEW type \in MessageTypes, NEW count \in Counts,
           NEW buffer \in Seq(FrameRecords), NEW list \in Seq(Seq(FrameRecords)),
           NEW do \in BOOLEAN
    PROVE  IsAfter(After(k, type, count, buffer, list, do),
                   k, type, count, buffer, list, do)
  <1>1. After(k, type, count, buffer, list, do) \in InputRecords
    <2> DEFINE Buffers == Seq(FrameRecords)
               Lists == Seq(Seq(FrameRecords))
               c == k.frameCounter + 1
    <2>1. c \in Nat
      BY DEF InputRecords
    <2>2. buffer \in Buffers /\ list \in Lists
      OBVIOUS
    <2>3. InputRecords =
            [transmitType : TransmitTypes, connected : BOOLEAN, fed : BOOLEAN,
             frameCounter : Nat, bufferedFrames : Counts,
             opusBuffer : Buffers, frameList : Lists,
             udpMessageType : MessageTypes, lastTransmit : BOOLEAN,
             forceTransmit : BOOLEAN, flags : FlagSets]
      BY DEF InputRecords
    <2>4. After(k, type, count, buffer, list, do) =
            [k EXCEPT !.frameCounter = c, !.udpMessageType = type,
                      !.bufferedFrames = count, !.opusBuffer = buffer,
                      !.frameList = list, !.lastTransmit = do]
      BY DEF After
    <2> HIDE DEF Buffers, Lists, c
    <2> QED
      BY <2>1, <2>2, <2>3, <2>4
  <1> QED
    BY <1>1 DEF IsAfter, After, InputRecords

LEMMA DecisionTyped ==
    ASSUME NEW k, NEW level
    PROVE  /\ DoTransmit(k, level) \in BOOLEAN
           /\ DoTransmit(k, level) => k.flags = {}
  BY DEF DoTransmit

LEMMA Processed ==
    ASSUME NEW k \in InputRecords, NEW level
    PROVE  LET k1 == Counted(k)
               do == DoTransmit(k1, level)
               e == Taken(Encoded(k1, do, server), do)
           IN  /\ ProcessAndEncode(k, level, server) =
                    IF ~k.lastTransmit /\ ~do THEN [input |-> k1, packets |-> <<>>]
                    ELSE [input |-> [e.input EXCEPT !.lastTransmit = do],
                          packets |-> e.packets]
               /\ Encoded(k1, do, server) =
                    IF UsesOpus(k, server) THEN EncodedByOpus(k1, do)
                    ELSE EncodedByCELT(k1, server)
  <1>1. UsesOpus(Counted(k), server) = UsesOpus(k, server)
    BY CountedTyped DEF UsesOpus
  <1>2. Encoded(Counted(k), DoTransmit(Counted(k), level), server) =
          IF UsesOpus(k, server) THEN EncodedByOpus(Counted(k), DoTransmit(Counted(k), level))
          ELSE EncodedByCELT(Counted(k), server)
    BY <1>1 DEF Encoded
  <1> QED
    BY <1>2 DEF ProcessAndEncode, Taken, Counted

(* The outcomes of a frame, one for each way through the code.              *)
LEMMA Outcomes ==
    ASSUME NEW k \in InputRecords, NEW level
    PROVE  LET do == DoTransmit(Counted(k), level)
               r == ProcessAndEncode(k, level, server)
               count == k.bufferedFrames + 1
               full == ~do \/ count = AudioPerPacket
               buffer == Append(k.opusBuffer, Frame(Counted(k), "opus"))
               coded == buffer \o Padding(AudioPerPacket - count)
               list == Append(k.frameList, <<Frame(Counted(k), "celt")>>)
               type == NameWithCELT(k, server)
           IN  \/ /\ ~k.lastTransmit /\ ~do
                  /\ r = [input |-> After(k, k.udpMessageType, k.bufferedFrames,
                                          k.opusBuffer, k.frameList, FALSE),
                          packets |-> <<>>]
               \/ /\ k.lastTransmit \/ do
                  /\ UsesOpus(k, server) /\ ~full
                  /\ r = [input |-> After(k, "opus", count, buffer, k.frameList, TRUE),
                          packets |-> <<>>]
               \/ /\ k.lastTransmit \/ do
                  /\ UsesOpus(k, server) /\ full
                  /\ r = [input |-> After(k, "opus", 0, <<>>, <<>>, do),
                          packets |-> <<[type |-> "opus",
                              sequence |-> k.frameCounter + 1 - AudioPerPacket,
                              frames |-> Head(Append(k.frameList, coded)),
                              last |-> ~do]>>]
               \/ /\ k.lastTransmit \/ do
                  /\ ~UsesOpus(k, server) /\ ~full
                  /\ r = [input |-> After(k, type, count, k.opusBuffer, list, TRUE),
                          packets |-> <<>>]
               \/ /\ k.lastTransmit \/ do
                  /\ ~UsesOpus(k, server) /\ full
                  /\ r = [input |-> After(k, type, 0, k.opusBuffer, <<>>, do),
                          packets |-> <<[type |-> type,
                              sequence |-> k.frameCounter + 1 - count,
                              frames |-> IF type = "opus" THEN Head(list)
                                         ELSE Joined(list),
                              last |-> ~do /\ type = "opus"]>>]
  <1> DEFINE k1 == Counted(k)
             do == DoTransmit(k1, level)
             r == ProcessAndEncode(k, level, server)
             e == Taken(Encoded(k1, do, server), do)
             count == k.bufferedFrames + 1
             full == ~do \/ count = AudioPerPacket
             buffer == Append(k.opusBuffer, Frame(k1, "opus"))
             coded == buffer \o Padding(AudioPerPacket - count)
             list == Append(k.frameList, <<Frame(k1, "celt")>>)
             type == NameWithCELT(k, server)
             po == [type |-> "opus", sequence |-> k.frameCounter + 1 - AudioPerPacket,
                    frames |-> Head(Append(k.frameList, coded)), last |-> ~do]
             pc == [type |-> type, sequence |-> k.frameCounter + 1 - count,
                    frames |-> IF type = "opus" THEN Head(list)
                               ELSE Joined(list),
                    last |-> ~do /\ type = "opus"]
  <1>k. /\ k1 \in InputRecords /\ k1.frameCounter = k.frameCounter + 1
        /\ k1.bufferedFrames = k.bufferedFrames /\ k1.opusBuffer = k.opusBuffer
        /\ k1.frameList = k.frameList /\ k1.udpMessageType = k.udpMessageType
        /\ k1.connected = k.connected
    BY CountedTyped
  <1>b. k.bufferedFrames \in Nat /\ count <= AudioPerPacket /\ k.frameCounter \in Nat
    BY PacketAssumption DEF InputRecords, Counts
  <1>d. do \in BOOLEAN
    BY DecisionTyped
  <1>1. CASE ~k.lastTransmit /\ ~do
    <2>1. r = [input |-> k1, packets |-> <<>>]
      BY <1>1, Processed
    <2>2. k1 = After(k, k.udpMessageType, k.bufferedFrames, k.opusBuffer, k.frameList, FALSE)
      BY <1>1 DEF Counted, After, InputRecords
    <2> QED
      BY <1>1, <2>1, <2>2
  <1>2. ASSUME k.lastTransmit \/ do
        PROVE  r = [input |-> [e.input EXCEPT !.lastTransmit = do], packets |-> e.packets]
    BY <1>2, Processed
  <1>3. CASE (k.lastTransmit \/ do) /\ UsesOpus(k, server) /\ ~full
    <2>1. e = Taken(EncodedByOpus(k1, TRUE), TRUE)
      BY <1>3, <1>d, Processed
    <2> DEFINE k2 == [k1 EXCEPT !.udpMessageType = "opus", !.bufferedFrames = @ + 1,
                                !.opusBuffer = Append(@, Frame(k1, "opus"))]
    <2>2. e = [input |-> k2, packets |-> <<>>]
      <3>1. k1.bufferedFrames + 1 < AudioPerPacket
        BY <1>3, <1>b, <1>k, PacketAssumption
      <3>2. k1 \in InputRecords
        BY <1>k
      <3> HIDE DEF k1, e
      <3> QED
        BY <2>1, <3>1, <3>2, OpusCollects
    <2>3. [k2 EXCEPT !.lastTransmit = TRUE] = After(k, "opus", count, buffer, k.frameList, TRUE)
      BY DEF Counted, After, InputRecords
    <2>4. do = TRUE
      BY <1>3, <1>d
    <2> HIDE DEF k2, e, r, do
    <2>5. r = [input |-> [k2 EXCEPT !.lastTransmit = TRUE], packets |-> <<>>]
      BY <1>2, <1>3, <2>2, <2>4
    <2> QED
      BY <1>3, <2>3, <2>5 DEF r, do
  <1>4. CASE (k.lastTransmit \/ do) /\ UsesOpus(k, server) /\ full
    <2>1. e = Taken(EncodedByOpus(k1, do), do)
      BY <1>4, Processed
    <2> DEFINE k2 == [k1 EXCEPT !.udpMessageType = "opus", !.bufferedFrames = 0,
                                !.opusBuffer = <<>>, !.frameList = <<>>]
    <2>2. e = [input |-> k2, packets |-> <<po>>]
      <3>1. ~do \/ k1.bufferedFrames + 1 = AudioPerPacket
        BY <1>4, <1>k
      <3> HIDE DEF k1, e, do
      <3>2. Taken(EncodedByOpus(k1, do), do) =
              [input |-> k2,
               packets |-> <<[type |-> "opus", sequence |-> k1.frameCounter - AudioPerPacket,
                    frames |-> Head(Append(k1.frameList,
                        Append(k1.opusBuffer, Frame(k1, "opus")) \o
                        Padding(AudioPerPacket - (k1.bufferedFrames + 1)))),
                    last |-> ~do]>>]
        BY <1>d, <1>k, <3>1, OpusSends
      <3> DEFINE coded1 == Append(k1.opusBuffer, Frame(k1, "opus")) \o
                     Padding(AudioPerPacket - (k1.bufferedFrames + 1))
      <3>3. coded1 = coded
        BY <1>k
      <3>4. e = [input |-> k2,
                 packets |-> <<[type |-> "opus", sequence |-> k1.frameCounter - AudioPerPacket,
                    frames |-> Head(Append(k1.frameList, coded1)), last |-> ~do]>>]
        BY <2>1, <3>2
      <3>5. po = [type |-> "opus", sequence |-> k1.frameCounter - AudioPerPacket,
                  frames |-> Head(Append(k1.frameList, coded1)), last |-> ~do]
        <4>1. k1.frameCounter - AudioPerPacket = k.frameCounter + 1 - AudioPerPacket
          BY <1>b, <1>k, PacketAssumption
        <4> HIDE DEF coded1, coded, k1, do
        <4> QED
          BY <4>1, <3>3, <1>k
      <3> HIDE DEF coded1, coded, k2, po
      <3> QED
        BY <3>4, <3>5
    <2>3. [k2 EXCEPT !.lastTransmit = do] = After(k, "opus", 0, <<>>, <<>>, do)
      BY DEF Counted, After, InputRecords
    <2> HIDE DEF k2, e, r, do, po
    <2>5. r = [input |-> [k2 EXCEPT !.lastTransmit = do], packets |-> <<po>>]
      BY <1>2, <1>4, <2>2
    <2> QED
      BY <1>4, <2>3, <2>5 DEF r, do, po
  <1>5. CASE (k.lastTransmit \/ do) /\ ~UsesOpus(k, server)
    <2>1. e = Taken(EncodedByCELT(k1, server), do)
      BY <1>5, Processed
    <2> DEFINE k2 == [k1 EXCEPT !.udpMessageType = type, !.bufferedFrames = @ + 1,
                                !.frameList = list]
               k3 == [k1 EXCEPT !.udpMessageType = type, !.bufferedFrames = 0,
                                !.frameList = <<>>]
    <2>2. e = IF do /\ count < AudioPerPacket THEN [input |-> k2, packets |-> <<>>]
              ELSE [input |-> k3, packets |-> <<pc>>]
      <3>1. NameWithCELT(k1, server) = type
        BY <1>k DEF NameWithCELT
      <3> DEFINE l1 == Append(k1.frameList, <<Frame(k1, "celt")>>)
      <3> HIDE DEF do, e, type, k1
      <3>2. Taken(EncodedByCELT(k1, server), do) =
              IF do /\ k1.bufferedFrames + 1 < AudioPerPacket
              THEN [input |-> [k1 EXCEPT !.udpMessageType = type,
                                 !.bufferedFrames = @ + 1, !.frameList = l1],
                    packets |-> <<>>]
              ELSE [input |-> [k1 EXCEPT !.udpMessageType = type,
                                 !.bufferedFrames = 0, !.frameList = <<>>],
                    packets |-> <<[type |-> type,
                        sequence |-> k1.frameCounter - (k1.bufferedFrames + 1),
                        frames |-> IF type = "opus" THEN Head(l1)
                                   ELSE Joined(l1),
                        last |-> ~do /\ type = "opus"]>>]
        <4>1. k1 \in InputRecords
          BY <1>k
        <4> HIDE DEF l1
        <4>2. LET t == NameWithCELT(k1, server)
                  l == Append(k1.frameList, <<Frame(k1, "celt")>>)
              IN  Taken(EncodedByCELT(k1, server), do) =
                    IF do /\ k1.bufferedFrames + 1 < AudioPerPacket
                    THEN [input |-> [k1 EXCEPT !.udpMessageType = t,
                                       !.bufferedFrames = @ + 1, !.frameList = l],
                          packets |-> <<>>]
                    ELSE [input |-> [k1 EXCEPT !.udpMessageType = t,
                                       !.bufferedFrames = 0, !.frameList = <<>>],
                          packets |-> <<[type |-> t,
                              sequence |-> k1.frameCounter - (k1.bufferedFrames + 1),
                              frames |-> IF t = "opus" THEN Head(l) ELSE Joined(l),
                              last |-> ~do /\ t = "opus"]>>]
          BY <1>d, <4>1, CeltTaken
        <4> QED
          BY <3>1, <4>2 DEF l1
      <3>3. l1 = list
        BY <1>k
      <3>4. k1.frameCounter - (k1.bufferedFrames + 1) = k.frameCounter + 1 - count
        BY <1>b, <1>k
      <3> DEFINE p1 == [type |-> type,
                        sequence |-> k1.frameCounter - (k1.bufferedFrames + 1),
                        frames |-> IF type = "opus" THEN Head(l1) ELSE Joined(l1),
                        last |-> ~do /\ type = "opus"]
      <3>5. pc = p1
        BY <3>3, <3>4
      <3>6. k1.bufferedFrames + 1 = count
        BY <1>k
      <3>7. e = IF do /\ k1.bufferedFrames + 1 < AudioPerPacket
                THEN [input |-> [k1 EXCEPT !.udpMessageType = type,
                                 !.bufferedFrames = @ + 1, !.frameList = l1],
                      packets |-> <<>>]
                ELSE [input |-> k3, packets |-> <<p1>>]
        BY <2>1, <3>2
      <3> HIDE DEF l1, list, k3, pc, p1, count
      <3> QED
        BY <3>3, <3>5, <3>6, <3>7
    <2>3. /\ [k2 EXCEPT !.lastTransmit = TRUE] = After(k, type, count, k.opusBuffer, list, TRUE)
          /\ [k3 EXCEPT !.lastTransmit = do] = After(k, type, 0, k.opusBuffer, <<>>, do)
      <3> HIDE DEF type, list, do
      <3> QED
        BY DEF Counted, After, InputRecords
    <2>4. full <=> ~(do /\ count < AudioPerPacket)
      BY <1>b, PacketAssumption
    <2>5. CASE full
      <3> HIDE DEF k2, k3, e, r, do, pc, full, count, type, list
      <3>1. r = [input |-> [k3 EXCEPT !.lastTransmit = do], packets |-> <<pc>>]
        BY <1>2, <1>5, <2>2, <2>4, <2>5
      <3> QED
        BY <1>5, <2>3, <2>5, <3>1 DEF r, do, pc, full, count, type, list
    <2>6. CASE ~full
      <3> HIDE DEF k2, k3, e, r, do, pc, full, count, type, list
      <3>1. do = TRUE
        BY <1>d, <2>4, <2>6
      <3>2. r = [input |-> [k2 EXCEPT !.lastTransmit = TRUE], packets |-> <<>>]
        BY <1>2, <1>5, <2>2, <2>4, <2>6, <3>1
      <3> QED
        BY <1>5, <2>3, <2>6, <3>2 DEF r, do, full, count, type, list
    <2> QED
      BY <2>5, <2>6
  <1> QED
    BY <1>1, <1>3, <1>4, <1>5, <1>d

--------------------------------------------------------------------------------
(* What each outcome means for the input's invariant and for the packet.    *)

Due(k, l, do) ==
    IF k.lastTransmit \/ do THEN Append(l.owed, k.frameCounter + 1) ELSE l.owed

Entry(k, l, do) ==
    [l EXCEPT !.owed = Due(k, l, do),
              !.misnamed = IF k.lastTransmit THEN @ ELSE Misnames(k)]

Whole(p, due, before) ==
    LET content == [j \in DOMAIN p.frames |-> p.frames[j].n]
        padding == [j \in 1 .. Len(content) - Len(due) |-> 0]
    IN  /\ content = due \o padding
        /\ p.sequence + 1 + Len(padding) = Head(due)
        /\ padding = <<>> \/ AudioPerPacket <= 2 => p.sequence > before

Unmuted(p, due, do) ==
    \A j \in DOMAIN p.frames : p.frames[j].muted => ~do /\ j = Len(due)

(* What a packet p of an input k with ledger l has to be.                   *)
Fit(p, k, l, do) ==
    /\ p.sequence \in Int /\ p.sequence < k.frameCounter + 1
    /\ do => p.sequence = k.frameCounter + 1 - AudioPerPacket
    /\ ~Entry(k, l, do).misnamed => Whole(p, Due(k, l, do), l.numbered)
    /\ Unmuted(p, Due(k, l, do), do)
    /\ k.udpMessageType = "opus" /\ k.lastTransmit /\ ~do => p.last

LEMMA SeqByIndex ==
    ASSUME NEW S, NEW n \in Nat, NEW f, f = [j \in 1 .. n |-> f[j]],
           \A j \in 1 .. n : f[j] \in S
    PROVE  f \in Seq(S) /\ Len(f) = n
  OBVIOUS

LEMMA Appending ==
    ASSUME NEW S, NEW f \in Seq(S), NEW x \in S
    PROVE  /\ Append(f, x) \in Seq(S) /\ Len(Append(f, x)) = Len(f) + 1
           /\ Append(f, x)[Len(f) + 1] = x
           /\ \A j \in 1 .. Len(f) : Append(f, x)[j] = f[j]
  OBVIOUS

LEMMA HeadOfAppended ==
    ASSUME NEW S, NEW f \in Seq(S), NEW x \in S
    PROVE  Head(Append(f, x)) = IF f = <<>> THEN x ELSE f[1]
  OBVIOUS

LEMMA Joining ==
    ASSUME NEW S, NEW f \in Seq(S), NEW g \in Seq(S)
    PROVE  /\ f \o g \in Seq(S) /\ Len(f \o g) = Len(f) + Len(g)
           /\ \A j \in 1 .. Len(f) : (f \o g)[j] = f[j]
           /\ \A j \in Len(f) + 1 .. Len(f) + Len(g) : (f \o g)[j] = g[j - Len(f)]
  OBVIOUS

(* The block of frames that is one longer than what has been collected.     *)
LEMMA DueFrames ==
    ASSUME NEW k \in InputRecords, NEW l \in Ledgers, Accounted(k, l), NEW do \in BOOLEAN,
           k.lastTransmit \/ do
    PROVE  LET due == Due(k, l, do)
               count == k.bufferedFrames + 1
           IN  /\ Len(due) = count /\ due \in Seq(Nat)
               /\ \A j \in 1 .. count : due[j] = k.frameCounter + 1 - count + j
               /\ due = LastFrames(k.frameCounter + 1, count)
  <1> DEFINE due == Due(k, l, do)
             b == k.bufferedFrames
             count == b + 1
             c == k.frameCounter
  <1>1. b \in Nat /\ c \in Nat
    BY PacketAssumption DEF InputRecords, Counts
  <1>2. due = Append(l.owed, c + 1) /\ l.owed \in Seq(Nat)
    BY DEF Due, Ledgers
  <1>3. l.owed = [j \in 1 .. b |-> c - b + j]
    BY DEF Accounted, LastFrames
  <1>4. Len(l.owed) = b
    BY <1>1, <1>2, <1>3
  <1>5. /\ Len(due) = count /\ due \in Seq(Nat) /\ due[count] = c + 1
        /\ \A j \in 1 .. b : due[j] = l.owed[j]
    BY <1>1, <1>2, <1>4
  <1>6. ASSUME NEW j \in 1 .. count
        PROVE  due[j] = c + 1 - count + j
    <2>1. CASE j = count
      BY <2>1, <1>1, <1>5
    <2>2. CASE j # count
      <3>1. j \in 1 .. b
        BY <2>2, <1>1
      <3>2. due[j] = c - b + j
        <4> HIDE DEF due
        <4> QED
          BY <3>1, <1>3, <1>5
      <3> HIDE DEF due
      <3> QED
        BY <3>2, <1>1
    <2> QED
      BY <2>1, <2>2
  <1>7. due = [j \in 1 .. count |-> due[j]]
    BY <1>1, <1>5
  <1>8. due = LastFrames(c + 1, count)
    <2> DEFINE d == c + 1
    <2>0. count \in Nat /\ d \in Nat
      BY <1>1
    <2> HIDE DEF due
    <2>1. ASSUME NEW j \in 1 .. count
          PROVE  due[j] = d - count + j
      <3>1. due[j] = c + 1 - count + j
        BY <1>6
      <3> QED
        BY <3>1, <1>1
    <2> HIDE DEF d, count
    <2>2. due = [j \in 1 .. count |-> d - count + j]
      BY <1>7, <2>0, <2>1
    <2>3. due = LastFrames(d, count)
      BY <2>2 DEF LastFrames
    <2> QED
      BY <2>3 DEF d
  <1> HIDE DEF due
  <1> QED
    BY <1>5, <1>6, <1>8 DEF due

(* A block of the frames due, followed by silence.                          *)
LEMMA WholeBlock ==
    ASSUME NEW k \in InputRecords, NEW l \in Ledgers, Accounted(k, l), NEW do \in BOOLEAN,
           k.lastTransmit \/ do,
           NEW frames \in Seq(FrameRecords),
           NEW missing \in Nat,
           Len(frames) = k.bufferedFrames + 1 + missing,
           \A j \in 1 .. k.bufferedFrames + 1 :
               frames[j].n = k.frameCounter - k.bufferedFrames + j,
           \A j \in k.bufferedFrames + 2 .. Len(frames) : frames[j].n = 0,
           do \/ k.bufferedFrames + 1 + missing <= AudioPerPacket,
           missing # 0 => k.bufferedFrames + 1 + missing = AudioPerPacket /\ k.lastTransmit,
           NEW p, p.frames = frames,
           p.sequence = k.frameCounter - k.bufferedFrames - missing
    PROVE  Whole(p, Due(k, l, do), l.numbered)
  <1> DEFINE due == Due(k, l, do)
             b == k.bufferedFrames
             count == b + 1
             c == k.frameCounter
             content == [j \in DOMAIN p.frames |-> p.frames[j].n]
             padding == [j \in 1 .. Len(content) - Len(due) |-> 0]
  <1>1. b \in Nat /\ c \in Nat /\ AudioPerPacket \in Nat \ {0}
    BY PacketAssumption DEF InputRecords, Counts
  <1>2. /\ Len(due) = count /\ due \in Seq(Nat)
        /\ \A j \in 1 .. count : due[j] = c + 1 - count + j
    BY DueFrames
  <1>3. DOMAIN frames = 1 .. Len(frames) /\ Len(frames) = count + missing
    BY <1>1
  <1>4. /\ content \in Seq(Nat) /\ Len(content) = count + missing
        /\ \A j \in 1 .. count + missing : content[j] = frames[j].n
    <2>1. content = [j \in 1 .. count + missing |-> frames[j].n]
      BY <1>1, <1>3
    <2>2. \A j \in 1 .. count + missing : frames[j] \in FrameRecords
      BY <1>1, <1>3
    <2>3. \A j \in 1 .. count + missing : frames[j].n \in Nat
      BY <2>2 DEF FrameRecords
    <2> HIDE DEF content
    <2>4. \A j \in 1 .. count + missing : content[j] = frames[j].n
      BY <2>1
    <2>5. content = [j \in 1 .. count + missing |-> content[j]]
      BY <2>1
    <2> DEFINE n == count + missing
    <2>6. n \in Nat
      BY <1>1
    <2> HIDE DEF n, count
    <2>7. \A j \in 1 .. n : content[j] \in Nat
      BY <2>3, <2>4 DEF n
    <2>8. content \in Seq(Nat) /\ Len(content) = n
      BY ONLY <2>5, <2>6, <2>7, SeqByIndex DEF n
    <2> QED
      BY <2>4, <2>8 DEF n
  <1>5. /\ padding \in Seq(Nat) /\ Len(padding) = missing
        /\ \A j \in 1 .. missing : padding[j] = 0
    <2>1. Len(content) - Len(due) = missing
      BY <1>1, <1>2, <1>4
    <2>2. padding = [j \in 1 .. missing |-> 0]
      BY <2>1
    <2> HIDE DEF padding
    <2>3. \A j \in 1 .. missing : padding[j] = 0
      BY <2>2
    <2>4. padding = [j \in 1 .. missing |-> padding[j]]
      BY <2>2
    <2>5. missing \in Nat /\ \A j \in 1 .. missing : padding[j] \in Nat
      BY <2>3
    <2>6. padding \in Seq(Nat) /\ Len(padding) = missing
      BY ONLY <2>4, <2>5, SeqByIndex
    <2> QED
      BY <2>3, <2>6
  <1> HIDE DEF content, padding, due
  <1>6. content = due \o padding
    <2>1. /\ due \o padding \in Seq(Nat) /\ Len(due \o padding) = count + missing
          /\ \A j \in 1 .. count : (due \o padding)[j] = due[j]
          /\ \A j \in count + 1 .. count + missing :
                (due \o padding)[j] = padding[j - count]
      <3>1. due \in Seq(Nat) /\ padding \in Seq(Nat)
        BY <1>2, <1>5
      <3>2. Len(due) = count /\ Len(padding) = missing
        BY <1>2, <1>5
      <3> DEFINE joined == due \o padding
      <3>3. /\ joined \in Seq(Nat) /\ Len(joined) = Len(due) + Len(padding)
            /\ \A j \in 1 .. Len(due) : joined[j] = due[j]
            /\ \A j \in Len(due) + 1 .. Len(due) + Len(padding) :
                  joined[j] = padding[j - Len(due)]
        BY <3>1, Joining
      <3> HIDE DEF joined, count
      <3>4. /\ joined \in Seq(Nat) /\ Len(joined) = count + missing
            /\ \A j \in 1 .. count : joined[j] = due[j]
            /\ \A j \in count + 1 .. count + missing : joined[j] = padding[j - count]
        BY <3>2, <3>3
      <3> QED
        BY <3>4 DEF joined
    <2>2. ASSUME NEW j \in 1 .. count + missing
          PROVE  content[j] = (due \o padding)[j]
      <3>1. CASE j \in 1 .. count
        <4>1. content[j] = c - b + j
          BY <3>1, <1>1, <1>4
        <4>2. due[j] = c + 1 - count + j
          BY <3>1, <1>2
        <4>3. c - b + j = c + 1 - count + j
          BY <3>1, <1>1
        <4> QED
          BY <3>1, <4>1, <4>2, <4>3, <2>1
      <3>2. CASE j \in count + 1 .. count + missing
        <4>0. j \in 1 .. count + missing /\ j \in b + 2 .. Len(frames)
          BY <3>2, <1>1, <1>3
        <4>1. content[j] = 0
          BY <4>0, <1>4
        <4>2. j - count \in 1 .. missing
          BY <3>2, <1>1
        <4> QED
          BY <3>2, <4>1, <4>2, <2>1, <1>5
      <3>3. j \in 1 .. count \/ j \in count + 1 .. count + missing
        BY <1>1
      <3> QED
        BY <3>1, <3>2, <3>3
    <2>3. Len(content) = Len(due \o padding)
      BY <1>4, <2>1
    <2>4. \A j \in 1 .. Len(content) : content[j] = (due \o padding)[j]
      BY <1>4, <2>2
    <2> QED
      BY <1>4, <2>1, <2>3, <2>4, SeqEqual
  <1>7. p.sequence + 1 + Len(padding) = Head(due)
    <2>1. Head(due) = c + 1 - count + 1
      BY <1>1, <1>2
    <2> QED
      BY <1>1, <1>5, <2>1
  <1>8. ASSUME padding = <<>> \/ AudioPerPacket <= 2
        PROVE  p.sequence > l.numbered
    <2>1. l.numbered \in Int /\ l.numbered < c - b
      BY DEF Ledgers, Accounted
    <2>2. CASE missing = 0
      BY <2>1, <2>2, <1>1
    <2>3. CASE missing # 0
      <3>1. AudioPerPacket = 2 /\ b = 0 /\ missing = 1 /\ k.lastTransmit
        BY <2>3, <1>1, <1>5, <1>8
      <3>2. l.numbered = c - 2
        BY <3>1 DEF Accounted
      <3> QED
        BY <3>1, <3>2, <1>1
    <2> QED
      BY <2>2, <2>3
  <1> QED
    BY <1>6, <1>7, <1>8 DEF Whole, content, padding, due

LEMMA EntryTyped ==
    ASSUME NEW k \in InputRecords, NEW l \in Ledgers, NEW do \in BOOLEAN
    PROVE  /\ Entry(k, l, do) \in Ledgers
           /\ Entry(k, l, do).owed = Due(k, l, do)
           /\ Entry(k, l, do).numbered = l.numbered
           /\ Entry(k, l, do).misnamed = IF k.lastTransmit THEN l.misnamed ELSE Misnames(k)
  <1>1. Misnames(k) \in BOOLEAN
    BY DEF Misnames
  <1>2. Due(k, l, do) \in Seq(Nat)
    BY DEF Due, Ledgers, InputRecords
  <1>3. Entry(k, l, do) \in Ledgers
    BY <1>1, <1>2 DEF Entry, Ledgers
  <1> QED
    BY <1>3 DEF Entry, Ledgers

Cleared(e, n) == [e EXCEPT !.owed = <<>>, !.numbered = n]

LEMMA ClearedTyped ==
    ASSUME NEW e \in Ledgers, NEW n \in Int
    PROVE  /\ Cleared(e, n) \in Ledgers
           /\ Cleared(e, n).owed = <<>> /\ Cleared(e, n).numbered = n
           /\ Cleared(e, n).misnamed = e.misnamed
  <1>1. Cleared(e, n) \in Ledgers
    <2> DEFINE Frames == Seq(Nat)
               none == <<>>
    <2>1. none \in Frames
      OBVIOUS
    <2>2. Ledgers = [owed : Frames, numbered : Int, misnamed : BOOLEAN]
      BY DEF Ledgers
    <2>3. Cleared(e, n) = [e EXCEPT !.owed = none, !.numbered = n]
      BY DEF Cleared
    <2> HIDE DEF Frames, none
    <2> QED
      BY <2>1, <2>2, <2>3
  <1> QED
    BY <1>1 DEF Cleared, Ledgers

(* A frame is kept for later.                                               *)
LEMMA Collecting ==
    ASSUME NEW k \in InputRecords, NEW l \in Ledgers, Accounted(k, l), NEW do \in BOOLEAN,
           k.lastTransmit \/ do,
           NEW nk \in InputRecords, nk.frameCounter = k.frameCounter + 1,
           nk.bufferedFrames = k.bufferedFrames + 1,
           nk.udpMessageType = "opus" /\ nk.frameList # <<>> => Entry(k, l, do).misnamed
    PROVE  Accounted(nk, Entry(k, l, do))
  <1>1. k.bufferedFrames \in Nat /\ k.frameCounter \in Nat /\ l.numbered \in Int
    BY PacketAssumption DEF InputRecords, Counts, Ledgers
  <1>2. l.numbered < k.frameCounter - k.bufferedFrames
    BY DEF Accounted
  <1>3. Entry(k, l, do).owed = Due(k, l, do) /\ Entry(k, l, do).numbered = l.numbered
    BY EntryTyped
  <1>4. Due(k, l, do) = LastFrames(nk.frameCounter, nk.bufferedFrames)
    BY DueFrames
  <1>5. l.numbered < nk.frameCounter - nk.bufferedFrames /\ nk.bufferedFrames # 0
    BY <1>1, <1>2
  <1> QED
    BY <1>3, <1>4, <1>5 DEF Accounted

(* A packet has been sent.                                                  *)
LEMMA Flushing ==
    ASSUME NEW k \in InputRecords, NEW l \in Ledgers, NEW do \in BOOLEAN,
           NEW nk \in InputRecords, nk.frameCounter = k.frameCounter + 1,
           nk.bufferedFrames = 0, nk.opusBuffer = <<>>, nk.frameList = <<>>,
           nk.lastTransmit = do,
           NEW p, Fit(p, k, l, do)
    PROVE  /\ Collected(nk)
           /\ Accounted(nk, Cleared(Entry(k, l, do), p.sequence))
  <1> DEFINE e == Cleared(Entry(k, l, do), p.sequence)
  <1>1. k.frameCounter \in Nat /\ AudioPerPacket \in Int
    BY PacketAssumption DEF InputRecords
  <1>2. /\ p.sequence \in Int /\ p.sequence < nk.frameCounter
        /\ do => p.sequence = nk.frameCounter - AudioPerPacket
    <2> HIDE DEF Whole, Unmuted
    <2> QED
      BY <1>1 DEF Fit
  <1>3. e.owed = <<>> /\ e.numbered = p.sequence
    <2>1. Entry(k, l, do) \in Ledgers
      BY EntryTyped
    <2> QED
      BY <1>2, <2>1, ClearedTyped
  <1>4. Collected(nk)
    <2>1. nk.bufferedFrames = Len(nk.opusBuffer) /\ nk.bufferedFrames = Len(nk.frameList)
      OBVIOUS
    <2>2. InBuffer(nk) /\ InList(nk) /\ OnePlace(nk) /\ Silent(nk)
      BY <2>1 DEF InBuffer, InList, OnePlace, Silent
    <2> QED
      BY <2>2 DEF Collected
  <1>5. <<>> = LastFrames(nk.frameCounter, nk.bufferedFrames)
    BY DEF LastFrames
  <1> HIDE DEF e
  <1>6. Accounted(nk, e)
    BY <1>1, <1>2, <1>3, <1>5 DEF Accounted
  <1> QED
    BY <1>4, <1>6 DEF e

(* Where an input has what it collected, by the codec it uses now.          *)
LEMMA OpusPlace ==
    ASSUME NEW k \in InputRecords, NEW l \in Ledgers, Collected(k), Accounted(k, l),
           UsesOpus(k, server)
    PROVE  \/ k.frameList = <<>> /\ Len(k.opusBuffer) = k.bufferedFrames
           \/ k.frameList # <<>> /\ k.lastTransmit /\ l.misnamed
  <1>1. k.lastTransmit => k.udpMessageType = "opus"
    BY DEF UsesOpus
  <1> QED
    BY <1>1 DEF Collected, OnePlace, Silent, Accounted

LEMMA CeltPlace ==
    ASSUME NEW k \in InputRecords, Collected(k), ~UsesOpus(k, server)
    PROVE  /\ k.opusBuffer = <<>> /\ Len(k.frameList) = k.bufferedFrames
           /\ \A j \in 1 .. Len(k.frameList) :
                 k.frameList[j][1].n = k.frameCounter - k.bufferedFrames + j
           /\ k.udpMessageType = "opus" => ~k.lastTransmit
  <1>1. k.udpMessageType = "opus" => ~k.lastTransmit
    BY DEF UsesOpus, InputRecords
  <1> QED
    BY <1>1 DEF Collected, OnePlace, Silent

LEMMA Quiet ==
    ASSUME NEW k \in InputRecords, NEW l \in Ledgers, Collected(k), Accounted(k, l),
           ~k.lastTransmit,
           NEW nk \in InputRecords, nk.frameCounter = k.frameCounter + 1,
           nk.bufferedFrames = k.bufferedFrames, nk.opusBuffer = k.opusBuffer,
           nk.frameList = k.frameList, nk.lastTransmit = FALSE
    PROVE  Collected(nk) /\ Accounted(nk, Entry(k, l, FALSE))
  <1>1. k.bufferedFrames = 0 /\ k.opusBuffer = <<>> /\ k.frameList = <<>>
    BY DEF Collected, Silent
  <1>2. k.frameCounter \in Nat /\ l.numbered \in Int
    BY DEF InputRecords, Ledgers
  <1>3. Collected(nk)
    <2>1. nk.bufferedFrames = Len(nk.opusBuffer) /\ nk.bufferedFrames = Len(nk.frameList)
      BY <1>1
    <2>2. InBuffer(nk) /\ InList(nk) /\ OnePlace(nk) /\ Silent(nk)
      BY <1>1, <2>1 DEF InBuffer, InList, OnePlace, Silent
    <2> QED
      BY <2>2 DEF Collected
  <1>4. Due(k, l, FALSE) = l.owed
    BY DEF Due
  <1>5. Entry(k, l, FALSE).owed = l.owed /\ Entry(k, l, FALSE).numbered = l.numbered
    BY <1>4, EntryTyped
  <1>6. l.owed = LastFrames(nk.frameCounter, nk.bufferedFrames)
    BY <1>1 DEF Accounted, LastFrames
  <1>7. l.numbered < nk.frameCounter - nk.bufferedFrames
    BY <1>1, <1>2 DEF Accounted
  <1> QED
    BY <1>1, <1>3, <1>5, <1>6, <1>7 DEF Accounted

(* The frame taken now, when it is speech.                                  *)
LEMMA TakenFrame ==
    ASSUME NEW k \in InputRecords, NEW codec \in {"opus", "celt"}
    PROVE  LET f == Frame(Counted(k), codec)
           IN  /\ f \in FrameRecords /\ f.n = k.frameCounter + 1
               /\ f.muted <=> k.flags # {}
  BY CountedTyped, FrameTyped

LEMMA OpusKeeps ==
    ASSUME NEW k \in InputRecords, NEW l \in Ledgers, Collected(k), Accounted(k, l),
           UsesOpus(k, server), NEW f \in FrameRecords, f.n = k.frameCounter + 1, ~f.muted,
           NEW nk \in InputRecords, nk.frameCounter = k.frameCounter + 1,
           nk.bufferedFrames = k.bufferedFrames + 1, nk.udpMessageType = "opus",
           nk.opusBuffer = Append(k.opusBuffer, f), nk.frameList = k.frameList,
           nk.lastTransmit = TRUE
    PROVE  Collected(nk) /\ Accounted(nk, Entry(k, l, TRUE))
  <1> DEFINE c == k.frameCounter
             n == Len(k.opusBuffer)
  <1>1. /\ c \in Nat /\ k.bufferedFrames \in Nat /\ n \in Nat
        /\ k.opusBuffer \in Seq(FrameRecords)
    BY PacketAssumption DEF InputRecords, Counts
  <1>2. Len(nk.opusBuffer) = n + 1 /\ nk.opusBuffer[n + 1] = f
        /\ \A j \in 1 .. n : nk.opusBuffer[j] = k.opusBuffer[j]
    BY <1>1, Appending
  <1>3. \A j \in 1 .. n : k.opusBuffer[j].n = c - n + j /\ ~k.opusBuffer[j].muted
    BY DEF Collected, InBuffer
  <1> HIDE DEF n, c
  <1>4. ASSUME NEW j \in 1 .. n + 1
        PROVE  nk.opusBuffer[j].n = c + 1 - (n + 1) + j /\ ~nk.opusBuffer[j].muted
    <2>1. CASE j = n + 1
      <3>1. c + 1 - (n + 1) + j = c + 1
        BY <2>1, <1>1
      <3> QED
        BY <2>1, <3>1, <1>2 DEF c
    <2>2. CASE j # n + 1
      <3>1. j \in 1 .. n /\ c + 1 - (n + 1) + j = c - n + j
        BY <2>2, <1>1
      <3> QED
        BY <3>1, <1>2, <1>3
    <2> QED
      BY <2>1, <2>2
  <1>5. InBuffer(nk)
    <2>1. nk.frameCounter = c + 1
      BY DEF c
    <2> SUFFICES ASSUME NEW j \in 1 .. Len(nk.opusBuffer)
                 PROVE  /\ nk.opusBuffer[j].n = nk.frameCounter - Len(nk.opusBuffer) + j
                        /\ ~nk.opusBuffer[j].muted
      BY DEF InBuffer
    <2>2. j \in 1 .. n + 1
      BY <1>2
    <2>3. nk.opusBuffer[j].n = c + 1 - (n + 1) + j /\ ~nk.opusBuffer[j].muted
      BY <1>4, <2>2
    <2>4. nk.frameCounter - Len(nk.opusBuffer) + j = c + 1 - (n + 1) + j
      BY <1>1, <1>2, <2>1
    <2> QED
      BY <2>3, <2>4
  <1>6. InList(nk) /\ Silent(nk)
    BY DEF Collected, InList, Silent
  <1>7. OnePlace(nk)
    BY <1>2, OpusPlace DEF OnePlace, n
  <1>8. nk.frameList # <<>> => Entry(k, l, TRUE).misnamed
    BY OpusPlace, EntryTyped
  <1> QED
    BY <1>5, <1>6, <1>7, <1>8, Collecting DEF Collected

LEMMA CeltKeeps ==
    ASSUME NEW k \in InputRecords, NEW l \in Ledgers, Collected(k), Accounted(k, l),
           ~UsesOpus(k, server), NEW f \in FrameRecords, f.n = k.frameCounter + 1, ~f.muted,
           NEW nk \in InputRecords, nk.frameCounter = k.frameCounter + 1,
           nk.bufferedFrames = k.bufferedFrames + 1,
           nk.udpMessageType = NameWithCELT(k, server),
           nk.opusBuffer = k.opusBuffer, nk.frameList = Append(k.frameList, <<f>>),
           nk.lastTransmit = TRUE
    PROVE  Collected(nk) /\ Accounted(nk, Entry(k, l, TRUE))
  <1> DEFINE c == k.frameCounter
             b == k.bufferedFrames
             n == Len(k.frameList)
  <1>1. /\ c \in Nat /\ b \in Nat /\ k.frameList \in Seq(Seq(FrameRecords))
        /\ <<f>> \in Seq(FrameRecords)
    BY PacketAssumption DEF InputRecords, Counts
  <1>2. /\ k.opusBuffer = <<>> /\ n = b
        /\ \A j \in 1 .. n : k.frameList[j][1].n = c - b + j
    BY CeltPlace
  <1>3. /\ Len(nk.frameList) = n + 1 /\ nk.frameList[n + 1] = <<f>>
        /\ \A j \in 1 .. n : nk.frameList[j] = k.frameList[j]
    BY <1>1, Appending
  <1>4. \A j \in 1 .. n : Len(k.frameList[j]) = 1 /\ ~k.frameList[j][1].muted
    BY DEF Collected, InList
  <1> HIDE DEF n, b, c
  <1>5. ASSUME NEW j \in 1 .. n + 1
        PROVE  /\ Len(nk.frameList[j]) = 1 /\ ~nk.frameList[j][1].muted
               /\ nk.frameList[j][1].n = c + 1 - (b + 1) + j
    <2>1. CASE j = n + 1
      <3>1. c + 1 - (b + 1) + j = c + 1
        BY <2>1, <1>1, <1>2
      <3>2. nk.frameList[j] = <<f>>
        BY <2>1, <1>3
      <3>3. Len(<<f>>) = 1 /\ <<f>>[1] = f
        OBVIOUS
      <3>4. f.n = c + 1
        BY DEF c
      <3> QED
        BY <3>1, <3>2, <3>3, <3>4
    <2>2. CASE j # n + 1
      <3>1. j \in 1 .. n /\ c + 1 - (b + 1) + j = c - b + j
        BY <2>2, <1>1, <1>2
      <3> QED
        BY <3>1, <1>2, <1>3, <1>4
    <2> QED
      BY <2>1, <2>2
  <1>6. InList(nk)
    BY <1>3, <1>5 DEF InList
  <1>7. InBuffer(nk) /\ Silent(nk)
    <2>1. Len(nk.opusBuffer) = 0
      BY <1>2
    <2> QED
      BY <2>1 DEF InBuffer, Silent
  <1>8. nk.frameList # <<>>
    <2>1. n + 1 # 0
      BY <1>1, <1>2
    <2> QED
      BY <1>3, <2>1
  <1>9. OnePlace(nk)
    <2>1. nk.frameCounter = c + 1 /\ nk.bufferedFrames = b + 1 /\ nk.opusBuffer = <<>>
      BY <1>2 DEF b, c
    <2>2. Len(nk.frameList) = nk.bufferedFrames
      BY <1>2, <1>3, <2>1
    <2>3. ASSUME NEW j \in 1 .. Len(nk.frameList)
          PROVE  nk.frameList[j][1].n = nk.frameCounter - nk.bufferedFrames + j
      <3>1. j \in 1 .. n + 1
        BY <1>3
      <3>2. nk.frameList[j][1].n = c + 1 - (b + 1) + j
        BY <1>5, <3>1
      <3>3. nk.frameCounter - nk.bufferedFrames + j = c + 1 - (b + 1) + j
        BY <1>1, <2>1
      <3> QED
        BY <3>2, <3>3
    <2> QED
      BY <1>8, <2>1, <2>2, <2>3 DEF OnePlace
  <1>10. nk.udpMessageType = "opus" => Entry(k, l, TRUE).misnamed
    <2>1. nk.udpMessageType = "opus" =>
              k.udpMessageType = "opus" /\ ~(k.connected /\ server.connected)
      BY DEF NameWithCELT
    <2> QED
      BY <2>1, CeltPlace, EntryTyped DEF Misnames
  <1> QED
    BY <1>6, <1>7, <1>9, <1>10, Collecting DEF Collected

LEMMA CodedBlock ==
    ASSUME NEW buffer \in Seq(FrameRecords), NEW f \in FrameRecords, NEW missing \in Nat
    PROVE  LET coded == Append(buffer, f) \o Padding(missing)
               n == Len(buffer)
           IN  /\ coded \in Seq(FrameRecords) /\ Len(coded) = n + 1 + missing
               /\ \A j \in 1 .. n : coded[j] = buffer[j]
               /\ coded[n + 1] = f
               /\ \A j \in n + 2 .. n + 1 + missing : coded[j].n = 0 /\ ~coded[j].muted
  <1> DEFINE n == Len(buffer)
             head == Append(buffer, f)
             tail == Padding(missing)
             coded == head \o tail
  <1>1. /\ head \in Seq(FrameRecords) /\ Len(head) = n + 1 /\ n \in Nat
        /\ head[n + 1] = f /\ \A j \in 1 .. n : head[j] = buffer[j]
    BY Appending
  <1>2. Silence \in FrameRecords /\ Silence.n = 0 /\ ~Silence.muted
    BY DEF Silence, FrameRecords
  <1>3. /\ tail \in Seq(FrameRecords) /\ Len(tail) = missing
        /\ \A j \in 1 .. missing : tail[j] = Silence
    <2> HIDE DEF tail
    <2>1. tail = [j \in 1 .. missing |-> Silence]
      BY DEF tail, Padding
    <2>2. tail = [j \in 1 .. missing |-> tail[j]]
      BY <2>1
    <2>3. \A j \in 1 .. missing : tail[j] = Silence
      BY <2>1
    <2> QED
      BY <1>2, <2>2, <2>3, SeqByIndex
  <1> HIDE DEF head, tail, n
  <1>4. /\ coded \in Seq(FrameRecords) /\ Len(coded) = Len(head) + Len(tail)
        /\ \A j \in 1 .. Len(head) : coded[j] = head[j]
        /\ \A j \in Len(head) + 1 .. Len(head) + Len(tail) : coded[j] = tail[j - Len(head)]
    BY <1>1, <1>3, Joining
  <1> HIDE DEF coded
  <1>5. ASSUME NEW j \in 1 .. n
        PROVE  coded[j] = buffer[j]
    <2>1. j \in 1 .. Len(head)
      BY <1>1
    <2> QED
      BY <2>1, <1>1, <1>4
  <1>6. coded[n + 1] = f
    <2>1. n + 1 \in 1 .. Len(head)
      BY <1>1
    <2> QED
      BY <2>1, <1>1, <1>4
  <1>7. ASSUME NEW j \in n + 2 .. n + 1 + missing
        PROVE  coded[j].n = 0 /\ ~coded[j].muted
    <2>1. j \in Len(head) + 1 .. Len(head) + Len(tail)
      BY <1>1, <1>3
    <2>2. j - Len(head) \in 1 .. missing
      BY <1>1
    <2>3. coded[j] = Silence
      BY <2>1, <2>2, <1>3, <1>4
    <2> QED
      BY <2>3, <1>2
  <1>8. Len(coded) = n + 1 + missing
    BY <1>1, <1>3, <1>4
  <1> QED
    BY <1>4, <1>5, <1>6, <1>7, <1>8 DEF coded, head, tail, n

LEMMA OpusFits ==
    ASSUME NEW k \in InputRecords, NEW l \in Ledgers, Collected(k), Accounted(k, l),
           UsesOpus(k, server), NEW do \in BOOLEAN, k.lastTransmit \/ do,
           ~do \/ k.bufferedFrames + 1 = AudioPerPacket,
           NEW f \in FrameRecords, f.n = k.frameCounter + 1, do => ~f.muted,
           NEW p, p.sequence = k.frameCounter + 1 - AudioPerPacket, p.last = ~do,
           p.frames = Head(Append(k.frameList, Append(k.opusBuffer, f) \o
                               Padding(AudioPerPacket - (k.bufferedFrames + 1))))
    PROVE  Fit(p, k, l, do)
  <1> DEFINE b == k.bufferedFrames
             c == k.frameCounter
             missing == AudioPerPacket - (b + 1)
             coded == Append(k.opusBuffer, f) \o Padding(missing)
             due == Due(k, l, do)
  <1>1. /\ b \in Nat /\ c \in Nat /\ AudioPerPacket \in Nat \ {0} /\ missing \in Nat
        /\ k.opusBuffer \in Seq(FrameRecords) /\ k.frameList \in Seq(Seq(FrameRecords))
    BY PacketAssumption DEF InputRecords, Counts
  <1>2. do => missing = 0
    BY <1>1
  <1>3. /\ coded \in Seq(FrameRecords) /\ Len(coded) = Len(k.opusBuffer) + 1 + missing
        /\ \A j \in 1 .. Len(k.opusBuffer) : coded[j] = k.opusBuffer[j]
        /\ coded[Len(k.opusBuffer) + 1] = f
        /\ \A j \in Len(k.opusBuffer) + 2 .. Len(k.opusBuffer) + 1 + missing :
              coded[j].n = 0 /\ ~coded[j].muted
    <2> HIDE DEF missing
    <2> QED
      BY <1>1, CodedBlock
  <1>4. Len(due) = b + 1
    BY DueFrames
  <1> HIDE DEF missing, coded, due
  <1>5. p.frames = IF k.frameList = <<>> THEN coded ELSE k.frameList[1]
    <2>1. p.frames = Head(Append(k.frameList, coded))
      BY DEF coded, missing
    <2>2. coded \in Seq(FrameRecords)
      BY <1>3
    <2> QED
      BY <1>1, <2>1, <2>2, HeadOfAppended
  <1>6. /\ p.sequence \in Int /\ p.sequence < c + 1
        /\ do => p.sequence = c + 1 - AudioPerPacket
        /\ ~do => p.last
    <2>1. ~do => p.last
      OBVIOUS
    <2>2. /\ p.sequence \in Int /\ p.sequence < c + 1
          /\ do => p.sequence = c + 1 - AudioPerPacket
      BY <1>1
    <2> QED
      BY <2>1, <2>2
  <1>7. CASE k.frameList = <<>> /\ Len(k.opusBuffer) = b
    <2>1. p.frames = coded
      BY <1>5, <1>7
    <2>2. /\ Len(coded) = b + 1 + missing /\ coded[b + 1] = f
          /\ \A j \in 1 .. b : coded[j].n = c - b + j /\ ~coded[j].muted
          /\ \A j \in b + 2 .. Len(coded) : coded[j].n = 0 /\ ~coded[j].muted
      BY <1>3, <1>7 DEF Collected, InBuffer
    <2>3. ASSUME NEW j \in 1 .. b + 1
          PROVE  coded[j].n = c - b + j
      <3>1. CASE j = b + 1
        BY <3>1, <2>2, <1>1
      <3>2. CASE j \in 1 .. b
        BY <3>2, <2>2
      <3>3. j = b + 1 \/ j \in 1 .. b
        BY <1>1
      <3> QED
        BY <3>1, <3>2, <3>3
    <2>4. Whole(p, due, l.numbered)
      <3>1. missing # 0 => b + 1 + missing = AudioPerPacket /\ k.lastTransmit
        BY <1>1, <1>2 DEF missing
      <3>2. do \/ b + 1 + missing <= AudioPerPacket
        BY <1>1 DEF missing
      <3>3. p.sequence = c - b - missing
        BY <1>1 DEF missing
      <3>4. \A j \in b + 2 .. Len(coded) : coded[j].n = 0
        BY <2>2
      <3> HIDE DEF Whole
      <3> QED
        BY <1>1, <1>3, <2>1, <2>2, <2>3, <3>1, <3>2, <3>3, <3>4, WholeBlock DEF due
    <2>5. ASSUME NEW j \in DOMAIN p.frames, p.frames[j].muted
          PROVE  ~do /\ j = Len(due)
      <3>1. j \in 1 .. Len(coded)
        <4>1. DOMAIN coded = 1 .. Len(coded)
          BY <1>3
        <4> QED
          BY <4>1, <2>1, <2>5
      <3>2. j = b + 1
        <4>1. j \notin 1 .. b
          BY <2>1, <2>2, <2>5
        <4>2. j \notin b + 2 .. Len(coded)
          BY <2>1, <2>2, <2>5
        <4>3. Len(coded) \in Nat
          BY <2>2, <1>1
        <4> QED
          BY <3>1, <4>1, <4>2, <4>3, <1>1
      <3> QED
        BY <3>2, <2>1, <2>2, <2>5, <1>4
    <2>6. Unmuted(p, due, do)
      BY <2>5 DEF Unmuted
    <2> QED
      BY <2>4, <2>6, <1>6 DEF Fit, due
  <1>8. CASE k.frameList # <<>> /\ k.lastTransmit /\ l.misnamed
    <2>1. p.frames = k.frameList[1]
      BY <1>5, <1>8
    <2>2. p.frames \in Seq(FrameRecords) /\ Len(p.frames) = 1 /\ ~p.frames[1].muted
      <3>1. 1 \in 1 .. Len(k.frameList)
        BY <1>1, <1>8
      <3>2. Len(k.frameList[1]) = 1 /\ ~k.frameList[1][1].muted
        BY <3>1 DEF Collected, InList
      <3>3. k.frameList[1] \in Seq(FrameRecords)
        BY <1>1, <3>1
      <3> QED
        BY <2>1, <3>2, <3>3
    <2>3. Entry(k, l, do).misnamed
      BY <1>8, EntryTyped
    <2>4. Unmuted(p, due, do)
      <3> DEFINE g == p.frames
      <3>1. g \in Seq(FrameRecords) /\ Len(g) = 1 /\ ~g[1].muted
        BY <2>2
      <3> HIDE DEF g
      <3>2. \A j \in DOMAIN g : j = 1
        BY <3>1
      <3>3. \A j \in DOMAIN g : ~g[j].muted
        BY <3>1, <3>2
      <3> QED
        BY <3>3 DEF Unmuted, g
    <2> QED
      BY <2>3, <2>4, <1>6 DEF Fit, due
  <1> QED
    BY <1>7, <1>8, OpusPlace

LEMMA CeltFits ==
    ASSUME NEW k \in InputRecords, NEW l \in Ledgers, Collected(k), Accounted(k, l),
           ~UsesOpus(k, server), NEW do \in BOOLEAN, k.lastTransmit \/ do,
           ~do \/ k.bufferedFrames + 1 = AudioPerPacket,
           NEW f \in FrameRecords, f.n = k.frameCounter + 1, do => ~f.muted,
           NEW p, p.sequence = k.frameCounter + 1 - (k.bufferedFrames + 1),
           NEW list, list = Append(k.frameList, <<f>>),
           p.frames = IF NameWithCELT(k, server) = "opus" THEN Head(list) ELSE Joined(list)
    PROVE  Fit(p, k, l, do)
  <1> DEFINE b == k.bufferedFrames
             c == k.frameCounter
             due == Due(k, l, do)
  <1>1. /\ b \in Nat /\ c \in Nat /\ AudioPerPacket \in Nat \ {0}
        /\ b + 1 <= AudioPerPacket
        /\ k.frameList \in Seq(Seq(FrameRecords)) /\ <<f>> \in Seq(FrameRecords)
    BY PacketAssumption DEF InputRecords, Counts
  <1>2. /\ Len(k.frameList) = b
        /\ k.udpMessageType = "opus" => ~k.lastTransmit
        /\ \A j \in 1 .. b : k.frameList[j][1].n = c - b + j
    BY CeltPlace
  <1>3. /\ list \in Seq(Seq(FrameRecords)) /\ Len(list) = b + 1 /\ list[b + 1] = <<f>>
        /\ \A j \in 1 .. b : list[j] = k.frameList[j]
    BY <1>1, <1>2, Appending
  <1>4. Len(due) = b + 1
    BY DueFrames
  <1> HIDE DEF due
  <1>5. /\ p.sequence \in Int /\ p.sequence < c + 1
        /\ do => p.sequence = c + 1 - AudioPerPacket
    <2>1. p.sequence = c + 1 - (b + 1) /\ (do => b + 1 = AudioPerPacket)
      OBVIOUS
    <2> HIDE DEF b, c
    <2> QED
      BY ONLY <1>1, <2>1
  <1>6. CASE NameWithCELT(k, server) = "opus"
    <2>1. k.udpMessageType = "opus" /\ ~(k.connected /\ server.connected)
      BY <1>6 DEF NameWithCELT
    <2>2. ~k.lastTransmit /\ do /\ Misnames(k)
      BY <2>1, <1>2 DEF Misnames
    <2>3. b = 0
      BY <2>2 DEF Collected, Silent
    <2>4. p.frames = <<f>>
      BY <1>1, <1>3, <1>6, <2>3
    <2>5. Unmuted(p, due, do)
      BY <2>2, <2>4 DEF Unmuted
    <2>6. Entry(k, l, do).misnamed
      BY <2>2, EntryTyped
    <2> QED
      BY <2>2, <2>5, <2>6, <1>5 DEF Fit, due
  <1>7. CASE NameWithCELT(k, server) # "opus"
    <2> DEFINE frames == Joined(list)
    <2>1. p.frames = frames
      BY <1>7
    <2>2. frames = [j \in 1 .. b + 1 |-> Head(list[j])]
      BY <1>1, <1>3 DEF Joined
    <2> HIDE DEF frames
    <2>3. ASSUME NEW j \in 1 .. b + 1
          PROVE  /\ frames[j] \in FrameRecords /\ frames[j].n = c - b + j
                 /\ frames[j].muted => ~do /\ j = b + 1
      <3>1. CASE j = b + 1
        <4>1. frames[j] = f
          BY <3>1, <2>2, <1>1, <1>3
        <4>2. f.n = c + 1 /\ (do => ~f.muted) /\ f \in FrameRecords
          OBVIOUS
        <4>3. c - b + j = c + 1
          BY ONLY <1>1, <3>1
        <4> QED
          BY ONLY <3>1, <4>1, <4>2, <4>3
      <3>2. CASE j \in 1 .. b
        <4>1. Len(k.frameList[j]) = 1 /\ ~k.frameList[j][1].muted
          BY <3>2, <1>2 DEF Collected, InList
        <4>2. k.frameList[j] \in Seq(FrameRecords)
          BY <3>2, <1>1, <1>2
        <4>3. frames[j] = k.frameList[j][1] /\ frames[j] \in FrameRecords
          BY <3>2, <4>1, <4>2, <2>2, <1>3
        <4> QED
          BY <3>2, <4>1, <4>3, <1>2
      <3> QED
        BY <3>1, <3>2, <1>1
    <2>4. frames \in Seq(FrameRecords) /\ Len(frames) = b + 1
      <3> DEFINE n == b + 1
      <3>0. n \in Nat
        BY ONLY <1>1
      <3>1. frames = [j \in 1 .. n |-> frames[j]]
        <4> HIDE DEF n
        <4>1. frames = [j \in 1 .. n |-> Head(list[j])]
          BY <2>2 DEF n
        <4> QED
          BY <4>1
      <3>2. \A j \in 1 .. b + 1 : frames[j] \in FrameRecords
        BY <2>3
      <3> HIDE DEF n
      <3>3. \A j \in 1 .. n : frames[j] \in FrameRecords
        BY <3>2 DEF n
      <3>4. frames \in Seq(FrameRecords) /\ Len(frames) = n
        BY <3>0, <3>1, <3>3, SeqByIndex
      <3> QED
        BY <3>4 DEF n
    <2>5. Whole(p, due, l.numbered)
      <3> DEFINE none == 0
      <3>1. none \in Nat /\ Len(frames) = b + 1 + none /\ b + 1 + none <= AudioPerPacket
        BY ONLY <2>4, <1>1
      <3>2. p.sequence = c - b - none /\ none = 0
        BY <1>1
      <3>3. \A j \in b + 2 .. Len(frames) : frames[j].n = 0
        BY <2>4, <1>1
      <3>4. \A j \in 1 .. b + 1 : frames[j].n = c - b + j
        BY <2>3
      <3> HIDE DEF none, Whole
      <3> QED
        BY <2>1, <2>4, <3>1, <3>2, <3>3, <3>4, WholeBlock DEF due
    <2>6. Unmuted(p, due, do)
      BY <2>1, <2>3, <2>4, <1>4 DEF Unmuted
    <2>7. k.udpMessageType = "opus" => ~k.lastTransmit
      BY <1>2
    <2> QED
      BY <2>5, <2>6, <2>7, <1>5 DEF Fit, due
  <1> QED
    BY <1>6, <1>7

(* What a frame does, whichever way it goes.                                *)
Handled(k, l, r, do) ==
    /\ r.input \in InputRecords /\ r.input.fed = k.fed
    /\ r.input.frameCounter = k.frameCounter + 1 /\ r.input.lastTransmit = do
    /\ Collected(r.input)
    /\ \/ /\ r.packets = <<>> /\ Accounted(r.input, Entry(k, l, do))
          /\ k.lastTransmit => do
       \/ \E p : /\ r.packets = <<p>> /\ Fit(p, k, l, do)
                 /\ Accounted(r.input, Cleared(Entry(k, l, do), p.sequence))

LEMMA FrameHandled ==
    ASSUME NEW k \in InputRecords, NEW l \in Ledgers, Collected(k), Accounted(k, l),
           NEW level
    PROVE  Handled(k, l, ProcessAndEncode(k, level, server),
                   DoTransmit(Counted(k), level))
  <1> DEFINE do == DoTransmit(Counted(k), level)
             r == ProcessAndEncode(k, level, server)
             count == k.bufferedFrames + 1
             full == ~do \/ count = AudioPerPacket
             fo == Frame(Counted(k), "opus")
             fc == Frame(Counted(k), "celt")
             buffer == Append(k.opusBuffer, fo)
             coded == buffer \o Padding(AudioPerPacket - count)
             list == Append(k.frameList, <<fc>>)
             type == NameWithCELT(k, server)
             quiet == After(k, k.udpMessageType, k.bufferedFrames, k.opusBuffer,
                            k.frameList, FALSE)
             opusKept == After(k, "opus", count, buffer, k.frameList, TRUE)
             opusSent == After(k, "opus", 0, <<>>, <<>>, do)
             celtKept == After(k, type, count, k.opusBuffer, list, TRUE)
             celtSent == After(k, type, 0, k.opusBuffer, <<>>, do)
             po == [type |-> "opus", sequence |-> k.frameCounter + 1 - AudioPerPacket,
                    frames |-> Head(Append(k.frameList, coded)), last |-> ~do]
             pc == [type |-> type, sequence |-> k.frameCounter + 1 - count,
                    frames |-> IF type = "opus" THEN Head(list) ELSE Joined(list),
                    last |-> ~do /\ type = "opus"]
  <1>1. /\ do \in BOOLEAN
        /\ do => k.flags = {}
    <2>1. do \in BOOLEAN /\ (do => Counted(k).flags = {})
      BY DecisionTyped
    <2> HIDE DEF do
    <2> QED
      BY <2>1, CountedTyped
  <1>2. /\ k.bufferedFrames \in Nat /\ count <= AudioPerPacket /\ 0 \in Counts
        /\ k.bufferedFrames \in Counts /\ k.udpMessageType \in MessageTypes
        /\ k.opusBuffer \in Seq(FrameRecords) /\ k.frameList \in Seq(Seq(FrameRecords))
    BY PacketAssumption DEF InputRecords, Counts
  <1>3. /\ fo \in FrameRecords /\ fo.n = k.frameCounter + 1
        /\ fc \in FrameRecords /\ fc.n = k.frameCounter + 1
        /\ do => ~fo.muted /\ ~fc.muted
    <2> HIDE DEF do
    <2> QED
      BY <1>1, TakenFrame
  <1>4. /\ buffer \in Seq(FrameRecords) /\ list \in Seq(Seq(FrameRecords))
        /\ <<>> \in Seq(FrameRecords) /\ <<>> \in Seq(Seq(FrameRecords))
    <2> HIDE DEF fo, fc
    <2>1. <<fc>> \in Seq(FrameRecords)
      BY <1>3
    <2> QED
      BY <1>2, <1>3, <2>1, Appending
  <1>5. type \in MessageTypes
    BY <1>2 DEF NameWithCELT, MessageTypes
  <1>6. \/ ~k.lastTransmit /\ ~do /\ r = [input |-> quiet, packets |-> <<>>]
        \/ /\ k.lastTransmit \/ do
           /\ UsesOpus(k, server) /\ ~full /\ r = [input |-> opusKept, packets |-> <<>>]
        \/ /\ k.lastTransmit \/ do
           /\ UsesOpus(k, server) /\ full /\ r = [input |-> opusSent, packets |-> <<po>>]
        \/ /\ k.lastTransmit \/ do
           /\ ~UsesOpus(k, server) /\ ~full /\ r = [input |-> celtKept, packets |-> <<>>]
        \/ /\ k.lastTransmit \/ do
           /\ ~UsesOpus(k, server) /\ full /\ r = [input |-> celtSent, packets |-> <<pc>>]
    BY Outcomes
  <1>7. ~full => do /\ count < AudioPerPacket /\ count \in Counts /\ k.flags = {}
    BY <1>1, <1>2, PacketAssumption DEF Counts
  <1>8. full => ~do \/ k.bufferedFrames + 1 = AudioPerPacket
    OBVIOUS
  <1>9. /\ pc.sequence = k.frameCounter + 1 - (k.bufferedFrames + 1)
        /\ pc.frames = IF type = "opus" THEN Head(list) ELSE Joined(list)
        /\ po.sequence = k.frameCounter + 1 - AudioPerPacket /\ po.last = ~do
        /\ po.frames = Head(Append(k.frameList, Append(k.opusBuffer, fo) \o
                               Padding(AudioPerPacket - (k.bufferedFrames + 1))))
    <2> HIDE DEF do, fo, fc, type
    <2> QED
      OBVIOUS
  <1> HIDE DEF do, r, full, fo, fc, quiet, opusKept, opusSent, celtKept, celtSent, po, pc,
              type
  <1>a. CASE ~k.lastTransmit /\ ~do /\ r = [input |-> quiet, packets |-> <<>>]
    <2>1. /\ quiet \in InputRecords
          /\ quiet.frameCounter = k.frameCounter + 1
          /\ quiet.bufferedFrames = k.bufferedFrames /\ quiet.opusBuffer = k.opusBuffer
          /\ quiet.frameList = k.frameList /\ quiet.lastTransmit = FALSE
          /\ quiet.fed = k.fed
      <3>1. IsAfter(quiet, k, k.udpMessageType, k.bufferedFrames, k.opusBuffer,
                    k.frameList, FALSE)
        <4> HIDE DEF count, buffer, list
        <4> QED
          BY <1>2, AfterTyped DEF quiet
      <3> QED
        BY <3>1 DEF IsAfter
    <2>2. Collected(quiet) /\ Accounted(quiet, Entry(k, l, FALSE))
      BY <1>a, <2>1, Quiet
    <2>3. do = FALSE
      BY <1>1, <1>a
    <2>4. Handled(k, l, r, FALSE)
      BY <1>a, <2>1, <2>2 DEF Handled
    <2> QED
      BY <2>3, <2>4 DEF r, do
  <1>b. CASE /\ k.lastTransmit \/ do
             /\ UsesOpus(k, server) /\ ~full /\ r = [input |-> opusKept, packets |-> <<>>]
    <2>1. /\ opusKept \in InputRecords
          /\ opusKept.frameCounter = k.frameCounter + 1
          /\ opusKept.bufferedFrames = k.bufferedFrames + 1
          /\ opusKept.udpMessageType = "opus"
          /\ opusKept.opusBuffer = Append(k.opusBuffer, fo)
          /\ opusKept.frameList = k.frameList /\ opusKept.lastTransmit = TRUE
          /\ opusKept.fed = k.fed
      <3>0. count \in Counts /\ "opus" \in MessageTypes
        BY <1>b, <1>7 DEF MessageTypes
      <3>1. IsAfter(opusKept, k, "opus", count, buffer, k.frameList, TRUE)
        <4> HIDE DEF count, buffer, list
        <4> QED
          BY <1>2, <1>4, <3>0, AfterTyped DEF opusKept
      <3> QED
        BY <3>1 DEF IsAfter
    <2>2. do = TRUE
      BY <1>1, <1>b, <1>7
    <2>3. Collected(opusKept) /\ Accounted(opusKept, Entry(k, l, TRUE))
      BY <1>b, <1>3, <2>1, <2>2, OpusKeeps
    <2>4. Handled(k, l, r, TRUE)
      BY <1>b, <2>1, <2>3 DEF Handled
    <2> QED
      BY <2>2, <2>4 DEF r, do
  <1>c. CASE /\ k.lastTransmit \/ do
             /\ UsesOpus(k, server) /\ full /\ r = [input |-> opusSent, packets |-> <<po>>]
    <2>1. /\ opusSent \in InputRecords
          /\ opusSent.frameCounter = k.frameCounter + 1
          /\ opusSent.bufferedFrames = 0 /\ opusSent.opusBuffer = <<>>
          /\ opusSent.frameList = <<>> /\ opusSent.lastTransmit = do
          /\ opusSent.fed = k.fed
      <3>0. "opus" \in MessageTypes
        BY DEF MessageTypes
      <3>1. IsAfter(opusSent, k, "opus", 0, <<>>, <<>>, do)
        <4> HIDE DEF count, buffer, list
        <4> QED
          BY <1>1, <1>2, <1>4, <3>0, AfterTyped DEF opusSent
      <3> QED
        BY <3>1 DEF IsAfter
    <2>2. Fit(po, k, l, do)
      BY <1>c, <1>1, <1>3, <1>8, <1>9, OpusFits
    <2>3. Collected(opusSent) /\ Accounted(opusSent, Cleared(Entry(k, l, do), po.sequence))
      BY <1>1, <2>1, <2>2, Flushing
    <2>4. Handled(k, l, r, do)
      BY <1>c, <2>1, <2>2, <2>3 DEF Handled
    <2> QED
      BY <2>4 DEF r, do
  <1>d. CASE /\ k.lastTransmit \/ do
             /\ ~UsesOpus(k, server) /\ ~full /\ r = [input |-> celtKept, packets |-> <<>>]
    <2>1. /\ celtKept \in InputRecords
          /\ celtKept.frameCounter = k.frameCounter + 1
          /\ celtKept.bufferedFrames = k.bufferedFrames + 1
          /\ celtKept.udpMessageType = type
          /\ celtKept.opusBuffer = k.opusBuffer
          /\ celtKept.frameList = Append(k.frameList, <<fc>>) /\ celtKept.lastTransmit = TRUE
          /\ celtKept.fed = k.fed
      <3>0. count \in Counts
        BY <1>d, <1>7
      <3>1. IsAfter(celtKept, k, type, count, k.opusBuffer, list, TRUE)
        <4> HIDE DEF count, buffer, list
        <4> QED
          BY <1>2, <1>4, <1>5, <3>0, AfterTyped DEF celtKept
      <3> QED
        BY <3>1 DEF IsAfter
    <2>2. do = TRUE
      BY <1>1, <1>d, <1>7
    <2>3. Collected(celtKept) /\ Accounted(celtKept, Entry(k, l, TRUE))
      BY <1>d, <1>3, <2>1, <2>2, CeltKeeps DEF type
    <2>4. Handled(k, l, r, TRUE)
      BY <1>d, <2>1, <2>3 DEF Handled
    <2> QED
      BY <2>2, <2>4 DEF r, do
  <1>e. CASE /\ k.lastTransmit \/ do
             /\ ~UsesOpus(k, server) /\ full /\ r = [input |-> celtSent, packets |-> <<pc>>]
    <2>1. /\ celtSent \in InputRecords
          /\ celtSent.frameCounter = k.frameCounter + 1
          /\ celtSent.bufferedFrames = 0 /\ celtSent.opusBuffer = k.opusBuffer
          /\ celtSent.frameList = <<>> /\ celtSent.lastTransmit = do
          /\ celtSent.fed = k.fed
      <3>1. IsAfter(celtSent, k, type, 0, k.opusBuffer, <<>>, do)
        <4> HIDE DEF count, buffer, list
        <4> QED
          BY <1>1, <1>2, <1>4, <1>5, AfterTyped DEF celtSent
      <3> QED
        BY <3>1 DEF IsAfter
    <2>2. Fit(pc, k, l, do)
      BY <1>e, <1>1, <1>3, <1>8, <1>9, CeltFits DEF type
    <2>3. celtSent.opusBuffer = <<>>
      BY <1>e, <2>1, CeltPlace
    <2>4. Collected(celtSent) /\ Accounted(celtSent, Cleared(Entry(k, l, do), pc.sequence))
      BY <1>1, <2>1, <2>2, <2>3, Flushing
    <2>5. Handled(k, l, r, do)
      BY <1>e, <2>1, <2>2, <2>4 DEF Handled
    <2> QED
      BY <2>5 DEF r, do
  <1> QED
    BY <1>6, <1>a, <1>b, <1>c, <1>d, <1>e

--------------------------------------------------------------------------------
(* What the other operations do to the inputs.                              *)

LEMMA NewInputIsSound ==
    ASSUME NEW t \in TransmitTypes, NEW c \in BOOLEAN
    PROVE  /\ NewInput(t, c) \in InputRecords /\ NewLedger \in Ledgers
           /\ Collected(NewInput(t, c)) /\ Accounted(NewInput(t, c), NewLedger)
           /\ NewInput(t, c).fed = TRUE
  <1> DEFINE k == NewInput(t, c)
  <1>1. /\ k.frameCounter = 0 /\ k.bufferedFrames = 0 /\ k.opusBuffer = <<>>
        /\ k.frameList = <<>> /\ k.lastTransmit = FALSE /\ k.fed = TRUE
        /\ k.udpMessageType = "none"
    BY DEF NewInput
  <1>2. NewInput(t, c) \in InputRecords
    <2>1. 0 \in Counts /\ {} \in FlagSets /\ "none" \in MessageTypes /\ 0 \in Nat
      BY PacketAssumption DEF Counts, FlagSets, MessageTypes
    <2>2. <<>> \in Seq(FrameRecords) /\ <<>> \in Seq(Seq(FrameRecords))
      OBVIOUS
    <2> QED
      BY <2>1, <2>2 DEF NewInput, InputRecords
  <1>3. /\ NewLedger \in Ledgers /\ NewLedger.owed = <<>> /\ NewLedger.numbered = -1
    BY DEF NewLedger, Ledgers
  <1> HIDE DEF k
  <1>4. Collected(k)
    <2>1. Len(k.opusBuffer) = 0 /\ Len(k.frameList) = 0
      BY <1>1
    <2>2. InBuffer(k) /\ InList(k) /\ OnePlace(k) /\ Silent(k)
      BY <1>1, <2>1 DEF InBuffer, InList, OnePlace, Silent
    <2> QED
      BY <2>2 DEF Collected
  <1>5. Accounted(k, NewLedger)
    <2>1. <<>> = LastFrames(0, 0)
      BY DEF LastFrames
    <2> QED
      BY <1>1, <1>3, <2>1 DEF Accounted
  <1> QED
    BY <1>1, <1>2, <1>3, <1>4, <1>5 DEF k

(* An input of which nothing that has been collected changes.               *)
Alike(nk, k) ==
    /\ nk \in InputRecords
    /\ nk.frameCounter = k.frameCounter /\ nk.bufferedFrames = k.bufferedFrames
    /\ nk.opusBuffer = k.opusBuffer /\ nk.frameList = k.frameList
    /\ nk.udpMessageType = k.udpMessageType /\ nk.lastTransmit = k.lastTransmit

LEMMA AlikeIsSound ==
    ASSUME NEW k, NEW nk, NEW l, Alike(nk, k), Collected(k), Accounted(k, l)
    PROVE  Collected(nk) /\ Accounted(nk, l)
  <1>1. Collected(nk)
    BY DEF Alike, Collected, InBuffer, InList, OnePlace, Silent
  <1> QED
    BY <1>1 DEF Alike, Accounted

LEMMA ReleasedIsSound ==
    /\ Released \in InputRecords /\ NewLedger \in Ledgers
    /\ Collected(Released) /\ Accounted(Released, NewLedger) /\ Released.fed = FALSE
  <1> DEFINE k == NewInput("vad", FALSE)
  <1>1. "vad" \in TransmitTypes
    BY DEF TransmitTypes
  <1>2. k \in InputRecords /\ Collected(k) /\ Accounted(k, NewLedger) /\ NewLedger \in Ledgers
    BY <1>1, NewInputIsSound
  <1>3. Released = [k EXCEPT !.fed = FALSE]
    BY DEF Released
  <1> HIDE DEF k
  <1>4. Released \in InputRecords
    BY <1>2, <1>3 DEF InputRecords
  <1>5. Alike(Released, k) /\ Released.fed = FALSE
    BY <1>2, <1>3, <1>4 DEF Alike, InputRecords
  <1> QED
    BY <1>2, <1>4, <1>5, AlikeIsSound

LEMMA StoppedIsSound ==
    ASSUME Sound(inputs, ledger)
    PROVE  LET ins == Stopped(inputs, Released)
               led == Stopped(ledger, NewLedger)
           IN  /\ Sound(ins, led) /\ Len(ins) = Len(inputs)
               /\ \A i \in 1 .. Len(inputs) :
                     ins[i] = IF i = current THEN Released ELSE inputs[i]
  <1> DEFINE ins == Stopped(inputs, Released)
             led == Stopped(ledger, NewLedger)
             n == Len(inputs)
  <1>1. /\ inputs \in Seq(InputRecords) /\ ledger \in Seq(Ledgers)
        /\ Len(ledger) = n /\ n \in Nat
        /\ \A i \in 1 .. n : Collected(inputs[i]) /\ Accounted(inputs[i], ledger[i])
    BY DEF Sound
  <1>2. /\ ins = [i \in 1 .. n |-> IF i = current THEN Released ELSE inputs[i]]
        /\ led = [i \in 1 .. n |-> IF i = current THEN NewLedger ELSE ledger[i]]
    BY <1>1 DEF Stopped
  <1> HIDE DEF ins, led, n
  <1>3. \A i \in 1 .. n :
          /\ ins[i] = IF i = current THEN Released ELSE inputs[i]
          /\ led[i] = IF i = current THEN NewLedger ELSE ledger[i]
    BY <1>2
  <1>4. \A i \in 1 .. n : inputs[i] \in InputRecords /\ ledger[i] \in Ledgers
    BY <1>1 DEF n
  <1>5. \A i \in 1 .. n : /\ ins[i] \in InputRecords /\ led[i] \in Ledgers
                          /\ Collected(ins[i]) /\ Accounted(ins[i], led[i])
    BY <1>1, <1>3, <1>4, ReleasedIsSound
  <1>6. ins = [i \in 1 .. n |-> ins[i]] /\ led = [i \in 1 .. n |-> led[i]]
    BY <1>2
  <1>7. ins \in Seq(InputRecords) /\ Len(ins) = n /\ led \in Seq(Ledgers) /\ Len(led) = n
    BY <1>1, <1>5, <1>6, SeqByIndex
  <1>8. Sound(ins, led)
    BY <1>5, <1>7 DEF Sound
  <1> QED
    BY <1>3, <1>7, <1>8 DEF ins, led, n

LEMMA StartedIsSound ==
    ASSUME NEW ins, NEW led, Sound(ins, led),
           NEW t \in TransmitTypes, NEW c \in BOOLEAN
    PROVE  /\ Sound(Append(ins, NewInput(t, c)), Append(led, NewLedger))
           /\ Len(Append(ins, NewInput(t, c))) = Len(ins) + 1
           /\ \A i \in 1 .. Len(ins) : Append(ins, NewInput(t, c))[i] = ins[i]
  <1> DEFINE k == NewInput(t, c)
             n == Len(ins)
             ins1 == Append(ins, k)
             led1 == Append(led, NewLedger)
  <1>1. /\ ins \in Seq(InputRecords) /\ led \in Seq(Ledgers) /\ Len(led) = n /\ n \in Nat
        /\ \A i \in 1 .. n : Collected(ins[i]) /\ Accounted(ins[i], led[i])
    BY DEF Sound
  <1>2. /\ k \in InputRecords /\ NewLedger \in Ledgers
        /\ Collected(k) /\ Accounted(k, NewLedger)
    BY NewInputIsSound
  <1> HIDE DEF k, n
  <1>3. /\ ins1 \in Seq(InputRecords) /\ Len(ins1) = n + 1 /\ ins1[n + 1] = k
        /\ \A i \in 1 .. n : ins1[i] = ins[i]
    BY <1>1, <1>2, Appending DEF n
  <1>4. /\ led1 \in Seq(Ledgers) /\ Len(led1) = n + 1 /\ led1[n + 1] = NewLedger
        /\ \A i \in 1 .. n : led1[i] = led[i]
    BY <1>1, <1>2, Appending
  <1> HIDE DEF ins1, led1
  <1>5. ASSUME NEW i \in 1 .. n + 1
        PROVE  Collected(ins1[i]) /\ Accounted(ins1[i], led1[i])
    <2>1. CASE i = n + 1
      BY <2>1, <1>2, <1>3, <1>4
    <2>2. CASE i \in 1 .. n
      BY <2>2, <1>1, <1>3, <1>4
    <2>3. i = n + 1 \/ i \in 1 .. n
      BY <1>1
    <2> QED
      BY <2>1, <2>2, <2>3
  <1>6. Sound(ins1, led1)
    BY <1>3, <1>4, <1>5 DEF Sound
  <1> QED
    BY <1>3, <1>6 DEF ins1, led1, k, n

LEMMA AlikeAreSound ==
    ASSUME Sound(inputs, ledger), NEW ins, ins = [i \in DOMAIN inputs |-> ins[i]],
           \A i \in DOMAIN inputs : Alike(ins[i], inputs[i])
    PROVE  Sound(ins, ledger) /\ Len(ins) = Len(inputs)
  <1> DEFINE n == Len(inputs)
  <1>1. /\ inputs \in Seq(InputRecords) /\ ledger \in Seq(Ledgers)
        /\ Len(ledger) = n /\ n \in Nat /\ DOMAIN inputs = 1 .. n
        /\ \A i \in 1 .. n : Collected(inputs[i]) /\ Accounted(inputs[i], ledger[i])
    BY DEF Sound
  <1> HIDE DEF n
  <1>2. ins = [i \in 1 .. n |-> ins[i]] /\ \A i \in 1 .. n : Alike(ins[i], inputs[i])
    BY <1>1
  <1>3. \A i \in 1 .. n : ins[i] \in InputRecords
    BY <1>2 DEF Alike
  <1>4. ins \in Seq(InputRecords) /\ Len(ins) = n
    BY <1>1, <1>2, <1>3, SeqByIndex
  <1>5. \A i \in 1 .. n : Collected(ins[i]) /\ Accounted(ins[i], ledger[i])
    BY <1>1, <1>2, AlikeIsSound
  <1> QED
    BY <1>1, <1>4, <1>5 DEF Sound, n

--------------------------------------------------------------------------------
(* The invariant is kept by every step.                                     *)

(* A step that sends nothing.                                               *)
LEMMA KeptInSilence ==
    Typed' /\ Sound(inputs, ledger)' /\ sent' = <<>> => IInv'
  BY DEF IInv, PacketsAreWhole, MutedSaysNothing

LEMMA InitIInv == Init => IInv
  <1> SUFFICES ASSUME Init
               PROVE  IInv
    OBVIOUS
  <1>1. Typed
    <2>1. current \in 0 .. Len(inputs)
      BY DEF Init
    <2>2. server \in [connected : BOOLEAN, opus : BOOLEAN]
      BY DEF Init
    <2>3. settings \in TransmitTypes /\ connection \in BOOLEAN /\ interrupted \in BOOLEAN
      BY AudioAssumption DEF Init
    <2> QED
      BY <2>1, <2>2, <2>3 DEF Typed
  <1>2. Sound(inputs, ledger)
    BY DEF Init, Sound
  <1> QED
    BY <1>1, <1>2 DEF Init, IInv, PacketsAreWhole, MutedSaysNothing

(* The frame of an input, with what it does to that input's ledger.         *)
LEMMA FrameStep ==
    ASSUME IInv, NEW i \in DOMAIN inputs, MicrophoneFrame(i)
    PROVE  \E level \in Levels :
             LET k == inputs[i]
                 l == ledger[i]
                 r == ProcessAndEncode(k, level, server)
                 do == DoTransmit(Counted(k), level)
             IN  /\ k \in InputRecords /\ l \in Ledgers /\ do \in BOOLEAN
                 /\ Handled(k, l, r, do) /\ inputs' = [inputs EXCEPT ![i] = r.input]
                 /\ \/ /\ r.packets = <<>> /\ sent' = <<>>
                       /\ ledger' = [ledger EXCEPT ![i] = Entry(k, l, do)]
                    \/ \E p : /\ r.packets = <<p>>
                              /\ ledger' = [ledger EXCEPT ![i] =
                                               Cleared(Entry(k, l, do), p.sequence)]
                              /\ sent' = <<[by |-> i, packet |-> p,
                                            due |-> Due(k, l, do), before |-> l.numbered,
                                            heard |-> k.connected]>>
  <1>1. PICK level \in Levels :
          LET k == inputs[i]
              r == ProcessAndEncode(k, level, server)
              due == IF k.lastTransmit \/ r.input.lastTransmit
                     THEN Append(ledger[i].owed, r.input.frameCounter)
                     ELSE ledger[i].owed
              entry == [ledger[i] EXCEPT !.owed = due,
                            !.misnamed = IF k.lastTransmit THEN @ ELSE Misnames(k)]
          IN  /\ inputs' = [inputs EXCEPT ![i] = r.input]
              /\ IF r.packets = <<>>
                 THEN /\ ledger' = [ledger EXCEPT ![i] = entry]
                      /\ sent' = <<>>
                 ELSE LET p == Head(r.packets)
                      IN  /\ ledger' = [ledger EXCEPT ![i] =
                                [entry EXCEPT !.owed = <<>>, !.numbered = p.sequence]]
                          /\ sent' = <<[by |-> i, packet |-> p, due |-> due,
                                        before |-> entry.numbered,
                                        heard |-> k.connected]>>
    BY DEF MicrophoneFrame
  <1> DEFINE k == inputs[i]
             l == ledger[i]
             r == ProcessAndEncode(k, level, server)
             do == DoTransmit(Counted(k), level)
             due == IF k.lastTransmit \/ r.input.lastTransmit
                    THEN Append(l.owed, r.input.frameCounter) ELSE l.owed
             entry == [l EXCEPT !.owed = due,
                           !.misnamed = IF k.lastTransmit THEN @ ELSE Misnames(k)]
  <1>2. /\ k \in InputRecords /\ l \in Ledgers /\ Collected(k) /\ Accounted(k, l)
        /\ do \in BOOLEAN
    BY DecisionTyped DEF IInv, Sound
  <1>3. Handled(k, l, r, do)
    BY <1>2, FrameHandled
  <1>4. inputs' = [inputs EXCEPT ![i] = r.input]
    BY <1>1
  <1>5. IF r.packets = <<>>
        THEN ledger' = [ledger EXCEPT ![i] = entry] /\ sent' = <<>>
        ELSE /\ ledger' = [ledger EXCEPT ![i] =
                   [entry EXCEPT !.owed = <<>>, !.numbered = Head(r.packets).sequence]]
             /\ sent' = <<[by |-> i, packet |-> Head(r.packets), due |-> due,
                           before |-> entry.numbered, heard |-> k.connected]>>
    BY <1>1
  <1> HIDE DEF k, l, r, do
  <1>6. due = Due(k, l, do)
    BY <1>3 DEF Handled, Due
  <1>7. entry = Entry(k, l, do) /\ entry.numbered = l.numbered
    BY <1>2, <1>6 DEF Entry, Ledgers
  <1> HIDE DEF due, entry
  <1>8. CASE r.packets = <<>>
    <2>1. ledger' = [ledger EXCEPT ![i] = Entry(k, l, do)] /\ sent' = <<>>
      BY <1>5, <1>7, <1>8
    <2> QED
      BY <2>1, <1>2, <1>3, <1>4, <1>8 DEF k, l, r, do
  <1>9. CASE r.packets # <<>>
    <2>1. PICK p : r.packets = <<p>>
      BY <1>3, <1>9 DEF Handled
    <2>2. Head(r.packets) = p
      BY <2>1
    <2>3. ledger' = [ledger EXCEPT ![i] = Cleared(Entry(k, l, do), p.sequence)]
      BY <1>5, <1>7, <1>9, <2>2 DEF Cleared
    <2>4. sent' = <<[by |-> i, packet |-> p, due |-> Due(k, l, do),
                     before |-> l.numbered, heard |-> k.connected]>>
      BY <1>5, <1>6, <1>7, <1>9, <2>2
    <2> QED
      BY <2>1, <2>3, <2>4, <1>2, <1>3, <1>4 DEF k, l, r, do
  <1> QED
    BY <1>8, <1>9

(* One input and its ledger are replaced.                                   *)
LEMMA ReplacedIsSound ==
    ASSUME Sound(inputs, ledger), NEW i \in DOMAIN inputs,
           NEW nk \in InputRecords, NEW nl \in Ledgers, Collected(nk), Accounted(nk, nl)
    PROVE  /\ Sound([inputs EXCEPT ![i] = nk], [ledger EXCEPT ![i] = nl])
           /\ Len([inputs EXCEPT ![i] = nk]) = Len(inputs)
  <1> DEFINE ins == [inputs EXCEPT ![i] = nk]
             led == [ledger EXCEPT ![i] = nl]
  <1>1. /\ inputs \in Seq(InputRecords) /\ ledger \in Seq(Ledgers)
        /\ Len(ledger) = Len(inputs) /\ i \in 1 .. Len(inputs)
        /\ \A j \in 1 .. Len(inputs) : Collected(inputs[j]) /\ Accounted(inputs[j], ledger[j])
    BY DEF Sound
  <1>2. /\ ins \in Seq(InputRecords) /\ Len(ins) = Len(inputs)
        /\ led \in Seq(Ledgers) /\ Len(led) = Len(inputs)
        /\ \A j \in 1 .. Len(inputs) :
              /\ ins[j] = IF j = i THEN nk ELSE inputs[j]
              /\ led[j] = IF j = i THEN nl ELSE ledger[j]
    BY <1>1
  <1> HIDE DEF ins, led
  <1>3. \A j \in 1 .. Len(ins) : Collected(ins[j]) /\ Accounted(ins[j], led[j])
    BY <1>1, <1>2
  <1> QED
    BY <1>2, <1>3 DEF Sound, ins, led

LEMMA MicrophoneFrameIInv ==
    ASSUME IInv, NEW i \in DOMAIN inputs, MicrophoneFrame(i)
    PROVE  IInv'
  <1>1. PICK level \in Levels :
             LET k == inputs[i]
                 l == ledger[i]
                 r == ProcessAndEncode(k, level, server)
                 do == DoTransmit(Counted(k), level)
             IN  /\ k \in InputRecords /\ l \in Ledgers /\ do \in BOOLEAN
                 /\ Handled(k, l, r, do) /\ inputs' = [inputs EXCEPT ![i] = r.input]
                 /\ \/ /\ r.packets = <<>> /\ sent' = <<>>
                       /\ ledger' = [ledger EXCEPT ![i] = Entry(k, l, do)]
                    \/ \E p : /\ r.packets = <<p>>
                              /\ ledger' = [ledger EXCEPT ![i] =
                                               Cleared(Entry(k, l, do), p.sequence)]
                              /\ sent' = <<[by |-> i, packet |-> p,
                                            due |-> Due(k, l, do), before |-> l.numbered,
                                            heard |-> k.connected]>>
    BY FrameStep
  <1> DEFINE k == inputs[i]
             l == ledger[i]
             r == ProcessAndEncode(k, level, server)
             do == DoTransmit(Counted(k), level)
  <1>2. /\ k \in InputRecords /\ l \in Ledgers /\ do \in BOOLEAN
        /\ Handled(k, l, r, do) /\ inputs' = [inputs EXCEPT ![i] = r.input]
        /\ \/ /\ r.packets = <<>> /\ sent' = <<>>
              /\ ledger' = [ledger EXCEPT ![i] = Entry(k, l, do)]
           \/ \E p : /\ r.packets = <<p>>
                     /\ ledger' = [ledger EXCEPT ![i] = Cleared(Entry(k, l, do), p.sequence)]
                     /\ sent' = <<[by |-> i, packet |-> p, due |-> Due(k, l, do),
                                   before |-> l.numbered, heard |-> k.connected]>>
    BY <1>1
  <1> HIDE DEF k, l, r, do
  <1>3. /\ r.input \in InputRecords /\ Collected(r.input) /\ r.input.lastTransmit = do
        /\ \/ r.packets = <<>> /\ Accounted(r.input, Entry(k, l, do))
           \/ \E p : /\ r.packets = <<p>> /\ Fit(p, k, l, do)
                     /\ Accounted(r.input, Cleared(Entry(k, l, do), p.sequence))
    BY <1>2 DEF Handled
  <1>4. Entry(k, l, do) \in Ledgers
    BY <1>2, EntryTyped
  <1>5. Sound(inputs, ledger) /\ Typed
    BY DEF IInv
  <1>6. ASSUME Len(inputs') = Len(inputs)
        PROVE  Typed'
    BY <1>5, <1>6 DEF Typed, MicrophoneFrame, engine
  <1>7. CASE r.packets = <<>>
    <2>1. /\ sent' = <<>> /\ ledger' = [ledger EXCEPT ![i] = Entry(k, l, do)]
          /\ Accounted(r.input, Entry(k, l, do))
      BY <1>2, <1>3, <1>7
    <2>2. Sound(inputs', ledger') /\ Len(inputs') = Len(inputs)
      BY <1>2, <1>3, <1>4, <1>5, <2>1, ReplacedIsSound
    <2> QED
      BY <1>6, <2>1, <2>2, KeptInSilence
  <1>8. CASE r.packets # <<>>
    <2>1. PICK p :
            /\ r.packets = <<p>>
            /\ ledger' = [ledger EXCEPT ![i] = Cleared(Entry(k, l, do), p.sequence)]
            /\ sent' = <<[by |-> i, packet |-> p, due |-> Due(k, l, do),
                          before |-> l.numbered, heard |-> k.connected]>>
      BY <1>2, <1>8
    <2>2. Fit(p, k, l, do) /\ Accounted(r.input, Cleared(Entry(k, l, do), p.sequence))
      BY <1>3, <1>8, <2>1
    <2> DEFINE cleared == Cleared(Entry(k, l, do), p.sequence)
    <2>3. cleared \in Ledgers /\ cleared.misnamed = Entry(k, l, do).misnamed
      BY <1>4, <2>2, ClearedTyped DEF Fit
    <2>4. Sound(inputs', ledger') /\ Len(inputs') = Len(inputs)
      BY <1>2, <1>3, <1>5, <2>1, <2>2, <2>3, ReplacedIsSound
    <2>5. i \in 1 .. Len(ledger) /\ inputs'[i] = r.input /\ ledger'[i] = cleared
      BY <1>2, <1>5, <2>1 DEF Sound
    <2> HIDE DEF cleared
    <2>6. /\ Head(sent').by = i /\ Head(sent').packet = p
          /\ Head(sent').due = Due(k, l, do) /\ Head(sent').before = l.numbered
      BY <2>1
    <2>7. PacketsAreWhole'
      <3>1. ~cleared.misnamed => Whole(p, Due(k, l, do), l.numbered)
        BY <2>2, <2>3 DEF Fit
      <3> QED
        BY <2>5, <2>6, <3>1 DEF PacketsAreWhole, Whole
    <2>8. MutedSaysNothing'
      <3>1. Unmuted(p, Due(k, l, do), do)
        BY <2>2 DEF Fit
      <3> QED
        BY <1>3, <2>5, <2>6, <3>1 DEF MutedSaysNothing, Unmuted
    <2> QED
      BY <1>6, <2>4, <2>7, <2>8 DEF IInv
  <1> QED
    BY <1>7, <1>8

LEMMA StopIInv ==
    ASSUME IInv, Stop, settings' = settings, interrupted' \in BOOLEAN
    PROVE  IInv'
  <1>1. Sound(inputs', ledger') /\ Len(inputs') = Len(inputs)
    BY StoppedIsSound DEF IInv, Stop
  <1>2. Typed'
    <2>1. current' \in 0 .. Len(inputs')
      BY <1>1 DEF IInv, Sound, Stop
    <2> QED
      BY <2>1 DEF IInv, Typed, Stop
  <1> QED
    BY <1>1, <1>2, KeptInSilence DEF Stop

LEMMA StartIInv ==
    ASSUME IInv, NEW ins, NEW led, Sound(ins, led), Started(ins, led),
           settings' \in TransmitTypes, interrupted' \in BOOLEAN
    PROVE  IInv'
  <1>1. connection \in BOOLEAN
    BY DEF IInv, Typed
  <1>2. Sound(inputs', ledger') /\ Len(inputs') = Len(ins) + 1 /\ Len(ins) \in Nat
    BY <1>1, StartedIsSound DEF Started, Sound
  <1>3. Typed'
    <2>1. current' \in 0 .. Len(inputs')
      BY <1>2 DEF Started
    <2> QED
      BY <2>1 DEF IInv, Typed, Started
  <1> QED
    BY <1>2, <1>3, KeptInSilence DEF Started

(* One field of the current input that has nothing to do with what it       *)
(* collects.                                                                *)
LEMMA TellIInv ==
    ASSUME IInv, NEW field, NEW value, Tell(field, value), NothingSent,
           \/ field = "flags" /\ value \in FlagSets
           \/ field = "forceTransmit" /\ value \in BOOLEAN
           \/ field = "connected" /\ value \in BOOLEAN,
           current' = current, settings' = settings, interrupted' = interrupted,
           connection' \in BOOLEAN,
           server' \in [connected : BOOLEAN, opus : BOOLEAN]
    PROVE  IInv'
  <1> DEFINE ins == inputs'
  <1>1. ins = [i \in DOMAIN inputs |->
                  IF i = current THEN [inputs[i] EXCEPT ![field] = value] ELSE inputs[i]]
    BY DEF Tell
  <1> HIDE DEF ins
  <1>2. ASSUME NEW i \in DOMAIN inputs
        PROVE  Alike(ins[i], inputs[i])
    <2> DEFINE k == inputs[i]
    <2>1. k \in InputRecords
      BY DEF IInv, Sound
    <2> HIDE DEF k
    <2>2. Alike([k EXCEPT ![field] = value], k)
      <3>1. CASE field = "flags" /\ value \in FlagSets
        <4>1. [k EXCEPT !.flags = value] \in InputRecords
          BY <2>1, <3>1 DEF InputRecords
        <4> QED
          BY <2>1, <3>1, <4>1 DEF Alike, InputRecords
      <3>2. CASE field = "forceTransmit" /\ value \in BOOLEAN
        <4>1. [k EXCEPT !.forceTransmit = value] \in InputRecords
          BY <2>1, <3>2 DEF InputRecords
        <4> QED
          BY <2>1, <3>2, <4>1 DEF Alike, InputRecords
      <3>3. CASE field = "connected" /\ value \in BOOLEAN
        <4>1. [k EXCEPT !.connected = value] \in InputRecords
          BY <2>1, <3>3 DEF InputRecords
        <4> QED
          BY <2>1, <3>3, <4>1 DEF Alike, InputRecords
      <3> QED
        BY <3>1, <3>2, <3>3
    <2>3. Alike(k, k)
      BY <2>1 DEF Alike
    <2> QED
      BY <1>1, <2>2, <2>3 DEF k
  <1>3. ins = [i \in DOMAIN inputs |-> ins[i]]
    BY <1>1
  <1>4. Sound(ins, ledger) /\ Len(ins) = Len(inputs)
    BY <1>2, <1>3, AlikeAreSound DEF IInv
  <1>5. Sound(inputs', ledger') /\ sent' = <<>>
    BY <1>4 DEF NothingSent, ins
  <1>6. Typed'
    BY <1>4 DEF IInv, Typed, ins
  <1> QED
    BY <1>5, <1>6, KeptInSilence

LEMMA NextIInv == IInv /\ [Next]_vars => IInv'
  <1> SUFFICES ASSUME IInv, [Next]_vars
               PROVE  IInv'
    OBVIOUS
  <1> USE DEF engine
  <1>0. /\ Sound(inputs, ledger) /\ settings \in TransmitTypes /\ interrupted \in BOOLEAN
        /\ connection \in BOOLEAN /\ server \in [connected : BOOLEAN, opus : BOOLEAN]
        /\ Sound(Stopped(inputs, Released), Stopped(ledger, NewLedger))
    BY StoppedIsSound DEF IInv, Typed
  <1>1. ASSUME NEW i \in DOMAIN inputs, MicrophoneFrame(i)
        PROVE  IInv'
    BY <1>1, MicrophoneFrameIInv
  <1>2. CASE SetupAudio
    <2>1. settings' \in TransmitTypes /\ interrupted' \in BOOLEAN
      BY <1>0, <1>2, AudioAssumption DEF SetupAudio
    <2> QED
      BY <1>0, <1>2, <2>1, StartIInv DEF SetupAudio, Restart
  <1>3. CASE SessionChanged
    <2>1. settings' = settings /\ interrupted' \in BOOLEAN /\ settings' \in TransmitTypes
      BY <1>0, <1>3 DEF SessionChanged
    <2>2. CASE Restart
      BY <1>0, <2>1, <2>2, StartIInv DEF Restart
    <2>3. CASE Stop
      BY <2>1, <2>3, StopIInv
    <2> QED
      BY <1>3, <2>2, <2>3 DEF SessionChanged
  <1>4. CASE BeginInterruption
    BY <1>4, StopIInv DEF BeginInterruption
  <1>5. CASE EndInterruption
    <2>1. settings' = settings /\ interrupted' \in BOOLEAN /\ settings' \in TransmitTypes
      BY <1>0, <1>5 DEF EndInterruption
    <2>2. CASE Started(inputs, ledger)
      BY <1>0, <2>1, <2>2, StartIInv
    <2>3. CASE UNCHANGED <<inputs, current, connection, server>> /\ NothingSent
      <3>1. Typed'
        BY <2>1, <2>3 DEF IInv, Typed
      <3>2. Sound(inputs, ledger)' /\ sent' = <<>>
        BY <1>0, <2>3 DEF NothingSent
      <3> QED
        BY <3>1, <3>2, KeptInSilence
    <2> QED
      BY <1>5, <2>2, <2>3 DEF EndInterruption
  <1>6. CASE SetMuteFlag
    <2>1. /\ current' = current /\ settings' = settings /\ interrupted' = interrupted
          /\ connection' = connection /\ server' = server /\ NothingSent /\ current # 0
      BY <1>6 DEF SetMuteFlag
    <2>2. inputs[current].flags \subseteq AudioFlags
      <3>1. current \in 1 .. Len(inputs) /\ inputs \in Seq(InputRecords)
        BY <2>1 DEF IInv, Sound, Typed
      <3>2. inputs[current] \in InputRecords
        BY <3>1
      <3> QED
        BY <3>2 DEF InputRecords, FlagSets
    <2>3. PICK f \in MuteFlags :
            \/ Tell("flags", inputs[current].flags \cup {f})
            \/ Tell("flags", inputs[current].flags \ {f})
      BY <1>6 DEF SetMuteFlag
    <2>4. /\ inputs[current].flags \cup {f} \in FlagSets
          /\ inputs[current].flags \ {f} \in FlagSets
      BY <2>2, AudioAssumption DEF FlagSets
    <2> QED
      BY <1>0, <2>1, <2>3, <2>4, TellIInv
  <1>7. CASE SetForceTransmit
    <2>1. /\ current' = current /\ settings' = settings /\ interrupted' = interrupted
          /\ connection' = connection /\ server' = server /\ NothingSent
      BY <1>7 DEF SetForceTransmit
    <2>2. PICK on \in BOOLEAN : Tell("forceTransmit", on)
      BY <1>7 DEF SetForceTransmit
    <2> QED
      BY <1>0, <2>1, <2>2, TellIInv
  <1>8. CASE CodecChange
    <2>1. UNCHANGED <<inputs, current, settings, connection, interrupted>> /\ NothingSent
      BY <1>8 DEF CodecChange
    <2>2. server' \in [connected : BOOLEAN, opus : BOOLEAN]
      BY <1>0, <1>8 DEF CodecChange
    <2>3. Typed'
      BY <2>1, <2>2 DEF IInv, Typed
    <2>4. Sound(inputs, ledger)' /\ sent' = <<>>
      BY <1>0, <2>1 DEF NothingSent
    <2> QED
      BY <2>3, <2>4, KeptInSilence
  <1>9. ASSUME NEW open \in BOOLEAN, SetMainConnection(open)
        PROVE  IInv'
    <2>1. /\ current' = current /\ settings' = settings /\ interrupted' = interrupted
          /\ connection' = open /\ NothingSent /\ Tell("connected", open)
      BY <1>9 DEF SetMainConnection
    <2>2. server' \in [connected : BOOLEAN, opus : BOOLEAN]
      BY <1>0, <1>9 DEF SetMainConnection
    <2> QED
      BY <2>1, <2>2, TellIInv
  <1>10. CASE UNCHANGED vars
    <2>1. Typed' /\ PacketsAreWhole' /\ MutedSaysNothing'
      BY <1>10 DEF vars, IInv, Typed, PacketsAreWhole, MutedSaysNothing
    <2> QED
      BY <1>0, <1>10, <2>1 DEF vars, IInv
  <1> QED
    BY <1>1, <1>2, <1>3, <1>4, <1>5, <1>6, <1>7, <1>8, <1>9, <1>10 DEF Next

--------------------------------------------------------------------------------
(* The inductive invariant of the engine: everything below follows from it. *)
THEOREM Invariance == Spec => []IInv
  <1> QED
    BY InitIInv, NextIInv, PTL DEF Spec

(* The inputs and the engine's variables have the types the code declares.  *)
THEOREM TypeCorrect == Spec => []TypeOK
  <1>1. ASSUME IInv
        PROVE  TypeOK
    <2>1. /\ Typed /\ Len(ledger) = Len(inputs)
          /\ \A i \in DOMAIN inputs : inputs[i] \in InputRecords
      BY <1>1 DEF IInv, Sound
    <2>2. \A i \in DOMAIN inputs :
            /\ inputs[i].bufferedFrames \in 0 .. AudioPerPacket - 1
            /\ inputs[i].udpMessageType \in {"none", "opus", "celt"}
            /\ inputs[i].flags \subseteq AudioFlags
            /\ inputs[i].lastTransmit \in BOOLEAN
      BY <2>1 DEF InputRecords, Counts, MessageTypes, FlagSets
    <2> QED
      BY <2>1, <2>2 DEF Typed, TypeOK
  <1> QED
    BY <1>1, Invariance, PTL

(* flushCheck and the encoders: when speech has ended an input owes no      *)
(* frame and has none left, however its flags, its codec, its connection    *)
(* and the user's mode changed in between.                                  *)
THEOREM SpeechLeavesNothing == Spec => []NothingLeftBehind
  <1>1. ASSUME IInv
        PROVE  NothingLeftBehind
    <2> SUFFICES ASSUME NEW i \in DOMAIN inputs, ~inputs[i].lastTransmit
                 PROVE  /\ ledger[i].owed = <<>> /\ inputs[i].bufferedFrames = 0
                        /\ inputs[i].opusBuffer = <<>> /\ inputs[i].frameList = <<>>
      BY DEF NothingLeftBehind
    <2>1. Collected(inputs[i]) /\ Accounted(inputs[i], ledger[i])
      BY <1>1 DEF IInv, Sound
    <2>2. /\ inputs[i].bufferedFrames = 0
          /\ inputs[i].opusBuffer = <<>> /\ inputs[i].frameList = <<>>
      BY <2>1 DEF Collected, Silent
    <2>3. ledger[i].owed = <<>>
      BY <2>1, <2>2 DEF Accounted, LastFrames
    <2> QED
      BY <2>2, <2>3
  <1> QED
    BY <1>1, Invariance, PTL

(* A packet has every frame of speech since the one before it, once and in  *)
(* order, whatever the number of frames to a packet.                        *)
THEOREM PacketsComeWhole == Spec => []PacketsAreWhole
  <1>1. IInv => PacketsAreWhole
    BY DEF IInv
  <1> QED
    BY <1>1, Invariance, PTL

(* A frame recorded while a mute flag is set is in a packet only as the     *)
(* last frame of speech.                                                    *)
THEOREM MuteIsObeyed == Spec => []MutedSaysNothing
  <1>1. IInv => MutedSaysNothing
    BY DEF IInv
  <1> QED
    BY <1>1, Invariance, PTL

(* Only a frame ends the speech of an input that runs.                      *)
LEMMA SpeechGoesOn ==
    ASSUME IInv, [Next]_vars, \A j \in DOMAIN inputs : ~MicrophoneFrame(j),
           NEW i \in DOMAIN inputs, inputs'[i].fed
    PROVE  inputs'[i].lastTransmit = inputs[i].lastTransmit
  <1>0. /\ inputs \in Seq(InputRecords) /\ Sound(inputs, ledger) /\ i \in 1 .. Len(inputs)
        /\ inputs[i] \in InputRecords
    BY DEF IInv, Sound
  <1> DEFINE stopped == Stopped(inputs, Released)
             stoppedLedger == Stopped(ledger, NewLedger)
  <1>1. /\ Sound(stopped, stoppedLedger) /\ Len(stopped) = Len(inputs)
        /\ stopped[i] = IF i = current THEN Released ELSE inputs[i]
    BY <1>0, StoppedIsSound
  <1> HIDE DEF stopped, stoppedLedger
  <1>2. stopped[i].fed => stopped[i] = inputs[i]
    BY <1>1, ReleasedIsSound
  <1>3. ASSUME NEW ins, NEW led, Sound(ins, led), Started(ins, led), i \in 1 .. Len(ins)
        PROVE  inputs'[i] = ins[i]
    <2>1. settings' \in TransmitTypes /\ connection \in BOOLEAN
      <3>1. CASE SetupAudio
        BY <3>1, AudioAssumption DEF SetupAudio, IInv, Typed
      <3>2. CASE ~SetupAudio
        <4>1. settings' = settings
          BY <3>2 DEF Next, SessionChanged, BeginInterruption, EndInterruption,
                SetMuteFlag, SetForceTransmit, CodecChange, SetMainConnection, vars, engine
        <4> QED
          BY <4>1 DEF IInv, Typed
      <3> QED
        BY <3>1, <3>2 DEF IInv, Typed
    <2> QED
      BY <1>3, <2>1, StartedIsSound DEF Started
  <1>4. CASE Restart
    <2>1. inputs'[i] = stopped[i]
      BY <1>0, <1>1, <1>3, <1>4 DEF Restart, stopped, stoppedLedger
    <2> QED
      BY <1>2, <2>1
  <1>5. CASE Stop
    <2>1. inputs'[i] = stopped[i]
      BY <1>5 DEF Stop, stopped
    <2> QED
      BY <1>2, <2>1
  <1>6. CASE Started(inputs, ledger)
    BY <1>0, <1>3, <1>6
  <1>7. ASSUME NEW field \in {"flags", "forceTransmit", "connected"}, NEW value,
               Tell(field, value)
        PROVE  inputs'[i].lastTransmit = inputs[i].lastTransmit
    <2>1. inputs'[i] = IF i = current THEN [inputs[i] EXCEPT ![field] = value] ELSE inputs[i]
      BY <1>7 DEF Tell
    <2> DEFINE k == inputs[i]
    <2>2. [k EXCEPT ![field] = value].lastTransmit = k.lastTransmit
      <3> HIDE DEF k
      <3> QED
        BY <1>0 DEF InputRecords, k
    <2> QED
      BY <2>1, <2>2
  <1>8. CASE inputs' = inputs
    BY <1>8
  <1> QED
    BY <1>4, <1>5, <1>6, <1>7, <1>8
       DEF Next, SetupAudio, SessionChanged, BeginInterruption, EndInterruption,
           SetMuteFlag, SetForceTransmit, CodecChange, SetMainConnection, vars

(* The frame that ends speech sends a packet, and with Opus it says so.     *)
THEOREM EndIsMarked == Spec => SpeechEndsMarked
  <1> DEFINE Marked(i) ==
          inputs[i].lastTransmit /\ inputs'[i].fed /\ ~inputs'[i].lastTransmit =>
              /\ sent' # <<>> /\ Head(sent').by = i
              /\ inputs[i].udpMessageType = "opus" => Head(sent').packet.last
  <1>1. ASSUME IInv, [Next]_vars, NEW i \in DOMAIN inputs
        PROVE  Marked(i)
    <2>1. CASE \A j \in DOMAIN inputs : ~MicrophoneFrame(j)
      BY <1>1, <2>1, SpeechGoesOn
    <2>2. ASSUME NEW j \in DOMAIN inputs, MicrophoneFrame(j)
          PROVE  Marked(i)
      <3>1. PICK level \in Levels :
             LET k == inputs[j]
                 l == ledger[j]
                 r == ProcessAndEncode(k, level, server)
                 do == DoTransmit(Counted(k), level)
             IN  /\ k \in InputRecords /\ l \in Ledgers /\ do \in BOOLEAN
                 /\ Handled(k, l, r, do) /\ inputs' = [inputs EXCEPT ![j] = r.input]
                 /\ \/ /\ r.packets = <<>> /\ sent' = <<>>
                       /\ ledger' = [ledger EXCEPT ![j] = Entry(k, l, do)]
                    \/ \E p : /\ r.packets = <<p>>
                              /\ ledger' = [ledger EXCEPT ![j] =
                                               Cleared(Entry(k, l, do), p.sequence)]
                              /\ sent' = <<[by |-> j, packet |-> p,
                                            due |-> Due(k, l, do), before |-> l.numbered,
                                            heard |-> k.connected]>>
        BY <1>1, <2>2, FrameStep
      <3> DEFINE k == inputs[j]
                 l == ledger[j]
                 r == ProcessAndEncode(k, level, server)
                 do == DoTransmit(Counted(k), level)
      <3>2. /\ Handled(k, l, r, do) /\ inputs' = [inputs EXCEPT ![j] = r.input]
            /\ \/ r.packets = <<>>
               \/ \E p : /\ r.packets = <<p>>
                         /\ sent' = <<[by |-> j, packet |-> p, due |-> Due(k, l, do),
                                       before |-> l.numbered, heard |-> k.connected]>>
        BY <3>1
      <3> HIDE DEF k, l, r, do
      <3>3. CASE i # j
        BY <3>2, <3>3
      <3>4. CASE i = j
        <4> SUFFICES ASSUME k.lastTransmit, ~inputs'[j].lastTransmit
                     PROVE  /\ sent' # <<>> /\ Head(sent').by = j
                            /\ k.udpMessageType = "opus" => Head(sent').packet.last
          BY <3>4 DEF k
        <4>1. ~do
          BY <3>2 DEF Handled
        <4>2. PICK p : r.packets = <<p>> /\ Fit(p, k, l, do)
          BY <3>2, <4>1 DEF Handled
        <4>3. sent' = <<[by |-> j, packet |-> p, due |-> Due(k, l, do),
                         before |-> l.numbered, heard |-> k.connected]>>
          BY <3>2, <4>2
        <4>4. k.udpMessageType = "opus" => p.last
          BY <4>1, <4>2 DEF Fit
        <4> QED
          BY <4>3, <4>4
      <3> QED
        BY <3>3, <3>4
    <2> QED
      BY <2>1, <2>2
  <1>2. IInv /\ [Next]_vars => [\A i \in DOMAIN inputs : Marked(i)]_vars
    BY <1>1
  <1> QED
    BY <1>2, Invariance, PTL DEF Spec, SpeechEndsMarked
================================================================================
