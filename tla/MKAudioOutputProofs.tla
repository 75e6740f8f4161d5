--------------------------- MODULE MKAudioOutputProofs ---------------------------
(***************************************************************************)
(* That the mixer plays samples in order, and that whoever is shown        *)
(* talking has an output that talks, for any number of users and packets,  *)
(* any lengths of frames and requests and any number of misses.            *)
(*                                                                         *)
(* Between two mixes what an output has not given yet lies in its buffer   *)
(* behind lastConsume; while it is filled it is the whole buffer.          *)
(***************************************************************************)
EXTENDS MKAudioOutput, SequenceTheorems, TLAPS

Adding == [session : Sessions, kind : Kinds, at : {"install", "add", "remove"}]
Mixing == [at : {"mixing"}, todo : SUBSET Sessions, filling : Sessions \cup {None},
           nextAlive : BOOLEAN, del : SUBSET Sessions]
Removing == [at : {"removing"}, del : SUBSET Sessions]

Typed ==
    /\ outputs \in [Sessions -> Speech \cup {None}]
    /\ shown \in [Sessions -> BOOLEAN]
    /\ arrived \in Nat
    /\ adder \in {Idle} \cup Adding
    /\ mixer \in {Idle} \cup Mixing \cup Removing
    /\ due \in [Sessions -> Seq(Sample)]
    /\ recoded \subseteq Sessions

(* The outputs that are still to be asked are there, and so is the one that *)
(* is being filled, of which a request has been noted; none of them is on   *)
(* the list of those to be removed.                                         *)
Present ==
    /\ mixer.at = "mixing" =>
          /\ \A s \in mixer.todo : outputs[s] # None /\ s \notin mixer.del
          /\ mixer.filling \in mixer.todo \cup {None}
          /\ mixer.filling # None => outputs[mixer.filling].lastConsume = NSamples
    /\ adder.at = "install" => outputs[adder.session] = None

IsFilling(s) == mixer.at = "mixing" /\ mixer.filling = s

(* What an output owes the mixer *)
Owed ==
    \A s \in Sessions :
        due[s] = IF outputs[s] = None THEN <<>>
                 ELSE IF IsFilling(s) THEN outputs[s].buffer ELSE Moved(outputs[s])

(* An output that has ended does not talk: neither after the mix in which   *)
(* it ended, nor while it waits to be removed.                              *)
EndedIsSilent ==
    \A s \in Sessions : outputs[s] # None /\ outputs[s].talking =>
        /\ outputs[s].lastAlive
        /\ IsFilling(s) => mixer.nextAlive
        /\ mixer.at # "idle" => s \notin mixer.del

IInv ==
    Typed /\ Present /\ Owed /\ EndedIsSilent /\ PlayedInOrder /\ TalkingIsHeard

--------------------------------------------------------------------------------
LEMMA Initially == Init => IInv
BY NoneAssumption
DEF Init, IInv, Typed, Present, Owed, EndedIsSilent, PlayedInOrder, TalkingIsHeard,
    Idle, IsFilling

(* A new output has nothing in it. *)
LEMMA NewIsEmpty ==
    ASSUME NEW type \in {"opus", "celt"}
    PROVE  /\ NewSpeech(type) \in Speech
           /\ Moved(NewSpeech(type)) = <<>>
           /\ ~NewSpeech(type).talking
BY DEF NewSpeech, Speech, Moved

(* What is behind lastConsume is a sequence of samples. *)
LEMMA MovedType ==
    ASSUME NEW k \in Speech
    PROVE  Moved(k) \in Seq(Sample)
BY DEF Moved, Speech

LEMMA RemovedKeeps ==
    ASSUME IInv, NEW s \in Sessions, Removed(s)
    PROVE  /\ outputs' \in [Sessions -> Speech \cup {None}]
           /\ due' \in [Sessions -> Seq(Sample)]
           /\ \A x \in Sessions : outputs'[x] = IF x = s THEN None ELSE outputs[x]
           /\ \A x \in Sessions : due'[x] = IF x = s THEN <<>> ELSE due[x]
BY DEF IInv, Typed, Removed

LEMMA KeptByPacketArrives ==
    ASSUME IInv, NEW s \in Sessions, NEW kind \in Kinds, PacketArrives(s, kind)
    PROVE  IInv'
<1> USE DEF IInv, PacketArrives
<1>1. Typed'
  BY DEF Typed, Adding
<1>2. Present'
  BY DEF Present, Locked, Typed, Idle, Mixing, Removing
<1>3. Owed' /\ EndedIsSilent' /\ TalkingIsHeard' /\ PlayedInOrder'
  BY DEF Owed, EndedIsSilent, TalkingIsHeard, PlayedInOrder, IsFilling, Moved
<1> QED
  BY <1>1, <1>2, <1>3

LEMMA KeptByRemoveOld == IInv /\ RemoveOld => IInv'
<1> SUFFICES ASSUME IInv, RemoveOld PROVE IInv'
  OBVIOUS
<1> USE DEF IInv
<1>1. adder \in Adding /\ adder.at = "remove"
  BY DEF Typed, RemoveOld, Idle, Adding
<1> DEFINE s == adder.session
<1>2. /\ s \in Sessions /\ Removed(s)
      /\ mixer.at # "mixing" /\ UNCHANGED <<shown, arrived, mixer>> /\ mixed' = <<>>
      /\ recoded' = IF shown[s] THEN recoded \cup {s} ELSE recoded
      /\ adder' \in Adding /\ adder'.session = s
  BY <1>1 DEF RemoveOld, Adding, Locked
<1> HIDE DEF s
<1>3. Typed'
  BY <1>2, RemovedKeeps DEF Typed
<1>4. Present'
  BY <1>2, RemovedKeeps DEF Present
<1>5. Owed'
  BY <1>2, RemovedKeeps DEF Owed, IsFilling, Moved
<1>6. EndedIsSilent'
  BY <1>2, RemovedKeeps DEF EndedIsSilent, IsFilling
<1>7. TalkingIsHeard'
  BY <1>2, RemovedKeeps DEF TalkingIsHeard
<1> QED
  BY <1>2, <1>3, <1>4, <1>5, <1>6, <1>7 DEF PlayedInOrder

LEMMA KeptByInstallNew == IInv /\ InstallNew => IInv'
<1> SUFFICES ASSUME IInv, InstallNew PROVE IInv'
  OBVIOUS
<1> USE DEF IInv
<1>1. adder \in Adding /\ adder.at = "install"
  BY DEF Typed, InstallNew, Idle, Adding
<1> DEFINE s == adder.session
           new == NewSpeech(adder.kind.type)
<1>2. s \in Sessions /\ adder.kind.type \in {"opus", "celt"} /\ outputs[s] = None
  BY <1>1 DEF Adding, Kinds, Present
<1>3. /\ \A x \in Sessions : outputs'[x] = IF x = s THEN new ELSE outputs[x]
      /\ outputs' \in [Sessions -> Speech \cup {None}]
      /\ adder' \in Adding /\ adder'.at = "add"
      /\ mixer.at # "mixing"
      /\ UNCHANGED <<shown, arrived, mixer, due, recoded>> /\ mixed' = <<>>
  BY <1>1, <1>2, NewIsEmpty DEF InstallNew, Typed, Adding, Locked
<1>4. new # None /\ new \in Speech /\ Moved(new) = <<>> /\ ~new.talking
  BY <1>2, NewIsEmpty, NoneAssumption
<1> HIDE DEF s, new
<1>5. Typed'
  BY <1>3 DEF Typed
<1>6. Present'
  BY <1>3 DEF Present
<1>7. Owed'
  BY <1>2, <1>3, <1>4 DEF Owed, IsFilling, Moved
<1>8. EndedIsSilent'
  BY <1>3, <1>4 DEF EndedIsSilent, IsFilling
<1>9. TalkingIsHeard'
  BY <1>2, <1>3, <1>4 DEF TalkingIsHeard
<1> QED
  BY <1>3, <1>5, <1>6, <1>7, <1>8, <1>9 DEF PlayedInOrder

(* A change of the jitter buffer changes nothing that the mixer sees. *)
LEMMA JitterOnly ==
    ASSUME NEW k \in Speech, NEW j \in Seq([n : Nat, kind : Kinds])
    PROVE  LET new == [k EXCEPT !.jitter = j]
           IN  /\ new \in Speech /\ new.talking = k.talking
               /\ new.lastAlive = k.lastAlive /\ new.buffer = k.buffer
               /\ new.lastConsume = k.lastConsume /\ Moved(new) = Moved(k)
<1> DEFINE new == [k EXCEPT !.jitter = j]
<1>1. /\ new.talking = k.talking /\ new.lastAlive = k.lastAlive
      /\ new.buffer = k.buffer /\ new.lastConsume = k.lastConsume
  BY DEF Speech
<1>2. new \in Speech
  BY DEF Speech
<1> HIDE DEF new
<1>3. Moved(new) = Moved(k)
  BY <1>1 DEF Moved
<1> QED
  BY <1>1, <1>2, <1>3 DEF new

LEMMA KeptByAddFrame == IInv /\ AddFrame => IInv'
<1> SUFFICES ASSUME IInv, AddFrame PROVE IInv'
  OBVIOUS
<1> USE DEF IInv
<1> DEFINE s == adder.session
           k == outputs[s]
           new == [k EXCEPT !.jitter = Append(@, [n |-> arrived, kind |-> adder.kind])]
<1>1. adder \in Adding
  BY DEF Typed, AddFrame, Idle, Adding
<1>2. /\ outputs' = IF k = None THEN outputs ELSE [outputs EXCEPT ![s] = new]
      /\ adder' = Idle /\ mixed' = <<>>
      /\ UNCHANGED <<shown, arrived, mixer, due, recoded>>
  BY DEF AddFrame
<1>3. CASE k = None
  BY <1>2, <1>3 DEF Typed, Present, Owed, EndedIsSilent, PlayedInOrder,
     TalkingIsHeard, Moved, IsFilling, Idle
<1>4. CASE k # None
  <2>1. k \in Speech /\ s \in Sessions /\ adder.kind \in Kinds /\ arrived \in Nat
    BY <1>1, <1>4 DEF Typed, Adding
  <2>2. /\ new \in Speech /\ new # None /\ Moved(new) = Moved(k)
        /\ new.talking = k.talking /\ new.lastAlive = k.lastAlive
        /\ new.buffer = k.buffer /\ new.lastConsume = k.lastConsume
    <3> DEFINE packet == [n |-> arrived, kind |-> adder.kind]
               j == Append(k.jitter, packet)
    <3>1. packet \in [n : Nat, kind : Kinds]
      BY <2>1
    <3>2. k.jitter \in Seq([n : Nat, kind : Kinds])
      BY <2>1 DEF Speech
    <3>3. j \in Seq([n : Nat, kind : Kinds])
      <4> HIDE DEF packet, k
      <4> QED
        BY <3>1, <3>2
    <3>4. new = [k EXCEPT !.jitter = j]
      OBVIOUS
    <3> HIDE DEF j, k, new
    <3>5. [k EXCEPT !.jitter = j] = new
      BY <3>4
    <3>6. k \in Speech
      BY <2>1
    <3> QED
      BY <3>3, <3>5, <3>6, JitterOnly, NoneAssumption
  <2>3. /\ \A x \in Sessions : outputs'[x] = IF x = s THEN new ELSE outputs[x]
        /\ outputs' \in [Sessions -> Speech \cup {None}]
    BY <1>2, <1>4, <2>1, <2>2 DEF Typed
  <2> HIDE DEF new, k, s
  <2>4. Typed'
    BY <1>2, <2>3 DEF Typed
  <2>5. Present'
    BY <1>2, <1>4, <2>2, <2>3, NoneAssumption
    DEF Present, Typed, Mixing, Removing, Idle, k
  <2>6. Owed'
    BY <1>2, <1>4, <2>2, <2>3 DEF Owed, IsFilling, Moved, k
  <2>7. EndedIsSilent' /\ TalkingIsHeard'
    BY <1>2, <1>4, <2>2, <2>3 DEF EndedIsSilent, TalkingIsHeard, IsFilling, k
  <2> QED
    BY <1>2, <2>4, <2>5, <2>6, <2>7 DEF PlayedInOrder
<1> QED
  BY <1>3, <1>4

LEMMA KeptByMixBegins == IInv /\ MixBegins => IInv'
<1> SUFFICES ASSUME IInv, MixBegins PROVE IInv'
  OBVIOUS
<1> USE DEF IInv, MixBegins
<1>1. mixer.at = "idle" /\ mixer'.at = "mixing" /\ mixer'.filling = None
  OBVIOUS
<1>2. Typed'
  BY DEF Typed, Mixing
<1>3. Present'
  BY DEF Present
<1>4. Owed'
  BY <1>1, NoneAssumption DEF Owed, IsFilling, Moved
<1>5. EndedIsSilent'
  BY <1>1, NoneAssumption DEF EndedIsSilent, IsFilling
<1> QED
  BY <1>2, <1>3, <1>4, <1>5 DEF TalkingIsHeard, PlayedInOrder

LEMMA KeptByMixEnds == IInv /\ MixEnds => IInv'
<1> SUFFICES ASSUME IInv, MixEnds PROVE IInv'
  OBVIOUS
<1> USE DEF IInv, MixEnds
<1>1. mixer \in Mixing
  BY DEF Typed, Idle, Removing
<1>2. Typed'
  BY <1>1 DEF Typed, Mixing, Removing
<1>3. \A s \in Sessions : ~IsFilling(s)
  BY NoneAssumption DEF IsFilling, Present
<1>4. Present' /\ Owed'
  BY <1>3 DEF Present, Owed, IsFilling, Moved
<1>5. EndedIsSilent' /\ TalkingIsHeard' /\ PlayedInOrder'
  BY <1>1 DEF EndedIsSilent, TalkingIsHeard, PlayedInOrder, IsFilling
<1> QED
  BY <1>2, <1>4, <1>5

LEMMA KeptByRemoveDead ==
    ASSUME IInv, NEW s \in Sessions, RemoveDead(s)
    PROVE  IInv'
<1> USE DEF IInv
<1>1. mixer \in Removing /\ mixer.at = "removing" /\ s \in mixer.del
  BY DEF Typed, Idle, Mixing, Removing, RemoveDead
<1>2. /\ Removed(s) /\ mixed' = <<>>
      /\ UNCHANGED <<shown, arrived, adder, recoded>>
  BY DEF RemoveDead
<1>3. mixer' \in Removing /\ mixer'.at = "removing" /\ mixer'.del = mixer.del \ {s}
  BY <1>1 DEF RemoveDead, Removing
<1>4. Typed'
  BY <1>2, <1>3, RemovedKeeps DEF Typed
<1>5. Present'
  BY <1>2, <1>3, RemovedKeeps DEF Present, Typed, Adding, Idle
<1>6. Owed'
  BY <1>1, <1>2, <1>3, RemovedKeeps DEF Owed, IsFilling, Moved
<1>7. EndedIsSilent'
  BY <1>1, <1>2, <1>3, RemovedKeeps DEF EndedIsSilent, IsFilling
<1>8. TalkingIsHeard'
  BY <1>1, <1>2, RemovedKeeps DEF EndedIsSilent, TalkingIsHeard
<1> QED
  BY <1>2, <1>4, <1>5, <1>6, <1>7, <1>8 DEF PlayedInOrder

LEMMA KeptByMixReturns == IInv /\ MixReturns => IInv'
<1> SUFFICES ASSUME IInv, MixReturns PROVE IInv'
  OBVIOUS
<1> USE DEF IInv, MixReturns, Idle
<1> QED
  BY DEF Typed, Present, Owed, EndedIsSilent, TalkingIsHeard, PlayedInOrder,
         IsFilling, Moved

--------------------------------------------------------------------------------
(* What is given to the mixer is the beginning of what is owed to it, and   *)
(* the rest is what lies behind lastConsume.                                *)
LEMMA Answers ==
    ASSUME IInv, mixer \in Mixing, NEW s \in Sessions, NEW k \in Speech,
           k.lastConsume = NSamples, due[s] = k.buffer, Len(k.buffer) >= NSamples,
           NEW alive \in BOOLEAN, Answered(s, k, alive)
    PROVE  /\ mixer' \in Mixing /\ mixer'.todo = mixer.todo \ {s}
           /\ mixer'.filling = None
           /\ mixer'.del = IF alive THEN mixer.del ELSE mixer.del \cup {s}
           /\ due' \in [Sessions -> Seq(Sample)]
           /\ \A x \in Sessions : due'[x] = IF x = s THEN Moved(k) ELSE due[x]
           /\ PlayedInOrder'
<1> DEFINE b == k.buffer
           given == SubSeq(b, 1, NSamples)
<1>1. b \in Seq(Sample) /\ NSamples \in Nat /\ Len(b) >= NSamples
  BY OutputAssumption DEF Speech
<1>2. /\ mixer' \in Mixing /\ mixer'.todo = mixer.todo \ {s}
      /\ mixer'.filling = None
      /\ mixer'.del = IF alive THEN mixer.del ELSE mixer.del \cup {s}
  BY DEF Answered, Mixing
<1>3. /\ due' = [due EXCEPT ![s] = SubSeq(b, NSamples + 1, Len(b))]
      /\ mixed' = IF alive THEN <<[given |-> given, due |-> b]>> ELSE <<>>
  BY DEF Answered
<1>4. Moved(k) = SubSeq(b, NSamples + 1, Len(b)) /\ Moved(k) \in Seq(Sample)
  BY MovedType DEF Moved
<1> HIDE DEF b
<1>5. IsPrefix(given, b)
  <2>1. Len(given) = NSamples
    BY <1>1
  <2>2. SubSeq(given, 1, NSamples) = given
    BY <1>1, <2>1
  <2> QED
    BY <1>1, <2>1, <2>2 DEF IsPrefix
<1> HIDE DEF given
<1>6. PlayedInOrder'
  <2>1. mixed' # <<>> => Head(mixed').given = given /\ Head(mixed').due = b
    BY <1>3
  <2> QED
    BY <1>5, <2>1 DEF PlayedInOrder
<1>7. /\ due' \in [Sessions -> Seq(Sample)]
      /\ \A x \in Sessions : due'[x] = IF x = s THEN Moved(k) ELSE due[x]
  BY <1>3, <1>4 DEF IInv, Typed
<1> QED
  BY <1>2, <1>6, <1>7

LEMMA KeptByNeedSamples ==
    ASSUME IInv, NEW s \in Sessions, NeedSamples(s)
    PROVE  IInv'
<1> DEFINE old == outputs[s]
           k == [old EXCEPT !.buffer = Moved(old), !.lastConsume = NSamples]
<1> USE DEF IInv
<1>1. mixer \in Mixing /\ mixer.at = "mixing" /\ mixer.filling = None /\ s \in mixer.todo
  BY DEF NeedSamples, Typed, Idle, Removing
<1>2. old # None /\ old \in Speech /\ s \notin mixer.del
  BY <1>1 DEF Present, Typed
<1>3. /\ k \in Speech /\ k.buffer = Moved(old) /\ k.lastConsume = NSamples
      /\ k.talking = old.talking /\ k.lastAlive = old.lastAlive
  BY <1>2, MovedType, OutputAssumption DEF Speech
<1>4. due[s] = k.buffer
  BY <1>1, <1>2, <1>3, NoneAssumption DEF Owed, IsFilling
<1>5. /\ outputs' = [outputs EXCEPT ![s] = k]
      /\ UNCHANGED <<shown, arrived, adder, recoded>>
      /\ IF Len(k.buffer) >= NSamples THEN Answered(s, k, k.lastAlive)
         ELSE /\ mixer' = [mixer EXCEPT !.filling = s, !.nextAlive = k.lastAlive]
              /\ mixed' = <<>> /\ UNCHANGED due
  BY DEF NeedSamples
<1> HIDE DEF k
<1>6. /\ outputs' \in [Sessions -> Speech \cup {None}]
      /\ \A x \in Sessions : outputs'[x] = IF x = s THEN k ELSE outputs[x]
      /\ k # None
  BY <1>3, <1>5, NoneAssumption DEF Typed
<1>7. TalkingIsHeard'
  BY <1>2, <1>3, <1>5, <1>6 DEF TalkingIsHeard
<1>8. CASE Len(k.buffer) >= NSamples
  <2>1. Answered(s, k, k.lastAlive) /\ k.lastAlive \in BOOLEAN
    BY <1>3, <1>5, <1>8 DEF Speech
  <2>2. /\ mixer' \in Mixing /\ mixer'.todo = mixer.todo \ {s}
        /\ mixer'.filling = None
        /\ mixer'.del = IF k.lastAlive THEN mixer.del ELSE mixer.del \cup {s}
        /\ due' \in [Sessions -> Seq(Sample)]
        /\ \A x \in Sessions : due'[x] = IF x = s THEN Moved(k) ELSE due[x]
        /\ PlayedInOrder'
    BY <1>1, <1>3, <1>4, <1>8, <2>1, Answers
  <2>3. Typed'
    BY <1>5, <1>6, <2>2 DEF Typed
  <2>4. Present'
    BY <1>1, <1>5, <1>6, <2>2 DEF Present, Mixing, Typed, Adding, Idle
  <2>5. Owed'
    <3>1. \A x \in Sessions : ~IsFilling(x)'
      BY <2>2, NoneAssumption DEF IsFilling
    <3>2. \A x \in Sessions : ~IsFilling(x)
      BY <1>1, NoneAssumption DEF IsFilling
    <3>3. \A x \in Sessions \ {s} :
             due[x] = IF outputs[x] = None THEN <<>> ELSE Moved(outputs[x])
      BY <3>2 DEF Owed
    <3> QED
      BY ONLY <1>6, <2>2, <3>1, <3>3 DEF Owed, Moved
  <2>6. EndedIsSilent'
    BY <1>1, <1>2, <1>3, <1>6, <2>2, NoneAssumption DEF EndedIsSilent, IsFilling
  <2> QED
    BY <1>7, <2>2, <2>3, <2>4, <2>5, <2>6
<1>9. CASE ~(Len(k.buffer) >= NSamples)
  <2>1. /\ mixer' \in Mixing /\ mixer'.at = "mixing" /\ mixer'.todo = mixer.todo
        /\ mixer'.filling = s /\ mixer'.nextAlive = k.lastAlive
        /\ mixer'.del = mixer.del /\ mixed' = <<>> /\ UNCHANGED due
    BY <1>1, <1>3, <1>5, <1>9 DEF Mixing, Speech
  <2>2. Typed'
    BY <1>5, <1>6, <2>1 DEF Typed
  <2>3. Present'
    BY <1>1, <1>3, <1>5, <1>6, <2>1 DEF Present, Typed, Adding, Idle
  <2>4. Owed'
    BY <1>1, <1>4, <1>6, <2>1, NoneAssumption DEF Owed, IsFilling, Moved
  <2>5. EndedIsSilent'
    BY <1>1, <1>2, <1>3, <1>6, <2>1, NoneAssumption DEF EndedIsSilent, IsFilling
  <2> QED
    BY <1>7, <2>1, <2>2, <2>3, <2>4, <2>5 DEF PlayedInOrder
<1> QED
  BY <1>8, <1>9

--------------------------------------------------------------------------------
(* Taking a packet from the jitter buffer, or none, changes neither what is *)
(* in the buffer nor what is consumed.                                      *)
LEMMA FetchedType ==
    ASSUME NEW k \in Speech, NEW f \in Fetched(k)
    PROVE  /\ f \in Speech /\ f.buffer = k.buffer
           /\ f.lastConsume = k.lastConsume /\ f.lastAlive = k.lastAlive
<1>1. CASE f = k
  BY <1>1
<1>2. CASE f = Missed(k)
  <2> DEFINE m == IF k.missCount > MaxMissed THEN k.missCount ELSE k.missCount + 1
  <2>1. m \in Nat
    BY DEF Speech
  <2>2. f = [k EXCEPT !.missCount = m]
    BY <1>2 DEF Missed
  <2> HIDE DEF m
  <2> QED
    BY <2>1, <2>2 DEF Speech
<1>3. CASE k.jitter # <<>> /\ f = Received(k)
  <2> DEFINE p == Head(k.jitter)
  <2>1. k.jitter \in Seq([n : Nat, kind : Kinds])
    BY DEF Speech
  <2>2. /\ p \in [n : Nat, kind : Kinds]
        /\ Tail(k.jitter) \in Seq([n : Nat, kind : Kinds])
    BY <1>3, <2>1, HeadTailProperties
  <2>4. p.n \in Nat /\ p.kind.blocks \in Seq(Nat) /\ p.kind.last \in BOOLEAN
    <3>1. <<>> \in Seq(Nat) /\ <<1>> \in Seq(Nat) /\ <<2>> \in Seq(Nat)
          /\ <<1, 1>> \in Seq(Nat)
      OBVIOUS
    <3>2. ASSUME NEW kind \in Kinds
          PROVE  kind.blocks \in Seq(Nat) /\ kind.last \in BOOLEAN
      <4> DEFINE one == <<1>>  two == <<2>>  none == <<>>  pair == <<1, 1>>
      <4>1. \/ kind = [type |-> "opus", blocks |-> one, last |-> FALSE]
            \/ kind = [type |-> "opus", blocks |-> two, last |-> TRUE]
            \/ kind = [type |-> "opus", blocks |-> none, last |-> TRUE]
            \/ kind = [type |-> "celt", blocks |-> pair, last |-> FALSE]
            \/ kind = [type |-> "celt", blocks |-> pair, last |-> TRUE]
        BY Zenon DEF Kinds
      <4>2. /\ one \in Seq(Nat) /\ two \in Seq(Nat) /\ none \in Seq(Nat)
            /\ pair \in Seq(Nat)
        BY <3>1
      <4> HIDE DEF one, two, none, pair
      <4>3. CASE kind = [type |-> "opus", blocks |-> one, last |-> FALSE]
        BY <4>2, <4>3
      <4>4. CASE kind = [type |-> "opus", blocks |-> two, last |-> TRUE]
        BY <4>2, <4>4
      <4>5. CASE kind = [type |-> "opus", blocks |-> none, last |-> TRUE]
        BY <4>2, <4>5
      <4>6. CASE kind = [type |-> "celt", blocks |-> pair, last |-> FALSE]
        BY <4>2, <4>6
      <4>7. CASE kind = [type |-> "celt", blocks |-> pair, last |-> TRUE]
        BY <4>2, <4>7
      <4> QED
        BY <4>1, <4>3, <4>4, <4>5, <4>6, <4>7
    <3> QED
      BY <2>2, <3>2
  <2>3. f = [k EXCEPT !.jitter = Tail(k.jitter), !.missCount = 0, !.packet = p.n,
                      !.frames = p.kind.blocks, !.hasTerminator = p.kind.last,
                      !.talking = TRUE]
    BY <1>3 DEF Received
  <2> HIDE DEF p
  <2> QED
    BY <2>2, <2>3, <2>4 DEF Speech
<1> QED
  BY <1>1, <1>2, <1>3 DEF Fetched

LEMMA SamplesType ==
    ASSUME NEW k \in Speech
    PROVE  Samples(k) \in Seq(Sample)
<1>1. FrameSize \in Nat
  BY OutputAssumption
<1>2. CASE ~k.lastAlive \/ k.frames = <<>>
  <2>1. [i \in 1 .. FrameSize |-> <<0, 0, 0>>] \in Seq(Sample)
    BY <1>1 DEF Sample
  <2> QED
    BY <1>2, <2>1 DEF Samples
<1>3. CASE ~(~k.lastAlive \/ k.frames = <<>>)
  <2> DEFINE n == FrameSize * Head(k.frames)
  <2>1. Head(k.frames) \in Nat /\ Len(k.frames) \in Nat /\ k.packet \in Nat
    BY <1>3 DEF Speech
  <2>2. n \in Nat
    BY <1>1, <2>1
  <2> HIDE DEF n
  <2>3. [i \in 1 .. n |-> <<k.packet, Len(k.frames), i>>] \in Seq(Sample)
    BY <2>1, <2>2 DEF Sample
  <2> QED
    BY <1>3, <2>3 DEF Samples, n
<1> QED
  BY <1>2, <1>3

LEMMA KeptByFillFrame ==
    ASSUME IInv, NEW s \in Sessions, FillFrame(s)
    PROVE  IInv'
<1> USE DEF IInv
<1> DEFINE old == outputs[s]
<1>1. mixer \in Mixing /\ IsFilling(s) /\ mixer.at = "mixing" /\ mixer.filling = s
  BY DEF FillFrame, Typed, Idle, Removing, IsFilling
<1>2. old # None /\ old \in Speech /\ s \notin mixer.del /\ due[s] = old.buffer
  BY <1>1, NoneAssumption DEF Present, Typed, Owed
<1>3. PICK k \in IF old.lastAlive THEN Fetched(old) ELSE {old} :
        LET goesOn == mixer.nextAlive /\ GoesOn(k)
            talking == TalkState(k, goesOn)
        IN  /\ outputs' = [outputs EXCEPT ![s] =
                   [k EXCEPT !.buffer = @ \o Samples(k), !.talking = talking,
                             !.frames = IF @ = <<>> THEN @ ELSE Tail(@)]]
            /\ due' = [due EXCEPT ![s] = @ \o Samples(k)]
            /\ mixer' = [mixer EXCEPT !.nextAlive = goesOn]
            /\ IF talking # outputs[s].talking
               THEN /\ shown' = [shown EXCEPT ![s] = talking]
                    /\ recoded' = recoded \ {s}
               ELSE UNCHANGED <<shown, recoded>>
  BY DEF FillFrame
<1> DEFINE goesOn == mixer.nextAlive /\ GoesOn(k)
           talking == TalkState(k, goesOn)
           rest == IF k.frames = <<>> THEN k.frames ELSE Tail(k.frames)
           b == k.buffer \o Samples(k)
           new == [k EXCEPT !.buffer = b, !.talking = talking, !.frames = rest]
<1>4. /\ k \in Speech /\ k.buffer = old.buffer /\ k.lastConsume = old.lastConsume
      /\ k.lastAlive = old.lastAlive /\ (~old.lastAlive => k = old)
  BY <1>2, <1>3, FetchedType
<1>5. /\ goesOn \in BOOLEAN /\ talking \in BOOLEAN /\ (talking => goesOn /\ k.talking)
      /\ rest \in Seq(Nat) /\ b \in Seq(Sample)
  <2>1. rest \in Seq(Nat)
    BY <1>4 DEF Speech
  <2>2. b \in Seq(Sample)
    <3>1. k.buffer \in Seq(Sample) /\ Samples(k) \in Seq(Sample)
      BY <1>4, SamplesType DEF Speech
    <3> QED
      BY <3>1
  <2>3. mixer.nextAlive \in BOOLEAN /\ k.talking \in BOOLEAN
    BY <1>1, <1>4 DEF Mixing, Speech
  <2> QED
    BY <2>1, <2>2, <2>3 DEF GoesOn, TalkState
<1>6. /\ outputs' = [outputs EXCEPT ![s] = new]
      /\ due' = [due EXCEPT ![s] = b]
      /\ mixer' = [mixer EXCEPT !.nextAlive = goesOn]
      /\ IF talking # old.talking
         THEN shown' = [shown EXCEPT ![s] = talking] /\ recoded' = recoded \ {s}
         ELSE UNCHANGED <<shown, recoded>>
      /\ mixed' = <<>> /\ UNCHANGED <<arrived, adder>>
  <2>1. due[s] \o Samples(k) = b
    BY <1>2, <1>4
  <2> QED
    BY <1>3, <2>1 DEF FillFrame
<1> HIDE DEF goesOn, talking, rest, b, old
<1>7. /\ new \in Speech /\ new.buffer = b /\ new.talking = talking
      /\ new.lastAlive = old.lastAlive /\ new.lastConsume = old.lastConsume
      /\ new # None
  <2>1. /\ new \in Speech /\ new.buffer = b /\ new.talking = talking
        /\ new.lastAlive = k.lastAlive /\ new.lastConsume = k.lastConsume
    BY <1>4, <1>5 DEF Speech
  <2> QED
    BY <1>4, <2>1, NoneAssumption
<1> HIDE DEF new
<1>8. /\ outputs' \in [Sessions -> Speech \cup {None}]
      /\ \A x \in Sessions : outputs'[x] = IF x = s THEN new ELSE outputs[x]
      /\ due' \in [Sessions -> Seq(Sample)]
      /\ \A x \in Sessions : due'[x] = IF x = s THEN b ELSE due[x]
  BY <1>5, <1>6, <1>7 DEF Typed
<1>9. /\ mixer' \in Mixing /\ mixer'.at = "mixing" /\ mixer'.filling = s
      /\ mixer'.todo = mixer.todo /\ mixer'.del = mixer.del
      /\ mixer'.nextAlive = goesOn
  BY <1>1, <1>5, <1>6 DEF Mixing
<1>10. /\ shown' \in [Sessions -> BOOLEAN]
       /\ \A x \in Sessions \ {s} : shown'[x] = shown[x]
       /\ recoded' \subseteq Sessions
       /\ \A x \in Sessions \ {s} : x \in recoded' <=> x \in recoded
  BY <1>5, <1>6 DEF Typed
<1>11. Typed'
  BY <1>6, <1>8, <1>9, <1>10 DEF Typed
<1>12. Present'
  BY <1>1, <1>2, <1>6, <1>7, <1>8, <1>9 DEF Present, Typed, Adding, Idle, old
<1>13. Owed'
  BY <1>1, <1>7, <1>8, <1>9, NoneAssumption DEF Owed, IsFilling, Moved
<1>14. EndedIsSilent'
  <2>1. k.talking => k.lastAlive
    BY <1>2, <1>4, old.lastAlive \/ k = old DEF EndedIsSilent, old
  <2> QED
    BY <1>1, <1>2, <1>4, <1>5, <1>7, <1>8, <1>9, <2>1, NoneAssumption
    DEF EndedIsSilent, IsFilling
<1>15. TalkingIsHeard'
  <2>1. shown'[s] /\ s \notin recoded' => talking
    BY <1>2, <1>5, <1>6 DEF TalkingIsHeard, Typed, Speech, old
  <2> QED
    BY <1>7, <1>8, <1>10, <2>1 DEF TalkingIsHeard
<1> QED
  BY <1>6, <1>11, <1>12, <1>13, <1>14, <1>15 DEF PlayedInOrder

LEMMA KeptByFillEnds ==
    ASSUME IInv, NEW s \in Sessions, FillEnds(s)
    PROVE  IInv'
<1> USE DEF IInv
<1> DEFINE old == outputs[s]
           new == [old EXCEPT !.lastAlive = mixer.nextAlive]
<1>1. mixer \in Mixing /\ mixer.at = "mixing" /\ mixer.filling = s /\ IsFilling(s)
  BY DEF FillEnds, Typed, Idle, Removing, IsFilling
<1>2. /\ old # None /\ old \in Speech /\ s \in mixer.todo /\ s \notin mixer.del
      /\ due[s] = old.buffer
  BY <1>1, NoneAssumption DEF Present, Typed, Owed
<1>3. /\ new \in Speech /\ new.lastAlive = mixer.nextAlive /\ new # None
      /\ new.talking = old.talking /\ new.buffer = old.buffer
      /\ new.lastConsume = old.lastConsume
  <2>1. mixer.nextAlive \in BOOLEAN
    BY <1>1 DEF Mixing
  <2> HIDE DEF old
  <2> QED
    BY <1>2, <2>1, NoneAssumption DEF Speech
<1>4. outputs' = [outputs EXCEPT ![s] = new]
      /\ Answered(s, old, old.lastAlive)
      /\ UNCHANGED <<shown, arrived, adder, recoded>>
  BY DEF FillEnds
<1>5. Len(old.buffer) >= NSamples /\ old.lastAlive \in BOOLEAN
      /\ old.lastConsume = NSamples /\ Moved(new) = Moved(old)
  <2>1. old.lastConsume = NSamples
    BY <1>1, NoneAssumption DEF Present
  <2> QED
    BY <1>2, <1>3, <2>1 DEF FillEnds, Speech, Moved
<1> HIDE DEF new, old
<1>6. /\ outputs' \in [Sessions -> Speech \cup {None}]
      /\ \A x \in Sessions : outputs'[x] = IF x = s THEN new ELSE outputs[x]
  BY <1>3, <1>4 DEF Typed
<1>7. /\ mixer' \in Mixing /\ mixer'.todo = mixer.todo \ {s}
      /\ mixer'.filling = None
      /\ mixer'.del = IF old.lastAlive THEN mixer.del ELSE mixer.del \cup {s}
      /\ due' \in [Sessions -> Seq(Sample)]
      /\ \A x \in Sessions : due'[x] = IF x = s THEN Moved(old) ELSE due[x]
      /\ PlayedInOrder'
  BY <1>1, <1>2, <1>4, <1>5, Answers
<1>8. Typed'
  BY <1>4, <1>6, <1>7 DEF Typed
<1>9. Present'
  BY <1>1, <1>3, <1>4, <1>6, <1>7, <1>2 DEF Present, Mixing, Typed, Adding, Idle, old
<1>10. Owed'
  <2>1. \A x \in Sessions : ~IsFilling(x)'
    BY <1>7, NoneAssumption DEF IsFilling
  <2>2. \A x \in Sessions \ {s} : ~IsFilling(x)
    BY <1>1 DEF IsFilling
  <2>3. \A x \in Sessions \ {s} :
           due[x] = IF outputs[x] = None THEN <<>> ELSE Moved(outputs[x])
    BY <2>2 DEF Owed
  <2> QED
    BY ONLY <1>3, <1>5, <1>6, <1>7, <2>1, <2>3 DEF Owed, Moved
<1>11. EndedIsSilent'
  <2>1. old.talking => old.lastAlive /\ mixer.nextAlive
    BY <1>1, <1>2 DEF EndedIsSilent, old
  <2>2. \A x \in Sessions : ~IsFilling(x)'
    BY <1>7, NoneAssumption DEF IsFilling
  <2>3. \A x \in Sessions : x \in mixer'.del => x \in mixer.del \/ (x = s /\ ~old.lastAlive)
    BY <1>7
  <2> SUFFICES ASSUME NEW x \in Sessions, outputs'[x] # None, outputs'[x].talking
               PROVE  outputs'[x].lastAlive /\ x \notin mixer'.del
    BY <2>2 DEF EndedIsSilent
  <2>4. CASE x = s
    BY <1>2, <1>3, <1>6, <2>1, <2>3, <2>4
  <2>5. CASE x # s
    BY <1>1, <1>6, <2>3, <2>5 DEF EndedIsSilent
  <2> QED
    BY <2>4, <2>5
<1>12. TalkingIsHeard'
  BY <1>2, <1>3, <1>4, <1>6 DEF TalkingIsHeard, old
<1> QED
  BY <1>7, <1>8, <1>9, <1>10, <1>11, <1>12

--------------------------------------------------------------------------------
LEMMA KeptByStuttering == IInv /\ UNCHANGED vars => IInv'
BY DEF IInv, vars, history, Typed, Present, Owed, EndedIsSilent, PlayedInOrder,
       TalkingIsHeard, IsFilling, Moved

LEMMA Inductive == IInv /\ [Next]_vars => IInv'
BY KeptByPacketArrives, KeptByRemoveOld, KeptByInstallNew, KeptByAddFrame,
   KeptByMixBegins, KeptByMixEnds, KeptByMixReturns, KeptByNeedSamples,
   KeptByFillFrame, KeptByFillEnds, KeptByRemoveDead, KeptByStuttering
DEF Next, MixerStep

THEOREM Invariance == Spec => []IInv
BY Initially, Inductive, PTL DEF Spec

(* The samples that needSamples: hands to the mixer are those that were     *)
(* decoded first and not handed over yet, each once, for any lengths of     *)
(* blocks and requests: the moving of the rest to the front of the buffer   *)
(* and lastConsume never skip or repeat any.                                *)
THEOREM SamplesPlayedInOrder == Spec => []PlayedInOrder
BY Invariance, PTL DEF IInv

(* Whoever is shown talking has an output that talks: none of the ends of   *)
(* an output (a terminator, misses, the removal by the audio thread after   *)
(* it gave up the lock, a replacement) leaves a talk state behind, but for  *)
(* a replacement by an output of another message type.                      *)
THEOREM WhoTalksIsHeard == Spec => []TalkingIsHeard
BY Invariance, PTL DEF IInv
================================================================================
