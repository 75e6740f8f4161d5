------------------------- MODULE MessageFramingProofs --------------------------
(***************************************************************************)
(* Proofs about MessageFraming, for every size of a header, every size and *)
(* number of messages and every way in which payloads are cut up.          *)
(***************************************************************************)
EXTENDS MessageFraming, TLAPS

(* The invariant holds before the first byte. *)
LEMMA InitIInv == Init => IInv
  BY FramingAssumption
  DEF Init, IInv, TypeOK, WireIsGapless, WireIsOrdered, HandledInOrder,
      ReaderInStep, EndOf, Pieces

(* Both sequences are sequences of pieces. *)
LEMMA PieceTypes ==
    ASSUME TypeOK
    PROVE  /\ Len(wire) \in Nat /\ DOMAIN wire = 1 .. Len(wire)
           /\ Len(handled) \in Nat /\ DOMAIN handled = 1 .. Len(handled)
           /\ \A i \in DOMAIN wire :
                 wire[i] \in Pieces /\ wire[i].from \in Nat /\ wire[i].size \in Nat
<1>1. wire \in Seq(Pieces) /\ handled \in Seq(Pieces)
  BY DEF TypeOK
<1>2. \A i \in DOMAIN wire : wire[i] \in Pieces
  BY <1>1
<1> QED
  BY <1>1, <1>2 DEF Pieces

(* A message that is sent goes to the end of the wire. *)
LEMMA SendMessageIInv == IInv /\ SendMessage => IInv'
<1> SUFFICES ASSUME IInv, SendMessage PROVE IInv'
  OBVIOUS
<1> USE FramingAssumption
<1>1. PICK size \in Sizes :
          /\ wire' = Append(wire, Piece(total, size))
          /\ total' = total + Header + size
          /\ UNCHANGED <<arrived, readVars, handled>>
  BY DEF SendMessage
<1>2. /\ size \in Nat
      /\ Piece(total, size) \in Pieces
      /\ Piece(total, size).from = total /\ Piece(total, size).size = size
  BY DEF Piece, Pieces, IInv, TypeOK
<1>3. /\ wire \in Seq(Pieces) /\ wire' \in Seq(Pieces)
      /\ Len(wire') = Len(wire) + 1
      /\ DOMAIN wire = 1 .. Len(wire) /\ DOMAIN wire' = 1 .. Len(wire) + 1
      /\ \A i \in 1 .. Len(wire) : wire'[i] = wire[i] /\ wire[i] \in Pieces
      /\ wire'[Len(wire) + 1] = Piece(total, size)
      /\ Len(wire) \in Nat /\ total \in Nat
  BY <1>1, <1>2 DEF IInv, TypeOK
<1>0. Len(wire') = Len(wire) + 1 /\ Len(wire) \in Nat
  BY <1>3
<1>4. TypeOK'
  BY <1>1, <1>2, <1>3 DEF IInv, TypeOK, readVars
<1>5. WireIsGapless'
  <2>1. wire' # <<>> /\ wire'[1].from = 0
    BY <1>2, <1>3 DEF IInv, WireIsGapless
  <2>2. ASSUME NEW i \in DOMAIN wire'
        PROVE  wire'[i].from + Header + wire'[i].size =
                   IF i = Len(wire') THEN total' ELSE wire'[i + 1].from
    <3>1. CASE i = Len(wire) + 1
      BY <1>1, <1>2, <1>3, <3>1
    <3>2. CASE i = Len(wire)
      <4>1. i \in DOMAIN wire /\ wire'[i] = wire[i] /\ wire'[i + 1].from = total
        BY <1>2, <1>3, <2>2, <3>2
      <4>2. wire[i].from + Header + wire[i].size = total
        BY <3>2, <4>1 DEF IInv, WireIsGapless
      <4>3. i # Len(wire')
        BY <1>0, <3>2
      <4> QED
        BY <4>1, <4>2, <4>3
    <3>3. CASE i \in 1 .. Len(wire) - 1
      BY <1>3, <3>3 DEF IInv, WireIsGapless
    <3> QED
      BY <1>3, <2>2, <3>1, <3>2, <3>3
  <2> QED
    BY <2>1, <2>2 DEF WireIsGapless
<1>6. WireIsOrdered'
  <2>1. \A i \in 1 .. Len(wire) :
            /\ wire[i].from < total
            /\ \A j \in 1 .. Len(wire) : i < j => wire[i].from < wire[j].from
            /\ wire[i].from \in Nat
    BY <1>3 DEF IInv, WireIsOrdered, Pieces
  <2> SUFFICES ASSUME NEW i \in 1 .. Len(wire) + 1, NEW j \in 1 .. Len(wire) + 1
               PROVE  /\ wire'[i].from < total'
                      /\ i < j => wire'[i].from < wire'[j].from
    BY <1>3 DEF WireIsOrdered
  <2>2. total < total' /\ total' \in Nat
    BY <1>1, <1>2, <1>3
  <2>3. CASE i = Len(wire) + 1
    BY <1>2, <1>3, <2>2, <2>3
  <2>4. CASE i \in 1 .. Len(wire) /\ j = Len(wire) + 1
    BY <1>2, <1>3, <2>1, <2>2, <2>4
  <2>5. CASE i \in 1 .. Len(wire) /\ j \in 1 .. Len(wire)
    BY <1>3, <2>1, <2>2, <2>5
  <2> QED
    BY <1>3, <2>3, <2>4, <2>5
<1>7. Len(handled) \in Nat /\ Len(handled) <= Len(wire) /\ handled' = handled
      /\ DOMAIN handled = 1 .. Len(handled)
  BY <1>1 DEF IInv, TypeOK, HandledInOrder
<1>8. HandledInOrder'
  BY <1>3, <1>7 DEF IInv, HandledInOrder
<1>9. ReaderInStep'
  <2>1. EndOf(Len(handled))' = EndOf(Len(handled))
    BY <1>3, <1>7 DEF EndOf
  <2>2. Len(handled) < Len(wire) =>
            wire'[Len(handled) + 1] = wire[Len(handled) + 1]
    BY <1>3, <1>7
  <2> QED
    BY <1>1, <1>2, <1>3, <1>7, <2>1, <2>2 DEF IInv, TypeOK, ReaderInStep, readVars
<1> QED
  BY <1>4, <1>5, <1>6, <1>8, <1>9 DEF IInv

(* Bytes that arrive change nothing but their number. *)
LEMMA ArriveIInv == IInv /\ Arrive => IInv'
<1> SUFFICES ASSUME IInv, Arrive PROVE IInv'
  OBVIOUS
<1>1. PICK n \in arrived + 1 .. total : arrived' = n
  BY DEF Arrive
<1>2. UNCHANGED <<wire, total, consumed, packetLength, packetBufferOffset,
                  payload, handled>>
  BY DEF Arrive, readVars
<1>3. n \in Nat /\ arrived < n /\ n <= total
  BY <1>1 DEF IInv, TypeOK
<1>4. TypeOK' /\ WireIsGapless' /\ WireIsOrdered' /\ HandledInOrder'
  BY <1>1, <1>2, <1>3
  DEF IInv, TypeOK, WireIsGapless, WireIsOrdered, HandledInOrder
<1>5. ReaderInStep'
  BY <1>1, <1>2, <1>3 DEF IInv, TypeOK, ReaderInStep, EndOf
<1> QED
  BY <1>4, <1>5 DEF IInv

(* When a whole header can be read between two messages, it is the header   *)
(* of the next message and of no other.                                     *)
LEMMA HeaderIsNext ==
    ASSUME IInv, packetLength = -1, consumed + Header <= arrived
    PROVE  LET n == Len(handled) + 1
           IN  /\ n \in DOMAIN wire
               /\ wire[n].from = consumed
               /\ SizesAt(consumed) = {wire[n].size}
<1> USE FramingAssumption
<1> DEFINE m == Len(handled)
           n == m + 1
<1>1. /\ m \in Nat /\ m <= Len(wire) /\ Len(wire) \in Nat
      /\ DOMAIN wire = 1 .. Len(wire)
      /\ \A i \in 1 .. Len(wire) : wire[i].from \in Nat /\ wire[i].size \in Nat
      /\ consumed \in Nat /\ arrived \in Nat /\ total \in Nat
      /\ consumed < total
      /\ consumed = EndOf(m)
  <2>1. TypeOK /\ HandledInOrder /\ ReaderInStep
    BY DEF IInv
  <2>2. /\ consumed \in Nat /\ arrived \in Nat /\ total \in Nat
        /\ m <= Len(wire) /\ consumed = EndOf(m) /\ arrived <= total
    BY <2>1 DEF TypeOK, HandledInOrder, ReaderInStep
  <2> QED
    BY <2>1, <2>2, PieceTypes
<1>2. m # Len(wire)
  <2>1. CASE m = 0
    BY <1>1, <2>1 DEF IInv, WireIsGapless, EndOf, TypeOK
  <2>2. CASE m # 0
    <3>1. m = Len(wire) => EndOf(m) = total
      BY <1>1, <2>2 DEF IInv, WireIsGapless, EndOf
    <3> QED
      BY <1>1, <3>1
  <2> QED
    BY <2>1, <2>2
<1>3. n \in 1 .. Len(wire)
  BY <1>1, <1>2
<1>4. wire[n].from = consumed
  <2>1. CASE m = 0
    BY <1>1, <1>3, <2>1 DEF IInv, WireIsGapless, EndOf, TypeOK
  <2>2. CASE m # 0
    <3>1. m \in DOMAIN wire /\ m # Len(wire)
      BY <1>1, <1>2, <2>2
    <3> QED
      BY <1>1, <2>2, <3>1 DEF IInv, WireIsGapless, EndOf
  <2> QED
    BY <2>1, <2>2
<1>5. \A i \in DOMAIN wire : wire[i].from = consumed <=> i = n
  <2> SUFFICES ASSUME NEW i \in DOMAIN wire, wire[i].from = consumed, i # n
               PROVE  FALSE
    BY <1>4
  <2>1. i \in 1 .. Len(wire) /\ (i < n \/ n < i)
    BY <1>1, <1>3
  <2>2. wire[i].from < wire[n].from \/ wire[n].from < wire[i].from
    BY <1>1, <1>3, <2>1 DEF IInv, WireIsOrdered
  <2> QED
    BY <1>1, <1>3, <1>4, <2>1, <2>2
<1>6. SizesAt(consumed) = {wire[n].size}
  <2>1. {j \in DOMAIN wire : wire[j].from = consumed} = {n}
    BY <1>1, <1>3, <1>4, <1>5
  <2>2. \E i \in DOMAIN wire : wire[i].from = consumed
    BY <1>1, <1>3, <1>4
  <2> QED
    BY <2>1, <2>2 DEF SizesAt
<1> QED
  BY <1>1, <1>3, <1>4, <1>6

(* Handing the next message up whole keeps what is handled in order, and    *)
(* puts the reader at the end of that message.                              *)
LEMMA HandlingNext ==
    ASSUME IInv, Len(handled) + 1 \in DOMAIN wire,
           handled' = Append(handled, Piece(wire[Len(handled) + 1].from + Header,
                                            wire[Len(handled) + 1].size)),
           wire' = wire
    PROVE  /\ handled' \in Seq(Pieces)
           /\ Len(handled') = Len(handled) + 1
           /\ HandledInOrder'
           /\ EndOf(Len(handled))' = wire[Len(handled) + 1].from + Header
                                     + wire[Len(handled) + 1].size
<1> USE FramingAssumption
<1> DEFINE n == Len(handled) + 1
           p == Piece(wire[n].from + Header, wire[n].size)
<1>1. /\ handled \in Seq(Pieces) /\ wire \in Seq(Pieces)
      /\ Len(handled) \in Nat /\ Len(wire) \in Nat
      /\ DOMAIN handled = 1 .. Len(handled) /\ DOMAIN wire = 1 .. Len(wire)
  BY DEF IInv, TypeOK
<1>2. wire[n] \in Pieces /\ p \in Pieces
  BY PieceTypes DEF Pieces, Piece, IInv
<1>3. /\ handled' \in Seq(Pieces)
      /\ Len(handled') = n
      /\ DOMAIN handled' = 1 .. n
      /\ \A i \in 1 .. Len(handled) : handled'[i] = handled[i]
      /\ handled'[n] = p
  BY <1>1, <1>2
<1>4. HandledInOrder'
  <2> SUFFICES ASSUME NEW i \in 1 .. n
               PROVE  handled'[i] = Piece(wire[i].from + Header, wire[i].size)
    BY <1>1, <1>3 DEF HandledInOrder
  <2>1. CASE i = n
    BY <1>3, <2>1
  <2>2. CASE i \in 1 .. Len(handled)
    BY <1>1, <1>3, <2>2 DEF IInv, HandledInOrder
  <2> QED
    BY <1>1, <2>1, <2>2
<1>5. EndOf(Len(handled))' = wire[n].from + Header + wire[n].size
  BY <1>1, <1>3 DEF EndOf
<1> QED
  BY <1>3, <1>4, <1>5

(* A whole header: the next message is begun, or done when it is empty. *)
LEMMA ReadHeaderIInv == WholeHeaders /\ IInv /\ ReadHeader => IInv'
<1> SUFFICES ASSUME WholeHeaders, IInv, ReadHeader PROVE IInv'
  OBVIOUS
<1> USE FramingAssumption
<1> DEFINE n == Len(handled) + 1
<1>1. /\ packetLength = -1
      /\ consumed + Header <= arrived
      /\ consumed' = consumed + Header
      /\ UNCHANGED <<wire, total, arrived>>
      /\ \E size \in SizesAt(consumed) :
            /\ packetLength' = IF size = 0 THEN -1 ELSE size
            /\ packetBufferOffset' = 0
            /\ payload' = consumed + Header
            /\ handled' = IF size = 0 THEN Append(handled, Piece(payload', 0))
                          ELSE handled
  BY DEF ReadHeader, LengthAfterHeader, OffsetAtFirst, Readable, wireVars
<1>2. /\ n \in DOMAIN wire
      /\ wire[n].from = consumed
      /\ SizesAt(consumed) = {wire[n].size}
  BY <1>1, HeaderIsNext
<1>3. /\ packetLength' = IF wire[n].size = 0 THEN -1 ELSE wire[n].size
      /\ packetBufferOffset' = 0
      /\ payload' = consumed + Header
      /\ handled' = IF wire[n].size = 0 THEN Append(handled, Piece(payload', 0))
                    ELSE handled
  BY <1>1, <1>2
<1>4. /\ wire[n] \in Pieces /\ wire[n].size \in Nat /\ consumed \in Nat
      /\ arrived \in Nat /\ total \in Nat /\ arrived <= total
      /\ Len(handled) \in Nat /\ Len(wire) \in Nat /\ n <= Len(wire)
  <2>1. TypeOK /\ ReaderInStep
    BY DEF IInv
  <2>2. consumed \in Nat /\ arrived \in Nat /\ total \in Nat /\ arrived <= total
    BY <2>1 DEF TypeOK, ReaderInStep
  <2> QED
    BY <1>2, <2>1, <2>2, PieceTypes
<1>5. WireIsGapless' /\ WireIsOrdered'
  BY <1>1 DEF IInv, WireIsGapless, WireIsOrdered
<1>6. CASE wire[n].size = 0
  <2>1. handled' = Append(handled, Piece(wire[n].from + Header, wire[n].size))
    BY <1>2, <1>3, <1>6
  <2>2. /\ handled' \in Seq(Pieces)
        /\ HandledInOrder'
        /\ EndOf(Len(handled))' = wire[n].from + Header + wire[n].size
    BY <1>1, <1>2, <2>1, HandlingNext
  <2>3. TypeOK'
    BY <1>1, <1>3, <1>4, <1>6, <2>2 DEF IInv, TypeOK
  <2>4. ReaderInStep'
    BY <1>1, <1>2, <1>3, <1>4, <1>6, <2>2 DEF ReaderInStep
  <2> QED
    BY <1>5, <2>2, <2>3, <2>4 DEF IInv
<1>7. CASE wire[n].size # 0
  <2>1. handled' = handled
    BY <1>3, <1>7
  <2>2. TypeOK'
    BY <1>1, <1>3, <1>4, <1>7, <2>1 DEF IInv, TypeOK
  <2>3. HandledInOrder'
    BY <1>1, <2>1 DEF IInv, HandledInOrder
  <2>4. ReaderInStep'
    BY <1>1, <1>2, <1>3, <1>4, <1>7, <2>1 DEF ReaderInStep
  <2> QED
    BY <1>5, <2>2, <2>3, <2>4 DEF IInv
<1> QED
  BY <1>6, <1>7

(* A part of the payload: the message is done with its last byte. *)
LEMMA ReadPayloadIInv == IInv /\ ReadPayload => IInv'
<1> SUFFICES ASSUME IInv, ReadPayload PROVE IInv'
  OBVIOUS
<1> USE FramingAssumption
<1> DEFINE n == Len(handled) + 1
<1>1. PICK r \in 1 .. packetLength :
          /\ consumed + r <= arrived
          /\ consumed' = consumed + r
          /\ packetBufferOffset' = packetBufferOffset + r
          /\ packetLength' = IF r = packetLength THEN -1 ELSE packetLength - r
          /\ handled' = IF r = packetLength
                        THEN Append(handled, Piece(payload, packetBufferOffset'))
                        ELSE handled
          /\ UNCHANGED <<wire, total, arrived, payload>>
  BY DEF ReadPayload, OffsetAfter, Readable, wireVars
<1>2. /\ packetLength \in Nat /\ packetLength > 0 /\ r \in Nat /\ r > 0
      /\ consumed \in Nat /\ arrived \in Nat /\ total \in Nat
      /\ packetBufferOffset \in Nat /\ payload \in Nat
      /\ arrived <= total
      /\ Len(handled) \in Nat /\ Len(wire) \in Nat
      /\ n \in DOMAIN wire /\ n <= Len(wire)
      /\ payload = wire[n].from + Header
      /\ consumed = payload + packetBufferOffset
      /\ packetBufferOffset + packetLength = wire[n].size
  BY <1>1 DEF IInv, TypeOK, ReaderInStep, ReadPayload, OffsetAfter
<1>3. WireIsGapless' /\ WireIsOrdered'
  BY <1>1 DEF IInv, WireIsGapless, WireIsOrdered
<1>6. handled' \in Seq(Pieces) => TypeOK'
  <2>1. /\ consumed' \in Nat /\ packetBufferOffset' \in Nat
        /\ packetLength' \in Nat \cup {-1}
    <3>1. consumed' \in Nat /\ packetBufferOffset' \in Nat
      <4>1. consumed' = consumed + r /\ packetBufferOffset' = packetBufferOffset + r
        BY <1>1
      <4>2. consumed \in Nat /\ packetBufferOffset \in Nat /\ r \in Nat
        BY <1>2
      <4> QED
        BY <4>1, <4>2
    <3>2. CASE r = packetLength
      <4>1. packetLength' = -1
        BY <1>1, <3>2
      <4> QED
        BY <3>1, <4>1
    <3>3. CASE r # packetLength
      <4>1. packetLength' = packetLength - r /\ r <= packetLength
        BY <1>1, <1>2, <3>3
      <4> QED
        BY <1>2, <3>1, <4>1
    <3> QED
      BY <3>2, <3>3
  <2> QED
    BY <1>1, <2>1 DEF IInv, TypeOK
<1>4. CASE r = packetLength
  <2>1. handled' = Append(handled, Piece(wire[n].from + Header, wire[n].size))
    BY <1>1, <1>2, <1>4
  <2>2. /\ handled' \in Seq(Pieces)
        /\ HandledInOrder'
        /\ EndOf(Len(handled))' = wire[n].from + Header + wire[n].size
    BY <1>1, <1>2, <2>1, HandlingNext
  <2>3. TypeOK'
    BY <1>6, <2>2
  <2>4. ReaderInStep'
    BY <1>1, <1>2, <1>4, <2>2 DEF ReaderInStep
  <2> QED
    BY <1>3, <2>2, <2>3, <2>4 DEF IInv
<1>5. CASE r # packetLength
  <2>1. handled' = handled
    BY <1>1, <1>5
  <2>2. TypeOK'
    BY <1>6, <2>1 DEF IInv, TypeOK
  <2>3. HandledInOrder'
    BY <1>1, <2>1 DEF IInv, HandledInOrder
  <2>4. ReaderInStep'
    <3>1. /\ packetLength' = packetLength - r /\ consumed' = consumed + r
          /\ packetBufferOffset' = packetBufferOffset + r
          /\ wire' = wire /\ total' = total /\ arrived' = arrived
          /\ payload' = payload
      BY <1>1, <1>5
    <3>2. /\ packetLength' > 0 /\ packetLength' # -1
          /\ consumed' <= arrived /\ arrived <= total
          /\ consumed' = payload + packetBufferOffset'
          /\ packetBufferOffset' + packetLength' = wire[n].size
      <4>1. /\ r \in Nat /\ packetLength \in Nat /\ r < packetLength
            /\ packetBufferOffset \in Nat /\ payload \in Nat
            /\ consumed = payload + packetBufferOffset
            /\ packetBufferOffset + packetLength = wire[n].size
            /\ arrived <= total
        BY <1>2, <1>5
      <4>2. consumed + r <= arrived
        BY <1>1
      <4> QED
        BY <3>1, <4>1, <4>2
    <3>3. n = Len(handled) + 1 /\ Len(handled) < Len(wire)
          /\ payload = wire[n].from + Header
      BY <1>2
    <3> QED
      BY <2>1, <3>1, <3>2, <3>3 DEF ReaderInStep
  <2> QED
    BY <1>3, <2>2, <2>3, <2>4 DEF IInv
<1> QED
  BY <1>4, <1>5

(* Nothing the invariant speaks of changes. *)
LEMMA StutterIInv == IInv /\ UNCHANGED vars => IInv'
  BY DEF IInv, TypeOK, WireIsGapless, WireIsOrdered, HandledInOrder,
         ReaderInStep, EndOf, vars, wireVars, readVars

(* When headers are read whole, the reader stays in step with the wire for  *)
(* ever: _dataReady hands up the messages of the server, each one whole and *)
(* in order, however their payloads are cut up on the way.                  *)
THEOREM Invariance == ASSUME WholeHeaders PROVE Spec => []IInv
<1>1. IInv /\ [Next]_vars => IInv'
  BY SendMessageIInv, ArriveIInv, ReadHeaderIInv, ReadPayloadIInv, StutterIInv
  DEF Next, DataReady
<1> QED
  BY <1>1, InitIInv, PTL DEF Spec

(* What is handled, its headers put back, is a part of the wire. *)
LEMMA Received ==
    IInv => [i \in DOMAIN handled |-> Unframed(handled[i])]
                = [i \in 1 .. Len(handled) |-> wire[i]]
<1> SUFFICES ASSUME IInv, NEW i \in DOMAIN handled
             PROVE  Unframed(handled[i]) = wire[i]
  BY PieceTypes DEF IInv
<1>1. /\ i \in DOMAIN wire
      /\ handled[i] = Piece(wire[i].from + Header, wire[i].size)
  BY PieceTypes DEF IInv, HandledInOrder
<1>2. wire[i] \in Pieces /\ wire[i].from \in Nat
  BY <1>1, PieceTypes DEF IInv
<1>3. Unframed(handled[i]) = Piece(wire[i].from, wire[i].size)
  BY <1>1, <1>2, FramingAssumption DEF Unframed, Piece
<1> QED
  BY <1>2, <1>3 DEF Piece, Pieces

(* One more message handled is one more message received. *)
LEMMA ReceiveStep ==
    ASSUME IInv, IInv', wire' = wire, NEW x, handled' = Append(handled, x)
    PROVE  Channel!Receive
<1> DEFINE n == Len(handled) + 1
           rec == [i \in DOMAIN handled |-> Unframed(handled[i])]
           upto(k) == [i \in 1 .. k |-> wire[i]]
<1>1. /\ Len(handled) \in Nat /\ Len(wire) \in Nat
      /\ DOMAIN wire = 1 .. Len(wire)
      /\ \A i \in 1 .. Len(wire) : wire[i] \in Pieces
  BY PieceTypes DEF IInv
<1>2. Len(handled') = n /\ n <= Len(wire)
  <2>1. handled \in Seq(Pieces) /\ handled' \in Seq(Pieces)
    BY DEF IInv, TypeOK
  <2>2. Len(handled') = n
    BY <2>1
  <2>3. Len(handled') <= Len(wire')
    BY DEF IInv, HandledInOrder
  <2> QED
    BY <2>2, <2>3
<1>3. rec = upto(Len(handled))
  BY Received
<1>4. rec' = upto(n)
  <2>1. (IInv => rec = [i \in 1 .. Len(handled) |-> wire[i]])'
    BY Received, PTL
  <2> QED
    BY <1>2, <2>1
<1>5. upto(Len(handled)) \in Seq(Pieces) /\ Len(upto(Len(handled))) = Len(handled)
  BY <1>1, <1>2
<1>6. upto(n) = Append(upto(Len(handled)), wire[n])
  BY <1>1, <1>2, <1>5
<1> QED
  BY <1>1, <1>2, <1>3, <1>4, <1>5, <1>6 DEF Channel!Receive

(* The reader implements the control channel that promises just that. *)
THEOREM Implementation == ASSUME WholeHeaders PROVE Spec => ImplementsChannel
<1> USE FramingAssumption
<1> DEFINE rec == [i \in DOMAIN handled |-> Unframed(handled[i])]
<1>1. Init => Channel!Init
  BY DEF Init, Channel!Init
<1>2. IInv /\ IInv' /\ [Next]_vars => [Channel!Next]_(Channel!vars)
  <2> SUFFICES ASSUME IInv, IInv', [Next]_vars
               PROVE  Channel!Next \/ UNCHANGED Channel!vars
    OBVIOUS
  <2>1. CASE SendMessage
    <3>1. PICK size \in Sizes : wire' = Append(wire, Piece(total, size))
      BY <2>1 DEF SendMessage
    <3>2. handled' = handled
      BY <2>1 DEF SendMessage
    <3>3. /\ wire \in Seq(Pieces) /\ Piece(total, size) \in Pieces
          /\ Len(wire) \in Nat
      BY DEF IInv, TypeOK, Piece, Pieces
    <3>4. Len(wire') = Len(wire) + 1 /\ wire'[Len(wire) + 1] = Piece(total, size)
      BY <3>1, <3>3
    <3>5. Channel!Send
      BY <3>1, <3>2, <3>4 DEF Channel!Send
    <3> QED
      BY <3>5 DEF Channel!Next
  <2>2. CASE Arrive
    BY <2>2 DEF Arrive, readVars, Channel!vars, Unframed, Piece
  <2>3. CASE DataReady
    <3>1. wire' = wire
      BY <2>3 DEF DataReady, ReadHeader, LengthAfterHeader, OffsetAtFirst, ReadPayload, OffsetAfter, wireVars
    <3>2. CASE handled' = handled
      BY <3>1, <3>2 DEF Channel!vars, Unframed, Piece
    <3>3. CASE \E x : handled' = Append(handled, x)
      BY <3>1, <3>3, ReceiveStep DEF Channel!Next
    <3>4. handled' = handled \/ \E x : handled' = Append(handled, x)
      BY <2>3 DEF DataReady, ReadHeader, LengthAfterHeader, OffsetAtFirst, ReadPayload, OffsetAfter
    <3> QED
      BY <3>2, <3>3, <3>4
  <2>4. CASE UNCHANGED vars
    BY <2>4 DEF vars, wireVars, readVars, Channel!vars, Unframed, Piece
  <2> QED
    BY <2>1, <2>2, <2>3, <2>4 DEF Next
<1> QED
  BY <1>1, <1>2, Invariance, PTL DEF Spec, ImplementsChannel, Channel!Spec
================================================================================
