----------------------------- MODULE MessageFraming -----------------------------
(***************************************************************************)
(* The receiving side of the control channel: _dataReady of MKConnection   *)
(* cuts the byte stream of the TLS connection into messages.               *)
(*                                                                         *)
(* A message on the wire is a header of Header bytes, which holds the size *)
(* of the payload, and the payload.  Bytes are known by their position in  *)
(* the stream: a message and what is cut out for one are intervals of      *)
(* positions.  A header read at a position where none begins holds any     *)
(* size.                                                                   *)
(***************************************************************************)
EXTENDS Integers, Sequences

CONSTANTS
    Header,         \* size of a header: 6 in the code
    Sizes,          \* sizes of payloads, and sizes junk may be taken for
    MaxMessages,    \* bound: the number of messages the server sends
    WholeHeaders    \* a read is never cut short within a header

ASSUME FramingAssumption ==
    /\ Header \in Nat \ {0} /\ Sizes \subseteq Nat /\ MaxMessages \in Nat
    /\ WholeHeaders \in BOOLEAN

VARIABLES
    wire,           \* the messages the server has sent, headers included
    total,          \* number of bytes the server has sent
    arrived,        \* number of bytes that can be read
    consumed,       \* number of bytes that have been read
    packetLength,   \* bytes missing from the payload, -1: no payload begun
    packetBufferOffset, \* bytes of the payload in packetBuffer
    payload,        \* position of the first byte in packetBuffer
    handled         \* the payloads given to _messageRecieved

wireVars == <<wire, total, arrived>>
readVars == <<consumed, packetLength, packetBufferOffset, payload>>
vars == <<wireVars, readVars, handled>>

Piece(from, size) == [from |-> from, size |-> size]

Init ==
    /\ wire = <<>> /\ total = 0 /\ arrived = 0
    /\ consumed = 0
    /\ packetLength = -1 /\ packetBufferOffset = 0 /\ payload = 0
    /\ handled = <<>>

SendMessage ==
    /\ Len(wire) < MaxMessages
    /\ \E size \in Sizes :
          /\ wire' = Append(wire, Piece(total, size))
          /\ total' = total + Header + size
    /\ UNCHANGED <<arrived, readVars, handled>>

(* Some of the bytes on their way arrive. *)
Arrive ==
    /\ \E n \in arrived + 1 .. total : arrived' = n
    /\ UNCHANGED <<wire, total, readVars, handled>>

(* What read may return when asked for at most max bytes.  The results 0    *)
(* and -1, of a stream that has ended or failed, are left out: nothing is   *)
(* read from it any more.                                                   *)
Readable(max) == {n \in 1 .. max : consumed + n <= arrived}

(* The sizes the header that begins at position p may hold. *)
SizesAt(p) ==
    IF \E i \in DOMAIN wire : wire[i].from = p
    THEN {wire[i].size : i \in {j \in DOMAIN wire : wire[j].from = p}}
    ELSE Sizes

(* Mutant: a message without payload waits for more. *)
LengthFrom(size) == size

LengthAfterHeader(size) == IF size = 0 THEN -1 ELSE size

(* Mutant: the payload goes where the last one ended. *)
OffsetOfLast == packetBufferOffset

OffsetAtFirst == 0

(* Mutant: every part of a payload goes to the same place. *)
OffsetStays(n) == packetBufferOffset

OffsetAfter(n) == packetBufferOffset + n

(* A header, or a part of one that is thrown away.  A message without       *)
(* payload is done at once.                                                 *)
ReadHeader ==
    /\ packetLength = -1
    /\ \E n \in Readable(Header) :
          /\ WholeHeaders => n = Header
          /\ consumed' = consumed + n
          /\ IF n < Header
             THEN UNCHANGED <<packetLength, packetBufferOffset, payload, handled>>
             ELSE \E size \in SizesAt(consumed) :
                     /\ packetLength' = LengthAfterHeader(size)
                     /\ packetBufferOffset' = OffsetAtFirst
                     /\ payload' = consumed + Header
                     /\ handled' = IF size = 0
                                   THEN Append(handled, Piece(payload', 0))
                                   ELSE handled
    /\ UNCHANGED wireVars

(* A part of the payload.  The first one is read in the same call as the    *)
(* header: read then blocks until a byte arrives.                           *)
ReadPayload ==
    /\ packetLength > 0
    /\ \E n \in Readable(packetLength) :
          /\ consumed' = consumed + n
          /\ packetBufferOffset' = OffsetAfter(n)
          /\ packetLength' = IF n = packetLength THEN -1 ELSE packetLength - n
          /\ handled' = IF n = packetLength
                        THEN Append(handled, Piece(payload, packetBufferOffset'))
                        ELSE handled
    /\ UNCHANGED <<wireVars, payload>>

DataReady == ReadHeader \/ ReadPayload

Next == SendMessage \/ Arrive \/ DataReady

(* TCP delivers what was sent, and the run loop reads what has arrived. *)
Fairness == WF_vars(Arrive) /\ WF_vars(DataReady)

Spec == Init /\ [][Next]_vars /\ Fairness

--------------------------------------------------------------------------------
Pieces == [from : Nat, size : Nat]

TypeOK ==
    /\ wire \in Seq(Pieces)
    /\ \A i \in DOMAIN wire : wire[i].size \in Sizes
    /\ total \in Nat /\ arrived \in Nat /\ consumed \in Nat
    /\ packetLength \in Nat \cup {-1}
    /\ packetBufferOffset \in Nat /\ payload \in Nat
    /\ handled \in Seq(Pieces)

(* The messages lie one after the other on the wire. *)
WireIsGapless ==
    /\ wire = <<>> => total = 0
    /\ wire # <<>> => wire[1].from = 0
    /\ \A i \in DOMAIN wire :
          wire[i].from + Header + wire[i].size =
              IF i = Len(wire) THEN total ELSE wire[i + 1].from

(* Later messages begin at later positions. *)
WireIsOrdered ==
    \A i, j \in DOMAIN wire :
        /\ wire[i].from < total
        /\ i < j => wire[i].from < wire[j].from

(* The number of bytes after which the first n messages are complete. *)
EndOf(n) == IF n = 0 THEN 0 ELSE wire[n].from + Header + wire[n].size

(* What has been handled is what was sent, message by message. *)
HandledInOrder ==
    /\ Len(handled) <= Len(wire)
    /\ \A i \in DOMAIN handled :
          handled[i] = Piece(wire[i].from + Header, wire[i].size)

(* Between messages the reader stands at the end of the last one handled;   *)
(* within one it knows where the payload begins, how much of it it has and  *)
(* how much is missing.                                                     *)
ReaderInStep ==
    LET n == Len(handled)
    IN  /\ consumed <= arrived /\ arrived <= total
        /\ packetLength = -1 => consumed = EndOf(n)
        /\ packetLength # -1 =>
              /\ n < Len(wire)
              /\ packetLength > 0
              /\ payload = wire[n + 1].from + Header
              /\ consumed = payload + packetBufferOffset
              /\ packetBufferOffset + packetLength = wire[n + 1].size

(* The inductive invariant, when reads are never cut short in a header. *)
IInv ==
    TypeOK /\ WireIsGapless /\ WireIsOrdered /\ HandledInOrder /\ ReaderInStep

(* Every message is handled in the end. *)
AllHandled == Len(handled) < Len(wire) ~> Len(handled) = Len(wire)

(* The control channel above. *)
Unframed(p) == Piece(p.from - Header, p.size)

Channel == INSTANCE MessageChannel WITH
    sent <- wire,
    received <- [i \in DOMAIN handled |-> Unframed(handled[i])]

ImplementsChannel == Channel!Spec

(* "fills it internal buffer until it has received a full Mumble message":  *)
(* what is handled is a message, also when a header arrives in two parts.   *)
FullMessagesHandled ==
    \A i \in DOMAIN handled :
        \E j \in DOMAIN wire :
            handled[i] = Piece(wire[j].from + Header, wire[j].size)
================================================================================
