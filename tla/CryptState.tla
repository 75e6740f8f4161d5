------------------------------ MODULE CryptState -------------------------------
(***************************************************************************)
(* One direction of the encrypted UDP voice channel: a CryptState that     *)
(* encrypts, the network, and a CryptState that decrypts.                  *)
(*                                                                         *)
(* The code keeps a 16 byte little-endian counter as initialisation vector *)
(* and sends its lowest byte only; the receiver guesses the other fifteen  *)
(* from its own counter.  Here a vector is a pair: lo is byte 0 and hi the *)
(* number in bytes 1..15, so that iv[1] is hi % HB.  The ciphertext is     *)
(* abstracted to the nonce and key it was made with: the tag of a datagram *)
(* matches exactly when the receiver decrypts it with that key and nonce.  *)
(*                                                                         *)
(* Datagrams stay in net for ever, so the network may lose, duplicate and  *)
(* reorder them.                                                           *)
(***************************************************************************)
EXTENDS Integers, FiniteSets

CONSTANTS
    LB,              \* values of iv[0]: 256 in the code
    Half,            \* LB / 2, the largest gap the receiver can bridge
    Window,          \* how far behind a late datagram may be: 30 in the code
    HB,              \* values of iv[1]: 256 in the code
    MaxHi,           \* bound: the sender stops before hi passes it
    MaxKey,          \* bound: the number of keys the server generates
    Start,           \* vectors the server may generate, a set of [hi, lo]
    HistGarbage,     \* contents decrypt_history may have before its first use
    ServerEncrypts   \* which end is the server's

ASSUME ConstAssumption ==
    /\ LB \in Nat /\ Half \in Nat /\ Window \in Nat /\ HB \in Nat
    /\ LB = 2 * Half /\ 0 < Window /\ Window <= Half /\ 0 < HB
    /\ MaxHi \in Nat /\ MaxKey \in Nat
    /\ Start \subseteq [hi : 0 .. MaxHi, lo : 0 .. LB - 1]
    /\ HistGarbage \subseteq [0 .. LB - 1 -> 0 .. HB - 1]
    /\ ServerEncrypts \in BOOLEAN

VARIABLES
    start,      \* start[k]: the vector that goes with key k
    encKey,     \* the encrypting end: number of its key, 0 before setKey,
    encValid,   \*   bInit,
    encIV,      \*   encrypt_iv
    net,        \* every datagram sent so far
    decKey,     \* the decrypting end: number of its key, 0 before setKey,
    decIV,      \*   decrypt_iv,
    history,    \*   decrypt_history,
    uiGood,     \*   and its counters, from their value at creation
    uiLate,
    uiLost,
    delivered   \* the datagrams decrypt has returned true for

encVars == <<encKey, encValid, encIV, net>>
counters == <<uiGood, uiLate, uiLost>>
decVars == <<decKey, decIV, history, counters, delivered>>
vars == <<start, encVars, decVars>>

Byte == 0 .. LB - 1
Vector == [hi : 0 .. MaxHi, lo : Byte]
Datagram == [key : 0 .. MaxKey, hi : 0 .. MaxHi, lo : Byte]

Byte1(hi) == hi % HB

(* Incrementing the vector carries into bytes 1..15 when byte 0 wraps. *)
Succ(v) ==
    IF v.lo = LB - 1 THEN [hi |-> v.hi + 1, lo |-> 0]
                     ELSE [hi |-> v.hi, lo |-> v.lo + 1]

--------------------------------------------------------------------------------
(* How decrypt classifies the byte b of a datagram against its vector v. *)

InOrder(v, b) == b = Succ(v).lo

(* Mutant: the distance is not brought back to the shorter way round. *)
DiffStraight(v, b) == b - v.lo

(* The signed distance from byte 0 of v to b, the shorter way round. *)
Diff(v, b) ==
    LET d == b - v.lo
    IN  IF d > Half THEN d - LB ELSE IF d < -Half THEN d + LB ELSE d

Late(v, b) == ~InOrder(v, b) /\ -Window < Diff(v, b) /\ Diff(v, b) < 0

Ahead(v, b) == ~InOrder(v, b) /\ Diff(v, b) > 0

(* The vector decrypt rebuilds from b: bytes 1..15 move up when a datagram *)
(* from the next round of byte 0 arrives, and down when one from the last  *)
(* round does.                                                             *)
Rebuilt(v, b) ==
    [hi |-> IF Late(v, b) /\ b > v.lo THEN v.hi - 1
            ELSE IF ~Late(v, b) /\ b < v.lo THEN v.hi + 1
            ELSE v.hi,
     lo |-> b]

(* Mutant: decrypt_history is not looked at. *)
SeenNever(v, b) == FALSE

(* decrypt refuses an out-of-order datagram when the last datagram accepted *)
(* with this byte 0 had the same byte 1.                                    *)
SeenBefore(v, b) == history[b] = Byte1(Rebuilt(v, b).hi)

TagMatches(d) ==
    /\ d.key = decKey
    /\ d.key # 0
    /\ Rebuilt(decIV, d.lo) = [hi |-> d.hi, lo |-> d.lo]

Accepts(d) ==
    /\ \/ InOrder(decIV, d.lo)
       \/ /\ Late(decIV, d.lo) \/ Ahead(decIV, d.lo)
          /\ ~SeenBefore(decIV, d.lo)
    /\ TagMatches(d)

(* Mutant: what is lost while byte 0 wraps is not counted. *)
SkippedInRound(v, b) ==
    CASE Late(v, b) -> -1
      [] InOrder(v, b) -> 0
      [] OTHER -> IF b > v.lo THEN b - v.lo - 1 ELSE 0

(* The datagrams skipped by moving from v to the vector rebuilt from b. *)
Skipped(v, b) ==
    CASE Late(v, b) -> -1
      [] InOrder(v, b) -> 0
      [] OTHER -> IF b > v.lo THEN b - v.lo - 1 ELSE LB - v.lo + b - 1

(* Mutant: the datagram is not recorded. *)
RecordedNever(d) == history

Recorded(d) == [history EXCEPT ![d.lo] = Byte1(d.hi)]

(* Mutant: decrypt_iv is not put back after a late datagram. *)
VectorFollows(d) == Rebuilt(decIV, d.lo)

(* decrypt_iv after d is accepted: a late datagram leaves it where it was. *)
VectorAfter(d) == IF Late(decIV, d.lo) THEN decIV ELSE Rebuilt(decIV, d.lo)

--------------------------------------------------------------------------------
(* The client's CryptState is allocated with malloc and its constructor is *)
(* never run: bInit, the vectors and decrypt_history hold whatever was in  *)
(* the memory.  The server's is a properly built one.                      *)
Init ==
    /\ start \in [1 .. MaxKey -> Start]
    /\ encKey = 0
    /\ encValid \in IF ServerEncrypts THEN {FALSE} ELSE BOOLEAN
    /\ encIV \in Start
    /\ net = {}
    /\ decKey = 0
    /\ decIV \in Start
    /\ history \in IF ServerEncrypts THEN HistGarbage
                                     ELSE {[b \in Byte |-> 0]}
    /\ uiGood = 0 /\ uiLate = 0 /\ uiLost = 0
    /\ delivered = {}

(* setKey.  The server generates a fresh key and fresh vectors and installs *)
(* them at once; the client installs them when the CryptSetup message       *)
(* arrives over TCP.  decrypt_history and the counters are kept.            *)
SetEncryptKey ==
    /\ encKey < MaxKey
    /\ ServerEncrypts \/ encKey < decKey
    /\ encKey' = encKey + 1
    /\ encIV' = start[encKey + 1]
    /\ encValid' = TRUE
    /\ UNCHANGED <<start, net, decVars>>

SetDecryptKey ==
    /\ decKey < MaxKey
    /\ ~ServerEncrypts \/ decKey < encKey
    /\ decKey' = decKey + 1
    /\ decIV' = start[decKey + 1]
    /\ UNCHANGED <<start, encVars, history, counters, delivered>>

Encrypt ==
    /\ encValid
    /\ Succ(encIV).hi <= MaxHi
    /\ encIV' = Succ(encIV)
    /\ net' = net \cup {[key |-> encKey, hi |-> encIV'.hi, lo |-> encIV'.lo]}
    /\ UNCHANGED <<start, encKey, encValid, decVars>>

(* decrypt returning true. *)
DecryptAccept(d) ==
    /\ Accepts(d)
    /\ history' = Recorded(d)
    /\ decIV' = VectorAfter(d)
    /\ uiGood' = uiGood + 1
    /\ uiLate' = uiLate + (IF Late(decIV, d.lo) THEN 1 ELSE 0)
    /\ uiLost' = uiLost + Skipped(decIV, d.lo)
    /\ delivered' = delivered \cup {d}
    /\ UNCHANGED <<start, encVars, decKey>>

(* decrypt returning false: whatever it changed on the way is put back. *)
DecryptRefuse(d) ==
    /\ ~Accepts(d)
    /\ UNCHANGED vars

Decrypt == \E d \in net : DecryptAccept(d) \/ DecryptRefuse(d)

Next == SetEncryptKey \/ SetDecryptKey \/ Encrypt \/ Decrypt

Spec == Init /\ [][Next]_vars

--------------------------------------------------------------------------------
TypeOK ==
    /\ start \in [1 .. MaxKey -> Vector]
    /\ encKey \in 0 .. MaxKey
    /\ encValid \in BOOLEAN
    /\ encIV \in Vector
    /\ net \subseteq Datagram
    /\ decKey \in 0 .. MaxKey
    /\ decIV \in Vector
    /\ history \in [Byte -> 0 .. HB - 1]
    /\ uiGood \in Nat /\ uiLate \in Nat /\ uiLost \in Int
    /\ delivered \subseteq Datagram

(* v is at or before w in the order in which vectors are used. *)
AtOrBefore(v, w) == v.hi < w.hi \/ (v.hi = w.hi /\ v.lo <= w.lo)

(* How far v is behind w, when it is less than one round of byte 0. *)
WithinWindow(v, w) ==
    \/ v.hi = w.hi /\ v.lo <= w.lo /\ w.lo - v.lo < Window
    \/ v.hi = w.hi - 1 /\ v.lo > w.lo /\ w.lo + LB - v.lo < Window

(* Everything accepted under the current key is at or before decrypt_iv.   *)
NothingAhead ==
    \A d \in delivered : d.key = decKey => AtOrBefore(d, decIV)

(* Every datagram that could still be taken for a late one and has been    *)
(* accepted is remembered in decrypt_history.                              *)
WindowRemembered ==
    \A d \in delivered :
        d.key = decKey /\ WithinWindow(d, decIV) => history[d.lo] = Byte1(d.hi)

DeliveredWasSent == delivered \subseteq net

(* Neither end has used a key it has not installed yet, and the sender has *)
(* used no vector of its current key beyond encrypt_iv.                    *)
KeysInstalled ==
    /\ \A d \in delivered : d.key <= decKey
    /\ \A d \in net : d.key <= encKey

VectorsUsed == \A d \in net : d.key = encKey => AtOrBefore(d, encIV)

(* The inductive invariant. *)
IInv ==
    /\ TypeOK
    /\ DeliveredWasSent
    /\ KeysInstalled
    /\ VectorsUsed
    /\ NothingAhead
    /\ WindowRemembered

(* decrypt never returns true twice for the same datagram, however often   *)
(* the network repeats it, in whatever order, across wrap-arounds of       *)
(* iv[0] and across a change of key that keeps the old decrypt_history.    *)
AtMostOnce ==
    [][uiGood' # uiGood =>
          \E d \in net \ delivered : delivered' = delivered \cup {d}]_vars

(* The vector only moves forward while the key stays: a late datagram or a *)
(* refused one never rewinds it.                                           *)
NeverRewinds ==
    [][decKey' = decKey => AtOrBefore(decIV, decIV')]_vars

(* uiLost is an unsigned counter that a late datagram decrements: it never *)
(* goes below what it was when the CryptState was made.                    *)
LostNeverNegative == uiLost >= 0

(* The place of a vector in the order of use. *)
Pos(v) == LB * v.hi + v.lo

(* A genuine datagram that is less than Half ahead of decrypt_iv, or less  *)
(* than Window behind it and not delivered yet, is accepted, unless it is  *)
(* out of order and decrypt_history still holds, from an earlier round, an *)
(* earlier key or the uninitialised memory, the byte it would store.       *)
(* (A gap of exactly Half is bridged only when byte 0 does not wrap in it: *)
(* a difference of -128 is not normalised, one of 128 is not either.)      *)
InReach(d) ==
    LET gap == Pos(d) - Pos(decIV) IN -Window < gap /\ gap < Half

ReachableIsAccepted ==
    \A d \in net \ delivered :
        d.key = decKey /\ d.key # 0 /\ InReach(d) =>
            \/ Accepts(d)
            \/ Pos(d) # Pos(decIV) + 1 /\ history[d.lo] = Byte1(d.hi)

(* The channel above: what it promises. *)
Channel == INSTANCE VoiceDelivery WITH
    sent <- net, count <- uiGood

ImplementsChannel == Channel!Spec
================================================================================
