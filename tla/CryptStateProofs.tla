--------------------------- MODULE CryptStateProofs ----------------------------
(***************************************************************************)
(* Proofs about CryptState, for every size of the vector's bytes, window,  *)
(* start vector and content of uninitialised memory.                       *)
(***************************************************************************)
EXTENDS CryptState, FiniteSetTheorems, TLAPS

--------------------------------------------------------------------------------
(* Lemmas about the arithmetic of vectors.  They hold of everything with a *)
(* byte 0 and a higher part: vectors, and datagrams.                       *)
Placed(v) == v.hi \in Int /\ v.lo \in Byte

(* A byte is a number below LB. *)
LEMMA ByteRange ==
    ASSUME NEW b \in Byte
    PROVE  b \in Int /\ 0 <= b /\ b < LB
  BY ConstAssumption DEF Byte

(* iv[1] is a byte. *)
LEMMA Byte1Type ==
    ASSUME NEW hi \in Int
    PROVE  Byte1(hi) \in 0 .. HB - 1
  BY ConstAssumption DEF Byte1

(* The next vector comes strictly after every vector at or before this one. *)
LEMMA SuccIsAfter ==
    ASSUME NEW v, NEW w, Placed(v), Placed(w), AtOrBefore(w, v)
    PROVE  /\ Placed(Succ(v))
           /\ AtOrBefore(w, Succ(v))
           /\ ~AtOrBefore(Succ(v), w)
<1>1. /\ v.hi \in Int /\ v.lo \in Int /\ 0 <= v.lo /\ v.lo < LB
      /\ w.hi \in Int /\ w.lo \in Int /\ 0 <= w.lo /\ w.lo < LB
  BY ByteRange DEF Placed
<1>2. CASE v.lo = LB - 1
  <2>1. Succ(v).hi = v.hi + 1 /\ Succ(v).lo = 0
    BY <1>2 DEF Succ
  <2> QED
    BY <1>1, <2>1, ConstAssumption DEF Placed, Byte, AtOrBefore
<1>3. CASE v.lo # LB - 1
  <2>1. Succ(v).hi = v.hi /\ Succ(v).lo = v.lo + 1
    BY <1>3 DEF Succ
  <2> QED
    BY <1>1, <1>3, <2>1, ConstAssumption DEF Placed, Byte, AtOrBefore
<1> QED
  BY <1>2, <1>3

(* What decrypt rebuilds from a byte it does not refuse outright: for a late *)
(* datagram a vector inside the window, otherwise one after decrypt_iv.      *)
LEMMA RebuiltPlace ==
    ASSUME NEW v, Placed(v), NEW b \in Byte,
           InOrder(v, b) \/ Late(v, b) \/ Ahead(v, b)
    PROVE  /\ Placed(Rebuilt(v, b))
           /\ Rebuilt(v, b).lo = b
           /\ Late(v, b) => WithinWindow(Rebuilt(v, b), v)
           /\ ~Late(v, b) => /\ AtOrBefore(v, Rebuilt(v, b))
                             /\ ~AtOrBefore(Rebuilt(v, b), v)
<1> DEFINE r == Rebuilt(v, b)
<1>1. /\ v.hi \in Int /\ v.lo \in Int /\ 0 <= v.lo /\ v.lo < LB
      /\ b \in Int /\ 0 <= b /\ b < LB
  BY ByteRange DEF Placed
<1>2. Placed(r) /\ r.lo = b
  BY <1>1 DEF Rebuilt, Placed
<1>3. CASE Late(v, b)
  <2>1. Diff(v, b) < 0 /\ -Window < Diff(v, b)
    BY <1>3 DEF Late
  <2>2. CASE b > v.lo
    <3>1. r.hi = v.hi - 1
      BY <1>3, <2>2 DEF Rebuilt
    <3>2. v.lo + LB - b < Window
      BY <2>1, <2>2, <1>1, ConstAssumption DEF Diff
    <3> QED
      BY <1>1, <1>2, <1>3, <2>2, <3>1, <3>2 DEF WithinWindow
  <2>3. CASE ~(b > v.lo)
    <3>1. r.hi = v.hi
      BY <1>3, <2>3 DEF Rebuilt
    <3>2. b <= v.lo /\ v.lo - b < Window
      BY <2>1, <2>3, <1>1, ConstAssumption DEF Diff
    <3> QED
      BY <1>1, <1>2, <1>3, <2>3, <3>1, <3>2 DEF WithinWindow
  <2> QED
    BY <2>2, <2>3
<1>4. CASE ~Late(v, b)
  <2>1. b # v.lo
    <3>1. CASE InOrder(v, b)
      BY <3>1, <1>1, ConstAssumption DEF InOrder, Succ
    <3>2. CASE Ahead(v, b)
      BY <3>2, <1>1, ConstAssumption DEF Ahead, Diff
    <3> QED
      BY <1>4, <3>1, <3>2
  <2>2. CASE b < v.lo
    <3>1. r.hi = v.hi + 1
      BY <1>1, <1>4, <2>2 DEF Rebuilt
    <3> QED
      BY <1>1, <1>2, <1>4, <3>1 DEF AtOrBefore
  <2>3. CASE b > v.lo
    <3>1. r.hi = v.hi
      BY <1>1, <1>4, <2>3 DEF Rebuilt
    <3> QED
      BY <1>1, <1>2, <1>4, <2>3, <3>1 DEF AtOrBefore
  <2> QED
    BY <2>1, <2>2, <2>3, <1>1
<1> QED
  BY <1>2, <1>3, <1>4

(* The window moves forward with decrypt_iv: what is inside the window of a *)
(* later vector was already inside the window of an earlier one.            *)
LEMMA WindowMoves ==
    ASSUME NEW v, NEW w, NEW d, Placed(v), Placed(w), Placed(d),
           AtOrBefore(v, w), AtOrBefore(d, v), WithinWindow(d, w)
    PROVE  WithinWindow(d, v)
<1>1. /\ v.hi \in Int /\ v.lo \in Int /\ 0 <= v.lo /\ v.lo < LB
      /\ w.hi \in Int /\ w.lo \in Int /\ 0 <= w.lo /\ w.lo < LB
      /\ d.hi \in Int /\ d.lo \in Int /\ 0 <= d.lo /\ d.lo < LB
  BY ByteRange DEF Placed
<1>2. CASE d.hi = w.hi
  <2>1. v.hi = d.hi /\ d.lo <= v.lo /\ v.lo <= w.lo /\ w.lo - d.lo < Window
    BY <1>1, <1>2 DEF AtOrBefore, WithinWindow
  <2> QED
    BY <1>1, <2>1, ConstAssumption DEF WithinWindow
<1>3. CASE d.hi # w.hi
  <2>1. d.hi = w.hi - 1 /\ d.lo > w.lo /\ w.lo + LB - d.lo < Window
    BY <1>3 DEF WithinWindow
  <2>2. CASE v.hi = w.hi
    <3>1. v.lo <= w.lo
      BY <1>1, <2>2 DEF AtOrBefore
    <3>2. v.lo + LB - d.lo < Window
      BY <1>1, <2>1, <3>1, ConstAssumption
    <3> QED
      BY <1>1, <2>1, <2>2, <3>1, <3>2 DEF WithinWindow
  <2>3. CASE v.hi # w.hi
    <3>1. v.hi = d.hi /\ d.lo <= v.lo
      BY <1>1, <2>1, <2>3 DEF AtOrBefore
    <3>2. v.lo - d.lo < Window
      BY <1>1, <2>1, ConstAssumption
    <3> QED
      BY <3>1, <3>2 DEF WithinWindow
  <2> QED
    BY <2>2, <2>3
<1> QED
  BY <1>2, <1>3

(* Two vectors of one window that share byte 0 are the same vector. *)
LEMMA WindowIsInjective ==
    ASSUME NEW v, NEW d, NEW e, Placed(v), Placed(d), Placed(e),
           WithinWindow(d, v), WithinWindow(e, v), d.lo = e.lo
    PROVE  d.hi = e.hi
<1>1. /\ v.hi \in Int /\ v.lo \in Int /\ 0 <= v.lo /\ v.lo < LB
      /\ d.hi \in Int /\ d.lo \in Int /\ 0 <= d.lo /\ d.lo < LB
      /\ e.hi \in Int
  BY ByteRange DEF Placed
<1> QED
  BY <1>1, ConstAssumption DEF WithinWindow

(* A vector is inside its own window. *)
LEMMA WindowIncludesItself ==
    ASSUME NEW v, Placed(v)
    PROVE  WithinWindow(v, v) /\ AtOrBefore(v, v)
<1>1. v.hi \in Int /\ v.lo \in Int
  BY ByteRange DEF Placed
<1> QED
  BY <1>1, ConstAssumption DEF WithinWindow, AtOrBefore

--------------------------------------------------------------------------------
(* The inductive invariant. *)

LEMMA VectorsArePlaced ==
    ASSUME TypeOK
    PROVE  /\ Placed(encIV) /\ Placed(decIV)
           /\ \A d \in net : Placed(d) /\ d.key \in Int
           /\ \A d \in delivered : Placed(d) /\ d.key \in Int
           /\ encKey \in Int /\ decKey \in Int
  BY DEF TypeOK, Placed, Vector, Datagram

LEMMA InitIInv == Init => IInv
<1> SUFFICES ASSUME Init PROVE IInv
  OBVIOUS
<1>1. Start \subseteq Vector /\ 0 \in 0 .. MaxKey
  BY ConstAssumption DEF Vector, Byte
<1>2. history \in [Byte -> 0 .. HB - 1]
  <2>1. [b \in Byte |-> 0] \in [Byte -> 0 .. HB - 1]
    BY ConstAssumption
  <2> QED
    BY <2>1, ConstAssumption DEF Init, Byte
<1>3. start \in [1 .. MaxKey -> Vector]
  BY <1>1 DEF Init
<1>4. encValid \in BOOLEAN
  BY DEF Init
<1>5. TypeOK
  BY <1>1, <1>2, <1>3, <1>4 DEF Init, TypeOK
<1> QED
  BY <1>5 DEF Init, IInv, DeliveredWasSent, KeysInstalled, VectorsUsed,
              NothingAhead, WindowRemembered

LEMMA SetEncryptKeyIInv ==
    ASSUME IInv, SetEncryptKey
    PROVE  IInv'
<1>1. /\ encKey' \in 0 .. MaxKey /\ encKey' \in 1 .. MaxKey
      /\ encKey' > encKey /\ encKey \in Int
  BY ConstAssumption DEF IInv, TypeOK, SetEncryptKey
<1>2. encIV' \in Vector
  BY <1>1 DEF IInv, TypeOK, SetEncryptKey
<1>3. TypeOK'
  BY <1>1, <1>2 DEF IInv, TypeOK, SetEncryptKey, decVars, counters
<1>4. \A d \in net : d.key \in Int /\ d.key < encKey'
  BY <1>1, VectorsArePlaced DEF IInv, KeysInstalled
<1>5. KeysInstalled' /\ VectorsUsed'
  BY <1>1, <1>4 DEF IInv, KeysInstalled, VectorsUsed, SetEncryptKey, decVars
<1> QED
  BY <1>3, <1>5 DEF IInv, DeliveredWasSent, NothingAhead, WindowRemembered,
                    SetEncryptKey, decVars

LEMMA SetDecryptKeyIInv ==
    ASSUME IInv, SetDecryptKey
    PROVE  IInv'
<1>1. /\ decKey' \in 0 .. MaxKey /\ decKey' \in 1 .. MaxKey
      /\ decKey' > decKey /\ decKey \in Int
  BY ConstAssumption DEF IInv, TypeOK, SetDecryptKey
<1>2. decIV' \in Vector
  BY <1>1 DEF IInv, TypeOK, SetDecryptKey
<1>3. TypeOK'
  BY <1>1, <1>2 DEF IInv, TypeOK, SetDecryptKey, encVars, counters
<1>4. \A d \in delivered : d.key \in Int /\ d.key < decKey'
  BY <1>1, VectorsArePlaced DEF IInv, KeysInstalled
<1>5. KeysInstalled' /\ NothingAhead' /\ WindowRemembered'
  BY <1>1, <1>4 DEF IInv, KeysInstalled, NothingAhead, WindowRemembered,
                    SetDecryptKey, encVars
<1> QED
  BY <1>3, <1>5 DEF IInv, DeliveredWasSent, VectorsUsed, SetDecryptKey, encVars

LEMMA EncryptIInv ==
    ASSUME IInv, Encrypt
    PROVE  /\ IInv'
           /\ \E d \in Datagram \ net : net' = net \cup {d}
<1> DEFINE d == [key |-> encKey, hi |-> encIV'.hi, lo |-> encIV'.lo]
<1>1. encIV' = Succ(encIV) /\ Placed(encIV)
  BY VectorsArePlaced DEF IInv, Encrypt
<1>2. encIV' \in Vector
  <2>1. Placed(encIV') /\ encIV'.hi <= MaxHi
    BY <1>1, SuccIsAfter, WindowIncludesItself DEF Encrypt
  <2>2. encIV'.hi \in 0 .. MaxHi /\ encIV'.lo \in Byte
    BY <1>1, <2>1, ConstAssumption DEF IInv, TypeOK, Vector, Succ, Placed
  <2>3. encIV' = [hi |-> encIV'.hi, lo |-> encIV'.lo]
    BY <1>1 DEF Succ
  <2> QED
    BY <2>2, <2>3 DEF Vector
<1>3. d \in Datagram /\ d.key = encKey /\ d.hi = encIV'.hi /\ d.lo = encIV'.lo
  BY <1>2 DEF IInv, TypeOK, Vector, Datagram
<1>4. net' = net \cup {d}
  BY DEF Encrypt
<1>5. \A e \in net : e.key = encKey =>
          AtOrBefore(e, encIV') /\ ~AtOrBefore(encIV', e)
  BY <1>1, SuccIsAfter, VectorsArePlaced DEF IInv, VectorsUsed
<1>6. AtOrBefore(encIV', encIV') /\ AtOrBefore(d, encIV')
  <2>1. Placed(encIV')
    BY <1>2 DEF Vector, Placed
  <2> QED
    BY <1>3, <2>1, WindowIncludesItself DEF AtOrBefore
<1>7. d \notin net
  <2> SUFFICES ASSUME d \in net PROVE FALSE
    OBVIOUS
  <2>1. ~AtOrBefore(encIV', d)
    BY <1>3, <1>5
  <2> QED
    BY <1>3, <1>6, <2>1 DEF AtOrBefore
<1>8. TypeOK'
  BY <1>2, <1>3, <1>4 DEF IInv, TypeOK, Encrypt, decVars, counters
<1>9. KeysInstalled' /\ VectorsUsed'
  <2>1. \A e \in net' : e.key <= encKey
    BY <1>3, <1>4 DEF IInv, KeysInstalled, TypeOK
  <2>2. \A e \in net' : e.key = encKey => AtOrBefore(e, encIV')
    BY <1>4, <1>5, <1>6
  <2> QED
    BY <2>1, <2>2 DEF IInv, KeysInstalled, VectorsUsed, Encrypt, decVars
<1>10. IInv'
  BY <1>4, <1>8, <1>9 DEF IInv, DeliveredWasSent, NothingAhead,
                          WindowRemembered, Encrypt, decVars
<1> QED
  BY <1>3, <1>4, <1>7, <1>10

(* What an accepted datagram is: genuine, not delivered before, and not     *)
(* after decrypt_iv unless decrypt_iv moves to it.                          *)
LEMMA AcceptFacts ==
    ASSUME IInv, NEW d \in net, DecryptAccept(d)
    PROVE  /\ d \in Datagram /\ d.key = decKey
           /\ Rebuilt(decIV, d.lo) = [hi |-> d.hi, lo |-> d.lo]
           /\ d \notin delivered
           /\ Late(decIV, d.lo) =>
                 WithinWindow(d, decIV) /\ decIV' = decIV
           /\ ~Late(decIV, d.lo) =>
                 /\ decIV' = [hi |-> d.hi, lo |-> d.lo]
                 /\ AtOrBefore(decIV, d) /\ ~AtOrBefore(d, decIV)
<1> DEFINE r == Rebuilt(decIV, d.lo)
<1>1. d \in Datagram /\ d.lo \in Byte /\ Placed(decIV)
  BY VectorsArePlaced DEF IInv, TypeOK, Datagram
<1>2. d.key = decKey /\ r = [hi |-> d.hi, lo |-> d.lo]
  BY DEF DecryptAccept, Recorded, VectorAfter, Accepts, TagMatches
<1>3. r.hi = d.hi /\ r.lo = d.lo
  BY <1>2
<1>4. InOrder(decIV, d.lo) \/ Late(decIV, d.lo) \/ Ahead(decIV, d.lo)
  BY DEF DecryptAccept, Recorded, VectorAfter, Accepts
<1>5. /\ Late(decIV, d.lo) => WithinWindow(d, decIV)
      /\ ~Late(decIV, d.lo) =>
            AtOrBefore(decIV, d) /\ ~AtOrBefore(d, decIV)
  <2>1. /\ Late(decIV, d.lo) => WithinWindow(r, decIV)
        /\ ~Late(decIV, d.lo) =>
              AtOrBefore(decIV, r) /\ ~AtOrBefore(r, decIV)
    BY <1>1, <1>4, RebuiltPlace
  <2> QED
    BY <1>3, <2>1 DEF WithinWindow, AtOrBefore
<1>6. d \notin delivered
  <2>1. CASE Late(decIV, d.lo)
    <3>1. history[d.lo] # Byte1(d.hi)
      <4>1. ~SeenBefore(decIV, d.lo)
        BY <2>1 DEF DecryptAccept, Recorded, VectorAfter, Accepts, Late
      <4> QED
        BY <1>3, <4>1 DEF SeenBefore
    <3> QED
      BY <1>2, <1>5, <2>1, <3>1 DEF IInv, WindowRemembered
  <2>2. CASE ~Late(decIV, d.lo)
    BY <1>2, <1>5, <2>2 DEF IInv, NothingAhead
  <2> QED
    BY <2>1, <2>2
<1> QED
  BY <1>1, <1>2, <1>5, <1>6 DEF DecryptAccept, Recorded, VectorAfter

LEMMA DecryptAcceptIInv ==
    ASSUME IInv, NEW d \in net, DecryptAccept(d)
    PROVE  IInv'
<1>1. /\ d \in Datagram /\ d.key = decKey
      /\ d.hi \in 0 .. MaxHi /\ d.lo \in Byte /\ Placed(d)
      /\ Placed(decIV)
  BY AcceptFacts, VectorsArePlaced DEF IInv, Datagram
<1>2. /\ delivered' = delivered \cup {d}
      /\ history' = [history EXCEPT ![d.lo] = Byte1(d.hi)]
      /\ decKey' = decKey
  BY DEF DecryptAccept, Recorded, VectorAfter
<1>3. /\ decIV' \in Vector /\ Placed(decIV')
      /\ AtOrBefore(decIV, decIV') /\ AtOrBefore(d, decIV')
      /\ WithinWindow(d, decIV')
  <2>1. CASE Late(decIV, d.lo)
    <3>1. decIV' = decIV /\ WithinWindow(d, decIV)
      BY <2>1, AcceptFacts
    <3>2. AtOrBefore(decIV, decIV) /\ AtOrBefore(d, decIV)
      <4>1. AtOrBefore(decIV, decIV)
        BY <1>1, WindowIncludesItself
      <4>2. d.hi \in Int /\ decIV.hi \in Int
        BY <1>1 DEF Placed
      <4> QED
        BY <3>1, <4>1, <4>2 DEF WithinWindow, AtOrBefore
    <3> QED
      BY <1>1, <3>1, <3>2 DEF IInv, TypeOK
  <2>2. CASE ~Late(decIV, d.lo)
    <3>1. /\ decIV' = [hi |-> d.hi, lo |-> d.lo]
          /\ AtOrBefore(decIV, d)
      BY <2>2, AcceptFacts
    <3>2. decIV' \in Vector /\ decIV'.hi = d.hi /\ decIV'.lo = d.lo
      BY <1>1, <3>1 DEF Vector
    <3>3. WithinWindow(d, d) /\ AtOrBefore(d, d)
      BY <1>1, WindowIncludesItself
    <3> QED
      BY <1>1, <3>1, <3>2, <3>3 DEF AtOrBefore, WithinWindow, Placed
  <2> QED
    BY <2>1, <2>2
<1>4. TypeOK'
  <2>1. history' \in [Byte -> 0 .. HB - 1]
    <3>1. Byte1(d.hi) \in 0 .. HB - 1
      BY <1>1, Byte1Type
    <3> QED
      BY <1>1, <1>2, <3>1 DEF IInv, TypeOK
  <2>2. uiGood' \in Nat /\ uiLate' \in Nat
    BY DEF IInv, TypeOK, DecryptAccept, Recorded, VectorAfter
  <2>3. uiLost' \in Int
    <3>1. decIV.lo \in Int /\ d.lo \in Int
      BY <1>1, ByteRange DEF Placed
    <3>2. Skipped(decIV, d.lo) \in Int
      <4>1. CASE Late(decIV, d.lo)
        BY <4>1 DEF Skipped, Late
      <4>2. CASE ~Late(decIV, d.lo)
        BY <3>1, <4>2, ConstAssumption DEF Skipped
      <4> QED
        BY <4>1, <4>2
    <3> QED
      BY <3>2 DEF IInv, TypeOK, DecryptAccept, Recorded, VectorAfter
  <2>4. delivered' \subseteq Datagram
    BY <1>1, <1>2 DEF IInv, TypeOK
  <2> QED
    BY <1>3, <2>1, <2>2, <2>3, <2>4 DEF IInv, TypeOK, DecryptAccept, Recorded, VectorAfter, encVars
<1>5. NothingAhead'
  <2> SUFFICES ASSUME NEW e \in delivered', e.key = decKey'
               PROVE  AtOrBefore(e, decIV')
    BY DEF NothingAhead
  <2>1. CASE e = d
    BY <1>3, <2>1
  <2>2. CASE e \in delivered
    <3>1. AtOrBefore(e, decIV) /\ Placed(e)
      BY <1>2, <2>2, VectorsArePlaced DEF IInv, NothingAhead
    <3>2. /\ e.hi \in Int /\ e.lo \in Int /\ decIV.hi \in Int
          /\ decIV.lo \in Int /\ decIV'.hi \in Int /\ decIV'.lo \in Int
      BY <1>1, <1>3, <3>1, ByteRange DEF Placed
    <3> QED
      BY <1>3, <3>1, <3>2 DEF AtOrBefore
  <2> QED
    BY <1>2, <2>1, <2>2
<1>6. WindowRemembered'
  <2> SUFFICES ASSUME NEW e \in delivered', e.key = decKey',
                      WithinWindow(e, decIV')
               PROVE  history'[e.lo] = Byte1(e.hi)
    BY DEF WindowRemembered
  <2>1. history \in [Byte -> 0 .. HB - 1]
    BY DEF IInv, TypeOK
  <2>2. CASE e = d
    BY <1>1, <1>2, <2>1, <2>2
  <2>3. CASE e \in delivered
    <3>1. Placed(e) /\ AtOrBefore(e, decIV)
      BY <1>2, <2>3, VectorsArePlaced DEF IInv, NothingAhead
    <3>2. CASE e.lo = d.lo
      <4>1. e.hi = d.hi
        BY <1>1, <1>3, <3>1, <3>2, WindowIsInjective
      <4> QED
        BY <1>1, <1>2, <2>1, <3>2, <4>1
    <3>3. CASE e.lo # d.lo
      <4>1. WithinWindow(e, decIV)
        BY <1>1, <1>3, <3>1, WindowMoves
      <4>2. history[e.lo] = Byte1(e.hi)
        BY <1>2, <2>3, <4>1 DEF IInv, WindowRemembered
      <4> QED
        BY <1>1, <1>2, <2>1, <3>1, <3>3, <4>2 DEF Placed
    <3> QED
      BY <3>2, <3>3
  <2> QED
    BY <1>2, <2>2, <2>3
<1>7. DeliveredWasSent' /\ KeysInstalled' /\ VectorsUsed'
  <2>1. d.key <= decKey
    BY <1>1, VectorsArePlaced DEF IInv
  <2> QED
    BY <1>2, <2>1 DEF IInv, DeliveredWasSent, KeysInstalled, VectorsUsed,
                      DecryptAccept, Recorded, VectorAfter, encVars
<1> QED
  BY <1>4, <1>5, <1>6, <1>7 DEF IInv

LEMMA StutterIInv == IInv /\ UNCHANGED vars => IInv'
  BY DEF IInv, TypeOK, DeliveredWasSent, KeysInstalled, VectorsUsed,
         NothingAhead, WindowRemembered, vars, encVars, decVars, counters

LEMMA NextIInv == IInv /\ [Next]_vars => IInv'
<1> SUFFICES ASSUME IInv, [Next]_vars PROVE IInv'
  OBVIOUS
<1>1. CASE SetEncryptKey
  BY <1>1, SetEncryptKeyIInv
<1>2. CASE SetDecryptKey
  BY <1>2, SetDecryptKeyIInv
<1>3. CASE Encrypt
  BY <1>3, EncryptIInv
<1>4. ASSUME NEW d \in net, DecryptAccept(d) PROVE IInv'
  BY <1>4, DecryptAcceptIInv
<1>5. ASSUME NEW d \in net, DecryptRefuse(d) PROVE IInv'
  BY <1>5, StutterIInv DEF DecryptRefuse
<1>6. CASE UNCHANGED vars
  BY <1>6, StutterIInv
<1> QED
  BY <1>1, <1>2, <1>3, <1>4, <1>5, <1>6 DEF Next, Decrypt

(* In every behaviour, whatever the sizes and the garbage: the types are    *)
(* right, nothing is delivered that was not sent or lies ahead of           *)
(* decrypt_iv, and decrypt_history remembers every delivered datagram that  *)
(* could still be taken for a late one.                                     *)
THEOREM Invariance == Spec => []IInv
  BY InitIInv, NextIInv, PTL DEF Spec

--------------------------------------------------------------------------------
(* What follows from the invariant. *)

(* decrypt returns true at most once for every datagram. *)
THEOREM DeliversAtMostOnce == Spec => AtMostOnce
<1> DEFINE Once == uiGood' # uiGood =>
                     \E d \in net \ delivered : delivered' = delivered \cup {d}
<1>1. IInv /\ [Next]_vars => [Once]_vars
  <2> SUFFICES ASSUME IInv, Next, uiGood' # uiGood
               PROVE  \E d \in net \ delivered : delivered' = delivered \cup {d}
    OBVIOUS
  <2>1. PICK d \in net : DecryptAccept(d)
    BY DEF Next, Decrypt, SetEncryptKey, SetDecryptKey, Encrypt, DecryptRefuse,
           vars, decVars, counters
  <2>2. d \notin delivered /\ delivered' = delivered \cup {d}
    BY <2>1, AcceptFacts DEF DecryptAccept, Recorded, VectorAfter
  <2> QED
    BY <2>1, <2>2
<1> QED
  BY <1>1, Invariance, PTL DEF Spec, AtMostOnce

(* decrypt_iv never moves back under one key. *)
THEOREM VectorNeverRewinds == Spec => NeverRewinds
<1> DEFINE Forward == decKey' = decKey => AtOrBefore(decIV, decIV')
<1>1. IInv /\ [Next]_vars => [Forward]_vars
  <2> SUFFICES ASSUME IInv, Next, decKey' = decKey
               PROVE  AtOrBefore(decIV, decIV')
    OBVIOUS
  <2>1. Placed(decIV) /\ AtOrBefore(decIV, decIV)
    BY VectorsArePlaced, WindowIncludesItself DEF IInv
  <2>2. CASE SetEncryptKey
    BY <2>1, <2>2 DEF SetEncryptKey, decVars
  <2>3. CASE SetDecryptKey
    <3>1. decKey \in Int
      BY VectorsArePlaced DEF IInv
    <3> QED
      BY <2>3, <3>1 DEF SetDecryptKey
  <2>4. CASE Encrypt
    BY <2>1, <2>4 DEF Encrypt, decVars
  <2>5. ASSUME NEW d \in net, DecryptAccept(d)
        PROVE  AtOrBefore(decIV, decIV')
    <3>1. CASE Late(decIV, d.lo)
      BY <2>1, <2>5, <3>1, AcceptFacts
    <3>2. CASE ~Late(decIV, d.lo)
      <4>1. decIV' = [hi |-> d.hi, lo |-> d.lo] /\ AtOrBefore(decIV, d)
        BY <2>5, <3>2, AcceptFacts
      <4> QED
        BY <4>1 DEF AtOrBefore
    <3> QED
      BY <3>1, <3>2
  <2>6. ASSUME NEW d \in net, DecryptRefuse(d)
        PROVE  AtOrBefore(decIV, decIV')
    BY <2>1, <2>6 DEF DecryptRefuse, vars, decVars
  <2> QED
    BY <2>2, <2>3, <2>4, <2>5, <2>6 DEF Next, Decrypt
<1> QED
  BY <1>1, Invariance, PTL DEF Spec, NeverRewinds

(* The two CryptStates and the network implement the voice channel: every   *)
(* step sends a fresh datagram, delivers one that was sent and not yet      *)
(* delivered, or changes nothing the channel shows.                         *)
THEOREM Implementation == Spec => ImplementsChannel
<1>1. Init => Channel!Init
  BY DEF Init, Channel!Init
<1>2. IInv /\ [Next]_vars => [Channel!Next]_(Channel!vars)
  <2> SUFFICES ASSUME IInv, [Next]_vars
               PROVE  Channel!Next \/ UNCHANGED Channel!vars
    OBVIOUS
  <2>1. CASE SetEncryptKey
    BY <2>1 DEF SetEncryptKey, decVars, counters, Channel!vars
  <2>2. CASE SetDecryptKey
    BY <2>2 DEF SetDecryptKey, encVars, counters, Channel!vars
  <2>3. CASE Encrypt
    <3>1. PICK d \in Datagram \ net : net' = net \cup {d}
      BY <2>3, EncryptIInv
    <3>2. Channel!Send(d)
      BY <2>3, <3>1 DEF Channel!Send, Encrypt, decVars, counters
    <3> QED
      BY <3>1, <3>2 DEF Channel!Next
  <2>4. ASSUME NEW d \in net, DecryptAccept(d) PROVE Channel!Next
    <3>1. d \in Datagram /\ d \notin delivered
      BY <2>4, AcceptFacts
    <3>2. Channel!Deliver(d)
      BY <2>4, <3>1 DEF Channel!Deliver, DecryptAccept, Recorded, VectorAfter, encVars
    <3> QED
      BY <3>1, <3>2 DEF Channel!Next
  <2>5. ASSUME NEW d \in net, DecryptRefuse(d) PROVE UNCHANGED Channel!vars
    BY <2>5 DEF DecryptRefuse, vars, encVars, decVars, counters, Channel!vars
  <2>6. CASE UNCHANGED vars
    BY <2>6 DEF vars, encVars, decVars, counters, Channel!vars
  <2> QED
    BY <2>1, <2>2, <2>3, <2>4, <2>5, <2>6 DEF Next, Decrypt
<1> QED
  BY <1>1, <1>2, Invariance, PTL DEF Spec, ImplementsChannel, Channel!Spec

--------------------------------------------------------------------------------
(* What is lost, and what is in reach, counts places in the order of use.   *)
(* The vectors of a key begin after the one the key came with.              *)
SentAfterStart ==
    /\ encKey # 0 => AtOrBefore(start[encKey], encIV)
    /\ \A d \in net : d.key # 0 => /\ AtOrBefore(start[d.key], d)
                                   /\ ~AtOrBefore(d, start[d.key])

(* decrypt_iv is the vector the key came with, or that of a datagram which  *)
(* was accepted under the key.                                              *)
VectorAccepted ==
    decKey # 0 =>
        \/ decIV = start[decKey]
        \/ \E d \in delivered : d.key = decKey /\ d.hi = decIV.hi /\ d.lo = decIV.lo

(* The places passed over under the current key that nothing was accepted   *)
(* from: each of them was counted as lost, and not yet as late.             *)
Passed == IF decKey = 0 THEN {} ELSE Pos(start[decKey]) + 1 .. Pos(decIV)

Missing ==
    {p \in Passed : \A d \in delivered : d.key = decKey => Pos(d) # p}

LossCounted == Cardinality(Missing) <= uiLost

CInv == IInv /\ SentAfterStart /\ VectorAccepted /\ LossCounted

(* The order of the places is the order of the vectors. *)
LEMMA PosOrder ==
    ASSUME NEW v, NEW w, Placed(v), Placed(w)
    PROVE  /\ Pos(v) \in Int
           /\ AtOrBefore(v, w) <=> Pos(v) <= Pos(w)
<1>1. /\ v.hi \in Int /\ v.lo \in Int /\ 0 <= v.lo /\ v.lo < LB
      /\ w.hi \in Int /\ w.lo \in Int /\ 0 <= w.lo /\ w.lo < LB
      /\ LB \in Int
  BY ByteRange, ConstAssumption DEF Placed
<1>2. LB * v.hi \in Int /\ LB * w.hi \in Int
  BY <1>1
<1>3. ASSUME NEW a \in Int, NEW b \in Int, a < b
      PROVE  LB * a + LB <= LB * b
  <2>1. b - a - 1 >= 0 /\ b - a - 1 \in Int /\ LB >= 0
    BY <1>1, <1>3
  <2>2. ASSUME NEW n \in Int, n >= 0 PROVE LB * n >= 0
    BY <1>1, <2>1, <2>2
  <2>3. LB * (b - a - 1) >= 0
    BY <2>1, <2>2
  <2>4. LB * (b - a - 1) = LB * b - LB * a - LB
    BY <1>1
  <2>5. LB * a \in Int /\ LB * b \in Int
    BY <1>1
  <2> QED
    BY <1>1, <2>3, <2>4, <2>5
<1> DEFINE x == LB * v.hi
           y == LB * w.hi
<1>4. CASE v.hi < w.hi
  <2>1. x + LB <= y
    BY <1>1, <1>3, <1>4
  <2> HIDE DEF x, y
  <2>2. x + v.lo <= y + w.lo /\ x \in Int /\ y \in Int
    BY <1>1, <1>2, <2>1 DEF x, y
  <2> QED
    BY <1>1, <1>4, <2>2 DEF AtOrBefore, Pos, x, y
<1>5. CASE w.hi < v.hi
  <2>1. y + LB <= x
    BY <1>1, <1>3, <1>5
  <2> HIDE DEF x, y
  <2>2. ~(x + v.lo <= y + w.lo) /\ x \in Int /\ y \in Int
    BY <1>1, <1>2, <2>1 DEF x, y
  <2> QED
    BY <1>1, <1>5, <2>2 DEF AtOrBefore, Pos, x, y
<1>6. CASE v.hi = w.hi
  BY <1>1, <1>2, <1>6 DEF AtOrBefore, Pos
<1> QED
  BY <1>1, <1>4, <1>5, <1>6

(* A place determines the vector. *)
LEMMA PosIsInjective ==
    ASSUME NEW v, NEW w, Placed(v), Placed(w), Pos(v) = Pos(w)
    PROVE  v.hi = w.hi /\ v.lo = w.lo
<1>1. /\ v.hi \in Int /\ v.lo \in Int /\ w.hi \in Int /\ w.lo \in Int
  BY ByteRange DEF Placed
<1>2. AtOrBefore(v, w) /\ AtOrBefore(w, v)
  BY PosOrder
<1> QED
  BY <1>1, <1>2 DEF AtOrBefore

(* A datagram that is accepted and not late is as many places ahead as      *)
(* decrypt counts as lost, and one.                                         *)
LEMMA SkippedPlaces ==
    ASSUME NEW v, Placed(v), NEW b \in Byte,
           InOrder(v, b) \/ Ahead(v, b), ~Late(v, b)
    PROVE  /\ Skipped(v, b) \in Nat
           /\ Pos(Rebuilt(v, b)) = Pos(v) + Skipped(v, b) + 1
<1>1. /\ v.hi \in Int /\ v.lo \in Int /\ 0 <= v.lo /\ v.lo < LB
      /\ b \in Int /\ 0 <= b /\ b < LB /\ LB \in Int
  BY ByteRange, ConstAssumption DEF Placed
<1>2. LB * v.hi \in Int /\ LB * (v.hi + 1) = LB * v.hi + LB
  BY <1>1
<1>3. CASE InOrder(v, b)
  <2>1. Skipped(v, b) = 0
    BY <1>3 DEF Skipped
  <2>2. CASE v.lo = LB - 1
    <3>1. b = 0 /\ b < v.lo
      BY <1>1, <1>3, <2>2, ConstAssumption DEF InOrder, Succ
    <3>2. Rebuilt(v, b).hi = v.hi + 1 /\ Rebuilt(v, b).lo = 0
      BY <1>3, <3>1 DEF Rebuilt, Late
    <3> QED
      BY <1>1, <1>2, <2>1, <2>2, <3>2 DEF Pos
  <2>3. CASE v.lo # LB - 1
    <3>1. b = v.lo + 1
      BY <1>3, <2>3 DEF InOrder, Succ
    <3>2. Rebuilt(v, b).hi = v.hi /\ Rebuilt(v, b).lo = v.lo + 1
      BY <1>1, <1>3, <3>1 DEF Rebuilt, Late
    <3> QED
      BY <1>1, <1>2, <2>1, <3>2 DEF Pos
  <2> QED
    BY <2>2, <2>3
<1>4. CASE Ahead(v, b)
  <2>1. b # v.lo /\ ~InOrder(v, b)
    BY <1>1, <1>4, ConstAssumption DEF Ahead, Diff
  <2>2. Rebuilt(v, b).lo = b
    BY DEF Rebuilt
  <2>3. CASE b > v.lo
    <3>1. Skipped(v, b) = b - v.lo - 1 /\ Rebuilt(v, b).hi = v.hi
      BY <1>1, <2>1, <2>3 DEF Skipped, Rebuilt
    <3> QED
      BY <1>1, <1>2, <2>2, <2>3, <3>1 DEF Pos
  <2>4. CASE b < v.lo
    <3>1. Skipped(v, b) = LB - v.lo + b - 1 /\ Rebuilt(v, b).hi = v.hi + 1
      BY <1>1, <2>1, <2>4 DEF Skipped, Rebuilt
    <3>2. Skipped(v, b) \in Nat
      BY <1>1, <3>1
    <3> DEFINE x == LB * v.hi
    <3>3. Pos(Rebuilt(v, b)) = x + LB + b /\ Pos(v) = x + v.lo /\ x \in Int
      BY <1>2, <2>2, <3>1 DEF Pos
    <3> HIDE DEF x
    <3> QED
      BY <1>1, <3>1, <3>2, <3>3
  <2> QED
    BY <1>1, <2>1, <2>3, <2>4
<1> QED
  BY <1>3, <1>4

LEMMA StartPlaced ==
    ASSUME TypeOK, NEW k \in 1 .. MaxKey
    PROVE  Placed(start[k])
<1>1. start[k] \in Vector
  BY DEF TypeOK
<1> QED
  BY <1>1 DEF Vector, Placed

(* Key 0 is no key; every other one has a start vector. *)
LEMMA KeyRange ==
    ASSUME TypeOK
    PROVE  /\ encKey # 0 => encKey \in 1 .. MaxKey
           /\ decKey # 0 => decKey \in 1 .. MaxKey
           /\ \A d \in net : d.key # 0 => d.key \in 1 .. MaxKey
<1>1. \A k \in 0 .. MaxKey : k # 0 => k \in 1 .. MaxKey
  BY ConstAssumption
<1> QED
  BY <1>1 DEF TypeOK, Datagram

(* The places passed are numbers, finitely many. *)
LEMMA MissingIsFinite ==
    ASSUME TypeOK
    PROVE  /\ IsFiniteSet(Missing) /\ Cardinality(Missing) \in Nat
           /\ Missing \subseteq Int
<1>1. CASE decKey = 0
  <2>1. Missing = {}
    BY <1>1 DEF Missing, Passed
  <2> QED
    BY <2>1, FS_EmptySet, FS_CardinalityType
<1>2. CASE decKey # 0
  <2>1. Pos(start[decKey]) + 1 \in Int /\ Pos(decIV) \in Int
    <3>1. Placed(start[decKey]) /\ Placed(decIV)
      BY <1>2, KeyRange, StartPlaced DEF TypeOK, Vector, Placed
    <3> QED
      BY <3>1, PosOrder
  <2>2. IsFiniteSet(Pos(start[decKey]) + 1 .. Pos(decIV))
    BY <2>1, FS_Interval
  <2>3. Missing \in SUBSET (Pos(start[decKey]) + 1 .. Pos(decIV))
    BY <1>2 DEF Missing, Passed
  <2>4. IsFiniteSet(Missing)
    BY <2>2, <2>3, FS_Subset
  <2> QED
    BY <2>1, <2>3, <2>4, FS_CardinalityType
<1> QED
  BY <1>1, <1>2

LEMMA InitCInv == Init => CInv
<1> SUFFICES ASSUME Init PROVE CInv
  OBVIOUS
<1>1. IInv
  BY InitIInv
<1>2. SentAfterStart /\ VectorAccepted
  BY DEF Init, SentAfterStart, VectorAccepted
<1>3. Missing = {}
  BY DEF Init, Missing, Passed
<1>4. LossCounted
  BY <1>3, FS_EmptySet DEF Init, LossCounted
<1> QED
  BY <1>1, <1>2, <1>4 DEF CInv

(* What LossCounted and VectorAccepted speak of does not change while       *)
(* nothing is decrypted.                                                    *)
LEMMA DecryptingUnchanged ==
    ASSUME CInv, UNCHANGED <<start, decVars>>
    PROVE  VectorAccepted' /\ LossCounted'
<1>1. Missing' = Missing
  BY DEF decVars, Missing, Passed, Pos
<1> QED
  BY <1>1 DEF CInv, VectorAccepted, LossCounted, decVars, counters

LEMMA SetEncryptKeyCInv ==
    ASSUME CInv, SetEncryptKey
    PROVE  CInv'
<1>1. IInv'
  BY SetEncryptKeyIInv DEF CInv
<1>2. VectorAccepted' /\ LossCounted'
  BY DecryptingUnchanged DEF SetEncryptKey
<1>3. SentAfterStart'
  <2>1. encKey' # 0 => encKey' \in 1 .. MaxKey
    BY <1>1, KeyRange DEF SetEncryptKey, CInv, IInv, TypeOK
  <2>2. AtOrBefore(start[encKey'], start[encKey'])
    BY <2>1, StartPlaced, WindowIncludesItself DEF SetEncryptKey, CInv, IInv, TypeOK
  <2> QED
    BY <2>2 DEF CInv, SentAfterStart, SetEncryptKey
<1> QED
  BY <1>1, <1>2, <1>3 DEF CInv

LEMMA SetDecryptKeyCInv ==
    ASSUME CInv, SetDecryptKey
    PROVE  CInv'
<1>1. IInv'
  BY SetDecryptKeyIInv DEF CInv
<1>2. SentAfterStart'
  BY DEF CInv, SentAfterStart, SetDecryptKey, encVars
<1>3. decIV' = start'[decKey'] /\ VectorAccepted'
  BY DEF SetDecryptKey, VectorAccepted
<1>4. Missing' = {}
  <2>1. CASE decKey' = 0
    BY <2>1 DEF Missing, Passed
  <2>2. CASE decKey' # 0
    <3>1. Placed(decIV)'
      BY <1>1, VectorsArePlaced DEF IInv, TypeOK, Vector, Placed
    <3>2. Pos(decIV)' \in Int /\ Pos(start[decKey])' = Pos(decIV)'
      BY <1>3, <3>1, PosOrder DEF Pos
    <3>3. Passed' = {}
      BY <2>2, <3>2 DEF Passed
    <3> QED
      BY <3>3 DEF Missing
  <2> QED
    BY <2>1, <2>2
<1>5. LossCounted'
  <2>1. Cardinality(Missing) >= 0 /\ Cardinality(Missing) \in Nat
    BY MissingIsFinite DEF CInv, IInv
  <2>2. 0 <= uiLost
    BY <2>1 DEF CInv, LossCounted, IInv, TypeOK
  <2> QED
    BY <1>4, <2>2, FS_EmptySet DEF LossCounted, SetDecryptKey, counters
<1> QED
  BY <1>1, <1>2, <1>3, <1>5 DEF CInv

LEMMA EncryptCInv ==
    ASSUME CInv, Encrypt
    PROVE  CInv'
<1>1. IInv'
  BY EncryptIInv DEF CInv
<1>2. VectorAccepted' /\ LossCounted'
  BY DecryptingUnchanged DEF Encrypt
<1>3. SentAfterStart'
  <2>1. Placed(encIV) /\ encIV' = Succ(encIV)
    BY VectorsArePlaced DEF Encrypt, CInv, IInv
  <2>2. ASSUME encKey # 0
        PROVE  /\ AtOrBefore(start[encKey], encIV')
               /\ ~AtOrBefore(encIV', start[encKey])
    BY <2>1, <2>2, KeyRange, StartPlaced, SuccIsAfter
       DEF CInv, IInv, SentAfterStart
  <2> DEFINE n == [key |-> encKey, hi |-> encIV'.hi, lo |-> encIV'.lo]
  <2>3. net' = net \cup {n} /\ start' = start /\ encKey' = encKey
    BY DEF Encrypt
  <2>4. ASSUME encKey # 0
        PROVE  AtOrBefore(start[encKey], n) /\ ~AtOrBefore(n, start[encKey])
    BY <2>2, <2>4 DEF AtOrBefore
  <2>5. \A d \in net' : d.key # 0 => /\ AtOrBefore(start[d.key], d)
                                     /\ ~AtOrBefore(d, start[d.key])
    BY <2>3, <2>4 DEF CInv, SentAfterStart
  <2> QED
    BY <2>2, <2>3, <2>5 DEF SentAfterStart
<1> QED
  BY <1>1, <1>2, <1>3 DEF CInv

LEMMA EncryptsUnchanged ==
    ASSUME CInv, NEW d \in net, DecryptAccept(d)
    PROVE  SentAfterStart'
  BY DEF CInv, SentAfterStart, DecryptAccept, encVars

(* A late datagram fills a place that was passed over; any other one passes *)
(* over the places up to its own.                                           *)
LEMMA AcceptCountsLoss ==
    ASSUME CInv, NEW d \in net, DecryptAccept(d)
    PROVE  LossCounted'
<1> DEFINE old == Missing
           skipped == Skipped(decIV, d.lo)
<1>1. /\ d \in Datagram /\ d.key = decKey /\ d \notin delivered
      /\ d.hi \in 0 .. MaxHi /\ d.lo \in Byte /\ Placed(d) /\ Placed(decIV)
      /\ decKey # 0
  BY AcceptFacts, VectorsArePlaced
     DEF CInv, IInv, Datagram, DecryptAccept, Accepts, TagMatches
<1>2. /\ delivered' = delivered \cup {d} /\ start' = start /\ decKey' = decKey
      /\ uiLost' = uiLost + skipped /\ uiLost \in Int
  BY DEF DecryptAccept, CInv, IInv, TypeOK
<1>3. IsFiniteSet(old) /\ Cardinality(old) \in Nat /\ old \subseteq Int
  BY MissingIsFinite DEF CInv, IInv
<1>4. Cardinality(old) <= uiLost
  BY DEF CInv, LossCounted
<1>5. Placed(start[decKey])
  BY <1>1, KeyRange, StartPlaced DEF CInv, IInv
<1>6. /\ Pos(decIV) \in Int /\ Pos(d) \in Int /\ Pos(start[decKey]) \in Int
      /\ Pos(start[decKey]) < Pos(d)
  <2>1. ~AtOrBefore(d, start[decKey])
    BY <1>1 DEF CInv, SentAfterStart
  <2> QED
    BY <1>1, <1>5, <2>1, PosOrder
<1>7. CASE Late(decIV, d.lo)
  <2>1. skipped = -1 /\ decIV' = decIV
    <3>1. skipped = -1
      BY <1>7 DEF Skipped, Late
    <3> QED
      BY <1>7, <3>1, AcceptFacts DEF CInv
  <2>2. Pos(d) \in old
    <3>1. Pos(d) <= Pos(decIV)
      <4>1. WithinWindow(d, decIV)
        BY <1>7, AcceptFacts DEF CInv
      <4>2. AtOrBefore(d, decIV)
        <5>1. d.hi \in Int /\ decIV.hi \in Int
          BY <1>1 DEF Placed
        <5> QED
          BY <4>1, <5>1 DEF WithinWindow, AtOrBefore
      <4> QED
        BY <1>1, <4>2, PosOrder
    <3>2. ASSUME NEW e \in delivered, e.key = decKey, Pos(e) = Pos(d) PROVE FALSE
      <4>1. Placed(e) /\ e \in Datagram
        BY VectorsArePlaced DEF CInv, IInv, TypeOK
      <4>2. e.hi = d.hi /\ e.lo = d.lo
        BY <1>1, <3>2, <4>1, PosIsInjective
      <4>3. e = d
        BY <1>1, <3>2, <4>1, <4>2 DEF Datagram
      <4> QED
        BY <1>1, <4>3
    <3>3. Pos(d) \in Passed
      BY <1>1, <1>6, <3>1 DEF Passed
    <3> QED
      BY <3>2, <3>3 DEF Missing
  <2>3. Missing' = old \ {Pos(d)}
    <3>1. Passed' = Passed
      BY <1>2, <2>1 DEF Passed, Pos
    <3>2. \A e : Pos(e)' = Pos(e)
      BY DEF Pos
    <3>3. \A p : p \in Missing' <=> p \in old /\ p # Pos(d)
      BY <1>1, <1>2, <3>1, <3>2 DEF Missing, Pos
    <3> QED
      BY <3>3
  <2>4. Cardinality(Missing') = Cardinality(old) - 1
    BY <1>3, <2>2, <2>3, FS_RemoveElement
  <2> QED
    BY <1>2, <1>3, <1>4, <2>1, <2>4 DEF LossCounted
<1>8. CASE ~Late(decIV, d.lo)
  <2> DEFINE gap == Pos(decIV) + 1 .. Pos(decIV) + skipped
  <2>1. /\ decIV' = [hi |-> d.hi, lo |-> d.lo]
        /\ Rebuilt(decIV, d.lo) = [hi |-> d.hi, lo |-> d.lo]
    BY <1>8, AcceptFacts DEF CInv
  <2>2. skipped \in Nat /\ Pos(d) = Pos(decIV) + skipped + 1
    <3>1. InOrder(decIV, d.lo) \/ Ahead(decIV, d.lo)
      BY <1>8 DEF DecryptAccept, Accepts
    <3>2. /\ skipped \in Nat
          /\ Pos(Rebuilt(decIV, d.lo)) = Pos(decIV) + skipped + 1
      BY <1>1, <1>8, <3>1, SkippedPlaces
    <3>3. Pos(Rebuilt(decIV, d.lo)) = Pos(d)
      BY <2>1 DEF Pos
    <3> QED
      BY <3>2, <3>3
  <2>3. IsFiniteSet(gap) /\ Cardinality(gap) = skipped
    <3>1. Pos(decIV) + 1 \in Int /\ Pos(decIV) + skipped \in Int
      BY <1>6, <2>2
    <3>2. /\ IsFiniteSet(gap)
          /\ Cardinality(gap) = IF Pos(decIV) + 1 > Pos(decIV) + skipped THEN 0
                ELSE (Pos(decIV) + skipped) - (Pos(decIV) + 1) + 1
      BY <3>1, FS_Interval
    <3> HIDE DEF skipped, gap
    <3> QED
      BY <1>6, <2>2, <3>2
  <2>4. Missing' \in SUBSET (old \cup gap)
    <3> SUFFICES ASSUME NEW p \in Missing' PROVE p \in old \cup gap
      OBVIOUS
    <3>1. /\ p \in Pos(start[decKey]) + 1 .. Pos(d)
          /\ \A e \in delivered \cup {d} : e.key = decKey => Pos(e) # p
      BY <1>1, <1>2, <2>1 DEF Missing, Passed, Pos
    <3>2. p \in Int /\ p # Pos(d)
      BY <1>1, <1>6, <3>1
    <3>3. CASE p <= Pos(decIV)
      BY <1>1, <1>6, <3>1, <3>2, <3>3 DEF Missing, Passed
    <3>4. CASE p > Pos(decIV)
      BY <1>6, <2>2, <3>1, <3>2, <3>4
    <3> QED
      BY <1>6, <3>2, <3>3, <3>4
  <2>5. /\ IsFiniteSet(old \cup gap)
        /\ Cardinality(old \cup gap) <= Cardinality(old) + skipped
    <3>1. /\ IsFiniteSet(old \cup gap)
          /\ Cardinality(old \cup gap)
                = Cardinality(old) + Cardinality(gap) - Cardinality(old \cap gap)
      BY <1>3, <2>3, FS_Union
    <3>2. Cardinality(old \cap gap) \in Nat
      BY <1>3, FS_Intersection, FS_CardinalityType
    <3> QED
      BY <1>3, <2>2, <2>3, <3>1, <3>2
  <2>6. /\ Cardinality(Missing') \in Nat
        /\ Cardinality(Missing') <= Cardinality(old \cup gap)
        /\ Cardinality(old \cup gap) \in Nat
    BY <2>4, <2>5, FS_Subset, FS_CardinalityType
  <2> QED
    BY <1>2, <1>3, <1>4, <2>2, <2>5, <2>6 DEF LossCounted
<1> QED
  BY <1>7, <1>8

LEMMA DecryptAcceptCInv ==
    ASSUME CInv, NEW d \in net, DecryptAccept(d)
    PROVE  CInv'
<1>1. IInv'
  BY DecryptAcceptIInv DEF CInv
<1>2. VectorAccepted'
  <2>1. d.key = decKey /\ delivered' = delivered \cup {d}
    BY AcceptFacts DEF CInv, DecryptAccept
  <2>2. UNCHANGED <<start, decKey>>
    BY DEF DecryptAccept
  <2>3. CASE Late(decIV, d.lo)
    <3>1. decIV' = decIV
      BY <2>3, AcceptFacts DEF CInv
    <3> QED
      BY <2>1, <2>2, <3>1 DEF CInv, VectorAccepted
  <2>4. CASE ~Late(decIV, d.lo)
    <3>1. decIV' = [hi |-> d.hi, lo |-> d.lo]
      BY <2>4, AcceptFacts DEF CInv
    <3> QED
      BY <2>1, <2>2, <3>1 DEF VectorAccepted
  <2> QED
    BY <2>3, <2>4
<1> QED
  BY <1>1, <1>2, EncryptsUnchanged, AcceptCountsLoss DEF CInv

LEMMA StutterCInv == CInv /\ UNCHANGED vars => CInv'
<1> SUFFICES ASSUME CInv, UNCHANGED vars PROVE CInv'
  OBVIOUS
<1>1. VectorAccepted' /\ LossCounted'
  BY DecryptingUnchanged DEF vars
<1> QED
  BY <1>1, StutterIInv DEF CInv, SentAfterStart, vars, encVars

LEMMA NextCInv == CInv /\ [Next]_vars => CInv'
<1> SUFFICES ASSUME CInv, [Next]_vars PROVE CInv'
  OBVIOUS
<1>1. CASE SetEncryptKey
  BY <1>1, SetEncryptKeyCInv
<1>2. CASE SetDecryptKey
  BY <1>2, SetDecryptKeyCInv
<1>3. CASE Encrypt
  BY <1>3, EncryptCInv
<1>4. ASSUME NEW d \in net, DecryptAccept(d) PROVE CInv'
  BY <1>4, DecryptAcceptCInv
<1>5. ASSUME NEW d \in net, DecryptRefuse(d) PROVE CInv'
  BY <1>5, StutterCInv DEF DecryptRefuse
<1>6. CASE UNCHANGED vars
  BY <1>6, StutterCInv
<1> QED
  BY <1>1, <1>2, <1>3, <1>4, <1>5, <1>6 DEF Next, Decrypt

(* In every behaviour the places decrypt has passed over under the current  *)
(* key and got nothing from are counted in uiLost.                          *)
THEOREM CountInvariance == Spec => []CInv
  BY InitCInv, NextCInv, PTL DEF Spec

(* uiLost, an unsigned counter that every late datagram decrements, never   *)
(* goes below zero: a late datagram fills a place counted as lost before.   *)
THEOREM LossIsNeverNegative == Spec => []LostNeverNegative
<1>1. CInv => LostNeverNegative
  <2> SUFFICES ASSUME CInv PROVE uiLost >= 0
    BY DEF LostNeverNegative
  <2>1. Cardinality(Missing) \in Nat
    BY MissingIsFinite DEF CInv, IInv
  <2> QED
    BY <2>1 DEF CInv, LossCounted, IInv, TypeOK
<1> QED
  BY <1>1, CountInvariance, PTL

(* Less than a round apart, two vectors differ by at most one in their      *)
(* higher part.                                                             *)
LEMMA PlacesApart ==
    ASSUME NEW v, NEW w, Placed(v), Placed(w),
           -LB < Pos(w) - Pos(v), Pos(w) - Pos(v) < LB
    PROVE  \/ w.hi = v.hi - 1 /\ Pos(w) - Pos(v) = w.lo - v.lo - LB
           \/ w.hi = v.hi /\ Pos(w) - Pos(v) = w.lo - v.lo
           \/ w.hi = v.hi + 1 /\ Pos(w) - Pos(v) = w.lo - v.lo + LB
<1>1. /\ v.hi \in Int /\ v.lo \in Int /\ 0 <= v.lo /\ v.lo < LB
      /\ w.hi \in Int /\ w.lo \in Int /\ 0 <= w.lo /\ w.lo < LB
      /\ LB \in Int /\ LB >= 0
  BY ByteRange, ConstAssumption DEF Placed
<1> DEFINE h == w.hi - v.hi
           step == LB * h
<1>2. h \in Int /\ step \in Int /\ w.hi = v.hi + h
  BY <1>1
<1>3. LB * w.hi = LB * v.hi + step
  BY <1>1
<1>4. LB * v.hi \in Int
  BY <1>1
<1>5. Pos(w) - Pos(v) = step + w.lo - v.lo
  <2> DEFINE x == LB * v.hi
  <2>1. Pos(v) = x + v.lo /\ Pos(w) = x + step + w.lo /\ x \in Int
    BY <1>3, <1>4 DEF Pos
  <2> HIDE DEF x, step, h
  <2> QED
    BY <1>1, <1>2, <2>1
<1>6. ASSUME NEW n \in Int, n >= 0 PROVE LB * n >= 0
  BY <1>1, <1>6
<1>7. h < 2
  <2> SUFFICES ASSUME h >= 2 PROVE FALSE
    BY <1>2
  <2>1. LB * (h - 2) >= 0 /\ LB * (h - 2) = step - 2 * LB
    BY <1>1, <1>2, <1>6
  <2> HIDE DEF step
  <2> QED
    BY <1>1, <1>2, <1>5, <2>1
<1>8. h > -2
  <2> SUFFICES ASSUME h <= -2 PROVE FALSE
    BY <1>2
  <2>1. LB * (-2 - h) >= 0 /\ LB * (-2 - h) = -2 * LB - step
    BY <1>1, <1>2, <1>6
  <2> HIDE DEF step
  <2> QED
    BY <1>1, <1>2, <1>5, <2>1
<1>9. h \in {-1, 0, 1}
  <2> HIDE DEF h
  <2> QED
    BY <1>2, <1>7, <1>8
<1>10. CASE h = -1
  <2>1. step = -LB /\ w.hi = v.hi - 1
    BY <1>1, <1>10
  <2> HIDE DEF step, h
  <2> QED
    BY <1>1, <1>5, <2>1
<1>11. CASE h = 0
  <2>1. step = 0 /\ w.hi = v.hi
    BY <1>1, <1>11
  <2> HIDE DEF step, h
  <2> QED
    BY <1>1, <1>5, <2>1
<1>12. CASE h = 1
  <2>1. step = LB /\ w.hi = v.hi + 1
    BY <1>1, <1>12
  <2> HIDE DEF step, h
  <2> QED
    BY <1>1, <1>5, <2>1
<1> QED
  BY <1>9, <1>10, <1>11, <1>12

(* Within its reach decrypt classifies a byte as what it is, and rebuilds   *)
(* the vector it comes from.                                                *)
LEMMA ReachIsRebuilt ==
    ASSUME NEW v, NEW d, Placed(v), Placed(d), Pos(d) # Pos(v),
           -Window < Pos(d) - Pos(v), Pos(d) - Pos(v) < Half
    PROVE  /\ Rebuilt(v, d.lo) = [hi |-> d.hi, lo |-> d.lo]
           /\ Pos(d) = Pos(v) + 1 => InOrder(v, d.lo)
           /\ InOrder(v, d.lo) \/ Late(v, d.lo) \/ Ahead(v, d.lo)
<1> DEFINE gap == Pos(d) - Pos(v)
           b == d.lo
<1>1. /\ v.hi \in Int /\ v.lo \in Int /\ 0 <= v.lo /\ v.lo < LB
      /\ d.hi \in Int /\ b \in Int /\ 0 <= b /\ b < LB
      /\ Pos(v) \in Int /\ Pos(d) \in Int
  BY ByteRange, PosOrder DEF Placed
<1>2. gap \in Int /\ gap # 0 /\ -Window < gap /\ gap < Half
  BY <1>1
<1>3. LB \in Int /\ Half \in Int /\ Window \in Int
      /\ LB = 2 * Half /\ 0 < Window /\ Window <= Half
  BY ConstAssumption
<1>4. Pos(d) = Pos(v) + 1 <=> gap = 1
  BY <1>1
<1>5. \/ d.hi = v.hi - 1 /\ gap = b - v.lo - LB
      \/ d.hi = v.hi /\ gap = b - v.lo
      \/ d.hi = v.hi + 1 /\ gap = b - v.lo + LB
  BY <1>1, <1>2, <1>3, PlacesApart
<1> HIDE DEF gap
<1>6. Diff(v, b) = gap
  BY <1>1, <1>2, <1>3, <1>5 DEF Diff
<1>7. InOrder(v, b) <=> gap = 1
  <2>1. InOrder(v, b) <=> b = IF v.lo = LB - 1 THEN 0 ELSE v.lo + 1
    BY DEF InOrder, Succ
  <2> HIDE DEF b
  <2> QED
    BY <1>1, <1>2, <1>3, <1>5, <2>1
<1>8. Late(v, b) <=> gap < 0
  BY <1>2, <1>6, <1>7 DEF Late
<1>9. Ahead(v, b) <=> gap > 1
  BY <1>2, <1>6, <1>7 DEF Ahead
<1>10. Rebuilt(v, b).hi = d.hi
  BY <1>1, <1>2, <1>3, <1>5, <1>8 DEF Rebuilt
<1>11. Rebuilt(v, b) = [hi |-> d.hi, lo |-> b]
  BY <1>10 DEF Rebuilt
<1> QED
  BY <1>2, <1>4, <1>7, <1>8, <1>9, <1>11

(* A genuine datagram in reach that was not accepted before is accepted,    *)
(* unless decrypt_history happens to hold the byte it would store.          *)
THEOREM WithinReachIsAccepted == Spec => []ReachableIsAccepted
<1>1. CInv => ReachableIsAccepted
  <2> SUFFICES ASSUME CInv, NEW d \in net \ delivered,
                      d.key = decKey, d.key # 0, InReach(d)
               PROVE  \/ Accepts(d)
                      \/ Pos(d) # Pos(decIV) + 1 /\ history[d.lo] = Byte1(d.hi)
    BY DEF ReachableIsAccepted
  <2>1. Placed(d) /\ Placed(decIV) /\ d \in Datagram
    BY VectorsArePlaced DEF CInv, IInv, TypeOK
  <2>2. Pos(d) # Pos(decIV)
    <3> SUFFICES ASSUME Pos(d) = Pos(decIV) PROVE FALSE
      OBVIOUS
    <3>1. d.hi = decIV.hi /\ d.lo = decIV.lo
      BY <2>1, PosIsInjective
    <3>2. CASE decIV = start[decKey]
      <4>1. AtOrBefore(d, start[decKey])
        BY <2>1, <3>1, <3>2, WindowIncludesItself DEF AtOrBefore
      <4> QED
        BY <4>1 DEF CInv, SentAfterStart
    <3>3. ASSUME NEW e \in delivered, e.key = decKey,
                 e.hi = decIV.hi, e.lo = decIV.lo
          PROVE  FALSE
      <4>1. e \in Datagram
        BY DEF CInv, IInv, TypeOK
      <4>2. e = d
        BY <2>1, <3>1, <3>3, <4>1 DEF Datagram
      <4> QED
        BY <4>2
    <3> QED
      BY <3>2, <3>3 DEF CInv, VectorAccepted
  <2>3. -Window < Pos(d) - Pos(decIV) /\ Pos(d) - Pos(decIV) < Half
    BY DEF InReach
  <2>4. /\ Rebuilt(decIV, d.lo) = [hi |-> d.hi, lo |-> d.lo]
        /\ Pos(d) = Pos(decIV) + 1 => InOrder(decIV, d.lo)
        /\ InOrder(decIV, d.lo) \/ Late(decIV, d.lo) \/ Ahead(decIV, d.lo)
    BY <2>1, <2>2, <2>3, ReachIsRebuilt
  <2>5. TagMatches(d)
    BY <2>4 DEF TagMatches
  <2>6. SeenBefore(decIV, d.lo) <=> history[d.lo] = Byte1(d.hi)
    BY <2>4 DEF SeenBefore
  <2> QED
    BY <2>4, <2>5, <2>6 DEF Accepts
<1> QED
  BY <1>1, CountInvariance, PTL

================================================================================
