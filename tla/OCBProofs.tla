-------------------------------- MODULE OCBProofs --------------------------------
(***************************************************************************)
(* That what is encrypted with OCB is decrypted, for blocks of any size,   *)
(* messages of any length and any permutation of the blocks.               *)
(*                                                                         *)
(* course keeps delta and checksum of the encryption; the decryption goes  *)
(* through the same values, because each block it gets back is the one     *)
(* that was encrypted.                                                     *)
(***************************************************************************)
EXTENDS OCB, TLAPS

Part == [full : Seq(Block), last : Block, tag : Block]
Moment == [delta : Block, checksum : Block]

Typed ==
    /\ aes \in Permutations /\ nonce \in Block
    /\ plain \in [full : Seq(Block), len : 0 .. Size, last : Block]
    /\ plain.last \subseteq 1 .. plain.len
    /\ encrypted \in Part /\ decrypted \in Part
    /\ delta \in Block /\ checksum \in Block
    /\ course \in Seq(Moment)
    /\ at \in {"encrypt", "decrypt", "done"}

(* The course of the encryption, and the blocks made on it *)
Linked ==
    /\ Len(course) = Len(encrypted.full) + 1
    /\ Len(encrypted.full) <= Len(plain.full)
    /\ course[1] = [delta |-> aes[nonce], checksum |-> {}]
    /\ \A i \in 1 .. Len(encrypted.full) :
          /\ course[i + 1].delta = S2(course[i].delta)
          /\ course[i + 1].checksum = Xor(course[i].checksum, plain.full[i])
          /\ encrypted.full[i] = Encipher(course[i + 1].delta, plain.full[i])

Encrypting ==
    at = "encrypt" =>
        /\ decrypted = Nothing
        /\ delta = course[Len(course)].delta
        /\ checksum = course[Len(course)].checksum

(* The end of the encryption *)
Sealed ==
    at # "encrypt" =>
        LET d == S2(course[Len(course)].delta)
        IN  /\ Len(encrypted.full) = Len(plain.full)
            /\ encrypted.last = Xor(Pad(d), Filled(d)) \cap (1 .. plain.len)
            /\ encrypted.tag = Tag(d, Xor(course[Len(course)].checksum, Filled(d)))

(* The decryption is on the course, and has got back the blocks behind it.  *)
Decrypting ==
    at = "decrypt" =>
        /\ Len(decrypted.full) <= Len(encrypted.full)
        /\ \A i \in 1 .. Len(decrypted.full) : decrypted.full[i] = plain.full[i]
        /\ delta = course[Len(decrypted.full) + 1].delta
        /\ checksum = course[Len(decrypted.full) + 1].checksum

IInv == Typed /\ Linked /\ Encrypting /\ Sealed /\ Decrypting /\ RoundTrip

--------------------------------------------------------------------------------
(* Exclusive or twice with the same block changes nothing. *)
LEMMA XorTwice ==
    ASSUME NEW a \in Block, NEW b \in Block
    PROVE  Xor(a, b) \in Block /\ Xor(a, Xor(a, b)) = b
BY DEF Xor, Block

(* Multiplication gives blocks. *)
LEMMA Multiples ==
    ASSUME NEW a \in Block
    PROVE  S2(a) \in Block /\ S3(a) \in Block
BY DEF S2, S3, Xor, Block

(* The blocks of the pads, the tags and the enciphered are blocks. *)
LEMMA Enciphered ==
    ASSUME Typed, NEW d \in Block, NEW p \in Block
    PROVE  /\ Encipher(d, p) \in Block /\ Pad(d) \in Block
           /\ Tag(d, p) \in Block /\ Filled(d) \in Block
<1>1. \A x \in Block : aes[x] \in Block
  BY DEF Typed, Permutations
<1>2. LengthBlock(plain.len) \in Block
  BY DEF LengthBlock, Block
<1>3. Pad(d) \in Block
  BY <1>1, <1>2, XorTwice DEF Pad
<1>4. Filled(d) \in Block
  BY <1>3 DEF Typed, Filled, Block
<1>5. Encipher(d, p) \in Block
  BY <1>1, XorTwice DEF Encipher
<1>6. Tag(d, p) \in Block
  BY <1>1, XorTwice, Multiples DEF Tag
<1> QED
  BY <1>3, <1>4, <1>5, <1>6

(* AES decryption undoes encryption. *)
LEMMA Undone ==
    ASSUME Typed, NEW x \in Block
    PROVE  AESdecrypt(aes[x]) = x
<1>1. \A y \in Block : aes[y] = aes[x] => y = x
  BY DEF Typed, Permutations
<1>2. \E y \in Block : aes[y] = aes[x]
  OBVIOUS
<1> QED
  BY <1>1, <1>2 DEF AESdecrypt

(* A block that was enciphered is deciphered with the same delta. *)
LEMMA Deciphered ==
    ASSUME Typed, NEW d \in Block, NEW p \in Block
    PROVE  Xor(d, AESdecrypt(Xor(d, Encipher(d, p)))) = p
<1>1. Xor(d, p) \in Block
  BY XorTwice
<1>2. aes[Xor(d, p)] \in Block
  BY <1>1 DEF Typed, Permutations
<1>3. Xor(d, Encipher(d, p)) = aes[Xor(d, p)]
  BY <1>2, XorTwice DEF Encipher
<1>4. AESdecrypt(Xor(d, Encipher(d, p))) = Xor(d, p)
  BY <1>1, <1>3, Undone
<1> QED
  BY <1>4, XorTwice

(* The last part comes back, and with it what was added to the checksum.    *)
LEMMA LastPart ==
    ASSUME Typed, NEW d \in Block
    PROVE  LET c == Xor(Pad(d), Filled(d)) \cap (1 .. plain.len)
           IN  /\ PaddedLast(Pad(d), c) = Filled(d)
               /\ Filled(d) \cap (1 .. plain.len) = plain.last
<1> DEFINE n == 1 .. plain.len
<1>1. plain.last \subseteq n
  BY DEF Typed
<1> HIDE DEF n
<1> SUFFICES /\ Xor(Xor(Pad(d), plain.last \cup (Pad(d) \ n)) \cap n, Pad(d))
                   = plain.last \cup (Pad(d) \ n)
             /\ (plain.last \cup (Pad(d) \ n)) \cap n = plain.last
  BY DEF n, PaddedLast, Filled
<1> QED
  BY <1>1 DEF Xor

--------------------------------------------------------------------------------
LEMMA Initially == Init => IInv
<1> SUFFICES ASSUME Init PROVE IInv
  OBVIOUS
<1>1. aes[nonce] \in Block
  BY DEF Init, Permutations
<1>2. plain \in [full : Seq(Block), len : 0 .. Size, last : Block]
  <2>1. PICK n \in 0 .. MaxFull : plain.full \in [1 .. n -> Block]
    BY DEF Init, Message
  <2>2. plain.full \in Seq(Block)
    BY <2>1, OCBAssumption
  <2> QED
    BY <2>2 DEF Init, Message
<1>3. {} \in Block
  BY DEF Block
<1>4. Typed
  BY <1>1, <1>2, <1>3 DEF Init, Typed, Message, Part, Moment, Nothing
<1>5. Linked
  BY <1>2 DEF Init, Linked, Nothing
<1> QED
  BY <1>4, <1>5 DEF Init, IInv, Encrypting, Sealed, Decrypting, RoundTrip

LEMMA KeptByEncryptBlock == IInv /\ EncryptBlock => IInv'
<1> SUFFICES ASSUME IInv, EncryptBlock PROVE IInv'
  OBVIOUS
<1> DEFINE n == Len(encrypted.full)
           p == plain.full[n + 1]
           new == [delta |-> delta', checksum |-> checksum']
<1> USE DEF IInv
<1>1. n \in Nat /\ n < Len(plain.full) /\ p \in Block
  BY DEF Typed, Part, EncryptBlock
<1>2. delta' \in Block /\ checksum' \in Block
  BY <1>1, Multiples, XorTwice DEF Typed, EncryptBlock
<1>3. Encipher(delta', p) \in Block
  BY <1>1, <1>2, Enciphered
<1>4. /\ encrypted'.full = Append(encrypted.full, Encipher(delta', p))
      /\ encrypted' \in Part
  <2> DEFINE e == Encipher(delta', p)
  <2>1. encrypted \in Part /\ e \in Block
    BY <1>3 DEF Typed
  <2>2. encrypted' = [encrypted EXCEPT !.full = Append(@, e)]
    BY DEF EncryptBlock
  <2> HIDE DEF e
  <2>3. encrypted'.full = Append(encrypted.full, e) /\ encrypted' \in Part
    BY <2>1, <2>2 DEF Part
  <2> QED
    BY <2>3 DEF e
<1>5. course' = Append(course, new) /\ course' \in Seq(Moment)
  BY <1>2 DEF Typed, Moment, EncryptBlock
<1>6. Typed'
  BY <1>2, <1>4, <1>5 DEF Typed, EncryptBlock
<1>7. Linked'
  <2>1. Len(course) = n + 1 /\ Len(course') = n + 2 /\ Len(encrypted'.full) = n + 1
    BY <1>1, <1>4, <1>5 DEF Linked, Typed, Part
  <2>2. /\ \A i \in 1 .. n + 1 : course'[i] = course[i]
        /\ course'[n + 2] = new
    BY <1>1, <1>5, <2>1 DEF Typed
  <2>3. /\ \A i \in 1 .. n : encrypted'.full[i] = encrypted.full[i]
        /\ encrypted'.full[n + 1] = Encipher(delta', p)
    BY <1>1, <1>4 DEF Typed, Part
  <2>4. course'[1] = [delta |-> aes'[nonce'], checksum |-> {}]
    BY <1>1, <2>2 DEF Linked, EncryptBlock
  <2>5. ASSUME NEW i \in 1 .. n + 1
        PROVE  /\ course'[i + 1].delta = S2(course'[i].delta)
               /\ course'[i + 1].checksum = Xor(course'[i].checksum, plain'.full[i])
               /\ encrypted'.full[i] = Encipher(course'[i + 1].delta, plain.full[i])
    <3>1. CASE i = n + 1
      BY <1>1, <2>1, <2>2, <2>3, <3>1 DEF Encrypting, EncryptBlock
    <3>2. CASE i \in 1 .. n
      <4>1. /\ course[i + 1].delta = S2(course[i].delta)
            /\ course[i + 1].checksum = Xor(course[i].checksum, plain.full[i])
            /\ encrypted.full[i] = Encipher(course[i + 1].delta, plain.full[i])
        BY <3>2 DEF Linked
      <4>2. i \in 1 .. n + 1 /\ i + 1 \in 1 .. n + 1
        BY <1>1, <3>2
      <4>3. course'[i] = course[i] /\ course'[i + 1] = course[i + 1]
        BY ONLY <2>2, <4>2
      <4>4. encrypted'.full[i] = encrypted.full[i]
        BY ONLY <2>3, <3>2
      <4>5. plain' = plain
        BY DEF EncryptBlock
      <4> QED
        BY ONLY <4>1, <4>3, <4>4, <4>5
    <3> QED
      BY <1>1, <3>1, <3>2
  <2>6. UNCHANGED <<aes, plain>>
    BY DEF EncryptBlock
  <2> QED
    BY <1>1, <2>1, <2>4, <2>5, <2>6 DEF Linked, Encipher
<1>8. Encrypting'
  BY <1>1, <1>5 DEF Encrypting, Linked, Typed, EncryptBlock
<1> QED
  BY <1>6, <1>7, <1>8 DEF EncryptBlock, Sealed, Decrypting, RoundTrip

LEMMA KeptByEncryptLast == IInv /\ EncryptLast => IInv'
<1> SUFFICES ASSUME IInv, EncryptLast PROVE IInv'
  OBVIOUS
<1> DEFINE d == S2(delta)
           c == Xor(Pad(d), Filled(d)) \cap (1 .. plain.len)
<1> USE DEF IInv
<1>1. d \in Block /\ Pad(d) \in Block /\ Filled(d) \in Block
  BY Multiples, Enciphered DEF Typed
<1>2. c \in Block
  BY <1>1, XorTwice DEF Block
<1>3. Tag(d, Xor(checksum, Filled(d))) \in Block
  BY <1>1, XorTwice, Enciphered DEF Typed
<1>4. aes[nonce] \in Block /\ {} \in Block
  BY DEF Typed, Permutations, Block
<1>5. /\ encrypted' \in Part /\ encrypted'.full = encrypted.full
      /\ encrypted'.last = c /\ encrypted'.tag = Tag(d, Xor(checksum, Filled(d)))
  BY <1>2, <1>3 DEF Typed, Part, EncryptLast
<1>6. Typed'
  BY <1>4, <1>5 DEF Typed, EncryptLast
<1>7. UNCHANGED <<aes, nonce, plain, course, decrypted>> /\ at' = "decrypt"
  BY DEF EncryptLast
<1>8. Linked'
  BY <1>5, <1>7 DEF Linked, Encipher
<1>9. Sealed'
  <2>1. /\ delta = course[Len(course)].delta
        /\ checksum = course[Len(course)].checksum
        /\ Len(encrypted.full) = Len(plain.full)
    BY DEF Encrypting, EncryptLast
  <2>2. /\ \A x : Pad(x)' = aes[Xor(LengthBlock(plain.len), x)]
        /\ Len(encrypted'.full) = Len(plain'.full)
    BY <1>5, <1>7, <2>1 DEF Pad
  <2> QED
    BY <1>5, <1>7, <2>1 DEF Sealed, Pad, Filled, Tag
<1>10. Decrypting'
  BY <1>5, <1>7 DEF Decrypting, Encrypting, Nothing, Linked, EncryptLast, Typed, Part
<1> QED
  BY <1>6, <1>7, <1>8, <1>9, <1>10 DEF Encrypting, RoundTrip

LEMMA KeptByDecryptBlock == IInv /\ DecryptBlock => IInv'
<1> SUFFICES ASSUME IInv, DecryptBlock PROVE IInv'
  OBVIOUS
<1> DEFINE n == Len(decrypted.full)
           p == plain.full[n + 1]
<1> USE DEF IInv
<1>1. /\ n \in Nat /\ n < Len(encrypted.full) /\ p \in Block
      /\ Len(encrypted.full) \in Nat /\ Len(encrypted.full) <= Len(plain.full)
  BY DEF Typed, Part, DecryptBlock, Linked
<1>2. /\ course[n + 2].delta = S2(course[n + 1].delta)
      /\ course[n + 2].checksum = Xor(course[n + 1].checksum, p)
      /\ encrypted.full[n + 1] = Encipher(course[n + 2].delta, p)
  <2>1. n + 1 \in 1 .. Len(encrypted.full) /\ (n + 1) + 1 = n + 2
    BY <1>1
  <2> QED
    BY <2>1 DEF Linked
<1>3. /\ delta = course[n + 1].delta /\ checksum = course[n + 1].checksum
      /\ delta \in Block /\ checksum \in Block
  BY DEF Decrypting, DecryptBlock, Typed
<1>4. delta' = course[n + 2].delta /\ delta' \in Block
  BY <1>2, <1>3, Multiples DEF DecryptBlock
<1>5. Xor(delta', AESdecrypt(Xor(delta', encrypted.full[n + 1]))) = p
  BY <1>1, <1>2, <1>4, Deciphered
<1>6. /\ decrypted' = [decrypted EXCEPT !.full = Append(@, p)]
      /\ checksum' = Xor(checksum, p)
  BY <1>5 DEF DecryptBlock
<1>7. /\ decrypted' \in Part /\ decrypted'.full = Append(decrypted.full, p)
      /\ checksum' = course[n + 2].checksum /\ checksum' \in Block
  <2>1. decrypted \in Part
    BY DEF Typed
  <2> HIDE DEF p, IInv
  <2>2. decrypted' \in Part /\ decrypted'.full = Append(decrypted.full, p)
    BY <1>1, <1>6, <2>1 DEF Part
  <2>3. checksum' = course[n + 2].checksum /\ checksum' \in Block
    BY <1>1, <1>2, <1>3, <1>6, XorTwice
  <2> QED
    BY <2>2, <2>3
<1>8. UNCHANGED <<aes, nonce, plain, at, encrypted, course>> /\ at = "decrypt"
  BY DEF DecryptBlock
<1>9. Typed'
  BY <1>4, <1>7, <1>8 DEF Typed
<1>10. Linked'
  BY <1>8 DEF Linked, Encipher
<1>11. Sealed'
  BY <1>8 DEF Sealed, Pad, Filled, Tag
<1>12. Decrypting'
  <2>1. decrypted.full \in Seq(Block) /\ Len(decrypted'.full) = n + 1
    BY <1>1, <1>7 DEF Typed, Part
  <2>2. \A i \in 1 .. n + 1 : decrypted'.full[i] = plain.full[i]
    BY <1>1, <1>7, <1>8, <2>1 DEF Decrypting
  <2>3. (n + 1) + 1 = n + 2
    BY <1>1
  <2> QED
    BY <1>1, <1>4, <1>7, <1>8, <2>1, <2>2, <2>3 DEF Decrypting
<1> QED
  BY <1>8, <1>9, <1>10, <1>11, <1>12 DEF Encrypting, RoundTrip

LEMMA KeptByDecryptLast == IInv /\ DecryptLast => IInv'
<1> SUFFICES ASSUME IInv, DecryptLast PROVE IInv'
  OBVIOUS
<1> DEFINE d == S2(delta)
           n == Len(decrypted.full)
<1> USE DEF IInv
<1>1. d \in Block /\ Pad(d) \in Block /\ Filled(d) \in Block
  BY Multiples, Enciphered DEF Typed
<1>2. /\ n = Len(plain.full) /\ n + 1 = Len(course)
      /\ delta = course[Len(course)].delta
      /\ checksum = course[Len(course)].checksum
  BY DEF Typed, Part, Linked, Sealed, Decrypting, DecryptLast
<1>3. /\ encrypted.last = Xor(Pad(d), Filled(d)) \cap (1 .. plain.len)
      /\ encrypted.tag = Tag(d, Xor(checksum, Filled(d)))
  BY <1>2 DEF Sealed, DecryptLast
<1>4. /\ PaddedLast(Pad(d), encrypted.last) = Filled(d)
      /\ Filled(d) \cap (1 .. plain.len) = plain.last
  BY <1>1, <1>3, LastPart
<1>5. decrypted' = [decrypted EXCEPT !.last = plain.last, !.tag = encrypted.tag]
  BY <1>3, <1>4 DEF DecryptLast
<1>6. /\ decrypted' \in Part /\ decrypted'.full = decrypted.full
      /\ decrypted'.last = plain.last /\ decrypted'.tag = encrypted.tag
  BY <1>5 DEF Typed, Part
<1>7. /\ UNCHANGED <<aes, nonce, plain, delta, checksum, encrypted, course>>
      /\ at = "decrypt" /\ at' = "done"
  BY DEF DecryptLast
<1>8. Typed'
  BY <1>6, <1>7 DEF Typed
<1>9. decrypted.full = plain.full
  <2>1. decrypted.full \in Seq(Block) /\ plain.full \in Seq(Block)
    BY DEF Typed, Part
  <2>2. \A i \in 1 .. n : decrypted.full[i] = plain.full[i]
    BY DEF Decrypting, DecryptLast
  <2> QED
    BY <1>2, <2>1, <2>2
<1>10. RoundTrip'
  BY <1>6, <1>7, <1>9 DEF RoundTrip
<1>11. Linked' /\ Sealed'
  BY <1>7 DEF Linked, Sealed, Encipher, Pad, Filled, Tag
<1> QED
  BY <1>7, <1>8, <1>10, <1>11 DEF Encrypting, Decrypting

LEMMA KeptByStuttering == IInv /\ UNCHANGED vars => IInv'
BY DEF IInv, vars, Typed, Linked, Encrypting, Sealed, Decrypting, RoundTrip,
       Encipher, Pad, Filled, Tag

(* What is encrypted is decrypted: the message comes back and the tags are  *)
(* the same, so that decrypt accepts what encrypt has made.                 *)
THEOREM DecryptsWhatItEncrypts == Spec => []RoundTrip
<1>1. IInv /\ [Next]_vars => IInv'
  BY KeptByEncryptBlock, KeptByEncryptLast, KeptByDecryptBlock, KeptByDecryptLast,
     KeptByStuttering DEF Next
<1>2. IInv => RoundTrip
  BY DEF IInv
<1> QED
  BY Initially, <1>1, <1>2, PTL DEF Spec
================================================================================
