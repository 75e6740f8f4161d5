----------------------------------- MODULE OCB -----------------------------------
(***************************************************************************)
(* ocb_encrypt and ocb_decrypt of CryptState, one turn of their loops a    *)
(* step: a message is encrypted, then decrypted with the same key and      *)
(* nonce.  What CryptState assumes of a genuine datagram is shown here:    *)
(* it comes out as it went in and its tag matches.                         *)
(*                                                                         *)
(* A block is a set of bits, 1 the most significant; exclusive or is the   *)
(* symmetric difference.  AES under a key is any permutation of the        *)
(* blocks.  Lengths are counted in bits; the length of the last part is    *)
(* that of the code in bytes, times 8.                                     *)
(***************************************************************************)
EXTENDS Integers, Sequences

CONSTANTS
    Size,       \* bits of a block: 128 in the code
    Feedback,   \* bits of the constant 0x87
    MaxFull     \* bound: blocks of a message but the last

ASSUME OCBAssumption ==
    /\ Size \in Nat \ {0} /\ MaxFull \in Nat
    /\ Feedback \subseteq 1 .. Size

VARIABLES
    aes,        \* AES under the key
    nonce,
    plain,      \* the message: full blocks, and a last part of 0 .. Size bits
    at,         \* the function that runs: "encrypt", "decrypt" or "done"
    delta,      \* its variables
    checksum,
    encrypted,  \* full blocks and last part of its result, and the tag
    decrypted,
    course      \* (for the proof) delta and checksum of the encryption before
                \* the first block and after each

vars == <<aes, nonce, plain, at, delta, checksum, encrypted, decrypted, course>>

Bits == 1 .. Size
Block == SUBSET Bits

Permutations == {e \in [Block -> Block] : \A x, y \in Block : e[x] = e[y] => x = y}

Xor(a, b) == (a \ b) \cup (b \ a)

AESdecrypt(y) == CHOOSE x \in Block : aes[x] = y

(* Multiplication by 2: a shift, with feedback of the bit that falls out. *)
S2(x) == {i \in Bits : (i + 1 \in x) # (1 \in x /\ i \in Feedback)}

S3(x) == Xor(x, S2(x))

(* The loops run while more than a block is left, so that a last part of no *)
(* bits is that of an empty message only.                                   *)
Message ==
    {p \in [full : UNION {[1 .. n -> Block] : n \in 0 .. MaxFull},
            len : 0 .. Size, last : Block] :
        /\ p.last \subseteq 1 .. p.len
        /\ p.len = 0 => p.full = <<>>}

(* The block that holds the number len *)
LengthBlock(len) == {i \in Bits : (len \div 2^(Size - i)) % 2 = 1}

(* What both functions compute: a block with its delta, the pad of the last *)
(* part, and the tag                                                        *)
Encipher(d, p) == Xor(d, aes[Xor(d, p)])
Pad(d) == aes[Xor(LengthBlock(plain.len), d)]
Tag(d, sum) == aes[Xor(S3(d), sum)]

(* The last part of the message with the rest of the pad behind it          *)
Filled(d) == plain.last \cup (Pad(d) \ (1 .. plain.len))

Nothing == [full |-> <<>>, last |-> {}, tag |-> {}]

EncryptBlock ==
    /\ at = "encrypt" /\ Len(encrypted.full) < Len(plain.full)
    /\ delta' = S2(delta)
    /\ LET p == plain.full[Len(encrypted.full) + 1]
       IN  /\ encrypted' = [encrypted EXCEPT !.full = Append(@, Encipher(delta', p))]
           /\ checksum' = Xor(checksum, p)
    /\ course' = Append(course, [delta |-> delta', checksum |-> checksum'])
    /\ UNCHANGED <<aes, nonce, plain, at, decrypted>>

(* The last part and the tag; the decryption begins as the encryption did.  *)
EncryptLast ==
    /\ at = "encrypt" /\ Len(encrypted.full) = Len(plain.full)
    /\ LET d == S2(delta)
       IN  encrypted' = [encrypted EXCEPT
                            !.last = Xor(Pad(d), Filled(d)) \cap (1 .. plain.len),
                            !.tag = Tag(d, Xor(checksum, Filled(d)))]
    /\ at' = "decrypt" /\ delta' = aes[nonce] /\ checksum' = {}
    /\ UNCHANGED <<aes, nonce, plain, decrypted, course>>

DecryptBlock ==
    /\ at = "decrypt" /\ Len(decrypted.full) < Len(encrypted.full)
    /\ delta' = S2(delta)
    /\ LET c == encrypted.full[Len(decrypted.full) + 1]
           p == Xor(delta', AESdecrypt(Xor(delta', c)))
       IN  /\ decrypted' = [decrypted EXCEPT !.full = Append(@, p)]
           /\ checksum' = Xor(checksum, p)
    /\ UNCHANGED <<aes, nonce, plain, at, encrypted, course>>

(* Mutant: what is beyond the last part does not count in the checksum. *)
UnpaddedLast(pad, c) == Xor(c, pad) \cap (1 .. plain.len)

(* The last part, filled with zeros before the pad is added *)
PaddedLast(pad, c) == Xor(c, pad)

DecryptLast ==
    /\ at = "decrypt" /\ Len(decrypted.full) = Len(encrypted.full)
    /\ LET d == S2(delta)
           tmp == PaddedLast(Pad(d), encrypted.last)
       IN  decrypted' = [decrypted EXCEPT
                            !.last = tmp \cap (1 .. plain.len),
                            !.tag = Tag(d, Xor(checksum, tmp))]
    /\ at' = "done"
    /\ UNCHANGED <<aes, nonce, plain, delta, checksum, encrypted, course>>

Init ==
    /\ aes \in Permutations /\ nonce \in Block /\ plain \in Message
    /\ at = "encrypt" /\ delta = aes[nonce] /\ checksum = {}
    /\ encrypted = Nothing /\ decrypted = Nothing
    /\ course = <<[delta |-> delta, checksum |-> checksum]>>

Next == EncryptBlock \/ EncryptLast \/ DecryptBlock \/ DecryptLast

Spec == Init /\ [][Next]_vars

--------------------------------------------------------------------------------
(* A message that is encrypted and decrypted with the same key and nonce is *)
(* what it was, and the tag of the decryption that of the encryption,       *)
(* whatever its length and however the last block is filled.                *)
RoundTrip ==
    at = "done" =>
        /\ decrypted.full = plain.full /\ decrypted.last = plain.last
        /\ decrypted.tag = encrypted.tag
================================================================================
