----------------------------- MODULE MCCryptState ------------------------------
(* A small instance of CryptState. *)
EXTENDS CryptState

(* The vector starts two steps before byte 0 wraps, or in mid-round. Both   *)
(* keys start in round 1 and end in round 2 (MaxHi): byte 0 wraps once      *)
(* under each, and byte 1 repeats from one key to the other only.           *)
MCStart == {[hi |-> 1, lo |-> LB - 2], [hi |-> 1, lo |-> 3]}

(* Freshly mapped memory, memory that is all ones, and a mixture. *)
MCHistGarbage ==
    {[b \in Byte |-> 0], [b \in Byte |-> HB - 1],
     [b \in Byte |-> b % HB]}
================================================================================
