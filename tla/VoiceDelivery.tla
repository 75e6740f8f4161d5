----------------------------- MODULE VoiceDelivery -----------------------------
(***************************************************************************)
(* What the encrypted UDP voice channel promises to the code above it: a   *)
(* datagram that is handed up was sent by the peer, and no datagram is     *)
(* handed up twice.  Datagrams may be lost and may overtake each other.  A *)
(* datagram is identified by the key and the vector it is encrypted with,  *)
(* and the sender never uses the same two again.                           *)
(* The number of successful decryptions is visible because it is what the  *)
(* receiver counts, and because without it a second delivery of the same   *)
(* datagram would look like no step at all.                                *)
(***************************************************************************)
EXTENDS Naturals

CONSTANT Datagram

VARIABLES
    sent,       \* the datagrams the peer has sent
    delivered,  \* the datagrams handed up to the voice code
    count       \* how many times a datagram has been handed up

vars == <<sent, delivered, count>>

Init == sent = {} /\ delivered = {} /\ count = 0

Send(d) ==
    /\ d \notin sent
    /\ sent' = sent \cup {d}
    /\ UNCHANGED <<delivered, count>>

Deliver(d) ==
    /\ d \in sent \ delivered
    /\ delivered' = delivered \cup {d}
    /\ count' = count + 1
    /\ UNCHANGED sent

Next == \E d \in Datagram : Send(d) \/ Deliver(d)

Spec == Init /\ [][Next]_vars
================================================================================
