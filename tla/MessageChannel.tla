----------------------------- MODULE MessageChannel -----------------------------
(***************************************************************************)
(* What the control channel promises: the messages of the server are       *)
(* handled one by one, each once and whole, in the order they were sent.   *)
(***************************************************************************)
EXTENDS Naturals, Sequences

VARIABLES
    sent,       \* the messages sent, in order
    received    \* the messages handled, in order

vars == <<sent, received>>

Init == sent = <<>> /\ received = <<>>

(* Any message may be sent. *)
Send ==
    /\ Len(sent') = Len(sent) + 1
    /\ sent' = Append(sent, sent'[Len(sent) + 1])
    /\ UNCHANGED received

Receive ==
    /\ Len(received) < Len(sent)
    /\ received' = Append(received, sent[Len(received) + 1])
    /\ UNCHANGED sent

Next == Send \/ Receive

Spec == Init /\ [][Next]_vars
================================================================================
