------------------------------- MODULE MCAir ------------------------------
(* What goes over an interface: announces at their pace, LoRa frames within *)
(* their airtime, and the packets of a resource transfer, which are lost,   *)
(* repeated and reordered.  The models share no state, so each behaviour    *)
(* runs one of them and the others stay where they began.                   *)
EXTENDS MCResourceTransfer, AnnouncePacing, LoraLink

VARIABLE part

vars == <<transferVars, pacingVars, loraVars, part>>

\* Pacing: the two rates the other way round, and an unlimited grace interval.
Exchanged == {[steady |-> 2, grace |-> 1], [steady |-> 1, grace |-> 0]}

Init ==
    /\ part \in {"transfer", "pacing", "lora"}
    /\ TransferInit
    /\ PacingInit
    /\ LoraInit

\* A transfer may be over; the other two always go on.
Over == part = "transfer" /\ UNCHANGED vars

Next ==
    \/ part = "transfer" /\ TransferNext /\ UNCHANGED <<pacingVars, loraVars, part>>
    \/ part = "pacing" /\ PacingNext /\ UNCHANGED <<transferVars, loraVars, part>>
    \/ part = "lora" /\ LoraNext /\ UNCHANGED <<transferVars, pacingVars, part>>
    \/ Over

Spec == Init /\ [][Next]_vars
===========================================================================
