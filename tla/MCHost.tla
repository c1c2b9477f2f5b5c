------------------------------ MODULE MCHost ------------------------------
(* What a host drives by its calls: the ticks of a link session, the polls  *)
(* of a resource transfer, and the queue frames wait in.  The models share  *)
(* no state, so each behaviour runs one of them and the others stay where   *)
(* they began.                                                              *)
EXTENDS LinkSession, MCResourceTransfer, RingQueue

VARIABLE part

vars == <<sessionVars, transferVars, ringVars, part>>

---------------------------------------------------------------------------
\* Session: two hop counts, RTTs on both sides of the clamp, two identities.
MCHops == {0, 2}
MCPeerRtts == {Unset, 0, 9}
MCIdentities == {1, 2}
MCKeepalivePerRtt == <<3, 2>>

---------------------------------------------------------------------------
\* A model that does not run has one of its initial states.
Init ==
    /\ part \in {"session", "transfer", "queue"}
    /\ SessionInit /\ (part # "session" => session = accept(0))
    /\ TransferInit
    /\ RingInit

\* A transfer may be over; the other two always go on.
Over == part = "transfer" /\ UNCHANGED vars

Next ==
    \/ part = "session" /\ SessionNext /\ UNCHANGED <<transferVars, ringVars, part>>
    \/ part = "transfer" /\ TransferNext /\ UNCHANGED <<sessionVars, ringVars, part>>
    \/ part = "queue" /\ RingNext /\ UNCHANGED <<sessionVars, transferVars, part>>
    \/ Over

\* SessionFairness and TransferFairness, each for the behaviours its model runs in.
Fairness ==
    /\ WF_sessionVars(part = "session" /\ Pass)
    /\ WF_sessionVars(part = "session" /\ tick)
    /\ WF_sessionVars(part = "session" /\ action = "Teardown" /\ teardown)
    /\ WF_transferVars(part = "transfer" /\ Tick)
    /\ WF_transferVars(part = "transfer" /\ Poll)
    /\ WF_transferVars(part = "transfer" /\ AskAgain)
    /\ WF_transferVars(part = "transfer" /\ Assemble)
    /\ \A m \in Packets : WF_transferVars(part = "transfer" /\ Deliver(m))

Spec == Init /\ [][Next]_vars /\ Fairness
===========================================================================
