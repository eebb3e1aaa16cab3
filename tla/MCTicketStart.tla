--------------------------- MODULE MCTicketStart ---------------------------
(* Every session is an actor of its own. Those in Outsider start no ticket *)
(* but run `issue claim` and `issue release` by hand, beside the starts.   *)
EXTENDS TicketStart

CONSTANT Outsider

OwnName == [d \in Session |-> d]

ByHand(s) == (BeginClaim(s) \/ BeginRelease(s)) /\ UNCHANGED <<shell, world>>

MixedNext ==
    \/ Next /\ \A s \in Outsider : phase'[s] = "idle"
    \/ \E s \in Outsider : ByHand(s)

MixedSpec ==
    /\ Init /\ [][MixedNext]_startVars
    /\ \A d \in Session : WF_startVars(Step(d))
=============================================================================
