----------------------------- MODULE MCLiveness -----------------------------
(***************************************************************************)
(* What must eventually happen in the outbox worker: every call of tick()  *)
(* settles (TickCoalescing), and every job does (OutboxDelivery).  The two *)
(* look at one worker at different grains and share no variable, so TLC    *)
(* explores them side by side: "part" is chosen once, and the other part   *)
(* stays in its initial state, except that a worker without a job may tick *)
(* on: its fairness demands it.                                            *)
(***************************************************************************)
EXTENDS TickCoalescing

CONSTANTS c1, c2, c3, j1, j2, s1, s2, here, NoJob

VARIABLES part, status, due, reason, seq, next, pin, target, private, observed,
          phase, todo, cur, aborted, tried, err, wire, stored, sent

deliveryVars ==
    <<status, due, reason, seq, next, pin, target, private, observed, phase,
      todo, cur, aborted, tried, err, wire, stored, sent>>

OneScope == [j \in {j1, j2} |-> s1]

Delivery == INSTANCE OutboxDelivery
    WITH Jobs <- {j1, j2}, Scopes <- {s1, s2}, ScopeOf <- OneScope,
         Targets <- {here}, OutsideEdits <- FALSE

MCInit ==
    /\ part \in {"tick", "delivery"}
    /\ Init /\ Delivery!Init
    /\ part = "tick" => ~private

MCNext ==
    \/ part = "tick" /\ Next /\ UNCHANGED <<part, deliveryVars>>
    \/ /\ part = "tick" /\ UNCHANGED <<part, vars>>
       /\ Delivery!TickBegin \/ Delivery!TickEnd
    \/ part = "delivery" /\ Delivery!Next /\ UNCHANGED <<part, vars>>

\* The fairness of both parts.
MCLiveSpec ==
    /\ MCInit /\ [][MCNext]_<<part, vars, deliveryVars>>
    /\ Fairness /\ Delivery!Fairness

\* Every job that is accepted is at last acknowledged or quarantined, unless
\* private mode, the target or the end of the session keeps it for ever.
EveryJobSettles == Delivery!EveryJobSettles
=============================================================================
