---------------------------- MODULE OutboxChannel ----------------------------
(***************************************************************************)
(* What the outbox promises to those who enqueue: accepted jobs are sent   *)
(* per scope in the order of acceptance, each until it is given up or its  *)
(* record is stored, and only a stored record counts as delivered.  A      *)
(* write that left may be stored at any later time, again and again; it is *)
(* the same record then.                                                   *)
(***************************************************************************)
EXTENDS Naturals

CONSTANTS Jobs, ScopeOf

VARIABLES
    status, \* "none" | "pending" | "quarantined" | "acked"
    seq,    \* order of acceptance
    next,
    sent,   \* jobs whose write has left at least once
    stored  \* jobs whose record is at the backend

vars == <<status, seq, next, sent, stored>>

Pending(j) == status[j] = "pending"
Head(j) == /\ Pending(j)
           /\ \A k \in Jobs : Pending(k) /\ ScopeOf[k] = ScopeOf[j] => seq[k] >= seq[j]

Init ==
    /\ status = [j \in Jobs |-> "none"]
    /\ seq = [j \in Jobs |-> 0] /\ next = 1
    /\ sent = {} /\ stored = {}

Accept(j) ==
    /\ status[j] = "none"
    /\ status' = [status EXCEPT ![j] = "pending"]
    /\ seq' = [seq EXCEPT ![j] = next] /\ next' = next + 1
    /\ UNCHANGED <<sent, stored>>

Attempt(j) ==
    /\ Head(j)
    /\ sent' = sent \cup {j}
    /\ UNCHANGED <<status, seq, next, stored>>

Store(j) ==
    /\ j \in sent
    /\ stored' = stored \cup {j}
    /\ UNCHANGED <<status, seq, next, sent>>

Deliver(j) ==
    /\ Head(j) /\ j \in stored
    /\ status' = [status EXCEPT ![j] = "acked"]
    /\ UNCHANGED <<seq, next, sent, stored>>

GiveUp(j) ==
    /\ Head(j)
    /\ status' = [status EXCEPT ![j] = "quarantined"]
    /\ UNCHANGED <<seq, next, sent, stored>>

Next == \E j \in Jobs : Accept(j) \/ Attempt(j) \/ Store(j) \/ Deliver(j) \/ GiveUp(j)

Spec == Init /\ [][Next]_vars
=============================================================================
