------------------------- MODULE MCObserverScheduler -------------------------
(***************************************************************************)
(* The observer of one session at a time, with navigations and writes that *)
(* throw; and its handovers from session to session within a process.  The *)
(* second is the first with schedulers that outlive their sessions: "part" *)
(* says which of the two a behaviour is of.                                *)
(***************************************************************************)
EXTENDS ObserverHandover, TLC

CONSTANTS
    a, b,
    MaxHandoverOps    \* bound: batches created in a behaviour with handovers

VARIABLE part

\* The first entry fills a budget of two by itself, so that two entries are
\* two batches unless the queue is at its cap and they are merged into one
\* the extractor finds too large.
FirstIsLarge == [e \in Entries |-> IF e = 1 THEN 2 ELSE 1]

\* Both entries fit a budget of two.
Even == [e \in Entries |-> 1]

Symmetry == Permutations({a, b})

MCInit == HandoverInit /\ part \in {"session", "handover"}

MCNext ==
    \/ part = "session" /\ Next /\ UNCHANGED <<part, leftover>>
    \/ part = "handover" /\ HandoverNext /\ UNCHANGED part
       /\ nextOp' <= MaxHandoverOps + 1 /\ life' <= MaxSwitches + 1

MCSpec == MCInit /\ [][MCNext]_<<part, vars, leftover>>
=============================================================================
