-------------------------- MODULE MCDeliveryTools --------------------------
(***************************************************************************)
(* The delivery of the outbox, and three machines beside it that must get  *)
(* the same hazards right with a file or a backend of their own: the       *)
(* reconciliation cursor, the audit log and the live acceptance run.  They *)
(* share no state, so TLC explores them side by side: "part" is chosen     *)
(* once, and the other parts stay in their initial states.                 *)
(*                                                                         *)
(* Delivery: two jobs of a scope, two targets.  Cursor: a feed of five     *)
(* changes, read in passes of two pages of two.  Audit log: three          *)
(* symmetric processes, two lines a file, two segments, so that the        *)
(* seventh event deletes the oldest one.                                   *)
(***************************************************************************)
EXTENDS OutboxDelivery, TLC

CONSTANTS j1, j2, s1, here, there,                             \* delivery
          PageSize, MaxPages, MaxSeq, MaxLocal, MaxMishaps,    \* cursor
          Pids, NoPid, Room, Segments, Unreadable, MaxEvents, MaxFaults,   \* audit log
          MaxTrouble                                           \* live run

VARIABLES part,
          cursors, mem, feed, pass, chain, durable, failed, mishaps,
          at, tries, judged, lock, old, log, tail, kept, dropped, events,
          faults, marred,
          step, calls, deadline, record, pending, manifest, passed, degraded,
          stop, report, trouble, blame

OneScope == [j \in Jobs |-> s1]

Cursor == INSTANCE CursorReconcile WITH file <- cursors

Audit == INSTANCE AuditStore WITH file <- log

Runner == INSTANCE LiveRunner WITH tries <- calls, reason <- stop

ASSUME AuditAssumption == Audit!BoundsAssumption
ASSUME CursorAssumption == Cursor!BoundsAssumption
ASSUME RunnerAssumption == MaxTrouble \in Nat

cursorVars == <<cursors, mem, feed, pass, chain, durable, failed, mishaps>>
auditVars  == <<at, tries, judged, lock, old, log, tail, kept, dropped, events,
                faults, marred>>
runnerVars == <<step, calls, deadline, record, pending, manifest, passed,
                degraded, stop, report, trouble, blame>>

Symmetry == Permutations(Pids)

MCInit ==
    /\ part \in {"delivery", "cursor", "audit", "runner"}
    /\ Init /\ Cursor!Init /\ Audit!Init /\ Runner!Init
    /\ part # "cursor" => cursors = Cursor!Fresh
    /\ part # "runner" => step = "discover"
    /\ part # "delivery" =>
         ~private /\ target = here /\ \A j \in Jobs : pin[j] = here

MCNext ==
    \/ part = "delivery" /\ Next
       /\ UNCHANGED <<part, cursorVars, auditVars, runnerVars>>
    \/ part = "cursor" /\ Cursor!Next
       /\ UNCHANGED <<part, vars, auditVars, runnerVars>>
    \/ part = "audit" /\ Audit!Next
       /\ UNCHANGED <<part, vars, cursorVars, runnerVars>>
    \/ part = "runner" /\ Runner!Next
       /\ UNCHANGED <<part, vars, cursorVars, auditVars>>

MCSpec == MCInit /\ [][MCNext]_<<part, vars, cursorVars, auditVars, runnerVars>>

\* The advisory position never jumps over a change of the feed, and a seq whose
\* advance returned is in the file.
CursorSafety == part = "cursor" => Cursor!CursorSafety

\* One process owns the audit log, what it recorded stays readable, in order and
\* within the budget.
AuditSafety == part = "audit" => Audit!AuditSafety

\* What a live run leaves on the backend is in its report, and a clean pass
\* leaves nothing.
RunnerSafety == part = "runner" => Runner!RunnerSafety
=============================================================================
