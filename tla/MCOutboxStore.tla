--------------------------- MODULE MCOutboxStore ---------------------------
(***************************************************************************)
(* Instances of OutboxStore for TLC: one process that is restarted, and    *)
(* two processes that open the same outbox directory; "setup" is chosen    *)
(* once.  MCSharedState explores both.                                     *)
(***************************************************************************)
EXTENDS OutboxStore

CONSTANTS h1, h2, h3, p1, p2, opA, opB, opN

OneProcess == [h \in Handles |-> p1]
TwoProcesses == [h \in Handles |-> IF h = h2 THEN p2 ELSE p1]

Left(s, op, st, nw) == [seq |-> s, op |-> op, status |-> st, newer |-> nw]

\* A fresh outbox.
Fresh == {{}}
\* A fresh outbox, or one that an earlier run left a quarantined job in.
FreshOrUsed == {{}, {Left(1, opB, "quarantined", FALSE)}}
\* A fresh outbox, or a journal that also holds a job of a newer format.
FreshOrNewer == {{}, {Left(1, opA, "pending", FALSE),
                      Left(2, opN, "quarantined", TRUE)}}

AllCalls == CallKinds
\* No command reaches discardQuarantined().
ProductionCalls == CallKinds \ {"discard"}

VARIABLE setup

One == INSTANCE OutboxStore
    WITH Procs <- {p1}, ProcOf <- OneProcess, Ops <- {opA, opB},
         InitialJournals <- FreshOrUsed, Calls <- AllCalls, LockAges <- "crashed"

Two == INSTANCE OutboxStore
    WITH Ops <- {opA, opN}, InitialJournals <- FreshOrNewer, Calls <- ProductionCalls,
         LockAges <- "never"

\* One process whose worker may still record an outcome after close().
LateSpec ==
    /\ Init /\ setup = "one process"
    /\ [][Next /\ UNCHANGED setup]_<<vars, setup>>
=============================================================================
