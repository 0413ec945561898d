----------------------------- MODULE AuditStore -----------------------------
(***************************************************************************)
(* FileAuditStore of src/src/privacy/audit-store.ts: an append-only log    *)
(* with rotated segments, a lock file that names its owner's pid, and      *)
(* processes that open, record, close and die.  A line is an event number; *)
(* calls of one process are synchronous, but those of two interleave.      *)
(***************************************************************************)
EXTENDS Naturals, Sequences, SequencesExt

CONSTANTS
  Pids,      \* processes; a pid is not used twice
  Room,      \* lines that fit in a file (maxRotateBytes)
  Segments,  \* rotated files kept (maxRotatedFiles)
  MaxEvents, \* bound: events recorded
  MaxFaults, \* bound: failing calls and deaths
  NoPid, Unreadable \* no lock file; one without a pid in it

BoundsAssumption ==
  /\ Room \in Nat \ {0} /\ Segments \in Nat \ {0}
  /\ NoPid \notin Pids /\ Unreadable \notin Pids /\ NoPid # Unreadable
  /\ MaxEvents \in Nat /\ MaxFaults \in Nat

VARIABLES
  at,      \* where each process is
  tries,   \* attempts of acquireLock left
  judged,  \* the lock a process found stale
  lock,    \* the lock file: absent, without a pid, or the pid in it
  old,     \* is it older than staleLockMs?
  file,    \* lines of audit.log (0) and audit.log.1 and on, empty if absent; a
           \* line is an event, or 0 when it is not whole
  tail,    \* is the last line of audit.log without its end?
  kept,    \* history: events recorded as persisted
  dropped, \* history: events in segments that were deleted
  events, faults,
  marred   \* history: an event appended to a line cut short, a rotation that
           \* failed, a lock removed that was not the one judged

vars == <<at, tries, judged, lock, old, file, tail, kept, dropped, events,
          faults, marred>>
history == <<kept, dropped, events>>

Init ==
  /\ at = [p \in Pids |-> "idle"]
  /\ tries = [p \in Pids |-> 0] /\ judged = [p \in Pids |-> NoPid]
  /\ lock = NoPid /\ old = FALSE
  /\ file = [i \in 0..Segments |-> << >>] /\ tail = FALSE
  /\ kept = {} /\ dropped = {} /\ events = 0 /\ faults = 0 /\ marred = {}

Fault == faults < MaxFaults /\ faults' = faults + 1
Go(p, place) == at' = [at EXCEPT ![p] = place]
\* acquireLock() returns, or the process dies in it: its locals are gone.
Leaves(p, place) ==
  /\ Go(p, place)
  /\ tries' = [tries EXCEPT ![p] = 0] /\ judged' = [judged EXCEPT ![p] = NoPid]
LockIs(pid) == lock' = pid /\ old' = FALSE

-----------------------------------------------------------------------------
(* The lock.                                                               *)

Open(p) ==
  /\ at[p] \in {"idle", "shut"}
  /\ Go(p, "create") /\ tries' = [tries EXCEPT ![p] = 2]
  /\ UNCHANGED <<judged, lock, old, file, tail, history, faults, marred>>

Repair ==
  /\ tail' = FALSE
  /\ file' = IF tail THEN [file EXCEPT ![0] = Front(@)] ELSE file

\* The lock is created exclusively; the write of the pid may fail, and leaves a
\* file without one.  The owner cuts off an unterminated last line, if it can.
CreateLock(p) ==
  /\ at[p] = "create"
  /\ \/ /\ lock = NoPid /\ LockIs(p) /\ Leaves(p, "own")
        /\ \/ Repair /\ UNCHANGED faults
           \/ tail /\ Fault /\ UNCHANGED <<file, tail>>
     \/ /\ lock = NoPid /\ Fault /\ Leaves(p, "denied")
        /\ \E l \in {NoPid, Unreadable} : LockIs(l)
        /\ UNCHANGED <<file, tail>>
     \/ /\ lock # NoPid /\ Go(p, "judge")
        /\ tries' = [tries EXCEPT ![p] = @ - 1]
        /\ UNCHANGED <<judged, lock, old, file, tail, faults>>
  /\ UNCHANGED <<history, marred>>

\* The pid decides when there is one, the age when there is none.
StaleByAge == \* mutant: the age is asked first
  \/ lock \in Pids /\ at[lock] = "dead"
  \/ lock # NoPid /\ old
Stale ==
  \/ lock \in Pids /\ at[lock] = "dead"
  \/ lock = Unreadable /\ old

Judge(p) ==
  /\ at[p] = "judge"
  /\ \/ /\ Stale /\ Go(p, "remove") /\ UNCHANGED tries
        /\ judged' = [judged EXCEPT ![p] = lock]
     \/ ~Stale /\ Leaves(p, "denied")
  /\ UNCHANGED <<lock, old, file, tail, history, faults, marred>>

\* Whatever lock is there by now is removed; if none is, the call fails.
RemoveLock(p) ==
  /\ at[p] = "remove" /\ LockIs(NoPid)
  /\ IF lock = NoPid \/ tries[p] = 0 THEN Leaves(p, "denied")
     ELSE /\ Go(p, "create") /\ UNCHANGED tries
          /\ judged' = [judged EXCEPT ![p] = NoPid]
  /\ marred' = IF lock \in {NoPid, judged[p]} THEN marred ELSE marred \cup {"race"}
  /\ UNCHANGED <<file, tail, history, faults>>

LockGetsOld ==
  /\ lock # NoPid /\ ~old /\ old' = TRUE
  /\ UNCHANGED <<at, tries, judged, lock, file, tail, history, faults, marred>>

Close(p) ==
  /\ at[p] \in {"own", "denied"} /\ Go(p, "shut")
  /\ IF at[p] = "own" THEN LockIs(NoPid) ELSE UNCHANGED <<lock, old>>
  /\ UNCHANGED <<tries, judged, file, tail, history, faults, marred>>

\* A process that dies while it creates the lock may leave it without a pid.
Die(p) ==
  /\ at[p] # "dead" /\ Fault /\ Leaves(p, "dead")
  /\ \/ UNCHANGED <<lock, old>>
     \/ at[p] = "create" /\ lock = NoPid /\ LockIs(Unreadable)
  /\ UNCHANGED <<file, tail, history, marred>>

-----------------------------------------------------------------------------
(* record(): rotate when the line would not fit, then append.  The calls   *)
(* of one record are synchronous, and only the owner makes them.           *)

Rotates == file[0] # << >> /\ Len(file[0]) + 1 > Room

\* The files after the first k calls of a rotation: the oldest segment is deleted,
\* the others move up from the oldest on, and `gap' is the place that is free.
All == Segments + 1
Shifted(k) ==
  LET gap == All - k
  IN  [i \in 0..Segments |-> IF i = gap THEN << >>
                             ELSE IF i > gap THEN file[i - 1] ELSE file[i]]

\* The events in a file: its whole lines.
Whole(lines) == ToSet(lines) \ {0}
Deleted(k) == IF k = 0 THEN {} ELSE Whole(file[Segments])

\* A rotation that fails leaves what its calls did so far, and the append goes
\* on; it goes through, fails, or is cut short.  What follows a line cut short
\* ends up in that line.
Record(p) ==
  /\ at[p] = "own" /\ events < MaxEvents /\ events' = events + 1
  /\ \E k \in IF Rotates THEN 0..All ELSE {0},
        append \in {"whole", "none", "cut"} :
       LET failed == Rotates /\ k # All
           torn   == tail /\ k # All
           line   == IF append = "whole" THEN events + 1 ELSE 0
       IN  /\ IF failed \/ append # "whole" THEN Fault ELSE UNCHANGED faults
           /\ file' = IF torn \/ append = "none" THEN Shifted(k)
                      ELSE [Shifted(k) EXCEPT ![0] = Append(@, line)]
           /\ tail' = (append = "cut" \/ (torn /\ append = "none"))
           /\ kept' = kept \cup IF append = "whole" THEN {events + 1} ELSE {}
           /\ dropped' = dropped \cup Deleted(k)
           /\ marred' = marred \cup (IF failed THEN {"rotation"} ELSE {})
                \cup (IF torn /\ append = "whole" THEN {"merged"} ELSE {})
  /\ UNCHANGED <<at, tries, judged, lock, old>>

\* A process killed in the middle of record() leaves what its calls did so far.
DieRecording(p) ==
  /\ at[p] = "own" /\ Fault /\ Leaves(p, "dead")
  /\ \E k \in IF Rotates THEN 0..All ELSE {0}, cut \in BOOLEAN :
       LET torn == tail /\ k # All
       IN  /\ cut => ~Rotates \/ k = All
           /\ file' = IF cut /\ ~torn THEN [Shifted(k) EXCEPT ![0] = Append(@, 0)]
                      ELSE Shifted(k)
           /\ tail' = (cut \/ torn)
           /\ dropped' = dropped \cup Deleted(k)
  /\ UNCHANGED <<lock, old, kept, events, marred>>

\* Without the lock, or after close(), the event stays in memory.
RecordDenied(p) ==
  /\ at[p] \in {"denied", "shut"} /\ events < MaxEvents
  /\ events' = events + 1
  /\ UNCHANGED <<at, tries, judged, lock, old, file, tail, kept, dropped, faults,
                 marred>>

Next ==
  \/ LockGetsOld
  \/ \E p \in Pids :
       \/ Open(p) \/ CreateLock(p) \/ Judge(p) \/ RemoveLock(p)
       \/ Close(p) \/ Die(p)
       \/ Record(p) \/ DieRecording(p) \/ RecordDenied(p)

Spec == Init /\ [][Next]_vars

-----------------------------------------------------------------------------
(* Properties.                                                             *)

OnDisk == UNION {Whole(file[i]) : i \in 0..Segments}

\* Type invariant of the lock, the files and the history.
AuditTypeOK ==
  /\ at \in [Pids -> {"idle", "create", "judge", "remove", "own", "denied",
                      "shut", "dead"}]
  /\ tries \in [Pids -> 0..2]
  /\ judged \in [Pids -> Pids \cup {NoPid, Unreadable}]
  /\ lock \in Pids \cup {NoPid, Unreadable} /\ old \in BOOLEAN
  /\ file \in [0..Segments -> Seq(0..MaxEvents)]
  /\ tail \in BOOLEAN /\ (tail => file[0] # << >> /\ Last(file[0]) = 0)
  /\ kept \subseteq 1..events /\ dropped \subseteq 1..events
  /\ events \in 0..MaxEvents /\ faults \in 0..MaxFaults
  /\ marred \subseteq {"merged", "rotation", "race"}

\* A lock is taken over only from a dead process (audit-store.ts:239-241): no
\* two live processes own the log, however the lock files of dead ones are
\* judged, removed and created again, unless the lock removed is not the one
\* that was judged (:270).
OneOwner ==
  "race" \notin marred => \A p, q \in Pids : at[p] = "own" /\ at[q] = "own" => p = q

\* What record() counts as persisted is a whole line of the active file or of a
\* segment until its segment is the oldest one and deleted, across rotations
\* that fail at any call, deaths, appends cut short and repairs, unless it was
\* appended to a line cut short (audit-store.ts:346, 370-389).
PersistedIsReadable ==
  marred \cap {"merged", "race"} = {} => kept \subseteq dropped \cup OnDisk

\* Rotation keeps the order: read from the oldest segment to the active file,
\* the events are in the order they were recorded, each once, and what was
\* deleted is older than all that is left (audit-store.ts:371-389).
OldestGoesFirst ==
  "race" \notin marred =>
    /\ \A i \in 0..Segments : \A a, b \in DOMAIN file[i] :
         a < b /\ 0 \notin {file[i][a], file[i][b]} => file[i][a] < file[i][b]
    /\ \A i, j \in 0..Segments :
         i < j => \A e \in Whole(file[i]), d \in Whole(file[j]) : d < e
    /\ \A d \in dropped, e \in OnDisk : d < e

\* Unless a rotation failed, no file outgrows its bound, torn lines included,
\* so the log stays within diskBudgetBytes (audit-store.ts:466-472).
WithinBudget ==
  marred \cap {"rotation", "race"} = {} =>
    \A i \in 0..Segments : Len(file[i]) <= Room

\* The audit log through takeovers of its lock, failing rotations and deaths: one
\* owner, nothing persisted lost, order kept, the budget held.
AuditSafety ==
  AuditTypeOK /\ OneOwner /\ PersistedIsReadable /\ OldestGoesFirst /\ WithinBudget
=============================================================================
