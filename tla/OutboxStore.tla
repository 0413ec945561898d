---------------------------- MODULE OutboxStore ----------------------------
(***************************************************************************)
(* The durable outbox journal (src/outbox/store.ts, DurableOutbox).        *)
(*                                                                         *)
(* A handle is one DurableOutbox object.  Handles of the same process run  *)
(* one synchronous call at a time; handles of different processes          *)
(* interleave between any two file operations.  All of them share the      *)
(* journal jobs.jsonl, its temporary file and its lock file.  A call of    *)
(* the store that changes the journal is the sequence                      *)
(*     truncate tmp -> write and fsync tmp -> rename -> fsync directory    *)
(* and fails, rolls back or is cut by a crash at any of these points.      *)
(*                                                                         *)
(* A job is reduced to what the journal tells apart: its seq, its opId,    *)
(* its status, and whether its schemaVersion is newer than this program's. *)
(* Payload, scope, attempts and times are left out; the age test of        *)
(* runRetention is a free choice among acknowledged jobs.                  *)
(***************************************************************************)
EXTENDS Naturals, FiniteSets

CONSTANTS
    Handles,      \* DurableOutbox objects, each opened at most once
    Procs,        \* processes
    ProcOf,       \* the process a handle belongs to
    Ops,          \* accepted or refused jobs; an opId that is enqueued again
                  \* after a crash (scheduler.ts:611-620) is another job here
    MaxJobs,      \* limits.maxJobs, the high-water mark
    MaxSeq,       \* bound of the model: greatest seq a journal holds
    InitialJournals, \* the sets of jobs an earlier run may have left behind
    Calls,        \* the calls the surroundings make: a subset of CallKinds
    LateCalls,    \* may the worker still record an outcome after close()?
    LockAges      \* whose lock file may get 30 s old: "never" | "crashed" | "any"

Seqs == 1..MaxSeq
Statuses == {"pending", "quarantined", "acked"}
CallKinds == {"enqueue", "ack", "retry", "quarantine", "discard", "retention"}

\* OutboxJob, reduced.
Job == [seq : Seqs, op : Ops, status : Statuses, newer : BOOLEAN]

\* A file of the outbox directory: absent, half written, or a whole journal.
File == [state : {"none", "torn", "whole"}, jobs : SUBSET Job]
NoFile == [state |-> "none", jobs |-> {}]
TornFile == [state |-> "torn", jobs |-> {}]
Whole(J) == [state |-> "whole", jobs |-> J]

ASSUME StoreAssumption ==
    /\ MaxSeq \in Nat \ {0} /\ MaxJobs \in Nat
    /\ ProcOf \in [Handles -> Procs]
    /\ Calls \subseteq CallKinds
    /\ LateCalls \in BOOLEAN
    /\ LockAges \in {"never", "crashed", "any"}
    /\ \A J \in InitialJournals :
          /\ J \subseteq Job
          /\ \A i, j \in J : i.seq = j.seq => i = j

VARIABLES
    disk,     \* jobs.jsonl as every process sees it
    durable,  \* jobs.jsonl as it is found after a power loss
    tmp,      \* jobs.jsonl.tmp
    lock,     \* jobs.jsonl.lock: {} or {who created it} (never read back), its age
    pc,       \* where a handle stands
    closed,   \* this.closed
    readOnly, \* this.setReadOnlyReason # null
    mem,      \* this.jobs
    next,     \* this.nextSeq
    call,     \* the call in progress, with the snapshot it rolls back to
    promised, \* opIds whose enqueue has returned
    refused,  \* opIds whose enqueue has thrown
    settled   \* opIds for which ack() or discardQuarantined() was called

files == <<disk, durable, tmp>>
handle == <<closed, readOnly, mem, next, call>>
ghosts == <<promised, refused, settled>>
vars == <<files, lock, pc, handle, ghosts>>

LockFile == [by : SUBSET Handles, stale : BOOLEAN]
NoLock == [by |-> {}, stale |-> FALSE]
NoCall == [kind |-> "none", ops |-> {}, mem |-> {}, next |-> 1]
CallRecord == [kind : CallKinds \cup {"none"}, ops : SUBSET Ops,
               mem : SUBSET Job, next : 1..(MaxSeq + 1)]

Opening == {"try", "stat", "remove", "load"}
Writing == {"trunc", "tmp", "renamed"}
PCs == {"new", "idle", "failed", "dead"} \cup Opening \cup Writing

TypeOK ==
    /\ disk \in File /\ durable \in File /\ tmp \in File
    /\ lock \in LockFile
    /\ pc \in [Handles -> PCs]
    /\ closed \in [Handles -> BOOLEAN]
    /\ readOnly \in [Handles -> BOOLEAN]
    /\ mem \in [Handles -> SUBSET Job]
    /\ next \in [Handles -> 1..(MaxSeq + 1)]
    /\ call \in [Handles -> CallRecord]
    /\ promised \subseteq Ops /\ refused \subseteq Ops /\ settled \subseteq Ops

OpsOf(J) == {j.op : j \in J}
Supported(J) == {j \in J : ~j.newer}
NewerIn(J) == {j \in J : j.newer}
Used == promised \cup refused \cup settled
          \cup OpsOf(disk.jobs) \cup OpsOf(durable.jobs) \cup OpsOf(tmp.jobs)
          \cup UNION {OpsOf(mem[h]) : h \in Handles}

Init ==
    /\ \E J \in InitialJournals :
         /\ disk = Whole(J)
         /\ settled = {j.op : j \in {k \in J : k.status = "acked"}}
    /\ durable = disk /\ tmp = NoFile
    /\ lock = NoLock
    /\ pc = [h \in Handles |-> "new"]
    /\ closed = [h \in Handles |-> FALSE]
    /\ readOnly = [h \in Handles |-> FALSE]
    /\ mem = [h \in Handles |-> {}]
    /\ next = [h \in Handles |-> 1]
    /\ call = [h \in Handles |-> NoCall]
    /\ promised = {} /\ refused = {}

\* One thread per process: nobody else of this process is inside a call.
Free(h) == \A g \in Handles \ {h} :
              ProcOf[g] = ProcOf[h] => pc[g] \notin Opening \cup Writing

Goto(h, there) == pc' = [pc EXCEPT ![h] = there]

(*************************** open and close ********************************)

Open(h) ==
    /\ pc[h] = "new" /\ Free(h)
    /\ Goto(h, "try")
    /\ UNCHANGED <<files, lock, handle, ghosts>>

CreateLockNoExcl(h) == \* mutant: openSync without O_EXCL
    /\ pc[h] = "try"
    /\ Goto(h, "load") /\ lock' = [by |-> {h}, stale |-> FALSE]
    /\ UNCHANGED <<files, handle, ghosts>>
\* openSync(lockFile, "wx") creates the file, or it exists and its age counts.
\* A write to the new file that throws ends in the same catch: the file stays.
CreateLock(h) ==
    /\ pc[h] = "try"
    /\ IF lock = NoLock
       THEN /\ Goto(h, "load") \/ Goto(h, "stat")
            /\ lock' = [by |-> {h}, stale |-> FALSE]
       ELSE Goto(h, "stat") /\ UNCHANGED lock
    /\ UNCHANGED <<files, handle, ghosts>>

\* statSync(lockFile).mtimeMs: throws when the file has gone meanwhile.
StatLock(h) ==
    /\ pc[h] = "stat"
    /\ Goto(h, IF lock.stale THEN "remove" ELSE "failed")
    /\ UNCHANGED <<files, lock, handle, ghosts>>

\* rmSync(lockFile), then a new try: whatever lock file is there now.
RemoveStaleLock(h) ==
    /\ pc[h] = "remove"
    /\ Goto(h, IF lock # NoLock THEN "try" ELSE "failed")
    /\ lock' = NoLock
    /\ UNCHANGED <<files, handle, ghosts>>

\* nextSeq after load(): one more than the greatest seq.
IsNextSeq(n, J) == /\ \A j \in J : j.seq < n
                   /\ n = 1 \/ \E j \in J : j.seq + 1 = n

Load(h) ==
    /\ pc[h] = "load" /\ disk.state # "torn"
    /\ \E n \in 1..(MaxSeq + 1) :
         IsNextSeq(n, disk.jobs) /\ next' = [next EXCEPT ![h] = n]
    /\ mem' = [mem EXCEPT ![h] = disk.jobs]
    /\ readOnly' = [readOnly EXCEPT ![h] = NewerIn(disk.jobs) # {}]
    /\ Goto(h, "idle")
    /\ UNCHANGED <<files, lock, closed, call, ghosts>>

\* Permissions too wide, unreadable or corrupt: the lock is given back.
LoadFails(h) ==
    /\ pc[h] = "load"
    /\ lock' = NoLock
    /\ Goto(h, "failed")
    /\ UNCHANGED <<files, handle, ghosts>>

\* close(): releaseLock removes the lock file, whoever created it.
Close(h) ==
    /\ pc[h] = "idle" /\ ~closed[h] /\ Free(h)
    /\ closed' = [closed EXCEPT ![h] = TRUE]
    /\ lock' = NoLock
    /\ UNCHANGED <<files, pc, readOnly, mem, next, call, ghosts>>

(******************************** calls ************************************)

\* A call changes this.jobs and enters persist(), which opens tmp with "w".
Begin(h, kind, ops, J, n) ==
    /\ pc[h] = "idle" /\ Free(h) /\ kind \in Calls
    /\ call' = [call EXCEPT ![h] = [kind |-> kind, ops |-> ops,
                                    mem |-> mem[h], next |-> next[h]]]
    /\ mem' = [mem EXCEPT ![h] = J]
    /\ next' = [next EXCEPT ![h] = n]
    /\ tmp' = TornFile
    /\ Goto(h, "trunc")
    /\ UNCHANGED <<disk, durable, lock, closed, readOnly, promised, refused>>

Paused(J) == Cardinality(J) >= MaxJobs

Enqueue(h, op) ==
    /\ ~closed[h] /\ ~readOnly[h] /\ ~Paused(mem[h])
    /\ op \notin Used /\ next[h] <= MaxSeq
    /\ Begin(h, "enqueue", {op},
             mem[h] \cup {[seq |-> next[h], op |-> op,
                           status |-> "pending", newer |-> FALSE]},
             next[h] + 1)
    /\ UNCHANGED settled

\* mutate(): read-only refuses, a newer-format job refuses, closed does not.
MayMutateReadOnly(h, j) == ~j.newer /\ (closed[h] => LateCalls) \* mutant
MayMutate(h, j) == ~readOnly[h] /\ ~j.newer /\ (closed[h] => LateCalls)
WithReason(J, j, s) == (J \ {j}) \cup {[j EXCEPT !.status = "failed"]} \* mutant
WithStatus(J, j, s) == (J \ {j}) \cup {[j EXCEPT !.status = s]}

\* The worker acknowledges the pending job it has just delivered.
Ack(h, j) ==
    /\ j.status = "pending" /\ MayMutate(h, j)
    /\ Begin(h, "ack", {j.op}, WithStatus(mem[h], j, "acked"), next[h])
    /\ settled' = settled \cup {j.op}

\* A retry changes attempts and due time only, yet rewrites the journal.
Retry(h, j) ==
    /\ j.status = "pending" /\ MayMutate(h, j)
    /\ Begin(h, "retry", {j.op}, mem[h], next[h])
    /\ UNCHANGED settled

Quarantine(h, j) ==
    /\ j.status = "pending" /\ MayMutate(h, j)
    /\ Begin(h, "quarantine", {j.op}, WithStatus(mem[h], j, "quarantined"), next[h])
    /\ UNCHANGED settled

\* discardQuarantined(): no read-only check, filter by seq.
Discard(h, j) ==
    /\ ~closed[h] /\ j.status = "quarantined"
    /\ Begin(h, "discard", {j.op}, {k \in mem[h] : k.seq # j.seq}, next[h])
    /\ settled' = settled \cup {j.op}

\* The acknowledged jobs runRetention may find old enough.
RetirableByAge(J) == J \* mutant: the age test alone
Retirable(J) == {j \in J : j.status = "acked"}

RunRetention(h) ==
    /\ ~closed[h] /\ ~readOnly[h]
    /\ \E old \in SUBSET Retirable(mem[h]) \ {{}} :
         Begin(h, "retention", OpsOf(old), mem[h] \ old, next[h])
    /\ UNCHANGED settled

(******************************* persist ***********************************)

Persisted(h) == Whole(Supported(mem[h]))

WriteInPlace(h) == \* mutant: the journal itself is opened with "w"
    /\ pc[h] = "trunc"
    /\ tmp' = Persisted(h) /\ disk' = TornFile
    /\ Goto(h, "tmp")
    /\ UNCHANGED <<durable, lock, handle, ghosts>>
WriteTmp(h) ==
    /\ pc[h] = "trunc"
    /\ tmp' = Persisted(h)
    /\ Goto(h, "tmp")
    /\ UNCHANGED <<disk, durable, lock, handle, ghosts>>

Rename(h) ==
    /\ pc[h] = "tmp" /\ tmp.state # "none"
    /\ disk' = tmp /\ tmp' = NoFile
    /\ Goto(h, "renamed")
    /\ UNCHANGED <<durable, lock, handle, ghosts>>

\* fsyncDir returns: the journal survives power loss and the call returns.
Return(h) ==
    /\ pc[h] = "renamed"
    /\ durable' = disk
    /\ promised' = IF call[h].kind = "enqueue" THEN promised \cup call[h].ops ELSE promised
    /\ call' = [call EXCEPT ![h] = NoCall]
    /\ Goto(h, "idle")
    /\ UNCHANGED <<disk, tmp, lock, closed, readOnly, mem, next, refused, settled>>

\* persist() throws (before the rename, at it, or in fsyncDir after it): the
\* call restores its snapshot of this.jobs and throws; the files stay.
Throw(h) ==
    /\ pc[h] \in Writing
    /\ mem' = [mem EXCEPT ![h] = call[h].mem]
    /\ next' = [next EXCEPT ![h] = call[h].next]
    /\ refused' = IF call[h].kind = "enqueue" THEN refused \cup call[h].ops ELSE refused
    /\ call' = [call EXCEPT ![h] = NoCall]
    /\ Goto(h, "idle")
    /\ UNCHANGED <<files, lock, closed, readOnly, promised, settled>>

(***************************** surroundings ********************************)

Alive(h) == pc[h] \notin {"new", "failed", "dead"}

\* What is left of the handles in D when their process dies.
Kill(D) ==
    /\ pc' = [h \in Handles |-> IF h \in D THEN "dead" ELSE pc[h]]
    /\ mem' = [h \in Handles |-> IF h \in D THEN {} ELSE mem[h]]
    /\ call' = [h \in Handles |-> IF h \in D THEN NoCall ELSE call[h]]
    /\ UNCHANGED <<closed, readOnly, next, ghosts>>

Crash(p) ==
    /\ \E h \in Handles : Alive(h) /\ ProcOf[h] = p
    /\ Kill({h \in Handles : Alive(h) /\ ProcOf[h] = p})
    /\ UNCHANGED <<files, lock>>

\* Every process dies; a rename that was not fsynced may be undone.
PowerLoss ==
    /\ \E h \in Handles : Alive(h)
    /\ Kill({h \in Handles : Alive(h)})
    /\ disk' \in {disk, durable} /\ durable' = disk'
    /\ tmp' \in {tmp, NoFile, TornFile}
    /\ lock' \in {lock, NoLock}

\* LOCK_STALE_MS have passed since the lock file was created: nobody renews it.
LockGetsOld ==
    /\ lock # NoLock /\ ~lock.stale
    /\ \A h \in lock.by :
          \/ pc[h] \in {"dead", "failed"} /\ LockAges # "never"
          \/ pc[h] = "idle" /\ LockAges = "any"
    /\ lock' = [lock EXCEPT !.stale = TRUE]
    /\ UNCHANGED <<files, pc, handle, ghosts>>

HandleStep(h) ==
    \/ Open(h) \/ CreateLock(h) \/ StatLock(h) \/ RemoveStaleLock(h)
    \/ Load(h) \/ LoadFails(h) \/ Close(h)
    \/ \E op \in Ops : Enqueue(h, op)
    \/ \E j \in mem[h] : Ack(h, j) \/ Retry(h, j) \/ Quarantine(h, j) \/ Discard(h, j)
    \/ RunRetention(h)
    \/ WriteTmp(h) \/ Rename(h) \/ Return(h) \/ Throw(h)

Next ==
    \/ \E h \in Handles : HandleStep(h)
    \/ \E p \in Procs : Crash(p)
    \/ PowerLoss
    \/ LockGetsOld

Spec == Init /\ [][Next]_vars

(****************************** properties *********************************)

\* An opId whose enqueue returned, and that nobody has acknowledged or
\* discarded, is in the journal - the one every process reads and the one a
\* power loss leaves (store.ts:9-12: "callers may treat a returned job as
\* durably accepted").
Unsettled == promised \ settled
PromisesKept ==
    /\ Unsettled \subseteq OpsOf(Supported(disk.jobs))
    /\ Unsettled \subseteq OpsOf(Supported(durable.jobs))

\* At most one handle may write the journal: it holds the lock file
\* (store.ts:5-6: "so two processes cannot interleave writes").
Owns(h) == pc[h] = "load" \/ (pc[h] \in {"idle"} \cup Writing /\ ~closed[h])
OneWriter ==
    \A g, h \in Handles : Owns(g) /\ Owns(h) => g = h

\* Whatever point a crash hits, jobs.jsonl is a complete journal in which a
\* seq names one job (store.ts:6-9: "never a torn file").
NeverTorn ==
    \A f \in {disk, durable} :
       /\ f.state # "torn"
       /\ \A i, j \in f.jobs : i.seq = j.seq => i = j

\* Jobs of a newer format stay in the journal, whatever this program does
\* (store.ts:26-27: "it is never destructively rewritten").
NewerKept == [][NewerIn(disk.jobs) \subseteq NewerIn(disk'.jobs)]_vars

\* An enqueue that threw left nothing in the journal
\* (store.ts:378: "Throws (nothing persisted) on ... persist fault").
RefusedNotPersisted == refused \cap OpsOf(disk.jobs) = {}
=============================================================================
