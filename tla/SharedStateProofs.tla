------------------------- MODULE SharedStateProofs -------------------------
(***************************************************************************)
(* What the durable outbox promises holds for any number of handles, of    *)
(* jobs and of restarts, as long as the lock file does what its comment    *)
(* claims: that is SingleOwner.  The violation runs of OutboxStore show    *)
(* that without it none of these theorems is true.                         *)
(*                                                                         *)
(* Then PrivacySafety of LiveConfig, for any number of processes that      *)
(* share the config file, and CleanupSafety of BoardCleanup, any board.    *)
(*                                                                         *)
(* The invariant of LiveConfig follows a flip through its file operations. *)
(* Two things keep it sound: a flip that has been alone since it read the  *)
(* file finds in it what it read, and in the temporary file what it wrote  *)
(* (Alone); a flip that writes while no other does has the temporary file  *)
(* for itself, whoever read or renamed before (Solo).  That of             *)
(* BoardCleanup is below.                                                  *)
(***************************************************************************)
EXTENDS MCSharedState, FiniteSetTheorems, TLAPS

\* The surroundings in which the lock file is enough: nothing is recorded
\* after close(), and a lock file gets old either never, or after a crash of
\* the only process that uses the directory.
SingleOwner ==
    /\ ~LateCalls
    /\ \/ LockAges = "never"
       \/ LockAges = "crashed" /\ \A g, h \in Handles : ProcOf[g] = ProcOf[h]

(************************** the inductive invariant ************************)

Busy(h) == pc[h] \in Opening \cup Writing
Ready(h) == pc[h] \in {"idle"} \cup Writing /\ ~closed[h]

OneThread == \A g, h \in Handles :
    ProcOf[g] = ProcOf[h] /\ Busy(g) /\ Busy(h) => g = h

ClosedRests == \A h \in Handles : closed[h] => pc[h] \in {"idle", "dead"}

LockGuards ==
    /\ \A h \in Handles : Owns(h) => lock.by = {h}
    /\ lock.stale => /\ LockAges = "crashed" /\ lock # NoLock /\ lock.by # {}
                     /\ \A h \in lock.by : pc[h] \in {"dead", "failed"}
    /\ lock.by = {} => lock = NoLock
    /\ \A h \in Handles : pc[h] = "remove" => lock.stale

UniqueSeq(J) == \A i, j \in J : i.seq = j.seq => i = j
AckedIn(J, S) == \A j \in J : j.status = "acked" => j.op \in S
Above(n, J) == \A j \in J : j.seq < n
Holds(J, U) == U \subseteq OpsOf(Supported(J))

JournalGood(J) == UniqueSeq(J) /\ AckedIn(J, settled)

FilesGood ==
    /\ disk.state # "torn" /\ durable.state # "torn"
    /\ JournalGood(disk.jobs) /\ JournalGood(durable.jobs)
    /\ Holds(disk.jobs, Unsettled) /\ Holds(durable.jobs, Unsettled)

MemoryGood == \A h \in Handles :
    /\ JournalGood(mem[h]) /\ JournalGood(call[h].mem)
    /\ Ready(h) => Holds(mem[h], Unsettled) /\ Above(next[h], mem[h])

CallGood == \A h \in Handles : pc[h] \in Writing =>
    /\ Holds(call[h].mem, Unsettled) /\ Above(call[h].next, call[h].mem)
    /\ call[h].kind = "enqueue" => call[h].ops \subseteq OpsOf(Supported(mem[h]))
    /\ pc[h] = "tmp" => tmp = Persisted(h)
    /\ pc[h] = "renamed" => disk = Persisted(h)

IInv == /\ OneThread /\ ClosedRests /\ LockGuards
        /\ FilesGood /\ MemoryGood /\ CallGood

(****************************** type correctness ***************************)

\* Every call of the store leaves the files, the lock and the handles what
\* they are declared to be; a call in progress enters persist() with a set of
\* jobs and a next seq of the right kind.
LEMMA BeginType ==
    ASSUME TypeOK, NEW h \in Handles, NEW kind, NEW ops \in SUBSET Ops,
           NEW J \in SUBSET Job, NEW n \in 1..(MaxSeq + 1),
           Begin(h, kind, ops, J, n), settled' \subseteq Ops
    PROVE  TypeOK'
<1>1. kind \in CallKinds
  BY StoreAssumption DEF Begin
<1>2. call' \in [Handles -> CallRecord]
  BY <1>1 DEF TypeOK, Begin, CallRecord
<1>3. pc' \in [Handles -> PCs]
  BY DEF TypeOK, Begin, Goto, PCs, Writing
<1>4. mem' \in [Handles -> SUBSET Job] /\ next' \in [Handles -> 1..(MaxSeq + 1)]
  BY DEF TypeOK, Begin
<1>5. tmp' \in File
  BY DEF Begin, File, TornFile
<1> QED
  BY <1>2, <1>3, <1>4, <1>5 DEF TypeOK, Begin

LEMMA KillType ==
    ASSUME TypeOK, NEW D \in SUBSET Handles, Kill(D)
    PROVE  /\ pc' \in [Handles -> PCs] /\ mem' \in [Handles -> SUBSET Job]
           /\ call' \in [Handles -> CallRecord]
           /\ UNCHANGED <<closed, readOnly, next, ghosts>>
<1>1. NoCall \in CallRecord
  BY StoreAssumption DEF NoCall, CallRecord
<1> QED
  BY <1>1 DEF TypeOK, Kill, PCs

LEMMA LockType ==
    /\ NoLock \in LockFile
    /\ \A h \in Handles, s \in BOOLEAN : [by |-> {h}, stale |-> s] \in LockFile
<1> QED
  BY DEF NoLock, LockFile

LEMMA InitType == Init => TypeOK
<1> SUFFICES ASSUME Init PROVE TypeOK
  OBVIOUS
<1>1. PICK J \in InitialJournals :
         disk = Whole(J) /\ settled = {j.op : j \in {k \in J : k.status = "acked"}}
  BY DEF Init
<1>2. J \subseteq Job
  BY StoreAssumption
<1>3. disk \in File /\ settled \subseteq Ops
  BY <1>1, <1>2 DEF Whole, File, Job
<1>4. tmp \in File /\ durable \in File
  BY <1>3 DEF Init, NoFile, File
<1>5. NoCall \in CallRecord
  BY StoreAssumption DEF NoCall, CallRecord
<1>6. 1 \in 1..(MaxSeq + 1)
  BY StoreAssumption
<1> QED
  BY <1>3, <1>4, <1>5, <1>6, LockType DEF Init, TypeOK, PCs

LEMMA TypeStep == TypeOK /\ [Next]_vars => TypeOK'
<1> SUFFICES ASSUME TypeOK, [Next]_vars PROVE TypeOK'
  OBVIOUS
<1>a. ASSUME NEW h \in Handles, HandleStep(h) PROVE TypeOK'
  <2>1. CASE Open(h)
    BY <2>1 DEF Open, Goto, TypeOK, PCs, Opening, files, handle, ghosts
  <2>2. CASE CreateLock(h)
    <3>1. lock' \in LockFile
      BY <2>2, LockType DEF CreateLock, TypeOK
    <3>2. pc' \in [Handles -> PCs]
      BY <2>2 DEF CreateLock, Goto, TypeOK, PCs, Opening
    <3> QED
      BY <2>2, <3>1, <3>2 DEF CreateLock, TypeOK, files, handle, ghosts
  <2>3. CASE StatLock(h)
    BY <2>3 DEF StatLock, Goto, TypeOK, PCs, Opening, files, handle, ghosts
  <2>4. CASE RemoveStaleLock(h)
    BY <2>4, LockType DEF RemoveStaleLock, Goto, TypeOK, PCs, Opening, files, handle, ghosts
  <2>5. CASE Load(h)
    <3>1. disk.jobs \in SUBSET Job
      BY DEF TypeOK, File
    <3> QED
      BY <2>5, <3>1 DEF Load, Goto, TypeOK, PCs, files, ghosts
  <2>6. CASE LoadFails(h)
    BY <2>6, LockType DEF LoadFails, Goto, TypeOK, PCs, files, handle, ghosts
  <2>7. CASE Close(h)
    BY <2>7, LockType DEF Close, TypeOK, files, ghosts
  <2>8. ASSUME NEW op \in Ops, Enqueue(h, op) PROVE TypeOK'
    <3> DEFINE j == [seq |-> next[h], op |-> op, status |-> "pending", newer |-> FALSE]
    <3>1. next[h] \in 1..(MaxSeq + 1) /\ next[h] <= MaxSeq
      BY <2>8 DEF Enqueue, TypeOK
    <3>2. j \in Job /\ next[h] + 1 \in 1..(MaxSeq + 1)
      BY <3>1, StoreAssumption DEF Job, Seqs, Statuses
    <3>3. mem[h] \cup {j} \in SUBSET Job
      BY <3>2 DEF TypeOK
    <3> HIDE DEF j
    <3>4. Begin(h, "enqueue", {op}, mem[h] \cup {j}, next[h] + 1) /\ settled' = settled
      BY <2>8 DEF Enqueue, j
    <3> QED
      BY <3>2, <3>3, <3>4, BeginType DEF TypeOK
  <2>9. ASSUME NEW j \in mem[h], Ack(h, j) \/ Retry(h, j) \/ Quarantine(h, j) \/ Discard(h, j)
        PROVE  TypeOK'
    <3>1. j \in Job /\ mem[h] \in SUBSET Job /\ next[h] \in 1..(MaxSeq + 1)
      BY DEF TypeOK
    <3>2. {j.op} \in SUBSET Ops
      BY <3>1 DEF Job
    <3>3. \A s \in Statuses : WithStatus(mem[h], j, s) \in SUBSET Job
      BY <3>1 DEF WithStatus, Job
    <3>4. {k \in mem[h] : k.seq # j.seq} \in SUBSET Job
      BY <3>1
    <3>5. settled' \subseteq Ops
      BY <2>9, <3>2 DEF Ack, Retry, Quarantine, Discard, TypeOK
    <3>6. CASE Ack(h, j)
      BY <3>6, <3>1, <3>2, <3>3, <3>5, BeginType DEF Ack, Statuses
    <3>7. CASE Retry(h, j)
      BY <3>7, <3>1, <3>2, <3>5, BeginType DEF Retry
    <3>8. CASE Quarantine(h, j)
      BY <3>8, <3>1, <3>2, <3>3, <3>5, BeginType DEF Quarantine, Statuses
    <3>9. CASE Discard(h, j)
      BY <3>9, <3>1, <3>2, <3>4, <3>5, BeginType DEF Discard
    <3> QED
      BY <2>9, <3>6, <3>7, <3>8, <3>9
  <2>10. CASE RunRetention(h)
    <3>1. PICK old \in SUBSET Retirable(mem[h]) :
             Begin(h, "retention", OpsOf(old), mem[h] \ old, next[h])
      BY <2>10 DEF RunRetention
    <3>2. mem[h] \in SUBSET Job /\ next[h] \in 1..(MaxSeq + 1) /\ settled' \subseteq Ops
      BY <2>10 DEF TypeOK, RunRetention
    <3>3. OpsOf(old) \in SUBSET Ops /\ mem[h] \ old \in SUBSET Job
      BY <3>2 DEF OpsOf, Retirable, Job
    <3> QED
      BY <3>1, <3>2, <3>3, BeginType
  <2>11. CASE WriteTmp(h)
    <3>1. Persisted(h) \in File
      BY DEF Persisted, Whole, Supported, File, TypeOK
    <3> QED
      BY <2>11, <3>1 DEF WriteTmp, Goto, TypeOK, PCs, Writing, handle, ghosts
  <2>12. CASE Rename(h)
    <3>1. NoFile \in File
      BY DEF NoFile, File
    <3> QED
      BY <2>12, <3>1 DEF Rename, Goto, TypeOK, PCs, Writing, handle, ghosts
  <2>13. CASE Return(h)
    <3>1. call[h].ops \subseteq Ops
      BY DEF TypeOK, CallRecord
    <3>2. NoCall \in CallRecord
      BY StoreAssumption DEF NoCall, CallRecord
    <3> QED
      BY <2>13, <3>1, <3>2 DEF Return, Goto, TypeOK, PCs
  <2>14. CASE Throw(h)
    <3>1. /\ call[h].ops \subseteq Ops /\ call[h].mem \in SUBSET Job
          /\ call[h].next \in 1..(MaxSeq + 1)
      BY DEF TypeOK, CallRecord
    <3>2. NoCall \in CallRecord
      BY StoreAssumption DEF NoCall, CallRecord
    <3> QED
      BY <2>14, <3>1, <3>2 DEF Throw, Goto, TypeOK, PCs, files
  <2> QED
    BY <1>a, <2>1, <2>2, <2>3, <2>4, <2>5, <2>6, <2>7, <2>8, <2>9, <2>10,
       <2>11, <2>12, <2>13, <2>14 DEF HandleStep
<1>b. ASSUME NEW p \in Procs, Crash(p) PROVE TypeOK'
  <2>1. {h \in Handles : Alive(h) /\ ProcOf[h] = p} \in SUBSET Handles
    OBVIOUS
  <2> QED
    BY <1>b, <2>1, KillType DEF Crash, TypeOK, files, ghosts
<1>c. CASE PowerLoss
  <2>1. {h \in Handles : Alive(h)} \in SUBSET Handles
    OBVIOUS
  <2>2. NoFile \in File /\ TornFile \in File
    BY DEF NoFile, TornFile, File
  <2> QED
    <3>1. Kill({h \in Handles : Alive(h)})
      BY <1>c DEF PowerLoss
    <3>2. /\ pc' \in [Handles -> PCs] /\ mem' \in [Handles -> SUBSET Job]
          /\ call' \in [Handles -> CallRecord]
          /\ UNCHANGED <<closed, readOnly, next, ghosts>>
      BY <2>1, <3>1, KillType
    <3>3. disk' \in File /\ durable' \in File /\ tmp' \in File
      BY <1>c, <2>2 DEF PowerLoss, TypeOK
    <3>4. lock' \in LockFile
      BY <1>c, LockType DEF PowerLoss, TypeOK
    <3> QED
      BY <3>2, <3>3, <3>4 DEF TypeOK, ghosts
<1>d. CASE LockGetsOld
  BY <1>d DEF LockGetsOld, LockFile, TypeOK, files, handle, ghosts
<1>e. CASE UNCHANGED vars
  BY <1>e DEF vars, TypeOK, files, handle, ghosts
<1> QED
  BY <1>a, <1>b, <1>c, <1>d, <1>e DEF Next

\* Type correctness, whatever the surroundings do (store.ts).
THEOREM TypeCorrect == Spec => []TypeOK
<1> QED
  BY InitType, TypeStep, PTL DEF Spec

(************************ the invariant is inductive ***********************)

LEMMA InitInv == Init => IInv
<1> SUFFICES ASSUME Init PROVE IInv
  OBVIOUS
<1>1. PICK J \in InitialJournals :
         disk = Whole(J) /\ settled = {j.op : j \in {k \in J : k.status = "acked"}}
  BY DEF Init
<1>2. JournalGood(J)
  BY <1>1, StoreAssumption DEF JournalGood, UniqueSeq, AckedIn
<1>3. JournalGood({})
  BY DEF JournalGood, UniqueSeq, AckedIn
<1>4. FilesGood
  BY <1>1, <1>2 DEF Init, FilesGood, Whole, Holds, Unsettled
<1>5. MemoryGood
  BY <1>3 DEF Init, MemoryGood, NoCall, Ready, Writing
<1>6. CallGood /\ OneThread /\ ClosedRests /\ LockGuards
  BY DEF Init, CallGood, OneThread, ClosedRests, LockGuards, Owns, Busy, Writing,
         Opening, NoLock
<1> QED
  BY <1>4, <1>5, <1>6 DEF IInv

\* A handle that writes is open, holds the lock file, and is alone in that.
LEMMA WriterOwns ==
    ASSUME IInv, NEW h \in Handles, pc[h] \in Writing
    PROVE  Owns(h) /\ Ready(h) /\ ~closed[h]
BY DEF IInv, ClosedRests, Owns, Ready, Writing

LEMMA OwnerAlone ==
    ASSUME IInv, NEW g \in Handles, NEW h \in Handles, Owns(g), Owns(h)
    PROVE  g = h
BY DEF IInv, LockGuards

LEMMA ReadyOwns ==
    ASSUME NEW h \in Handles, Ready(h)
    PROVE  Owns(h)
BY DEF Ready, Owns

\* A call that enters persist() with a journal that still holds what is
\* unsettled keeps the invariant.
LEMMA BeginInv ==
    ASSUME TypeOK, IInv, ~LateCalls,
           NEW h \in Handles, ~closed[h], NEW kind, NEW ops, NEW J, NEW n,
           Begin(h, kind, ops, J, n),
           settled \subseteq settled',
           UniqueSeq(J), AckedIn(J, settled'), Above(n, J), Holds(J, Unsettled'),
           kind = "enqueue" => ops \subseteq OpsOf(Supported(J))
    PROVE  IInv'
<1>1. /\ pc[h] = "idle" /\ pc' = [pc EXCEPT ![h] = "trunc"]
      /\ mem' = [mem EXCEPT ![h] = J] /\ next' = [next EXCEPT ![h] = n]
      /\ call' = [call EXCEPT ![h] = [kind |-> kind, ops |-> ops,
                                       mem |-> mem[h], next |-> next[h]]]
      /\ UNCHANGED <<disk, durable, lock, closed, readOnly, promised, refused>>
  BY DEF Begin, Goto
<1>2. /\ pc'[h] = "trunc" /\ mem'[h] = J /\ next'[h] = n
      /\ call'[h].mem = mem[h] /\ call'[h].next = next[h]
      /\ call'[h].kind = kind /\ call'[h].ops = ops
      /\ \A g \in Handles \ {h} : /\ pc'[g] = pc[g] /\ mem'[g] = mem[g]
                                  /\ next'[g] = next[g] /\ call'[g] = call[g]
  BY <1>1 DEF TypeOK
<1>3. Ready(h) /\ Owns(h)
  BY <1>1 DEF Ready, Owns
<1>4. \A g \in Handles \ {h} : ~Owns(g) /\ ~Ready(g) /\ pc[g] \notin Writing
  BY <1>3, OwnerAlone, ReadyOwns, WriterOwns
<1>5. Unsettled' \subseteq Unsettled
  BY <1>1 DEF Unsettled
<1>6. \A K : AckedIn(K, settled) => AckedIn(K, settled')
  BY DEF AckedIn
<1>7. OneThread'
  BY <1>1, <1>2 DEF IInv, OneThread, Busy, Begin, Free, Opening, Writing
<1>8. ClosedRests'
  BY <1>1, <1>2 DEF IInv, ClosedRests
<1>9. LockGuards'
  BY <1>1, <1>2, <1>3 DEF IInv, LockGuards, Owns, Writing
<1>10. FilesGood'
  BY <1>1, <1>5, <1>6 DEF IInv, FilesGood, JournalGood, Holds, UniqueSeq
<1>11. MemoryGood'
  <2> SUFFICES ASSUME NEW g \in Handles
      PROVE /\ JournalGood(mem[g])' /\ JournalGood(call[g].mem)'
            /\ (Ready(g) => Holds(mem[g], Unsettled) /\ Above(next[g], mem[g]))'
    BY DEF MemoryGood
  <2>1. JournalGood(mem[g]) /\ JournalGood(call[g].mem)
    BY DEF IInv, MemoryGood
  <2>2. CASE g = h
    BY <2>1, <2>2, <1>2, <1>6 DEF JournalGood, UniqueSeq, AckedIn, Holds, Above
  <2>3. CASE g # h
    <3>1. ~Ready(g)'
      BY <2>3, <1>1, <1>2, <1>4 DEF Ready
    <3> QED
      BY <2>1, <2>3, <3>1, <1>2, <1>6 DEF JournalGood, UniqueSeq, AckedIn
  <2> QED
    BY <2>2, <2>3
<1>12. CallGood'
  <2> SUFFICES ASSUME NEW g \in Handles, pc'[g] \in Writing
      PROVE /\ Holds(call[g].mem, Unsettled)' /\ Above(call[g].next, call[g].mem)'
            /\ (call[g].kind = "enqueue" => call[g].ops \subseteq OpsOf(Supported(mem[g])))'
            /\ (pc[g] = "tmp" => tmp = Persisted(g))'
            /\ (pc[g] = "renamed" => disk = Persisted(g))'
    BY DEF CallGood, Writing
  <2>1. g = h
    BY <1>2, <1>4
  <2>2. Holds(mem[h], Unsettled) /\ Above(next[h], mem[h])
    BY <1>3 DEF IInv, MemoryGood
  <2> QED
    BY <2>1, <2>2, <1>2, <1>5 DEF Holds, Above
<1> QED
  BY <1>7, <1>8, <1>9, <1>10, <1>11, <1>12 DEF IInv

\* The calls.
LEMMA EnqueueInv ==
    ASSUME TypeOK, IInv, ~LateCalls, NEW h \in Handles, NEW op \in Ops, Enqueue(h, op)
    PROVE  IInv'
<1> DEFINE j == [seq |-> next[h], op |-> op, status |-> "pending", newer |-> FALSE]
           J == mem[h] \cup {j}
<1>1. /\ ~closed[h] /\ settled' = settled /\ promised' = promised
      /\ Begin(h, "enqueue", {op}, J, next[h] + 1)
  BY DEF Enqueue, Begin
<1>2. Ready(h)
  BY <1>1 DEF Begin, Ready
<1>3. /\ JournalGood(mem[h]) /\ Holds(mem[h], Unsettled) /\ Above(next[h], mem[h])
      /\ mem[h] \subseteq Job /\ next[h] \in Nat
  BY <1>2, StoreAssumption DEF IInv, MemoryGood, TypeOK
<1>4. \A i \in J : (i \in mem[h] /\ i.seq < next[h]) \/ i = j
  BY <1>3 DEF Above
<1>5. j.seq = next[h] /\ j.op = op /\ j.status = "pending" /\ ~j.newer
  OBVIOUS
<1> HIDE DEF j
<1>6. UniqueSeq(J)
  BY <1>3, <1>4, <1>5 DEF JournalGood, UniqueSeq
<1>7. AckedIn(J, settled')
  BY <1>1, <1>3, <1>4, <1>5 DEF JournalGood, AckedIn, Begin
<1>8. Above(next[h] + 1, J)
  <2> SUFFICES ASSUME NEW i \in J PROVE i.seq < next[h] + 1
    BY DEF Above
  <2>1. CASE i \in mem[h] /\ i.seq < next[h]
    <3>1. i.seq \in Nat
      BY <2>1, <1>3, StoreAssumption DEF Job, Seqs
    <3> QED
      BY <2>1, <3>1, <1>3
  <2> QED
    BY <2>1, <1>3, <1>4, <1>5
<1>9. Holds(J, Unsettled')
  BY <1>1, <1>3 DEF Holds, Unsettled, OpsOf, Supported
<1>10. {op} \subseteq OpsOf(Supported(J))
  BY <1>5 DEF OpsOf, Supported
<1> HIDE DEF J
<1> QED
  BY <1>1, <1>6, <1>7, <1>8, <1>9, <1>10, BeginInv

\* ack, retry and quarantine change the status of one job and nothing else;
\* only an acknowledged job's opId may leave the unsettled ones.
LEMMA StatusInv ==
    ASSUME TypeOK, IInv, ~LateCalls, NEW h \in Handles, NEW j \in mem[h],
           NEW s \in Statuses, NEW kind, kind # "enqueue", ~j.newer, ~closed[h],
           Begin(h, kind, {j.op}, WithStatus(mem[h], j, s), next[h]),
           settled \subseteq settled', s = "acked" => j.op \in settled'
    PROVE  IInv'
<1> DEFINE k == [j EXCEPT !.status = s]
           J == WithStatus(mem[h], j, s)
<1>1. Ready(h) /\ promised' = promised
  BY DEF Begin, Ready
<1>2. /\ JournalGood(mem[h]) /\ Holds(mem[h], Unsettled) /\ Above(next[h], mem[h])
      /\ mem[h] \subseteq Job
  BY <1>1 DEF IInv, MemoryGood, TypeOK
<1>3. k.seq = j.seq /\ k.op = j.op /\ k.status = s /\ k.newer = j.newer
  BY <1>2 DEF Job
<1>4. J = (mem[h] \ {j}) \cup {k}
  BY DEF WithStatus
<1> HIDE DEF k, J
<1>5. UniqueSeq(J)
  BY <1>2, <1>3, <1>4 DEF JournalGood, UniqueSeq
<1>6. AckedIn(J, settled')
  BY <1>2, <1>3, <1>4 DEF JournalGood, AckedIn
<1>7. Above(next[h], J)
  BY <1>2, <1>3, <1>4 DEF Above
<1>8. Holds(J, Unsettled')
  <2> SUFFICES ASSUME NEW o \in Unsettled' PROVE o \in OpsOf(Supported(J))
    BY <1>4 DEF Holds
  <2>1. PICK i \in mem[h] : i.op = o /\ ~i.newer
    BY <1>1, <1>2 DEF Unsettled, Holds, OpsOf, Supported
  <2>2. CASE i = j
    BY <2>1, <2>2, <1>3, <1>4 DEF OpsOf, Supported
  <2>3. CASE i # j
    BY <2>1, <2>3, <1>4 DEF OpsOf, Supported
  <2> QED
    BY <2>2, <2>3
<1> QED
  BY <1>5, <1>6, <1>7, <1>8, BeginInv DEF J

LEMMA RetryInv ==
    ASSUME TypeOK, IInv, ~LateCalls, NEW h \in Handles, NEW j \in mem[h], Retry(h, j)
    PROVE  IInv'
<1>1. /\ ~closed[h] /\ settled' = settled /\ promised' = promised
      /\ Begin(h, "retry", {j.op}, mem[h], next[h])
  BY DEF Retry, MayMutate, Begin
<1>2. Ready(h) /\ Unsettled' = Unsettled
  BY <1>1 DEF Begin, Ready, Unsettled
<1>3. /\ UniqueSeq(mem[h]) /\ AckedIn(mem[h], settled')
      /\ Holds(mem[h], Unsettled') /\ Above(next[h], mem[h])
  BY <1>1, <1>2 DEF IInv, MemoryGood, JournalGood
<1> QED
  BY <1>1, <1>3, BeginInv

\* Only jobs that were acknowledged, or the one the user discards, leave.
LEMMA RemovalInv ==
    ASSUME TypeOK, IInv, ~LateCalls, NEW h \in Handles, ~closed[h],
           NEW kind, kind # "enqueue", NEW ops,
           NEW J \in SUBSET mem[h], Begin(h, kind, ops, J, next[h]),
           settled \subseteq settled',
           \A i \in mem[h] \ J : i.op \in settled'
    PROVE  IInv'
<1>1. Ready(h) /\ promised' = promised
  BY DEF Begin, Ready
<1>2. JournalGood(mem[h]) /\ Holds(mem[h], Unsettled) /\ Above(next[h], mem[h])
  BY <1>1 DEF IInv, MemoryGood
<1>3. UniqueSeq(J) /\ Above(next[h], J)
  BY <1>2 DEF JournalGood, UniqueSeq, Above
<1>4. AckedIn(J, settled')
  BY <1>2 DEF JournalGood, AckedIn
<1>5. Holds(J, Unsettled')
  <2> SUFFICES ASSUME NEW o \in Unsettled' PROVE o \in OpsOf(Supported(J))
    BY DEF Holds
  <2>1. PICK i \in mem[h] : i.op = o /\ ~i.newer
    BY <1>1, <1>2 DEF Unsettled, Holds, OpsOf, Supported
  <2> QED
    BY <2>1 DEF OpsOf, Supported, Unsettled
<1> QED
  BY <1>3, <1>4, <1>5, BeginInv

LEMMA CallInv ==
    ASSUME TypeOK, IInv, ~LateCalls, NEW h \in Handles,
           \/ \E op \in Ops : Enqueue(h, op)
           \/ \E j \in mem[h] : Ack(h, j) \/ Retry(h, j) \/ Quarantine(h, j) \/ Discard(h, j)
           \/ RunRetention(h)
    PROVE  IInv'
<1>1. ASSUME NEW j \in mem[h], Ack(h, j) PROVE IInv'
  BY <1>1, StatusInv DEF Ack, MayMutate, Statuses
<1>2. ASSUME NEW j \in mem[h], Quarantine(h, j) PROVE IInv'
  BY <1>2, StatusInv DEF Quarantine, MayMutate, Statuses
<1>3. ASSUME NEW j \in mem[h], Discard(h, j) PROVE IInv'
  <2>1. UniqueSeq(mem[h])
    BY DEF IInv, MemoryGood, JournalGood
  <2>2. \A i \in mem[h] : i.seq = j.seq => i.op \in settled'
    BY <1>3, <2>1 DEF Discard, UniqueSeq
  <2> QED
    BY <1>3, <2>2, RemovalInv DEF Discard
<1>4. CASE RunRetention(h)
  <2>1. PICK old \in SUBSET Retirable(mem[h]) :
           Begin(h, "retention", OpsOf(old), mem[h] \ old, next[h])
    BY <1>4 DEF RunRetention
  <2>2. settled' = settled /\ ~closed[h]
    BY <1>4 DEF RunRetention
  <2>3. AckedIn(mem[h], settled)
    BY DEF IInv, MemoryGood, JournalGood
  <2>4. \A i \in mem[h] \ (mem[h] \ old) : i.op \in settled'
    BY <2>2, <2>3 DEF AckedIn, Retirable
  <2> QED
    BY <2>1, <2>2, <2>4, RemovalInv
<1> QED
  BY <1>1, <1>2, <1>3, <1>4, EnqueueInv, RetryInv

\* Steps that touch neither files nor memory and make no handle ready.
LEMMA FrameInv ==
    ASSUME IInv, UNCHANGED <<files, readOnly, mem, next, call, ghosts>>,
           \A g \in Handles : pc'[g] \in Writing => pc'[g] = pc[g],
           \A g \in Handles : Ready(g)' => Ready(g)
    PROVE  FilesGood' /\ MemoryGood' /\ CallGood'
<1> USE DEF files, ghosts, IInv
<1>1. \A g \in Handles : Persisted(g)' = Persisted(g)
  BY DEF Persisted
<1>2. FilesGood'
  BY DEF FilesGood, JournalGood, Unsettled
<1>3. MemoryGood'
  BY DEF MemoryGood, JournalGood, Unsettled, Ready
<1>4. CallGood'
  BY <1>1 DEF CallGood, Unsettled, Writing
<1> QED
  BY <1>2, <1>3, <1>4

\* With one process nobody acts while a stale lock file is being removed;
\* with locks that never get old nobody removes one.
LEMMA StaleIsDead ==
    ASSUME IInv, lock.stale
    PROVE  \A g \in Handles : ~Owns(g)
BY DEF IInv, LockGuards, Owns, Writing

LEMMA OpenInv ==
    ASSUME TypeOK, IInv, SingleOwner, NEW h \in Handles,
           \/ Open(h) \/ CreateLock(h) \/ StatLock(h) \/ RemoveStaleLock(h)
           \/ LoadFails(h) \/ Close(h)
    PROVE  IInv'
<1> USE DEF Opening, Writing
<1>1. UNCHANGED <<files, readOnly, mem, next, call, ghosts>>
  BY DEF Open, CreateLock, StatLock, RemoveStaleLock, LoadFails, Close, handle
<1>2. \A g \in Handles \ {h} : pc'[g] = pc[g] /\ closed'[g] = closed[g]
  BY DEF Open, CreateLock, StatLock, RemoveStaleLock, LoadFails, Close, handle, Goto, TypeOK
<1>3. /\ pc'[h] \notin Writing
      /\ pc'[h] = "idle" => closed'[h]
      /\ closed'[h] => pc'[h] = "idle"
  BY DEF Open, CreateLock, StatLock, RemoveStaleLock, LoadFails, Close, handle, Goto,
         TypeOK, IInv, ClosedRests
<1>4. FilesGood' /\ MemoryGood' /\ CallGood'
  <2>1. \A g \in Handles : pc'[g] \in Writing => pc'[g] = pc[g]
    BY <1>2, <1>3
  <2>2. \A g \in Handles : Ready(g)' => Ready(g)
    BY <1>2, <1>3 DEF Ready
  <2> QED
    BY <1>1, <2>1, <2>2, FrameInv
<1>5. OneThread'
  <2>1. Busy(h) \/ ~Busy(h)' \/ Free(h)
    BY DEF Open, CreateLock, StatLock, RemoveStaleLock, LoadFails, Close, Busy
  <2>2. \A g \in Handles \ {h} : Busy(g)' = Busy(g)
    BY <1>2 DEF Busy
  <2> QED
    BY <2>1, <2>2 DEF IInv, OneThread, Free, Busy
<1>6. ClosedRests'
  BY <1>2, <1>3 DEF IInv, ClosedRests
<1>7. /\ \A g \in Handles \ {h} : Owns(g)' = Owns(g)
      /\ lock.by \subseteq Handles
  BY <1>2 DEF Owns, TypeOK, LockFile
<1>8. LockGuards'
  <2>1. CASE Open(h)
    <3>1. lock' = lock /\ pc'[h] = "try" /\ pc[h] = "new"
      BY <2>1 DEF Open, Goto, TypeOK
    <3> QED
      BY <3>1, <1>2, <1>7 DEF IInv, LockGuards, Owns
  <2>2. CASE CreateLock(h)
    <3>1. CASE lock = NoLock
      <4>1. lock' = [by |-> {h}, stale |-> FALSE] /\ pc'[h] \in {"load", "stat"}
        BY <2>2, <3>1 DEF CreateLock, Goto, TypeOK
      <4>2. \A g \in Handles : ~Owns(g)
        BY <3>1 DEF IInv, LockGuards, NoLock
      <4>3. \A g \in Handles : pc[g] # "remove"
        BY <3>1 DEF IInv, LockGuards, NoLock
      <4> QED
        BY <4>1, <4>2, <4>3, <1>2, <1>7 DEF LockGuards, Owns
    <3>2. CASE lock # NoLock
      <4>1. lock' = lock /\ pc'[h] = "stat" /\ pc[h] = "try"
        BY <2>2, <3>2 DEF CreateLock, Goto, TypeOK
      <4> QED
        BY <4>1, <1>2, <1>7 DEF IInv, LockGuards, Owns
    <3> QED
      BY <3>1, <3>2
  <2>3. CASE StatLock(h)
    <3>1. lock' = lock /\ pc[h] = "stat" /\ pc'[h] = IF lock.stale THEN "remove" ELSE "failed"
      BY <2>3 DEF StatLock, Goto, TypeOK
    <3> QED
      BY <3>1, <1>2, <1>7 DEF IInv, LockGuards, Owns
  <2>4. CASE RemoveStaleLock(h)
    <3>1. lock.stale /\ pc[h] = "remove"
      BY <2>4 DEF RemoveStaleLock, IInv, LockGuards
    <3>2. \A g, k \in Handles : ProcOf[g] = ProcOf[k]
      BY <3>1 DEF IInv, LockGuards, SingleOwner
    <3>3. \A g \in Handles \ {h} : pc[g] # "remove"
      BY <3>1, <3>2 DEF IInv, OneThread, Busy
    <3>4. lock' = NoLock /\ pc'[h] \in {"try", "failed"}
      BY <2>4 DEF RemoveStaleLock, Goto, TypeOK
    <3>5. \A g \in Handles : ~Owns(g)
      BY <3>1, StaleIsDead
    <3> QED
      BY <3>3, <3>4, <3>5, <1>2, <1>7 DEF LockGuards, Owns, NoLock
  <2>5. CASE LoadFails(h) \/ Close(h)
    <3>1. Owns(h) /\ lock' = NoLock /\ ~Owns(h)' /\ pc'[h] # "remove"
      BY <2>5, <1>3 DEF LoadFails, Close, Goto, TypeOK, Owns
    <3>2. \A g \in Handles : ~Owns(g)'
      BY <3>1, <1>7, OwnerAlone
    <3>3. \A g \in Handles : pc[g] # "remove"
      BY <3>1, StaleIsDead DEF IInv, LockGuards
    <3> QED
      BY <3>1, <3>2, <3>3, <1>2 DEF LockGuards, NoLock
  <2> QED
    BY <2>1, <2>2, <2>3, <2>4, <2>5
<1> QED
  BY <1>4, <1>5, <1>6, <1>8 DEF IInv

\* load() finds in the journal whatever is unsettled.
LEMMA LoadInv ==
    ASSUME TypeOK, IInv, NEW h \in Handles, Load(h)
    PROVE  IInv'
<1> USE DEF Opening, Writing
<1>1. /\ pc[h] = "load" /\ ~closed[h] /\ pc' = [pc EXCEPT ![h] = "idle"]
      /\ mem' = [mem EXCEPT ![h] = disk.jobs]
      /\ UNCHANGED <<disk, durable, tmp, lock, closed, call, promised, refused, settled>>
      /\ \E n \in 1..(MaxSeq + 1) :
            IsNextSeq(n, disk.jobs) /\ next' = [next EXCEPT ![h] = n]
  BY DEF Load, Goto, IInv, ClosedRests, files, ghosts
<1>2. /\ pc'[h] = "idle" /\ mem'[h] = disk.jobs /\ Above(next'[h], disk.jobs)
      /\ \A g \in Handles \ {h} :
            pc'[g] = pc[g] /\ mem'[g] = mem[g] /\ next'[g] = next[g]
  BY <1>1 DEF TypeOK, IsNextSeq, Above
<1>3. OneThread'
  BY <1>1, <1>2 DEF IInv, OneThread, Busy
<1>4. ClosedRests'
  BY <1>1, <1>2 DEF IInv, ClosedRests
<1>5. LockGuards'
  BY <1>1, <1>2 DEF IInv, LockGuards, Owns
<1>6. FilesGood'
  BY <1>1 DEF IInv, FilesGood, JournalGood, Unsettled
<1>7. MemoryGood'
  <2> SUFFICES ASSUME NEW g \in Handles
      PROVE /\ JournalGood(mem[g])' /\ JournalGood(call[g].mem)'
            /\ (Ready(g) => Holds(mem[g], Unsettled) /\ Above(next[g], mem[g]))'
    BY DEF MemoryGood
  <2>1. CASE g = h
    BY <2>1, <1>1, <1>2 DEF IInv, FilesGood, MemoryGood, JournalGood, Unsettled
  <2>2. CASE g # h
    BY <2>2, <1>1, <1>2 DEF IInv, MemoryGood, JournalGood, Unsettled, Ready
  <2> QED
    BY <2>1, <2>2
<1>8. CallGood'
  BY <1>1, <1>2 DEF IInv, CallGood, Unsettled, Persisted
<1> QED
  BY <1>3, <1>4, <1>5, <1>6, <1>7, <1>8 DEF IInv

LEMMA WriteTmpInv ==
    ASSUME TypeOK, IInv, NEW h \in Handles, WriteTmp(h)
    PROVE  IInv'
<1>1. /\ pc[h] = "trunc" /\ pc' = [pc EXCEPT ![h] = "tmp"]
      /\ tmp' = Persisted(h)
      /\ UNCHANGED <<disk, durable, lock, closed, readOnly, mem, next, call,
                     promised, refused, settled>>
  BY DEF WriteTmp, Goto, handle, ghosts
<1>2. Owns(h) /\ Ready(h)
  BY <1>1, WriterOwns DEF Writing
<1>3. \A g \in Handles \ {h} : ~Owns(g) /\ ~Ready(g) /\ pc[g] \notin Writing
  BY <1>2, OwnerAlone, ReadyOwns, WriterOwns
<1>4. \A g \in Handles : /\ g # h => pc'[g] = pc[g]
                         /\ pc'[h] = "tmp"
  BY <1>1 DEF TypeOK
<1>5. OneThread' /\ ClosedRests' /\ LockGuards'
  BY <1>1, <1>2, <1>4 DEF IInv, OneThread, Busy, ClosedRests, LockGuards, Owns,
                          Writing, Opening
<1>6. FilesGood'
  BY <1>1 DEF IInv, FilesGood, JournalGood, Unsettled
<1>7. MemoryGood'
  BY <1>1, <1>2, <1>4 DEF IInv, MemoryGood, JournalGood, Unsettled, Ready, Writing
<1>8. CallGood'
  BY <1>1, <1>3, <1>4 DEF IInv, CallGood, Unsettled, Persisted, Writing
<1> QED
  BY <1>5, <1>6, <1>7, <1>8 DEF IInv

\* The rename puts the owner's journal, which holds what is unsettled, in place.
LEMMA RenameInv ==
    ASSUME TypeOK, IInv, NEW h \in Handles, Rename(h)
    PROVE  IInv'
<1>1. /\ pc[h] = "tmp" /\ pc' = [pc EXCEPT ![h] = "renamed"]
      /\ disk' = tmp
      /\ UNCHANGED <<durable, lock, closed, readOnly, mem, next, call,
                     promised, refused, settled>>
  BY DEF Rename, Goto, handle, ghosts
<1>2. Owns(h) /\ Ready(h)
  BY <1>1, WriterOwns DEF Writing
<1>3. \A g \in Handles \ {h} : ~Owns(g) /\ ~Ready(g) /\ pc[g] \notin Writing
  BY <1>2, OwnerAlone, ReadyOwns, WriterOwns
<1>4. \A g \in Handles : /\ g # h => pc'[g] = pc[g]
                         /\ pc'[h] = "renamed"
  BY <1>1 DEF TypeOK
<1>5. OneThread' /\ ClosedRests' /\ LockGuards'
  BY <1>1, <1>2, <1>4 DEF IInv, OneThread, Busy, ClosedRests, LockGuards, Owns,
                          Writing, Opening
<1>6. disk' = Persisted(h) /\ Persisted(h)' = Persisted(h)
  BY <1>1 DEF IInv, CallGood, Persisted, Writing
<1>7. JournalGood(mem[h]) /\ Holds(mem[h], Unsettled)
  BY <1>2 DEF IInv, MemoryGood
<1>8. FilesGood'
  <2>1. disk'.state = "whole" /\ disk'.jobs = Supported(mem[h])
    BY <1>6 DEF Persisted, Whole
  <2>2. UniqueSeq(disk'.jobs) /\ AckedIn(disk'.jobs, settled) /\ Holds(disk'.jobs, Unsettled)
    BY <1>7, <2>1 DEF JournalGood, UniqueSeq, AckedIn, Holds, Supported
  <2> QED
    BY <1>1, <2>1, <2>2 DEF IInv, FilesGood, JournalGood, Unsettled
<1>9. MemoryGood'
  BY <1>1, <1>2, <1>4 DEF IInv, MemoryGood, JournalGood, Unsettled, Ready, Writing
<1>10. CallGood'
  BY <1>1, <1>3, <1>4, <1>6 DEF IInv, CallGood, Unsettled, Writing
<1> QED
  BY <1>5, <1>8, <1>9, <1>10 DEF IInv

\* The enqueue that returns has its job in the journal that was fsynced.
LEMMA ReturnInv ==
    ASSUME TypeOK, IInv, NEW h \in Handles, Return(h)
    PROVE  IInv'
<1>1. /\ pc[h] = "renamed" /\ pc' = [pc EXCEPT ![h] = "idle"]
      /\ call' = [call EXCEPT ![h] = NoCall]
      /\ durable' = disk
      /\ promised \subseteq promised'
      /\ promised' \subseteq promised \cup (IF call[h].kind = "enqueue" THEN call[h].ops ELSE {})
      /\ UNCHANGED <<disk, tmp, lock, closed, readOnly, mem, next, refused, settled>>
  BY DEF Return, Goto
<1>2. Owns(h) /\ Ready(h) /\ ~closed[h]
  BY <1>1, WriterOwns DEF Writing
<1>3. \A g \in Handles \ {h} : ~Owns(g) /\ ~Ready(g) /\ pc[g] \notin Writing
  BY <1>2, OwnerAlone, ReadyOwns, WriterOwns
<1>4. \A g \in Handles : /\ g # h => pc'[g] = pc[g] /\ call'[g] = call[g]
                         /\ pc'[h] = "idle" /\ call'[h] = NoCall
  BY <1>1 DEF TypeOK
<1>5. OneThread' /\ ClosedRests' /\ LockGuards'
  BY <1>1, <1>2, <1>4 DEF IInv, OneThread, Busy, ClosedRests, LockGuards, Owns,
                          Writing, Opening
<1>6. /\ disk = Persisted(h)
      /\ call[h].kind = "enqueue" => call[h].ops \subseteq OpsOf(Supported(mem[h]))
  BY <1>1 DEF IInv, CallGood, Writing
<1>7. JournalGood(mem[h]) /\ Holds(mem[h], Unsettled) /\ Above(next[h], mem[h])
  BY <1>2 DEF IInv, MemoryGood
<1>8. Holds(mem[h], Unsettled')
  BY <1>1, <1>6, <1>7 DEF Holds, Unsettled
<1>9. disk.jobs = Supported(mem[h]) /\ disk.state = "whole"
  BY <1>6 DEF Persisted, Whole
<1>10. Holds(disk.jobs, Unsettled')
  BY <1>8, <1>9 DEF Holds, Supported
<1>11. FilesGood'
  BY <1>1, <1>9, <1>10 DEF IInv, FilesGood, JournalGood
<1>12. JournalGood({})'
  BY DEF JournalGood, UniqueSeq, AckedIn
<1>13. MemoryGood'
  <2> SUFFICES ASSUME NEW g \in Handles
      PROVE /\ JournalGood(mem[g])' /\ JournalGood(call[g].mem)'
            /\ (Ready(g) => Holds(mem[g], Unsettled) /\ Above(next[g], mem[g]))'
    BY DEF MemoryGood
  <2>1. CASE g = h
    BY <2>1, <1>1, <1>4, <1>7, <1>8, <1>12 DEF JournalGood, NoCall
  <2>2. CASE g # h
    BY <2>2, <1>1, <1>3, <1>4 DEF IInv, MemoryGood, JournalGood, Ready
  <2> QED
    BY <2>1, <2>2
<1>14. CallGood'
  BY <1>3, <1>4 DEF CallGood, Writing
<1> QED
  BY <1>5, <1>11, <1>13, <1>14 DEF IInv

\* The snapshot a throwing call goes back to holds what is unsettled too.
LEMMA ThrowInv ==
    ASSUME TypeOK, IInv, NEW h \in Handles, Throw(h)
    PROVE  IInv'
<1>1. /\ pc[h] \in Writing /\ pc' = [pc EXCEPT ![h] = "idle"]
      /\ mem' = [mem EXCEPT ![h] = call[h].mem]
      /\ next' = [next EXCEPT ![h] = call[h].next]
      /\ call' = [call EXCEPT ![h] = NoCall]
      /\ UNCHANGED <<disk, durable, tmp, lock, closed, readOnly, promised, settled>>
  BY DEF Throw, Goto, files
<1>2. Owns(h) /\ Ready(h) /\ ~closed[h]
  BY <1>1, WriterOwns
<1>3. \A g \in Handles \ {h} : ~Owns(g) /\ ~Ready(g) /\ pc[g] \notin Writing
  BY <1>2, OwnerAlone, ReadyOwns, WriterOwns
<1>4. /\ \A g \in Handles \ {h} : /\ pc'[g] = pc[g] /\ call'[g] = call[g]
                                  /\ mem'[g] = mem[g] /\ next'[g] = next[g]
      /\ pc'[h] = "idle" /\ call'[h] = NoCall
      /\ mem'[h] = call[h].mem /\ next'[h] = call[h].next
  BY <1>1 DEF TypeOK
<1>5. OneThread' /\ ClosedRests' /\ LockGuards'
  BY <1>1, <1>2, <1>4 DEF IInv, OneThread, Busy, ClosedRests, LockGuards, Owns,
                          Writing, Opening
<1>6. FilesGood'
  BY <1>1 DEF IInv, FilesGood, JournalGood, Unsettled
<1>7. JournalGood({})'
  BY DEF JournalGood, UniqueSeq, AckedIn
<1>8. /\ JournalGood(call[h].mem) /\ Holds(call[h].mem, Unsettled)
      /\ Above(call[h].next, call[h].mem)
  BY <1>1 DEF IInv, MemoryGood, CallGood
<1>9. MemoryGood'
  <2> SUFFICES ASSUME NEW g \in Handles
      PROVE /\ JournalGood(mem[g])' /\ JournalGood(call[g].mem)'
            /\ (Ready(g) => Holds(mem[g], Unsettled) /\ Above(next[g], mem[g]))'
    BY DEF MemoryGood
  <2>1. CASE g = h
    BY <2>1, <1>1, <1>4, <1>7, <1>8 DEF JournalGood, NoCall, Unsettled
  <2>2. CASE g # h
    BY <2>2, <1>1, <1>3, <1>4 DEF IInv, MemoryGood, JournalGood, Ready
  <2> QED
    BY <2>1, <2>2
<1>10. CallGood'
  BY <1>3, <1>4 DEF CallGood, Writing
<1> QED
  BY <1>5, <1>6, <1>9, <1>10 DEF IInv

\* Dead handles own nothing; the others go on as they were.
LEMMA KillInv ==
    ASSUME TypeOK, IInv, NEW D \in SUBSET Handles, Kill(D),
           \A h \in D : Alive(h),
           FilesGood',
           \/ UNCHANGED <<files, lock>>
           \/ D = {h \in Handles : Alive(h)} /\ lock' \in {lock, NoLock}
    PROVE  IInv'
<1>1. /\ \A h \in D : pc'[h] = "dead" /\ mem'[h] = {} /\ call'[h] = NoCall
      /\ \A h \in Handles \ D : pc'[h] = pc[h] /\ mem'[h] = mem[h] /\ call'[h] = call[h]
      /\ UNCHANGED <<closed, readOnly, next, promised, refused, settled>>
  BY DEF Kill, ghosts
<1>2. JournalGood({})'
  BY DEF JournalGood, UniqueSeq, AckedIn
<1>3. OneThread' /\ ClosedRests'
  BY <1>1 DEF IInv, OneThread, ClosedRests, Busy, Opening, Writing
<1>4. LockGuards'
  <2>1. lock.by \subseteq Handles
    BY DEF TypeOK, LockFile
  <2>2. CASE UNCHANGED <<files, lock>>
    BY <2>1, <2>2, <1>1 DEF IInv, LockGuards, Owns, Writing
  <2>3. CASE D = {h \in Handles : Alive(h)} /\ lock' \in {lock, NoLock}
    <3>1. \A h \in Handles : ~Owns(h)' /\ pc'[h] # "remove"
      BY <2>3, <1>1 DEF Owns, Alive, Writing
    <3>2. CASE lock' = lock
      BY <3>1, <3>2, <2>1, <1>1 DEF IInv, LockGuards
    <3>3. CASE lock' = NoLock
      BY <3>1, <3>3 DEF LockGuards, NoLock
    <3> QED
      BY <2>3, <3>2, <3>3
  <2> QED
    BY <2>2, <2>3
<1>5. MemoryGood'
  <2> SUFFICES ASSUME NEW g \in Handles
      PROVE /\ JournalGood(mem[g])' /\ JournalGood(call[g].mem)'
            /\ (Ready(g) => Holds(mem[g], Unsettled) /\ Above(next[g], mem[g]))'
    BY DEF MemoryGood
  <2>1. CASE g \in D
    BY <2>1, <1>1, <1>2 DEF JournalGood, NoCall, Ready, Writing
  <2>2. CASE g \notin D
    BY <2>2, <1>1 DEF IInv, MemoryGood, JournalGood, Ready, Unsettled
  <2> QED
    BY <2>1, <2>2
<1>6. CallGood'
  <2> SUFFICES ASSUME NEW g \in Handles, pc'[g] \in Writing
      PROVE /\ Holds(call[g].mem, Unsettled)' /\ Above(call[g].next, call[g].mem)'
            /\ (call[g].kind = "enqueue" => call[g].ops \subseteq OpsOf(Supported(mem[g])))'
            /\ (pc[g] = "tmp" => tmp = Persisted(g))'
            /\ (pc[g] = "renamed" => disk = Persisted(g))'
    BY DEF CallGood, Writing
  <2>1. g \notin D /\ pc'[g] = pc[g]
    BY <1>1 DEF Writing
  <2>2. UNCHANGED files
    BY <2>1 DEF Alive, Writing
  <2> QED
    BY <2>1, <2>2, <1>1 DEF IInv, CallGood, Unsettled, Persisted, files
<1> QED
  BY <1>3, <1>4, <1>5, <1>6 DEF IInv

LEMMA SurroundingsInv ==
    ASSUME TypeOK, IInv, SingleOwner,
           (\E p \in Procs : Crash(p)) \/ PowerLoss \/ LockGetsOld
    PROVE  IInv'
<1>1. ASSUME NEW p \in Procs, Crash(p) PROVE IInv'
  <2>1. FilesGood'
    BY <1>1 DEF Crash, Kill, files, ghosts, IInv, FilesGood, JournalGood, Unsettled
  <2>2. /\ Kill({h \in Handles : Alive(h) /\ ProcOf[h] = p})
        /\ UNCHANGED <<files, lock>>
    BY <1>1 DEF Crash
  <2> QED
    BY <2>1, <2>2, KillInv
<1>2. CASE PowerLoss
  <2>1. /\ Kill({h \in Handles : Alive(h)}) /\ lock' \in {lock, NoLock}
        /\ disk' \in {disk, durable} /\ durable' = disk'
        /\ UNCHANGED <<promised, settled>>
    BY <1>2 DEF PowerLoss, Kill, ghosts
  <2>2. FilesGood'
    BY <2>1 DEF IInv, FilesGood, JournalGood, Unsettled
  <2> QED
    BY <2>1, <2>2, KillInv
<1>3. CASE LockGetsOld
  <2>1. /\ lock # NoLock /\ lock' = [lock EXCEPT !.stale = TRUE]
        /\ LockAges = "crashed" /\ \A h \in lock.by : pc[h] \in {"dead", "failed"}
        /\ UNCHANGED <<files, pc, handle, ghosts>>
    <3>1. lock # NoLock => lock.by # {}
      BY DEF IInv, LockGuards
    <3> QED
      BY <1>3, <3>1 DEF LockGetsOld, SingleOwner
  <2>2. lock.by # {} /\ lock'.by = lock.by /\ lock' # NoLock
    BY <2>1 DEF IInv, LockGuards, TypeOK, LockFile, NoLock
  <2>3. LockGuards'
    BY <2>1, <2>2 DEF IInv, LockGuards, Owns, handle
  <2>4. OneThread' /\ ClosedRests'
    BY <2>1 DEF IInv, OneThread, ClosedRests, Busy, handle
  <2>5. FilesGood' /\ MemoryGood' /\ CallGood'
    BY <2>1, FrameInv DEF handle, Ready
  <2> QED
    BY <2>3, <2>4, <2>5 DEF IInv
<1> QED
  BY <1>1, <1>2, <1>3

LEMMA InvStep == SingleOwner /\ TypeOK /\ IInv /\ [Next]_vars => IInv'
<1> SUFFICES ASSUME SingleOwner, TypeOK, IInv, [Next]_vars PROVE IInv'
  OBVIOUS
<1>1. ASSUME NEW h \in Handles, HandleStep(h) PROVE IInv'
  BY <1>1, OpenInv, LoadInv, CallInv, WriteTmpInv, RenameInv, ReturnInv, ThrowInv
     DEF HandleStep, SingleOwner
<1>2. CASE UNCHANGED vars
  <2>1. FilesGood' /\ MemoryGood' /\ CallGood'
    BY <1>2, FrameInv DEF vars, handle, Ready
  <2>2. OneThread' /\ ClosedRests' /\ LockGuards'
    BY <1>2 DEF vars, handle, IInv, OneThread, ClosedRests, LockGuards, Busy, Owns
  <2> QED
    BY <2>1, <2>2 DEF IInv
<1> QED
  BY <1>1, <1>2, SurroundingsInv DEF Next

(******************************* the theorems ******************************)

\* What the outbox promises: no accepted job is lost before somebody
\* acknowledges or discards it, through crashes, power losses and failing
\* writes at every point of persist() (store.ts:9-12).
THEOREM AcceptedJobsSurvive == ASSUME SingleOwner PROVE Spec => []PromisesKept
<1>1. IInv => PromisesKept
  BY DEF IInv, FilesGood, Holds, PromisesKept
<1>2. Init => IInv
  BY InitInv
<1>3. TypeOK /\ IInv /\ [Next]_vars => IInv'
  BY InvStep
<1> QED
  BY <1>1, <1>2, <1>3, TypeCorrect, PTL DEF Spec

\* The journal has one writer at a time (store.ts:5-6).
THEOREM JournalHasOneWriter == ASSUME SingleOwner PROVE Spec => []OneWriter
<1>1. IInv => OneWriter
  BY DEF IInv, LockGuards, OneWriter
<1>2. Init => IInv
  BY InitInv
<1>3. TypeOK /\ IInv /\ [Next]_vars => IInv'
  BY InvStep
<1> QED
  BY <1>1, <1>2, <1>3, TypeCorrect, PTL DEF Spec

\* A crash leaves the previous or the next complete journal (store.ts:6-9).
THEOREM JournalNeverTorn == ASSUME SingleOwner PROVE Spec => []NeverTorn
<1>1. IInv => NeverTorn
  BY DEF IInv, FilesGood, JournalGood, UniqueSeq, NeverTorn
<1>2. Init => IInv
  BY InitInv
<1>3. TypeOK /\ IInv /\ [Next]_vars => IInv'
  BY InvStep
<1> QED
  BY <1>1, <1>2, <1>3, TypeCorrect, PTL DEF Spec

(************************** jobs of a newer format *************************)

\* The surroundings in which a newer job is safe: no command reaches
\* discardQuarantined(), which does not ask whether the journal is read-only,
\* or no earlier run was of a newer program.
NoBlindCall == "discard" \in Calls => \A J \in InitialJournals : NewerIn(J) = {}

\* A handle that writes, or may, has found no newer job; nobody makes one.
NInv ==
    /\ NewerIn(tmp.jobs) = {} /\ NewerIn(durable.jobs) = NewerIn(disk.jobs)
    /\ \A h \in Handles :
          pc[h] \in Writing \/ (pc[h] = "idle" /\ ~readOnly[h]) => NewerIn(disk.jobs) = {}
    /\ "discard" \in Calls => NewerIn(disk.jobs) = {}

LEMMA WrittenIsOld == \A J : NewerIn(Supported(J)) = {} /\ NewerIn({}) = {}
BY DEF NewerIn, Supported

LEMMA InitNewer == NoBlindCall /\ Init => NInv
<1> SUFFICES ASSUME NoBlindCall, Init PROVE NInv
  OBVIOUS
<1>1. PICK J \in InitialJournals : disk = Whole(J)
  BY DEF Init
<1>2. disk.jobs = J /\ durable = disk /\ tmp.jobs = {} /\ \A h \in Handles : pc[h] = "new"
  BY <1>1 DEF Init, Whole, NoFile
<1> QED
  BY <1>2, WrittenIsOld DEF NInv, NoBlindCall, Writing

\* A call begins only where the journal has no newer job.
LEMMA BeginNewer ==
    ASSUME TypeOK, NInv, NEW h \in Handles, NEW kind, NEW ops, NEW J, NEW n,
           Begin(h, kind, ops, J, n), readOnly[h] => kind = "discard"
    PROVE  NInv' /\ disk' = disk
<1>1. NewerIn(disk.jobs) = {}
  BY DEF Begin, NInv, TypeOK
<1>2. UNCHANGED <<disk, durable, readOnly>> /\ tmp'.jobs = {}
  BY DEF Begin, TornFile
<1> QED
  BY <1>1, <1>2, WrittenIsOld DEF NInv

LEMMA StepNewer ==
    ASSUME TypeOK, NInv, [Next]_vars
    PROVE  NInv' /\ NewerIn(disk'.jobs) = NewerIn(disk.jobs)
<1>1. ASSUME UNCHANGED <<disk, durable, tmp, readOnly>>,
             \A h \in Handles : \/ pc'[h] = pc[h] \/ pc'[h] \notin Writing \cup {"idle"}
                                \/ pc[h] \in Writing
      PROVE  NInv' /\ disk' = disk
  BY <1>1 DEF NInv, Writing
<1>2. ASSUME NEW h \in Handles, NEW there, Goto(h, there), UNCHANGED <<disk, durable, tmp, readOnly>>,
             pc[h] \in Writing \/ there \notin Writing \cup {"idle"}
      PROVE  NInv' /\ disk' = disk
  BY <1>1, <1>2 DEF Goto, TypeOK
<1>3. ASSUME NEW h \in Handles,
             \/ Open(h) \/ CreateLock(h) \/ StatLock(h) \/ RemoveStaleLock(h) \/ LoadFails(h)
             \/ Throw(h)
      PROVE  NInv' /\ disk' = disk
  BY <1>2, <1>3
     DEF Open, CreateLock, StatLock, RemoveStaleLock, LoadFails, Throw, files, handle, Writing
<1>4. ASSUME NEW h \in Handles, Close(h) PROVE NInv' /\ disk' = disk
  BY <1>1, <1>4 DEF Close, files
<1>5. ASSUME NEW h \in Handles, Load(h) PROVE NInv' /\ disk' = disk
  <2>1. /\ pc' = [pc EXCEPT ![h] = "idle"] /\ UNCHANGED <<disk, durable, tmp>>
        /\ readOnly' = [readOnly EXCEPT ![h] = NewerIn(disk.jobs) # {}]
    BY <1>5 DEF Load, Goto, files
  <2>2. \A g \in Handles : g # h => pc'[g] = pc[g] /\ readOnly'[g] = readOnly[g]
    BY <2>1 DEF TypeOK
  <2>3. pc'[h] = "idle" /\ (~readOnly'[h] => NewerIn(disk.jobs) = {})
    BY <2>1 DEF TypeOK
  <2> QED
    BY <2>1, <2>2, <2>3 DEF NInv, Writing
<1>6. ASSUME NEW h \in Handles,
             \/ \E op \in Ops : Enqueue(h, op)
             \/ \E j \in mem[h] : Ack(h, j) \/ Retry(h, j) \/ Quarantine(h, j) \/ Discard(h, j)
             \/ RunRetention(h)
      PROVE  NInv' /\ disk' = disk
  BY <1>6, BeginNewer DEF Enqueue, Ack, Retry, Quarantine, Discard, RunRetention, MayMutate
<1>7. ASSUME NEW h \in Handles, WriteTmp(h) PROVE NInv' /\ disk' = disk
  <2>1. /\ pc[h] \in Writing /\ pc' = [pc EXCEPT ![h] = "tmp"]
        /\ UNCHANGED <<disk, durable, readOnly>> /\ tmp'.jobs = Supported(mem[h])
    BY <1>7 DEF WriteTmp, Goto, Writing, Persisted, Whole, handle
  <2>2. \A g \in Handles : pc'[g] = pc[g] \/ pc[g] \in Writing
    BY <2>1 DEF TypeOK
  <2> QED
    BY <2>1, <2>2, WrittenIsOld DEF NInv
<1>8. ASSUME NEW h \in Handles, Rename(h)
      PROVE  NInv' /\ NewerIn(disk'.jobs) = NewerIn(disk.jobs)
  <2>1. /\ pc[h] \in Writing /\ disk' = tmp /\ tmp'.jobs = {} /\ UNCHANGED durable
    BY <1>8 DEF Rename, Writing, NoFile
  <2>2. NewerIn(disk.jobs) = {} /\ NewerIn(disk'.jobs) = {}
    BY <2>1 DEF NInv
  <2> QED
    BY <2>1, <2>2, WrittenIsOld DEF NInv
<1>9. ASSUME NEW h \in Handles, Return(h) PROVE NInv' /\ disk' = disk
  <2>1. /\ pc[h] \in Writing /\ pc' = [pc EXCEPT ![h] = "idle"] /\ durable' = disk
        /\ UNCHANGED <<disk, tmp, readOnly>>
    BY <1>9 DEF Return, Goto, Writing
  <2> QED
    BY <2>1 DEF NInv
<1>10. ASSUME NEW D, Kill(D)
       PROVE  /\ readOnly' = readOnly
              /\ \A h \in Handles : pc'[h] = pc[h] \/ pc'[h] = "dead"
  BY <1>10 DEF Kill
<1>11. ASSUME NEW p \in Procs, Crash(p) PROVE NInv' /\ disk' = disk
  <2>1. /\ UNCHANGED <<disk, durable, tmp, readOnly>>
        /\ \A h \in Handles : pc'[h] = pc[h] \/ pc'[h] = "dead"
    BY <1>10, <1>11 DEF Crash, files
  <2> QED
    BY <1>1, <2>1 DEF Writing
<1>12. CASE PowerLoss
  <2>1. /\ disk' \in {disk, durable} /\ durable' = disk' /\ tmp' \in {tmp, NoFile, TornFile}
        /\ readOnly' = readOnly
        /\ \A h \in Handles : pc'[h] = pc[h] \/ pc'[h] = "dead"
    BY <1>10, <1>12 DEF PowerLoss
  <2>2. NewerIn(tmp'.jobs) = {}
    BY <2>1, WrittenIsOld DEF NInv, NoFile, TornFile
  <2>3. NewerIn(disk'.jobs) = NewerIn(disk.jobs)
    BY <2>1 DEF NInv
  <2> QED
    BY <2>1, <2>2, <2>3 DEF NInv, Writing
<1>13. CASE LockGetsOld \/ UNCHANGED vars
  BY <1>1, <1>13 DEF LockGetsOld, vars, files, handle
<1>14. ASSUME NEW h \in Handles, HandleStep(h)
       PROVE  NInv' /\ NewerIn(disk'.jobs) = NewerIn(disk.jobs)
  BY <1>3, <1>4, <1>5, <1>6, <1>7, <1>8, <1>9, <1>14 DEF HandleStep
<1> QED
  BY <1>11, <1>12, <1>13, <1>14 DEF Next

\* A job of a newer format stays in the journal, with any number of processes that
\* use the directory, even where the lock file fails to keep them apart
\* (store.ts:26-27).
THEOREM NewerJobsAreKept == ASSUME NoBlindCall PROVE Spec => NewerKept
<1>1. Init => NInv
  BY InitNewer
<1>2. TypeOK /\ NInv /\ [Next]_vars => NInv'
  BY StepNewer
<1>3. TypeOK /\ NInv /\ [Next]_vars => [NewerIn(disk.jobs) \subseteq NewerIn(disk'.jobs)]_vars
  BY StepNewer
<1> QED
  BY <1>1, <1>2, <1>3, TypeCorrect, PTL DEF Spec, NewerKept

-----------------------------------------------------------------------------
(***************************************************************************)
(* The config file.                                                        *)
(***************************************************************************)


\* A flip that goes on has read a file that parses and validates.
ReadGood ==
    \A p \in Pis : flip[p].at \in {"read", "opened", "written", "renamed", "changed"}
                   => flip[p].raw.form = "ok"

\* What the temporary file of a flip is at each point, if the flip has it for itself.
Carries(f, t) ==
    /\ f.at = "opened"  => f.fd = "tmp" /\ t = Config!Empty
    /\ f.at = "written" => f.fd = "tmp" /\ t = [f.raw EXCEPT !.private = f.want]

Alone ==
    \A p \in Pis : flip[p].alone =>
        /\ Carries(flip[p], draft)
        /\ flip[p].at \in {"read", "opened", "written"} => conf = flip[p].raw
        /\ flip[p].at # "idle"

Solo ==
    ~spoilt =>
        /\ conf \in Config!Doc
        /\ \A p \in Pis : Config!Writing(p) => Carries(flip[p], draft)
           /\ ~Config!Overlaps(p)

ConfigInv ==
    /\ Config!TypeOK /\ ReadGood /\ Config!OutMeansPublic /\ Config!OnMeansQuiet
    /\ Config!AnswerIsTrue /\ Alone /\ Solo

-----------------------------------------------------------------------------
(* The operators.                                                          *)

Flips == [at : {"idle", "read", "opened", "written", "renamed", "changed", "not changed"},
          want : BOOLEAN, raw : Config!Doc \cup {Config!Empty, Config!Broken},
          fd : {"none", "tmp", "conf", "gone"}, alone : BOOLEAN]

LEMMA DocsAre ==
    /\ Config!Empty \notin Config!Doc /\ Config!Broken \notin Config!Doc
       /\ Config!NoFile \notin Config!Doc /\ Config!Empty # Config!Broken
    /\ Config!NoFile # Config!Empty /\ Config!NoFile # Config!Broken
    /\ Config!Empty.form # "ok" /\ Config!Broken.form # "ok"
    /\ Config!NoFlip \in Flips /\ Config!NoFlip.at = "idle" /\ ~Config!NoFlip.alone
       /\ Config!NoFlip.fd = "none"
BY DEF Config!Doc, Config!Empty, Config!Broken, Config!NoFile, Config!NoDoc,
   Config!NoFlip, Flips

\* What a flip that read a good file would write.
LEMMA CandidateIs ==
    ASSUME NEW p \in Pis, flip[p] \in Flips, flip[p].raw.form = "ok"
    PROVE  /\ flip[p].raw \in Config!Doc /\ Config!Candidate(p) \in Config!Doc
           /\ Config!Candidate(p).private = flip[p].want
<1>1. flip[p].raw \in Config!Doc
  BY DocsAre DEF Flips
<1>2. flip[p].want \in BOOLEAN
  BY DEF Flips
<1> QED
  BY <1>1, <1>2 DEF Config!Candidate, Config!Doc

LEMMA DisturbedIs ==
    ASSUME NEW f \in Flips
    PROVE  /\ Config!Disturbed(f) \in Flips /\ ~Config!Disturbed(f).alone
           /\ f.at \in {"idle", "changed", "not changed"}
              => Config!Disturbed(f) = Config!NoFlip
           /\ f.at \notin {"idle", "changed", "not changed"} =>
                /\ Config!Disturbed(f).at = f.at /\ Config!Disturbed(f).raw = f.raw
                /\ Config!Disturbed(f).want = f.want /\ Config!Disturbed(f).fd = f.fd
BY DocsAre DEF Config!Disturbed, Flips

-----------------------------------------------------------------------------
(* Gates and sessions.                                                     *)

\* A step that leaves files and flips alone, but for flips that go back to rest.
LEMMA FilesRest ==
    ASSUME ConfigInv, UNCHANGED <<conf, draft, spoilt>>, flip' \in [Pis -> Flips],
           \A p \in Pis : flip'[p] = flip[p] \/ flip'[p] = Config!NoFlip
    PROVE  ReadGood' /\ Config!AnswerIsTrue' /\ Alone' /\ Solo'
<1>1. ReadGood'
  BY DocsAre DEF ConfigInv, ReadGood
<1>2. Config!AnswerIsTrue'
  BY DocsAre DEF ConfigInv, Config!AnswerIsTrue, Config!Candidate
<1>3. Alone'
  BY DocsAre DEF ConfigInv, Alone, Carries
<1>4. Solo'
  <2>1. \A p \in Pis : Config!Writing(p)' => Config!Writing(p) /\ flip'[p] = flip[p]
    BY DocsAre DEF Config!Writing
  <2> QED
    BY <2>1 DEF ConfigInv, Solo, Config!Overlaps, Carries
<1> QED
  BY <1>1, <1>2, <1>3, <1>4

LEMMA GateStep ==
    ASSUME ConfigInv, UNCHANGED <<Config!paths, spoilt, flip>>, upsets' \in 0..MaxUpsets,
           NEW p \in Pis, runs' \in [Pis -> SUBSET Features], live' \in [Pis -> BOOLEAN],
           last' \in [Pis -> {"unread", "public", "private"}],
           asked' \in [Pis -> [at : {"none", "out", "aborted"}, again : BOOLEAN]],
           \A q \in Pis \ {p} : /\ live'[q] = live[q] /\ last'[q] = last[q]
                                   /\ asked'[q] = asked[q],
           asked'[p].at = "out" => /\ live'[p] /\ last'[p] = "public"
                                  /\ (~Config!IsPrivate \/ asked[p].at = "out")
    PROVE  ConfigInv'
<1>1. UNCHANGED <<conf, draft>> /\ flip' \in [Pis -> Flips]
  BY DEF Config!paths, ConfigInv, Config!TypeOK, Flips
<1>2. Config!TypeOK'
  BY <1>1 DEF ConfigInv, Config!TypeOK
<1>3. Config!OutMeansPublic'
  BY DEF ConfigInv, Config!OutMeansPublic
<1>4. Config!OnMeansQuiet'
  BY <1>1 DEF ConfigInv, Config!OnMeansQuiet, Config!IsPrivate
<1> QED
  BY <1>1, <1>2, <1>3, <1>4, FilesRest DEF ConfigInv

\* A boundary reads the flag; a call out at one that finds it set is aborted.
LEMMA ObserveIs ==
    ASSUME ConfigInv, NEW p \in Pis, NEW b \in BOOLEAN, Config!Observe(p, b)
    PROVE  /\ last' \in [Pis -> {"unread", "public", "private"}]
           /\ asked' \in [Pis -> [at : {"none", "out", "aborted"}, again : BOOLEAN]]
           /\ \A q \in Pis \ {p} : last'[q] = last[q] /\ asked'[q] = asked[q]
           /\ last'[p] = IF b THEN "private" ELSE "public"
           /\ asked'[p].at = "out" => asked[p].at = "out" /\ ~b
<1> DEFINE at == IF b /\ last[p] # "private" /\ asked[p].at = "out" THEN "aborted"
                 ELSE asked[p].at
           c == [asked[p] EXCEPT !.at = at]
<1>1. asked[p] \in [at : {"none", "out", "aborted"}, again : BOOLEAN]
  BY DEF ConfigInv, Config!TypeOK
<1>2. at \in {"none", "out", "aborted"}
  BY <1>1
<1>3. asked' = [asked EXCEPT ![p] = c]
  BY DEF Config!Observe
<1>4. at = "out" => asked[p].at = "out" /\ ~b
  BY DEF ConfigInv, Config!OutMeansPublic
<1> HIDE DEF at
<1>5. c \in [at : {"none", "out", "aborted"}, again : BOOLEAN] /\ c.at = at
  BY <1>1, <1>2
<1> HIDE DEF c
<1>6. last' = [last EXCEPT ![p] = IF b THEN "private" ELSE "public"]
  BY DEF Config!Observe
<1> QED
  BY <1>3, <1>4, <1>5, <1>6 DEF ConfigInv, Config!TypeOK

LEMMA AttemptIs ==
    ASSUME ConfigInv, NEW p \in Pis, NEW again \in BOOLEAN, Config!Attempt(p, again)
    PROVE  /\ last' \in [Pis -> {"unread", "public", "private"}]
           /\ asked' \in [Pis -> [at : {"none", "out", "aborted"}, again : BOOLEAN]]
           /\ \A q \in Pis \ {p} : last'[q] = last[q] /\ asked'[q] = asked[q]
           /\ asked'[p].at = "out" => last'[p] = "public" /\ ~Config!IsPrivate
BY DEF ConfigInv, Config!TypeOK, Config!Attempt, Config!NoCall

LEMMA SessionStep ==
    ASSUME ConfigInv, NEW p \in Pis,
           \/ Config!Boundary(p) \/ Config!Ask(p) \/ Config!AnswerMalformed(p)
              \/ Config!CallEnds(p) \/ Config!SessionStarts(p)
    PROVE  ConfigInv'
<1>1. Config!IsPrivate \in BOOLEAN /\ Config!TypeOK /\ Config!OutMeansPublic
  BY DEF Config!IsPrivate, ConfigInv
<1>2. CASE Config!Boundary(p)
  <2>1. Config!Observe(p, Config!IsPrivate)
          /\ UNCHANGED <<Config!paths, flip, runs, live, spoilt, upsets>>
    BY <1>2 DEF Config!Boundary
  <2>2. PICK b \in BOOLEAN : b = Config!IsPrivate
    BY <1>1
  <2>3. Config!Observe(p, b)
    BY <2>1, <2>2
  <2>4. /\ last' \in [Pis -> {"unread", "public", "private"}]
        /\ asked' \in [Pis -> [at : {"none", "out", "aborted"}, again : BOOLEAN]]
        /\ \A q \in Pis \ {p} : last'[q] = last[q] /\ asked'[q] = asked[q]
        /\ asked'[p].at = "out" => asked[p].at = "out" /\ last'[p] = "public"
    BY <2>3, ObserveIs
  <2> QED
    BY <1>1, <2>1, <2>4, GateStep DEF Config!TypeOK, Config!OutMeansPublic
<1>3. ASSUME NEW again \in BOOLEAN, Config!Attempt(p, again), live[p],
             UNCHANGED <<Config!paths, flip, runs, live, spoilt, upsets>>
      PROVE  ConfigInv'
  <2>1. /\ last' \in [Pis -> {"unread", "public", "private"}]
        /\ asked' \in [Pis -> [at : {"none", "out", "aborted"}, again : BOOLEAN]]
        /\ \A q \in Pis \ {p} : last'[q] = last[q] /\ asked'[q] = asked[q]
        /\ asked'[p].at = "out" => last'[p] = "public" /\ ~Config!IsPrivate
    BY <1>3, AttemptIs
  <2>2. /\ runs' \in [Pis -> SUBSET Features] /\ live' \in [Pis -> BOOLEAN]
        /\ upsets' \in 0..MaxUpsets /\ live' = live
    BY <1>1, <1>3 DEF Config!TypeOK
  <2> QED
    BY <1>3, <2>1, <2>2, GateStep
<1>4. CASE Config!Ask(p)
  BY <1>3, <1>4 DEF Config!Ask
<1>5. CASE Config!AnswerMalformed(p)
  BY <1>1, <1>3, <1>5 DEF Config!AnswerMalformed, Config!OutMeansPublic
<1>6. CASE Config!CallEnds(p)
  <2>1. asked' = [asked EXCEPT ![p] = Config!NoCall]
          /\ UNCHANGED <<Config!paths, flip, runs, live, last, spoilt, upsets>>
    BY <1>6 DEF Config!CallEnds
  <2> QED
    BY <1>1, <2>1, GateStep DEF Config!TypeOK, Config!NoCall
<1>7. CASE Config!SessionStarts(p)
  <2>1. /\ ~live[p] /\ live' = [live EXCEPT ![p] = TRUE]
        /\ runs' = [runs EXCEPT ![p] = Config!EffectiveFeatures]
        /\ UNCHANGED <<Config!paths, flip, last, asked, spoilt, upsets>>
    BY <1>7 DEF Config!SessionStarts
  <2>2. Config!EffectiveFeatures \in SUBSET Features
    BY DEF Config!EffectiveFeatures, Config!IsPrivate, Config!Doc
  <2>3. runs' \in [Pis -> SUBSET Features] /\ live' \in [Pis -> BOOLEAN]
    BY <1>1, <2>1, <2>2 DEF Config!TypeOK
  <2>4. asked[p].at # "out"
    BY <1>1, <2>1 DEF Config!OutMeansPublic
  <2> QED
    BY <1>1, <2>1, <2>3, <2>4, GateStep DEF Config!TypeOK
<1> QED
  BY <1>2, <1>4, <1>5, <1>6, <1>7

LEMMA UpsetIs ==
    ASSUME Config!BoundsAssumption, Config!TypeOK, Config!Upset
    PROVE  upsets' \in 0..MaxUpsets
<1>1. MaxUpsets \in Nat /\ upsets \in 0..MaxUpsets
  BY DEF Config!BoundsAssumption, Config!TypeOK
<1> QED
  BY <1>1 DEF Config!Upset

LEMMA EndStep ==
    ASSUME Config!BoundsAssumption, ConfigInv, NEW p \in Pis, NEW killed,
           Config!SessionEnds(p, killed)
    PROVE  ConfigInv'
<1>1. /\ flip' = [flip EXCEPT ![p] = Config!NoFlip] /\ live' = [live EXCEPT ![p] = FALSE]
      /\ runs' = [runs EXCEPT ![p] = {}] /\ last' = [last EXCEPT ![p] = "unread"]
      /\ asked' = [asked EXCEPT ![p] = Config!NoCall] /\ UNCHANGED <<conf, draft, spoilt>>
  BY DEF Config!SessionEnds, Config!paths
<1>2. upsets' \in 0..MaxUpsets
  BY UpsetIs DEF Config!SessionEnds, ConfigInv, Config!TypeOK
<1>3. flip' \in [Pis -> Flips] /\ \A q \in Pis :
        flip'[q] = flip[q] \/ flip'[q] = Config!NoFlip
  BY <1>1, DocsAre DEF ConfigInv, Config!TypeOK, Flips
<1>4. Config!TypeOK'
  BY <1>1, <1>2, <1>3 DEF ConfigInv, Config!TypeOK, Flips, Config!NoCall
<1>5. Config!OutMeansPublic' /\ Config!OnMeansQuiet'
  BY <1>1, <1>3, DocsAre DEF ConfigInv, Config!TypeOK, Config!OutMeansPublic,
     Config!OnMeansQuiet, Config!NoCall, Config!IsPrivate
<1> QED
  BY <1>1, <1>3, <1>4, <1>5, FilesRest DEF ConfigInv

-----------------------------------------------------------------------------
(* Flips.                                                                  *)

\* A step of one flip, or an edit: gates rest, and others that noticed are disturbed.
\* What such a step must show is about the files only.
LEMMA FlipStep ==
    ASSUME ConfigInv, UNCHANGED Config!gate, upsets' \in 0..MaxUpsets,
           spoilt' \in BOOLEAN,
           conf' \in Config!Doc \cup {Config!Empty, Config!Broken},
               draft' \in Config!Doc \cup {Config!Empty, Config!Broken, Config!NoFile},
           flip' \in [Pis -> Flips], ReadGood', Config!AnswerIsTrue', Alone', Solo',
           \A q \in Pis : flip'[q].at = "changed" => flip'[q] = flip[q] /\ conf' = conf
    PROVE  ConfigInv'
<1>1. Config!TypeOK'
  BY DEF ConfigInv, Config!TypeOK, Config!gate, Flips
<1>2. Config!OutMeansPublic'
  BY DEF ConfigInv, Config!OutMeansPublic, Config!gate
<1>3. Config!OnMeansQuiet'
  BY DEF ConfigInv, Config!OnMeansQuiet, Config!gate, Config!IsPrivate
<1> QED
  BY <1>1, <1>2, <1>3 DEF ConfigInv

\* The flips of the others after process p has touched a path.
Moved(p) ==
    \A q \in Pis \ {p} :
        /\ ~flip'[q].alone
        /\ flip'[q].at = "idle" \/ flip'[q].at = flip[q].at
        /\ flip'[q].at \in {"read", "opened", "written", "renamed"} =>
             flip'[q].raw = flip[q].raw /\ flip'[q].want = flip[q].want
        /\ flip'[q].at \in {"idle", "read", "opened", "written", "renamed"}

LEMMA StepsIs ==
    ASSUME Config!TypeOK, NEW p \in Pis, NEW f \in Flips, Config!Steps(p, f)
    PROVE  /\ flip' \in [Pis -> Flips] /\ flip'[p] = f /\ Moved(p)
           /\ \A q \in Pis \ {p} : flip'[q].fd = flip[q].fd \/ flip'[q].at = "idle"
<1>1. \A q \in Pis : flip[q] \in Flips
  BY DEF Config!TypeOK, Flips
<1>2. \A q \in Pis : /\ Config!Disturbed(flip[q]) \in Flips
                        /\ ~Config!Disturbed(flip[q]).alone
                     /\ \/ Config!Disturbed(flip[q]).at = "idle"
                        \/ /\ flip[q].at \notin {"idle", "changed", "not changed"}
                           /\ Config!Disturbed(flip[q]).at = flip[q].at
                              /\ Config!Disturbed(flip[q]).raw = flip[q].raw
                           /\ Config!Disturbed(flip[q]).want = flip[q].want
                           /\ Config!Disturbed(flip[q]).fd = flip[q].fd
  BY <1>1, DisturbedIs, DocsAre
<1>3. \A q \in Pis : flip'[q] = IF q = p THEN f ELSE Config!Disturbed(flip[q])
  BY DEF Config!Steps
<1>4. flip' = [q \in Pis |-> flip'[q]]
  BY DEF Config!Steps
<1>5. \A q \in Pis : flip'[q] \in Flips
  BY <1>2, <1>3
<1>6. flip' \in [Pis -> Flips]
  BY <1>4, <1>5
<1>7. \A q \in Pis :
        flip[q].at \in {"idle", "read", "opened", "written", "renamed", "changed",
                                     "not changed"}
  BY <1>1 DEF Flips
<1> QED
  BY <1>2, <1>3, <1>6, <1>7 DEF Moved

LEMMA ReadStep ==
    ASSUME ConfigInv, NEW p \in Pis, NEW want \in BOOLEAN, Config!FlipReads(p, want)
    PROVE  ConfigInv'
<1> DEFINE f == [at |-> IF conf.form = "ok" THEN "read" ELSE "not changed",
                 want |-> want, raw |-> conf, fd |-> "none", alone |-> TRUE]
<1>1. flip' = [flip EXCEPT ![p] = f]
        /\ UNCHANGED <<conf, draft, Config!gate, spoilt, upsets>>
  BY DEF Config!FlipReads, Config!paths
<1>2. /\ f \in Flips /\ f.raw = conf /\ f.at \in {"read", "not changed"}
      /\ f.at = "read" => conf.form = "ok"
  BY DEF Flips, ConfigInv, Config!TypeOK
<1> HIDE DEF f
<1>3. flip' \in [Pis -> Flips] /\ flip'[p] = f /\ \A q \in Pis \ {p} : flip'[q] = flip[q]
  BY <1>1, <1>2 DEF ConfigInv, Config!TypeOK, Flips
<1>4. ReadGood'
  BY <1>2, <1>3 DEF ConfigInv, ReadGood
<1>5. Config!AnswerIsTrue'
  BY <1>1, <1>2, <1>3 DEF ConfigInv, Config!AnswerIsTrue, Config!Candidate
<1>6. Alone'
  BY <1>1, <1>2, <1>3 DEF ConfigInv, Alone, Carries
<1>7. Solo'
  BY <1>1, <1>2, <1>3 DEF ConfigInv, Solo, Carries, Config!Writing, Config!Overlaps
<1> QED
  BY <1>1, <1>2, <1>3, <1>4, <1>5, <1>6, <1>7, FlipStep DEF ConfigInv, Config!TypeOK

LEMMA OpenStep ==
    ASSUME ConfigInv, NEW p \in Pis, Config!FlipOpens(p)
    PROVE  ConfigInv'
<1> DEFINE f == [flip[p] EXCEPT !.at = "opened", !.fd = "tmp"]
<1>1. /\ flip[p].at = "read" /\ draft' = Config!Empty /\ Config!Steps(p, f)
         /\ spoilt' = (spoilt \/ Config!Overlaps(p))
      /\ UNCHANGED <<conf, Config!gate, upsets>>
  BY DEF Config!FlipOpens
<1>2. flip[p] \in Flips /\ spoilt \in BOOLEAN
  BY DEF ConfigInv, Config!TypeOK, Flips
<1>3. /\ f \in Flips /\ f.at = "opened" /\ f.fd = "tmp" /\ f.raw = flip[p].raw
      /\ f.want = flip[p].want /\ f.alone = flip[p].alone
  BY <1>2 DEF Flips
<1> HIDE DEF f
<1>4. flip' \in [Pis -> Flips] /\ flip'[p] = f /\ Moved(p)
  BY <1>1, <1>3, StepsIs DEF ConfigInv
<1>5. ReadGood'
  BY <1>1, <1>3, <1>4 DEF ConfigInv, ReadGood, Moved
<1>6. Config!AnswerIsTrue'
  BY <1>3, <1>4 DEF Config!AnswerIsTrue, Moved
<1>7. Alone'
  BY <1>1, <1>3, <1>4 DEF ConfigInv, Alone, Carries, Moved
<1>8. Solo'
  <2> SUFFICES ASSUME ~spoilt' PROVE Solo'
    BY DEF Solo
  <2>1. ~spoilt /\ ~Config!Overlaps(p)
    BY <1>1
  <2>2. \A q \in Pis \ {p} : ~Config!Writing(q)'
    BY <1>4, <2>1 DEF Config!Overlaps, Moved, Config!Writing
  <2> QED
    BY <1>1, <1>3, <1>4, <2>1, <2>2 DEF ConfigInv, Solo, Carries, Config!Overlaps,
       Config!Writing
<1> QED
  BY <1>1, <1>2, <1>3, <1>4, <1>5, <1>6, <1>7, <1>8, FlipStep DEF ConfigInv,
     Config!TypeOK, Moved

LEMMA WriteStep ==
    ASSUME ConfigInv, NEW p \in Pis, Config!FlipWrites(p)
    PROVE  ConfigInv'
<1> DEFINE f == [flip[p] EXCEPT !.at = "written"]
<1>1. /\ flip[p].at = "opened" /\ Config!Steps(p, f)
         /\ spoilt' = (spoilt \/ Config!Overlaps(p))
      /\ draft' \in IF flip[p].fd = "tmp"
                      THEN Config!Over(draft, Config!Candidate(p)) ELSE {draft}
      /\ conf' \in IF flip[p].fd = "conf"
                     THEN Config!Over(conf, Config!Candidate(p)) ELSE {conf}
      /\ UNCHANGED <<Config!gate, upsets>>
  BY DEF Config!FlipWrites
<1>2. flip[p] \in Flips /\ spoilt \in BOOLEAN /\ flip[p].raw.form = "ok"
  BY <1>1 DEF ConfigInv, Config!TypeOK, Flips, ReadGood
<1>3. /\ f \in Flips /\ f.at = "written" /\ f.fd = flip[p].fd /\ f.raw = flip[p].raw
      /\ f.want = flip[p].want /\ f.alone = flip[p].alone
  BY <1>2 DEF Flips
<1> HIDE DEF f
<1>4. flip' \in [Pis -> Flips] /\ flip'[p] = f /\ Moved(p)
  BY <1>1, <1>3, StepsIs DEF ConfigInv
<1>5. Config!Candidate(p) \in Config!Doc
        /\ Config!Candidate(p) = [f.raw EXCEPT !.private = f.want]
  BY <1>2, <1>3, CandidateIs DEF Config!Candidate
<1>6. conf' \in Config!Doc \cup {Config!Empty, Config!Broken}
        /\ draft' \in Config!Doc \cup {Config!Empty, Config!Broken, Config!NoFile}
  BY <1>1, <1>5 DEF ConfigInv, Config!TypeOK, Config!Over
<1>7. flip[p].fd = "tmp" /\ draft = Config!Empty => draft' = Config!Candidate(p)
        /\ conf' = conf
  BY <1>1 DEF Config!Over
<1>8. ReadGood'
  BY <1>2, <1>3, <1>4 DEF ConfigInv, ReadGood, Moved
<1>9. Config!AnswerIsTrue'
  BY <1>3, <1>4 DEF Config!AnswerIsTrue, Moved
<1>10. Alone'
  BY <1>1, <1>3, <1>4, <1>5, <1>7 DEF ConfigInv, Alone, Carries, Moved
<1>11. Solo'
  <2> SUFFICES ASSUME ~spoilt' PROVE Solo'
    BY DEF Solo
  <2>1. ~spoilt /\ ~Config!Overlaps(p)
    BY <1>1
  <2>2. \A q \in Pis \ {p} : ~Config!Writing(q)'
    BY <1>4, <2>1 DEF Config!Overlaps, Moved, Config!Writing
  <2>3. flip[p].fd = "tmp" /\ draft = Config!Empty /\ conf \in Config!Doc
    BY <1>1, <2>1 DEF ConfigInv, Solo, Carries, Config!Writing
  <2> QED
    BY <1>3, <1>4, <1>5, <1>7, <2>2, <2>3 DEF Solo, Carries, Config!Overlaps
<1> QED
  BY <1>1, <1>2, <1>3, <1>4, <1>6, <1>8, <1>9, <1>10, <1>11, FlipStep DEF ConfigInv,
     Config!TypeOK, Moved

LEMMA RenameStep ==
    ASSUME ConfigInv, NEW p \in Pis, Config!FlipRenames(p)
    PROVE  ConfigInv'
<1> DEFINE f == [flip[p] EXCEPT !.at = "renamed", !.fd = "none"]
           fd(s) == IF s = "tmp" THEN "conf" ELSE IF s = "conf" THEN "gone" ELSE s
           g(q) == [Config!Disturbed(flip[q]) EXCEPT
                      !.fd = fd(Config!Disturbed(flip[q]).fd)]
<1>1. /\ flip[p].at = "written" /\ draft # Config!NoFile /\ conf' = draft
         /\ draft' = Config!NoFile
      /\ flip' = [q \in Pis |-> IF q = p THEN f ELSE g(q)]
      /\ UNCHANGED <<Config!gate, spoilt, upsets>>
  BY DEF Config!FlipRenames
<1>2. \A q \in Pis : flip[q] \in Flips
  BY DEF ConfigInv, Config!TypeOK, Flips
<1>3. /\ f \in Flips /\ f.at = "renamed" /\ f.fd = "none" /\ f.raw = flip[p].raw
      /\ f.want = flip[p].want /\ f.alone = flip[p].alone
  BY <1>2 DEF Flips
<1>4. \A q \in Pis : /\ g(q) \in Flips /\ ~g(q).alone
                     /\ \/ g(q).at = "idle"
                        \/ /\ flip[q].at \notin {"idle", "changed", "not changed"}
                           /\ g(q).at = flip[q].at /\ g(q).raw = flip[q].raw
                           /\ g(q).want = flip[q].want
  <2> SUFFICES ASSUME NEW q \in Pis
               PROVE  /\ g(q) \in Flips /\ ~g(q).alone
                      /\ \/ g(q).at = "idle"
                         \/ /\ flip[q].at \notin {"idle", "changed", "not changed"}
                            /\ g(q).at = flip[q].at /\ g(q).raw = flip[q].raw
                            /\ g(q).want = flip[q].want
    OBVIOUS
  <2> DEFINE d == Config!Disturbed(flip[q])
  <2>1. /\ d \in Flips /\ ~d.alone
        /\ \/ d = Config!NoFlip
           \/ /\ flip[q].at \notin {"idle", "changed", "not changed"}
              /\ d.at = flip[q].at /\ d.raw = flip[q].raw /\ d.want = flip[q].want
    BY <1>2, DisturbedIs
  <2> HIDE DEF d
  <2>2. fd(d.fd) \in {"none", "tmp", "conf", "gone"}
    BY <2>1 DEF Flips
  <2> DEFINE e == [d EXCEPT !.fd = fd(d.fd)]
  <2> HIDE DEF fd
  <2>3. e \in Flips /\ e.alone = d.alone /\ e.at = d.at /\ e.raw = d.raw
          /\ e.want = d.want
    BY <2>1, <2>2 DEF Flips
  <2>4. e = g(q)
    BY DEF d
  <2> HIDE DEF e, g
  <2> QED
    BY <2>1, <2>3, <2>4, DocsAre
<1> HIDE DEF f, g
<1>5. flip' \in [Pis -> Flips] /\ flip'[p] = f /\ Moved(p)
  <2>1. \A q \in Pis :
          flip[q].at \in {"idle", "read", "opened", "written", "renamed", "changed",
                                       "not changed"}
    BY <1>2 DEF Flips
  <2>2. \A q \in Pis : flip'[q] \in Flips
    BY <1>1, <1>3, <1>4
  <2>3. flip' \in [Pis -> Flips]
    BY <1>1, <2>2
  <2> QED
    BY <1>1, <1>4, <2>1, <2>3 DEF Moved
<1>6. conf' \in Config!Doc \cup {Config!Empty, Config!Broken}
  BY <1>1 DEF ConfigInv, Config!TypeOK
<1>7. ReadGood'
  BY <1>1, <1>3, <1>5 DEF ConfigInv, ReadGood, Moved
<1>8. Config!AnswerIsTrue'
  <2>1. flip[p].alone => conf' = [f.raw EXCEPT !.private = f.want]
    BY <1>1, <1>3 DEF ConfigInv, Alone, Carries
  <2> QED
    BY <1>3, <1>5, <2>1 DEF Config!AnswerIsTrue, Moved, Config!Candidate
<1>9. Alone'
  BY <1>3, <1>5 DEF Alone, Carries, Moved
<1>10. Solo'
  <2> SUFFICES ASSUME ~spoilt' PROVE Solo'
    BY DEF Solo
  <2>1. ~spoilt /\ Config!Writing(p)
    BY <1>1 DEF Config!Writing
  <2>2. Carries(flip[p], draft) /\ ~Config!Overlaps(p)
    BY <2>1 DEF ConfigInv, Solo
  <2>3. draft = Config!Candidate(p) /\ Config!Candidate(p) \in Config!Doc
    <3>1. flip[p].raw.form = "ok"
      BY <1>1 DEF ConfigInv, ReadGood
    <3> QED
      BY <1>1, <1>2, <2>2, <3>1, CandidateIs DEF Carries, Config!Candidate
  <2>4. \A q \in Pis : ~Config!Writing(q)'
    BY <1>3, <1>5, <2>2 DEF Config!Overlaps, Moved, Config!Writing
  <2> QED
    BY <1>1, <2>3, <2>4 DEF Solo
<1> QED
  BY <1>1, <1>2, <1>3, <1>5, <1>6, <1>7, <1>8, <1>9, <1>10, FlipStep DEF ConfigInv,
     Config!TypeOK, Moved

\* The session's own gate reads the file the flip has just renamed.
LEMMA NotifyStep ==
    ASSUME ConfigInv, NEW p \in Pis, Config!FlipNotifies(p)
    PROVE  ConfigInv'
<1> DEFINE f == [flip[p] EXCEPT !.at = "changed"]
<1>1. /\ flip[p].at = "renamed" /\ Config!Observe(p, Config!IsPrivate)
         /\ flip' = [flip EXCEPT ![p] = f]
      /\ UNCHANGED <<conf, draft, runs, live, spoilt, upsets>>
  BY DEF Config!FlipNotifies, Config!paths
<1>2. flip[p] \in Flips /\ flip[p].raw.form = "ok"
  BY <1>1 DEF ConfigInv, Config!TypeOK, Flips, ReadGood
<1>3. /\ f \in Flips /\ f.at = "changed" /\ f.raw = flip[p].raw /\ f.want = flip[p].want
      /\ f.alone = flip[p].alone
  BY <1>2 DEF Flips
<1> HIDE DEF f
<1>4. flip' \in [Pis -> Flips] /\ flip'[p] = f /\ \A q \in Pis \ {p} : flip'[q] = flip[q]
  BY <1>1, <1>3 DEF ConfigInv, Config!TypeOK, Flips
<1>5. PICK b \in BOOLEAN : b = Config!IsPrivate
  BY DEF Config!IsPrivate, ConfigInv, Config!TypeOK, Config!Doc
<1>6. /\ last' \in [Pis -> {"unread", "public", "private"}]
      /\ asked' \in [Pis -> [at : {"none", "out", "aborted"}, again : BOOLEAN]]
      /\ \A q \in Pis \ {p} : last'[q] = last[q] /\ asked'[q] = asked[q]
      /\ asked'[p].at = "out" => asked[p].at = "out" /\ ~b /\ last'[p] = "public"
  BY <1>1, <1>5, ObserveIs
<1>7. Config!TypeOK'
  BY <1>1, <1>4, <1>6 DEF ConfigInv, Config!TypeOK, Flips
<1>8. Config!OutMeansPublic'
  BY <1>1, <1>6 DEF ConfigInv, Config!OutMeansPublic
<1>9. flip[p].alone => conf = Config!Candidate(p)
  BY <1>1 DEF ConfigInv, Config!AnswerIsTrue
<1>10. Config!IsPrivate' = Config!IsPrivate
  BY <1>1 DEF Config!IsPrivate
<1>11. Config!OnMeansQuiet'
  <2>1. f.alone /\ f.want => Config!IsPrivate
    BY <1>2, <1>3, <1>9, CandidateIs DEF Config!IsPrivate
  <2> QED
    BY <1>3, <1>4, <1>5, <1>6, <1>10, <2>1 DEF ConfigInv, Config!OnMeansQuiet
<1>12. ReadGood' /\ Alone'
  BY <1>1, <1>2, <1>3, <1>4 DEF ConfigInv, ReadGood, Alone, Carries
<1>13. Config!AnswerIsTrue'
  BY <1>1, <1>3, <1>4, <1>9 DEF ConfigInv, Config!AnswerIsTrue, Config!Candidate
<1>14. Solo'
  BY <1>1, <1>3, <1>4 DEF ConfigInv, Solo, Carries, Config!Overlaps, Config!Writing
<1> QED
  BY <1>7, <1>8, <1>11, <1>12, <1>13, <1>14 DEF ConfigInv

LEMMA FailStep ==
    ASSUME Config!BoundsAssumption, ConfigInv, NEW p \in Pis, Config!FlipFails(p)
    PROVE  ConfigInv'
<1> DEFINE f == [flip[p] EXCEPT !.at = "not changed", !.fd = "none"]
<1>1. /\ flip[p].at \in {"read", "opened", "written"}
      /\ flip' = [flip EXCEPT ![p] = f] /\ UNCHANGED <<conf, draft, Config!gate, spoilt>>
  <2>1. flip' = [flip EXCEPT ![p].at = "not changed", ![p].fd = "none"]
    BY DEF Config!FlipFails
  <2>2. flip' = [flip EXCEPT ![p] = f]
    BY <2>1 DEF ConfigInv, Config!TypeOK
  <2> QED
    BY <2>2 DEF Config!FlipFails, Config!paths
<1>2. upsets' \in 0..MaxUpsets
  <2>1. CASE Config!Upset
    BY <2>1, UpsetIs DEF ConfigInv
  <2>2. CASE UNCHANGED upsets
    BY <2>2 DEF ConfigInv, Config!TypeOK
  <2> QED
    BY <2>1, <2>2 DEF Config!FlipFails
<1>3. flip[p] \in Flips
  BY DEF ConfigInv, Config!TypeOK, Flips
<1>4. /\ f \in Flips /\ f.at = "not changed" /\ f.raw = flip[p].raw
         /\ f.alone = flip[p].alone
  BY <1>3 DEF Flips
<1> HIDE DEF f
<1>5. flip' \in [Pis -> Flips] /\ flip'[p] = f /\ \A q \in Pis \ {p} : flip'[q] = flip[q]
  BY <1>1, <1>4 DEF ConfigInv, Config!TypeOK, Flips
<1>6. ReadGood' /\ Alone'
  BY <1>1, <1>4, <1>5 DEF ConfigInv, ReadGood, Alone, Carries
<1>7. Config!AnswerIsTrue'
  BY <1>1, <1>4, <1>5 DEF ConfigInv, Config!AnswerIsTrue, Config!Candidate, Alone
<1>8. Solo'
  BY <1>1, <1>4, <1>5 DEF ConfigInv, Solo, Carries, Config!Overlaps, Config!Writing
<1> QED
  BY <1>1, <1>2, <1>4, <1>5, <1>6, <1>7, <1>8, FlipStep DEF ConfigInv, Config!TypeOK

LEMMA EditStep ==
    ASSUME Config!BoundsAssumption, ConfigInv, NEW d \in Edits, Config!Edit(d)
    PROVE  ConfigInv'
<1>1. /\ conf' = d /\ d \in Config!Doc \cup {Config!Broken}
         /\ flip' = [q \in Pis |-> Config!Disturbed(flip[q])]
      /\ spoilt' = (spoilt \/ d = Config!Broken) /\ UNCHANGED <<draft, Config!gate>>
  BY DEF Config!Edit, Config!BoundsAssumption
<1>2. upsets' \in 0..MaxUpsets
  BY UpsetIs DEF ConfigInv, Config!Edit
<1>3. \A q \in Pis : flip[q] \in Flips
  BY DEF ConfigInv, Config!TypeOK, Flips
<1>4. \A q \in Pis : /\ flip'[q] \in Flips /\ ~flip'[q].alone
                     /\ \/ flip'[q].at = "idle"
                        \/ /\ flip[q].at \notin {"idle", "changed", "not changed"}
                           /\ flip'[q].at = flip[q].at /\ flip'[q].raw = flip[q].raw
                           /\ flip'[q].want = flip[q].want /\ flip'[q].fd = flip[q].fd
  BY <1>1, <1>3, DisturbedIs, DocsAre
<1>5. flip' \in [Pis -> Flips]
  BY <1>1, <1>4
<1>6. ReadGood' /\ Config!AnswerIsTrue' /\ Alone'
  BY <1>4 DEF ConfigInv, ReadGood, Config!AnswerIsTrue, Alone
<1>7. Solo'
  <2>1. \A q \in Pis : Config!Writing(q)' => /\ Config!Writing(q)
                                                /\ flip'[q].at = flip[q].at
                                      /\ flip'[q].raw = flip[q].raw
                                      /\ flip'[q].want = flip[q].want
                                         /\ flip'[q].fd = flip[q].fd
    BY <1>4 DEF Config!Writing
  <2>2. CASE spoilt'
    BY <2>2 DEF Solo
  <2>3. CASE ~spoilt'
    <3>1. ~spoilt /\ d \in Config!Doc
      BY <1>1, <2>3
    <3>2. \A q \in Pis : Config!Writing(q)' => Carries(flip[q], draft)
            /\ ~Config!Overlaps(q)
      BY <2>1, <3>1 DEF ConfigInv, Solo
    <3>3. \A q \in Pis : Config!Writing(q)' => Carries(flip'[q], draft')
      BY <1>1, <2>1, <3>2 DEF Carries
    <3>4. \A q \in Pis : Config!Writing(q)' => ~Config!Overlaps(q)'
      BY <2>1, <3>2 DEF Config!Overlaps
    <3> QED
      BY <1>1, <3>1, <3>3, <3>4 DEF Solo, Carries
  <2> QED
    BY <2>2, <2>3
<1>8. spoilt' \in BOOLEAN /\ \A q \in Pis : flip'[q].at # "changed"
  BY <1>1, <1>4 DEF ConfigInv, Config!TypeOK
<1> QED
  BY <1>1, <1>2, <1>5, <1>6, <1>7, <1>8, FlipStep DEF ConfigInv, Config!TypeOK

-----------------------------------------------------------------------------
(* The theorem.                                                            *)

LEMMA InitGood == Config!BoundsAssumption /\ Config!Init => ConfigInv
<1> SUFFICES ASSUME Config!BoundsAssumption, Config!Init PROVE ConfigInv
  OBVIOUS
<1>1. flip \in [Pis -> Flips] /\ \A p \in Pis : flip[p] = Config!NoFlip
  BY DocsAre DEF Config!Init
<1>2. MaxUpsets \in Nat
  BY DEF Config!BoundsAssumption
<1>3. Config!TypeOK
  <2>1. flip \in [Pis -> [at : {"idle", "read", "opened", "written", "renamed",
                               "changed", "not changed"},
                         want : BOOLEAN,
                             raw : Config!Doc \cup {Config!Empty, Config!Broken},
                         fd : {"none", "tmp", "conf", "gone"}, alone : BOOLEAN]]
    BY <1>1 DEF Flips
  <2>2. asked \in [Pis -> [at : {"none", "out", "aborted"}, again : BOOLEAN]]
    BY DEF Config!Init, Config!NoCall
  <2>3. /\ runs \in [Pis -> SUBSET Features] /\ live \in [Pis -> BOOLEAN]
        /\ last \in [Pis -> {"unread", "public", "private"}]
    BY DEF Config!Init
  <2>4. conf \in Config!Doc /\ draft = Config!NoFile /\ spoilt = FALSE /\ upsets = 0
    BY DEF Config!Init
  <2>5. conf \in Config!Doc \cup {Config!Empty, Config!Broken}
          /\ draft \in Config!Doc \cup {Config!Empty, Config!Broken, Config!NoFile}
    BY <2>4
  <2>6. spoilt \in BOOLEAN
    BY <2>4, Zenon
  <2>7. upsets \in 0..MaxUpsets
    <3>1. upsets = 0
      BY <2>4, Zenon
    <3> QED
      BY <1>2, <3>1, SMT
  <2> QED
    BY <2>1, <2>2, <2>3, <2>5, <2>6, <2>7, Zenon DEF Config!TypeOK
<1>4. Config!OutMeansPublic
  BY DEF Config!Init, Config!OutMeansPublic, Config!NoCall
<1>5. ReadGood /\ Config!OnMeansQuiet /\ Config!AnswerIsTrue /\ Alone /\ Solo
  BY <1>1, DocsAre DEF Config!Init, ReadGood, Config!OnMeansQuiet,
     Config!AnswerIsTrue, Alone, Solo, Config!Writing
<1> QED
  BY <1>3, <1>4, <1>5 DEF ConfigInv

LEMMA StepGood ==
    Config!BoundsAssumption /\ ConfigInv /\ [Config!Next]_(Config!vars) => ConfigInv'
<1> SUFFICES ASSUME Config!BoundsAssumption, ConfigInv, [Config!Next]_(Config!vars)
             PROVE  ConfigInv'
  OBVIOUS
<1>1. ASSUME NEW p \in Pis,
             \/ Config!Boundary(p) \/ Config!Ask(p) \/ Config!AnswerMalformed(p)
                \/ Config!CallEnds(p) \/ Config!SessionStarts(p)
             \/ Config!FlipOpens(p) \/ Config!FlipWrites(p) \/ Config!FlipRenames(p)
                \/ Config!FlipNotifies(p) \/ Config!FlipFails(p)
             \/ \E b \in BOOLEAN : Config!FlipReads(p, b) \/ Config!SessionEnds(p, b)
      PROVE  ConfigInv'
  BY <1>1, SessionStep, OpenStep, WriteStep, RenameStep, NotifyStep, FailStep,
     ReadStep, EndStep
<1>2. ASSUME NEW d \in Edits, Config!Edit(d) PROVE ConfigInv'
  BY <1>2, EditStep
<1>3. CASE UNCHANGED Config!vars
  <2>1. UNCHANGED <<conf, draft, flip, runs, live, last, asked, spoilt, upsets>>
    BY <1>3 DEF Config!vars, Config!paths, Config!gate
  <2>2. Config!TypeOK' /\ Config!OutMeansPublic' /\ Config!OnMeansQuiet'
    BY <2>1 DEF ConfigInv, Config!TypeOK, Config!OutMeansPublic, Config!OnMeansQuiet,
       Config!IsPrivate
  <2> QED
    BY <2>1, <2>2, FilesRest DEF ConfigInv, Config!TypeOK, Flips
<1> QED
  BY <1>1, <1>2, <1>3 DEF Config!Next

\* Private mode is what the code says of it (live-gate.ts:140-165,
\* controls.ts:37-43, :72-83, :126-131): no model call is under way while the
\* session's gate knows of private mode; once a flip has said that it is on, none
\* is and none starts; its answer is true; and the config file is never half
\* written, unless two flips overlap or an editor saved it so.
THEOREM PrivateModeIsKept == MCSpec => []PrivacySafety
<1> DEFINE Good == setup = "config" => ConfigInv
<1>1. MCInit => Good
  BY InitGood, SharedAssumption DEF MCInit
<1>2. Good /\ [MCNext]_<<vars, setup, cleanupVars, configVars>> => Good'
  <2> SUFFICES ASSUME Good, setup' = "config",
                      [MCNext]_<<vars, setup, cleanupVars, configVars>>
               PROVE  ConfigInv'
    OBVIOUS
  <2>1. setup = "config" /\ [Config!Next]_(Config!vars)
    BY DEF MCNext, StoreNext, configVars, Config!vars, Config!paths, Config!gate
  <2> QED
    BY <2>1, SharedAssumption, StepGood
<1>3. Good => PrivacySafety
  BY DEF ConfigInv, PrivacySafety, Config!PrivacySafety, Solo, Config!NeverTorn
<1> QED
  BY <1>1, <1>2, <1>3, PTL DEF MCSpec
-----------------------------------------------------------------------------
(* BoardCleanup.                                                           *)
(*                                                                         *)
(* What a delete relies on was established steps ago: that its tuple is of *)
(* the confirmed set when the user answered, that its message is eligible  *)
(* when it was read.  The invariant carries both through the run, with the *)
(* acknowledgments the command read at its start, each of which has a      *)
(* first one that is no later (AcksHaveFirst), and says when a delete can  *)
(* still be under way in private mode (GateSound).                         *)

CleanupRuns ==
    [at : {"idle", "plan", "confirm", "loop", "read", "delete"},
     kind : {"none", "dialog", "preview", "token"}, token : SUBSET Cleanup!Candidates,
     acks : [Msgs -> SUBSET (0..MaxTime)], time : 0..MaxTime,
     todo : SUBSET (Msgs \cup Cleanup!Candidates), found : SUBSET Cleanup!Candidates,
     item : SUBSET Cleanup!Candidates, seen : SUBSET Cleanup!Messages,
     deleted : SUBSET Msgs, kept : SUBSET Msgs]

AtMostOne(S) == \A v, w \in S : v = w

CleanupTyped ==
    /\ now \in 0..MaxTime
    /\ board \in [Msgs -> SUBSET Cleanup!Messages] /\ \A m \in Msgs : AtMostOne(board[m])
    /\ acks \in [Msgs -> SUBSET (0..now)] /\ firstAck \in [Msgs -> SUBSET (0..now)]
    /\ private \in BOOLEAN /\ log \in [ids : Nat, torn : BOOLEAN]
    /\ cmd \in CleanupRuns /\ shown \subseteq SUBSET Cleanup!Candidates
    /\ sent \in Nat

OnePerPath(s) == \A c, d \in s : c.msg = d.msg => c = d

RunSound ==
    /\ \A s \in shown \cup {cmd.found} : OnePerPath(s)
    /\ cmd.at = "plan" =>
         cmd.todo \subseteq Msgs /\ \A c \in cmd.found : c.msg \notin cmd.todo
    /\ cmd.at = "confirm" => cmd.kind = "dialog"
    /\ cmd.kind = "token" => cmd.token \in shown
    /\ cmd.at \in {"idle", "plan", "confirm"} => cmd.item = {}
    /\ cmd.at \in {"loop", "read", "delete"} => cmd.todo \cup cmd.item \subseteq cmd.token
    /\ AtMostOne(cmd.item) /\ AtMostOne(cmd.seen)
    /\ cmd.time =< now
    /\ cmd.at = "delete" => Cleanup!Deletable

AcksHaveFirst ==
    \A m \in Msgs : \A t \in acks[m] \cup cmd.acks[m] : \E f \in firstAck[m] : f =< t

GateSound ==
    late \in {0, 1} /\ (~private \/ cmd.at = "read" => late = 0)

DeletesTold ==
    sent =< log.ids /\ cmd.deleted \cup report.deleted \subseteq gone

CleanupInv == CleanupTyped /\ RunSound /\ AcksHaveFirst /\ GateSound /\ DeletesTold

-----------------------------------------------------------------------------
(* What surrounds the command.                                             *)

\* The run's part of the invariant rests while the run does.
LEMMA RunRests ==
    ASSUME RunSound, UNCHANGED <<cmd, shown>>, cmd.time \in Nat, now \in Nat, now' \in Nat,
           now =< now'
    PROVE  RunSound'
BY DEF RunSound, Cleanup!Deletable

LEMMA ClockStep ==
    ASSUME CleanupInv, Cleanup!Tick, SharedAssumption
    PROVE  CleanupInv'
<1>1. MaxTime \in Nat
  BY DEF SharedAssumption, Cleanup!CleanupAssumption
<1>2. /\ now \in 0..MaxTime /\ now' = now + 1 /\ now' \in 0..MaxTime
      /\ UNCHANGED <<board, acks, private, firstAck, log, cmd, shown, report, sent,
                     gone, late>>
  BY <1>1 DEF Cleanup!Tick, Cleanup!history, CleanupInv, CleanupTyped
<1>3. 0..now \subseteq 0..now' /\ now =< now'
  BY <1>1, <1>2
<1>4. CleanupTyped'
  BY <1>2, <1>3 DEF CleanupInv, CleanupTyped
<1>5. RunSound'
  BY <1>1, <1>2, <1>3, RunRests DEF CleanupInv, CleanupTyped, CleanupRuns
<1>6. AcksHaveFirst' /\ GateSound' /\ DeletesTold'
  BY <1>2 DEF CleanupInv, AcksHaveFirst, GateSound, DeletesTold
<1> QED
  BY <1>4, <1>5, <1>6 DEF CleanupInv

\* Others change the board.
LEMMA ChangeStep ==
    ASSUME CleanupInv, NEW m \in Msgs, Cleanup!Change(m), SharedAssumption
    PROVE  CleanupInv'
<1>1. MaxTime \in Nat
  BY DEF SharedAssumption, Cleanup!CleanupAssumption
<1>2. /\ UNCHANGED <<now, acks, private, firstAck, log, cmd, shown, report, sent, gone, late>>
      /\ now \in 0..MaxTime /\ now \in Nat /\ cmd.time \in Nat
      /\ board \in [Msgs -> SUBSET Cleanup!Messages]
  BY <1>1 DEF Cleanup!Change, Cleanup!history, CleanupInv, CleanupTyped, CleanupRuns
<1> DEFINE Other == [from |-> "other", created |-> now, expires |-> {0}, etag |-> 0]
<1>3. PICK v \in board[m], w \in {{}, {Other}} :
        \/ board' = [board EXCEPT ![m] = w]
        \/ board' = [board EXCEPT ![m] = {[v EXCEPT !.etag = 2]}]
  BY DEF Cleanup!Change
<1>4. Other \in Cleanup!Messages
  BY <1>1, <1>2 DEF Cleanup!Messages, Cleanup!Senders
<1>5. [v EXCEPT !.etag = 2] \in Cleanup!Messages
  BY <1>2, <1>3 DEF Cleanup!Messages
<1> HIDE DEF Other
<1>6. PICK u \in SUBSET Cleanup!Messages : AtMostOne(u) /\ board' = [board EXCEPT ![m] = u]
  BY <1>3, <1>4, <1>5 DEF AtMostOne
<1>7. CleanupTyped'
  BY <1>2, <1>6 DEF CleanupInv, CleanupTyped
<1>8. RunSound'
  BY <1>2, RunRests DEF CleanupInv
<1>9. AcksHaveFirst' /\ GateSound' /\ DeletesTold'
  BY <1>2 DEF CleanupInv, AcksHaveFirst, GateSound, DeletesTold
<1> QED
  BY <1>7, <1>8, <1>9 DEF CleanupInv

LEMMA RetainedIs ==
    ASSUME CleanupTyped
    PROVE  Cleanup!Retained(acks) \in [Msgs -> SUBSET (0..now)]
           /\ \A m \in Msgs : Cleanup!Retained(acks)[m] \subseteq acks[m]
BY DEF CleanupTyped, Cleanup!Retained

\* The consumer acknowledges, and forgets: a first acknowledgment stays, and no
\* other comes before it.
LEMMA AckStep ==
    ASSUME CleanupInv, NEW m \in Msgs, Cleanup!Acknowledge(m), SharedAssumption
    PROVE  CleanupInv'
<1> DEFINE kept == Cleanup!Retained(acks)
<1>1. MaxTime \in Nat
  BY DEF SharedAssumption, Cleanup!CleanupAssumption
<1>2. /\ UNCHANGED <<now, board, private, log, cmd, shown, report, sent, gone, late>>
      /\ now \in 0..MaxTime /\ now \in Nat /\ cmd.time \in Nat
      /\ acks' = [kept EXCEPT ![m] = {now}]
      /\ firstAck' = [firstAck EXCEPT ![m] = IF firstAck[m] = {} THEN {now} ELSE firstAck[m]]
      /\ firstAck \in [Msgs -> SUBSET (0..now)]
  BY <1>1 DEF Cleanup!Acknowledge, Cleanup!history, CleanupInv, CleanupTyped, CleanupRuns
<1>3. kept \in [Msgs -> SUBSET (0..now)] /\ \A k \in Msgs : kept[k] \subseteq acks[k]
  BY RetainedIs DEF CleanupInv
<1> HIDE DEF kept
<1>4. now \in 0..now
  BY <1>2
<1>5. CleanupTyped'
  BY <1>2, <1>3, <1>4 DEF CleanupInv, CleanupTyped
<1>6. RunSound'
  BY <1>2, RunRests DEF CleanupInv
<1>7. AcksHaveFirst'
  <2> SUFFICES ASSUME NEW k \in Msgs, NEW t \in acks'[k] \cup cmd.acks[k]
               PROVE  \E f \in firstAck'[k] : f =< t
    BY <1>2 DEF AcksHaveFirst
  <2>1. CASE t \in acks[k] \cup cmd.acks[k]
    <3>1. PICK f \in firstAck[k] : f =< t
      BY <2>1 DEF CleanupInv, AcksHaveFirst
    <3> QED
      BY <3>1, <1>2
  <2>2. CASE t \notin acks[k] \cup cmd.acks[k]
    <3>1. k = m /\ t = now
      BY <2>2, <1>2, <1>3
    <3>2. firstAck'[m] # {} /\ firstAck'[m] \subseteq 0..now
      BY <1>2, <1>4
    <3> QED
      BY <3>1, <3>2, <1>2
  <2> QED
    BY <2>1, <2>2
<1>8. GateSound' /\ DeletesTold'
  BY <1>2 DEF CleanupInv, GateSound, DeletesTold
<1> QED
  BY <1>5, <1>6, <1>7, <1>8 DEF CleanupInv

LEMMA GcStep ==
    ASSUME CleanupInv, Cleanup!LocalGc, SharedAssumption
    PROVE  CleanupInv'
<1> DEFINE kept == Cleanup!Retained(acks)
<1>1. MaxTime \in Nat
  BY DEF SharedAssumption, Cleanup!CleanupAssumption
<1>2. /\ UNCHANGED <<now, board, private, firstAck, log, cmd, shown, report, sent, gone, late>>
      /\ now \in Nat /\ cmd.time \in Nat /\ acks' = kept
  BY <1>1 DEF Cleanup!LocalGc, Cleanup!history, CleanupInv, CleanupTyped, CleanupRuns
<1>3. kept \in [Msgs -> SUBSET (0..now)] /\ \A k \in Msgs : kept[k] \subseteq acks[k]
  BY RetainedIs DEF CleanupInv
<1> HIDE DEF kept
<1>4. CleanupTyped'
  BY <1>2, <1>3 DEF CleanupInv, CleanupTyped
<1>5. RunSound'
  BY <1>2, RunRests DEF CleanupInv
<1>6. AcksHaveFirst' /\ GateSound' /\ DeletesTold'
  BY <1>2, <1>3 DEF CleanupInv, AcksHaveFirst, GateSound, DeletesTold
<1> QED
  BY <1>4, <1>5, <1>6 DEF CleanupInv

LEMMA SwitchStep ==
    ASSUME CleanupInv, Cleanup!SwitchPrivate, SharedAssumption
    PROVE  CleanupInv'
<1>1. MaxTime \in Nat
  BY DEF SharedAssumption, Cleanup!CleanupAssumption
<1>2. /\ UNCHANGED <<now, board, acks, firstAck, log, cmd, shown, report, sent, gone>>
      /\ now \in Nat /\ cmd.time \in Nat /\ late' = 0 /\ private' \in BOOLEAN
  BY <1>1 DEF Cleanup!SwitchPrivate, CleanupInv, CleanupTyped, CleanupRuns
<1>3. CleanupTyped'
  BY <1>2 DEF CleanupInv, CleanupTyped
<1>4. RunSound'
  BY <1>2, RunRests DEF CleanupInv
<1>5. AcksHaveFirst' /\ GateSound' /\ DeletesTold'
  BY <1>2 DEF CleanupInv, AcksHaveFirst, GateSound, DeletesTold
<1> QED
  BY <1>3, <1>4, <1>5 DEF CleanupInv

-----------------------------------------------------------------------------
(* The run.                                                                *)

LEMMA TimeIs ==
    ASSUME CleanupInv, SharedAssumption
    PROVE  MaxTime \in Nat /\ now \in 0..MaxTime /\ now \in Nat /\ cmd \in CleanupRuns
           /\ cmd.time \in Nat /\ cmd.time =< now
BY DEF SharedAssumption, Cleanup!CleanupAssumption, CleanupInv, CleanupTyped, CleanupRuns,
   RunSound

LEMMA IdleIs ==
    ASSUME SharedAssumption
    PROVE  /\ Cleanup!Idle \in CleanupRuns /\ Cleanup!Idle.at = "idle"
           /\ Cleanup!Idle.kind = "none" /\ Cleanup!Idle.time = 0
           /\ Cleanup!Idle.found = {} /\ Cleanup!Idle.item = {} /\ Cleanup!Idle.seen = {}
           /\ Cleanup!Idle.deleted = {} /\ Cleanup!Idle.acks = [m \in Msgs |-> {}]
BY DEF SharedAssumption, Cleanup!CleanupAssumption, Cleanup!Idle, CleanupRuns

\* A run that ends in whatever way leaves nothing to be relied on; "told" is what
\* its report calls deleted.
LEMMA EndsWell ==
    ASSUME CleanupInv, SharedAssumption, cmd' = Cleanup!Idle,
           UNCHANGED <<now, board, acks, private, firstAck, sent, gone, late>>,
           log' \in [ids : Nat, torn : BOOLEAN], log'.ids = log.ids,
           \A s \in shown' : s \in shown \cup {cmd.found},
           shown \subseteq shown',
           report'.deleted \subseteq cmd.deleted \cup report.deleted
    PROVE  CleanupInv'
<1>1. cmd'.at = "idle" /\ cmd'.kind = "none" /\ cmd'.time = 0
      /\ cmd'.found = {} /\ cmd'.item = {} /\ cmd'.seen = {}
      /\ cmd'.deleted = {} /\ (\A m \in Msgs : cmd'.acks[m] = {}) /\ cmd' \in CleanupRuns
  BY IdleIs
<1>2. now \in Nat /\ cmd.found \subseteq Cleanup!Candidates
  BY TimeIs DEF CleanupRuns
<1>3. CleanupTyped'
  BY <1>1, <1>2 DEF CleanupInv, CleanupTyped
<1>4. \A s \in shown' \cup {cmd'.found} : OnePerPath(s)
  BY <1>1 DEF CleanupInv, RunSound, OnePerPath
<1>5. RunSound'
  BY <1>1, <1>2, <1>4 DEF RunSound, AtMostOne
<1>6. AcksHaveFirst'
  BY <1>1 DEF CleanupInv, AcksHaveFirst
<1>7. GateSound' /\ DeletesTold'
  BY <1>1 DEF CleanupInv, GateSound, DeletesTold
<1> QED
  BY <1>3, <1>5, <1>6, <1>7 DEF CleanupInv

LEMMA StartStep ==
    ASSUME CleanupInv, SharedAssumption, NEW kind \in {"dialog", "preview", "token"},
           NEW token \in SUBSET Cleanup!Candidates, kind = "token" => token \in shown,
           Cleanup!Start(kind, token)
    PROVE  CleanupInv'
<1>1. /\ UNCHANGED <<now, board, acks, private, firstAck, log, shown, sent, late>>
      /\ gone' = {} /\ report'.deleted = {} /\ cmd.at = "idle"
  BY DEF Cleanup!Start, Cleanup!world, Cleanup!NoReport
<1> DEFINE there == {m \in Msgs : board[m] # {}}
<1>2. PICK read \in {acks, Cleanup!Idle.acks} :
        cmd' = [Cleanup!Idle EXCEPT !.at = "plan", !.kind = kind, !.token = token,
                                    !.acks = read, !.time = now, !.todo = there]
  BY DEF Cleanup!Start
<1>3. MaxTime \in Nat /\ now \in 0..MaxTime /\ now \in Nat
  BY TimeIs
<1>4. read \in [Msgs -> SUBSET (0..now)] /\ \A m \in Msgs : read[m] \subseteq acks[m]
  BY <1>2, IdleIs DEF CleanupInv, CleanupTyped
<1>5. read \in [Msgs -> SUBSET (0..MaxTime)]
  BY <1>3, <1>4
<1>6. there \subseteq Msgs
  OBVIOUS
<1> HIDE DEF there
<1>7. /\ cmd'.at = "plan" /\ cmd'.kind = kind /\ cmd'.token = token /\ cmd'.acks = read
      /\ cmd'.time = now /\ cmd'.todo = there /\ cmd'.found = {} /\ cmd'.item = {}
      /\ cmd'.seen = {} /\ cmd'.deleted = {} /\ cmd' \in CleanupRuns
  BY <1>2, <1>3, <1>5, <1>6, IdleIs DEF CleanupRuns
<1>8. CleanupTyped'
  BY <1>1, <1>7 DEF CleanupInv, CleanupTyped
<1>9. \A s \in shown' \cup {cmd'.found} : OnePerPath(s)
  BY <1>1, <1>7 DEF CleanupInv, RunSound, OnePerPath
<1>10. RunSound'
  BY <1>1, <1>3, <1>6, <1>7, <1>9 DEF RunSound, AtMostOne
<1>11. AcksHaveFirst'
  BY <1>1, <1>4, <1>7 DEF CleanupInv, AcksHaveFirst
<1>12. GateSound' /\ DeletesTold'
  BY <1>1, <1>7 DEF CleanupInv, GateSound, DeletesTold
<1> QED
  BY <1>8, <1>10, <1>11, <1>12 DEF CleanupInv

LEMMA CandidateTyped ==
    ASSUME NEW m \in Msgs, NEW v \in Cleanup!Messages
    PROVE  Cleanup!Candidate(m, v) \in Cleanup!Candidates /\ Cleanup!Candidate(m, v).msg = m
BY DEF Cleanup!Candidate, Cleanup!Candidates, Cleanup!Messages

LEMMA PlanStep ==
    ASSUME CleanupInv, SharedAssumption, NEW m \in Msgs, Cleanup!PlanRead(m)
    PROVE  CleanupInv'
<1>1. /\ UNCHANGED <<now, board, acks, private, firstAck, log, shown, report, sent, gone, late>>
      /\ cmd.at = "plan" /\ m \in cmd.todo
  BY DEF Cleanup!PlanRead, Cleanup!world, Cleanup!history
<1> DEFINE new == {Cleanup!Candidate(m, v) : v \in {w \in board[m] :
                     ~private /\ Cleanup!Eligible(w, cmd.acks[m], cmd.time)}}
<1>2. new \subseteq Cleanup!Candidates /\ AtMostOne(new) /\ \A c \in new : c.msg = m
  BY CandidateTyped DEF CleanupInv, CleanupTyped, AtMostOne
<1>3. PICK N \in {{}, new} :
        cmd' = [cmd EXCEPT !.todo = cmd.todo \ {m}, !.found = cmd.found \cup N]
  <2>1. CASE cmd' = [cmd EXCEPT !.todo = cmd.todo \ {m}, !.found = cmd.found \cup new]
    BY <2>1
  <2>2. CASE cmd' = [cmd EXCEPT !.todo = cmd.todo \ {m}]
    <3>1. cmd' = [cmd EXCEPT !.todo = cmd.todo \ {m}, !.found = cmd.found \cup {}]
      BY <2>2, TimeIs DEF CleanupRuns
    <3> QED
      BY <3>1
  <2> QED
    BY <2>1, <2>2 DEF Cleanup!PlanRead
<1>4. N \subseteq Cleanup!Candidates /\ AtMostOne(N) /\ \A c \in N : c.msg = m
  BY <1>2, <1>3 DEF AtMostOne
<1> HIDE DEF new
<1>5. /\ cmd'.at = "plan" /\ cmd'.kind = cmd.kind /\ cmd'.token = cmd.token
      /\ cmd'.acks = cmd.acks /\ cmd'.time = cmd.time /\ cmd'.todo = cmd.todo \ {m}
      /\ cmd'.found = cmd.found \cup N /\ cmd'.item = cmd.item /\ cmd'.seen = cmd.seen
      /\ cmd'.deleted = cmd.deleted /\ cmd' \in CleanupRuns
  BY <1>1, <1>3, <1>4, TimeIs DEF CleanupRuns
<1>6. CleanupTyped'
  BY <1>1, <1>5 DEF CleanupInv, CleanupTyped
<1>7. \A s \in shown' \cup {cmd'.found} : OnePerPath(s)
  <2>1. OnePerPath(cmd.found) /\ \A c \in cmd.found : c.msg # m
    BY <1>1 DEF CleanupInv, RunSound
  <2>2. OnePerPath(cmd.found \cup N)
    BY <2>1, <1>4 DEF OnePerPath, AtMostOne
  <2> QED
    BY <2>2, <1>1, <1>5 DEF CleanupInv, RunSound
<1>8. \A c \in cmd'.found : c.msg \notin cmd'.todo
  BY <1>1, <1>4, <1>5 DEF CleanupInv, RunSound
<1>9. cmd'.todo \subseteq Msgs
  BY <1>1, <1>5 DEF CleanupInv, RunSound
<1>10. RunSound'
  BY <1>1, <1>5, <1>7, <1>8, <1>9 DEF CleanupInv, RunSound
<1>11. AcksHaveFirst' /\ GateSound' /\ DeletesTold'
  BY <1>1, <1>5 DEF CleanupInv, AcksHaveFirst, GateSound, DeletesTold
<1> QED
  BY <1>6, <1>10, <1>11 DEF CleanupInv

\* The confirmed set becomes what is to be deleted.
LEMMA ExecuteStep ==
    ASSUME CleanupInv, SharedAssumption, cmd.at \in {"plan", "confirm"},
           cmd' = [cmd EXCEPT !.at = "loop", !.todo = cmd.found, !.time = now,
                              !.token = cmd.found],
           cmd.kind = "token" => cmd.token = cmd.found, ~private,
           UNCHANGED <<now, board, acks, private, firstAck, log, shown, report, sent, gone,
                       late>>
    PROVE  CleanupInv'
<1>1. MaxTime \in Nat /\ now \in 0..MaxTime /\ now \in Nat /\ cmd \in CleanupRuns
  BY TimeIs
<1>2. /\ cmd'.at = "loop" /\ cmd'.kind = cmd.kind /\ cmd'.token = cmd.found
      /\ cmd'.acks = cmd.acks /\ cmd'.time = now /\ cmd'.todo = cmd.found
      /\ cmd'.found = cmd.found /\ cmd'.item = cmd.item /\ cmd'.seen = cmd.seen
      /\ cmd'.deleted = cmd.deleted /\ cmd' \in CleanupRuns
  BY <1>1 DEF CleanupRuns
<1>3. CleanupTyped'
  BY <1>2 DEF CleanupInv, CleanupTyped
<1>4. cmd'.kind = "token" => cmd'.token \in shown'
  BY <1>2 DEF CleanupInv, RunSound
<1>5. cmd'.todo \cup cmd'.item \subseteq cmd'.token
  BY <1>2 DEF CleanupInv, RunSound
<1>6. \A s \in shown' \cup {cmd'.found} : OnePerPath(s)
  BY <1>2 DEF CleanupInv, RunSound
<1>7. AtMostOne(cmd'.item) /\ AtMostOne(cmd'.seen)
  BY <1>2 DEF CleanupInv, RunSound
<1>8. RunSound'
  BY <1>1, <1>2, <1>4, <1>5, <1>6, <1>7 DEF RunSound
<1>9. AcksHaveFirst' /\ GateSound' /\ DeletesTold'
  BY <1>2 DEF CleanupInv, AcksHaveFirst, GateSound, DeletesTold
<1> QED
  BY <1>3, <1>8, <1>9 DEF CleanupInv

LEMMA PlannedStep ==
    ASSUME CleanupInv, SharedAssumption, Cleanup!Planned
    PROVE  CleanupInv'
<1>1. /\ UNCHANGED <<now, board, acks, private, firstAck, log, report, sent, gone, late>>
      /\ cmd.at = "plan"
  BY DEF Cleanup!Planned, Cleanup!world, Cleanup!history
<1>2. cmd \in CleanupRuns /\ log \in [ids : Nat, torn : BOOLEAN]
  BY TimeIs DEF CleanupInv, CleanupTyped
<1>3. CASE cmd.kind = "dialog" /\ cmd' = [cmd EXCEPT !.at = "confirm"] /\ UNCHANGED shown
  <2>1. /\ cmd'.at = "confirm" /\ cmd'.kind = cmd.kind /\ cmd'.token = cmd.token
        /\ cmd'.acks = cmd.acks /\ cmd'.time = cmd.time
        /\ cmd'.found = cmd.found /\ cmd'.item = cmd.item /\ cmd'.seen = cmd.seen
        /\ cmd'.deleted = cmd.deleted /\ cmd' \in CleanupRuns
    BY <1>2, <1>3 DEF CleanupRuns
  <2>2. CleanupTyped'
    BY <1>1, <1>3, <2>1 DEF CleanupInv, CleanupTyped
  <2>3. RunSound'
    BY <1>1, <1>3, <2>1 DEF CleanupInv, RunSound
  <2>4. AcksHaveFirst' /\ GateSound' /\ DeletesTold'
    BY <1>1, <2>1 DEF CleanupInv, AcksHaveFirst, GateSound, DeletesTold
  <2> QED
    BY <2>2, <2>3, <2>4 DEF CleanupInv
<1>4. CASE shown' = shown \cup {cmd.found} /\ cmd' = Cleanup!Idle
  BY <1>1, <1>2, <1>4, EndsWell
<1>5. CASE /\ cmd.kind = "token" /\ UNCHANGED shown
           /\ cmd' = (IF Cleanup!TokenMatches /\ ~private THEN Cleanup!Execute ELSE Cleanup!Idle)
  <2>1. CASE Cleanup!TokenMatches /\ ~private
    <3>1. cmd.token = cmd.found
      BY <2>1 DEF Cleanup!TokenMatches
    <3>2. cmd' = [cmd EXCEPT !.at = "loop", !.todo = cmd.found, !.time = now]
      BY <1>5, <2>1 DEF Cleanup!Execute
    <3>3. cmd' = [cmd EXCEPT !.at = "loop", !.todo = cmd.found, !.time = now,
                             !.token = cmd.found]
      BY <1>2, <3>1, <3>2 DEF CleanupRuns
    <3> QED
      BY <1>1, <1>5, <2>1, <3>1, <3>3, ExecuteStep
  <2>2. CASE ~(Cleanup!TokenMatches /\ ~private)
    <3>1. cmd' = Cleanup!Idle
      BY <1>5, <2>2
    <3> QED
      BY <1>1, <1>2, <1>5, <3>1, EndsWell
  <2> QED
    BY <2>1, <2>2
<1> QED
  BY <1>3, <1>4, <1>5 DEF Cleanup!Planned

LEMMA AnswerStep ==
    ASSUME CleanupInv, SharedAssumption, Cleanup!Answer
    PROVE  CleanupInv'
<1>1. /\ UNCHANGED <<now, board, acks, private, firstAck, log, shown, report, sent, gone, late>>
      /\ cmd.at = "confirm" /\ cmd.kind = "dialog"
  BY DEF Cleanup!Answer, Cleanup!world, Cleanup!history, CleanupInv, RunSound
<1>2. cmd \in CleanupRuns /\ log \in [ids : Nat, torn : BOOLEAN]
  BY TimeIs DEF CleanupInv, CleanupTyped
<1>3. CASE cmd' = [Cleanup!Execute EXCEPT !.token = cmd.found] /\ ~private
  <2>1. cmd' = [cmd EXCEPT !.at = "loop", !.todo = cmd.found, !.time = now,
                           !.token = cmd.found]
    BY <1>2, <1>3 DEF Cleanup!Execute, CleanupRuns
  <2> QED
    BY <1>1, <1>3, <2>1, ExecuteStep
<1>4. CASE cmd' = Cleanup!Idle
  BY <1>1, <1>2, <1>4, EndsWell
<1> QED
  BY <1>3, <1>4 DEF Cleanup!Answer

LEMMA CheckStep ==
    ASSUME CleanupInv, SharedAssumption, NEW c \in cmd.todo, Cleanup!Check(c)
    PROVE  CleanupInv'
<1>1. /\ UNCHANGED <<now, board, acks, private, firstAck, log, shown, sent, gone, late>>
      /\ cmd.at = "loop"
  BY DEF Cleanup!Check, Cleanup!world, Cleanup!history
<1>2. cmd \in CleanupRuns /\ log \in [ids : Nat, torn : BOOLEAN]
      /\ cmd.token \subseteq Cleanup!Candidates
  BY TimeIs DEF CleanupInv, CleanupTyped, CleanupRuns
<1>3. c \in cmd.token /\ c \in Cleanup!Candidates
  BY <1>1, <1>2 DEF CleanupInv, RunSound
<1>4. c.msg \in Msgs
  BY <1>3 DEF Cleanup!Candidates
<1>5. board[c.msg] \subseteq Cleanup!Messages /\ AtMostOne(board[c.msg])
  BY <1>4 DEF CleanupInv, CleanupTyped
<1>6. CASE Cleanup!EndRun(FALSE)
  <2>1. cmd' = Cleanup!Idle /\ report'.deleted = cmd.deleted
    BY <1>6 DEF Cleanup!EndRun, Cleanup!Told
  <2> QED
    BY <1>1, <1>2, <2>1, EndsWell
<1>7. CASE /\ ~private /\ UNCHANGED report
           /\ cmd' = [cmd EXCEPT !.todo = cmd.todo \ {c}, !.at = "read", !.item = {c},
                                 !.seen = board[c.msg]]
  <2>1. /\ cmd'.at = "read" /\ cmd'.kind = cmd.kind /\ cmd'.token = cmd.token
        /\ cmd'.acks = cmd.acks /\ cmd'.time = cmd.time /\ cmd'.todo = cmd.todo \ {c}
        /\ cmd'.found = cmd.found /\ cmd'.item = {c} /\ cmd'.seen = board[c.msg]
        /\ cmd'.deleted = cmd.deleted /\ cmd' \in CleanupRuns
    BY <1>2, <1>3, <1>5, <1>7 DEF CleanupRuns
  <2>2. CleanupTyped'
    BY <1>1, <2>1 DEF CleanupInv, CleanupTyped
  <2>3. AtMostOne(cmd'.item) /\ AtMostOne(cmd'.seen)
    BY <1>5, <2>1 DEF AtMostOne
  <2>4. RunSound'
    BY <1>1, <1>3, <2>1, <2>3 DEF CleanupInv, RunSound
  <2>5. AcksHaveFirst' /\ GateSound' /\ DeletesTold'
    BY <1>1, <1>7, <2>1 DEF CleanupInv, AcksHaveFirst, GateSound, DeletesTold
  <2> QED
    BY <2>2, <2>4, <2>5 DEF CleanupInv
<1>8. CASE /\ UNCHANGED report
           /\ cmd' = [cmd EXCEPT !.todo = cmd.todo \ {c}, !.kept = cmd.kept \cup {c.msg}]
  <2>1. /\ cmd'.at = cmd.at /\ cmd'.kind = cmd.kind /\ cmd'.token = cmd.token
        /\ cmd'.acks = cmd.acks /\ cmd'.time = cmd.time /\ cmd'.todo = cmd.todo \ {c}
        /\ cmd'.found = cmd.found /\ cmd'.item = cmd.item /\ cmd'.seen = cmd.seen
        /\ cmd'.deleted = cmd.deleted /\ cmd' \in CleanupRuns
    BY <1>2, <1>4, <1>8 DEF CleanupRuns
  <2>2. CleanupTyped'
    BY <1>1, <2>1 DEF CleanupInv, CleanupTyped
  <2>3. RunSound'
    BY <1>1, <2>1 DEF CleanupInv, RunSound
  <2>4. AcksHaveFirst' /\ GateSound' /\ DeletesTold'
    BY <1>1, <1>8, <2>1 DEF CleanupInv, AcksHaveFirst, GateSound, DeletesTold
  <2> QED
    BY <2>2, <2>3, <2>4 DEF CleanupInv
<1> QED
  BY <1>6, <1>7, <1>8 DEF Cleanup!Check

LEMMA SkipStep ==
    ASSUME CleanupInv, SharedAssumption, Cleanup!Skip
    PROVE  CleanupInv'
<1>1. /\ UNCHANGED <<now, board, acks, private, firstAck, log, shown, report, sent, gone, late>>
      /\ cmd.at = "read" /\ cmd \in CleanupRuns
      /\ cmd' = [cmd EXCEPT !.at = "loop", !.kept = cmd.kept \cup Cleanup!Item, !.item = {},
                            !.seen = {}]
  BY TimeIs DEF Cleanup!Skip, Cleanup!world, Cleanup!history
<1>2. Cleanup!Item \subseteq Msgs
  BY <1>1 DEF Cleanup!Item, CleanupRuns, Cleanup!Candidates
<1>3. /\ cmd'.at = "loop" /\ cmd'.kind = cmd.kind /\ cmd'.token = cmd.token
      /\ cmd'.acks = cmd.acks /\ cmd'.time = cmd.time /\ cmd'.todo = cmd.todo
      /\ cmd'.found = cmd.found /\ cmd'.item = {} /\ cmd'.seen = {}
      /\ cmd'.deleted = cmd.deleted /\ cmd' \in CleanupRuns
  BY <1>1, <1>2 DEF CleanupRuns
<1>4. CleanupTyped'
  BY <1>1, <1>3 DEF CleanupInv, CleanupTyped
<1>5. RunSound'
  BY <1>1, <1>3 DEF CleanupInv, RunSound, AtMostOne
<1>6. AcksHaveFirst' /\ GateSound' /\ DeletesTold'
  BY <1>1, <1>3 DEF CleanupInv, AcksHaveFirst, GateSound, DeletesTold
<1> QED
  BY <1>4, <1>5, <1>6 DEF CleanupInv

LEMMA SendStep ==
    ASSUME CleanupInv, SharedAssumption, Cleanup!Send
    PROVE  CleanupInv'
<1>1. /\ UNCHANGED <<now, board, acks, private, firstAck, shown, report, gone>>
      /\ cmd.at = "read" /\ cmd \in CleanupRuns /\ Cleanup!Deletable
      /\ log \in [ids : Nat, torn : BOOLEAN] /\ sent \in Nat /\ late = 0
  BY TimeIs DEF Cleanup!Send, Cleanup!world, CleanupInv, CleanupTyped, GateSound
<1>2. CASE /\ log' = [log EXCEPT !.ids = log.ids + 1] /\ cmd' = [cmd EXCEPT !.at = "delete"]
           /\ sent' = sent + 1 /\ late' = (IF private THEN late + 1 ELSE late)
  <2>1. /\ cmd'.at = "delete" /\ cmd'.kind = cmd.kind /\ cmd'.token = cmd.token
        /\ cmd'.acks = cmd.acks /\ cmd'.time = cmd.time /\ cmd'.todo = cmd.todo
        /\ cmd'.found = cmd.found /\ cmd'.item = cmd.item /\ cmd'.seen = cmd.seen
        /\ cmd'.deleted = cmd.deleted /\ cmd' \in CleanupRuns
    BY <1>1, <1>2 DEF CleanupRuns
  <2>2. log' \in [ids : Nat, torn : BOOLEAN] /\ log'.ids = log.ids + 1 /\ sent' \in Nat
    BY <1>1, <1>2
  <2>3. CleanupTyped'
    BY <1>1, <2>1, <2>2 DEF CleanupInv, CleanupTyped
  <2>4. Cleanup!Deletable'
    BY <1>1, <2>1 DEF Cleanup!Deletable
  <2>5. RunSound'
    BY <1>1, <2>1, <2>4 DEF CleanupInv, RunSound
  <2>6. AcksHaveFirst' /\ GateSound'
    BY <1>1, <1>2, <2>1 DEF CleanupInv, AcksHaveFirst, GateSound
  <2>7. DeletesTold'
    BY <1>1, <1>2, <2>1, <2>2 DEF CleanupInv, DeletesTold
  <2> QED
    BY <2>3, <2>5, <2>6, <2>7 DEF CleanupInv
<1>3. CASE /\ log' \in {log, [log EXCEPT !.torn = TRUE]} /\ cmd' = Cleanup!Idle
           /\ UNCHANGED <<sent, late>>
  <2>1. log' \in [ids : Nat, torn : BOOLEAN] /\ log'.ids = log.ids
    BY <1>1, <1>3
  <2> QED
    BY <1>1, <1>3, <2>1, EndsWell
<1> QED
  BY <1>2, <1>3 DEF Cleanup!Send

LEMMA ArriveStep ==
    ASSUME CleanupInv, SharedAssumption, Cleanup!Arrive
    PROVE  CleanupInv'
<1>1. /\ UNCHANGED <<now, acks, private, firstAck, log, shown, report, sent, late>>
      /\ cmd.at = "delete" /\ cmd \in CleanupRuns
      /\ board' = [m \in Msgs |-> IF m \in Cleanup!Item THEN {} ELSE board[m]]
      /\ gone' = gone \cup {m \in Cleanup!Item : board[m] # {}}
  BY TimeIs DEF Cleanup!Arrive
<1>2. Cleanup!Item \subseteq Msgs
  BY <1>1 DEF Cleanup!Item, CleanupRuns, Cleanup!Candidates
<1>3. PICK D \in SUBSET Cleanup!Item, K \in SUBSET Cleanup!Item :
        /\ cmd' = [cmd EXCEPT !.at = "loop", !.item = {}, !.seen = {},
                              !.deleted = cmd.deleted \cup D, !.kept = cmd.kept \cup K]
        /\ \A m \in D : board[m] # {}
  <2>1. CASE /\ \A m \in Cleanup!Item : board[m] # {}
             /\ cmd' = [cmd EXCEPT !.at = "loop", !.item = {}, !.seen = {},
                                   !.deleted = cmd.deleted \cup Cleanup!Item]
    <3>1. cmd' = [cmd EXCEPT !.at = "loop", !.item = {}, !.seen = {},
                             !.deleted = cmd.deleted \cup Cleanup!Item,
                             !.kept = cmd.kept \cup {}]
      BY <1>1, <2>1 DEF CleanupRuns
    <3>2. Cleanup!Item \in SUBSET Cleanup!Item /\ {} \in SUBSET Cleanup!Item
      OBVIOUS
    <3> QED
      BY <2>1, <3>1, <3>2, Zenon
  <2>2. CASE cmd' = [cmd EXCEPT !.at = "loop", !.item = {}, !.seen = {},
                                !.kept = cmd.kept \cup Cleanup!Item]
    <3>1. cmd' = [cmd EXCEPT !.at = "loop", !.item = {}, !.seen = {},
                             !.deleted = cmd.deleted \cup {},
                             !.kept = cmd.kept \cup Cleanup!Item]
      BY <1>1, <2>2 DEF CleanupRuns
    <3> QED
      BY <3>1
  <2> QED
    BY <2>1, <2>2 DEF Cleanup!Arrive
<1>4. /\ cmd'.at = "loop" /\ cmd'.kind = cmd.kind /\ cmd'.token = cmd.token
      /\ cmd'.acks = cmd.acks /\ cmd'.time = cmd.time /\ cmd'.todo = cmd.todo
      /\ cmd'.found = cmd.found /\ cmd'.item = {} /\ cmd'.seen = {}
      /\ cmd'.deleted = cmd.deleted \cup D /\ cmd' \in CleanupRuns
  BY <1>1, <1>2, <1>3 DEF CleanupRuns
<1>5. CleanupTyped'
  BY <1>1, <1>4 DEF CleanupInv, CleanupTyped, AtMostOne
<1>6. RunSound'
  BY <1>1, <1>4 DEF CleanupInv, RunSound, AtMostOne
<1>7. AcksHaveFirst' /\ GateSound'
  BY <1>1, <1>4 DEF CleanupInv, AcksHaveFirst, GateSound
<1>8. DeletesTold'
  BY <1>1, <1>3, <1>4 DEF CleanupInv, DeletesTold
<1> QED
  BY <1>5, <1>6, <1>7, <1>8 DEF CleanupInv

LEMMA RunEnds ==
    ASSUME CleanupInv, SharedAssumption, Cleanup!Finish \/ Cleanup!Crash
    PROVE  CleanupInv'
<1>1. /\ UNCHANGED <<now, board, acks, private, firstAck, log, shown, sent, gone, late>>
      /\ cmd' = Cleanup!Idle /\ report'.deleted \subseteq cmd.deleted \cup report.deleted
  BY DEF Cleanup!Finish, Cleanup!Crash, Cleanup!EndRun, Cleanup!Told, Cleanup!world,
     Cleanup!history
<1>2. log \in [ids : Nat, torn : BOOLEAN]
  BY DEF CleanupInv, CleanupTyped
<1> QED
  BY <1>1, <1>2, EndsWell

LEMMA CleanupInit ==
    ASSUME SharedAssumption, Cleanup!Init
    PROVE  CleanupInv
<1>1. /\ now = 0 /\ acks = [m \in Msgs |-> {}] /\ firstAck = acks /\ private = FALSE
      /\ log = [ids |-> 0, torn |-> FALSE] /\ cmd = Cleanup!Idle /\ shown = {}
      /\ report.deleted = {} /\ sent = 0 /\ gone = {} /\ late = 0
      /\ board \in [Msgs -> {{v} : v \in Posted}]
  BY DEF Cleanup!Init, Cleanup!NoReport
<1>2. /\ cmd.at = "idle" /\ cmd.kind = "none" /\ cmd.time = 0
      /\ cmd.found = {} /\ cmd.item = {} /\ cmd.seen = {}
      /\ cmd.deleted = {} /\ (\A m \in Msgs : cmd.acks[m] = {}) /\ cmd \in CleanupRuns
  BY <1>1, IdleIs
<1>3. MaxTime \in Nat /\ Posted \subseteq Cleanup!Messages
  BY DEF SharedAssumption, Cleanup!CleanupAssumption
<1>4. board \in [Msgs -> SUBSET Cleanup!Messages] /\ \A m \in Msgs : AtMostOne(board[m])
  BY <1>1, <1>3 DEF AtMostOne
<1>5. acks \in [Msgs -> SUBSET (0..now)] /\ firstAck \in [Msgs -> SUBSET (0..now)]
  BY <1>1
<1>6. log \in [ids : Nat, torn : BOOLEAN]
  BY <1>1
<1>7. CleanupTyped
  <2>1. now \in 0..MaxTime /\ sent \in Nat /\ private \in BOOLEAN
    <3>1. now \in 0..MaxTime /\ sent \in Nat
      BY <1>1, <1>3
    <3>2. private \in BOOLEAN
      BY <1>1, Zenon
    <3> QED
      BY <3>1, <3>2
  <2>2. shown \subseteq SUBSET Cleanup!Candidates /\ cmd \in CleanupRuns
    BY <1>1, <1>2
  <2> QED
    BY <1>4, <1>5, <1>6, <2>1, <2>2 DEF CleanupTyped
<1>8. RunSound
  BY <1>1, <1>2 DEF RunSound, AtMostOne, OnePerPath
<1>9. AcksHaveFirst /\ GateSound /\ DeletesTold
  BY <1>1, <1>2 DEF AcksHaveFirst, GateSound, DeletesTold
<1> QED
  BY <1>7, <1>8, <1>9 DEF CleanupInv

LEMMA CleanupStep ==
    ASSUME CleanupInv, SharedAssumption, [Cleanup!Next]_(Cleanup!vars)
    PROVE  CleanupInv'
<1>1. CASE UNCHANGED Cleanup!vars
  <2>1. UNCHANGED <<now, board, acks, private, firstAck, log, cmd, shown, report, sent, gone,
                    late>>
    BY <1>1 DEF Cleanup!vars
  <2>2. CleanupTyped'
    BY <2>1 DEF CleanupInv, CleanupTyped
  <2>3. RunSound'
    BY <2>1, TimeIs, RunRests DEF CleanupInv
  <2> QED
    BY <2>1, <2>2, <2>3 DEF CleanupInv, AcksHaveFirst, GateSound, DeletesTold
<1>2. CASE \E t \in shown : Cleanup!Start("token", t)
  <2>1. shown \subseteq SUBSET Cleanup!Candidates
    BY DEF CleanupInv, CleanupTyped
  <2> QED
    BY <1>2, <2>1, StartStep
<1>3. CASE Cleanup!Start("dialog", {}) \/ Cleanup!Start("preview", {})
  BY <1>3, StartStep
<1>4. CASE \E m \in Msgs : Cleanup!Change(m) \/ Cleanup!Acknowledge(m)
  BY <1>4, ChangeStep, AckStep
<1> QED
  BY <1>1, <1>2, <1>3, <1>4, ClockStep, GcStep, SwitchStep, PlanStep, PlannedStep,
     AnswerStep, CheckStep, SkipStep, SendStep, ArriveStep, RunEnds DEF Cleanup!Next

LEMMA AtMostOneIs == ASSUME NEW S, AtMostOne(S) PROVE Cardinality(S) =< 1
<1>1. CASE S = {}
  BY <1>1, FS_EmptySet
<1>2. CASE S # {}
  <2>1. PICK x0 \in S : S = {x0}
    BY <1>2 DEF AtMostOne
  <2>2. Cardinality({x0}) = 1
    BY FS_Singleton, Zenon
  <2> QED
    BY <2>1, <2>2
<1> QED
  BY <1>1, <1>2

LEMMA CardIs == ASSUME NEW S PROVE Cleanup!Cardinality(S) = Cardinality(S)
BY DEF Cleanup!Cardinality, Cardinality

LEMMA CleanupHolds ==
    ASSUME CleanupInv, SharedAssumption
    PROVE  Cleanup!CleanupSafety
<1>1. MaxTime \in Nat /\ now \in 0..MaxTime /\ cmd \in CleanupRuns /\ cmd.time \in Nat
      /\ now \in Nat /\ cmd.time =< now /\ Grace \in Nat
  BY TimeIs DEF SharedAssumption, Cleanup!CleanupAssumption
<1>2. Cleanup!TypeOK
  <2>1. \A m \in Msgs : Cleanup!Cardinality(board[m]) =< 1
    BY AtMostOneIs, CardIs DEF CleanupInv, CleanupTyped
  <2>2. acks \in [Msgs -> SUBSET (0..MaxTime)]
    BY <1>1 DEF CleanupInv, CleanupTyped
  <2>3. cmd.at \in {"loop", "read", "delete"} =>
          cmd.todo \cup cmd.item \subseteq Cleanup!Candidates
    BY <1>1 DEF CleanupInv, RunSound, CleanupRuns
  <2>4. \A s \in shown \cup {cmd.found} :
          s \subseteq Cleanup!Candidates /\ \A c, d \in s : c.msg = d.msg => c = d
    BY <1>1 DEF CleanupInv, CleanupTyped, RunSound, CleanupRuns, OnePerPath
  <2>5. cmd.at \in {"idle", "plan", "confirm", "loop", "read", "delete"}
    BY <1>1 DEF CleanupRuns
  <2> QED
    BY <2>1, <2>2, <2>3, <2>4, <2>5 DEF CleanupInv, CleanupTyped, Cleanup!TypeOK
<1>3. ASSUME cmd.at = "delete", NEW c \in cmd.item
      PROVE  \E v \in cmd.seen : /\ Cleanup!Bound(c, v)
                                 /\ Cleanup!Eligible(v, cmd.acks[c.msg], cmd.time)
                                 /\ \A w \in cmd.seen : w = v
  BY <1>3 DEF CleanupInv, RunSound, AtMostOne, Cleanup!Deletable
<1>4. Cleanup!OnlyConfirmed
  <2> SUFFICES ASSUME cmd.at = "delete", NEW c \in cmd.item
               PROVE  /\ c \in cmd.token
                      /\ cmd.kind = "token" => cmd.token \in shown
                      /\ \E v \in cmd.seen :
                           Cleanup!Candidate(c.msg,
                             [v EXCEPT !.etag = IF c.etag = 0 THEN 0 ELSE v.etag]) = c
    BY DEF Cleanup!OnlyConfirmed
  <2>1. c \in cmd.token /\ (cmd.kind = "token" => cmd.token \in shown)
    BY DEF CleanupInv, RunSound
  <2>2. PICK v \in cmd.seen : Cleanup!Bound(c, v)
    BY <1>3
  <2>3. c \in Cleanup!Candidates /\ v \in Cleanup!Messages
    BY <1>1, <2>2 DEF CleanupRuns
  <2>4. Cleanup!Candidate(c.msg, [v EXCEPT !.etag = IF c.etag = 0 THEN 0 ELSE v.etag]) = c
    BY <2>2, <2>3 DEF Cleanup!Candidate, Cleanup!Bound, Cleanup!Candidates, Cleanup!Messages
  <2> QED
    BY <2>1, <2>4
<1>5. Cleanup!SettledLongAgo
  <2> SUFFICES ASSUME cmd.at = "delete", NEW c \in cmd.item, NEW v \in cmd.seen
               PROVE  /\ v.from = "own"
                      /\ \E t \in v.expires : now > t + Grace
                      /\ \E t \in firstAck[c.msg] : now > t + Grace
    BY DEF Cleanup!SettledLongAgo
  <2>1. Cleanup!Eligible(v, cmd.acks[c.msg], cmd.time)
    BY <1>3
  <2>2. c.msg \in Msgs /\ v.expires \subseteq Nat
    BY <1>1 DEF CleanupRuns, Cleanup!Candidates, Cleanup!Messages
  <2>3. v.from = "own" /\ \E t \in v.expires : now > t + Grace
    BY <1>1, <2>1, <2>2 DEF Cleanup!Eligible
  <2>4. PICK a \in cmd.acks[c.msg] : cmd.time > a + Grace
    BY <2>1 DEF Cleanup!Eligible
  <2>5. PICK f \in firstAck[c.msg] : f =< a
    BY <2>2, <2>4 DEF CleanupInv, AcksHaveFirst
  <2>6. a \in Nat /\ f \in Nat
    BY <1>1, <2>2, <2>4, <2>5 DEF CleanupInv, CleanupTyped, CleanupRuns
  <2> QED
    BY <1>1, <2>3, <2>4, <2>5, <2>6
<1>6. Cleanup!OneAfterPrivate /\ Cleanup!LoggedFirst /\ Cleanup!ReportedAreGone
  BY DEF CleanupInv, GateSound, DeletesTold, Cleanup!OneAfterPrivate, Cleanup!LoggedFirst,
     Cleanup!ReportedAreGone
<1> QED
  BY <1>2, <1>4, <1>5, <1>6 DEF Cleanup!CleanupSafety

\* A cleanup deletes only what was confirmed and read again, of this agent, and
\* expired and acknowledged for longer than the grace; at most one delete follows
\* the switch to private mode; each is in the log before it is sent, and what the
\* report calls deleted was removed by this run (cleanup-execute.ts:202-342,
\* cleanup-rules.ts:55-125, board-commands.ts:258-267): whatever others do to the
\* board, however often the acknowledgments are pruned, and wherever a call fails.
THEOREM CleanupIsSafe == MCSpec => []CleanupSafety
<1> DEFINE Sound == setup = "cleanup" => CleanupInv
<1>1. MCInit => Sound
  BY CleanupInit, SharedAssumption DEF MCInit
<1>2. Sound /\ [MCNext]_<<vars, setup, cleanupVars, configVars>> => Sound'
  <2> SUFFICES ASSUME Sound, setup' = "cleanup",
                      [MCNext]_<<vars, setup, cleanupVars, configVars>>
               PROVE  CleanupInv'
    OBVIOUS
  <2>1. setup = "cleanup" /\ [Cleanup!Next]_(Cleanup!vars)
    BY DEF MCNext, StoreNext, cleanupVars, Cleanup!vars
  <2> QED
    BY <2>1, SharedAssumption, CleanupStep
<1>3. Sound => CleanupSafety
  BY CleanupHolds, SharedAssumption DEF CleanupSafety
<1> QED
  BY <1>1, <1>2, <1>3, PTL DEF MCSpec
=============================================================================
