--------------------------- MODULE ObserverProofs ---------------------------
(***************************************************************************)
(* The observer, for any sessions, sizes, budgets and bounds: theorems of  *)
(* ObserverScheduler, where one runtime follows another over the two       *)
(* files, and of ObserverHandover, where the schedulers of ended sessions  *)
(* go on writing them.                                                     *)
(*                                                                         *)
(* First, that only accounted entries are consumed and pending batches are *)
(* disjoint.  The inductive invariant adds what the accepting run relies   *)
(* on across its writes - the entries about to be consumed are already     *)
(* claimed by an accepted job, or recorded as gone - and that the next     *)
(* opId is fresh for the queue in memory and for the one a restart would   *)
(* read.                                                                   *)
(*                                                                         *)
(* Then, what the model is called with, and how often.  That invariant is  *)
(* about attribution.  An entry may be put under a batch in four places:   *)
(* the file, the memory of the runtime that is up, the memories of the     *)
(* schedulers before it, the jobs accepted so far.  Wherever it is, it is  *)
(* the same batch, and the runtime that is up knows of it: it holds the    *)
(* entry in that batch or has it consumed.  That is what makes an entry    *)
(* which that runtime takes up, or classifies, one that nobody else has.   *)
(* A step of it may only Advance; a step of another scheduler only writes  *)
(* back what is attributed already; and a session change preserves it      *)
(* exactly when the files lack nothing.                                    *)
(***************************************************************************)
EXTENDS ObserverHandover, FiniteSetTheorems, TLAPS

Fresh == \A o \in Ops : o \in pending \/ file[o] # {} => o < nextOp
Settled == flight.at = "consuming" => entryIds[flight.op] \subseteq Claimed \cup gone
Running == flight.at # "idle" => Len(chain) > 0

IInv == /\ IsFiniteSet(jobs)
        /\ ConsumedIsAccounted /\ BatchesDisjoint
        /\ Fresh /\ Settled /\ Running

(****************************** the operators ******************************)

LEMMA CandidatesType ==
    ASSUME TypeOK
    PROVE  /\ Present \subseteq Entries
           /\ Candidates \subseteq Entries
           /\ \A e \in Candidates, o \in pending : e \notin entryIds[o]
<1>1. DOMAIN log = 1 .. Len(log) /\ Len(log) \in Nat /\ Len(log) <= MaxEntries
  BY DEF TypeOK
<1>2. Present \subseteq Entries
  BY <1>1, SchedulerAssumption DEF Present, Entries
<1> QED
  BY <1>2 DEF Candidates

LEMMA BatchType == \A C : BatchOf(C) \subseteq C
BY DEF BatchOf

LEMMA OrderType ==
    ASSUME NEW S \in SUBSET Ops, NEW s \in InOrder(S)
    PROVE  s \in Seq(Ops)
<1>1. IsFiniteSet(Ops)
  BY FS_Interval, SchedulerAssumption DEF Ops
<1>2. IsFiniteSet(S) /\ Cardinality(S) \in Nat
  BY <1>1, FS_Subset, FS_CardinalityType
<1>3. s \in [1 .. Cardinality(S) -> S]
  BY DEF InOrder
<1> QED
  BY <1>2, <1>3

LEMMA EnqueuedType ==
    ASSUME NEW q \in Seq(Ops), NEW o \in Ops
    PROVE  Enqueued(q, o) \in Seq(Ops) /\ Len(Enqueued(q, o)) >= Len(q)
BY DEF Enqueued

LEMMA WriteType ==
    ASSUME TypeOK, NEW ok \in BOOLEAN, Write(ok)
    PROVE  faults' \in Nat
BY DEF TypeOK, Write

LEMMA SaveType ==
    ASSUME TypeOK, NEW ok \in BOOLEAN, SaveBatches(ok),
           pending' \in SUBSET Ops, entryIds' \in [Ops -> SUBSET Entries]
    PROVE  /\ faults' \in Nat
           /\ file' \in [Ops -> SUBSET Entries]
           /\ file' = file \/ \A o \in Ops : file'[o] = IF o \in pending' THEN entryIds'[o] ELSE {}
BY WriteType DEF TypeOK, SaveBatches, AsSaved

LEMMA MarkType ==
    ASSUME TypeOK, NEW S \in SUBSET Entries, NEW ok \in BOOLEAN, MarkConsumed(S, ok)
    PROVE  /\ consumed' \in SUBSET Entries /\ registry' \in SUBSET Entries
           /\ faults' \in Nat
           /\ consumed' \cup registry' \subseteq consumed \cup registry \cup S
<1>1. consumed' \in SUBSET Entries /\ registry' \in SUBSET Entries
      /\ consumed' \cup registry' \subseteq consumed \cup registry \cup S
  BY DEF TypeOK, MarkConsumed, Write
<1>2. faults' \in Nat
  BY WriteType DEF TypeOK, MarkConsumed
<1> QED
  BY <1>1, <1>2

LEMMA ClassifyType ==
    ASSUME TypeOK, NEW ok \in BOOLEAN, ClassifyPrivate(ok)
    PROVE  /\ consumed' \in SUBSET Entries /\ registry' \in SUBSET Entries
           /\ faults' \in Nat /\ skipped' \in SUBSET Entries
           /\ skipped \subseteq skipped'
           /\ consumed' \cup registry' \subseteq consumed \cup registry \cup skipped'
<1>1. Candidates \in SUBSET Entries
  BY CandidatesType
<1>2. skipped' = skipped \cup Candidates /\ MarkConsumed(Candidates, ok)
  BY DEF ClassifyPrivate
<1> QED
  BY <1>1, <1>2, MarkType DEF TypeOK

\* What a new or a merged batch leaves behind.
QueueGood ==
    /\ pending' \in SUBSET Ops /\ entryIds' \in [Ops -> SUBSET Entries]
    /\ file' \in [Ops -> SUBSET Entries] /\ faults' \in Nat
    /\ nextOp' \in Nat \ {0} /\ chain' \in Seq(Ops)
    /\ Len(chain') >= Len(chain)
    /\ BatchesDisjoint' /\ Fresh'

LEMMA DisjointSaved ==
    ASSUME TypeOK, IInv, NEW ok \in BOOLEAN, SaveBatches(ok),
           pending' \in SUBSET Ops, entryIds' \in [Ops -> SUBSET Entries],
           nextOp' \in Nat, nextOp <= nextOp',
           \A o \in pending' : o < nextOp',
           \A o, p \in pending' : o # p => entryIds'[o] \cap entryIds'[p] = {}
    PROVE  BatchesDisjoint' /\ Fresh'
<1>1. CASE file' = file
  <2>1. BatchesDisjoint'
    BY <1>1 DEF IInv, BatchesDisjoint
  <2>2. Fresh'
    BY <1>1 DEF TypeOK, IInv, Fresh, Ops
  <2> QED
    BY <2>1, <2>2
<1>2. CASE \A o \in Ops : file'[o] = IF o \in pending' THEN entryIds'[o] ELSE {}
  <2>1. BatchesDisjoint'
    BY <1>2 DEF BatchesDisjoint
  <2>2. Fresh'
    BY <1>2 DEF Fresh
  <2> QED
    BY <2>1, <2>2
<1> QED
  BY <1>1, <1>2, SaveType

LEMMA NewBatchGood ==
    ASSUME TypeOK, IInv, NEW q \in Seq(Ops), NEW ok \in BOOLEAN,
           Len(q) >= Len(chain), NewBatch(q, ok), SaveBatches(ok)
    PROVE  QueueGood
<1> DEFINE B == BatchOf(Candidates)
<1>1. /\ B \subseteq Entries
      /\ \A e \in B, o \in pending : e \notin entryIds[o]
  BY CandidatesType, BatchType
<1>2. /\ nextOp \in Ops /\ nextOp' = nextOp + 1
      /\ pending' = pending \cup {nextOp}
      /\ entryIds' = [entryIds EXCEPT ![nextOp] = B]
      /\ chain' = IF ok THEN Enqueued(q, nextOp) ELSE q
  BY DEF NewBatch
<1>3. nextOp \in Nat \ {0} /\ pending \in SUBSET Ops /\ entryIds \in [Ops -> SUBSET Entries]
  BY DEF TypeOK
<1>4. \A o \in pending : o < nextOp
  BY <1>3 DEF IInv, Fresh
<1> HIDE DEF B
<1>5. /\ pending' \in SUBSET Ops /\ entryIds' \in [Ops -> SUBSET Entries]
      /\ nextOp' \in Nat \ {0} /\ nextOp <= nextOp'
  BY <1>1, <1>2, <1>3
<1>6. chain' \in Seq(Ops) /\ Len(chain') >= Len(chain)
  <2>1. Enqueued(q, nextOp) \in Seq(Ops) /\ Len(Enqueued(q, nextOp)) >= Len(q)
    BY <1>2, EnqueuedType
  <2>2. chain \in Seq(Ops)
    BY DEF TypeOK
  <2> QED
    BY <1>2, <2>1, <2>2
<1>7. \A o \in pending' : o < nextOp'
  BY <1>2, <1>3, <1>4 DEF Ops
<1>8. \A o, p \in pending' : o # p => entryIds'[o] \cap entryIds'[p] = {}
  <2> SUFFICES ASSUME NEW o \in pending', NEW p \in pending', o # p
               PROVE  entryIds'[o] \cap entryIds'[p] = {}
    OBVIOUS
  <2>1. CASE o = nextOp
    BY <2>1, <1>1, <1>2, <1>3
  <2>2. CASE p = nextOp
    BY <2>2, <1>1, <1>2, <1>3
  <2>3. CASE o # nextOp /\ p # nextOp
    BY <2>3, <1>2, <1>3 DEF IInv, BatchesDisjoint
  <2> QED
    BY <2>1, <2>2, <2>3
<1> QED
  BY <1>5, <1>6, <1>7, <1>8, SaveType, DisjointSaved DEF QueueGood

LEMMA CreateGood ==
    ASSUME TypeOK, IInv, NEW q \in Seq(Ops), NEW ok \in BOOLEAN,
           Len(q) >= Len(chain), CreateAndRun(q, ok)
    PROVE  QueueGood
<1> DEFINE B == BatchOf(Candidates)
<1>1. /\ B \subseteq Entries
      /\ \A e \in B, o \in pending : e \notin entryIds[o]
  BY CandidatesType, BatchType
<1>2. SaveBatches(ok)
  BY DEF CreateAndRun
<1>3. CASE NewBatch(q, ok)
  BY <1>2, <1>3, NewBatchGood
<1>4. CASE ~NewBatch(q, ok)
  <2>1. PICK m \in pending :
           /\ entryIds' = [entryIds EXCEPT ![m] = @ \cup B]
           /\ chain' = IF ok THEN Enqueued(q, m) ELSE q
           /\ UNCHANGED <<pending, nextOp>>
    BY <1>4 DEF CreateAndRun
  <2> HIDE DEF B
  <2>2. nextOp \in Nat \ {0} /\ pending \in SUBSET Ops /\ entryIds \in [Ops -> SUBSET Entries]
    BY DEF TypeOK
  <2>3. /\ pending' \in SUBSET Ops /\ entryIds' \in [Ops -> SUBSET Entries]
        /\ nextOp' \in Nat \ {0} /\ nextOp <= nextOp'
    BY <2>1, <2>2, <1>1
  <2>4. chain' \in Seq(Ops) /\ Len(chain') >= Len(chain)
    <3>1. Enqueued(q, m) \in Seq(Ops) /\ Len(Enqueued(q, m)) >= Len(q)
      BY <2>2, EnqueuedType
    <3>2. chain \in Seq(Ops)
      BY DEF TypeOK
    <3> QED
      BY <2>1, <3>1, <3>2
  <2>5. \A o \in pending' : o < nextOp'
    BY <2>1, <2>2 DEF IInv, Fresh
  <2>6. \A o, p \in pending' : o # p => entryIds'[o] \cap entryIds'[p] = {}
    <3> SUFFICES ASSUME NEW o \in pending, NEW p \in pending, o # p
                 PROVE  entryIds'[o] \cap entryIds'[p] = {}
      BY <2>1
    <3>1. entryIds[o] \cap entryIds[p] = {}
      BY <2>2 DEF IInv, BatchesDisjoint
    <3>2. entryIds'[o] = IF o = m THEN entryIds[o] \cup B ELSE entryIds[o]
      BY <2>1, <2>2
    <3>3. entryIds'[p] = IF p = m THEN entryIds[p] \cup B ELSE entryIds[p]
      BY <2>1, <2>2
    <3> QED
      BY <3>1, <3>2, <3>3, <1>1
  <2> QED
    BY <2>3, <2>4, <2>5, <2>6, <1>2, SaveType, DisjointSaved DEF QueueGood
<1> QED
  BY <1>3, <1>4

(******************************* the triggers ******************************)

\* A trigger either leaves the queue in order or classifies entries.
LEMMA TriggerShape ==
    ASSUME TypeOK, IInv, NEW ok \in BOOLEAN, Trigger(ok)
    PROVE  /\ TriggerFrame /\ Quiet /\ idle' \in BOOLEAN
           /\ \/ QueueGood /\ UNCHANGED <<consumed, registry, skipped>>
              \/ ClassifyPrivate(ok)
<1> USE DEF TypeOK
<1>1. chain \in Seq(Ops) /\ idle \in BOOLEAN
  OBVIOUS
<1>2. NoBatch /\ chain' \in Seq(Ops) /\ Len(chain') >= Len(chain)
        => QueueGood /\ UNCHANGED <<consumed, registry, skipped>>
  <2>1. ASSUME NoBatch PROVE BatchesDisjoint' /\ Fresh'
    BY <2>1 DEF NoBatch, IInv, BatchesDisjoint, Fresh
  <2> QED
    BY <2>1 DEF NoBatch, QueueGood
<1>3. CASE SettledPrivate(ok)
  BY <1>3 DEF SettledPrivate
<1>4. CASE AgentSettled(ok)
  <2>1. PICK due \in InOrder(Due) :
          \/ /\ ok /\ NoBatch
             /\ chain' = chain \o due /\ idle' = (Candidates # {})
          \/ idle' = FALSE /\ CreateAndRun(chain \o due, ok)
    BY <1>4 DEF AgentSettled
  <2>2. Due \in SUBSET Ops
    BY DEF Due
  <2>3. chain \o due \in Seq(Ops) /\ Len(chain \o due) >= Len(chain)
    BY <1>1, <2>2, OrderType
  <2>4. TriggerFrame /\ Quiet
    BY <1>4 DEF AgentSettled
  <2>5. CASE NoBatch /\ chain' = chain \o due /\ idle' = (Candidates # {})
    BY <2>3, <2>4, <2>5, <1>2
  <2>6. CASE idle' = FALSE /\ CreateAndRun(chain \o due, ok)
    <3>1. UNCHANGED <<consumed, registry, skipped>>
      BY <2>6 DEF CreateAndRun
    <3> QED
      BY <2>3, <2>4, <2>6, <3>1, CreateGood
  <2> QED
    BY <2>1, <2>5, <2>6
<1>5. CASE IdleFires(ok)
  <2>1. TriggerFrame /\ Quiet /\ idle' \in BOOLEAN
    BY <1>5 DEF IdleFires
  <2>2. \/ ClassifyPrivate(ok) \/ (NoBatch /\ chain' = chain) \/ CreateAndRun(chain, ok)
    BY <1>5 DEF IdleFires
  <2>3. CASE CreateAndRun(chain, ok)
    <3>1. UNCHANGED <<consumed, registry, skipped>>
      BY <2>3 DEF CreateAndRun
    <3> QED
      BY <1>1, <2>1, <2>3, <3>1, CreateGood
  <2> QED
    BY <1>1, <1>2, <2>1, <2>2, <2>3
<1>6. CASE ExtractNow(ok)
  <2>1. TriggerFrame /\ Quiet /\ idle' \in BOOLEAN
    BY <1>6 DEF ExtractNow
  <2>2. (NoBatch /\ chain' = chain) \/ CreateAndRun(chain, ok)
    BY <1>6 DEF ExtractNow
  <2>3. CASE CreateAndRun(chain, ok)
    <3>1. UNCHANGED <<consumed, registry, skipped>>
      BY <2>3 DEF CreateAndRun
    <3> QED
      BY <1>1, <2>1, <2>3, <3>1, CreateGood
  <2> QED
    BY <1>1, <1>2, <2>1, <2>2, <2>3
<1>7. CASE BeforeCompact(ok)
  <2>1. TriggerFrame /\ Quiet /\ idle' \in BOOLEAN
    BY <1>7 DEF BeforeCompact
  <2>2. CASE ClassifyPrivate(ok)
    BY <2>1, <2>2
  <2>3. CASE NewBatch(chain, ok) /\ SaveBatches(ok) /\ UNCHANGED <<consumed, registry, skipped>>
    BY <1>1, <2>1, <2>3, NewBatchGood
  <2> QED
    BY <1>7, <2>2, <2>3 DEF BeforeCompact
<1> QED
  BY <1>3, <1>4, <1>5, <1>6, <1>7 DEF Trigger

LEMMA TriggerStep ==
    ASSUME TypeOK, IInv, NEW ok \in BOOLEAN, Trigger(ok)
    PROVE  TypeOK' /\ IInv'
<1>1. TriggerFrame /\ Quiet /\ idle' \in BOOLEAN
  BY TriggerShape
<1>2. flight' = flight /\ jobs' = jobs /\ gone' = gone /\ summarised' = summarised
  BY <1>1 DEF TriggerFrame
<1>3. Settled'
  BY <1>1, <1>2 DEF Settled, Quiet
<1>6. Len(chain') >= Len(chain) => Running'
  BY <1>2 DEF TypeOK, IInv, Running
<1>4. CASE QueueGood /\ UNCHANGED <<consumed, registry, skipped>>
  <2>1. TypeOK'
    BY <1>1, <1>4 DEF TypeOK, QueueGood, TriggerFrame, context
  <2>2. ConsumedIsAccounted'
    BY <1>2, <1>4 DEF IInv, ConsumedIsAccounted, Claimed
  <2> QED
    BY <1>2, <1>3, <1>4, <1>6, <2>1, <2>2 DEF IInv, QueueGood
<1>5. CASE ClassifyPrivate(ok)
  <2>1. UNCHANGED <<pending, entryIds, file, nextOp, chain>>
    BY <1>5 DEF ClassifyPrivate
  <2>2. TypeOK'
    BY <1>1, <1>5, <2>1, ClassifyType DEF TypeOK, TriggerFrame, context
  <2>3. ConsumedIsAccounted'
    BY <1>2, <1>5, ClassifyType DEF IInv, ConsumedIsAccounted, Claimed
  <2>4. BatchesDisjoint' /\ Fresh'
    BY <2>1 DEF IInv, BatchesDisjoint, Fresh
  <2>5. Running'
    BY <1>2, <2>1 DEF IInv, Running
  <2> QED
    BY <1>2, <1>3, <2>2, <2>3, <2>4, <2>5 DEF IInv
<1> QED
  BY <1>4, <1>5, TriggerShape

(********************************* the run *********************************)

\* A run leaves the queue in memory alone until it drops its batch.
LEMMA RunStep ==
    ASSUME TypeOK, IInv, NEW op \in Ops, NEW ok \in BOOLEAN, Run(op, ok)
    PROVE  TypeOK' /\ IInv'
<1>1. RunFrame
  BY DEF Run, RunVanished, RunHeld, RunRefused, Ask, Fail, ExtractFails, ResultDropped,
         ResultAccepted, ConsumeBatch, DropBatch
<1>2. /\ skipped' = skipped /\ summarised' = summarised /\ nextOp' = nextOp /\ idle' = idle
      /\ UNCHANGED context
  BY <1>1 DEF RunFrame
<1>3. pending \in SUBSET Ops /\ entryIds \in [Ops -> SUBSET Entries] /\ chain \in Seq(Ops)
      /\ entryIds[op] \subseteq Entries /\ flight \in Flights
  BY DEF TypeOK
<1>4. flight.at # "idle" => chain # << >>
  BY <1>3 DEF IInv, Running
<1>5. ASSUME Leave, chain # << >>
      PROVE  chain' \in Seq(Ops) /\ flight' \in Flights /\ Settled' /\ Running'
  BY <1>3, <1>5 DEF Leave, NoFlight, Flights, Stages, Ops, Settled, Running
<1>6. ASSUME Leave, chain # << >>, jobs' = jobs, gone' = gone, cooling' \in SUBSET Ops,
             UNCHANGED <<consumed, registry, pending, entryIds, file, faults>>
      PROVE  TypeOK' /\ IInv'
  <2>1. TypeOK'
    BY <1>2, <1>5, <1>6 DEF TypeOK, context
  <2> QED
    BY <1>2, <1>5, <1>6, <2>1 DEF IInv, ConsumedIsAccounted, Claimed, BatchesDisjoint, Fresh
<1>7. CASE RunVanished(op)
  <2>1. /\ gone' = gone \cup entryIds[op] /\ chain # << >>
        /\ flight' = [NoFlight EXCEPT !.op = op, !.at = "consuming"]
        /\ UNCHANGED <<consumed, registry, pending, entryIds, file, chain, cooling, jobs, faults>>
    BY <1>7 DEF RunVanished, Starts
  <2>2. flight' \in Flights /\ flight'.op = op
    BY <2>1 DEF NoFlight, Flights, Stages
  <2>3. TypeOK'
    BY <1>2, <1>3, <2>1, <2>2 DEF TypeOK, context
  <2>4. Settled' /\ Running'
    BY <1>3, <2>1, <2>2 DEF Settled, Running
  <2>5. ConsumedIsAccounted'
    BY <1>2, <2>1 DEF IInv, ConsumedIsAccounted, Claimed
  <2> QED
    BY <1>2, <2>1, <2>3, <2>4, <2>5 DEF IInv, BatchesDisjoint, Fresh
<1>8. CASE RunHeld(op)
  <2>1. cooling \in SUBSET Ops
    BY DEF TypeOK
  <2> QED
    BY <1>6, <1>8, <2>1 DEF RunHeld, Starts
<1>9. ASSUME Fail(op, ok), chain # << >> PROVE TypeOK' /\ IInv'
  <2>1. /\ cooling' = cooling \cup {op} /\ SaveBatches(ok) /\ Leave
        /\ UNCHANGED <<consumed, registry, pending, entryIds, jobs, gone>>
    BY <1>9 DEF Fail
  <2>2. nextOp \in Nat \ {0} /\ \A o \in pending : o < nextOp
    BY DEF TypeOK, IInv, Fresh
  <2>3. \A o, p \in pending : o # p => entryIds[o] \cap entryIds[p] = {}
    BY <1>3 DEF IInv, BatchesDisjoint
  <2>4. file' \in [Ops -> SUBSET Entries] /\ faults' \in Nat
    BY <1>3, <2>1, SaveType
  <2>5. BatchesDisjoint' /\ Fresh'
    BY <1>2, <1>3, <2>1, <2>2, <2>3, DisjointSaved
  <2>6. TypeOK'
    BY <1>2, <1>3, <1>5, <1>9, <2>1, <2>4 DEF TypeOK, context
  <2>7. ConsumedIsAccounted'
    BY <1>2, <2>1 DEF IInv, ConsumedIsAccounted, Claimed
  <2> QED
    BY <1>5, <1>9, <2>1, <2>5, <2>6, <2>7 DEF IInv
<1>10. CASE RunRefused(op, ok)
  BY <1>9, <1>10 DEF RunRefused, Starts
<1>11. CASE Ask(op)
  <2>1. /\ chain # << >>
        /\ flight' = [op |-> op, at |-> "asked", gen |-> gen, sent |-> Views(op)]
        /\ UNCHANGED <<consumed, registry, pending, entryIds, file, chain, cooling, jobs,
                       gone, faults>>
    BY <1>11 DEF Ask, Starts
  <2>2. flight' \in Flights
    BY <1>3, <2>1 DEF TypeOK, Flights, Stages, Views
  <2>3. TypeOK'
    BY <1>2, <2>1, <2>2 DEF TypeOK, context
  <2>4. Settled' /\ Running'
    BY <1>3, <2>1 DEF Settled, Running
  <2> QED
    BY <1>2, <2>1, <2>3, <2>4 DEF IInv, ConsumedIsAccounted, Claimed, BatchesDisjoint, Fresh
<1>12. CASE ExtractFails(op, ok)
  BY <1>4, <1>9, <1>12 DEF ExtractFails
<1>13. CASE ResultDropped(op)
  <2>1. cooling \in SUBSET Ops
    BY DEF TypeOK
  <2> QED
    BY <1>4, <1>6, <1>13, <2>1 DEF ResultDropped
<1>14. CASE ResultAccepted(op)
  <2> DEFINE j == [seq |-> Cardinality(jobs) + 1, op |-> op, life |-> life,
                   sent |-> flight.sent, claimed |-> entryIds[op]]
  <2>1. /\ jobs' = jobs \cup {j} /\ op = flight.op /\ flight.at = "asked"
        /\ flight' = [flight EXCEPT !.at = "consuming"]
        /\ cooling' = cooling \ {op}
        /\ UNCHANGED <<consumed, registry, pending, entryIds, file, chain, gone, faults>>
    BY <1>14 DEF ResultAccepted
  <2>2. Cardinality(jobs) \in Nat /\ IsFiniteSet(jobs')
    BY <2>1, FS_CardinalityType, FS_AddElement DEF IInv
  <2>3. j \in Jobs
    BY <1>3, <2>2 DEF TypeOK, Jobs, Flights
  <2>4. flight' \in Flights /\ flight'.op = op /\ flight'.at = "consuming"
    BY <1>3, <2>1 DEF Flights, Stages
  <2>5. Claimed' = Claimed \cup entryIds[op]
    <3>1. j.claimed = entryIds[op]
      OBVIOUS
    <3> HIDE DEF j
    <3> QED
      BY <2>1, <3>1, ZenonT(20) DEF Claimed
  <2> HIDE DEF j
  <2>6. TypeOK'
    BY <1>2, <2>1, <2>3, <2>4 DEF TypeOK, context
  <2>7. Settled' /\ Running'
    BY <1>3, <2>1, <2>4, <2>5 DEF IInv, Settled, Running
  <2>8. ConsumedIsAccounted'
    BY <1>2, <2>1, <2>5 DEF IInv, ConsumedIsAccounted
  <2> QED
    BY <1>2, <2>1, <2>2, <2>6, <2>7, <2>8 DEF IInv, BatchesDisjoint, Fresh
<1>15. CASE ConsumeBatch(op, ok)
  <2>1. /\ flight.at = "consuming" /\ op = flight.op
        /\ MarkConsumed(entryIds[op], ok)
        /\ UNCHANGED <<pending, entryIds, file, cooling, jobs, gone>>
    BY <1>15 DEF ConsumeBatch
  <2>2. /\ consumed' \in SUBSET Entries /\ registry' \in SUBSET Entries /\ faults' \in Nat
        /\ consumed' \cup registry' \subseteq consumed \cup registry \cup entryIds[op]
    BY <1>3, <2>1, MarkType
  <2>3. ConsumedIsAccounted'
    BY <1>2, <2>1, <2>2 DEF IInv, ConsumedIsAccounted, Claimed, Settled
  <2>4. chain' \in Seq(Ops) /\ flight' \in Flights /\ Settled' /\ Running'
    <3>1. CASE flight' = [flight EXCEPT !.at = "dropping"] /\ UNCHANGED chain
      BY <1>3, <2>1, <3>1 DEF Flights, Stages, Settled, Running, IInv
    <3>2. CASE Leave
      BY <1>4, <1>5, <2>1, <3>2
    <3> QED
      BY <1>15, <3>1, <3>2 DEF ConsumeBatch
  <2>5. TypeOK'
    BY <1>2, <2>1, <2>2, <2>4 DEF TypeOK, context
  <2> QED
    BY <1>2, <2>1, <2>3, <2>4, <2>5 DEF IInv, BatchesDisjoint, Fresh
<1>16. CASE DropBatch(op, ok)
  <2>1. /\ flight.at = "dropping" /\ pending' = pending \ {op} /\ SaveBatches(ok) /\ Leave
        /\ UNCHANGED <<consumed, registry, entryIds, cooling, jobs, gone>>
    BY <1>16 DEF DropBatch
  <2>2. nextOp \in Nat \ {0} /\ pending' \in SUBSET Ops /\ \A o \in pending' : o < nextOp
    BY <1>3, <2>1 DEF TypeOK, IInv, Fresh
  <2>3. \A o, p \in pending' : o # p => entryIds[o] \cap entryIds[p] = {}
    BY <1>3, <2>1 DEF IInv, BatchesDisjoint
  <2>4. file' \in [Ops -> SUBSET Entries] /\ faults' \in Nat
    BY <1>3, <2>1, <2>2, SaveType
  <2>5. BatchesDisjoint' /\ Fresh'
    BY <1>2, <1>3, <2>1, <2>2, <2>3, DisjointSaved
  <2>6. TypeOK'
    BY <1>2, <1>3, <1>4, <1>5, <2>1, <2>2, <2>4 DEF TypeOK, context
  <2>7. ConsumedIsAccounted'
    BY <1>2, <2>1 DEF IInv, ConsumedIsAccounted, Claimed
  <2> QED
    BY <1>4, <1>5, <2>1, <2>5, <2>6, <2>7 DEF IInv
<1> QED
  BY <1>7, <1>8, <1>10, <1>11, <1>12, <1>13, <1>14, <1>15, <1>16 DEF Run

(***************************** the surroundings ****************************)

Outside ==
    \/ Arrive \/ TogglePrivate \/ CancelTree
    \/ \E op \in Ops : Cooldown(op)
    \/ \E S \in SUBSET Entries : BeforeTree(S)

LEMMA OutsideStep == ASSUME TypeOK, IInv, Outside PROVE TypeOK' /\ IInv'
<1> USE DEF TypeOK
<1>1. CASE Arrive
  <2>1. /\ log' \in Seq([in : Sessions, private : BOOLEAN]) /\ Len(log') <= MaxEntries
    BY <1>1, SchedulerAssumption DEF Arrive
  <2>2. UNCHANGED <<session, private, gen, life, stash, navigating, memory, registry, file,
                    history, faults>>
    BY <1>1 DEF Arrive
  <2> QED
    BY <2>1, <2>2 DEF memory, history, IInv, ConsumedIsAccounted, Claimed,
                      BatchesDisjoint, Fresh, Settled, Running
<1>2. CASE TogglePrivate
  BY <1>2 DEF TogglePrivate, memory, history, IInv, ConsumedIsAccounted, Claimed,
              BatchesDisjoint, Fresh, Settled, Running
<1>3. CASE CancelTree
  BY <1>3 DEF CancelTree, memory, history, IInv, ConsumedIsAccounted, Claimed,
              BatchesDisjoint, Fresh, Settled, Running
<1>4. ASSUME NEW op \in Ops, Cooldown(op) PROVE TypeOK' /\ IInv'
  BY <1>4 DEF Cooldown, context, history, IInv, ConsumedIsAccounted, Claimed,
              BatchesDisjoint, Fresh, Settled, Running
<1>5. ASSUME NEW S \in SUBSET Entries, BeforeTree(S) PROVE TypeOK' /\ IInv'
  BY <1>5 DEF BeforeTree, memory, history, IInv, ConsumedIsAccounted, Claimed,
              BatchesDisjoint, Fresh, Settled, Running
<1> QED
  BY <1>1, <1>2, <1>3, <1>4, <1>5 DEF Outside

LEMMA TreeStep ==
    ASSUME TypeOK, IInv, NEW ok \in BOOLEAN, Tree(ok)
    PROVE  TypeOK' /\ IInv'
<1>1. /\ MarkConsumed(stash, ok) /\ summarised' = summarised \cup stash
      /\ navigating' = FALSE
      /\ gen' \in {gen, gen + 1} /\ stash' \in {stash, {}}
      /\ UNCHANGED <<log, session, private, life, pending, entryIds, file, nextOp, chain,
                     flight, cooling, idle, jobs, skipped, gone>>
  BY DEF Tree
<1>2. stash \in SUBSET Entries
  BY DEF TypeOK
<1>3. /\ consumed' \in SUBSET Entries /\ registry' \in SUBSET Entries /\ faults' \in Nat
      /\ consumed' \cup registry' \subseteq consumed \cup registry \cup stash
  BY <1>1, <1>2, MarkType
<1>6. gen' \in Nat /\ stash' \in SUBSET Entries /\ summarised' \in SUBSET Entries
  <2>1. gen' \in Nat
    BY <1>1 DEF TypeOK
  <2>2. stash' \in SUBSET Entries
    BY <1>1, <1>2
  <2>3. summarised' \in SUBSET Entries
    BY <1>1, <1>2 DEF TypeOK
  <2> QED
    BY <2>1, <2>2, <2>3
<1>4. TypeOK'
  <2>1. navigating' \in BOOLEAN
    BY <1>1
  <2> QED
    BY <1>1, <1>3, <1>6, <2>1 DEF TypeOK
<1>5. ConsumedIsAccounted'
  BY <1>1, <1>3 DEF IInv, ConsumedIsAccounted, Claimed
<1> QED
  BY <1>1, <1>4, <1>5 DEF IInv, BatchesDisjoint, Fresh, Settled, Running, Claimed

LEMMA RestartStep ==
    ASSUME TypeOK, IInv, NEW s \in Sessions, Restart(s)
    PROVE  TypeOK' /\ IInv'
<1>1. /\ life' = life + 1 /\ session' = s /\ consumed' = registry /\ entryIds' = file
      /\ pending' = {o \in Ops : file[o] # {}} /\ chain' = << >> /\ flight' = NoFlight
      /\ idle' = FALSE /\ navigating' = FALSE /\ stash' = {}
      /\ UNCHANGED <<log, private, gen, registry, file, nextOp, cooling, history, faults>>
  BY DEF Restart, Rebuilt
<1>2. flight' \in Flights /\ Settled' /\ Running'
  BY <1>1 DEF NoFlight, Flights, Stages, Settled, Running
<1>3. TypeOK'
  <2>1. stash' \in SUBSET Entries /\ idle' \in BOOLEAN /\ navigating' \in BOOLEAN
    BY <1>1
  <2>4. chain' \in Seq(Ops)
    BY <1>1
  <2>5. pending' \in SUBSET Ops
    BY <1>1
  <2>3. life' \in Nat
    BY <1>1 DEF TypeOK
  <2>2. consumed' \in SUBSET Entries /\ entryIds' \in [Ops -> SUBSET Entries]
        /\ session' \in Sessions
    BY <1>1 DEF TypeOK
  <2> QED
    BY <1>1, <1>2, <2>1, <2>2, <2>3, <2>4, <2>5 DEF TypeOK, history
<1>4. ConsumedIsAccounted'
  BY <1>1 DEF history, IInv, ConsumedIsAccounted, Claimed
<1>5. BatchesDisjoint' /\ Fresh'
  BY <1>1 DEF IInv, BatchesDisjoint, Fresh
<1> QED
  BY <1>1, <1>2, <1>3, <1>4, <1>5 DEF IInv, history

(******************************* the theorems ******************************)

LEMMA InitGood == Init => TypeOK /\ IInv
<1> SUFFICES ASSUME Init PROVE TypeOK /\ IInv
  OBVIOUS
<1>1. pending = {} /\ entryIds \in [Ops -> SUBSET Entries] /\ file \in [Ops -> SUBSET Entries]
      /\ \A o \in Ops : file[o] = {}
  BY DEF Init
<1>2. /\ log \in Seq([in : Sessions, private : BOOLEAN]) /\ Len(log) <= MaxEntries
      /\ chain \in Seq(Ops) /\ nextOp \in Nat \ {0}
      /\ gen \in Nat /\ life \in Nat /\ faults \in Nat
  BY SchedulerAssumption DEF Init
<1>3. flight \in Flights /\ flight.at = "idle"
  BY DEF Init, NoFlight, Flights, Stages
<1>4. TypeOK
  BY <1>1, <1>2, <1>3 DEF Init, TypeOK
<1>5. IsFiniteSet(jobs)
  BY FS_EmptySet DEF Init
<1>6. ConsumedIsAccounted
  BY DEF Init, ConsumedIsAccounted
<1> QED
  BY <1>1, <1>3, <1>4, <1>5, <1>6 DEF IInv, BatchesDisjoint, Fresh, Settled, Running

LEMMA StepGood == TypeOK /\ IInv /\ [Next]_vars => TypeOK' /\ IInv'
<1> SUFFICES ASSUME TypeOK, IInv, [Next]_vars PROVE TypeOK' /\ IInv'
  OBVIOUS
<1>1. CASE UNCHANGED vars
  BY <1>1 DEF vars, TypeOK, IInv, ConsumedIsAccounted, Claimed, BatchesDisjoint, Fresh,
              Settled, Running
<1>2. CASE Next
  BY <1>2, TriggerStep, RunStep, OutsideStep, TreeStep, RestartStep DEF Next, Outside
<1> QED
  BY <1>1, <1>2

\* Every variable keeps its type, whatever the bounds.
THEOREM TypeCorrect == Spec => []TypeOK
<1>1. Spec => [](TypeOK /\ IInv)
  BY InitGood, StepGood, PTL DEF Spec
<1> QED
  BY <1>1, PTL

\* Source coverage advances only after durably accepted output, through any
\* interleaving of triggers, runs, navigations, failed writes and restarts
\* (runBatch, markConsumed, onTree).
THEOREM CoverageIsAccounted == Spec => []ConsumedIsAccounted
<1>1. IInv => ConsumedIsAccounted
  BY DEF IInv
<1>2. Spec => [](TypeOK /\ IInv)
  BY InitGood, StepGood, PTL DEF Spec
<1> QED
  BY <1>1, <1>2, PTL

\* No entry is ever in two pending batches, in memory or in the state file
\* (selectUnprocessed, mergeIntoOldest, persist).
THEOREM BatchesStayDisjoint == Spec => []BatchesDisjoint
<1>1. IInv => BatchesDisjoint
  BY DEF IInv
<1>2. Spec => [](TypeOK /\ IInv)
  BY InitGood, StepGood, PTL DEF Spec
<1> QED
  BY <1>1, <1>2, PTL

-----------------------------------------------------------------------------
(***************************************************************************)
(* What the model is called with, and what other schedulers may write.     *)
(***************************************************************************)

\* A chain of pending batches, each once.
Queued(q, P) == q \in Seq(P) /\ \A i, j \in 1 .. Len(q) : q[i] = q[j] => i = j

\* The batch in flight is the first of the chain.
InLine == /\ Queued(chain, pending)
          /\ flight.at # "idle" => chain # << >> /\ flight.op = Head(chain)
          /\ flight.at = "idle" => flight.op = 0

\* A batch accepted in this life is pending only until its run has dropped it.
Once ==
    /\ \A j \in jobs : j.op < nextOp /\ j.life <= life /\ j.sent \subseteq j.claimed
    /\ flight.at = "asked" => flight.sent \subseteq entryIds[flight.op]
    /\ OncePerLife
    /\ faults = 0 =>
         /\ \A j \in jobs : j.life = life /\ j.op \in pending =>
              flight.op = j.op /\ flight.at \in {"consuming", "dropping"}
         /\ flight.at = "dropping" => entryIds[flight.op] \subseteq consumed

\* Memory and disk agree.
Synced == file = AsSaved(pending, entryIds) /\ registry = consumed

Held(e, o)  == o \in pending /\ e \in entryIds[o]
Knows(e, o) == e \in consumed \/ Held(e, o)
Free(e)     == e \notin consumed /\ \A o \in pending : e \notin entryIds[o]

\* An entry is put under a batch by the file, the memory, a job, or by R, which is
\* what the schedulers of ended sessions have in theirs.
Placed(R, e, o) ==
    \/ e \in file[o] \/ Held(e, o) \/ <<e, o>> \in R
    \/ \E j \in jobs : j.op = o /\ e \in j.claimed

\* Wherever an entry is put under a batch, it is the same one, the runtime that is
\* up knows of it, and the entry was not classified.
Attributed(R) ==
    /\ \A e \in Entries, o \in Ops : Placed(R, e, o) => Knows(e, o) /\ e \notin skipped
    /\ \A e \in Entries, o, p \in Ops : Placed(R, e, o) /\ Placed(R, e, p) => o = p
    /\ skipped \subseteq consumed

\* What a step of the runtime that is up may do to these.
Advance ==
    /\ faults = 0
    /\ \A e \in Entries, o \in Ops : Held(e, o) => Knows(e, o)'
    /\ consumed \subseteq consumed'
    /\ \A e \in Entries, o \in Ops : Held(e, o)' => Held(e, o) \/ Free(e)
    /\ skipped' \subseteq skipped \cup consumed' /\ \A e \in skipped' : e \in skipped \/ Free(e)
    /\ skipped' = skipped \/ \A e \in Entries, o \in Ops : Held(e, o)' => Held(e, o)
    /\ \A j \in jobs' : j \in jobs \/ \A e \in j.claimed : Held(e, j.op)
    /\ \A e \in Entries, o \in Ops : e \in file'[o] => e \in file[o] \/ Held(e, o)'
    /\ Synced => Synced'

OldPairs ==
    {x \in Entries \X Ops : \E r \in old : x[2] \in r.pending /\ x[1] \in r.ids[x[2]]}

Leavings ==
    \A r \in old :
        /\ r.consumed \subseteq Claimed \cup skipped \cup summarised \cup gone
        /\ \A o \in r.pending : o < nextOp
        /\ \A o, p \in r.pending : o # p => r.ids[o] \cap r.ids[p] = {}

HInv == /\ TypeOK /\ IInv /\ InLine /\ Once /\ HandoverTypeOK /\ Leavings
        /\ faults = 0
        /\ switches = 0 => old = {} /\ ~lost /\ Synced
        /\ ~lost => Attributed(OldPairs)

Base == TypeOK /\ IInv /\ InLine /\ Once

\* A write that does not throw leaves on disk what is in memory.
LEMMA SavedIs ==
    ASSUME TypeOK, NEW ok \in BOOLEAN, SaveBatches(ok), faults' = 0
    PROVE  faults = 0 /\ file' = AsSaved(pending', entryIds')
BY DEF TypeOK, SaveBatches, Write

LEMMA MarkIs ==
    ASSUME TypeOK, NEW S \in SUBSET Entries, NEW ok \in BOOLEAN, MarkConsumed(S, ok), faults' = 0
    PROVE  /\ faults = 0 /\ ok /\ consumed' = consumed \cup S
           /\ registry = consumed => registry' = consumed'
<1>1. CASE S \subseteq consumed
  BY <1>1 DEF MarkConsumed
<1>2. CASE ~(S \subseteq consumed)
  BY <1>2 DEF MarkConsumed, Write, TypeOK
<1> QED
  BY <1>1, <1>2

LEMMA CandidatesFree == ASSUME TypeOK, NEW e \in Candidates PROVE Free(e)
BY DEF Candidates, Free

-----------------------------------------------------------------------------
(***************************************************************************)
(* Chains.                                                                 *)
(***************************************************************************)

LEMMA DueQueued ==
    ASSUME TypeOK, InLine, NEW due \in InOrder(Due)
    PROVE  /\ Queued(chain \o due, pending) /\ Len(chain \o due) >= Len(chain)
           /\ chain # << >> => Head(chain \o due) = Head(chain)
<1>1. chain \in Seq(pending) /\ Due \in SUBSET Ops /\ Due \subseteq pending
      /\ \A o \in Due, i \in 1 .. Len(chain) : chain[i] # o
  BY DEF TypeOK, InLine, Queued, Due
<1>2. IsFiniteSet(Due) /\ Cardinality(Due) \in Nat
  <2>1. IsFiniteSet(Ops)
    BY FS_Interval, SchedulerAssumption DEF Ops
  <2> QED
    BY <1>1, <2>1, FS_Subset, FS_CardinalityType
<1> DEFINE n == Cardinality(Due)
<1>3. /\ due \in [1 .. n -> Due]
      /\ \A i, j \in 1 .. n : i < j => due[i] < due[j]
  BY DEF InOrder
<1> HIDE DEF n
<1>4. n \in Nat /\ due \in Seq(pending) /\ Len(due) = n
  BY <1>1, <1>2, <1>3 DEF n
<1>5. chain \o due \in Seq(pending) /\ Len(chain \o due) = Len(chain) + n
  BY <1>1, <1>4
<1>6. \A i, j \in 1 .. n : due[i] = due[j] => i = j
  <2> SUFFICES ASSUME NEW i \in 1 .. n, NEW j \in 1 .. n, i # j PROVE due[i] # due[j]
    OBVIOUS
  <2>1. due[i] \in Nat /\ due[j] \in Nat
    <3>1. due[i] \in Due /\ due[j] \in Due
      BY <1>3
    <3>2. due[i] \in Ops /\ due[j] \in Ops
      BY <1>1, <3>1
    <3> QED
      BY <3>2 DEF Ops
  <2>2. i < j \/ j < i
    BY <1>4
  <2> QED
    BY <1>3, <2>1, <2>2
<1>7. \A i \in 1 .. Len(chain) + n :
        (chain \o due)[i] = IF i <= Len(chain) THEN chain[i] ELSE due[i - Len(chain)]
  BY <1>1, <1>4
<1>8. \A i, j \in 1 .. Len(chain) + n : (chain \o due)[i] = (chain \o due)[j] => i = j
  <2> SUFFICES ASSUME NEW i \in 1 .. Len(chain) + n, NEW j \in 1 .. Len(chain) + n,
                      (chain \o due)[i] = (chain \o due)[j]
               PROVE  i = j
    OBVIOUS
  <2>0. Len(chain) \in Nat
    BY <1>1
  <2>1. CASE i <= Len(chain) /\ j <= Len(chain)
    <3>1. chain[i] = chain[j] /\ i \in 1 .. Len(chain) /\ j \in 1 .. Len(chain)
      BY <1>7, <2>1, <2>0, <1>4
    <3> QED
      BY <3>1 DEF InLine, Queued
  <2>2. CASE i > Len(chain) /\ j > Len(chain)
    <3>1. due[i - Len(chain)] = due[j - Len(chain)]
      BY <1>7, <2>2, <2>0, <1>4
    <3>2. i - Len(chain) \in 1 .. n /\ j - Len(chain) \in 1 .. n
      BY <2>2, <2>0, <1>4
    <3>3. i - Len(chain) = j - Len(chain)
      BY <3>1, <3>2, <1>6
    <3> QED
      BY <3>3, <2>0, <1>4
  <2>3. ASSUME NEW a \in 1 .. Len(chain) + n, NEW b \in 1 .. Len(chain) + n,
               a <= Len(chain), b > Len(chain)
        PROVE  (chain \o due)[a] # (chain \o due)[b]
    <3>1. (chain \o due)[a] = chain[a] /\ a \in 1 .. Len(chain)
      BY <1>7, <2>3, <2>0, <1>4
    <3>2. (chain \o due)[b] = due[b - Len(chain)] /\ b - Len(chain) \in 1 .. n
      BY <1>7, <2>3, <2>0, <1>4
    <3>3. due[b - Len(chain)] \in Due
      BY <1>3, <3>2
    <3> QED
      BY <1>1, <3>1, <3>2, <3>3
  <2> QED
    BY <2>0, <1>4, <2>1, <2>2, <2>3
<1>9. Queued(chain \o due, pending)
  <2> DEFINE both == chain \o due
  <2>1. both \in Seq(pending) /\ Len(both) = Len(chain) + n
        /\ \A i, j \in 1 .. Len(chain) + n : both[i] = both[j] => i = j
    BY <1>5, <1>8
  <2> HIDE DEF both
  <2>2. Queued(both, pending)
    BY <2>1 DEF Queued
  <2> QED
    BY <2>2 DEF both
<1>10. Len(chain \o due) >= Len(chain) /\ Len(chain) \in Nat
  BY <1>1, <1>4, <1>5
<1>11. ASSUME chain # << >> PROVE Head(chain \o due) = Head(chain)
  <2>1. 1 \in 1 .. Len(chain) /\ 1 \in 1 .. Len(chain) + n /\ Len(chain) >= 1
    BY <1>1, <1>4, <1>11
  <2>2. (chain \o due)[1] = chain[1] /\ chain \o due # << >>
    BY <1>5, <1>7, <1>10, <2>1
  <2> QED
    BY <1>1, <1>5, <1>11, <2>2
<1> QED
  BY <1>9, <1>10, <1>11

LEMMA EnqueuedQueued ==
    ASSUME NEW P, NEW q, Queued(q, P), NEW o \in P
    PROVE  /\ Queued(Enqueued(q, o), P) /\ Len(Enqueued(q, o)) >= Len(q)
           /\ q # << >> => Head(Enqueued(q, o)) = Head(q)
<1>1. q \in Seq(P) /\ \A i, j \in 1 .. Len(q) : q[i] = q[j] => i = j
  BY DEF Queued
<1>2. CASE \E i \in DOMAIN q : q[i] = o
  BY <1>1, <1>2 DEF Enqueued
<1>3. CASE ~ \E i \in DOMAIN q : q[i] = o
  <2>1. Enqueued(q, o) = Append(q, o)
    BY <1>3 DEF Enqueued
  <2>2. \A i \in 1 .. Len(q) : q[i] # o
    BY <1>1, <1>3
  <2> QED
    BY <1>1, <2>1, <2>2 DEF Queued
<1> QED
  BY <1>2, <1>3

LEMMA WiderQueue ==
    ASSUME NEW P, NEW Q, P \subseteq Q, NEW q, Queued(q, P)
    PROVE  Queued(q, Q)
BY DEF Queued

LEMMA TailQueued ==
    ASSUME NEW P, NEW q, Queued(q, P), q # << >>
    PROVE  Queued(Tail(q), P \ {Head(q)})
<1>1. q \in Seq(P) /\ Len(q) \in Nat /\ Len(q) >= 1
      /\ \A i, j \in 1 .. Len(q) : q[i] = q[j] => i = j
  BY DEF Queued
<1>2. Tail(q) \in Seq(P) /\ Len(Tail(q)) = Len(q) - 1
      /\ \A i \in 1 .. Len(q) - 1 : Tail(q)[i] = q[i + 1]
  BY <1>1
<1>3. \A i \in 1 .. Len(q) - 1 : Tail(q)[i] \in P \ {Head(q)}
  <2> SUFFICES ASSUME NEW i \in 1 .. Len(q) - 1 PROVE q[i + 1] \in P /\ q[i + 1] # q[1]
    BY <1>1, <1>2
  <2>1. i + 1 \in 1 .. Len(q) /\ 1 \in 1 .. Len(q) /\ i + 1 # 1
    BY <1>1
  <2> QED
    BY <1>1, <2>1
<1>4. Tail(q) \in Seq(P \ {Head(q)})
  <2> DEFINE T == P \ {Head(q)}
             t == Tail(q)
  <2>1. Len(t) \in Nat /\ t \in [1 .. Len(t) -> P] /\ \A i \in 1 .. Len(t) : t[i] \in T
    <3>1. Len(t) = Len(q) - 1 /\ Len(t) \in Nat /\ t \in Seq(P)
      BY <1>1, <1>2
    <3>2. \A i \in 1 .. Len(t) : t[i] \in T
      BY <1>3, <3>1
    <3> HIDE DEF t
    <3>3. t \in [1 .. Len(t) -> P]
      BY <3>1
    <3> QED
      BY <3>1, <3>2, <3>3
  <2> HIDE DEF T, t
  <2>2. t \in [1 .. Len(t) -> T]
    BY <2>1
  <2>3. t \in Seq(T)
    BY <2>1, <2>2
  <2> QED
    BY <2>3 DEF T, t
<1>5. \A i, j \in 1 .. Len(q) - 1 : Tail(q)[i] = Tail(q)[j] => i = j
  <2> SUFFICES ASSUME NEW i \in 1 .. Len(q) - 1, NEW j \in 1 .. Len(q) - 1, q[i + 1] = q[j + 1]
               PROVE i = j
    BY <1>2
  <2>1. i + 1 \in 1 .. Len(q) /\ j + 1 \in 1 .. Len(q)
    BY <1>1
  <2>2. i + 1 = j + 1
    BY <1>1, <2>1
  <2> QED
    BY <2>2
<1> QED
  BY <1>2, <1>4, <1>5 DEF Queued

-----------------------------------------------------------------------------
(***************************************************************************)
(* Triggers.                                                               *)
(***************************************************************************)

\* The queue grows at its end, and by new entries only.
Grows ==
    /\ pending \subseteq pending' /\ \A o \in pending : entryIds[o] \subseteq entryIds'[o]
    /\ \A o \in pending' : o \in pending \/ o >= nextOp
    /\ nextOp <= nextOp'
    /\ Queued(chain', pending') /\ (chain # << >> => chain' # << >> /\ Head(chain') = Head(chain))
    /\ faults' = 0 => Advance

LEMMA StillGrows ==
    ASSUME TypeOK, IInv, NEW q, Queued(q, pending), chain' = q,
           chain # << >> => q # << >> /\ Head(q) = Head(chain),
           UNCHANGED <<pending, entryIds, file, nextOp, consumed, registry, skipped, faults, jobs>>
    PROVE  Grows
<1>1. nextOp \in Nat
  BY DEF TypeOK
<1>2. faults' = 0 => Advance
  BY DEF Advance, Held, Knows, Synced
<1> QED
  BY <1>1, <1>2 DEF Grows

\* A batch B of free entries joins the queue as o, or is merged into the batch o.
LEMMA BatchAdvances ==
    ASSUME TypeOK, IInv, NEW ok \in BOOLEAN, SaveBatches(ok), faults' = 0,
           NEW o \in Ops, NEW B \in SUBSET Candidates,
           pending' = pending \cup {o},
           \/ o \notin pending /\ entryIds' = [entryIds EXCEPT ![o] = B]
           \/ o \in pending /\ entryIds' = [entryIds EXCEPT ![o] = @ \cup B],
           UNCHANGED <<consumed, registry, skipped, jobs>>
    PROVE  Advance
<1>1. entryIds \in [Ops -> SUBSET Entries] /\ pending \in SUBSET Ops
  BY DEF TypeOK
<1>2. faults = 0 /\ file' = AsSaved(pending', entryIds')
  BY SavedIs
<1>3. \A e \in Entries, p \in Ops : Held(e, p) => Held(e, p)'
  BY <1>1 DEF Held
<1>4. \A e \in Entries, p \in Ops : Held(e, p)' => Held(e, p) \/ e \in B
  BY <1>1 DEF Held
<1>5. \A e \in Entries, p \in Ops : e \in file'[p] => Held(e, p)'
  BY <1>2 DEF AsSaved, Held
<1>6. \A e \in B : Free(e)
  BY CandidatesFree
<1> QED
  BY <1>2, <1>3, <1>4, <1>5, <1>6 DEF Advance, Knows, Synced

LEMMA NewBatchGrows ==
    ASSUME TypeOK, IInv, InLine, NEW q, Queued(q, pending), NEW ok \in BOOLEAN,
           chain # << >> => q # << >> /\ Head(q) = Head(chain),
           NewBatch(q, ok), SaveBatches(ok), UNCHANGED <<consumed, registry, skipped, jobs>>
    PROVE  Grows
<1> DEFINE B == BatchOf(Candidates)
<1>1. /\ nextOp \in Ops /\ nextOp' = nextOp + 1
      /\ pending' = pending \cup {nextOp}
      /\ entryIds' = [entryIds EXCEPT ![nextOp] = B]
      /\ chain' = IF ok THEN Enqueued(q, nextOp) ELSE q
  BY DEF NewBatch
<1>2. /\ nextOp \in Nat /\ pending \in SUBSET Ops /\ entryIds \in [Ops -> SUBSET Entries]
      /\ \A o \in pending : o < nextOp
  BY DEF TypeOK, IInv, Fresh
<1>3. nextOp \notin pending /\ B \in SUBSET Candidates
  BY <1>2, BatchType
<1> HIDE DEF B
<1>4. Queued(q, pending')
  BY <1>1, WiderQueue
<1>5. Queued(chain', pending') /\ (q # << >> => chain' # << >> /\ Head(chain') = Head(q))
  <2>1. nextOp \in pending'
    BY <1>1
  <2>2. /\ Queued(Enqueued(q, nextOp), pending') /\ Len(Enqueued(q, nextOp)) >= Len(q)
        /\ q # << >> => Head(Enqueued(q, nextOp)) = Head(q)
    BY <1>4, <2>1, EnqueuedQueued
  <2>3. q # << >> => Enqueued(q, nextOp) # << >>
    <3>1. q \in Seq(pending') /\ Enqueued(q, nextOp) \in Seq(pending')
      BY <1>4, <2>2 DEF Queued
    <3> QED
      BY <2>2, <3>1
  <2> QED
    BY <1>1, <1>4, <2>2, <2>3
<1>6. faults' = 0 => Advance
  BY <1>1, <1>3, BatchAdvances
<1>7. \A o \in pending : entryIds[o] \subseteq entryIds'[o]
  BY <1>1, <1>2, <1>3
<1> QED
  BY <1>1, <1>2, <1>5, <1>6, <1>7 DEF Grows

LEMMA CreateGrows ==
    ASSUME TypeOK, IInv, InLine, NEW q, Queued(q, pending), NEW ok \in BOOLEAN,
           chain # << >> => q # << >> /\ Head(q) = Head(chain),
           CreateAndRun(q, ok), UNCHANGED jobs
    PROVE  Grows
<1> DEFINE B == BatchOf(Candidates)
<1>1. SaveBatches(ok) /\ UNCHANGED <<consumed, registry, skipped>>
  BY DEF CreateAndRun
<1>2. CASE NewBatch(q, ok)
  BY <1>1, <1>2, NewBatchGrows
<1>3. CASE ~NewBatch(q, ok)
  <2>1. PICK m \in pending :
           /\ entryIds' = [entryIds EXCEPT ![m] = @ \cup B]
           /\ chain' = IF ok THEN Enqueued(q, m) ELSE q
           /\ UNCHANGED <<pending, nextOp>>
    BY <1>3 DEF CreateAndRun
  <2>2. /\ nextOp \in Nat /\ pending \in SUBSET Ops /\ entryIds \in [Ops -> SUBSET Entries]
        /\ B \in SUBSET Candidates
    BY BatchType DEF TypeOK
  <2> HIDE DEF B
  <2>3. /\ Queued(Enqueued(q, m), pending) /\ Len(Enqueued(q, m)) >= Len(q)
        /\ q # << >> => Head(Enqueued(q, m)) = Head(q)
    BY EnqueuedQueued
  <2>4. q # << >> => Enqueued(q, m) # << >>
    <3>1. q \in Seq(pending) /\ Enqueued(q, m) \in Seq(pending)
      BY <2>3 DEF Queued
    <3> QED
      BY <2>3, <3>1
  <2>5. faults' = 0 => Advance
    <3>1. m \in Ops /\ pending' = pending \cup {m}
      BY <2>1, <2>2
    <3> QED
      BY <1>1, <2>1, <2>2, <3>1, BatchAdvances
  <2>6. \A o \in pending : entryIds[o] \subseteq entryIds'[o]
    BY <2>1, <2>2
  <2> QED
    BY <2>1, <2>2, <2>3, <2>4, <2>5, <2>6 DEF Grows
<1> QED
  BY <1>2, <1>3

LEMMA ClassifyGrows ==
    ASSUME TypeOK, IInv, InLine, NEW ok \in BOOLEAN, ClassifyPrivate(ok), UNCHANGED jobs
    PROVE  Grows
<1>1. /\ MarkConsumed(Candidates, ok) /\ skipped' = skipped \cup Candidates
      /\ UNCHANGED <<pending, entryIds, file, nextOp, chain>>
  BY DEF ClassifyPrivate
<1>2. Candidates \in SUBSET Entries /\ nextOp \in Nat
  BY CandidatesType DEF TypeOK
<1>3. ASSUME faults' = 0 PROVE Advance
  <2>1. /\ faults = 0 /\ consumed' = consumed \cup Candidates
        /\ registry = consumed => registry' = consumed'
    BY <1>1, <1>2, <1>3, MarkIs
  <2>2. \A e \in skipped' : e \in skipped \/ Free(e)
    BY <1>1, CandidatesFree
  <2> QED
    BY <1>1, <2>1, <2>2 DEF Advance, Held, Knows, Synced
<1> QED
  BY <1>1, <1>2, <1>3 DEF Grows, InLine

LEMMA TriggerGrows ==
    ASSUME TypeOK, IInv, InLine, NEW ok \in BOOLEAN, Trigger(ok)
    PROVE  Grows
<1>1. UNCHANGED jobs /\ Queued(chain, pending)
  BY TriggerShape DEF TriggerFrame, InLine
<1>2. ASSUME NoBatch, UNCHANGED chain PROVE Grows
  BY <1>1, <1>2, StillGrows DEF NoBatch
<1>3. CreateAndRun(chain, ok) => Grows
  BY <1>1, CreateGrows
<1>4. ClassifyPrivate(ok) => Grows
  BY <1>1, ClassifyGrows
<1>5. CASE AgentSettled(ok)
  <2>1. PICK due \in InOrder(Due) :
          \/ NoBatch /\ chain' = chain \o due
          \/ CreateAndRun(chain \o due, ok)
    BY <1>5 DEF AgentSettled
  <2>2. /\ Queued(chain \o due, pending) /\ Len(chain \o due) >= Len(chain)
        /\ chain # << >> => Head(chain \o due) = Head(chain)
    BY DueQueued
  <2>3. chain # << >> => chain \o due # << >>
    <3>1. chain \in Seq(pending) /\ chain \o due \in Seq(pending)
      BY <1>1, <2>2 DEF Queued
    <3> QED
      BY <2>2, <3>1
  <2>4. CASE NoBatch /\ chain' = chain \o due
    BY <1>1, <2>2, <2>3, <2>4, StillGrows DEF NoBatch
  <2>5. CASE CreateAndRun(chain \o due, ok)
    BY <1>1, <2>2, <2>3, <2>5, CreateGrows
  <2> QED
    BY <2>1, <2>4, <2>5
<1>6. CASE SettledPrivate(ok)
  BY <1>4, <1>6 DEF SettledPrivate
<1>7. CASE IdleFires(ok)
  BY <1>2, <1>3, <1>4, <1>7 DEF IdleFires
<1>8. CASE ExtractNow(ok)
  BY <1>2, <1>3, <1>8 DEF ExtractNow
<1>9. CASE BeforeCompact(ok)
  BY <1>1, <1>4, <1>9, NewBatchGrows DEF BeforeCompact
<1> QED
  BY <1>5, <1>6, <1>7, <1>8, <1>9 DEF Trigger

\* What every step but a session change keeps.
Keeps == InLine' /\ Once' /\ (faults' = 0 => Advance)

LEMMA HeadPending ==
    ASSUME TypeOK, InLine, chain # << >>
    PROVE  /\ Head(chain) \in pending
           /\ flight.at # "idle" => flight.op \in pending /\ flight.op = Head(chain)
<1>1. chain \in Seq(pending)
  BY DEF InLine, Queued
<1>2. Head(chain) \in pending
  BY <1>1
<1> QED
  BY <1>2 DEF InLine

LEMMA TriggerKeeps ==
    ASSUME Base, NEW ok \in BOOLEAN, Trigger(ok)
    PROVE  Keeps
<1>1. Grows /\ TypeOK /\ InLine /\ Once
  BY TriggerGrows DEF Base
<1>2. /\ Quiet /\ UNCHANGED <<flight, jobs, life>>
      /\ nextOp \in Nat /\ nextOp' \in Nat
  BY <1>1, TriggerShape, TriggerStep DEF TriggerFrame, context, Base, TypeOK
<1>3. InLine'
  BY <1>1, <1>2 DEF Grows, InLine
<1>4. \A j \in jobs : j.op \in Nat
  BY <1>1 DEF TypeOK, Jobs, Ops
<1>5. \A j \in jobs : j.op \in pending' => j.op \in pending
  BY <1>1, <1>2, <1>4 DEF Grows, Once
<1>6. flight.at = "asked" => flight.sent \subseteq entryIds'[flight.op]
  <2>1. flight.at = "asked" => flight.op \in pending
    BY <1>1, HeadPending DEF InLine
  <2> QED
    BY <1>1, <2>1 DEF Grows, Once
<1>7. faults' = 0 => faults = 0
  BY <1>1 DEF Grows, Advance
<1>8. \A j \in jobs : j.op < nextOp'
  BY <1>1, <1>2, <1>4 DEF Grows, Once
<1>9. flight.at # "dropping"
  BY <1>2 DEF Quiet
<1>10. OncePerLife'
  BY <1>1, <1>2, <1>7 DEF Once, OncePerLife
<1> QED
  BY <1>1, <1>2, <1>3, <1>5, <1>6, <1>7, <1>8, <1>9, <1>10 DEF Keeps, Once, Grows

-----------------------------------------------------------------------------
(***************************************************************************)
(* The run.                                                                *)
(***************************************************************************)

\* A run that ends leaves the rest of the chain as it was.
LEMMA LeaveInLine ==
    ASSUME TypeOK, InLine, chain # << >>, Leave,
           pending' = pending \/ pending' = pending \ {Head(chain)}
    PROVE  InLine' /\ flight'.at = "idle"
<1>1. Queued(Tail(chain), pending \ {Head(chain)})
  BY TailQueued DEF InLine
<1>2. Queued(chain', pending')
  BY <1>1, WiderQueue DEF Leave
<1> QED
  BY <1>2 DEF Leave, NoFlight, InLine

\* Nothing is accepted, and the queue in memory stays as it is.
LEMMA SameQueueKeeps ==
    ASSUME Base, InLine', flight'.at # "dropping",
           UNCHANGED <<pending, entryIds, nextOp, jobs, life, skipped, consumed, registry>>,
           \/ flight' = flight
           \/ /\ \A j \in jobs : faults = 0 /\ j.life = life /\ j.op \in pending =>
                   flight'.op = j.op /\ flight'.at \in {"consuming", "dropping"}
              /\ flight'.at = "asked" => flight'.sent \subseteq entryIds[flight'.op],
           faults' = 0 => faults = 0,
           faults' = 0 => file' = file \/ file' = AsSaved(pending', entryIds')
    PROVE  Keeps
<1>1. Once'
  BY DEF Base, Once, OncePerLife
<1>2. entryIds \in [Ops -> SUBSET Entries] /\ pending \in SUBSET Ops
  BY DEF Base, TypeOK
<1>3. ASSUME faults' = 0 PROVE Advance
  <2>1. \A e \in Entries, o \in Ops : e \in file'[o] => e \in file[o] \/ Held(e, o)'
    BY <1>3 DEF AsSaved, Held
  <2>2. Synced => Synced'
    BY <1>3 DEF Synced
  <2> QED
    BY <1>3, <2>1, <2>2 DEF Advance, Held, Knows
<1> QED
  BY <1>1, <1>3 DEF Keeps

\* Until its run accepts it, no batch of the queue was accepted in this life.
LEMMA NotYetAccepted ==
    ASSUME Base, faults = 0, Quiet, NEW j \in jobs, j.life = life
    PROVE  j.op \notin pending
BY DEF Base, Once, Quiet

LEMMA EndedKeeps ==
    ASSUME Base, Quiet, chain # << >>, Leave, NEW ok \in BOOLEAN,
           UNCHANGED <<pending, entryIds, nextOp, jobs, life, skipped, consumed, registry>>,
           UNCHANGED <<file, faults>> \/ SaveBatches(ok)
    PROVE  Keeps
<1>1. InLine' /\ flight'.at = "idle"
  BY LeaveInLine DEF Base
<1>2. faults' = 0 => faults = 0 /\ (file' = file \/ file' = AsSaved(pending', entryIds'))
  BY SavedIs DEF Base
<1>3. \A j \in jobs : ~(faults = 0 /\ j.life = life /\ j.op \in pending)
  BY NotYetAccepted
<1> QED
  BY <1>1, <1>2, <1>3, SameQueueKeeps

LEMMA StartedKeeps ==
    ASSUME Base, NEW op \in Ops, RunVanished(op) \/ Ask(op)
    PROVE  Keeps
<1>1. /\ Starts(op) /\ chain # << >> /\ op = Head(chain) /\ flight.at = "idle"
      /\ UNCHANGED <<pending, entryIds, nextOp, jobs, life, skipped, consumed, registry, file,
                     faults, chain>>
  BY DEF RunVanished, Ask, Starts, RunFrame, context, NoFlight
<1>2. /\ flight'.op = op /\ flight'.at \notin {"dropping", "idle"}
      /\ flight'.at = "asked" => flight'.sent \subseteq entryIds[op]
  <2>1. CASE RunVanished(op)
    BY <2>1 DEF RunVanished, NoFlight
  <2>2. CASE Ask(op)
    BY <2>2 DEF Ask, Views
  <2> QED
    BY <2>1, <2>2
<1>3. InLine'
  BY <1>1, <1>2 DEF Base, InLine
<1>4. \A j \in jobs : ~(faults = 0 /\ j.life = life /\ j.op \in pending)
  BY <1>1, NotYetAccepted DEF Quiet
<1> QED
  BY <1>1, <1>2, <1>3, <1>4, SameQueueKeeps

LEMMA AcceptedKeeps ==
    ASSUME Base, NEW op \in Ops, ResultAccepted(op)
    PROVE  Keeps
<1> DEFINE j == [seq |-> Cardinality(jobs) + 1, op |-> op, life |-> life,
                 sent |-> flight.sent, claimed |-> entryIds[op]]
<1>1. /\ flight.at = "asked" /\ op = flight.op /\ jobs' = jobs \cup {j}
      /\ flight' = [flight EXCEPT !.at = "consuming"]
      /\ UNCHANGED <<pending, entryIds, nextOp, life, skipped, consumed, registry, file,
                     faults, chain>>
  BY DEF ResultAccepted, RunFrame, context
<1>2. /\ j.op = op /\ j.life = life /\ j.sent = flight.sent /\ j.claimed = entryIds[op]
  OBVIOUS
<1> HIDE DEF j
<1>3. chain # << >> /\ op = Head(chain) /\ op \in pending /\ flight \in Flights
  BY <1>1, HeadPending DEF Base, InLine, TypeOK
<1>4. flight'.at = "consuming" /\ flight'.op = op
  BY <1>1, <1>3 DEF Flights
<1>5. InLine'
  BY <1>1, <1>3, <1>4 DEF Base, InLine
<1>6. \A k \in jobs : ~(faults = 0 /\ k.life = life /\ k.op \in pending)
  BY <1>1, NotYetAccepted DEF Quiet
<1>7. Once'
  <2>1. j.op < nextOp /\ j.life <= life /\ j.sent \subseteq j.claimed
    <3>1. op < nextOp
      BY <1>3 DEF Base, IInv, Fresh, TypeOK
    <3>2. life \in Nat
      BY DEF Base, TypeOK
    <3> QED
      BY <1>1, <1>2, <3>1, <3>2 DEF Base, Once
  <2>2. OncePerLife'
    <3> SUFFICES ASSUME faults = 0, NEW k \in jobs', NEW l \in jobs', k.op = l.op, k.life = l.life
                 PROVE  k = l
      BY <1>1 DEF OncePerLife
    <3>1. CASE k \in jobs /\ l \in jobs
      BY <3>1 DEF Base, Once, OncePerLife
    <3>2. CASE k = j /\ l \in jobs
      BY <1>2, <1>3, <1>6, <3>2
    <3>3. CASE l = j /\ k \in jobs
      BY <1>2, <1>3, <1>6, <3>3
    <3> QED
      BY <1>1, <3>1, <3>2, <3>3
  <2>3. \A k \in jobs' : faults = 0 /\ k.life = life /\ k.op \in pending => k.op = op
    BY <1>1, <1>2, <1>6
  <2> QED
    BY <1>1, <1>4, <2>1, <2>2, <2>3 DEF Base, Once
<1>8. ASSUME faults' = 0 PROVE Advance
  <2>1. \A e \in j.claimed : Held(e, j.op)
    BY <1>2, <1>3 DEF Held
  <2> QED
    BY <1>1, <1>8, <2>1 DEF Advance, Held, Knows, Synced
<1> QED
  BY <1>5, <1>7, <1>8 DEF Keeps

LEMMA ConsumedKeeps ==
    ASSUME Base, NEW op \in Ops, NEW ok \in BOOLEAN, ConsumeBatch(op, ok)
    PROVE  Keeps
<1>1. /\ flight.at = "consuming" /\ op = flight.op /\ MarkConsumed(entryIds[op], ok)
      /\ UNCHANGED <<pending, entryIds, nextOp, jobs, life, skipped, file>>
      /\ \/ ok /\ flight' = [flight EXCEPT !.at = "dropping"] /\ UNCHANGED chain
         \/ ~ok /\ Leave
  BY DEF ConsumeBatch, RunFrame, context
<1>2. chain # << >> /\ op = Head(chain) /\ flight \in Flights /\ entryIds[op] \in SUBSET Entries
  BY <1>1 DEF Base, InLine, TypeOK
<1>3. faults' = 0 => /\ faults = 0 /\ ok /\ consumed' = consumed \cup entryIds[op]
                     /\ registry = consumed => registry' = consumed'
  BY <1>1, <1>2, MarkIs DEF Base
<1>4. /\ flight'.at # "asked"
      /\ ok => flight'.op = op /\ flight'.at = "dropping"
  <2>1. CASE Leave
    BY <1>1, <2>1 DEF Leave, NoFlight
  <2>2. CASE flight' = [flight EXCEPT !.at = "dropping"]
    BY <1>1, <1>2, <2>2 DEF Flights
  <2> QED
    BY <1>1, <2>1, <2>2
<1>5. InLine'
  <2>1. CASE Leave
    BY <1>1, <1>2, <2>1, LeaveInLine DEF Base
  <2>2. CASE ok /\ UNCHANGED chain
    BY <1>1, <1>2, <1>4, <2>2 DEF Base, InLine
  <2> QED
    BY <1>1, <2>1, <2>2
<1>6. Once'
  BY <1>1, <1>3, <1>4 DEF Base, Once, OncePerLife
<1>7. ASSUME faults' = 0 PROVE Advance
  BY <1>1, <1>3, <1>7 DEF Advance, Held, Knows, Synced
<1> QED
  BY <1>5, <1>6, <1>7 DEF Keeps

LEMMA DroppedKeeps ==
    ASSUME Base, NEW op \in Ops, NEW ok \in BOOLEAN, DropBatch(op, ok)
    PROVE  Keeps
<1>1. /\ flight.at = "dropping" /\ op = flight.op /\ pending' = pending \ {op}
      /\ SaveBatches(ok) /\ Leave
      /\ UNCHANGED <<entryIds, nextOp, jobs, life, skipped, consumed, registry>>
  BY DEF DropBatch, RunFrame, context
<1>2. chain # << >> /\ op = Head(chain) /\ entryIds \in [Ops -> SUBSET Entries]
  BY <1>1 DEF Base, InLine, TypeOK
<1>3. InLine' /\ flight'.at = "idle"
  BY <1>1, <1>2, LeaveInLine DEF Base
<1>4. faults' = 0 => faults = 0 /\ file' = AsSaved(pending', entryIds')
  BY <1>1, SavedIs DEF Base
<1>5. faults' = 0 => entryIds[op] \subseteq consumed
  BY <1>1, <1>4 DEF Base, Once
<1>6. Once'
  <2>1. faults = 0 => \A j \in jobs : ~(j.life = life /\ j.op \in pending')
    BY <1>1 DEF Base, Once
  <2> QED
    BY <1>1, <1>3, <1>4, <2>1 DEF Base, Once, OncePerLife
<1>7. ASSUME faults' = 0 PROVE Advance
  <2>1. \A e \in Entries, o \in Ops : Held(e, o) => Knows(e, o)'
    BY <1>1, <1>5, <1>7 DEF Held, Knows
  <2>2. \A e \in Entries, o \in Ops : Held(e, o)' => Held(e, o)
    BY <1>1 DEF Held
  <2>3. \A e \in Entries, o \in Ops : e \in file'[o] => Held(e, o)'
    BY <1>4, <1>7 DEF AsSaved, Held
  <2>4. Synced => Synced'
    BY <1>1, <1>4, <1>7 DEF Synced
  <2> QED
    BY <1>1, <1>4, <1>7, <2>1, <2>2, <2>3, <2>4 DEF Advance
<1> QED
  BY <1>3, <1>6, <1>7 DEF Keeps

LEMMA RunKeeps ==
    ASSUME Base, NEW op \in Ops, NEW ok \in BOOLEAN, Run(op, ok)
    PROVE  Keeps
<1>1. flight.at # "idle" => chain # << >>
  BY DEF Base, InLine
<1>2. CASE RunHeld(op)
  BY <1>2, EndedKeeps DEF RunHeld, Starts, NoFlight, Quiet, RunFrame, context
<1>3. ASSUME Fail(op, ok), chain # << >>, Quiet PROVE Keeps
  BY <1>3, EndedKeeps DEF Fail, RunFrame, context
<1>4. CASE RunRefused(op, ok)
  BY <1>3, <1>4 DEF RunRefused, Starts, NoFlight, Quiet
<1>5. CASE ExtractFails(op, ok)
  BY <1>1, <1>3, <1>5 DEF ExtractFails, Quiet
<1>6. CASE ResultDropped(op)
  BY <1>1, <1>6, EndedKeeps DEF ResultDropped, Quiet, RunFrame, context
<1> QED
  BY <1>2, <1>4, <1>5, <1>6, StartedKeeps, AcceptedKeeps, ConsumedKeeps, DroppedKeeps DEF Run

-----------------------------------------------------------------------------
(***************************************************************************)
(* The surroundings.                                                       *)
(***************************************************************************)

LEMMA OutsideKeeps ==
    ASSUME Base, Outside
    PROVE  Keeps
<1>1. UNCHANGED <<pending, entryIds, nextOp, jobs, life, skipped, consumed, registry, file,
                  faults, chain, flight>>
      /\ flight.at # "dropping"
  BY DEF Outside, Arrive, TogglePrivate, CancelTree, Cooldown, BeforeTree, memory, context,
         history, Quiet
<1>2. InLine'
  BY <1>1 DEF Base, InLine
<1> QED
  BY <1>1, <1>2, SameQueueKeeps

LEMMA TreeKeeps ==
    ASSUME Base, NEW ok \in BOOLEAN, Tree(ok)
    PROVE  Keeps
<1>1. /\ MarkConsumed(stash, ok) /\ stash \in SUBSET Entries
      /\ UNCHANGED <<pending, entryIds, nextOp, jobs, life, skipped, file, chain, flight>>
      /\ flight.at # "dropping"
  BY DEF Tree, Quiet, Base, TypeOK
<1>2. faults' = 0 => /\ faults = 0 /\ consumed' = consumed \cup stash
                     /\ registry = consumed => registry' = consumed'
  BY <1>1, MarkIs DEF Base
<1>3. InLine' /\ Once'
  BY <1>1, <1>2 DEF Base, InLine, Once, OncePerLife
<1>4. ASSUME faults' = 0 PROVE Advance
  BY <1>1, <1>2, <1>4 DEF Advance, Held, Knows, Synced
<1> QED
  BY <1>3, <1>4 DEF Keeps

-----------------------------------------------------------------------------
(***************************************************************************)
(* Attribution.                                                            *)
(***************************************************************************)

LEMMA AdvanceAttributes ==
    ASSUME Advance, TypeOK', BatchesDisjoint', NEW R, Attributed(R)
    PROVE  Attributed(R)'
<1>1. \A e \in Entries, o \in Ops :
         Placed(R, e, o)' => Placed(R, e, o) \/ (Free(e) /\ Held(e, o)')
  <2> SUFFICES ASSUME NEW e \in Entries, NEW o \in Ops, Placed(R, e, o)', ~Placed(R, e, o)
               PROVE  Free(e) /\ Held(e, o)'
    OBVIOUS
  <2>1. ~Held(e, o) /\ e \notin file[o] /\ <<e, o>> \notin R
        /\ \A j \in jobs : ~(j.op = o /\ e \in j.claimed)
    BY DEF Placed
  <2>2. \A j \in jobs' : ~(j.op = o /\ e \in j.claimed)
    BY <2>1 DEF Advance
  <2>3. e \in file'[o] \/ Held(e, o)'
    BY <2>1, <2>2 DEF Placed
  <2> QED
    BY <2>1, <2>3 DEF Advance
<1>2. \A e \in Entries, o \in Ops : Free(e) => ~Placed(R, e, o)
  BY DEF Attributed, Knows, Held, Free
<1>3. \A e \in Entries, o \in Ops : Placed(R, e, o)' => Knows(e, o)' /\ e \notin skipped'
  <2> SUFFICES ASSUME NEW e \in Entries, NEW o \in Ops, Placed(R, e, o)'
               PROVE  Knows(e, o)' /\ e \notin skipped'
    OBVIOUS
  <2>1. CASE Placed(R, e, o)
    <3>1. Knows(e, o) /\ e \notin skipped /\ ~Free(e)
      BY <1>2, <2>1 DEF Attributed
    <3> QED
      BY <3>1 DEF Advance, Knows
  <2>2. CASE Free(e) /\ Held(e, o)'
    <3>1. e \notin skipped /\ ~Held(e, o)
      BY <2>2 DEF Attributed, Free, Held
    <3>2. skipped' = skipped
      BY <2>2, <3>1 DEF Advance
    <3> QED
      BY <2>2, <3>1, <3>2 DEF Knows
  <2> QED
    BY <1>1, <2>1, <2>2
<1>4. \A e \in Entries, o, p \in Ops : Placed(R, e, o)' /\ Placed(R, e, p)' => o = p
  <2> SUFFICES ASSUME NEW e \in Entries, NEW o \in Ops, NEW p \in Ops,
                      Placed(R, e, o)', Placed(R, e, p)'
               PROVE  o = p
    OBVIOUS
  <2>1. CASE Placed(R, e, o) /\ Placed(R, e, p)
    BY <2>1 DEF Attributed
  <2>2. CASE Held(e, o)' /\ Held(e, p)'
    BY <2>2 DEF Held, BatchesDisjoint
  <2> QED
    BY <1>1, <1>2, <2>1, <2>2
<1>5. skipped' \subseteq consumed'
  BY DEF Advance, Attributed
<1> QED
  BY <1>3, <1>4, <1>5 DEF Attributed

\* A job claims what the model was sent, and neither it nor a flight is for what
\* was classified.
LEMMA AttributedSafe ==
    ASSUME Once, TypeOK, faults = 0, NEW R, Attributed(R)
    PROVE  /\ NeverDuplicated /\ skipped \cap Claimed = {} /\ skipped \cap Sent = {}
<1>1. \A j \in jobs : j.op \in Ops /\ j.claimed \subseteq Entries
  BY DEF TypeOK, Jobs
<1>2. \A j \in jobs, e \in Entries : e \in j.claimed => Placed(R, e, j.op)
  BY DEF Placed
<1>3. \A j \in jobs : \A e \in j.claimed : e \notin skipped
  BY <1>1, <1>2 DEF Attributed
<1>4. NeverDuplicated
  <2> SUFFICES ASSUME NEW j \in jobs, NEW k \in jobs, NEW e \in j.claimed, e \in k.claimed
               PROVE  j.op = k.op
    BY DEF NeverDuplicated
  <2> QED
    BY <1>1, <1>2 DEF Attributed
<1>5. \A j \in jobs : j.sent \subseteq j.claimed
  BY DEF Once
<1>6. skipped \cap Claimed = {}
  BY <1>3 DEF Claimed
<1>7. skipped \cap Sent = {}
  BY <1>3, <1>5 DEF Sent
<1> QED
  BY <1>4, <1>6, <1>7

-----------------------------------------------------------------------------
(***************************************************************************)
(* One runtime at a time (ObserverScheduler).                              *)
(***************************************************************************)

SInv == Base /\ (faults = 0 => Synced /\ Attributed({}))

\* What is on disk is the queue of the next runtime.
LEMMA RestartKeeps ==
    ASSUME SInv, NEW s \in Sessions, Restart(s)
    PROVE  SInv'
<1>1. /\ life' = life + 1 /\ consumed' = registry /\ entryIds' = file
      /\ pending' = {o \in Ops : file[o] # {}} /\ chain' = << >> /\ flight' = NoFlight
      /\ UNCHANGED <<registry, file, nextOp, jobs, skipped, faults>>
  BY DEF Restart, Rebuilt, history
<1>2. TypeOK' /\ IInv'
  BY RestartStep DEF SInv, Base
<1>3. InLine'
  BY <1>1 DEF InLine, Queued, NoFlight
<1>4. life \in Nat /\ file \in [Ops -> SUBSET Entries] /\ entryIds \in [Ops -> SUBSET Entries]
  BY DEF SInv, Base, TypeOK
<1>5. Once'
  <2>1. \A j \in jobs : j.life \in Nat /\ j.life <= life
    BY DEF SInv, Base, Once, TypeOK, Jobs
  <2>2. \A j \in jobs : j.life <= life' /\ j.life # life'
    BY <1>1, <1>4, <2>1
  <2> QED
    BY <1>1, <2>2 DEF SInv, Base, Once, OncePerLife, NoFlight
<1>6. ASSUME faults = 0 PROVE Synced' /\ Attributed({})'
  <2>1. Synced /\ Attributed({})
    BY <1>6 DEF SInv
  <2>2. consumed' = consumed /\ \A e \in Entries, o \in Ops : Held(e, o)' <=> Held(e, o)
    BY <1>1, <2>1 DEF Synced, AsSaved, Held
  <2>3. file' = AsSaved(pending', entryIds')
    BY <1>1, <1>4 DEF AsSaved
  <2>4. \A e \in Entries, o \in Ops : Placed({}, e, o)' => Placed({}, e, o)
    BY <1>1, <2>2 DEF Placed
  <2> QED
    BY <1>1, <2>1, <2>2, <2>3, <2>4 DEF Synced, Attributed, Knows
<1> QED
  BY <1>1, <1>2, <1>3, <1>5, <1>6 DEF SInv, Base

LEMMA SInvStep == SInv /\ [Next]_vars => SInv'
<1> SUFFICES ASSUME SInv, [Next]_vars PROVE SInv'
  OBVIOUS
<1>1. CASE UNCHANGED vars
  BY <1>1 DEF vars, SInv, Base, TypeOK, IInv, ConsumedIsAccounted, Claimed, BatchesDisjoint,
              Fresh, Settled, Running, InLine, Once, OncePerLife, Synced, Attributed, Placed,
              Knows, Held
<1>2. TypeOK' /\ IInv'
  BY StepGood DEF SInv, Base
<1>3. Keeps => SInv'
  <2> SUFFICES ASSUME Keeps, faults' = 0 PROVE Synced' /\ Attributed({})'
    BY <1>2 DEF Keeps, SInv, Base
  <2>1. Advance /\ faults = 0
    BY DEF Keeps, Advance
  <2>2. Synced /\ Attributed({})
    BY <2>1 DEF SInv
  <2> QED
    BY <1>2, <2>1, <2>2, AdvanceAttributes DEF Advance, IInv
<1>4. CASE Next
  BY <1>3, <1>4, TriggerKeeps, RunKeeps, OutsideKeeps, TreeKeeps, RestartKeeps
     DEF Next, Outside, SInv
<1> QED
  BY <1>1, <1>4

LEMMA InitSInv == Init => SInv
<1> SUFFICES ASSUME Init PROVE SInv
  OBVIOUS
<1>1. TypeOK /\ IInv
  BY InitGood
<1>2. /\ jobs = {} /\ pending = {} /\ chain = << >> /\ flight = NoFlight /\ skipped = {}
      /\ consumed = {} /\ registry = {} /\ file = [o \in Ops |-> {}]
  BY DEF Init
<1>3. InLine
  BY <1>2 DEF InLine, Queued, NoFlight
<1>4. Once
  BY <1>2 DEF Once, OncePerLife, NoFlight
<1>5. Synced /\ Attributed({})
  BY <1>2 DEF Synced, AsSaved, Attributed, Placed, Held
<1> QED
  BY <1>1, <1>3, <1>4, <1>5 DEF SInv, Base

\* In one runtime after the other, through any interleaving of triggers, runs,
\* navigations and restarts, and as long as no write throws: each batch is accepted
\* once by a runtime, the model is called with what is on disk, and an entry that was
\* classified private-session is in no accepted job (enqueueRun, runBatch,
\* classifyPrivateSession).
THEOREM CallsAreSafe == Spec => [](OncePerLife /\ AskedIsDurable /\ SkippedNeverSent)
<1>1. SInv => OncePerLife /\ AskedIsDurable /\ SkippedNeverSent
  <2> SUFFICES ASSUME SInv PROVE OncePerLife /\ AskedIsDurable /\ SkippedNeverSent
    OBVIOUS
  <2>1. OncePerLife
    BY DEF SInv, Base, Once
  <2>2. AskedIsDurable
    <3> SUFFICES ASSUME faults = 0, flight.at = "asked"
                 PROVE  flight.sent \subseteq file[flight.op]
      BY DEF AskedIsDurable
    <3>1. flight.op \in pending /\ flight.op \in Ops
      BY HeadPending DEF SInv, Base, InLine, TypeOK
    <3> QED
      BY <3>1 DEF SInv, Base, Once, Synced, AsSaved
  <2>3. SkippedNeverSent
    BY AttributedSafe DEF SInv, Base, SkippedNeverSent
  <2> QED
    BY <2>1, <2>2, <2>3
<1>2. Spec => []SInv
  BY InitSInv, SInvStep, PTL DEF Spec
<1> QED
  BY <1>1, <1>2, PTL

-----------------------------------------------------------------------------
(***************************************************************************)
(* Schedulers of ended sessions: the steps of the runtime that is up.      *)
(***************************************************************************)

\* Without a write that throws, histories and the opId only grow.
LEMMA UpGrows ==
    ASSUME Base, Outside \/ Trigger(TRUE) \/ \E op \in Ops : Run(op, TRUE)
    PROVE  /\ faults' = faults /\ life' = life /\ nextOp <= nextOp'
           /\ Claimed \subseteq Claimed' /\ gone \subseteq gone' /\ skipped \subseteq skipped'
           /\ summarised' = summarised
<1>1. nextOp \in Nat
  BY DEF Base, TypeOK
<1>2. CASE Outside
  <2>1. UNCHANGED <<faults, life, nextOp, jobs, gone, skipped, summarised>>
    BY <1>2 DEF Outside, Arrive, TogglePrivate, CancelTree, Cooldown, BeforeTree, memory,
                context, history
  <2> QED
    BY <1>1, <2>1 DEF Claimed
<1>3. CASE Trigger(TRUE)
  <2>1. UNCHANGED <<life, jobs, gone, summarised>> /\ nextOp <= nextOp'
    BY <1>3, TriggerShape, TriggerGrows DEF Base, TriggerFrame, context, Grows
  <2>2. faults' = faults /\ skipped \subseteq skipped'
    BY <1>3 DEF Trigger, SettledPrivate, AgentSettled, IdleFires, ExtractNow, BeforeCompact,
       ClassifyPrivate, MarkConsumed, Write, NoBatch, CreateAndRun, SaveBatches
  <2> QED
    BY <2>1, <2>2 DEF Claimed
<1>4. ASSUME NEW op \in Ops, Run(op, TRUE)
      PROVE  /\ faults' = faults /\ UNCHANGED <<life, nextOp, skipped, summarised>>
             /\ jobs \subseteq jobs' /\ gone \subseteq gone'
  <2>1. CASE RunRefused(op, TRUE) \/ ExtractFails(op, TRUE)
    BY <2>1 DEF RunRefused, ExtractFails, Fail, SaveBatches, Write, RunFrame, context
  <2>2. CASE ConsumeBatch(op, TRUE) \/ DropBatch(op, TRUE)
    BY <2>2 DEF ConsumeBatch, MarkConsumed, DropBatch, SaveBatches, Write, RunFrame, context
  <2>3. CASE RunVanished(op) \/ RunHeld(op) \/ Ask(op) \/ ResultDropped(op) \/ ResultAccepted(op)
    BY <2>3 DEF RunVanished, RunHeld, Ask, ResultDropped, ResultAccepted, RunFrame, context
  <2> QED
    BY <1>4, <2>1, <2>2, <2>3 DEF Run
<1>5. CASE \E op \in Ops : Run(op, TRUE)
  <2>1. /\ faults' = faults /\ UNCHANGED <<life, nextOp, skipped, summarised>>
        /\ jobs \subseteq jobs' /\ gone \subseteq gone'
    BY <1>4, <1>5
  <2> QED
    BY <1>1, <2>1 DEF Claimed
<1> QED
  BY <1>2, <1>3, <1>5

LEMMA LeavingsStay ==
    ASSUME TypeOK, TypeOK', HandoverTypeOK, Leavings, UNCHANGED old,
           nextOp <= nextOp', life <= life',
           Claimed \cup skipped \cup summarised \cup gone
             \subseteq Claimed' \cup skipped' \cup summarised' \cup gone',
           UNCHANGED <<switches, lost>>
    PROVE  HandoverTypeOK' /\ Leavings'
<1>1. nextOp \in Nat /\ nextOp' \in Nat /\ life \in Nat /\ life' \in Nat
  BY DEF TypeOK
<1>2. \A r \in old : r.pending \subseteq Nat /\ r.life \in Nat
  BY DEF HandoverTypeOK, Leftovers, Ops
<1>3. \A r \in old : r.life < life'
  BY <1>1, <1>2 DEF HandoverTypeOK
<1>4. \A r \in old : \A o \in r.pending : o < nextOp'
  BY <1>1, <1>2 DEF Leavings
<1> QED
  BY <1>3, <1>4 DEF HandoverTypeOK, Leavings

LEMMA UpHandover ==
    ASSUME HInv, Outside \/ Trigger(TRUE) \/ \E op \in Ops : Run(op, TRUE), UNCHANGED leftover
    PROVE  HInv'
<1>1. Base /\ UNCHANGED <<old, switches, lost>>
  BY DEF HInv, Base, leftover
<1>2. TypeOK' /\ IInv'
  BY TriggerStep, RunStep, OutsideStep DEF HInv
<1>3. Keeps
  BY <1>1, TriggerKeeps, RunKeeps, OutsideKeeps
<1>4. /\ faults' = 0 /\ life' = life /\ nextOp <= nextOp'
      /\ Claimed \cup skipped \cup summarised \cup gone
           \subseteq Claimed' \cup skipped' \cup summarised' \cup gone'
  BY <1>1, UpGrows DEF HInv
<1>5. HandoverTypeOK' /\ Leavings'
  BY <1>1, <1>2, <1>4, LeavingsStay DEF HInv, TypeOK
<1>6. Advance
  BY <1>3, <1>4 DEF Keeps
<1>7. Attributed(OldPairs) => Attributed(OldPairs)'
  <2> SUFFICES ASSUME Attributed(OldPairs) PROVE Attributed(OldPairs)'
    OBVIOUS
  <2>1. OldPairs' = OldPairs
    BY <1>1 DEF OldPairs
  <2>2. PICK R : R = OldPairs
    OBVIOUS
  <2>3. Attributed(R)
    BY <2>2 DEF Attributed, Placed
  <2>4. Attributed(R)'
    BY <1>2, <1>6, <2>3, AdvanceAttributes DEF IInv
  <2> QED
    BY <2>1, <2>2, <2>4 DEF Attributed, Placed
<1> QED
  BY <1>1, <1>2, <1>3, <1>4, <1>5, <1>6, <1>7 DEF HInv, Keeps, Advance

-----------------------------------------------------------------------------
(***************************************************************************)
(* A session change and a crash.                                           *)
(***************************************************************************)

\* The next runtime has the queue of the file.
LEMMA RebuiltGood ==
    ASSUME TypeOK, IInv, Once, NEW s \in Sessions, Rebuilt(s), faults = 0,
           consumed' = registry', consumed' \in {consumed, registry}
    PROVE  TypeOK' /\ IInv' /\ InLine' /\ Once' /\ Synced' /\ life' = life + 1
<1>1. /\ life' = life + 1 /\ session' = s /\ entryIds' = file
      /\ pending' = {o \in Ops : file[o] # {}} /\ chain' = << >> /\ flight' = NoFlight
      /\ idle' = FALSE /\ navigating' = FALSE /\ stash' = {}
      /\ UNCHANGED <<log, private, gen, file, nextOp, cooling, jobs, skipped, summarised, gone,
                     faults>>
  BY DEF Rebuilt, history
<1>2. /\ life \in Nat /\ file \in [Ops -> SUBSET Entries]
      /\ consumed' \in SUBSET Entries /\ registry' \in SUBSET Entries
  BY DEF TypeOK
<1>3. TypeOK'
  <2>1. stash' \in SUBSET Entries /\ idle' \in BOOLEAN /\ navigating' \in BOOLEAN
    BY <1>1
  <2>5. chain' \in Seq(Ops)
    BY <1>1
  <2>6. life' \in Nat
    BY <1>1, <1>2
  <2>2. flight' \in Flights
    BY <1>1 DEF NoFlight, Flights, Stages
  <2>3. pending' \in SUBSET Ops
    BY <1>1
  <2>4. entryIds' \in [Ops -> SUBSET Entries]
    BY <1>1, <1>2
  <2> QED
    BY <1>1, <1>2, <2>1, <2>2, <2>3, <2>4, <2>5, <2>6 DEF TypeOK
<1>4. IInv'
  <2>1. ConsumedIsAccounted'
    BY <1>1 DEF IInv, ConsumedIsAccounted, Claimed
  <2>2. BatchesDisjoint' /\ Fresh' /\ Settled' /\ Running'
    BY <1>1 DEF IInv, BatchesDisjoint, Fresh, Settled, Running, NoFlight
  <2> QED
    BY <1>1, <2>1, <2>2 DEF IInv
<1>5. InLine'
  BY <1>1 DEF InLine, Queued, NoFlight
<1>6. Once'
  <2>1. \A j \in jobs : j.life \in Nat /\ j.life <= life
    BY DEF Once, TypeOK, Jobs
  <2>2. \A j \in jobs : j.life <= life' /\ j.life # life'
    BY <1>1, <1>2, <2>1
  <2> QED
    BY <1>1, <2>2 DEF Once, OncePerLife, NoFlight
<1>7. Synced'
  BY <1>1, <1>2 DEF Synced, AsSaved
<1> QED
  BY <1>1, <1>3, <1>4, <1>5, <1>6, <1>7

\* From files that lack nothing of what the last runtime knew it knows as much.
LEMMA RebuiltAttributed ==
    ASSUME TypeOK, Recorded, consumed \subseteq consumed', NEW s \in Sessions, Rebuilt(s),
           Attributed(OldPairs),
           \A x \in OldPairs' : x \in OldPairs \/ Held(x[1], x[2])
    PROVE  Attributed(OldPairs)'
<1>1. /\ entryIds' = file /\ pending' = {o \in Ops : file[o] # {}}
      /\ UNCHANGED <<file, jobs, skipped>>
  BY DEF Rebuilt, history
<1>2. \A e \in Entries, o \in Ops : Held(e, o)' <=> e \in file[o]
  BY <1>1 DEF Held
<1>3. \A e \in Entries, o \in Ops : Placed(OldPairs, e, o)' => Placed(OldPairs, e, o)
  <2> SUFFICES ASSUME NEW e \in Entries, NEW o \in Ops, Placed(OldPairs, e, o)'
               PROVE  Placed(OldPairs, e, o)
    OBVIOUS
  <2>1. \/ e \in file[o] \/ <<e, o>> \in OldPairs'
        \/ \E j \in jobs : j.op = o /\ e \in j.claimed
    BY <1>1, <1>2 DEF Placed
  <2>2. <<e, o>> \in OldPairs' => <<e, o>> \in OldPairs \/ Held(e, o)
    <3>1. <<e, o>>[1] = e /\ <<e, o>>[2] = o
      OBVIOUS
    <3> QED
      BY <3>1
  <2> QED
    BY <2>1, <2>2 DEF Placed
<1>4. \A e \in Entries, o \in Ops : Knows(e, o) => Knows(e, o)'
  BY <1>2 DEF Recorded, Knows, Held
<1>5. skipped' \subseteq consumed'
  BY <1>1 DEF Attributed
<1> QED
  BY <1>1, <1>3, <1>4, <1>5 DEF Attributed

LEMMA SwitchKeeps ==
    ASSUME HInv, NEW s \in Sessions, Switch(s)
    PROVE  HInv'
<1>1. /\ Quiet /\ switches' = switches + 1 /\ Rebuilt(s)
      /\ registry' = consumed /\ consumed' = consumed /\ lost' = (lost \/ ~Recorded)
      /\ old' = IF chain = << >> THEN old ELSE old \cup {Left}
  BY DEF Switch
<1>2. /\ TypeOK /\ IInv /\ InLine /\ Once /\ HandoverTypeOK /\ Leavings /\ faults = 0
      /\ switches \in Nat /\ lost \in BOOLEAN
  BY DEF HInv, HandoverTypeOK
<1>3. TypeOK' /\ IInv' /\ InLine' /\ Once' /\ life' = life + 1
  BY <1>1, <1>2, RebuiltGood
<1>4. UNCHANGED <<faults, nextOp, skipped, summarised, gone, jobs>>
  BY <1>1 DEF Rebuilt, history
<1>5. /\ Left.life = life /\ Left.consumed = consumed /\ Left.pending = pending
      /\ Left.ids = entryIds /\ Left.chain = chain /\ Left.asked = flight.op
      /\ Left \in Leftovers
  <2>1. flight.op \in Ops \cup {0}
    BY <1>2 DEF TypeOK, Flights
  <2> QED
    BY <1>2, <2>1 DEF Left, Leftovers, TypeOK
<1>6. chain # << >> => Left.asked \in {0, Head(Left.chain)}
  BY <1>2, <1>5 DEF InLine
<1>7. HandoverTypeOK'
  <2>1. \A r \in old' : r \in Leftovers /\ r.life < life' /\ r.chain # << >>
                        /\ r.asked \in {0, Head(r.chain)}
    <3> SUFFICES ASSUME NEW r \in old'
                 PROVE  r \in Leftovers /\ r.life < life' /\ r.chain # << >>
                        /\ r.asked \in {0, Head(r.chain)}
      OBVIOUS
    <3>1. life \in Nat
      BY <1>2 DEF TypeOK
    <3>2. CASE r \in old
      <4>1. r.life \in Nat /\ r.life < life
        BY <1>2, <3>2 DEF HandoverTypeOK, Leftovers
      <4> QED
        BY <1>2, <1>3, <3>1, <3>2, <4>1 DEF HandoverTypeOK
    <3>3. CASE r = Left /\ chain # << >>
      BY <1>3, <1>5, <1>6, <3>1, <3>3
    <3> QED
      BY <1>1, <3>2, <3>3
  <2> QED
    BY <1>1, <1>2, <2>1 DEF HandoverTypeOK
<1>8. Leavings'
  <2>1. Claimed' = Claimed
    BY <1>4 DEF Claimed
  <2>2. ASSUME NEW r \in old'
        PROVE  /\ r.consumed \subseteq Claimed \cup skipped \cup summarised \cup gone
               /\ \A o \in r.pending : o < nextOp
               /\ \A o, p \in r.pending : o # p => r.ids[o] \cap r.ids[p] = {}
    <3>1. CASE r \in old
      BY <1>2, <3>1 DEF Leavings
    <3>2. CASE r = Left
      BY <1>2, <1>5, <3>2 DEF IInv, ConsumedIsAccounted, BatchesDisjoint, Fresh, TypeOK
    <3> QED
      BY <1>1, <2>2, <3>1, <3>2
  <2> QED
    BY <1>4, <2>1, <2>2 DEF Leavings
<1>9. ASSUME ~lost' PROVE Attributed(OldPairs)'
  <2>1. Recorded /\ Attributed(OldPairs)
    BY <1>1, <1>2, <1>9 DEF HInv
  <2>2. \A x \in OldPairs' : x \in OldPairs \/ Held(x[1], x[2])
    <3> SUFFICES ASSUME NEW x \in Entries \X Ops, NEW r \in old',
                        x[2] \in r.pending, x[1] \in r.ids[x[2]]
                 PROVE  x \in OldPairs \/ Held(x[1], x[2])
      BY DEF OldPairs
    <3>1. CASE r \in old
      BY <3>1 DEF OldPairs
    <3>2. CASE r = Left
      BY <1>5, <3>2 DEF Held
    <3> QED
      BY <1>1, <3>1, <3>2
  <2> QED
    BY <1>1, <1>2, <2>1, <2>2, RebuiltAttributed
<1> QED
  BY <1>1, <1>2, <1>3, <1>4, <1>7, <1>8, <1>9 DEF HInv

LEMMA CrashKeeps ==
    ASSUME HInv, NEW s \in Sessions, Crash(s)
    PROVE  HInv'
<1>1. /\ Rebuilt(s) /\ consumed' = registry /\ registry' = registry /\ switches' = switches
      /\ old' = {} /\ lost' = (lost \/ ~Recorded \/ ~(consumed \subseteq registry))
  BY DEF Crash
<1>2. /\ TypeOK /\ IInv /\ InLine /\ Once /\ HandoverTypeOK /\ faults = 0
      /\ switches \in Nat /\ lost \in BOOLEAN
  BY DEF HInv, HandoverTypeOK
<1>3. TypeOK' /\ IInv' /\ InLine' /\ Once' /\ Synced'
  BY <1>1, <1>2, RebuiltGood
<1>4. HandoverTypeOK' /\ Leavings'
  BY <1>1, <1>2 DEF HandoverTypeOK, Leavings
<1>5. Synced => Recorded /\ consumed \subseteq registry
  BY <1>2 DEF Synced, AsSaved, Recorded, TypeOK
<1>6. ASSUME ~lost' PROVE Attributed(OldPairs)'
  <2>1. Recorded /\ Attributed(OldPairs) /\ consumed \subseteq consumed'
    BY <1>1, <1>2, <1>6 DEF HInv
  <2>2. OldPairs' = {}
    BY <1>1 DEF OldPairs
  <2> QED
    BY <1>1, <1>2, <2>1, <2>2, RebuiltAttributed
<1>7. faults' = 0
  BY <1>1, <1>2 DEF Rebuilt
<1> QED
  BY <1>1, <1>2, <1>3, <1>4, <1>5, <1>6, <1>7 DEF HInv

-----------------------------------------------------------------------------
(***************************************************************************)
(* The steps of a scheduler whose session has ended.                       *)
(***************************************************************************)

\* The scheduler r writes no more than it knows, and comes to q.
LEMMA LeftKeeps ==
    ASSUME HInv, NEW r \in old, NEW q, Becomes(r, q), LeftFrame,
           q.chain # << >> => q \in Leftovers /\ q.asked \in {0, Head(q.chain)},
           q.life = r.life, q.ids = r.ids, q.pending \subseteq r.pending,
           q.consumed \subseteq r.consumed \cup gone',
           gone' \in SUBSET Entries, gone \subseteq gone',
           registry' \in SUBSET Entries, registry' \subseteq registry \cup r.consumed \cup gone',
           NEW P \in SUBSET r.pending, file' \in {file, AsSaved(P, r.ids)}
    PROVE  HInv'
<1>1. /\ UNCHANGED <<log, session, private, gen, life, stash, navigating>>
      /\ UNCHANGED <<consumed, pending, entryIds, nextOp, chain, flight, cooling, idle>>
      /\ UNCHANGED <<jobs, skipped, summarised, faults, switches, lost>>
  BY DEF LeftFrame, context, memory
<1>2. /\ TypeOK /\ IInv /\ InLine /\ Once /\ HandoverTypeOK /\ Leavings /\ faults = 0
      /\ switches # 0
  BY DEF HInv
<1>3. /\ r.pending \in SUBSET Ops /\ r.ids \in [Ops -> SUBSET Entries] /\ r.life < life
      /\ \A o \in r.pending : o < nextOp
      /\ \A o, p \in r.pending : o # p => r.ids[o] \cap r.ids[p] = {}
      /\ r.consumed \subseteq Claimed \cup skipped \cup summarised \cup gone
  BY <1>2 DEF HandoverTypeOK, Leftovers, Leavings
<1>4. \A o \in Ops : file'[o] = file[o] \/ (file'[o] = r.ids[o] /\ o \in r.pending) \/ file'[o] = {}
  BY DEF AsSaved
<1>5. file' \in [Ops -> SUBSET Entries]
  BY <1>2, <1>3 DEF TypeOK, AsSaved
<1>6. TypeOK'
  BY <1>1, <1>2, <1>5 DEF TypeOK
<1>7. IInv'
  <2>1. Claimed' = Claimed
    BY <1>1 DEF Claimed
  <2>2. ConsumedIsAccounted'
    BY <1>1, <1>2, <1>3, <2>1 DEF IInv, ConsumedIsAccounted
  <2>3. BatchesDisjoint'
    <3> SUFFICES ASSUME NEW o \in Ops, NEW p \in Ops, o # p PROVE file'[o] \cap file'[p] = {}
      BY <1>1, <1>2 DEF IInv, BatchesDisjoint
    <3>1. CASE file' = file
      BY <1>2, <3>1 DEF IInv, BatchesDisjoint
    <3>2. CASE file' = AsSaved(P, r.ids)
      BY <1>3, <3>2 DEF AsSaved
    <3> QED
      BY <3>1, <3>2
  <2>4. Fresh'
    BY <1>1, <1>2, <1>3, <1>4 DEF IInv, Fresh
  <2> QED
    BY <1>1, <1>2, <2>1, <2>2, <2>3, <2>4 DEF IInv, Settled, Running
<1>8. InLine' /\ Once'
  BY <1>1, <1>2 DEF InLine, Once, OncePerLife
<1>9. \A x \in old' : x \in old \/ (x = q /\ q.chain # << >>)
  BY DEF Becomes
<1>10. HandoverTypeOK'
  BY <1>1, <1>2, <1>3, <1>9 DEF HandoverTypeOK
<1>11. Leavings'
  <2>1. Claimed' = Claimed
    BY <1>1 DEF Claimed
  <2>2. \A x \in old : /\ x.consumed \subseteq Claimed \cup skipped \cup summarised \cup gone'
                       /\ \A o \in x.pending : o < nextOp
                       /\ \A o, p \in x.pending : o # p => x.ids[o] \cap x.ids[p] = {}
    BY <1>2 DEF Leavings
  <2>3. /\ q.consumed \subseteq Claimed \cup skipped \cup summarised \cup gone'
        /\ \A o \in q.pending : o < nextOp
        /\ \A o, p \in q.pending : o # p => q.ids[o] \cap q.ids[p] = {}
    BY <1>3
  <2> QED
    BY <1>1, <1>9, <2>1, <2>2, <2>3 DEF Leavings
<1>12. ASSUME ~lost' PROVE Attributed(OldPairs)'
  <2>1. Attributed(OldPairs)
    BY <1>1, <1>12 DEF HInv
  <2>2. OldPairs' \subseteq OldPairs
    BY <1>9 DEF OldPairs
  <2>3. \A e \in Entries, o \in Ops : o \in r.pending /\ e \in r.ids[o] => <<e, o>> \in OldPairs
    <3> SUFFICES ASSUME NEW e \in Entries, NEW o \in Ops, o \in r.pending, e \in r.ids[o]
                 PROVE  <<e, o>> \in OldPairs
      OBVIOUS
    <3> DEFINE x == <<e, o>>
    <3>1. x \in Entries \X Ops /\ x[1] = e /\ x[2] = o
      OBVIOUS
    <3> HIDE DEF x
    <3>2. x \in OldPairs
      BY <3>1 DEF OldPairs
    <3> QED
      BY <3>2 DEF x
  <2>4. \A e \in Entries, o \in Ops : Placed(OldPairs, e, o)' => Placed(OldPairs, e, o)
    BY <1>1, <1>4, <2>2, <2>3 DEF Placed, Held
  <2>5. \A e \in Entries, o \in Ops : Knows(e, o)' <=> Knows(e, o)
    BY <1>1 DEF Knows, Held
  <2> QED
    BY <1>1, <2>1, <2>4, <2>5 DEF Attributed
<1> QED
  BY <1>1, <1>2, <1>6, <1>7, <1>8, <1>10, <1>11, <1>12 DEF HInv

\* What is left of a scheduler when a run of it has ended.
LEMMA EndedIs ==
    ASSUME NEW r \in Leftovers, r.chain # << >>
    PROVE  /\ RunEnded(r) \in Leftovers
           /\ RunEnded(r).life = r.life /\ RunEnded(r).in = r.in /\ RunEnded(r).ids = r.ids
           /\ RunEnded(r).pending = r.pending /\ RunEnded(r).consumed = r.consumed
           /\ RunEnded(r).asked = 0 /\ RunEnded(r).chain = Tail(r.chain)
<1> DEFINE t == Tail(r.chain)
           a == [r EXCEPT !.chain = t]
<1>0. t \in Seq(Ops)
  BY DEF Leftovers
<1> HIDE DEF t
<1>1. /\ a \in Leftovers /\ a.chain = t /\ a.life = r.life /\ a.in = r.in
      /\ a.ids = r.ids /\ a.pending = r.pending /\ a.consumed = r.consumed
  BY <1>0 DEF Leftovers
<1>2. RunEnded(r) = [a EXCEPT !.asked = 0]
  BY <1>1 DEF RunEnded, Leftovers, t
<1> HIDE DEF a
<1> QED
  BY <1>1, <1>2 DEF Leftovers, t

LEMMA LeftStepKeeps ==
    ASSUME HInv, NEW r \in old,
           LeftVanished(r) \/ LeftAsk(r) \/ LeftFails(r) \/ LeftEnds(r)
    PROVE  HInv'
<1>1. /\ r \in Leftovers /\ r.chain # << >> /\ gone \in SUBSET Entries
      /\ registry \in SUBSET Entries
  BY DEF HInv, HandoverTypeOK, TypeOK
<1>2. /\ Head(r.chain) \in Ops /\ r.ids \in [Ops -> SUBSET Entries] /\ r.pending \in SUBSET Ops
      /\ r.consumed \in SUBSET Entries
  BY <1>1 DEF Leftovers
<1>3. /\ RunEnded(r) \in Leftovers /\ RunEnded(r).asked = 0
      /\ RunEnded(r).life = r.life /\ RunEnded(r).ids = r.ids
      /\ RunEnded(r).pending = r.pending /\ RunEnded(r).consumed = r.consumed
  BY <1>1, EndedIs
<1>4. CASE LeftVanished(r)
  <2> DEFINE op == Head(r.chain)
             a == RunEnded(r)
             c == [a EXCEPT !.consumed = r.consumed \cup r.ids[op]]
             q == [a EXCEPT !.consumed = r.consumed \cup r.ids[op],
                            !.pending = r.pending \ {op}]
  <2>1. /\ gone' = gone \cup r.ids[op] /\ Becomes(r, q) /\ LeftFrame
        /\ registry' \in {registry, r.consumed \cup r.ids[op]}
        /\ file' = AsSaved(r.pending \ {op}, r.ids)
    BY <1>4 DEF LeftVanished
  <2>2. r.ids[op] \in SUBSET Entries /\ a \in Leftovers
    BY <1>2, <1>3
  <2>3. /\ q = [c EXCEPT !.pending = r.pending \ {op}]
        /\ a.asked = 0 /\ a.life = r.life /\ a.ids = r.ids
    BY <1>3, <2>2 DEF Leftovers
  <2> HIDE DEF op, a, q
  <2>4. /\ c \in Leftovers /\ c.asked = 0 /\ c.life = r.life /\ c.ids = r.ids
        /\ c.consumed = r.consumed \cup r.ids[op]
    BY <1>2, <2>2, <2>3 DEF Leftovers
  <2> HIDE DEF c
  <2>5. /\ q \in Leftovers /\ q.asked = 0 /\ q.life = r.life /\ q.ids = r.ids
        /\ q.consumed = r.consumed \cup r.ids[op] /\ q.pending = r.pending \ {op}
    BY <1>2, <2>3, <2>4 DEF Leftovers
  <2>6. /\ gone' \in SUBSET Entries /\ registry' \in SUBSET Entries
        /\ registry' \subseteq registry \cup r.consumed \cup gone'
        /\ q.consumed \subseteq r.consumed \cup gone'
    BY <1>1, <1>2, <2>1, <2>2, <2>5
  <2>7. r.pending \ {op} \in SUBSET r.pending
    OBVIOUS
  <2> QED
    BY <2>1, <2>5, <2>6, <2>7, LeftKeeps
<1>5. CASE LeftAsk(r)
  <2> DEFINE q == [r EXCEPT !.asked = Head(r.chain)]
  <2>1. Becomes(r, q) /\ LeftFrame /\ UNCHANGED <<registry, file, gone>>
    BY <1>5 DEF LeftAsk
  <2>2. /\ q \in Leftovers /\ q.asked = Head(q.chain)
        /\ q.life = r.life /\ q.ids = r.ids /\ q.pending = r.pending /\ q.consumed = r.consumed
    BY <1>1, <1>2 DEF Leftovers
  <2> HIDE DEF q
  <2> QED
    BY <1>1, <2>1, <2>2, LeftKeeps
<1>6. CASE LeftFails(r)
  <2>1. /\ Becomes(r, RunEnded(r)) /\ LeftFrame /\ UNCHANGED <<registry, gone>>
        /\ file' = AsSaved(r.pending, r.ids)
    BY <1>6 DEF LeftFails
  <2>2. r.pending \in SUBSET r.pending
    OBVIOUS
  <2> QED
    BY <1>1, <1>3, <2>1, <2>2, LeftKeeps
<1>7. CASE LeftEnds(r)
  <2>1. Becomes(r, RunEnded(r)) /\ LeftFrame /\ UNCHANGED <<registry, file, gone>>
    BY <1>7 DEF LeftEnds
  <2> QED
    BY <1>1, <1>3, <2>1, LeftKeeps
<1> QED
  BY <1>4, <1>5, <1>6, <1>7

-----------------------------------------------------------------------------
(***************************************************************************)
(* The theorems of ObserverHandover.                                       *)
(***************************************************************************)

LEMMA InitHInv == HandoverInit => HInv
<1> SUFFICES ASSUME HandoverInit PROVE HInv
  OBVIOUS
<1>1. SInv /\ faults = 0 /\ old = {} /\ switches = 0 /\ lost = FALSE
  BY InitSInv DEF HandoverInit, Init
<1>2. Synced /\ Attributed({}) /\ Base
  BY <1>1 DEF SInv
<1>3. HandoverTypeOK /\ Leavings
  BY <1>1 DEF HandoverTypeOK, Leavings
<1>4. Attributed(OldPairs)
  <2>1. OldPairs = {}
    BY <1>1 DEF OldPairs
  <2> QED
    BY <1>2, <2>1
<1> QED
  BY <1>1, <1>2, <1>3, <1>4 DEF HInv, Base

LEMMA HInvStep == HInv /\ [HandoverNext]_<<vars, leftover>> => HInv'
<1> SUFFICES ASSUME HInv, [HandoverNext]_<<vars, leftover>> PROVE HInv'
  OBVIOUS
<1>1. CASE UNCHANGED <<vars, leftover>>
  BY <1>1 DEF vars, leftover, HInv, HandoverTypeOK, Leavings, OldPairs, TypeOK, IInv,
              ConsumedIsAccounted, Claimed, BatchesDisjoint, Fresh, Settled, Running, InLine,
              Once, OncePerLife, Synced, Attributed, Placed, Knows, Held
<1>2. CASE HandoverNext
  BY <1>2, UpHandover, SwitchKeeps, CrashKeeps, LeftStepKeeps DEF HandoverNext, Outside
<1> QED
  BY <1>1, <1>2

\* Whatever schedulers of ended sessions do, a scheduler has a batch accepted once;
\* and until a session changes within the process the model is called with what is
\* on disk, and with nothing that was classified private-session (enqueueRun,
\* runBatch, classifyPrivateSession).
THEOREM ModelCallsAreSafe == HandoverSpec => []ModelCallSafety
<1>1. HInv => ModelCallSafety
  <2> SUFFICES ASSUME HInv PROVE ModelCallSafety
    OBVIOUS
  <2>1. OncePerLife
    BY DEF HInv, Once
  <2>2. ASSUME switches = 0 PROVE AskedIsDurable /\ SkippedNeverSent
    <3>1. Synced /\ Attributed(OldPairs)
      BY <2>2 DEF HInv
    <3>2. AskedIsDurable
      <4> SUFFICES ASSUME flight.at = "asked" PROVE flight.sent \subseteq file[flight.op]
        BY DEF AskedIsDurable
      <4>1. flight.op \in pending /\ flight.op \in Ops
        BY HeadPending DEF HInv, InLine, TypeOK
      <4> QED
        BY <3>1, <4>1 DEF HInv, Once, Synced, AsSaved
    <3>3. SkippedNeverSent
      BY <3>1, AttributedSafe DEF HInv, SkippedNeverSent
    <3> QED
      BY <3>2, <3>3
  <2> QED
    BY <2>1, <2>2 DEF ModelCallSafety
<1>2. HandoverSpec => []HInv
  BY InitHInv, HInvStep, PTL DEF HandoverSpec
<1> QED
  BY <1>1, <1>2, PTL

\* As long as no runtime is built from files that lack what the one before knew, no
\* entry is observed under two opIds and nothing classified private-session is in a
\* job, through any interleaving of a runtime, the schedulers of the sessions before
\* it, session changes and crashes (session_shutdown, runBatch after dispose).
THEOREM HandoversAreSafe == HandoverSpec => []HandoverSafety
<1>1. HInv => HandoverSafety
  <2> SUFFICES ASSUME HInv PROVE HandoverSafety
    OBVIOUS
  <2>1. HandoverTypeOK
    BY DEF HInv
  <2>2. ASSUME ~lost PROVE NeverDuplicated /\ skipped \cap Claimed = {}
    BY <2>2, AttributedSafe DEF HInv
  <2> QED
    BY <2>1, <2>2 DEF HandoverSafety, OneObservation, PrivateStaysOut
<1>2. HandoverSpec => []HInv
  BY InitHInv, HInvStep, PTL DEF HandoverSpec
<1> QED
  BY <1>1, <1>2, PTL

\* The queue and the registry are as sound with schedulers of ended sessions writing
\* over them as without: no coverage without an accepted result, no entry in two
\* pending batches of one queue.
THEOREM HandoversKeepTheQueue ==
    HandoverSpec => [](TypeOK /\ ConsumedIsAccounted /\ BatchesDisjoint)
<1>1. HInv => TypeOK /\ ConsumedIsAccounted /\ BatchesDisjoint
  BY DEF HInv, IInv
<1>2. HandoverSpec => []HInv
  BY InitHInv, HInvStep, PTL DEF HandoverSpec
<1> QED
  BY <1>1, <1>2, PTL

=============================================================================
