-------------------------- MODULE ObserverScheduler --------------------------
(***************************************************************************)
(* The observer: which session entries are put in an extraction batch, how *)
(* a batch is run through the model and when its entries count as          *)
(* processed (src/src/observation/scheduler.ts), with the parts of the     *)
(* session coordinator it leans on: the registry of consumed entries and   *)
(* the generation (src/src/pi/coordinator.ts).                             *)
(*                                                                         *)
(* Entries are numbered in the order the session receives them, batches in *)
(* the order they are created (the code draws a UUID; what matters is that *)
(* none is drawn twice and that the oldest is known).  An entry here is    *)
(* one that toSourceViews keeps and no exclusion rule removes.             *)
(***************************************************************************)
EXTENDS Naturals, Sequences, FiniteSets

FES == INSTANCE FiniteSetsExt

CONSTANTS
    Sessions,      \* Pi sessions that share one state directory
    MaxEntries,    \* bound: entries received
    MaxOps,        \* bound: batches created
    MaxLives,      \* bound: runtimes built over the directory
    MaxGens,       \* bound: generations minted by tree navigation
    MaxFaults,     \* bound: file writes that throw
    Size,          \* estimated tokens of each entry
    InputBudget,   \* inputBudgetTokens of a batch
    Framing,       \* tokens of the prompt around the sources
    MinBatch,      \* minBatchTokens
    QueueCap       \* maxPendingBatches

ASSUME SchedulerAssumption ==
    /\ MaxEntries \in Nat /\ MaxOps \in Nat
    /\ QueueCap \in Nat \ {0}
    /\ Size \in [1 .. MaxEntries -> Nat \ {0}]
    /\ InputBudget \in Nat /\ Framing \in Nat /\ MinBatch \in Nat \ {0}

Entries == 1 .. MaxEntries
Ops == 1 .. MaxOps

VARIABLES
    log,         \* entries received: session, and whether private mode was on
    session,     \* the session the provider reads
    private,     \* the live private-mode flag
    gen,         \* coordinator.currentGeneration
    life,        \* runtimes built so far
    consumed,    \* consumedEntries in the coordinator's memory
    registry,    \* consumedEntries in session-coordinator.json
    pending,     \* pendingBatches in memory, by opId
    entryIds,    \* the entries of each batch
    file,        \* observer-state.json: entries by opId, {} if not pending
    nextOp,      \* the next opId
    chain,       \* opIds queued or in flight, in order (chain and running)
    flight,      \* where the run at the head of the chain is
    cooling,     \* batches whose nextAttemptAt lies ahead
    idle,        \* the idle timer is armed
    stash,       \* coordinator.pendingConsumed
    navigating,  \* Pi is between session_before_tree and session_tree
    jobs,        \* observation jobs the outbox has durably accepted
    skipped,     \* history: entries classified private-session
    summarised,  \* history: entries a completed navigation summarised
    gone,        \* history: entries of batches dropped for want of a view
    faults       \* writes that have thrown

vars == <<log, session, private, gen, life, consumed, registry, pending,
          entryIds, file, nextOp, chain, flight, cooling, idle, stash, navigating, jobs,
          skipped, summarised, gone, faults>>

memory  == <<consumed, pending, entryIds, nextOp, chain, flight, cooling, idle>>
context == <<log, session, private, gen, life, stash, navigating>>
history == <<jobs, skipped, summarised, gone>>

NoFlight == [op |-> 0, at |-> "idle", gen |-> 0, sent |-> {}]
Stages == {"idle", "asked", "consuming", "dropping"}
Flights == [op : Ops \cup {0}, at : Stages, gen : Nat, sent : SUBSET Entries]
Jobs == [seq : Nat, op : Ops, life : Nat, sent : SUBSET Entries,
         claimed : SUBSET Entries]

TypeOK ==
    /\ log \in Seq([in : Sessions, private : BOOLEAN])
    /\ Len(log) <= MaxEntries
    /\ session \in Sessions
    /\ private \in BOOLEAN
    /\ gen \in Nat /\ life \in Nat /\ faults \in Nat
    /\ consumed \in SUBSET Entries /\ registry \in SUBSET Entries
    /\ pending \in SUBSET Ops
    /\ entryIds \in [Ops -> SUBSET Entries]
    /\ file \in [Ops -> SUBSET Entries]
    /\ nextOp \in Nat \ {0}
    /\ chain \in Seq(Ops)
    /\ flight \in Flights
    /\ cooling \in SUBSET Ops
    /\ idle \in BOOLEAN /\ navigating \in BOOLEAN
    /\ stash \in SUBSET Entries
    /\ jobs \in SUBSET Jobs
    /\ skipped \in SUBSET Entries
    /\ summarised \in SUBSET Entries
    /\ gone \in SUBSET Entries

Init ==
    /\ log = << >>
    /\ session \in Sessions
    /\ private = FALSE
    /\ gen = 1 /\ life = 1 /\ faults = 0
    /\ consumed = {} /\ registry = {}
    /\ pending = {}
    /\ entryIds = [o \in Ops |-> {}]
    /\ file = [o \in Ops |-> {}]
    /\ nextOp = 1
    /\ chain = << >>
    /\ flight = NoFlight
    /\ cooling = {}
    /\ idle = FALSE /\ navigating = FALSE
    /\ stash = {}
    /\ jobs = {} /\ skipped = {} /\ summarised = {} /\ gone = {}

-----------------------------------------------------------------------------
\* What a handler reads.

\* provider.entries(): every text entry of the current session, on any branch.
Present == {e \in DOMAIN log : log[e].in = session}

Oldest(op) == \A p \in pending : op <= p

\* Mutant: entries already in a pending batch are selected again.
CandidatesOfAll == {e \in Present : e \notin consumed}

\* selectUnprocessed().
Candidates ==
    {e \in Present : e \notin consumed /\ \A o \in pending : e \notin entryIds[o]}

Tokens(S) == FES!MapThenSumSet(LAMBDA e : Size[e], S)

\* buildBatch(): the oldest candidates that fit the budget, at least one.
BatchOf(C) ==
    {e \in C : \/ \A c \in C : e <= c
               \/ Tokens({c \in C : c <= e}) <= InputBudget}

\* A handler runs to its first await; only a crash can come in between.
Quiet == flight.at \in {"idle", "asked"}

\* The one sequence that lists S in ascending order.
InOrder(S) ==
    {s \in [1 .. Cardinality(S) -> S] :
        \A i, j \in 1 .. Cardinality(S) : i < j => s[i] < s[j]}

-----------------------------------------------------------------------------
\* What a handler does.

\* A write to disk succeeds, or throws.
Write(ok) ==
    /\ ok \/ faults < MaxFaults
    /\ faults' = IF ok THEN faults ELSE faults + 1

\* What the state file says of a queue.
AsSaved(queue, ids) == [o \in Ops |-> IF o \in queue THEN ids[o] ELSE {}]

\* persist() of the scheduler, for the memory the step leaves behind.
SaveBatches(ok) ==
    /\ Write(ok)
    /\ file' = IF ok THEN AsSaved(pending', entryIds') ELSE file

\* Mutant: the registry is written before the entries are added to it.
MarkConsumedFirst(S, ok) ==
    /\ consumed' = consumed \cup S
    /\ IF S \subseteq consumed
       THEN ok /\ UNCHANGED <<registry, faults>>
       ELSE /\ Write(ok)
            /\ registry' = IF ok THEN consumed ELSE registry

\* coordinator.markConsumed: memory first, and no write if nothing changed.
MarkConsumed(S, ok) ==
    /\ consumed' = consumed \cup S
    /\ IF S \subseteq consumed
       THEN ok /\ UNCHANGED <<registry, faults>>
       ELSE /\ Write(ok)
            /\ registry' = IF ok THEN consumed \cup S ELSE registry

\* classifyPrivateSession: candidates become consumed without extraction.
ClassifyPrivate(ok) ==
    /\ MarkConsumed(Candidates, ok)
    /\ skipped' = skipped \cup Candidates
    /\ UNCHANGED <<pending, entryIds, file, nextOp, chain>>

\* Mutant: a batch already queued or in flight is queued again.
EnqueuedAgain(queue, op) == Append(queue, op)

\* enqueueRun: single flight per opId.
Enqueued(queue, op) ==
    IF \E i \in DOMAIN queue : queue[i] = op THEN queue ELSE Append(queue, op)

\* A batch of the candidates is pushed and, once saved, queued.
NewBatch(queue, ok) ==
    /\ nextOp \in Ops
    /\ entryIds' = [entryIds EXCEPT ![nextOp] = BatchOf(Candidates)]
    /\ pending' = pending \cup {nextOp}
    /\ chain' = IF ok THEN Enqueued(queue, nextOp) ELSE queue
    /\ nextOp' = nextOp + 1

\* createAndRun: a new batch, saved before it is queued; at the cap its
\* entries join the oldest batch instead.
CreateAndRun(queue, ok) ==
    /\ Candidates # {}
    /\ IF Cardinality(pending) >= QueueCap
       THEN /\ \E op \in pending :
                 /\ Oldest(op)
                 /\ entryIds' = [entryIds EXCEPT ![op] = @ \cup BatchOf(Candidates)]
                 /\ chain' = IF ok THEN Enqueued(queue, op) ELSE queue
            /\ UNCHANGED <<pending, nextOp>>
       ELSE NewBatch(queue, ok)
    /\ SaveBatches(ok)
    /\ UNCHANGED <<consumed, registry, skipped>>

\* No batch is created, merged or classified.
NoBatch == UNCHANGED <<pending, entryIds, file, nextOp, consumed, registry,
                       skipped, faults>>

\* The parts no trigger touches.
TriggerFrame == UNCHANGED <<context, flight, cooling, jobs, summarised, gone>>

-----------------------------------------------------------------------------
\* Triggers.

\* retryPending: every batch outside its cooldown that is not queued already.
Due == {o \in pending \ cooling : \A i \in DOMAIN chain : chain[i] # o}

\* onAgentSettled while private: classify, start nothing.
SettledPrivate(ok) ==
    /\ Quiet /\ private
    /\ idle' = FALSE
    /\ ClassifyPrivate(ok)
    /\ TriggerFrame

\* onAgentSettled: re-run what is due, then a batch if the threshold is met
\* (in tokens; the second threshold, in turns, is of the same kind).  Below it
\* the idle timer is armed.
AgentSettled(ok) ==
    /\ Quiet /\ ~private
    /\ \E due \in InOrder(Due) :
         \/ /\ Tokens(Candidates) < MinBatch
            /\ ok /\ NoBatch
            /\ chain' = chain \o due
            /\ idle' = (Candidates # {})
         \/ /\ Tokens(Candidates) >= MinBatch
            /\ idle' = FALSE
            /\ CreateAndRun(chain \o due, ok)
    /\ TriggerFrame

\* The idle timer's callback.
IdleFires(ok) ==
    /\ Quiet /\ idle
    /\ idle' = FALSE
    /\ \/ private /\ ClassifyPrivate(ok)
       \/ ~private /\ Candidates = {} /\ ok /\ NoBatch /\ UNCHANGED chain
       \/ ~private /\ CreateAndRun(chain, ok)
    /\ TriggerFrame

\* extractNow: the manual command; it only clears the timer when refused.
ExtractNow(ok) ==
    /\ Quiet
    /\ idle' = FALSE
    /\ \/ (private \/ Candidates = {}) /\ ok /\ NoBatch /\ UNCHANGED chain
       \/ ~private /\ CreateAndRun(chain, ok)
    /\ TriggerFrame

\* onBeforeCompact: a batch of its own whatever the length of the queue.  The
\* run, the timeout and the abort signal then race for the answer to Pi only:
\* the run stays on the chain.
BeforeCompact(ok) ==
    /\ Quiet
    /\ UNCHANGED idle
    /\ \/ private /\ ClassifyPrivate(ok)
       \/ /\ ~private /\ Candidates # {}
          /\ NewBatch(chain, ok)
          /\ SaveBatches(ok)
          /\ UNCHANGED <<consumed, registry, skipped>>
    /\ TriggerFrame

-----------------------------------------------------------------------------
\* runBatch, for the batch at the head of the chain.

Views(op) == entryIds[op] \cap Present

Starts(op) == chain # << >> /\ op = Head(chain) /\ flight = NoFlight

\* The run ends, whatever came of it.
Leave == chain' = Tail(chain) /\ flight' = NoFlight

RunFrame == UNCHANGED <<context, nextOp, idle, skipped, summarised>>

\* No entry of the batch is in the session any more: consume and drop it.
RunVanished(op) ==
    /\ Starts(op) /\ Views(op) = {}
    /\ gone' = gone \cup entryIds[op]
    /\ flight' = [NoFlight EXCEPT !.op = op, !.at = "consuming"]
    /\ UNCHANGED <<consumed, registry, pending, entryIds, file, chain, cooling, jobs,
                   faults>>
    /\ RunFrame

\* The redactor refuses a source: the batch is held, nothing is sent.
RunHeld(op) ==
    /\ Starts(op) /\ Views(op) # {}
    /\ Leave
    /\ UNCHANGED <<consumed, registry, pending, entryIds, file, cooling, jobs,
                   gone, faults>>
    /\ RunFrame

\* noteExtractionFailure: the batch stays pending, inside a cooldown.
Fail(op, ok) ==
    /\ cooling' = cooling \cup {op}
    /\ UNCHANGED <<consumed, registry, pending, entryIds, jobs, gone>>
    /\ SaveBatches(ok)
    /\ Leave
    /\ RunFrame

\* The extractor refuses to call the model: the prompt is over the input
\* budget, or the gate it asks before every attempt is private.
RunRefused(op, ok) ==
    /\ Starts(op) /\ Views(op) # {}
    /\ Tokens(Views(op)) + Framing > InputBudget \/ private
    /\ Fail(op, ok)

\* The model is called with the redacted entries.
Ask(op) ==
    /\ Starts(op) /\ Views(op) # {}
    /\ Tokens(Views(op)) + Framing <= InputBudget /\ ~private
    /\ flight' = [op |-> op, at |-> "asked", gen |-> gen, sent |-> Views(op)]
    /\ UNCHANGED <<consumed, registry, pending, entryIds, file, chain, cooling, jobs,
                   gone, faults>>
    /\ RunFrame

\* The call fails, times out, is cancelled or its answer is not valid.
ExtractFails(op, ok) ==
    /\ flight.at = "asked" /\ op = flight.op
    /\ Fail(op, ok)

\* The generation moved on during the call, or the outbox refuses the job:
\* the batch stays pending and may run again at once.
ResultDropped(op) ==
    /\ flight.at = "asked" /\ op = flight.op
    /\ Leave
    /\ UNCHANGED <<consumed, registry, pending, entryIds, file, cooling, jobs,
                   gone, faults>>
    /\ RunFrame

\* The result is still current: it becomes a durable outbox job that claims
\* the entries the batch has by now.
ResultAccepted(op) ==
    /\ flight.at = "asked" /\ op = flight.op
    /\ flight.gen = gen
    /\ jobs' = jobs \cup {[seq |-> Cardinality(jobs) + 1, op |-> op, life |-> life,
                           sent |-> flight.sent, claimed |-> entryIds[op]]}
    /\ flight' = [flight EXCEPT !.at = "consuming"]
    /\ cooling' = cooling \ {op}
    /\ UNCHANGED <<consumed, registry, pending, entryIds, file, chain, gone,
                   faults>>
    /\ RunFrame

\* Mutant: the opId is marked consumed instead of the entries.
ConsumeBatchById(op, ok) ==
    /\ flight.at = "consuming" /\ op = flight.op
    /\ MarkConsumed({op}, ok)
    /\ \/ ok /\ flight' = [flight EXCEPT !.at = "dropping"] /\ UNCHANGED chain
       \/ ~ok /\ Leave
    /\ UNCHANGED <<pending, entryIds, file, cooling, jobs, gone>>
    /\ RunFrame

\* The entries of the batch are consumed ...
ConsumeBatch(op, ok) ==
    /\ flight.at = "consuming" /\ op = flight.op
    /\ MarkConsumed(entryIds[op], ok)
    /\ \/ ok /\ flight' = [flight EXCEPT !.at = "dropping"] /\ UNCHANGED chain
       \/ ~ok /\ Leave
    /\ UNCHANGED <<pending, entryIds, file, cooling, jobs, gone>>
    /\ RunFrame

\* ... and the batch leaves the queue.
DropBatch(op, ok) ==
    /\ flight.at = "dropping" /\ op = flight.op
    /\ pending' = pending \ {op}
    /\ UNCHANGED entryIds
    /\ SaveBatches(ok)
    /\ Leave
    /\ UNCHANGED <<consumed, registry, cooling, jobs, gone>>
    /\ RunFrame

-----------------------------------------------------------------------------
\* What happens around the scheduler.

\* The session appends a text entry.
Arrive ==
    /\ Quiet /\ Len(log) < MaxEntries
    /\ log' = Append(log, [in |-> session, private |-> private])
    /\ UNCHANGED <<session, private, gen, life, stash, navigating, memory,
                   registry, file, history, faults>>

\* The user turns private mode on or off.
TogglePrivate ==
    /\ Quiet
    /\ private' = ~private
    /\ UNCHANGED <<log, session, gen, life, stash, navigating, memory,
                   registry, file, history, faults>>

\* The clock reaches a batch's nextAttemptAt.
Cooldown(op) ==
    /\ Quiet /\ op \in cooling
    /\ cooling' = cooling \ {op}
    /\ UNCHANGED <<context, consumed, pending, entryIds, nextOp, chain, flight,
                   idle, registry, file, history, faults>>

\* Mutant: the entries are consumed before the navigation is known to proceed.
BeforeTreeConsumes(S) ==
    /\ Quiet
    /\ S \subseteq Present
    /\ stash' = {}
    /\ navigating' = TRUE
    /\ MarkConsumed(S, TRUE)
    /\ UNCHANGED <<log, session, private, gen, life, pending, entryIds, nextOp,
                   chain, flight, cooling, idle, file, history>>

\* session_before_tree: the entries Pi would summarise are kept aside; the
\* navigation may still be cancelled.
BeforeTree(S) ==
    /\ Quiet
    /\ S \subseteq Present
    /\ stash' = S
    /\ navigating' = TRUE
    /\ UNCHANGED <<log, session, private, gen, life, memory, registry, file,
                   history, faults>>

\* Pi gives up the navigation; no handler hears of it.
CancelTree ==
    /\ Quiet /\ navigating
    /\ navigating' = FALSE
    /\ UNCHANGED <<log, session, private, gen, life, stash, memory, registry,
                   file, history, faults>>

\* session_tree: the entries set aside are consumed and the generation moves
\* on.  If the write throws, the handler is left before either.
Tree(ok) ==
    /\ Quiet /\ navigating
    /\ gen < MaxGens
    /\ navigating' = FALSE
    /\ summarised' = summarised \cup stash
    /\ MarkConsumed(stash, ok)
    /\ \/ ok /\ gen' = gen + 1 /\ stash' = {}
       \/ ~ok /\ UNCHANGED <<gen, stash>>
    /\ UNCHANGED <<log, session, private, life, pending, entryIds, file, nextOp,
                   chain, flight, cooling, idle, jobs, skipped, gone>>

\* A runtime is built over the directory, in the same session or another: its
\* queue is what the file holds.  (The generation session_start mints matters
\* only to calls of the same coordinator, and this one has none.)
Rebuilt(s) ==
    /\ life' = life + 1
    /\ session' = s
    /\ entryIds' = file
    /\ pending' = {o \in Ops : file[o] # {}}
    /\ chain' = << >>
    /\ flight' = NoFlight
    /\ idle' = FALSE /\ navigating' = FALSE
    /\ stash' = {}
    /\ UNCHANGED <<log, private, gen, file, nextOp, cooling, history, faults>>

\* The process ends, and another builds a runtime from what is on disk.  (A
\* session change within the process is in ObserverHandover.)
Restart(s) ==
    /\ life < MaxLives
    /\ Rebuilt(s)
    /\ consumed' = registry
    /\ UNCHANGED registry

Trigger(ok) ==
    SettledPrivate(ok) \/ AgentSettled(ok) \/ IdleFires(ok) \/ ExtractNow(ok)
    \/ BeforeCompact(ok)

Run(op, ok) ==
    RunVanished(op) \/ RunHeld(op) \/ RunRefused(op, ok) \/ Ask(op)
    \/ ExtractFails(op, ok) \/ ResultDropped(op) \/ ResultAccepted(op)
    \/ ConsumeBatch(op, ok) \/ DropBatch(op, ok)

Next ==
    \/ \E ok \in BOOLEAN : Trigger(ok)
    \/ \E op \in Ops, ok \in BOOLEAN : Run(op, ok)
    \/ Arrive
    \/ TogglePrivate
    \/ \E op \in Ops : Cooldown(op)
    \/ \E S \in SUBSET Entries : BeforeTree(S)
    \/ CancelTree
    \/ \E ok \in BOOLEAN : Tree(ok)
    \/ \E s \in Sessions : Restart(s)

Spec == Init /\ [][Next]_vars

-----------------------------------------------------------------------------
(***************************************************************************)
(* Properties.                                                             *)
(***************************************************************************)

\* Entries an accepted observation job claims as its sources.
Claimed == UNION {j.claimed : j \in jobs}
Sent == UNION {j.sent : j \in jobs}

\* Source coverage advances only after durably accepted output
\* (architecture.md, 3.2): an entry counts as consumed, in memory or on disk,
\* only if an accepted job claims it, or it was classified private-session,
\* summarised by a navigation that completed, or had left the session.
ConsumedIsAccounted ==
    consumed \cup registry \subseteq Claimed \cup skipped \cup summarised \cup gone

\* Each source interval is processed once logically: no entry is in two
\* pending batches, in memory or on disk, whatever mix of triggers, merges,
\* failed runs and restarts created them.
BatchesDisjoint ==
    \A o, p \in Ops : o # p => /\ {o, p} \subseteq pending => entryIds[o] \cap entryIds[p] = {}
                               /\ file[o] \cap file[p] = {}

\* A batch is accepted at most once by one runtime, however many triggers
\* find it pending while it is queued or in flight (enqueueRun's single
\* flight), as long as every write succeeds.
OncePerLife ==
    faults = 0 => \A j, k \in jobs : j.op = k.op /\ j.life = k.life => j = k

\* What the model has been sent is on disk under the opId of the batch, so a
\* crash during the call re-derives it under that opId and no other.
AskedIsDurable ==
    faults = 0 /\ flight.at = "asked" => flight.sent \subseteq file[flight.op]

\* An entry classified private-session is never extracted, across restarts:
\* resume can never replay it.
SkippedNeverSent == faults = 0 => skipped \cap Sent = {}

\* Entries are marked consumed only after their extraction was accepted: what
\* an accepted job claims as its sources is what the model was sent.  The
\* code does not keep this: a merge at the queue cap adds entries to a batch
\* whose call is already out, and they are consumed with it.
ClaimedWasSent == Claimed \subseteq Sent

\* Entries from before private mode remain available for extraction after
\* resume.  The code does not keep this: the first settled, idle or compact
\* boundary in private mode classifies every unprocessed entry.
PrePrivateKept == \A e \in skipped : log[e].private

\* A pending batch is retried on a later trigger and never dropped.  The code
\* does not keep this: a batch of another session has no views and is
\* consumed without extraction.
PendingNeverDropped == gone = {}
=============================================================================
