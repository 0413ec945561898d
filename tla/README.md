# pi-kiwifs-memory in TLA+

pi-kiwifs-memory is an extension of the Pi coding agent. It turns a session's
messages into durable memory records on a KiwiFS server: an observer extracts
observations from new entries with a model, an outbox keeps what was extracted
on disk, a worker delivers it. Around that core sit reflection, retrieval and
injection of evidence, a message board between agents, and transcript backup.
Each is asynchronous, each has durable state of its own, and all of them must
cope with private mode being switched on, with restarts, and with a backend
that may be down, slow or ambiguous.

These modules model that machinery from the source under `src/src/`. TLC checks
them on small instances; TLAPS proves the main safety properties for every
value of the constants. `PROJECT.json` lists the components, the runs, the
definition-to-source map, mutants, hazards, findings and theorems.

## 1. The system

| Component | Source | State | Operations | Modelled |
|---|---|---|---|---|
| Outbox journal | `outbox/store.ts` | `jobs.jsonl`, its temporary file, `outbox.lock`; per handle: jobs, next seq, read-only and closed flags | open, enqueue, ack, retry, quarantine, discard, retention, close | `OutboxStore` |
| Outbox worker | `outbox/worker.ts`, `outbox/target.ts` | coalescing state of tick(), shutdown signal | tick, deliver, hold | `OutboxDelivery`, `TickCoalescing` |
| Sender and backend access | `observation/sender.ts`, `backend/*` | connection | read before write, write, classify errors | `OutboxDelivery` (the write path) |
| Private-mode gate | `privacy/live-gate.ts` | last observed mode, poll timer, cancel listeners | read, notify, cancel | `LiveConfig`; as its users see it, inside `OutboxDelivery`, `ObserverScheduler` |
| Observer | `observation/scheduler.ts`, `observation/model.ts` | pending batches in memory and in `observer-state.json`, chain, idle timer | settled, idle, manual, compact and retry triggers; run a batch | `ObserverScheduler`, `ObserverHandover` |
| Session coordinator | `pi/coordinator.ts` | generation, consumed registry (`session-coordinator.json`), stash | session and tree events, timer | `SessionLifecycle`; registry, generation and stash also inside `ObserverScheduler` |
| Reflection | `observation/reflection.ts` | `reflection-state.json`: noted records, the run, registries of seen, processed and parked sets | note, run, retry, park, accept | `ReflectionEngine` |
| Proposals and manual operations | `observation/proposals.ts`, `commands/manual-ops.ts` | documents on the backend, two operation logs | approve, reject, undo, forget, restore | `ProposalLifecycle` |
| Board delivery | `board/delivery.ts`, `runtime.ts`, `lock.ts`, `repository.ts` | `delivery-<consumer>.json` (cursor, entries), `delivery-<consumer>.lock`, pollers | start, stop, poll cycle, ack, local GC | `BoardDelivery` |
| Board listings, tools | `board/repository.ts`, `messages.ts`, `tools.ts`, `job.ts` | none | send, list, read, ack | `BoardListing` (the paged listings); read and ack inside `BoardDelivery` |
| Board cleanup | `board/cleanup*.ts`, `commands/board-*.ts` | operation log, confirmation token | preview, confirm, execute | `BoardCleanup` |
| Backup | `backup/*` | coverage cursor, chunk and manifest jobs | capture, export, verify, recover | `BackupCapture`, `BackupExport` |
| Retrieval, injection | `retrieval/*`, `inject/*` | pending packs by input, barrier, occurrences | retrieve, match, inject, drop | `EvidenceInjection` |
| Reconciliation cursor | `outbox/cursor.ts` | `cursors.json` | open, advance, reconcile | `CursorReconcile` |
| Audit store | `privacy/audit-store.ts` | rotated log files, lock | open, record, rotate, close | `AuditStore` |
| Live acceptance run | `backend/live/runner.ts` | manifest, report | run, clean up | `LiveRunner` |
| Session runtime | `index.ts`, `runtime/*` | one runtime per session | build, tear down | `SessionLifecycle`: what is up when, and in which order it goes down; `LiveConfig`: what it is built with, and the private-mode command |
| Configuration | `config/*` | the config file | load, flip private mode, edit | `LiveConfig`: as far as private mode and features go |
| Formats, scope, redaction, commands | `domain/*`, `scope/*`, `privacy/redaction.ts`, the rest of `commands/*` | none of their own | parse, format, match | no |

Interactions. The observer reads the session's entries through a provider, asks
the coordinator which are consumed, and enqueues accepted extractions in the
outbox; then, and only then, it marks entries consumed. The worker is woken by
the coordinator's timer and by commands, takes the head of each scope from the
journal and runs the sender, which reads and writes through the backend
adapter. The gate is read by all of them and calls back the ones that have
something in flight when it first sees private mode. A session change tears the
runtime down and builds another over the same directory, while promises of the
old one may still be running. Board delivery stands beside all this: it polls
the backend's change feed on its own timer, keeps its own file and lock, and
meets the rest only in the session events that start and stop it.

What is hard here: everything runs on one JavaScript thread, so a handler is
atomic up to its first `await`, and whatever it read before may be stale after;
durable state is rewritten whole by tmp-write, fsync, rename, fsync of the
directory, and a crash, a power loss or an exception can fall between any two
of these, and between the writes of two files that must agree; two processes
may share a directory; a request may be applied although its caller gave up.

What makes each component correct:

- journal: an accepted job survives until it is acknowledged or discarded; one
  process writes it; it is never half written; newer-format jobs are left alone;
- worker: order within a scope, at least once, nothing rerouted, nothing sent
  while private mode is observed, nothing acknowledged that is not stored,
  nothing stuck;
- tick(): one run at a time, no wakeup lost, no caller forgotten;
- observer: an entry is consumed only for a reason, is in one batch at a time,
  a batch is accepted once, private entries stay out, other entries get in;
- board delivery: the cursor passes nothing that was not notified or visibly
  skipped, nothing is notified twice without a lost record, what is acknowledged
  stays so;
- private mode: the command that flips it tells the truth and changes nothing
  else in the file, a model call under way stops, no reader meets half a file;
- session: a result taken before a boundary is not applied after it, a consumed
  entry was earned by a navigation that took place or by an accepted batch, and
  the runtime's resources go up and down with the session;
- reflection: a record noted is pending, summarised or visibly given up, never
  two of these, and acceptance is never partial;
- proposals: a decision is taken once, history is never erased, what is
  superseded belongs to an approval, what is undone hides nothing;
- backup: the coverage cursor passes nothing that is not queued, a flush drawn
  again is a replay, what verifies is complete, an export leaves others' files
  alone;
- retrieval and injection: a pack is shown once, to its own input, and never on
  a replay of a turn;
- board listing and cleanup: a listing that is not disclosed as truncated is
  complete; only what was confirmed, and settled long enough ago, is deleted,
  and the log and the report tell what was;
- cursor, audit log, live run: an advisory position never jumps over a change;
  what was recorded stays readable; what a run leaves behind is in its report.

## 2. The modules

    OutboxStore          the journal, file operation by file operation
      MCOutboxStore        instances
    LiveConfig           the shared config file, its flips, gates, model calls
    BoardCleanup         preview, confirmation and deletes
      MCSharedState        OutboxStore and both    SharedStateProofs     of all three
    OutboxChannel        what the delivery path promises, abstractly
    OutboxDelivery       worker, gate, sender, adapter, backend, restarts
    TickCoalescing       tick() and its callers   TickCoalescingProofs  theorems
      MCLiveness           TickCoalescing and OutboxDelivery with fairness
    ObserverScheduler    batches, runs, registry, restarts
    ObserverHandover     extends it: schedulers that outlive their sessions
      MCObserverScheduler  both                 ObserverProofs        theorems of both
    BoardMailbox         what board delivery promises to a consumer, abstractly
    BoardDelivery        poll cycles, delivery state, consumer lock
    BoardListing         the paged listings BoardDelivery takes for one step
      MCBoardDelivery      BoardDelivery and it   BoardDeliveryProofs   of both
    CursorReconcile      the durable cursor and its reconciliation
    AuditStore           the audit log, its lock and its rotation
    LiveRunner           the live acceptance run and its cleanup
      MCDeliveryTools      OutboxDelivery and these three
                                                OutboxDeliveryProofs  theorems of all
    SessionLifecycle     coordinator and the handlers of index.ts
    ProposalLifecycle    commands on proposals and records
    EvidenceInjection    retrieval cycles, packs, injection
      MCSession            all three            SessionLifecycleProofs of all three
    ReflectionEngine     from noted records to reflections and proposals
    BackupCapture        chunks, manifest, delivery, verification
    BackupExport         a verified backup copied to a directory
      MCReflectionBackup   all three            ReflectionEngineProofs theorems
                                                BackupProofs          of the two backups

The MC modules with several components explore them side by side, because these
share no state: a variable `part` (or `setup`) is chosen in the initial state,
one part moves, and the others stay in their initial states. So one run answers
for several components at the cost of the sum, not the product, of their states.

Every module starts from the variables of the code, one action per handler or
per stretch of a handler between two points where something else can happen.
"Something else" differs per module: in `OutboxStore` it is a crash or another
process, so a step is one file operation; in the others it is another event of
the same process, so a step ends at an `await`, except for the acceptance of a
batch in `ObserverScheduler`, whose three writes (outbox, registry, state file)
are separate steps between which only a restart can fall. Definitions whose
comment begins "mutant:" are not part of the models: each is a plausible bug in
the definition it precedes and must make a property fail.

### OutboxStore

`disk` is `jobs.jsonl`, `tmp` the temporary file, `lock` the lock file with its
owner and whether it has become old; `durable` is what a power loss would leave;
per handle `h`, `pc`, `mem`, `next`, `newerSchema` and `closed` mirror the
fields of `DurableOutbox`. Open is `CreateLock`, `StatLock`, `RemoveStaleLock`,
`Load`; every mutating call is a `Begin` that changes memory, then `WriteTmp`,
`Rename`, `Return`, each of which may end in `Throw` with the rollback of the
code. `Crash` and `PowerLoss` may come at any time. Constants say which
surroundings are allowed: whether a lock file can get old, whether a closed
handle is still called, which operations are used.

### OutboxDelivery and OutboxChannel

One worker of one session at a time. `phase` is where the tick is (visiting a
head, connecting, waiting for a read or a write, in the catch), `cur` the job in
hand, `todo` the rest of the snapshot of heads; `status`, `due`, `pin`, `seq`
describe the journal's jobs; `private` is the configuration file and `observed`
what the gate last saw; `wire` and `stored` are the backend and what is on its
way, which may be applied late or lost. `Visit`, `Connected`, `ReadReply`,
`WriteReply`, `Acknowledge`, `Catch` are `runTick()` and `deliver()` with the
sender's and the adapter's steps between their awaits. `Toggle` is the command
that sets private mode, `Edit` another writer of the file, `OtherRead` any read
of the gate outside the worker. There is no cap of attempts because
`runtime/session.ts` passes `MAX_SAFE_INTEGER`.

`OutboxChannel` has three variables: the status of jobs, what has been sent, and
what the backend holds. Its steps accept a job, attempt the oldest pending job
of a scope, let the backend apply an attempt, and settle the oldest pending job
as acknowledged (only if the backend holds it) or quarantined. `IsChannel`
states that `OutboxDelivery` implements it under the obvious mapping; here "a
job is never overtaken, lost or acknowledged early" becomes one statement about
every step.

### TickCoalescing

`running`, `queued`, `wakeup` and the waiter lists of `tick()`, with callers
that wait, callers that do not (the timer), and runs that end or throw.

### ObserverScheduler

`log` is what the sessions have received and whether private mode was on then;
`consumed` and `registry` are the consumed entries in the coordinator's memory
and file; `pending`/`entryIds` and `file` are the queue in the scheduler's
memory and file; `chain` holds the batches that are queued or in flight and
`flight` says where the first of them is: its call is out ("asked"), its result
is accepted and its entries are about to be consumed, or it is about to be
dropped. Each trigger is an action with both outcomes of its write. `Tree` and
`BeforeTree` are the coordinator's handlers, `Restart` is the end of the process
and a new one. `skipped`, `summarised` and `gone` are history:
they record why an entry was consumed without extraction.

### ObserverHandover

The same scheduler, with `Switch` for a session change inside the process and
`old` for the schedulers it leaves behind: each with the queue and the registry
in its memory, the chain of batches it still works through, and the call that
is out. `LeftVanished`, `LeftAsk`, `LeftFails` and `LeftEnds` are `runBatch()`
of such a scheduler. They write the files of the runtime that is up, from a
memory that is no longer true. Its results are refused by the outbox, which
`session_shutdown` has closed. Whether Pi answers for a session that has ended
is left open (`LeftEnds` covers both). `lost` is history: a runtime was built
from files that lacked something the one before knew, a batch after a session
change, a batch or a consumed entry after a crash. Up to then an entry is
claimed under one opId only and a classified one under none, whatever the old
schedulers save; after it an entry may be observed twice (`NeverDuplicated`,
the finding of `observer_handover`, which takes three session changes).
Navigations and failing writes are left to `ObserverScheduler`.

### BoardDelivery

`file` and `lock` are the two files of a consumer; a runtime `r` is what a
session builds, `mem[r]` its `DeliveryStateFile`, `acq[r]` where it is in
`acquireConsumerLock()`, `holds` the runtimes whose `this.lock` is set; a poller
is one `BoardDelivery` object and `run[p]` the locals of its cycle: the page it
is at (`since`, `pages`), the cursor it will store (`seen`; 0 is undefined), the
messages still to be read (`todo`), read and deliverable (`ok`), with a verdict
against them (`bad`), and the one whose callback has run (`msg`). `StartCycle`,
`FeedReply`, `ListReply`, `ReadReply`, `Deliver`, `Record`, `EndCycle` follow
`runCycleInner()` from await to await; `Abandon`, `ReadPause` and `DeliverPause`
are its ways out, for an outage or for private mode, which may be found wherever
the code looks. Cursors are positions in `feed`; a listing may name any set of
the posted messages, since it is bounded. `Save` writes the file whole from
memory and prunes; `SaveThrows` leaves either file and the changed memory.
`Build`, `Stop`, `Shutdown`, `Start` are the session's events; `BreakLock`,
`Retry` and `Locked` the rest of an acquisition, step by step, because another
process may act between two file operations. A stopped poller finishes its
cycle, whoever holds the lock by then.

`upset` is history: it becomes true when something has happened that the file
cannot make up for (a record lost in a crash or a failing write, a pruned entry,
two sessions or two pollers with cycles of one file at a time). `NoticesKept`
is about the time before that; `CursorCovers` holds throughout.

`BoardMailbox` is the promise in one small specification, which `BoardDelivery`
implements (`IsMailbox`): messages are told or given up, `place` is the cursor of
the file and moves forward over messages whose fate is known, `acked` are the
acknowledgements in the file. Its `Disturb` is the step that sets `upset`, and
every step after it; it may bring back the cursor and the acknowledgements, but
not over messages whose fate is open. That a message is told only once cannot be
said with sets; `IsMailbox` says it with `NoticesKept`.

### BoardListing

`rows` is what the query finds, in the backend's order, which `Post` and
`Withdraw` change between two pages; `ignores` says whether the backend ignores
the offset. `ListPage` is a turn of the loop of `list()`, `AllPage` one of
`listAllBoardMessagePaths()`; `Kept` are the rows of the page that pass the path
check, `exclude` and `seen`. `BoardDelivery` takes the second listing for one
step that names any set of messages.

### SessionLifecycle

`file` and `mem` are `session-coordinator.json` and the coordinator's state,
`published` the generation that work is compared with, `stash` the entries of an
announced navigation, `runtime`, `open` and `failed` the runtime box of
`index.ts` and the resources that are up. `pi`, `leaf`, `known` and `nav` are
Pi: it starts a session after it has shut down the last, announces forks,
switches and navigations that may then not happen, delivers events twice, and
moves leaves without telling. Each handler is an action with every outcome of
the write in it (`ok`, `throws`, `late`: after the rename); a write that throws
cuts the handler short where it does in the code. `work` are results in flight
with the generation and the boundary of their capture.

### ProposalLifecycle

`doc` is what the backend holds, `call[a]` the command of actor `a` and how far
it has come; a step is what the backend does for one request, with what the
command does with the answer, so guarded writes (etags) may fail between a read
and its write. `opLog` and `manLog` are the operation logs that make a repeated
command the same one. Two actors stand for two sessions, or for an approval and
a forgetting, which no chain orders. `Fault` ends a command anywhere,
with the write it had under way applied or not.

### ReflectionEngine

`st` and `file` are the engine's state in memory and on disk: `pending` and
`seen` records, `processed` and `skipped` sets, the `running` one. `asked` is
the set the model is asked about, `settling` the moment between the enqueueing
of an answer's jobs and the save; `jobs` and `cloud` are the outbox and the
backend, whose immutable paths refuse another content. The registries are
bounded (`SeenCap`, `ProcessedCap`) and forget; the history variables say when
that, a failed save or a run carried out twice has happened, because the
promises are weaker then.

### BackupCapture and BackupExport

An entry is a position in the session with a kind and a parent: any tree.
`Capture` draws chunks of the branch it is given, queues them and the manifest
and moves the cursor; `CaptureThrows` and `CaptureDies` cut it short at an
enqueue or a save. `Deliver` takes the jobs in order and refuses a chunk that
differs from the stored one; `Verifies` is `verify.ts` on what is stored.
`BackupExport` is `exportBackup()`, a file operation a step, while another
process creates paths.

### LiveConfig

`conf` and `tmp` are the config file and the temporary file of a flip, each
loadable as it stands, loadable only with the defaults merged in, empty, torn or
absent; `flip[p]` is the last `/kiwifs-private-mode` of process `p`: what it has
read, where its descriptor points now that others rename what it opened, and
what it told its user. A flip blocks its own process and no other, so a step is
one file operation, except that another process may not come between the
reading and the validation. `last[p]` is the gate's last observation, `call[p]`
the extractor's model call with the gate asked before each of its attempts,
`runs[p]` what the session was built with. `alone` is history: nobody has
touched the files since the flip read them; what it told need only be true then.

### BoardCleanup and EvidenceInjection

`BoardCleanup` follows a run of the command from its preview through the
confirmation, or the token of an earlier headless run, to one delete after
another; between two awaits others edit messages, the consumer acknowledges,
time passes and private mode is switched. `EvidenceInjection` has one retrieval
cycle per input, the registry of pending packs, the barrier `seen` (the key and
the count of user messages of every context event that was matched) and the
actions of Pi around them: context events, replays in a tool loop, compaction,
settling. Both are about what was read a while ago and is acted on now.

### CursorReconcile, AuditStore, LiveRunner

`CursorReconcile` is `CursorFile` with `reconcile()` page by page over a feed
that grows, is trimmed and starts anew; `chain` is history: the changes on whose
pages the adopted position rests. `AuditStore` has processes that open, record,
close and die: the lock is created, read, judged and removed in separate steps,
and a rotation's renames may fail or be cut short after any of them. `LiveRunner`
has one action per call of the suite, with what the run may not know (`blame`)
when it writes its report.

## 3. The runs

| Run | Question | Bounds | Answer |
|---|---|---|---|
| `shared_state` | do accepted jobs survive everything one process can meet, and do two processes keep out of each other's way and out of a newer journal while no live holder's lock gets old? does a flip of private mode do what it says? is something deleted from the board that should not be, or unreported? | one process with 2 handles in turn and a newer or used journal; 2 processes; 2 jobs, 2 write faults, crash and power loss anywhere; 2 processes and 1 feature over one config file, 1 edit, failing write or kill; 2 messages, 3 units of time, 2 cleanups, 1 event of each kind | yes; yes; no |
| `delivery_tools` | what reaches the backend, and in which order? does the advisory cursor skip, the audit log lose, the live run hide anything? | 2 jobs of a scope, 2 targets; a feed of 5 changes in passes of 2 pages of 2, 2 mishaps; 3 processes, files of 2 lines, 2 segments, 7 events, 2 faults; 3 troubles of the live run | in order, stored before acknowledged, not rerouted, quiet while private mode is observed, implements `OutboxChannel`; no |
| `liveness` | is a caller of tick(), or a job, stuck? | 3 callers and the timer; 2 jobs | no, under the fairness below |
| `observer_schedule` | are entries consumed, batched and extracted as promised? does a scheduler that outlives its session do harm to the next? | 2 entries, 2 sessions, 3 batches, cap 1, 1 navigation, 1 write fault, 1 restart; with 2 session changes, one of which may be a crash: 2 batches | yes; no entry is accepted under two opIds, and no classified one at all, while no session starts over files that lack something |
| `board_delivery` | does one consumer skip, repeat or forget, alone or beside another session? is a listing complete when it says so? | alone: 1 session, 2 pollers, 2 messages, pages of 1, 2 pages a cycle, backlog bound 2, 1 mishap; overlap: 2 sessions, 2 pollers, 1 message, locks that age, entries that are pruned; listing: 5 rows, 4 of them messages, pages of 2, 3 pages, 3 paths, 2 moves a call | no, and it implements `BoardMailbox`; yes, unless a message was withdrawn |
| `session` | is a stale result applied, an entry stranded, a resource left up? are decisions taken once and histories kept? is a pack shown twice or to another input? | 2 sessions, 3 leaves, 1 entry, 4 boundaries, 2 faults, 1 result in flight; 2 proposals with a common target, 2 actors, 3 commands, 2 faults; 2 texts, 2 records, 3 inputs, 2 provider calls, 1 turn, 5 of these together | no; yes; no |
| `reflection_backup` | is a record lost, or a set summarised twice? is text behind the coverage cursor lost? what does verification accept, and an export leave? | 3 records, one too large, registries of 2, 2 attempts, 4 runs, 2 faults; 3 entries on any tree, chunks of 2, 2 faults; 2 chunks, 2 foreign paths | no; no; only the complete; only its own |
| `store_late_ack` | may a delivery report to a handle closed at session_shutdown? | 1 process | no: it overwrites the next session's journal |
| `observer_merge` | does the model see every entry that is consumed as extracted? | cap 1, no faults | no: a merge into a batch in flight |
| `observer_handover` | is an entry ever observed under two opIds? | two entries, two batches, three session changes | yes: a batch that an old scheduler's save took out of the file and another brought back |
| `board_read_error` | is a message given up only on a verdict against it? | 1 session, 2 messages, reads that fail | no: an error that is not an availability error counts as "missing" |
| `backup_omission` | does a session's backup verify once all of it is delivered? | 2 entries, no fault | no: an entry without text leaves a gap the verification takes for a loss |

The bounds are small because the hazards are about orders, not amounts: two
jobs are an order, two handles are a takeover, two entries make a merge, one
fault and one restart make memory and disk disagree and then forget. In
`observer_schedule` the queue cap is 1 and the first entry fills a batch, so
that merging and splitting both happen with two entries. In `board_delivery` a
page holds one change and a cycle two pages, so that a cycle may end in the
middle of the feed, and two pollers are a stopped one and its successor. Bounds
of counters are constants (`MaxOps`, `MaxFaults`, `MaxFeed`, ...) that guard
actions; `CHECK_DEADLOCK FALSE` is set wherever a system may stop: a session
with nothing to deliver or to extract, or one whose bounds are used up. Board
delivery and the listings never stop, and their run checks for deadlock.
Symmetry is used only where all properties are safety properties.

A property called `...Safety` is the conjunction of a part's type invariant and
its state invariants, each named and described in the part's module, and each
stated there about a hazard of the code: for the parts that share a run with
others one formula per part is checked. `NothingErased`, `BackupKeepsOthers` and
`NoticesKept` are action properties put together likewise.

Fairness. Of delivery, `liveness` assumes: the worker's own steps are weakly fair
(promise reactions run); the timer ticks and backoffs elapse (the coordinator's
interval runs while a session is up); a request is answered or times out
(`transport.ts` arms a deadline for each); the backend is not for ever
unavailable for a job that is for ever retried (strong fairness of a successful
answer); private mode and crashes do not recur for ever. Without the last three
the code rightly never finishes. Of tick() it assumes that a run ends or
throws and that a queued run begins, which is the promise chain, and that the
timer stops at some point: with a timer that pokes in every run, a waiter is
passed on for ever (finding below).

## 4. What is proved

All theorems hold for every value of the constants allowed by the named
assumptions (`TLC` evaluates these on each run). Parts that share a run share
their constants with its MC module, which takes all bounds from its cfg, and
theorems about such a part (`CursorIsSafe`, `ReportsAreTrue`, `AuditIsSafe`,
`PrivateModeIsKept`, `CleanupIsSafe`, `ProposalsAreSafe`, `HistoryIsKept`,
`InjectionIsSafe`, `BackupIsSafe`, `BackupSparesOthers`, `ExportIsAllOrNothing`)
are stated of the MC module's specification: for every value of the constants
that satisfies `CursorAssumption`, `RunnerAssumption`, `AuditAssumption`,
`SharedAssumption`, `SessionAssumption` or `BackupAssumption`. Where a property
of a run is not inductive, what was added is the content of the proof; TLC has
checked each of these invariants on the run's instance before it was proved.

Delivery.

- `SharedStateProofs`, of `OutboxStore`: `TypeCorrect`; `AcceptedJobsSurvive`;
  `JournalHasOneWriter`; `JournalNeverTorn`. The last three are proved from one
  inductive invariant under the condition that the surroundings are the ones the
  code is written for (no late calls; no lock of a live holder gets old:
  `SingleOwner`). It says, for each point of each call, how the handle's memory,
  the temporary file, the journal and the durable copy are related, and which
  handle may be past the lock. `NewerJobsAreKept` needs none of that: whoever
  else writes, a handle that has loaded a newer journal is read-only, and one
  that has not holds no newer job to lose. Its condition `NoBlindCall` leaves
  out the one command that writes without looking, `discardQuarantined()`
  (section 5).
- `OutboxDeliveryProofs`: `TypeCorrect`, `AckedJobsAreStored`,
  `WritesAreNotRerouted`, `WritesKeepScopeOrder`, `NoWriteWhileObserved`, and
  `DeliveryIsChannel`, the refinement. The invariant adds what the worker relies
  on between awaits: the job in hand is still the head of its scope and still
  pinned to this session's target, whatever was enqueued since the snapshot;
  everything stored was sent; a send in flight while private mode is observed
  has been aborted. The same module proves `CursorIsSafe`, from an invariant that
  compares the three copies of the advisory position: the file, which a save that
  threw may have left behind, the memory, and the pass under way, which is ahead
  of it. Each page prolongs a gapless run, and where two copies overlap they
  agree, so that adopting the pass leaves no gap. `ReportsAreTrue`: what the run
  has seen so far, and what its report may claim when it ends, follow the record
  it created through every failure. `AuditIsSafe`: a process that owns the log has
  its pid in the lock file, and what a process judged stale was a dead one's
  (`AuditLocks`), so the lock is free to be taken; the files are in order, and
  what is gone is older than all of them (`InOrder`), after any number of the
  calls of a rotation, because the place that is free moves down one by one
  (`ShiftedInOrder`).
- `TickCoalescingProofs`: `SingleRun`, `NobodyIsForgotten`, `NoLostWakeup`, each
  from an invariant relating the flags of tick() to the run in progress.

Observation and reflection.

- `ObserverProofs`: `TypeCorrect`, `CoverageIsAccounted`, `BatchesStayDisjoint` of
  one runtime after another. `ConsumedIsAccounted` alone is not inductive: the
  run consumes in a step after the one that enqueued, so the invariant adds that
  the entries about to be consumed are already claimed or recorded as gone
  (`Settled`), and that the next opId is fresh for the queue in memory and for
  the one a restart would read (`Fresh`), without which a restart could put two
  batches under one name. `CallsAreSafe`, and with schedulers of ended sessions
  at work `ModelCallsAreSafe`, `HandoversAreSafe` and `HandoversKeepTheQueue`:
  that invariant is about attribution. An entry may be put under a batch in the
  file, in the memory of the runtime that is up, in those of the schedulers
  before it, and in the accepted jobs; wherever it is, it is the same batch, and
  the runtime that is up knows of it. A session change preserves that exactly
  when the files lack nothing (`lost`). The attempt to prove it without that
  condition failed for a good reason, which is finding 5.
- `ReflectionEngineProofs`: `ReflectionsAreSafe`, `NoSetIsSummarisedTwice`. Each
  promise has exceptions of its own, and the invariant has one layer per
  exception: always, what memory and file know of a set is backed by jobs, and
  neither leaves out a record that has been on disk; with no failed save and no
  record back, a job whose records are still pending is of the current run, so
  that sets are disjoint; with no run carried out twice, every path is written
  once; with nothing forgotten, the registry has every summarised set.
- `BackupProofs`: `BackupIsSafe`, for any tree of branches, any cap and any number
  of faults. Each of the three ways a flush goes is one step (`FlushStep`): k of
  its jobs are queued, and memory and file are where that left them. The invariant
  has a part per promise. `Somewhere`: a covered text is in a chunk; it holds
  because the cursor moves after the last chunk is queued. `Declared`: a manifest
  that declares no chunk twice declares chunks of covered entries only. That is
  why what verifies is whole although `verify.ts` compares only a number and the
  two ends: entries that are unique, all covered, and as many as are covered, are
  the covered ones; and a chunk declared twice makes an entry occur twice. The
  chunks that a flush that threw leaves behind are not of covered entries; they
  begin at the cursor, so that the next chunk meets them (`Sorted`). `Replayed`:
  while no other flush came between, what is placed from the cursor of the file on
  is what the flush cut short would draw again, so that no seq has two contents;
  a flush that repeats it in the same process finds every text of it covered
  (`FlushStarts`). `Faithful`: in a session of text, the chunks of the state are
  numbered from 0, placed, and hold in order what it covers, and each parent comes
  before its child (`Linked`), because a branch is a path from the root and the
  cursor has taken whole paths. `BackupSparesOthers`; and of `BackupExport`,
  `ExportIsAllOrNothing`: as long as the copy runs, a path is made by it or still
  to be made, and every file it made is on its ledger (`CopyInv`), so the cleanup
  finds all of them and only them.

Session, proposals, private mode, board.

- `SessionLifecycleProofs`: `SessionIsSafe`, `ResultsAreOfTheirEpoch`,
  `ResourcesAreOwned`, `NewerIsKept`. The invariant relates the places a fact
  lives in: the file, the coordinator's memory and what is published of it
  (`Minted`, `Owed`); the stash and the navigation it was taken for (`Stashed`);
  the last pair of leaves and the leaf Pi is at, which is why the duplicate filter
  takes no real navigation for a duplicate (`Apart`). Of `ProposalLifecycle`,
  `ProposalsAreSafe` and `HistoryIsKept`. The part about the operation logs holds
  for any interleaving of any number of actors: every opId on a document is in
  a log, every opId is issued once. The part about documents holds as long as
  commands run one after another (`overlap` is false), through faults at any
  point, which is what the code arranges within a session; the invariant states
  for each stage of a command what it may rely on of the documents it has read
  (`Fits`), and for the time between commands that what hides a record is an
  approval that stands (`Rest`). Of `EvidenceInjection`, `InjectionIsSafe`. A pack
  has one fate: it is pending, and then shown or dropped (`OneFate`); its id is
  new, because ids of a text and kind are counted (`IdsIssued`). The barrier is
  bounded and forgets counts and whole keys, so it cannot be the reason that
  replays inject nothing. The reason is `ReplaysAreSeen`: the last message of the
  context is in it as soon as a call has had that message, and only a message
  that no call has had can become the last one.
- `SharedStateProofs`, of `LiveConfig`: `PrivateModeIsKept`. A flip that has
  been alone since it read the file finds in it what it read (`Alone`); one that
  writes while no other does has the temporary file for itself (`Solo`).
  `CleanupIsSafe`: what a delete relies on was established steps ago and may
  have changed since: the tuple was confirmed at the answer, the message was
  eligible when it was read again. The invariant carries both through the run,
  with the acknowledgments read at its start, each of which has a first one no
  later (`AcksHaveFirst`), and says when a delete may be under way in private
  mode (`GateSound`).
- `BoardDeliveryProofs`: `TypeCorrect` and `CursorNeverSkips`, with no condition
  on the lock, the sessions or the faults. `CursorCovers` is not inductive: a
  cycle that will store a cursor later has read the feed now, so the invariant
  says of every cycle that what its cursor passed is known (notified or skipped)
  or still in its hands (`Sound`), and of every state that may be saved that its
  entries, by which the next cycle dedupes, are known too (`Good`). A cycle
  stores its cursor only with empty hands. `NoticesAreKept`: as long as nothing
  upset the file there is one session and one poller, and its memory is what the
  file holds (`Calm`); what was notified is in the file or about to be recorded
  there (`Told`), and a cycle has in hand only messages that the file has no
  entry of, each once (`Unhandled`). That there is only one rests on an
  acquisition being of a live session, and an unstopped poller too
  (`Scheduled`), which hold whatever happens. `DeliveryIsMailbox`, the
  refinement of `BoardMailbox`, needs besides that nothing is in hand that was
  not posted, that what was skipped is in the file and was not notified, and
  that a cycle's positions are at or beyond the cursor of the file (`Beyond`),
  which they are going to replace. Of `BoardListing`, `ListingIsSafe`: as long
  as nothing is removed, what the listing owes is kept already or at a place the
  next pages come to (`NothingPassed`), because posting only moves rows up; on a
  backend that ignores the offset every place is still to come, and only an
  empty listing ends with an empty page.

Several proofs are about what a recursive function computes: the loop that
filters a batch (`Within`), its like for the rows of a page, the last line of a
document's history, and of the backup the chunks drawn from a list of entries,
the path to an entry of the tree and the joining of contents. They do without an
induction rule: the least length for which the claim fails would have a smaller
one (`Least`, `LastExists`, `UpTo`, from the well-foundedness of <). That such a
function exists is shown by collecting the functions that solve its equation up to
N (`Recursion`). So `ChunkEntries` is known for every input: its chunks, joined,
are what they were drawn from, in order, and none is empty (`ChunksAre`).

Only model-checked: liveness (`EveryJobSettles`, `EveryCallSettles`), which is
out of the prover's reach. The run explores it to the end within the bounds of
section 3. Every invariant, every action property and both refinements of
the passing runs are theorems.

## 5. Where the code and its documentation disagree

Each finding in `PROJECT.json` has a run with a shortest counterexample:

1. a late acknowledgement rewrites the next session's journal (`store.ts:450`);
2. entries merged into a batch in flight are consumed unextracted
   (`scheduler.ts:523`);
3. a board message is given up for ever because a read of it failed
   (`repository.ts:403`);
4. a backup with an omitted entry never verifies (`verify.ts:415`);
5. an entry is observed twice, under two opIds, after a scheduler of an ended
   session has saved its queue over the next one's (`scheduler.ts:743`).

Met while modelling and stated in the modules, with no run yet. Each is a
property of its module that the code does not have:

- journal: a live session's outbox lock is taken after 30 s (`OneWriter` with
  `LockAges = "any"`, `store.ts:262`), and two processes race over a dead
  holder's (`"crashed"`); `discardQuarantined()` rewrites a newer journal
  (`NewerKept` with "discard"); `enqueue` may throw for a job that is in the
  journal (`RefusedNotPersisted`);
- delivery: a send aborted by private mode is quarantined when private mode has
  ended by the time the catch runs (`AbortHolds`, `worker.ts:350`); a request
  past its deadline is quarantined, not retried (`OutageHolds`); a caller of
  tick() is passed over by a follow-up of a follow-up (`SettlesWithFollowUp`);
- private mode: a session that started in private mode was built without its
  features, which do not resume when it is switched off (`OffResumes`,
  `session.ts:298`), though docs/configuration.md:34-42 lists `privateMode` as
  live;
- observer: entries from before private mode are classified private with the
  rest (`PrePrivateKept`, `scheduler.ts:820`); a batch left by another session
  is dropped (`PendingNeverDropped`); a call that fails after its session puts
  a batch accepted since then back into the state file, so that the session
  after the next runs it again, though "a batch is run at most once per record"
  (`AcceptedOnce`, `scheduler.ts:743`), and its save drops the new session's
  batches from the file, so that entries classified private-session may still
  be sent, if not accepted, by the call of such a batch (`SkippedNotAsked`);
- board: an ack of a session whose delivery is held writes its old state over
  the other session's (`AckNeverUndone`, `board/runtime.ts:222`); a row
  withdrawn between two pages moves the next before the offset, and a listing
  called complete lacks it (`NoFalseComplete`, `repository.ts:361`);
- session: polling does not resume after a navigation (`PollingResumes`,
  `index.ts:412`); a shutdown cut short by a throwing write leaves the runtime
  in place, and the next session works without what was already released
  (`TeardownIsComplete`, `index.ts:455`);
- proposals: a transition of a proposal rewrites a record without its forgotten
  mark (`ForgottenStays`, `manual-ops.ts:497`); an undo may restore what another
  approval superseded (`RestoresOwn`, `proposals.ts:12`); an approval that
  stopped half way is not completed by approving again (`ApproveCompletes`,
  `proposals.ts:399`);
- reflection: a run carried out again after a crash asks the model again, and
  its second summary conflicts with the first at the same immutable path
  (`ReplayIsIdentical`, `reflection.ts:1106`);
- backup: chunks drawn again after a crash differ when the session has grown or
  another branch is flushed (`RederivedIsIdentical`, `capture.ts:665`); a flush
  that threw and was repeated declares chunks twice, so that its backup fails
  verification (`RetriedVerifies`, `capture.ts:655`); an export's cleanup removes a
  directory another writer created (`ForeignDirectoriesKept`, `verify.ts:549`);
- cleanup: private mode switched on between a message's re-check and its delete
  does not stop that delete (`NoDeleteWhilePrivate`, `cleanup-execute.ts:25`); a
  message whose delete lost its answer is reported as kept (`KeptRemain`, `:62`);
  the audit entry of a run that private mode stopped says 0 deletes
  (`AuditCountsDeletes`, `board-commands.ts:229`); the re-check uses the
  acknowledgements read when the command started (`RecheckIsFresh`,
  `cleanup-execute.ts:288`);
- injection: a queued pack may be taken by the fresh run's first call
  (`NeverEarly`, `retrieval/coordinator.ts:299`); a pack produced before a
  cancel, or of a record forgotten meanwhile, is still shown
  (`CancelledNeverShown`, `controls.ts:105`; `GoneNeverShown`,
  `manual-ops.ts:225`);
- cursor: flagging a newer file as in need of reconciliation rewrites it
  (`NewerNeverRewritten`, `cursor.ts:165`); after a save that threw, a repeated
  `advanceLocalSeq` returns without one (`ReturnedIsDurable`, `cursor.ts:146`).

Met without a property: `architecture.md` has the stored cursor untouched when
discovery falls back to a listing, while `delivery.ts:734` stores the cursor of
the pages read before the feed failed (harmless: `CursorCovers` holds); a
deadline of the feed switches to the listing like any rejection; acknowledged
entries are pruned after 14 days where `architecture.md` says 90; and a tree
navigation stops delivery (`index.ts:412`) without a restart at `session_tree`.
Further: listings start over at the newest rows, so that behind a page bound of
already handled rows an older one is never reached (`repository.ts:312`); a
reconciliation pass that stops at its page bound saves nothing
(`cursor.ts:253`); a lock file judged stale by two processes may be removed from
under its new owner, and a record appended after a torn line is counted as
persisted (`audit-store.ts:239`, `:346`); a record created by a live run whose
answer was lost is on no manifest (`live/runner.ts:320`), and a failing read
after a delete counts as absence (`:596`); private mode counts as a failed
attempt of a reflection, and its retries are triggered only by the next
observation; a flush of omissions alone queues no manifest.
A config file that loads only with the defaults merged in (one without
`schemaVersion`, say) refuses every flip of private mode, because the raw file
is validated (`controls.ts:64`); two processes that flip at once share one
temporary file (`:74`), so that one may answer "NOT changed" of a change that
came about, or leave a torn file, which then counts as private. A runtime whose
construction fails over a state file of a newer version keeps the outbox's lock
and the audit log's until its process ends (`session.ts:288`), and a held board
delivery does not degrade the overall status, since its reason does not begin
with the "HELD" that the status looks for.

## 6. Not modelled

Pure functions over text and JSON (records, paths, redaction, configuration,
prompts, ranking, packing) appear as verdicts or identities; commands appear as
the operations they start. In the modelled parts:

- of the extractor, what a call sends and how its answer is judged;
- in `LiveConfig`, a config file that is valid JSON but cannot be read, the
  other users of the gate (they are in the models of those users), and a model
  call that outlives its session, which only its deadline ends;
- in `ObserverScheduler`, a state file that is corrupt or newer (it is read as
  empty, and the next save writes it over, whatever the comment at
  `scheduler.ts:399` says of a newer one), duplicate deliveries of Pi's events
  (these are in `SessionLifecycle`), a runtime without an extractor;
- in `OutboxDelivery`, payload validation is a refusal, and the journal is taken
  to be the one `OutboxStore` establishes;
- in `BoardDelivery`, a state file that is corrupt or newer (the session then has
  no delivery), the inbox buffer and its cap, poll intervals and backoff;
- in `SessionLifecycle`, `registerWork`, `runExclusive` and `applyIfCurrent`,
  which nothing calls; in `ReflectionEngine`, an engine that outlives its
  session, and records that vanish between noting and reading;
- in `BackupCapture`, a manifest written by a handle that outlives its session,
  and several sessions;
- in `AuditStore`, the fallback buffer, the removal of legacy segments and of
  temporary files, and reused process ids.

## 7. The plan

Done: the modules of section 2, their runs, and the proofs of section 4. Left,
in this order:

1. Liveness of board delivery: every posted message is notified or skipped while
   polling goes on and the backend answers.
2. Compositions: `ObserverScheduler` with `OutboxDelivery` (an entry is consumed
   only if its observation reaches the backend or is visibly quarantined); the
   liveness of the observer (every entry is extracted unless its batch is too large).
