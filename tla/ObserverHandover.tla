-------------------------- MODULE ObserverHandover --------------------------
(***************************************************************************)
(* A session change within one process (src/src/index.ts, session_shutdown *)
(* and session_start): the scheduler of the session that ends is disposed  *)
(* of, which clears its idle timer and nothing else.  A model call that is *)
(* out stays out, the batches queued behind it follow, and all of them     *)
(* report to the old scheduler, whose memory and whose coordinator's are   *)
(* as they were, while a new runtime works over the same two files.        *)
(*                                                                         *)
(* The runtime of the session that is up is ObserverScheduler's.  What is  *)
(* in that module alone, navigations and writes that throw, is left out of *)
(* the next-state relation here.                                           *)
(***************************************************************************)
EXTENDS ObserverScheduler

CONSTANTS
    MaxSwitches    \* bound: session changes within the process

VARIABLES
    old,       \* schedulers of ended sessions with something on their chains
    switches,  \* session changes so far
    lost       \* history: a runtime was built from files that lacked something
               \* the one before knew

leftover == <<old, switches, lost>>

\* asked is the batch whose model call is out, 0 if none is.
Leftovers ==
    [life : Nat, in : Sessions, consumed : SUBSET Entries, pending : SUBSET Ops,
     ids : [Ops -> SUBSET Entries], chain : Seq(Ops), asked : Ops \cup {0}]

HandoverTypeOK ==
    /\ old \in SUBSET Leftovers
    /\ \A r \in old : r.life < life /\ r.chain # << >>
                      /\ r.asked \in {0, Head(r.chain)}
    /\ switches \in Nat
    /\ lost \in BOOLEAN

HandoverInit == Init /\ old = {} /\ switches = 0 /\ lost = FALSE

-----------------------------------------------------------------------------
\* Session changes and crashes.

\* What a scheduler keeps when its session ends.
Left == [life |-> life, in |-> session, consumed |-> consumed,
         pending |-> pending, ids |-> entryIds, chain |-> chain,
         asked |-> flight.op]

\* Every batch of the runtime that is up is in the file, whoever wrote it last.
Recorded == \A o \in pending : entryIds[o] \subseteq file[o]

\* Mutant: the registry of the session before is not read back.
SwitchForgets(s) ==
    /\ Quiet
    /\ switches < MaxSwitches
    /\ switches' = switches + 1
    /\ old' = IF chain = << >> THEN old ELSE old \cup {Left}
    /\ Rebuilt(s)
    /\ registry' = consumed
    /\ consumed' = {}
    /\ lost' = (lost \/ ~Recorded)

\* session_shutdown, with the coordinator's last save, and session_start.
Switch(s) ==
    /\ Quiet
    /\ switches < MaxSwitches
    /\ switches' = switches + 1
    /\ old' = IF chain = << >> THEN old ELSE old \cup {Left}
    /\ Rebuilt(s)
    /\ registry' = consumed
    /\ UNCHANGED consumed
    /\ lost' = (lost \/ ~Recorded)

\* The process dies with everything in it.
Crash(s) ==
    /\ life - switches < MaxLives
    /\ old' = {}
    /\ lost' = (lost \/ ~Recorded \/ ~(consumed \subseteq registry))
    /\ Rebuilt(s)
    /\ consumed' = registry
    /\ UNCHANGED <<registry, switches>>

-----------------------------------------------------------------------------
\* runBatch of an old scheduler, for the batch at the head of its chain.

\* What the provider of the ended session still answers.
LeftViews(r) == {e \in r.ids[Head(r.chain)] : e \in DOMAIN log /\ log[e].in = r.in}

\* The scheduler r has come to q; without a chain nothing is left of it.
Becomes(r, q) ==
    old' = (old \ {r}) \cup (IF q.chain = << >> THEN {} ELSE {q})

RunEnded(r) == [r EXCEPT !.chain = Tail(r.chain), !.asked = 0]

LeftFrame ==
    UNCHANGED <<context, memory, jobs, skipped, summarised, faults, switches, lost>>

\* No entry of the batch is in that session: both files are written, from the
\* memory of the runtime that has ended.
LeftVanished(r) ==
    LET op == Head(r.chain) IN
    /\ r.asked = 0 /\ LeftViews(r) = {}
    /\ gone' = gone \cup r.ids[op]
    /\ registry' = IF r.ids[op] \subseteq r.consumed THEN registry
                   ELSE r.consumed \cup r.ids[op]
    /\ file' = AsSaved(r.pending \ {op}, r.ids)
    /\ Becomes(r, [RunEnded(r) EXCEPT !.consumed = r.consumed \cup r.ids[op],
                                      !.pending = r.pending \ {op}])
    /\ LeftFrame

\* The model is called; the gate is disposed of but still reads the live mode.
LeftAsk(r) ==
    /\ r.asked = 0 /\ LeftViews(r) # {}
    /\ Tokens(LeftViews(r)) + Framing <= InputBudget /\ ~private
    /\ Becomes(r, [r EXCEPT !.asked = Head(r.chain)])
    /\ UNCHANGED <<registry, file, gone>>
    /\ LeftFrame

\* The call fails or is refused: the cooldown is saved, and with it the queue
\* as it was when the session ended.
LeftFails(r) ==
    /\ \/ r.asked # 0
       \/ LeftViews(r) # {} /\ (private \/ Tokens(LeftViews(r)) + Framing > InputBudget)
    /\ file' = AsSaved(r.pending, r.ids)
    /\ Becomes(r, RunEnded(r))
    /\ UNCHANGED <<registry, gone>>
    /\ LeftFrame

\* The call succeeds and the closed outbox throws, or the run ends before the
\* call: a source is held, or Pi no longer answers for an ended session.
LeftEnds(r) ==
    /\ Becomes(r, RunEnded(r))
    /\ UNCHANGED <<registry, file, gone>>
    /\ LeftFrame

-----------------------------------------------------------------------------
HandoverNext ==
    \/ /\ \/ Trigger(TRUE)
          \/ \E op \in Ops : Run(op, TRUE)
          \/ Arrive
          \/ TogglePrivate
          \/ \E op \in Ops : Cooldown(op)
       /\ UNCHANGED leftover
    \/ \E s \in Sessions : Switch(s) \/ Crash(s)
    \/ /\ Quiet
       /\ \E r \in old : LeftVanished(r) \/ LeftAsk(r) \/ LeftFails(r) \/ LeftEnds(r)

HandoverSpec == HandoverInit /\ [][HandoverNext]_<<vars, leftover>>

-----------------------------------------------------------------------------
(***************************************************************************)
(* Properties.                                                             *)
(***************************************************************************)

\* What the model is called with, as long as no other scheduler has written the
\* files: each batch once and from disk, and nothing private (scheduler.ts:367-371,
\* 710-733).  That a scheduler has a batch accepted once holds at any time.
ModelCallSafety ==
    OncePerLife /\ (switches = 0 => AskedIsDurable /\ SkippedNeverSent)

\* A failed batch is re-derived under the same opId, "never a duplicate
\* observation" (scheduler.ts:532-534): no entry is claimed under two.  The code
\* does not keep this: an old scheduler's save takes a batch out of the file, the
\* next session gives its entries another opId, and a later save of a scheduler
\* that still knows the batch brings the first one back.
NeverDuplicated ==
    faults = 0 => \A j, k \in jobs : j.claimed \cap k.claimed # {} => j.op = k.op

\* It does keep it, whatever old schedulers write over the queue and the registry,
\* as long as no runtime is built from files that lack what the last one knew.
OneObservation == ~lost => NeverDuplicated

\* What was classified private-session is then in no job, not even in one of a
\* scheduler that has not heard of the classification (scheduler.ts:367-371).
PrivateStaysOut == ~lost /\ faults = 0 => skipped \cap Claimed = {}

\* What an old scheduler does after its session does no harm to the new one.
HandoverSafety == HandoverTypeOK /\ OneObservation /\ PrivateStaysOut

\* A batch is run at most once per record (scheduler.ts:714): without a crash
\* and a failing write one run of it is accepted.  The code does not keep this:
\* a call that fails after its session puts a batch that was accepted since
\* back into the file, from which the next session runs it again.
AcceptedOnce ==
    life = switches + 1 => \A j, k \in jobs : j.op = k.op => j = k

\* An entry classified private-session is not sent to the model.  The code does
\* not keep this either: a batch whose record an old scheduler has overwritten
\* is unknown to the session after the next, which classifies its entries while
\* the call of it may still be to come.
SkippedNotAsked ==
    [][\A r \in old' : r.asked # 0 /\ (\A q \in old : q.life = r.life => q.asked = 0)
            => r.ids[r.asked] \cap skipped = {}]_<<vars, leftover>>
=============================================================================
