-------------------------- MODULE EvidenceInjection -------------------------
(***************************************************************************)
(* Retrieval and injection: one retrieval cycle per user input, its        *)
(* guarded candidates, the pack it registers                               *)
(* (src/src/retrieval/coordinator.ts, src/src/backend/guard.ts), and the   *)
(* injector that consumes packs at before_agent_start and on provider      *)
(* calls (src/src/inject/injector.ts), with what drops them: the settling  *)
(* of a run (src/src/index.ts) and a forget                                *)
(* (src/src/commands/manual-ops.ts).                                       *)
(*                                                                         *)
(* Pi awaits the input handler before it starts a run or queues the input; *)
(* while one input is being retrieved the run goes on, settles, is         *)
(* compacted or navigated away from, a record is forgotten or restored,    *)
(* and private mode is switched.  An input is known by its number, and a   *)
(* message of the history by the number of its input.                      *)
(***************************************************************************)
EXTENDS Integers, Sequences, FiniteSets, SequencesExt

CONSTANTS
    Keys,           \* texts of inputs (matchKeyOf)
    Records,        \* records of the backend
    Authorized,     \* those inside an authorized scope and its memory/ namespace
    Cap,            \* evidence items that fit the token cap
    MaxInputs,      \* bound: inputs
    MaxCalls,       \* bound: provider calls
    MaxTurns,       \* bound: forgets, private-mode flips, compactions, navigations
    MaxMoves,       \* bound: inputs, calls and turns together
    MaxKeys,        \* MAX_KEYS of the barrier
    MaxCounts       \* MAX_COUNTS_PER_KEY of the barrier

BoundsAssumption ==
    /\ Authorized \subseteq Records /\ Cap \in Nat
    /\ {MaxInputs, MaxCalls, MaxTurns, MaxMoves} \subseteq Nat
    /\ MaxKeys \in Nat \ {0} /\ MaxCounts \in Nat \ {0}

VARIABLES
    forgotten,  \* records whose memory_status is not active
    forgetting, \* records whose forget awaits its answer before it drops packs
    private,
    tokenizer,  \* a tokenizer is attached
    inputs,     \* the inputs so far: [key, kind]
    stage,      \* stage[i] of input i: retrieving, ready, sent, gone
    cycle,      \* cycle[i]: the records the cycle of input i has found so far
    pending,    \* registry.pending
    consumed,   \* registry.consumed
    seen,       \* registry.seenCounts, oldest key first, oldest count first
    occurrences,\* packs built per text and kind
    history,    \* user messages of the context, by input
    run,        \* an agent run is under way
    calls, turns,
    shown,      \* history: packs injected
    called,     \* history: messages some call had as its last, at this count
    banned,     \* history: per input, records forgotten throughout its cycle
    gone,       \* history: records whose forget completed, not restored
    dropped,    \* history: inputs whose pack was dropped
    cancelled,  \* history: inputs retrieved, or being so, before a cancel
    lost        \* history: inputs whose pack was not registered

registry == <<pending, consumed, seen>>
ghosts   == <<shown, called, banned, gone, dropped, cancelled, lost>>
pi       == <<inputs, stage, history, run>>
backend  == <<forgotten, forgetting, private, tokenizer>>
vars     == <<backend, pi, cycle, registry, occurrences, calls, turns, ghosts>>

Kinds == {"fresh", "queued"}
Ids      == 1..Len(inputs)

Init ==
    /\ forgotten = {} /\ forgetting = {} /\ private = FALSE
    /\ tokenizer = FALSE
    /\ inputs = <<>> /\ stage = <<>> /\ cycle = <<>>
    /\ pending = <<>> /\ consumed = {} /\ seen = <<>>
    /\ occurrences = [c \in Keys \X Kinds |-> 0]
    /\ history = <<>> /\ run = FALSE /\ calls = 0 /\ turns = 0
    /\ shown = {} /\ called = {} /\ banned = <<>> /\ gone = {}
    /\ dropped = {} /\ cancelled = {} /\ lost = {}

-----------------------------------------------------------------------------
\* The retrieval cycle of one input.

\* The input event, fresh or steered into a run; held under private mode.
Input(k, kind) ==
    /\ Len(inputs) < MaxInputs
    /\ kind = "queued" <=> run
    /\ kind = "fresh" => \A i \in Ids : inputs[i].kind = "fresh" =>
                                          stage[i] \notin {"retrieving", "ready"}
    /\ inputs' = Append(inputs, [key |-> k, kind |-> kind])
    /\ stage'  = Append(stage, IF private THEN "ready" ELSE "retrieving")
    /\ cycle'  = Append(cycle, {})
    /\ banned' = Append(banned, forgotten)
    /\ UNCHANGED <<backend, history, run, registry, occurrences, calls, turns,
                   shown, called, gone, dropped, cancelled, lost>>

\* guardCandidate: a fresh read-back, then status, scope and path.
Guard(r) == r \notin forgotten /\ r \in Authorized

\* A hit of some leg (full text, semantic, hybrid, brief) is read back and kept.
Hit(i, r) ==
    /\ stage[i] = "retrieving" /\ r \notin cycle[i]
    /\ Guard(r)
    /\ cycle' = [cycle EXCEPT ![i] = @ \cup {r}]
    /\ UNCHANGED <<backend, pi, registry, occurrences, calls, turns, ghosts>>

\* buildPack's loop: the lowest-ranked items go until the payload fits.
Fits(i, kept) == kept \subseteq cycle[i] /\ Cardinality(kept) = Min({Cap, Cardinality(cycle[i])})

\* The occurrence counter keeps the id of a repeated input apart.
InputId(k, kind) == <<k, kind, occurrences[k, kind] + 1>>

\* buildPack: without a tokenizer, or one that cannot count this payload, the
\* pack keeps every item and may not be injected.
BuildPack(i, items, ok) ==
    [input |-> i, id |-> InputId(inputs[i].key, inputs[i].kind), key |-> inputs[i].key,
     origin |-> inputs[i].kind, items |-> items, ok |-> ok]

\* registry.add rejects an id that is consumed or pending.
Rejected(p) == p.id \in consumed \/ \E j \in DOMAIN pending : pending[j].id = p.id

\* The end of retrieve(), in one turn: build the pack and register it.
Register(i) ==
    /\ stage[i] = "retrieving"
    /\ \E kept \in SUBSET cycle[i], ok \in BOOLEAN :
        /\ ok => tokenizer /\ Fits(i, kept)
        /\ ~ok => kept = cycle[i]
        /\ LET p == BuildPack(i, kept, ok) IN
           IF Rejected(p)
           THEN lost' = lost \cup {i} /\ UNCHANGED pending
           ELSE pending' = Append(pending, p) /\ UNCHANGED lost
    /\ occurrences' = [occurrences EXCEPT ![<<inputs[i].key, inputs[i].kind>>] = @ + 1]
    /\ stage' = [stage EXCEPT ![i] = "ready"]
    /\ cycle' = [cycle EXCEPT ![i] = {}]
    /\ UNCHANGED <<backend, inputs, history, run, consumed, seen, calls, turns,
                   shown, called, banned, gone, dropped, cancelled>>

\* The deadline passes, or the query cannot be classified: no pack.
Degrade(i) ==
    /\ stage[i] = "retrieving"
    /\ stage' = [stage EXCEPT ![i] = "ready"]
    /\ cycle' = [cycle EXCEPT ![i] = {}]
    /\ UNCHANGED <<backend, inputs, history, run, registry, occurrences, calls,
                   turns, ghosts>>

\* setTokenizer: the configured module has loaded.
AttachTokenizer ==
    /\ ~tokenizer /\ tokenizer' = TRUE
    /\ UNCHANGED <<forgotten, forgetting, private, pi, cycle, registry,
                   occurrences, calls, turns, ghosts>>

-----------------------------------------------------------------------------
\* Consumption.

\* injectable: counted under the cap, and not empty.
Injectable(p) == p.ok /\ p.items # {}

\* What an injection of p at message m is, for the properties.
Showing(p, m, via, again) ==
    [input |-> p.input, at |-> m, via |-> via, items |-> p.items, again |-> again,
     early |-> p.origin = "queued" /\ ~Contains(history, p.input),
     gone |-> p.items \cap gone # {},
     cancelled |-> p.input \in cancelled]

Take(j) ==
    /\ pending' = RemoveAt(pending, j)
    /\ consumed' = consumed \cup {pending[j].id}

\* consumeFresh: the oldest fresh pack of the prompt's text.
FreshFor(k) == SelectInSeq(pending, LAMBDA p : p.origin = "fresh" /\ p.key = k)

\* before_agent_start of a fresh input: its message opens the run.
BeforeAgentStart(i) ==
    /\ stage[i] = "ready" /\ inputs[i].kind = "fresh" /\ ~run
    /\ LET j == FreshFor(inputs[i].key) IN
       IF j = 0 THEN UNCHANGED <<pending, consumed, shown>>
       ELSE /\ Take(j)
            /\ shown' = IF Injectable(pending[j])
                        THEN shown \cup {Showing(pending[j], i, "start", FALSE)} ELSE shown
    /\ run' = TRUE
    /\ stage' = [stage EXCEPT ![i] = "sent"]
    /\ history' = Append(history, i)
    /\ UNCHANGED <<backend, inputs, cycle, seen, occurrences, calls, turns,
                   called, banned, gone, dropped, cancelled, lost>>

\* Pi takes a queued input into the run, or opens a run with it.
Deliver(i) ==
    /\ stage[i] = "ready" /\ inputs[i].kind = "queued"
    /\ stage' = [stage EXCEPT ![i] = "sent"]
    /\ history' = Append(history, i) /\ run' = TRUE
    /\ UNCHANGED <<backend, inputs, cycle, registry, occurrences, calls, turns, ghosts>>

\* Another extension answers a fresh input, or the user aborts it: no run.
Handled(i) ==
    /\ stage[i] = "ready" /\ inputs[i].kind = "fresh" /\ ~run
    /\ stage' = [stage EXCEPT ![i] = "gone"]
    /\ UNCHANGED <<backend, inputs, history, run, cycle, registry, occurrences,
                   calls, turns, ghosts>>

SeenAt(k) == SelectInSeq(seen, LAMBDA e : e.key = k)
IsSeen(k, n) == SeenAt(k) # 0 /\ Contains(seen[SeenAt(k)].counts, n)

\* recordCount: a full map loses its oldest key, a full set its oldest count.
RecordCount(k, n) ==
    LET Bounded(s, max) == IF Len(s) >= max THEN Tail(s) ELSE s IN
    IF SeenAt(k) # 0
    THEN [seen EXCEPT ![SeenAt(k)].counts = Append(Bounded(@, MaxCounts), n)]
    ELSE Append(Bounded(seen, MaxKeys), [key |-> k, counts |-> <<n>>])

Match(k) == SelectInSeq(pending, LAMBDA p : p.key = k)

\* Mutant: the barrier is recorded only when no pack matched.
ConsumeMatchingLate(k, n) ==
    IF IsSeen(k, n) THEN UNCHANGED <<pending, consumed, seen>>
    ELSE IF Match(k) = 0 THEN seen' = RecordCount(k, n) /\ UNCHANGED <<pending, consumed>>
    ELSE Take(Match(k)) /\ UNCHANGED seen

\* The registry's answer to a call whose last message has text k, the n-th:
\* the barrier is recorded first, then the oldest pack of that text is taken.
ConsumeMatching(k, n) ==
    IF IsSeen(k, n) THEN UNCHANGED <<pending, consumed, seen>>
    ELSE /\ seen' = RecordCount(k, n)
         /\ IF Match(k) = 0 THEN UNCHANGED <<pending, consumed>> ELSE Take(Match(k))

\* The context event of one provider call, tool loops included.
Context ==
    /\ run /\ history # <<>> /\ calls < MaxCalls
    /\ LET m == Last(history)
           k == inputs[m].key
       IN  /\ ConsumeMatching(k, Len(history))
           /\ shown' = shown \cup
                {Showing(p, m, "context", m \in called) :
                    p \in {q \in ToSet(pending) : q.id \in consumed' \ consumed /\ Injectable(q)}}
           /\ called' = called \cup {m}
    /\ calls' = calls + 1
    /\ UNCHANGED <<backend, pi, cycle, occurrences, turns, banned, gone, dropped,
                   cancelled, lost>>

-----------------------------------------------------------------------------
\* What drops packs, and what changes under them.

\* dropUnmatched: what is pending becomes consumed.
DropUnmatched ==
    /\ consumed' = consumed \cup {pending[j].id : j \in DOMAIN pending}
    /\ pending' = <<>>
    /\ dropped' = dropped \cup {pending[j].input : j \in DOMAIN pending}

\* agent_settled.
Settle ==
    /\ run /\ run' = FALSE
    /\ DropUnmatched
    /\ UNCHANGED <<backend, inputs, stage, history, cycle, seen, occurrences,
                   calls, turns, shown, called, banned, gone, cancelled, lost>>

Turn == turns < MaxTurns /\ turns' = turns + 1

\* Compaction: older messages give way to a summary, and counts shift.
Compact ==
    /\ Turn /\ Len(history) > 1
    /\ \E n \in 2..Len(history) : history' = SubSeq(history, n, Len(history))
    /\ called' = {}
    /\ UNCHANGED <<backend, inputs, stage, run, cycle, registry, occurrences, calls,
                   shown, banned, gone, dropped, cancelled, lost>>

\* A navigation to an earlier message, between runs.
Navigate ==
    /\ Turn /\ ~run /\ history # <<>>
    /\ \E n \in 0..(Len(history) - 1) : history' = SubSeq(history, 1, n)
    /\ called' = {}
    /\ UNCHANGED <<backend, inputs, stage, run, cycle, registry, occurrences, calls,
                   shown, banned, gone, dropped, cancelled, lost>>

\* /kiwifs-forget: the backend marks the record, then pending packs are dropped.
\* A record that no pack may hold makes no difference here.
Forget(r) ==
    /\ Turn /\ ~private /\ r \in Authorized \ forgotten
    /\ forgotten' = forgotten \cup {r} /\ forgetting' = forgetting \cup {r}
    /\ UNCHANGED <<private, tokenizer, pi, cycle, registry, occurrences, calls, ghosts>>

ForgetDrops(r) ==
    /\ r \in forgetting /\ forgetting' = forgetting \ {r}
    /\ DropUnmatched
    /\ gone' = gone \cup ({r} \cap forgotten)
    /\ UNCHANGED <<forgotten, private, tokenizer, pi, cycle, seen, occurrences,
                   calls, turns, shown, called, banned, cancelled, lost>>

\* /kiwifs-forget undo.
Restore(r) ==
    /\ ~private /\ r \in forgotten
    /\ forgotten' = forgotten \ {r} /\ gone' = gone \ {r}
    /\ banned' = [i \in Ids |-> IF stage[i] = "retrieving" THEN banned[i] \ {r} ELSE banned[i]]
    /\ UNCHANGED <<forgetting, private, tokenizer, pi, cycle, registry, occurrences,
                   calls, turns, shown, called, dropped, cancelled, lost>>

\* /kiwifs-private-mode on: the flip, then cancelPendingRetrieval, which only
\* bumps the generation packs are stamped with; no step compares a pack's.
PrivateOn ==
    /\ Turn /\ ~private /\ private' = TRUE
    /\ cancelled' = cancelled \cup {i \in Ids : stage[i] = "retrieving"}
                              \cup {pending[j].input : j \in DOMAIN pending}
    /\ UNCHANGED <<forgotten, forgetting, tokenizer, pi, cycle, registry, occurrences,
                   calls, shown, called, banned, gone, dropped, lost>>

PrivateOff ==
    /\ private /\ private' = FALSE
    /\ UNCHANGED <<forgotten, forgetting, tokenizer, pi, cycle, registry,
                   occurrences, calls, turns, ghosts>>

Step ==
    \/ AttachTokenizer \/ Context \/ Settle \/ Compact \/ Navigate
    \/ PrivateOn \/ PrivateOff
    \/ \E k \in Keys, kind \in Kinds : Input(k, kind)
    \/ \E i \in Ids : \/ Register(i) \/ Degrade(i) \/ BeforeAgentStart(i)
                      \/ Deliver(i) \/ Handled(i)
                      \/ \E r \in Records : Hit(i, r)
    \/ \E r \in Records : Forget(r) \/ ForgetDrops(r) \/ Restore(r)

Next == Step /\ Len(inputs') + calls' + turns' <= MaxMoves

Spec == Init /\ [][Next]_vars

-----------------------------------------------------------------------------
Pack == [input : Nat, id : Keys \X Kinds \X Nat, key : Keys, origin : Kinds,
         items : SUBSET Records, ok : BOOLEAN]

\* The type invariant: every map of the registry within its bound.
TypeOK ==
    /\ forgotten \in SUBSET Records /\ forgetting \in SUBSET Records
    /\ private \in BOOLEAN /\ tokenizer \in BOOLEAN /\ run \in BOOLEAN
    /\ inputs \in Seq([key : Keys, kind : Kinds]) /\ Len(inputs) <= MaxInputs
    /\ stage \in Seq({"retrieving", "ready", "sent", "gone"}) /\ DOMAIN stage = Ids
    /\ cycle \in Seq(SUBSET Records) /\ DOMAIN cycle = Ids
    /\ pending \in Seq(Pack)
    /\ consumed \subseteq Keys \X Kinds \X Nat
    /\ Len(seen) <= MaxKeys
    /\ \A j \in DOMAIN seen : /\ seen[j].key \in Keys /\ Len(seen[j].counts) <= MaxCounts
                              /\ IsInjective(seen[j].counts)
    /\ occurrences \in [Keys \X Kinds -> Nat]
    /\ history \in Seq(Ids) /\ calls \in 0..MaxCalls /\ turns \in 0..MaxTurns

\* retrieval/coordinator.ts:184-208: a pack is injected at most once, at a run's
\* start or on one provider call, and never after a settled run or a completed
\* forget has dropped it.
ShownOnce ==
    /\ \A x, y \in shown : x.input = y.input => x = y
    /\ \A x \in shown : x.input \notin dropped

\* coordinator.ts:185-197: once a provider call has had a message as its last,
\* tool-loop replays of that message inject nothing more, whatever is queued
\* with the same text and however full the barrier's bounded maps are.
NoReplayInjects == \A x \in shown : ~x.again

\* guard.ts:106-160: whatever leg found it, injected evidence was read back
\* inside its own cycle: authorized, and not forgotten all through that cycle.
EvidenceWasReadable == \A x \in shown : x.items \subseteq Authorized \ banned[x.input]

\* coordinator.ts:89-96: no pack is refused by the registry, so a repeated
\* input is never silently without its evidence.
NothingRefused == lost = {}

\* Evidence reaches a prompt once, in its turn, and as it was read back.
InjectionSafety ==
    TypeOK /\ ShownOnce /\ NoReplayInjects /\ EvidenceWasReadable /\ NothingRefused

\* coordinator.ts:299-303 says the barrier keeps a queued pack from the fresh
\* run's first call; a pack registered before that call is taken by it.
NeverEarly == \A x \in shown : ~x.early

\* controls.ts:105-109 says a pack produced before a cancel is never injected.
CancelledNeverShown == \A x \in shown : ~x.cancelled

\* manual-ops.ts:225-228 says forgotten content is not served again from cached
\* evidence; a cycle that read the record before the forget still registers it.
GoneNeverShown == \A x \in shown : ~x.gone
=============================================================================
