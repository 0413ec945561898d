-------------------------- MODULE SessionLifecycle --------------------------
(***************************************************************************)
(* The session coordinator (src/src/pi/coordinator.ts) under the event     *)
(* handlers that drive it (src/src/index.ts): the generation counter and   *)
(* its durable file, the registry of consumed entries, the stash of a      *)
(* navigation that may yet be cancelled, the duplicate filter, and the     *)
(* resources a runtime owns from its first event to session_shutdown.      *)
(*                                                                         *)
(* Pi is the environment: it starts a session only after it has shut the   *)
(* last one down, announces a fork, a switch and a navigation before they  *)
(* happen (and may then not do them), appends leaves without telling       *)
(* anyone, and may deliver session_start, session_tree and                 *)
(* session_shutdown twice.  A write of the state file may throw before or  *)
(* after its rename, and the process may die between any two events.       *)
(***************************************************************************)
EXTENDS Integers, FiniteSets

CONSTANTS
    Sessions,   \* session ids
    Leaves,     \* leaf ids of the session tree
    Entries,    \* source entries a navigation or the observer may consume
    NoSession,  \* Pi has no session open
    NoTree,     \* coordinator.lastTree = null
    MaxEpoch,   \* bound: genuine boundaries (starts and navigations)
    MaxFaults,  \* bound: failing writes, crashes, damaged files
    MaxWork     \* bound: results in flight

ASSUME LifecycleAssumption ==
    /\ MaxEpoch \in Nat /\ MaxFaults \in Nat /\ MaxWork \in Nat
    /\ NoSession \notin Sessions /\ NoTree \notin [old : Leaves, new : Leaves]

VARIABLES
    file,       \* session-coordinator.json
    mem,        \* coordinator.state
    published,  \* coordinator.currentGeneration
    active, lastTree, stash,
    runtime,    \* the runtime box of index.ts holds a runtime
    failed,     \* runtimeError is set: no runtime for this process
    open,       \* resources of the runtime that are up
    pi,         \* Pi's session
    leaf,       \* Pi's current leaf
    known,      \* leaves that exist
    nav,        \* entries of the announced navigation, or {} and announced = FALSE
    announced,
    lastNav,    \* the last session_tree, while a duplicate of it may come
    work,       \* results in flight: [gen, epoch] of their capture
    epoch,      \* history: genuine boundaries so far
    missed,     \* history: a write that threw cost this epoch its own generation
    applied,    \* history: the last result applied
    highest,    \* history: highest generation ever published
    earned,     \* history: entries some acceptance or navigation accounted for
    owed,       \* history: those whose write did not fail
    torn,       \* history: a shutdown was cut short by a throwing write
    faults

piVars == <<pi, leaf, known, nav, announced, lastNav>>
coord  == <<mem, published, active, lastTree, stash>>
box    == <<runtime, failed, open, torn>>
ghosts == <<work, epoch, missed, applied, highest, earned, owed>>
vars   == <<file, coord, box, piVars, ghosts, faults>>

Resources == {"observer", "gate", "audit", "store", "timer", "delivery"}
Built     == {"observer", "gate", "audit", "store"}
Writes    == {"ok", "throws", "late"}   \* late: throws after the rename

EmptyState == [gen |-> 0, session |-> NoSession, consumed |-> {}]

Fault(o) == /\ o # "ok" => faults < MaxFaults
            /\ faults' = IF o = "ok" THEN faults ELSE faults + 1

\* persist: temp file, fsync, rename, directory fsync.
Persist(o, m) ==
    /\ Fault(o)
    /\ file' = IF o = "throws" THEN file ELSE [form |-> "ok", state |-> m]

Init ==
    /\ file = [form |-> "absent", state |-> EmptyState]
    /\ mem = EmptyState /\ published = 0
    /\ active = FALSE /\ lastTree = NoTree /\ stash = {}
    /\ runtime = FALSE /\ failed = FALSE /\ open = {} /\ torn = FALSE
    /\ pi = NoSession /\ leaf \in Leaves /\ known = {leaf}
    /\ nav = {} /\ announced = FALSE /\ lastNav = NoTree
    /\ work = {} /\ epoch = 0 /\ missed = FALSE
    /\ applied = [was |-> 0, now |-> 0, missed |-> FALSE]
    /\ highest = 0 /\ earned = {} /\ owed = {} /\ faults = 0

\* A generation becomes the current one.
Publish(g) == published' = g /\ highest' = IF g > highest THEN g ELSE highest

-----------------------------------------------------------------------------
\* The runtime box and the coordinator's constructor.

\* loadState: a corrupt or missing file is an empty state.
Loaded == IF file.form = "ok" THEN file.state ELSE EmptyState

\* get(): the first handler or command that needs a runtime builds it.
Build ==
    /\ ~runtime /\ ~failed /\ file.form # "newer"
    /\ runtime' = TRUE /\ open' = Built
    /\ mem' = Loaded /\ Publish(Loaded.gen)
    /\ active' = FALSE /\ lastTree' = NoTree /\ stash' = {}
    /\ torn' = FALSE
    /\ UNCHANGED <<file, failed, piVars, work, epoch, missed, applied, earned,
                   owed, faults>>

\* A file of a newer schema fails the construction, for this process, after the
\* outbox and the audit log have been opened; nobody closes them.
BuildFails ==
    /\ ~runtime /\ ~failed /\ file.form = "newer"
    /\ failed' = TRUE /\ open' = {"audit", "store"}
    /\ UNCHANGED <<file, coord, runtime, torn, piVars, ghosts, faults>>

-----------------------------------------------------------------------------
\* Generations.

\* mint: bump in memory, persist, publish only what was persisted.
Mint(o, s) ==
    LET m == [mem EXCEPT !.gen = @ + 1, !.session = s] IN
    /\ mem' = m
    /\ Persist(o, m)
    /\ missed' = (o # "ok" \/ torn)
    /\ IF o = "ok" THEN Publish(m.gen) ELSE UNCHANGED <<published, highest>>

\* onSessionStart and the rest of the session_start handler, which a throwing
\* write skips: the session then has no timer and no poller.
OnSessionStart(s, o) ==
    /\ IF ~active \/ s # mem.session
       THEN Mint(o, s)
       ELSE Persist(o, mem) /\ UNCHANGED <<mem, published, highest, missed>>
    /\ active' = IF o = "ok" THEN TRUE ELSE active
    /\ open'   = IF o = "ok" THEN open \cup {"timer", "delivery"} ELSE open
    /\ UNCHANGED <<lastTree, stash, runtime, failed, torn, work, applied, owed>>

\* session_start of a new, resumed or forked session, at its own leaf.
SessionStart(s, l, o) ==
    /\ runtime /\ pi = NoSession /\ epoch < MaxEpoch
    /\ pi' = s /\ epoch' = epoch + 1
    /\ leaf' = l /\ known' = known \cup {l}
    /\ OnSessionStart(s, o)
    /\ UNCHANGED <<nav, announced, lastNav, earned>>

\* session_start delivered again: a live coordinator keeps its generation.
StartAgain(o) ==
    /\ runtime /\ pi # NoSession
    /\ OnSessionStart(pi, o)
    /\ UNCHANGED <<piVars, epoch, earned>>

\* session_before_fork, session_before_switch: polling stops; Pi may go on.
BeforeForkOrSwitch ==
    /\ runtime /\ pi # NoSession
    /\ open' = open \ {"delivery"}
    /\ UNCHANGED <<file, coord, runtime, failed, torn, piVars, ghosts, faults>>

-----------------------------------------------------------------------------
\* Navigation.

\* Pi appends a message: the leaf moves and no event is emitted.
AppendEntry(l) ==
    /\ pi # NoSession /\ ~announced /\ l \notin known
    /\ leaf' = l /\ known' = known \cup {l}
    /\ UNCHANGED <<file, coord, box, pi, nav, announced, lastNav, ghosts, faults>>

\* Mutant: the announced entries count as consumed at once.
BeforeTreeConsumes(es, aborted) ==
    /\ runtime /\ pi # NoSession /\ ~announced
    /\ announced' = ~aborted
    /\ nav' = IF aborted THEN {} ELSE es
    /\ mem' = [mem EXCEPT !.consumed = @ \cup es] /\ stash' = stash
    /\ open' = open \ {"delivery"}
    /\ lastNav' = NoTree
    /\ UNCHANGED <<file, published, active, lastTree, runtime, failed,
                   torn, pi, leaf, known, ghosts, faults>>

\* session_before_tree: stash the shared ancestors, unless already aborted.
BeforeTree(es, aborted) ==
    /\ runtime /\ pi # NoSession /\ ~announced
    /\ announced' = ~aborted
    /\ nav' = IF aborted THEN {} ELSE es
    /\ stash' = IF aborted THEN stash ELSE es
    /\ open' = open \ {"delivery"}
    /\ lastNav' = NoTree
    /\ UNCHANGED <<file, mem, published, active, lastTree, runtime, failed,
                   torn, pi, leaf, known, ghosts, faults>>

\* The user cancels an announced navigation: no event follows.
Cancel ==
    /\ announced
    /\ announced' = FALSE /\ nav' = {}
    /\ UNCHANGED <<file, coord, box, pi, leaf, known, lastNav, ghosts, faults>>

Pair(old, new) == [old |-> old, new |-> new]

\* Mutant: the filter compares the new leaf alone.
IsDuplicateLeaf(pair) == lastTree # NoTree /\ lastTree.new = pair.new

\* The duplicate filter compares the pair of leaves, not the leaf alone.
IsDuplicate(pair) == lastTree = pair

\* markConsumed of the stash; it writes only if that adds an entry.
Committed   == [mem EXCEPT !.consumed = @ \cup stash]
AfterCommit == IF Committed = mem THEN file ELSE [form |-> "ok", state |-> Committed]

\* onTree whose markConsumed throws: the pair is recorded, nothing is minted.
CommitThrows(pair, o) ==
    /\ o # "ok" /\ Committed # mem
    /\ mem' = Committed /\ Persist(o, Committed)
    /\ lastTree' = pair /\ missed' = TRUE
    /\ UNCHANGED <<stash, published, highest, owed>>

\* onTree of an active coordinator: commit the stash, then mint a generation
\* for the new branch unless this delivery repeats the last one.
OnTree(pair, o) ==
    /\ lastTree' = pair /\ stash' = {}
    /\ owed' = owed \cup (stash \ mem.consumed)
    /\ Fault(o)
    /\ IF IsDuplicate(pair)
       THEN /\ o = "ok" /\ mem' = Committed /\ file' = AfterCommit
            /\ UNCHANGED <<published, highest, missed>>
       ELSE LET m == [Committed EXCEPT !.gen = @ + 1, !.session = pi] IN
            /\ mem' = m
            /\ file' = IF o = "throws" THEN AfterCommit ELSE [form |-> "ok", state |-> m]
            /\ missed' = (o # "ok" \/ torn)
            /\ IF o = "ok" THEN Publish(m.gen) ELSE UNCHANGED <<published, highest>>

\* The announced navigation happens: Pi is at its new leaf.
Navigates(new) ==
    /\ runtime /\ announced /\ new \in known \ {leaf} /\ epoch < MaxEpoch
    /\ epoch' = epoch + 1 /\ earned' = earned \cup nav
    /\ leaf' = new /\ lastNav' = Pair(leaf, new)
    /\ announced' = FALSE /\ nav' = {}
    /\ UNCHANGED <<pi, known>>

\* session_tree.
Tree(new, o) ==
    /\ active
    /\ Navigates(new)
    /\ CommitThrows(Pair(leaf, new), o) \/ OnTree(Pair(leaf, new), o)
    /\ UNCHANGED <<active, box, work, applied>>

\* session_tree reaching a coordinator that was never started: a start, but
\* not of the poller.
TreeStarts(new, o) ==
    /\ ~active
    /\ Navigates(new)
    /\ Mint(o, pi) /\ active' = (o = "ok")
    /\ open' = IF o = "ok" THEN open \cup {"timer"} ELSE open
    /\ UNCHANGED <<lastTree, stash, runtime, failed, torn, work, applied, owed>>

\* session_tree of the same navigation delivered again.
TreeAgain(o) ==
    /\ runtime /\ active /\ lastNav # NoTree
    /\ CommitThrows(lastNav, o) \/ OnTree(lastNav, o)
    /\ UNCHANGED <<active, box, piVars, work, epoch, applied, earned>>

-----------------------------------------------------------------------------
\* Results that outlive an await, and entries the observer consumes.

\* A pass takes the generation before it awaits the model.
Capture ==
    /\ runtime /\ pi # NoSession /\ Cardinality(work) < MaxWork
    /\ work' = work \cup {[gen |-> published, epoch |-> epoch]}
    /\ UNCHANGED <<file, coord, box, piVars, epoch, missed, applied, highest,
                   earned, owed, faults>>

\* isCurrent: the result of a stale generation is discarded.
IsCurrent(g) == g = published

Answer(w) ==
    /\ w \in work
    /\ work' = work \ {w}
    /\ applied' = IF IsCurrent(w.gen)
                  THEN [was |-> w.epoch, now |-> epoch, missed |-> missed]
                  ELSE applied
    /\ UNCHANGED <<file, coord, box, piVars, epoch, missed, highest, earned,
                   owed, faults>>

\* markConsumed by the observer, once a batch is durably accepted.
MarkConsumed(e, o) ==
    /\ runtime /\ pi # NoSession /\ e \notin mem.consumed
    /\ LET m == [mem EXCEPT !.consumed = @ \cup {e}] IN
       mem' = m /\ Persist(o, m)
    /\ earned' = earned \cup {e}
    /\ owed' = IF o = "ok" THEN owed \cup {e} ELSE owed
    /\ UNCHANGED <<published, active, lastTree, stash, box, piVars, work,
                   epoch, missed, applied, highest>>

-----------------------------------------------------------------------------
\* The end of a session and of a process.

\* Mutant: the runtime outlives its session.
TeardownKeeps(o) ==
    /\ open' = {} /\ runtime' = runtime /\ torn' = (o # "ok")

\* What session_shutdown leaves of the box: the coordinator's throw skips
\* delivery.stop, store.close and the assignment that drops the runtime.
Teardown(o) ==
    IF o = "ok"
    THEN open' = {} /\ runtime' = FALSE /\ torn' = torn
    ELSE open' = {"delivery", "store"} \cap open /\ runtime' = runtime /\ torn' = TRUE

\* session_shutdown, by way of onShutdown.
Shutdown(o) ==
    /\ runtime
    /\ Persist(o, mem)
    /\ active' = FALSE /\ stash' = {} /\ UNCHANGED lastTree
    /\ Teardown(o)
    /\ pi' = NoSession /\ announced' = FALSE /\ nav' = {} /\ lastNav' = NoTree
    /\ work' = IF o = "ok" THEN {} ELSE work
    /\ UNCHANGED <<mem, published, failed, leaf, known, epoch, missed, applied,
                   highest, earned, owed>>

\* The process dies; nothing but the file survives.
Crash ==
    /\ faults < MaxFaults /\ faults' = faults + 1
    /\ runtime' = FALSE /\ failed' = FALSE /\ open' = {} /\ torn' = FALSE
    /\ active' = FALSE /\ stash' = {} /\ lastTree' = NoTree
    /\ pi' = NoSession /\ announced' = FALSE /\ nav' = {} /\ lastNav' = NoTree
    /\ work' = {}
    /\ UNCHANGED <<file, mem, published, leaf, known, epoch, missed, applied,
                   highest, earned, owed>>

\* Between two processes the file is damaged, or written by a newer version.
Damage(f) ==
    /\ ~runtime /\ ~failed /\ file.form = "ok"
    /\ faults < MaxFaults /\ faults' = faults + 1
    /\ file' = [file EXCEPT !.form = f]
    /\ IF f = "corrupt" THEN highest' = 0 /\ owed' = {} ELSE UNCHANGED <<highest, owed>>
    /\ UNCHANGED <<coord, box, piVars, work, epoch, missed, applied, earned>>

Next ==
    \/ Build \/ BuildFails \/ Crash \/ Cancel \/ Capture \/ BeforeForkOrSwitch
    \/ \E f \in {"corrupt", "newer"} : Damage(f)
    \/ \E l \in Leaves : AppendEntry(l)
    \/ \E w \in work : Answer(w)
    \/ \E es \in SUBSET Entries, aborted \in BOOLEAN : BeforeTree(es, aborted)
    \/ \E o \in Writes :
        \/ StartAgain(o) \/ TreeAgain(o) \/ Shutdown(o)
        \/ \E s \in Sessions, l \in Leaves : SessionStart(s, l, o)
        \/ \E e \in Entries : MarkConsumed(e, o)
        \/ \E l \in Leaves : Tree(l, o) \/ TreeStarts(l, o)

Spec == Init /\ [][Next]_vars

-----------------------------------------------------------------------------
StateRec == [gen : Nat, session : Sessions \cup {NoSession}, consumed : SUBSET Entries]
PairRec  == [old : Leaves, new : Leaves]

\* The type invariant of coordinator.ts's state and of the runtime box.
TypeOK ==
    /\ file \in [form : {"absent", "ok", "corrupt", "newer"}, state : StateRec]
    /\ mem \in StateRec /\ published \in Nat /\ active \in BOOLEAN
    /\ lastTree \in PairRec \cup {NoTree} /\ stash \in SUBSET Entries
    /\ runtime \in BOOLEAN /\ failed \in BOOLEAN /\ torn \in BOOLEAN
    /\ open \in SUBSET Resources
    /\ pi \in Sessions \cup {NoSession} /\ leaf \in Leaves /\ known \in SUBSET Leaves
    /\ nav \in SUBSET Entries /\ announced \in BOOLEAN
    /\ lastNav \in PairRec \cup {NoTree}
    /\ work \in SUBSET [gen : Nat, epoch : 0..MaxEpoch]
    /\ epoch \in 0..MaxEpoch /\ missed \in BOOLEAN
    /\ applied \in [was : 0..MaxEpoch, now : 0..MaxEpoch, missed : BOOLEAN]
    /\ highest \in Nat /\ earned \in SUBSET Entries /\ owed \in SUBSET Entries
    /\ faults \in 0..MaxFaults

\* coordinator.ts:214-218: a generation that was ever the current one is never
\* followed by a smaller one, in this process or after a crash, as long as the
\* file is readable; so no old result can meet its own number again.
GenerationNeverBack == runtime => published >= highest

\* coordinator.ts:254-271, 484-494: a result taken before a navigation or a
\* session start is not applied after it, whatever leaves are visited again
\* and whatever is delivered twice; only a write that threw at that boundary,
\* or at the shutdown before it, lets the old generation live on.
NoStaleResult == applied.was # applied.now => applied.missed

\* coordinator.ts:463-471: an entry is consumed, in memory or on disk, only by
\* a navigation that took place or by a durably accepted batch; one that was
\* announced and then cancelled strands nothing.
ConsumedIsEarned == mem.consumed \cup file.state.consumed \subseteq earned

\* coordinator.ts:352-361: what was consumed by a write that did not throw
\* stays on disk through every later start, fork, navigation and crash.
ConsumedIsKept == file.form = "ok" => owed \subseteq file.state.consumed

\* coordinator.ts:194-200: a file of a newer schema is never rewritten.
KeepsNewer == file.form = "newer" => file' = file

\* Generations only grow, and every consumed entry was earned and stays consumed.
SessionSafety ==
    TypeOK /\ GenerationNeverBack /\ ConsumedIsEarned /\ ConsumedIsKept

\* index.ts:431-468, coordinator.ts:529-541: the timer runs exactly while the
\* coordinator is active; and unless a throwing write cut a shutdown short, an
\* active session owns an undisposed observer, gate, audit log and outbox, and
\* nothing polls without one.
ResourcesFollowSession ==
    /\ active <=> "timer" \in open
    /\ active /\ ~torn => Built \subseteq open
    /\ "delivery" \in open /\ ~torn => active

\* index.ts:321-323 says session_start undoes the stop of polling at a switch,
\* fork or navigation.  No session_start follows a navigation.
PollingResumes == active /\ lastNav # NoTree => "delivery" \in open

\* index.ts:455-464 says every owned resource is released and a disposed gate
\* never reaches a later session.
TeardownIsComplete == active => Built \subseteq open
=============================================================================
