---------------------------- MODULE BoardDelivery ----------------------------
(***************************************************************************)
(* Delivery of board messages to one consumer (src/board/): the durable    *)
(* state file with its feed cursor and dedupe entries, the poll cycles     *)
(* that read the changes feed or, when the feed rejects them, a listing,   *)
(* the consumer lock, and the session events that start and stop polling.  *)
(*                                                                         *)
(* A runtime is what a session builds; two of them may be sessions of two  *)
(* processes, or of one process one after the other.  A poller is one      *)
(* BoardDelivery object: a stopped one finishes the cycle it is in, beside *)
(* the pollers that were started after it.  A step of a cycle ends at an   *)
(* await; the gate may find private mode at every place the code reads it, *)
(* so private mode is no variable here.                                    *)
(***************************************************************************)
EXTENDS Naturals, Sequences, FiniteSets

CONSTANTS
    Msgs, Runtimes, NoRuntime,
    Pollers,    \* at most so many pollers exist at a time
    NoMsg,
    PageSize,   \* changes in a page of the feed
    MaxPages,   \* maxChangesPages
    PauseAt,    \* backlogPauseAt
    Prunes,     \* do acked and skipped entries reach their age or the cap?
    LocksAge,   \* does a lock outlive LOCK_STALE_MS?
    ReadErrors, \* may a read fail with an error that is not retryable?
    MaxFeed,    \* bound of the changes
    MaxMishaps  \* bound of failing writes and crashes

ASSUME BoardAssumption ==
    /\ NoRuntime \notin Runtimes /\ NoMsg \notin Msgs
    /\ PageSize \in Nat \ {0} /\ MaxPages \in Nat \ {0} /\ PauseAt \in Nat
    /\ Prunes \in BOOLEAN /\ LocksAge \in BOOLEAN /\ ReadErrors \in BOOLEAN
    /\ MaxFeed \in Nat /\ MaxMishaps \in Nat

VARIABLES
    feed,     \* the backend's change log: the messages, by posting
    file,     \* delivery-<consumer>.json
    lock,     \* delivery-<consumer>.lock
    mem,      \* per runtime: DeliveryStateFile.state
    open,     \* runtimes of a live session
    holds,    \* runtimes whose this.lock is set
    acq,      \* per runtime: where acquireConsumerLock() is
    run,      \* per poller: its cycle
    notified, \* history: messages handed to a deliver callback
    skipped,  \* history: messages recorded as skipped
    failed,   \* history: messages a read of which ended in an error
    upset,    \* history: has something happened the file cannot make up for?
    mishaps   \* failing writes and crashes so far

session == <<open, holds, acq, lock>>
history == <<notified, skipped, failed>>
vars == <<feed, file, mem, session, run, history, upset, mishaps>>

Entries == {"none", "delivered", "acked", "skipped"}
State == [seq : Nat, entry : [Msgs -> Entries]]
Lock == [by : Runtimes \cup {NoRuntime}, pid : BOOLEAN, live : BOOLEAN]
Phases == {"none", "idle", "feed", "read", "deliver", "record"}
Cycle == [at : Phases, rt : Runtimes \cup {NoRuntime}, stopped : BOOLEAN,
          since : Nat, seen : Nat, pages : Nat,
          todo : SUBSET Msgs, ok : SUBSET Msgs, bad : SUBSET Msgs,
          msg : Msgs \cup {NoMsg}]

TypeOK ==
    /\ feed \in Seq(Msgs)
    /\ file \in State /\ mem \in [Runtimes -> State]
    /\ lock \in Lock
    /\ open \subseteq Runtimes /\ holds \subseteq Runtimes
    /\ acq \in [Runtimes -> {"no", "break", "retry", "pid"}]
    /\ run \in [Pollers -> Cycle]
    /\ \A p \in Pollers : run[p].pages < MaxPages /\ run[p].since <= Len(feed)
                                                /\ run[p].seen <= Len(feed)
    /\ notified \subseteq Msgs /\ skipped \subseteq Msgs /\ failed \subseteq Msgs
    /\ upset \in BOOLEAN
    /\ mishaps \in Nat

Fresh == [seq |-> 0, entry |-> [m \in Msgs |-> "none"]]
Unlocked == [by |-> NoRuntime, pid |-> FALSE, live |-> FALSE]
NoCycle == [at |-> "none", rt |-> NoRuntime, stopped |-> FALSE,
            since |-> 0, seen |-> 0, pages |-> 0,
            todo |-> {}, ok |-> {}, bad |-> {}, msg |-> NoMsg]

\* Before anything was posted; the file is there (the first runtime writes it).
Init ==
    /\ feed = <<>>
    /\ file = Fresh /\ mem = [r \in Runtimes |-> Fresh]
    /\ lock = Unlocked
    /\ open = {} /\ holds = {} /\ acq = [r \in Runtimes |-> "no"]
    /\ run = [p \in Pollers |-> NoCycle]
    /\ notified = {} /\ skipped = {} /\ failed = {} /\ upset = FALSE
    /\ mishaps = 0

Handled(s) == {m \in Msgs : s.entry[m] # "none"}
Unread(s) == {m \in Msgs : s.entry[m] = "delivered"}
Settled(s) == Handled(s) \ Unread(s)
Mark(s, M, e) == [s EXCEPT !.entry = [m \in Msgs |-> IF m \in M THEN e ELSE s.entry[m]]]
Posted == {feed[i] : i \in 1..Len(feed)}

InCycle(p) == run[p].at \notin {"none", "idle"}
PollersOf(r) == {p \in Pollers : run[p].at # "none" /\ run[p].rt = r}

-----------------------------------------------------------------------------
(* The state file.  save() prunes settled entries by age and by count and  *)
(* replaces the file; it may throw before or after the rename.             *)

Stored(r, s, pruned) ==
    /\ mem' = [mem EXCEPT ![r] = s] /\ file' = s
    /\ upset' = (upset \/ pruned)
    /\ UNCHANGED mishaps

Save(r, s) ==
    \E M \in SUBSET (IF Prunes THEN Settled(s) ELSE {}) :
        Stored(r, Mark(s, M, "none"), M # {})

SaveThrows(r, s) ==
    /\ mishaps < MaxMishaps /\ mishaps' = mishaps + 1
    /\ mem' = [mem EXCEPT ![r] = s]
    /\ file' \in {file, s}
    /\ upset' = TRUE

\* The two ways a state-changing call of a command or a tool may end.
Write(r, s) == Save(r, s) \/ SaveThrows(r, s)

\* recordAck(): the tool kiwifs_board_ack, of any open session.
Ack(r, m) ==
    /\ r \in open /\ m \in Handled(mem[r]) /\ mem[r].entry[m] # "acked"
    /\ Write(r, Mark(mem[r], {m}, "acked"))
    /\ UNCHANGED <<feed, session, run, history>>

\* gc(): the command /kiwifs-board-gc.  It saves if it has removed something.
Gc(r) ==
    /\ r \in open /\ Prunes
    /\ \E M \in SUBSET Settled(mem[r]) \ {{}} :
           LET s == Mark(mem[r], M, "none") IN Stored(r, s, TRUE) \/ SaveThrows(r, s)
    /\ UNCHANGED <<feed, session, run, history>>

-----------------------------------------------------------------------------
(* A poll cycle.                                                           *)

Step(p, c) == run' = [run EXCEPT ![p] = c]
quiet == <<feed, file, mem, session, history, upset, mishaps>>

\* The cycle of p is over.  A stopped poller is not scheduled again.
Rest(p) == IF run[p].stopped THEN NoCycle
           ELSE [NoCycle EXCEPT !.at = "idle", !.rt = run[p].rt]

\* The timer fires, and the feed is read from its start.
StartOver(p) == \* mutant: the cycle does not resume at the cursor
    LET s == mem[run[p].rt] IN
    /\ run[p].at = "idle" /\ Cardinality(Unread(s)) < PauseAt
    /\ Step(p, [run[p] EXCEPT !.at = "feed"])
    /\ UNCHANGED quiet

\* The timer of p fires.  A backlog at the threshold ends the cycle here.
StartCycle(p) ==
    LET s == mem[run[p].rt] IN
    /\ run[p].at = "idle" /\ Cardinality(Unread(s)) < PauseAt
    /\ Step(p, [run[p] EXCEPT !.at = "feed", !.since = s.seq])
    /\ UNCHANGED quiet

\* Of the messages M that discovery found, those it has not seen before.
Found(p, M) == M \ Handled(mem[run[p].rt])

\* Discovery is over: the messages found are read one by one.
Discovered(c) == [c EXCEPT !.at = IF c.todo = {} THEN "deliver" ELSE "read",
                           !.since = 0, !.pages = 0]

OnePageMore(c) == c.pages > MaxPages \* mutant: off by one
LastPage(c) == c.pages = MaxPages

\* A page of changes after `since'.  The last one is empty or the MaxPages-th.
FeedReply(p) ==
    LET c == run[p]
        top == IF Len(feed) < c.since + PageSize THEN Len(feed) ELSE c.since + PageSize
        page == {feed[i] : i \in (c.since + 1)..top}
    IN
    /\ c.at = "feed"
    /\ \/ page = {} /\ Step(p, Discovered(c))
       \/ page # {} /\ LET d == [c EXCEPT !.since = top, !.seen = top, !.pages = @ + 1,
                                           !.todo = @ \cup Found(p, page)]
                       IN Step(p, IF LastPage(d) THEN Discovered(d) ELSE d)
    /\ UNCHANGED quiet

\* An error that is not an availability fault: discovery falls back to a
\* listing, complete or truncated at its bounds.
ListReply(p) ==
    /\ run[p].at = "feed"
    /\ \E M \in SUBSET Posted :
           Step(p, Discovered([run[p] EXCEPT !.todo = @ \cup Found(p, M)]))
    /\ UNCHANGED quiet

\* Discovery ends in an availability fault, or finds private mode; read() finds
\* it after the cycle's own look, and what was read before is dropped.
Abandon(p) ==
    /\ run[p].at \in {"feed", "read"} /\ Step(p, Rest(p))
    /\ UNCHANGED quiet

\* A cycle that is paused does not move the cursor; `seen' is 0 then.
PausedKeepsSeen(c) == c \* mutant: the cursor moves all the same
Paused(c) == [c EXCEPT !.seen = 0]

\* The reads are over: the verdicts are recorded, one recordSkip() for each.
Skip(p, c) ==
    \/ /\ c.bad = {} /\ Step(p, [c EXCEPT !.at = "deliver"])
       /\ UNCHANGED <<file, mem, skipped, upset, mishaps>>
    \/ /\ c.bad # {} /\ Step(p, [c EXCEPT !.at = "deliver", !.bad = {}])
       /\ Save(c.rt, Mark(mem[c.rt], c.bad, "skipped"))
       /\ skipped' = skipped \cup c.bad
    \/ \E M \in SUBSET c.bad \ {{}} :
          /\ SaveThrows(c.rt, Mark(mem[c.rt], M, "skipped")) /\ Step(p, Rest(p))
          /\ skipped' = skipped \cup M

\* A read ends: with the message, with a verdict against it (expired, missing,
\* malformed, for somebody else), or with an error, which read() takes for
\* "missing" unless it is retryable.
ReadReply(p, m) ==
    LET c == [run[p] EXCEPT !.todo = @ \ {m}]
        good == [c EXCEPT !.ok = @ \cup {m}]
        bad == [c EXCEPT !.bad = @ \cup {m}]
        Go(d) == IF d.todo = {} THEN Skip(p, d)
                 ELSE Step(p, d) /\ UNCHANGED <<file, mem, skipped, upset, mishaps>>
    IN
    /\ run[p].at = "read" /\ m \in run[p].todo
    /\ \/ (Go(good) \/ Go(bad)) /\ UNCHANGED failed
       \/ ReadErrors /\ Go(bad) /\ failed' = failed \cup {m}
    /\ UNCHANGED <<feed, session, notified>>

\* The backend is unavailable, or private mode is found: no further reads.
ReadPause(p) ==
    /\ run[p].at = "read" /\ Skip(p, [Paused(run[p]) EXCEPT !.todo = {}])
    /\ UNCHANGED <<feed, session, notified, failed>>

\* The deliver callback: the message is in the inbox of this session.
Deliver(p, m) ==
    /\ run[p].at = "deliver" /\ m \in run[p].ok
    /\ Step(p, [run[p] EXCEPT !.at = "record", !.ok = @ \ {m}, !.msg = m])
    /\ notified' = notified \cup {m}
    /\ UNCHANGED <<feed, file, mem, session, skipped, failed, upset, mishaps>>

DeliverPause(p) ==
    /\ run[p].at = "deliver" /\ run[p].ok # {}
    /\ Step(p, [Paused(run[p]) EXCEPT !.ok = {}])
    /\ UNCHANGED quiet

\* recordDelivered(), once the callback has resolved.
Record(p) ==
    LET c == run[p]  s == Mark(mem[c.rt], {c.msg}, "delivered") IN
    /\ c.at = "record"
    /\ \/ Save(c.rt, s) /\ Step(p, [c EXCEPT !.at = "deliver", !.msg = NoMsg])
       \/ SaveThrows(c.rt, s) /\ Step(p, Rest(p))
    /\ UNCHANGED <<feed, session, history>>

\* The cursor moves once everything before it is recorded.
EndCycle(p) ==
    LET c == run[p] IN
    /\ c.at = "deliver" /\ c.ok = {}
    /\ IF c.seen # 0 THEN Write(c.rt, [mem[c.rt] EXCEPT !.seq = c.seen])
       ELSE UNCHANGED <<file, mem, upset, mishaps>>
    /\ Step(p, Rest(p))
    /\ UNCHANGED <<feed, session, history>>

-----------------------------------------------------------------------------
(* Sessions and the consumer lock.                                         *)

\* A session is built: the constructor reads the file, before any lock.
Build(r) ==
    /\ r \notin open /\ PollersOf(r) = {}
    /\ open' = open \cup {r}
    /\ mem' = [mem EXCEPT ![r] = file]
    /\ upset' = (upset \/ open # {} \/ \E p \in Pollers : InCycle(p))
    /\ UNCHANGED <<feed, file, holds, acq, lock, run, history, mishaps>>

\* stop() of the pollers of r: an idle one is gone, one in a cycle finishes it.
Stopped(r) ==
    [p \in Pollers |-> IF p \notin PollersOf(r) THEN run[p]
                       ELSE IF InCycle(p) THEN [run[p] EXCEPT !.stopped = TRUE]
                       ELSE NoCycle]
Released(r) == IF r \in holds THEN Unlocked ELSE lock

\* Before a switch, a fork or a navigation.
Stop(r) ==
    /\ r \in open /\ acq[r] = "no"
    /\ run' = Stopped(r) /\ lock' = Released(r) /\ holds' = holds \ {r}
    /\ UNCHANGED <<feed, file, mem, open, acq, history, upset, mishaps>>

Shutdown(r) ==
    /\ r \in open /\ acq[r] = "no"
    /\ run' = Stopped(r) /\ lock' = Released(r) /\ holds' = holds \ {r}
    /\ open' = open \ {r}
    /\ mem' = IF \E p \in PollersOf(r) : InCycle(p) THEN mem ELSE [mem EXCEPT ![r] = Fresh]
    /\ UNCHANGED <<feed, file, acq, history, upset, mishaps>>

\* One attempt of acquireConsumerLock() on the lock file l: create it, judge it
\* stale and go on (`left' is the file then), or be refused.  A file without a
\* pid is stale.
Attempt(r, l, left, goOn) ==
    \/ l = Unlocked /\ lock' = [by |-> r, pid |-> FALSE, live |-> TRUE]
                    /\ acq' = [acq EXCEPT ![r] = "pid"]
    \/ l # Unlocked /\ (~l.pid \/ ~l.live \/ LocksAge)
       /\ lock' = left /\ acq' = [acq EXCEPT ![r] = goOn]
    \/ l # Unlocked /\ l.pid /\ l.live /\ lock' = l
                    /\ acq' = [acq EXCEPT ![r] = "no"]

\* session_start: start() stops first.  The first attempt is in the same stretch.
Start(r) ==
    /\ r \in open /\ acq[r] = "no"
    /\ run' = Stopped(r) /\ holds' = holds \ {r}
    /\ Attempt(r, Released(r), Released(r), "break")
    /\ upset' = (upset \/ \E p \in PollersOf(r) : InCycle(p))
    /\ UNCHANGED <<feed, file, mem, open, history, mishaps>>

\* The lock file that was judged stale is removed, or one created since.
BreakLock(r) ==
    /\ acq[r] = "break"
    /\ lock' = Unlocked /\ acq' = [acq EXCEPT ![r] = "retry"]
    /\ UNCHANGED <<feed, file, mem, open, holds, run, history, upset, mishaps>>

\* The second attempt removes a stale file once more, and gives up.
Retry(r) ==
    /\ acq[r] = "retry" /\ Attempt(r, lock, Unlocked, "no")
    /\ UNCHANGED <<feed, file, mem, open, holds, run, history, upset, mishaps>>

\* The pid is written, into the file that was created, and polling starts.
Locked(r) ==
    /\ acq[r] = "pid" /\ acq' = [acq EXCEPT ![r] = "no"]
    /\ lock' = IF lock.by = r THEN [lock EXCEPT !.pid = TRUE] ELSE lock
    /\ holds' = holds \cup {r}
    /\ \E p \in Pollers : /\ run[p].at = "none"
                          /\ Step(p, [NoCycle EXCEPT !.at = "idle", !.rt = r])
    /\ UNCHANGED <<feed, file, mem, open, history, upset, mishaps>>

\* The processes of the runtimes R end.
Crash(R) ==
    /\ mishaps < MaxMishaps /\ mishaps' = mishaps + 1
    /\ open' = open \ R /\ holds' = holds \ R
    /\ acq' = [r \in Runtimes |-> IF r \in R THEN "no" ELSE acq[r]]
    /\ mem' = [r \in Runtimes |-> IF r \in R THEN Fresh ELSE mem[r]]
    /\ lock' = IF lock.by \in R THEN [lock EXCEPT !.live = FALSE] ELSE lock
    /\ run' = [p \in Pollers |-> IF run[p].rt \in R THEN NoCycle ELSE run[p]]
    /\ upset' = (upset \/ \E p \in Pollers : run[p].rt \in R /\ run[p].at = "record")
    /\ UNCHANGED <<feed, file, history>>

-----------------------------------------------------------------------------
(* The backend.                                                            *)

\* A message is posted, or rewritten: the feed names it once more.
Post(m) ==
    /\ Len(feed) < MaxFeed /\ feed' = Append(feed, m)
    /\ UNCHANGED <<file, mem, session, run, history, upset, mishaps>>

CycleStep(p) ==
    \/ StartCycle(p) \/ FeedReply(p) \/ ListReply(p) \/ Abandon(p)
    \/ ReadPause(p) \/ DeliverPause(p) \/ Record(p) \/ EndCycle(p)
    \/ \E m \in Msgs : ReadReply(p, m) \/ Deliver(p, m)

SessionStep(r) ==
    \/ Build(r) \/ Stop(r) \/ Shutdown(r)
    \/ Start(r) \/ BreakLock(r) \/ Retry(r) \/ Locked(r)
    \/ Gc(r) \/ \E m \in Msgs : Ack(r, m)

Next ==
    \/ \E p \in Pollers : CycleStep(p)
    \/ \E r \in Runtimes : SessionStep(r)
    \/ \E R \in SUBSET Runtimes \ {{}} : Crash(R)
    \/ \E m \in Msgs : Post(m)

Spec == Init /\ [][Next]_vars

-----------------------------------------------------------------------------
(* Properties.                                                             *)

Covers(s) == \A i \in 1..Len(feed) : i <= s.seq => feed[i] \in notified \cup skipped

\* The cursor never passes a message that was neither handed to a session nor
\* visibly skipped, in the file and in every memory that may be written over
\* it: setLastSeq() comes last, and only in a cycle that was not paused.
CursorCovers == Covers(file) /\ \A r \in open : Covers(mem[r])

\* No message is notified twice unless a callback's record was lost in a crash
\* or a failing write, pruned, or is out of sight of an overlapping poller or
\* session: dedupe by entries and seenThisCycle, across restarts and fallbacks.
NotifiesOnce ==
    \A p \in Pollers : run[p].at = "deliver" /\ run'[p].at = "record" /\ ~upset
        => run'[p].msg \notin notified

\* What was acknowledged stays acknowledged, under the same conditions.
KeepsAcks ==
    \A m \in Msgs : file.entry[m] = "acked" /\ ~upset' => file'.entry[m] = "acked"

\* A consumer is told once, and what it acknowledged stays so.
NoticesKept == [][NotifiesOnce /\ KeepsAcks]_vars

\* Delivery is a mailbox: a message has one fate, told (once) or given up, the
\* cursor goes forward only, over messages whose fate is known, and
\* acknowledgements last.  All this through restarts, crashes between two steps,
\* fallbacks and stops; a disturbance of the file may undo no more than
\* BoardMailbox says.
Mailbox == INSTANCE BoardMailbox
    WITH place <- file.seq, told <- notified, givenUp <- skipped, disturbed <- upset,
         acked <- {m \in Msgs : file.entry[m] = "acked"}

IsMailbox == Mailbox!Spec /\ NoticesKept

\* A message is given up only on a verdict against it: what the cursor passed
\* was notified, or skipped without a read of it having failed.
PassedIsNotified ==
    \A i \in 1..Len(feed) : i <= file.seq => feed[i] \in notified \cup (skipped \ failed)

\* An acknowledgement is never undone by another session's state: a second
\* session "never silently shares, overwrites, or drops durable cursor state"
\* (lock.ts).
AckNeverUndone ==
    [][\A m \in Msgs : file.entry[m] = "acked" => file'.entry[m] # "delivered"]_vars
=============================================================================
