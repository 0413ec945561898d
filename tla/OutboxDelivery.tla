--------------------------- MODULE OutboxDelivery ---------------------------
(***************************************************************************)
(* Delivery of the outbox to the KiwiFS backend: the worker                *)
(* (src/outbox/worker.ts), the sender (src/observation/sender.ts), the     *)
(* adapter's read-before-write (src/backend/adapter.ts), the transport's   *)
(* errors (src/backend/transport.ts) and the live private-mode gate        *)
(* (src/privacy/live-gate.ts), with crashes, restarts against another      *)
(* target, and a backend that loses, delays or repeats writes.             *)
(*                                                                         *)
(* The journal is the one OutboxStore describes, used by one process: a    *)
(* call of the store either takes effect durably or throws.  A record is   *)
(* named by the target it is sent to and the job it is made from, since    *)
(* path and content are functions of the job (sender.ts, B2).  A request   *)
(* that the transport has sent stays on the wire until the backend has     *)
(* applied or lost it, whatever became of the caller.                      *)
(***************************************************************************)
EXTENDS Naturals

CONSTANTS
    Jobs,       \* the jobs the session may enqueue
    Scopes,
    ScopeOf,    \* the scope of a job
    Targets,    \* delivery-target fingerprints (endpoint, credential ref, scope)
    OutsideEdits, \* may the config file change without the command bridge?
    NoJob

ASSUME DeliveryAssumption ==
    /\ ScopeOf \in [Jobs -> Scopes]
    /\ Targets # {} /\ OutsideEdits \in BOOLEAN
    /\ NoJob \notin Jobs

VARIABLES
    status, \* JobStatus, "none" before enqueue
    due,    \* nextAttemptAt has passed
    reason, \* the code in lastError, "none" unless quarantined
    seq,    \* job.seq, 0 before enqueue
    next,   \* this.nextSeq
    pin,    \* job.target
    target, \* what expectedTarget() answers in this session
    private,  \* privateMode in the config file
    observed, \* lastObserved = true
    phase,  \* where the single-flight worker stands; "off" without a session
    todo,   \* due scope heads this tick has not reached yet
    cur,    \* the job being delivered
    aborted, \* activeSend.signal.aborted
    tried,  \* the adapter's one retry of the current call is used up
    err,    \* code of the error that reached deliver()'s catch
    wire,   \* writes sent and neither applied nor lost yet
    stored, \* records at the backends
    sent    \* every write that ever left (never forgotten)

job == <<status, due, reason, seq, next, pin>>
gate == <<private, observed>>
send == <<phase, todo, cur, aborted, tried, err>>
net == <<wire, stored, sent>>
vars == <<job, target, gate, send, net>>

Statuses == {"none", "pending", "quarantined", "acked"}
Errors == {"unavailable", "timeout", "cancelled", "rejected"}
Phases == {"off", "idle", "loop", "connect", "read", "write", "failed"}
Requests == Targets \X Jobs
InFlight == {"connect", "read", "write"}

TypeOK ==
    /\ status \in [Jobs -> Statuses]
    /\ due \in [Jobs -> BOOLEAN]
    /\ reason \in [Jobs -> Errors \cup {"none"}]
    /\ seq \in [Jobs -> Nat] /\ next \in Nat \ {0}
    /\ pin \in [Jobs -> Targets]
    /\ target \in Targets
    /\ private \in BOOLEAN /\ observed \in BOOLEAN
    /\ phase \in Phases
    /\ todo \subseteq Jobs
    /\ cur \in Jobs \cup {NoJob}
    /\ aborted \in BOOLEAN /\ tried \in BOOLEAN
    /\ err \in Errors \cup {"none"}
    /\ wire \subseteq Requests /\ stored \subseteq Requests /\ sent \subseteq Requests

Init ==
    /\ status = [j \in Jobs |-> "none"]
    /\ due = [j \in Jobs |-> FALSE]
    /\ reason = [j \in Jobs |-> "none"]
    /\ seq = [j \in Jobs |-> 0] /\ next = 1
    /\ target \in Targets
    /\ pin = [j \in Jobs |-> target]
    /\ private \in BOOLEAN /\ observed = FALSE
    /\ phase = "idle" /\ todo = {} /\ cur = NoJob
    /\ aborted = FALSE /\ tried = FALSE /\ err = "none"
    /\ wire = {} /\ stored = {} /\ sent = {}

Pending(j) == status[j] = "pending"

\* byScope of runTick: the lowest pending seq of each scope, due or not.
EarlierPending(j, k) == Pending(k) /\ ScopeOf[k] = ScopeOf[j] /\ seq[k] < seq[j]
HeadsDueOnly == {j \in Jobs : /\ Pending(j) /\ due[j] \* mutant: the due test first
                              /\ ~\E k \in Jobs : EarlierPending(j, k) /\ due[k]}
HeadsOfJournal == {j \in Jobs : \* mutant: acked and quarantined jobs count
                     /\ Pending(j)
                     /\ ~\E k \in Jobs : /\ status[k] # "none" /\ seq[k] < seq[j]
                                       /\ ScopeOf[k] = ScopeOf[j]}
Heads == {j \in Jobs : Pending(j) /\ ~\E k \in Jobs : EarlierPending(j, k)}

\* The session pins its own target on the jobs it accepts.
Enqueue(j) ==
    /\ phase # "off" /\ status[j] = "none"
    /\ status' = [status EXCEPT ![j] = "pending"]
    /\ due' = [due EXCEPT ![j] = TRUE]
    /\ seq' = [seq EXCEPT ![j] = next] /\ next' = next + 1
    /\ pin' = [pin EXCEPT ![j] = target]
    /\ UNCHANGED <<reason, target, gate, send, net>>

BackoffElapses(j) ==
    /\ Pending(j) /\ ~due[j]
    /\ due' = [due EXCEPT ![j] = TRUE]
    /\ UNCHANGED <<status, reason, seq, next, pin, target, gate, send, net>>

(***************************** private mode ********************************)

\* observe(): records what the file says; normal -> private fires onCancel,
\* which aborts the delivery in flight.
ObserveNoCancel(p) == observed' = p /\ UNCHANGED aborted \* mutant: no subscriber
Observe(p) ==
    /\ observed' = p
    /\ aborted' = (aborted \/ (p /\ ~observed /\ phase \in InFlight))

\* An abort or a rejection is handled before the next command runs.
CommandMayRun == phase # "failed" /\ ~(aborted /\ phase \in {"read", "write"})

\* The private-mode command: persist the flip, then notifyTransition().
Toggle ==
    /\ phase # "off" /\ CommandMayRun
    /\ private' = ~private
    /\ Observe(~private)
    /\ UNCHANGED <<job, target, phase, todo, cur, tried, err, net>>

\* Another session or an editor changes the file.
Edit ==
    /\ OutsideEdits
    /\ private' = ~private
    /\ UNCHANGED <<job, target, observed, send, net>>

\* Some other user of the session's gate reads it.
OtherRead ==
    /\ phase # "off" /\ observed # private
    /\ Observe(private)
    /\ UNCHANGED <<job, target, private, phase, todo, cur, tried, err, net>>

(******************************** worker ***********************************)

TickBegin ==
    /\ phase = "idle"
    /\ todo' = {j \in Heads : due[j]}
    /\ phase' = "loop"
    /\ UNCHANGED <<job, target, gate, cur, aborted, tried, err, net>>

TickEnd ==
    /\ phase = "loop" /\ todo = {}
    /\ phase' = "idle"
    /\ UNCHANGED <<job, target, gate, todo, cur, aborted, tried, err, net>>

PinHolds(j) == pin[j] = target

\* One head: private mode holds it, then a foreign target, else deliver() runs
\* up to the sender's openBackend().
VisitUnpinned(j) == \* mutant: the target pin is not looked at
    /\ phase = "loop" /\ j \in todo
    /\ todo' = todo \ {j}
    /\ observed' = private
    /\ IF private
       THEN UNCHANGED <<phase, cur, aborted>>
       ELSE phase' = "connect" /\ cur' = j /\ aborted' = FALSE
    /\ UNCHANGED <<job, target, private, tried, err, net>>
Visit(j) ==
    /\ phase = "loop" /\ j \in todo
    /\ todo' = todo \ {j}
    /\ observed' = private
    /\ IF private \/ ~PinHolds(j)
       THEN UNCHANGED <<phase, cur, aborted>>
       ELSE phase' = "connect" /\ cur' = j /\ aborted' = FALSE
    /\ UNCHANGED <<job, target, private, tried, err, net>>

FailUnclassified(e) == phase' = "failed" /\ err' = "unknown" /\ UNCHANGED cur \* mutant
Fail(e) == phase' = "failed" /\ err' = e /\ UNCHANGED cur

\* openBackend() takes no signal.  A missing backend or an unresolved scope is
\* retryable like an outage; a payload the sender cannot route is not.
Connected(j) ==
    /\ phase = "connect" /\ cur = j
    /\ tried' = FALSE
    /\ IF aborted THEN Fail("cancelled")
       ELSE phase' = "read" /\ UNCHANGED <<cur, err>>
    /\ UNCHANGED <<job, target, gate, todo, aborted, net>>

ConnectFails ==
    /\ phase = "connect"
    /\ \E e \in {"unavailable", "timeout", "rejected"} : Fail(e)
    /\ UNCHANGED <<job, target, gate, todo, aborted, tried, net>>

This == <<target, cur>>

\* The write leaves unless the signal is aborted already.
Post ==
    IF aborted
    THEN Fail("cancelled") /\ UNCHANGED <<wire, sent>>
    ELSE /\ phase' = "write" /\ wire' = wire \cup {This} /\ sent' = sent \cup {This}
         /\ UNCHANGED <<cur, err>>

\* store.ack() after the sender resolved; it may throw and leave the job pending.
Acknowledge(j) ==
    /\ phase' = "loop" /\ cur' = NoJob
    /\ UNCHANGED <<tried, err>>
    /\ \/ status' = [status EXCEPT ![j] = "acked"]
       \/ UNCHANGED status
    /\ UNCHANGED <<due, reason, seq, next, pin>>

\* writeImmutable(): the record is there (a replay), or it is absent and written.
ReadReply(j) ==
    /\ phase = "read" /\ cur = j
    /\ \/ This \in stored /\ Acknowledge(j) /\ UNCHANGED <<wire, sent>>
       \/ /\ This \notin stored
          /\ Post /\ tried' = FALSE /\ UNCHANGED job
    /\ UNCHANGED <<target, gate, todo, aborted, stored>>

WriteReplyBlind(j) == \* mutant: any answer counts as success
    /\ phase = "write" /\ cur = j
    /\ Acknowledge(j)
    /\ UNCHANGED <<target, gate, todo, aborted, net>>
\* The backend's answer to a write it has applied.
WriteReply(j) ==
    /\ phase = "write" /\ cur = j /\ This \in stored
    /\ Acknowledge(j)
    /\ UNCHANGED <<target, gate, todo, aborted, net>>

\* An availability fault: kiwi_read and kiwi_write are retried once unless
\* the signal is aborted.
Unavailable ==
    /\ phase \in {"read", "write"}
    /\ IF tried \/ aborted
       THEN Fail("unavailable") /\ UNCHANGED <<tried, wire, sent>>
       ELSE /\ tried' = TRUE
            /\ IF phase = "write" THEN Post
               ELSE UNCHANGED <<phase, cur, err, wire, sent>>
    /\ UNCHANGED <<job, target, gate, todo, aborted, stored>>

\* A deadline that passed or a body that broke off, and a refusal by the backend
\* (isError, credentials, conflict, malformed answer), are not retried.
NotRetried ==
    /\ phase \in {"read", "write"}
    /\ \E e \in {"timeout", "rejected"} : Fail(e)
    /\ UNCHANGED <<job, target, gate, todo, aborted, tried, net>>

\* The abort reaches the request in flight.
Cancelled ==
    /\ phase \in {"read", "write"} /\ aborted
    /\ Fail("cancelled")
    /\ UNCHANGED <<job, target, gate, todo, aborted, tried, net>>

\* deliver()'s catch: a private gate holds; otherwise retry with backoff (a
\* session sets no attempt cap, session.ts:282) or quarantine.  Recording either may throw, and then the job stays as it is.
Retryable(e) == e = "unavailable"
Catch ==
    /\ phase = "failed"
    /\ observed' = private
    /\ phase' = "loop" /\ cur' = NoJob /\ err' = "none"
    /\ \/ UNCHANGED job
       \/ /\ ~private /\ Retryable(err)
          /\ due' = [due EXCEPT ![cur] = FALSE]
          /\ UNCHANGED <<status, reason, seq, next, pin>>
       \/ /\ ~private /\ ~Retryable(err)
          /\ status' = [status EXCEPT ![cur] = "quarantined"]
          /\ reason' = [reason EXCEPT ![cur] = err]
          /\ UNCHANGED <<due, seq, next, pin>>
    /\ UNCHANGED <<target, private, todo, aborted, tried, net>>

(************************** backend and sessions ***************************)

Apply(r) ==
    /\ r \in wire
    /\ stored' = stored \cup {r} /\ wire' = wire \ {r}
    /\ UNCHANGED <<job, target, gate, send, sent>>

Lose(r) ==
    /\ r \in wire
    /\ wire' = wire \ {r}
    /\ UNCHANGED <<job, target, gate, send, stored, sent>>

Crash ==
    /\ phase # "off"
    /\ phase' = "off" /\ todo' = {} /\ cur' = NoJob
    /\ aborted' = FALSE /\ tried' = FALSE /\ err' = "none" /\ observed' = FALSE
    /\ UNCHANGED <<job, target, private, net>>

\* A new session, possibly with another endpoint, credential or scope.
Restart(t) ==
    /\ phase = "off"
    /\ phase' = "idle" /\ target' = t
    /\ UNCHANGED <<job, gate, todo, cur, aborted, tried, err, net>>

Worker(j) == Visit(j) \/ Connected(j) \/ ReadReply(j) \/ WriteReply(j)

Next ==
    \/ \E j \in Jobs : Enqueue(j) \/ BackoffElapses(j) \/ Worker(j)
    \/ Toggle \/ Edit \/ OtherRead
    \/ TickBegin \/ TickEnd
    \/ ConnectFails \/ Unavailable \/ NotRetried \/ Cancelled \/ Catch
    \/ \E r \in Requests : Apply(r) \/ Lose(r)
    \/ Crash \/ \E t \in Targets : Restart(t)

Spec == Init /\ [][Next]_vars

(****************************** fairness ***********************************)

\* The worker's own steps and its timers happen.  What can succeed again and
\* again does succeed: no outage lasts for ever, the backend does not lose
\* every write, the disk does not refuse every acknowledgement.
Fairness ==
    /\ WF_vars(TickBegin) /\ WF_vars(TickEnd) /\ WF_vars(Catch) /\ WF_vars(Cancelled)
    /\ WF_vars(Unavailable \/ NotRetried) /\ \A r \in Requests : SF_vars(Apply(r))
    /\ \A j \in Jobs :
          /\ WF_vars(BackoffElapses(j)) /\ WF_vars(Visit(j))
          /\ SF_vars(Connected(j)) /\ SF_vars(ReadReply(j))
          /\ SF_vars(ReadReply(j) /\ status'[j] = "acked")
LiveSpec == Spec /\ Fairness

(****************************** properties *********************************)

\* A job is marked acknowledged only when its record is at the backend the
\* job was pinned to (worker.ts:17-19, 318-320: "never a false completeness
\* claim"), whatever was lost, delayed or repeated on the way.
AckedIsStored ==
    \A j \in Jobs : status[j] = "acked" => <<pin[j], j>> \in stored

\* No write ever leaves for another target than the one the job was accepted
\* for, across restarts against other configurations (worker.ts:266-273).
NeverRerouted == \A r \in sent : r[1] = pin[r[2]]

\* Within a scope jobs leave in acceptance order: once a write of a later job
\* has left, the earlier one is finished (worker.ts:245-251: "a later job
\* never overtakes an earlier same-scope job that is still in backoff").
ScopeOrder ==
    \A r \in sent : \A j \in Jobs :
       Pending(j) /\ ScopeOf[j] = ScopeOf[r[2]] => seq[j] >= seq[r[2]]

\* Once the gate has seen private mode no write leaves until it has seen
\* normal mode again (worker.ts:256-265, 122-129).
QuietWhileObserved == [][wire' \subseteq wire \/ ~observed]_vars

\* A delivery that private mode aborted is held, not quarantined
\* (worker.ts:124-127: "the aborted job is HELD (never dropped, never
\* quarantined)").
AbortHolds == \A j \in Jobs : reason[j] # "cancelled"

\* An outage in the middle of a write leaves the job to be retried
\* (docs/architecture.md:208: "outbox holds job; ... retry with backoff").
OutageHolds == \A j \in Jobs : reason[j] # "timeout"

\* The worker with all it does is an in-order, at-least-once channel
\* (docs/architecture.md:209: "no logical duplicates ...; no lost accepted
\* work"): see OutboxChannel.
Channel == INSTANCE OutboxChannel WITH
    sent <- {j \in Jobs : <<pin[j], j>> \in sent},
    stored <- {j \in Jobs : <<pin[j], j>> \in stored}
IsChannel == Channel!Spec

\* A job that is accepted is delivered or quarantined in the end, if private
\* mode ends, a session stays up, and its scope's jobs are pinned to that
\* session's target (docs/architecture.md:209: "no lost accepted work").
Settles(j) ==
    <>[](/\ ~private /\ phase # "off"
         /\ \A k \in Jobs : Pending(k) /\ ScopeOf[k] = ScopeOf[j] => PinHolds(k))
       => (Pending(j) ~> ~Pending(j))
EveryJobSettles == \A j \in Jobs : Settles(j)
=============================================================================
