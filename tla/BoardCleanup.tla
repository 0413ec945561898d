---------------------------- MODULE BoardCleanup ----------------------------
(***************************************************************************)
(* Manual cleanup of the remote board: /kiwifs-board-cleanup of            *)
(* commands/board-commands.ts plans a preview (board/cleanup.ts), asks the *)
(* user, or compares a token that an earlier headless run printed, and     *)
(* deletes what was confirmed (board/cleanup-execute.ts) while messages    *)
(* are changed by others, the consumer goes on acknowledging, private mode *)
(* is switched and calls fail.                                             *)
(*                                                                         *)
(* A step of the command ends where the code awaits.  The unit of time is  *)
(* the retention of an acknowledgment; the grace is about twice as long.   *)
(***************************************************************************)
EXTENDS Naturals, FiniteSets

CONSTANTS
  Msgs,        \* paths on the board
  Posted,      \* messages that may be on it: with a time to live or without, on
               \* a backend that supplies an etag (1 and up) or does not (0)
  Grace,       \* GC_GRACE_MS
  Retention,   \* ACK_RETENTION_MS
  MaxTime,     \* bound: time
  MaxEvents,   \* bound: messages changed by others, switches of private mode,
               \* failing calls, crashes, unreadable state
  MaxRuns      \* bound: runs of the command

CleanupAssumption ==
  /\ Grace \in Nat /\ Retention \in Nat
  /\ {MaxTime, MaxEvents, MaxRuns} \subseteq Nat

VARIABLES
  now,
  board,    \* each path: {} or the message on it
  acks,     \* durable delivery state: {} or the time of the acknowledgment
  private,  \* the live private-mode gate
  log,      \* board-cleanup-oplog.jsonl: opIds in it, and is its tail torn?
  cmd,      \* the run of the command
  shown,    \* candidate sets whose token a headless run has printed
  report,   \* what the last run told: deleted, kept, and the audited number
  firstAck, \* history: the first acknowledgment of each message
  sent,     \* history: delete calls
  gone,     \* history: messages the delete calls of the run removed
  late,     \* history: deletes sent since private mode was switched on
  spent     \* bounds used up: events and runs

vars == <<now, board, acks, private, log, cmd, shown, report, firstAck, sent,
          gone, late, spent>>
world   == <<now, board, acks, private, firstAck>>
history == <<sent, gone, late>>

Senders == {"own", "other"}
Idle == [at |-> "idle", kind |-> "none", token |-> {}, acks |-> [m \in Msgs |-> {}],
         time |-> 0, todo |-> {}, found |-> {}, item |-> {}, seen |-> {}, deleted |-> {},
         kept |-> {}]
NoReport == [deleted |-> {}, kept |-> {}, audited |-> {}]

Init ==
  /\ now = 0
  /\ board \in [Msgs -> {{v} : v \in Posted}]
  /\ acks = [m \in Msgs |-> {}] /\ firstAck = acks
  /\ private = FALSE
  /\ log = [ids |-> 0, torn |-> FALSE]
  /\ cmd = Idle /\ shown = {} /\ report = NoReport
  /\ sent = 0 /\ gone = {} /\ late = 0
  /\ spent = [events |-> 0, runs |-> 0]

Event == spent.events < MaxEvents /\ spent' = [spent EXCEPT !.events = @ + 1]

-----------------------------------------------------------------------------
(* The world around the command.                                           *)

Tick ==
  /\ now < MaxTime /\ now' = now + 1
  /\ UNCHANGED <<board, acks, private, firstAck, log, cmd, shown, report, history, spent>>

\* Somebody rewrites the body of a message, which an etag shows, puts a message
\* of their own in its place, or removes it.
Change(m) ==
  /\ Event
  /\ \E v \in board[m], w \in {{}, {[from |-> "other", created |-> now, expires |-> {0}, etag |-> 0]}} :
       \/ board' = [board EXCEPT ![m] = w]
       \/ v.etag = 1 /\ board' = [board EXCEPT ![m] = {[v EXCEPT !.etag = 2]}]
  /\ UNCHANGED <<now, acks, private, firstAck, log, cmd, shown, report, history>>

\* DeliveryStateFile: an acknowledgment is saved, and the save drops those older
\* than the retention; the local gc drops them without one.
Retained(a) == [m \in Msgs |-> {t \in a[m] : now - t =< Retention}]

Acknowledge(m) ==
  /\ now < MaxTime  \* bound: later, it could count in no run any more
  /\ board[m] # {} /\ acks[m] = {}
  /\ acks' = [Retained(acks) EXCEPT ![m] = {now}]
  /\ firstAck' = [firstAck EXCEPT ![m] = IF @ = {} THEN {now} ELSE @]
  /\ UNCHANGED <<now, board, private, log, cmd, shown, report, history, spent>>

LocalGc ==
  /\ acks' = Retained(acks) /\ acks' # acks
  /\ UNCHANGED <<now, board, private, firstAck, log, cmd, shown, report, history, spent>>

SwitchPrivate ==
  /\ Event
  /\ private' = ~private /\ late' = 0
  /\ UNCHANGED <<now, board, acks, firstAck, log, cmd, shown, report, sent, gone>>

-----------------------------------------------------------------------------
(* Eligibility: sent by this agent, expired and acknowledged, and the later *)
(* of the two instants more than the grace ago.                            *)

EligibleEither(v, ack, time) == \* mutant: expired or acknowledged is enough
  /\ v.from = "own"
  /\ v.expires \cup ack # {}
  /\ \A t \in v.expires \cup ack : time > t + Grace
Eligible(v, ack, time) ==
  /\ v.from = "own"
  /\ v.expires # {} /\ ack # {}
  /\ \A t \in v.expires \cup ack : time > t + Grace

\* What a preview binds, and what the token is computed over.
Candidate(m, v) == [msg |-> m, created |-> v.created, from |-> v.from, etag |-> v.etag]

\* The recheck: same created and sender, and the same etag where there was one.
Bound(c, v) ==
  /\ v.created = c.created /\ v.from = c.from
  /\ c.etag = 0 \/ v.etag = c.etag

-----------------------------------------------------------------------------
(* Planning.                                                               *)

\* The command opens its op log, reads the acknowledgments once, and lists the
\* board.  With a token it will go on to delete.
Start(kind, token) ==
  /\ cmd.at = "idle" /\ ~log.torn /\ ~private
  /\ spent.runs < MaxRuns
  /\ \E readable \in BOOLEAN :
       /\ readable \/ spent.events < MaxEvents
       /\ spent' = [spent EXCEPT !.runs = @ + 1, !.events = @ + IF readable THEN 0 ELSE 1]
       /\ cmd' = [Idle EXCEPT !.at = "plan", !.kind = kind, !.token = token,
                              !.acks = IF readable THEN acks ELSE @,
                              !.time = now,
                              !.todo = {m \in Msgs : board[m] # {}}]
  /\ report' = NoReport /\ gone' = {}
  /\ UNCHANGED <<world, log, shown, sent, late>>

\* One fresh read; a message that is not eligible or cannot be read, because of a
\* fault, private mode or the bounds of the listing and the reads, is skipped.
PlanRead(m) ==
  /\ cmd.at = "plan" /\ m \in cmd.todo
  /\ \/ /\ cmd' = [cmd EXCEPT !.todo = @ \ {m},
                    !.found = @ \cup {Candidate(m, v) : v \in {w \in board[m] :
                                ~private /\ Eligible(w, cmd.acks[m], cmd.time)}}]
        /\ UNCHANGED spent
     \/ Event /\ cmd' = [cmd EXCEPT !.todo = @ \ {m}]
  /\ UNCHANGED <<world, log, shown, report, history>>

\* The plan is shown to the user, or printed with its token, or compared with
\* the token the user gave.
TokenMatches == cmd.found = cmd.token

Execute == [cmd EXCEPT !.at = "loop", !.todo = cmd.found, !.time = now]

Planned ==
  /\ cmd.at = "plan" /\ cmd.todo = {}
  /\ \/ /\ cmd.kind = "dialog"
        /\ cmd' = [cmd EXCEPT !.at = "confirm"] /\ UNCHANGED shown
     \/ /\ cmd.kind = "preview"
        /\ shown' = shown \cup {cmd.found} /\ cmd' = Idle
     \/ /\ cmd.kind = "token"
        /\ cmd' = (IF TokenMatches /\ ~private THEN Execute ELSE Idle)
        /\ UNCHANGED shown
  /\ UNCHANGED <<world, log, report, history, spent>>

Answer ==
  /\ cmd.at = "confirm"
  /\ \/ cmd' = [Execute EXCEPT !.token = cmd.found] /\ ~private
     \/ cmd' = Idle
  /\ UNCHANGED <<world, log, shown, report, history, spent>>

-----------------------------------------------------------------------------
(* Execution.                                                              *)

\* What the run tells; the audit record counts the deletes of a run that ended
\* well, and says 0 of one that private mode stopped.
Told(r, ok) ==
  [deleted |-> r.deleted, kept |-> r.kept,
   audited |-> {IF ok THEN Cardinality(r.deleted) ELSE 0}]

EndRun(ok) == cmd' = Idle /\ report' = Told(cmd, ok)

\* The gate is read at the head of the loop and, before the same await, by the
\* read itself; the answer is a message, nothing, or an error.

Check(c) ==
  /\ cmd.at = "loop" /\ c \in cmd.todo
  /\ \/ /\ private
        /\ EndRun(FALSE) /\ UNCHANGED spent
     \/ /\ ~private
        /\ cmd' = [cmd EXCEPT !.todo = @ \ {c}, !.at = "read",
                              !.item = {c}, !.seen = board[c.msg]]
        /\ UNCHANGED <<report, spent>>
     \/ /\ ~private /\ Event
        /\ cmd' = [cmd EXCEPT !.todo = @ \ {c}, !.kept = @ \cup {c.msg}]
        /\ UNCHANGED report
  /\ UNCHANGED <<world, log, shown, history>>

Deletable ==
  \E c \in cmd.item, v \in cmd.seen :
    Bound(c, v) /\ Eligible(v, cmd.acks[c.msg], cmd.time)

Item == {c.msg : c \in cmd.item}

Skip ==
  /\ cmd.at = "read" /\ ~Deletable
  /\ cmd' = [cmd EXCEPT !.at = "loop", !.kept = @ \cup Item, !.item = {}, !.seen = {}]
  /\ UNCHANGED <<world, log, shown, report, history, spent>>

\* The opId is on disk before the delete is sent; when it cannot be written the
\* command ends with an error and tells no more, and a torn line stays.

Send ==
  /\ cmd.at = "read" /\ Deletable
  /\ \/ /\ log' = [log EXCEPT !.ids = @ + 1]
        /\ cmd' = [cmd EXCEPT !.at = "delete"]
        /\ sent' = sent + 1 /\ late' = (IF private THEN late + 1 ELSE late)
        /\ UNCHANGED spent
     \/ /\ Event
        /\ log' \in {log, [log EXCEPT !.torn = TRUE]}
        /\ cmd' = Idle
        /\ UNCHANGED <<sent, late>>
  /\ UNCHANGED <<world, shown, report, gone>>

\* The delete arrives; its answer may be lost, and one that finds nothing is
\* refused.  Whatever is no answer of success counts as a failed delete.
Arrive ==
  /\ cmd.at = "delete"
  /\ board' = [m \in Msgs |-> IF m \in Item THEN {} ELSE board[m]]
  /\ gone' = gone \cup {m \in Item : board[m] # {}}
  /\ \/ /\ \A m \in Item : board[m] # {}
        /\ cmd' = [cmd EXCEPT !.at = "loop", !.item = {}, !.seen = {},
                              !.deleted = @ \cup Item]
        /\ UNCHANGED spent
     \/ /\ IF \A m \in Item : board[m] = {} THEN UNCHANGED spent ELSE Event
        /\ cmd' = [cmd EXCEPT !.at = "loop", !.item = {}, !.seen = {},
                              !.kept = @ \cup Item]
  /\ UNCHANGED <<now, acks, private, firstAck, log, shown, report, sent, late>>

\* Nothing is left, or the bound of deletes is reached.
Finish ==
  /\ cmd.at = "loop"
  /\ cmd.todo = {} \/ cmd.deleted # {}
  /\ EndRun(TRUE)
  /\ UNCHANGED <<world, log, shown, history, spent>>

Crash ==
  /\ cmd.at # "idle"
  /\ Event
  /\ cmd' = Idle
  /\ UNCHANGED <<world, log, shown, report, history>>

Next ==
  \/ Tick \/ LocalGc \/ SwitchPrivate
  \/ \E m \in Msgs : Change(m) \/ Acknowledge(m)
  \/ Start("dialog", {}) \/ Start("preview", {}) \/ \E t \in shown : Start("token", t)
  \/ \E m \in Msgs : PlanRead(m)
  \/ Planned \/ Answer
  \/ \E c \in cmd.todo : Check(c)
  \/ Skip \/ Send \/ Arrive \/ Finish \/ Crash

Spec == Init /\ [][Next]_vars

-----------------------------------------------------------------------------
(* Properties.                                                             *)

Messages == [from : Senders, created : 0..MaxTime, expires : SUBSET (0..MaxTime + 1),
             etag : 0..2]
Candidates == [msg : Msgs, created : 0..MaxTime, from : Senders, etag : 0..2]

\* Types of the variables; a candidate set never holds two tuples of one path.
TypeOK ==
  /\ now \in 0..MaxTime
  /\ board \in [Msgs -> SUBSET Messages] /\ \A m \in Msgs : Cardinality(board[m]) =< 1
  /\ acks \in [Msgs -> SUBSET (0..MaxTime)]
  /\ private \in BOOLEAN
  /\ log \in [ids : Nat, torn : BOOLEAN]
  /\ cmd.at \in {"idle", "plan", "confirm", "loop", "read", "delete"}
  /\ cmd.at \in {"loop", "read", "delete"} => cmd.todo \cup cmd.item \subseteq Candidates
  /\ \A s \in shown \cup {cmd.found} :
       s \subseteq Candidates /\ \A c, d \in s : c.msg = d.msg => c = d

\* Never broadened: a delete goes out only for a tuple of the candidate set the
\* user confirmed, in the dialog or by the token of a set that was printed, and
\* after a read that found this very tuple (board-commands.ts:258-267,
\* cleanup-execute.ts:256-287), whatever changed on the board in between.
OnlyConfirmed ==
  cmd.at = "delete" =>
    \A c \in cmd.item :
      /\ c \in cmd.token
      /\ cmd.kind = "token" => cmd.token \in shown
      /\ \E v \in cmd.seen : Candidate(c.msg, [v EXCEPT !.etag = IF c.etag = 0 THEN 0 ELSE @]) = c

\* The grace: when a delete goes out, the message that was read last had expired,
\* and this consumer had first acknowledged it, each more than the grace ago, and
\* it was this agent's own (cleanup-rules.ts:55-125), across pruned and renewed
\* acknowledgments and however long the user took to answer.
SettledLongAgo ==
  cmd.at = "delete" =>
    \A c \in cmd.item, v \in cmd.seen :
      /\ v.from = "own"
      /\ \E t \in v.expires : now > t + Grace
      /\ \E t \in firstAck[c.msg] : now > t + Grace

\* Switching to private mode stops a run: at most the delete whose read was under
\* way is still sent (cleanup-execute.ts:202-205, 224-234).
OneAfterPrivate == late =< 1

\* Every delete that was sent has its opId in the log, across crashes and failing
\* writes (cleanup-execute.ts:313-315).
LoggedFirst == sent =< log.ids

\* What the report calls deleted was removed by this run: not by somebody else in
\* the meantime, and not merely sent (cleanup-execute.ts:316-342).
ReportedAreGone == report.deleted \subseteq gone

\* A cleanup deletes what it may, when it may, and tells.
CleanupSafety ==
  TypeOK /\ OnlyConfirmed /\ SettledLongAgo /\ OneAfterPrivate /\ LoggedFirst
  /\ ReportedAreGone

-----------------------------------------------------------------------------
(* What the code does not promise, although a comment of it does.          *)

\* "A private-mode transition aborts the run immediately (no further deletes)"
\* (cleanup-execute.ts:25-26): between the read and the delete nothing looks.
NoDeleteWhilePrivate == late = 0

\* "A preview candidate that was NOT deleted, with a visible reason"
\* (cleanup-execute.ts:62): a delete whose answer was lost is listed here too,
\* and only a cancelled one is disclosed as unknown.
KeptRemain == report.kept \cap gone = {}

\* The audit record counts the deletes: after private mode stopped a run it says
\* "ok (board-cleanup; 0 deleted)", whatever the run had deleted
\* (board-commands.ts:229).
AuditCountsDeletes == report.audited \subseteq {Cardinality(report.deleted)}

\* "Full eligibility recheck against FRESH state" (cleanup-execute.ts:288-290): the
\* acknowledgments are those read when the command started, before the dialog.
RecheckIsFresh ==
  cmd.at = "delete" =>
    \A c \in cmd.item, v \in cmd.seen : Eligible(v, acks[c.msg], now)
=============================================================================
