------------------------- MODULE ProposalLifecycle -------------------------
(***************************************************************************)
(* The documents of the memory that commands change after they have been   *)
(* stored: merge proposals and the observation records they name.  Model   *)
(* of observation/proposals.ts (approve, reject, undo) and of              *)
(* commands/manual-ops.ts (forget, forget-undo).                           *)
(*                                                                         *)
(* A transition is a chain of requests to the backend, with a decision     *)
(* after each read.  A step here is what the backend does for one request  *)
(* together with what the command does with the answer.  Two commands may  *)
(* run at once: the chain of the lifecycle orders approve, reject and undo *)
(* of one session only, not those of another session nor the forgetting    *)
(* commands.                                                               *)
(***************************************************************************)
EXTENDS Naturals, Sequences, FiniteSets

CONSTANTS Proposals, Targets, Actors, NoDoc,
          TargetsOf,   \* the records a proposal would merge, in its order
          MaxCalls,    \* bound: commands given
          MaxFaults    \* bound: requests that fail, processes that die

TargetsAssumption ==
    /\ TargetsOf \in [Proposals -> Seq(Targets)]
    /\ \A p \in Proposals : Len(TargetsOf[p]) >= 2
DisjointAssumption ==
    /\ Proposals \cap Targets = {}
    /\ NoDoc \notin Proposals \cup Targets
BoundsAssumption == MaxCalls \in Nat /\ MaxFaults \in Nat

Docs == Proposals \cup Targets
Ops == 1..MaxCalls

\* A provenance line: what was done, for which proposal, under which opId.
Lines == [what : {"approved", "rejected", "undone", "superseded", "restored",
                  "forget undone"},
          by : Docs, op : Ops]

\* A stored document.  "forgotten" is memory_status, which kiwi_forget writes;
\* "status" is the field of the record itself.
Doc == [status : {"pending-approval", "active", "superseded"},
        forgotten : BOOLEAN, lines : SUBSET Lines]

VARIABLES
    doc,      \* what the backend holds
    call,     \* per actor: the command under way
    opLog,    \* proposal-oplog.jsonl: the opIds of transitions
    manLog,   \* manual-oplog.jsonl: the opIds of forgetting commands
    calls,    \* commands given so far
    faults,   \* faults so far
    overlap   \* history: two commands have run at the same time

vars == <<doc, call, opLog, manLog, calls, faults, overlap>>

NoContent == [status |-> "active", forgotten |-> FALSE, lines |-> {}]
Idle == [kind |-> "idle", path |-> NoDoc, at |-> "idle", i |-> 0,
         seen |-> "active", op |-> 0, out |-> NoContent]

Init ==
    /\ doc = [d \in Docs |->
                [NoContent EXCEPT !.status =
                    IF d \in Proposals THEN "pending-approval" ELSE "active"]]
    /\ call = [a \in Actors |-> Idle]
    /\ opLog = {} /\ manLog = {} /\ calls = 0 /\ faults = 0 /\ overlap = FALSE

(************************* documents *****************************************)

Count(p) == Len(TargetsOf[p])

\* The document call c is at: target number i, or the one it was given.
At(c) == IF c.path \in Proposals /\ c.i \in 1..Count(c.path)
         THEN TargetsOf[c.path][c.i] ELSE c.path

HasLine(d, what, by) == \E l \in d.lines : l.what = what /\ l.by = by

\* Mutant: the rewritten document starts a new history.
WithStatusFresh(d, status) == [d EXCEPT !.status = status, !.forgotten = FALSE, !.lines = {}]
\* The record is parsed and serialised again from the fields a record has.
\* memory_status is none of them: it is gone from the result.
WithStatus(d, status) == [d EXCEPT !.status = status, !.forgotten = FALSE]

AppendProvenance(d, what, by, op) ==
    [d EXCEPT !.lines = @ \cup {[what |-> what, by |-> by, op |-> op]}]

(************************* the course of a call ******************************)

Busy(a) == call[a] # Idle
Becomes(a, c) == call' = [call EXCEPT ![a] = c]
\* The call ends: with an answer, or because it refuses to go on.
Ends(a) == Becomes(a, Idle)

\* A fresh opId; it is durable in the op log before it is used.
NextOp == Cardinality(opLog \cup manLog) + 1
Record(op) == opLog' = opLog \cup {op} /\ UNCHANGED manLog
RecordManual(op) == manLog' = manLog \cup {op} /\ UNCHANGED opLog
NoRecord == UNCHANGED <<opLog, manLog>>

Quiet == UNCHANGED <<calls, faults, overlap>>

\* A command is given.  A forget records its opId before it opens the store.
Begin(a, kind, d) ==
    /\ ~Busy(a) /\ calls < MaxCalls
    /\ \/ kind \in {"approve", "reject", "undo"} /\ d \in Proposals
       \/ kind \in {"forget", "unforget"} /\ d \in Targets
    /\ calls' = calls + 1
    /\ overlap' = (overlap \/ \E b \in Actors : Busy(b))
    /\ LET c == [Idle EXCEPT !.kind = kind, !.path = d, !.at = "check"] IN
       IF kind = "forget"
       THEN Becomes(a, [c EXCEPT !.op = NextOp]) /\ RecordManual(NextOp)
       ELSE Becomes(a, c) /\ NoRecord
    /\ UNCHANGED <<doc, faults>>

(************************* approve *******************************************)

\* The first read of the proposal.
CheckApprove(a) ==
    LET c == call[a] IN
    /\ c.kind = "approve" /\ c.at = "check"
    /\ CASE doc[c.path].status = "active" ->
              Becomes(a, [c EXCEPT !.at = "replay", !.i = 1]) /\ NoRecord
         [] doc[c.path].status = "pending-approval" ->
              /\ Becomes(a, [c EXCEPT !.at = "fresh", !.op = NextOp])
              /\ Record(NextOp)
         [] OTHER -> Ends(a) /\ NoRecord
    /\ UNCHANGED doc /\ Quiet

\* An active proposal: was every target superseded by it at some time?
ReplayCheck(a) ==
    LET c == call[a] IN
    /\ c.at = "replay"
    /\ IF HasLine(doc[At(c)], "superseded", c.path) /\ c.i < Count(c.path)
       THEN Becomes(a, [c EXCEPT !.i = @ + 1])
       ELSE Ends(a)
    /\ UNCHANGED doc /\ NoRecord /\ Quiet

\* The second read, whose content is rewritten whatever its status is by now.
\* Mutant: the proposal itself is not written, its targets are.
FreshApproveSkips(a) ==
    LET c == call[a] IN
    /\ c.kind = "approve" /\ c.at = "fresh"
    /\ Becomes(a, [c EXCEPT !.at = "target", !.i = 1])
    /\ UNCHANGED doc /\ NoRecord /\ Quiet
FreshApprove(a) ==
    LET c == call[a] IN
    /\ c.kind = "approve" /\ c.at = "fresh"
    /\ Becomes(a, [c EXCEPT !.at = "write", !.out =
          AppendProvenance(WithStatus(doc[c.path], "active"), "approved", c.path, c.op)])
    /\ UNCHANGED doc /\ NoRecord /\ Quiet

TargetApprove(a) ==
    LET c == call[a] IN
    /\ c.kind = "approve" /\ c.at = "target"
    /\ IF doc[At(c)].status = "active"
       THEN Becomes(a, [c EXCEPT !.at = "write", !.out =
              AppendProvenance(WithStatus(doc[At(c)], "superseded"),
                               "superseded", c.path, c.op)])
       ELSE Ends(a)
    /\ UNCHANGED doc /\ NoRecord /\ Quiet

(************************* reject ********************************************)

\* The first read of reject and of undo: only the status is kept.
CheckStatus(a) ==
    LET c == call[a] IN
    /\ c.kind \in {"reject", "undo"} /\ c.at = "check"
    /\ Becomes(a, [c EXCEPT !.at = "fresh", !.seen = doc[c.path].status])
    /\ UNCHANGED doc /\ NoRecord /\ Quiet

\* The second read: the status of the first and the content of the second
\* decide.  A proposal that was rejected already is a replay.
FreshReject(a) ==
    LET c == call[a] IN
    /\ c.kind = "reject" /\ c.at = "fresh"
    /\ IF c.seen = "pending-approval"
       THEN /\ Becomes(a, [c EXCEPT !.at = "write", !.op = NextOp, !.out =
                AppendProvenance(WithStatus(doc[c.path], "superseded"),
                                 "rejected", c.path, NextOp)])
            /\ Record(NextOp)
       ELSE Ends(a) /\ NoRecord
    /\ UNCHANGED doc /\ Quiet

(************************* undo **********************************************)

\* Only an active proposal that says it was approved is undone.
FreshUndo(a) ==
    LET c == call[a] IN
    /\ c.kind = "undo" /\ c.at = "fresh"
    /\ IF c.seen = "active" /\ HasLine(doc[c.path], "approved", c.path)
       THEN /\ Becomes(a, [c EXCEPT !.at = "target", !.i = 1, !.op = NextOp])
            /\ Record(NextOp)
       ELSE Ends(a) /\ NoRecord
    /\ UNCHANGED doc /\ Quiet

\* After target i: the next one, then the proposal itself.
NextOfUndo(c) == [c EXCEPT !.i = @ + 1,
                           !.at = IF c.i < Count(c.path) THEN "target" ELSE "mark"]

\* A target is restored when it is superseded and this proposal superseded it
\* at some time; one that is active is passed over.
TargetUndo(a) ==
    LET c == call[a]  t == doc[At(c)] IN
    /\ c.kind = "undo" /\ c.at = "target"
    /\ CASE t.status = "active" -> Becomes(a, NextOfUndo(c))
         [] t.status = "superseded" /\ HasLine(t, "superseded", c.path) ->
              Becomes(a, [c EXCEPT !.at = "write", !.out =
                AppendProvenance(WithStatus(t, "active"), "restored", c.path, c.op)])
         [] OTHER -> Ends(a)
    /\ UNCHANGED doc /\ NoRecord /\ Quiet

\* All targets are restored: the proposal is read once more and marked.
MarkUndone(a) ==
    LET c == call[a] IN
    /\ c.at = "mark"
    /\ Becomes(a, [c EXCEPT !.at = "write", !.out =
          AppendProvenance(WithStatus(doc[c.path], "superseded"),
                           "undone", c.path, c.op)])
    /\ UNCHANGED doc /\ NoRecord /\ Quiet

(************************* writing *******************************************)

Write(a) ==
    LET c == call[a] IN
    /\ c.at = "write"
    /\ doc' = [doc EXCEPT ![At(c)] = c.out]
    /\ Becomes(a, [c EXCEPT !.at = "verify"])
    /\ NoRecord /\ Quiet

\* What follows a write that was verified.
AfterWrite(c) ==
    CASE c.kind = "approve" /\ c.i < Count(c.path) -> [c EXCEPT !.i = @ + 1, !.at = "target"]
      [] c.kind = "undo" /\ c.i <= Count(c.path) -> NextOfUndo(c)
      [] OTHER -> Idle

\* The read-back: the content must be the one that was written.
Verify(a) ==
    LET c == call[a] IN
    /\ c.at = "verify"
    /\ Becomes(a, IF doc[At(c)] = c.out THEN AfterWrite(c) ELSE Idle)
    /\ UNCHANGED doc /\ NoRecord /\ Quiet

(************************* forget and forget-undo ****************************)

\* The backend marks the record; the tombstone cache is refreshed after.
Forget(a) ==
    LET c == call[a] IN
    /\ c.kind = "forget" /\ c.at = "check"
    /\ doc' = [doc EXCEPT ![c.path].forgotten = TRUE]
    /\ Ends(a)
    /\ NoRecord /\ Quiet

\* The one read of a forget-undo; what it found is written back, restored.
Unforget(a) ==
    LET c == call[a] IN
    /\ c.kind = "unforget" /\ c.at = "check"
    /\ IF doc[c.path].forgotten
       THEN /\ Becomes(a, [c EXCEPT !.at = "write", !.op = NextOp, !.out =
                AppendProvenance([doc[c.path] EXCEPT !.forgotten = FALSE],
                                 "forget undone", c.path, NextOp)])
            /\ RecordManual(NextOp)
       ELSE Ends(a) /\ NoRecord
    /\ UNCHANGED doc /\ Quiet

(************************* faults ********************************************)

\* A request fails, is given up at its deadline, or the process dies.  A
\* write may have been applied all the same.
Fault(a) ==
    LET c == call[a] IN
    /\ Busy(a) /\ faults < MaxFaults
    /\ faults' = faults + 1
    /\ Ends(a)
    /\ \/ UNCHANGED doc
       \/ c.at = "write" /\ doc' = [doc EXCEPT ![At(c)] = c.out]
       \/ c.kind = "forget" /\ doc' = [doc EXCEPT ![c.path].forgotten = TRUE]
    /\ NoRecord /\ UNCHANGED <<calls, overlap>>

Kinds == {"approve", "reject", "undo", "forget", "unforget"}

Next ==
    \E a \in Actors :
        \/ \E kind \in Kinds, d \in Docs : Begin(a, kind, d)
        \/ CheckApprove(a) \/ ReplayCheck(a) \/ FreshApprove(a) \/ TargetApprove(a)
        \/ CheckStatus(a) \/ FreshReject(a)
        \/ FreshUndo(a) \/ TargetUndo(a) \/ MarkUndone(a)
        \/ Write(a) \/ Verify(a)
        \/ Forget(a) \/ Unforget(a)
        \/ Fault(a)

Spec == Init /\ [][Next]_vars

(************************* properties ****************************************)

Call == [kind : Kinds \cup {"idle"}, path : Docs \cup {NoDoc},
         at : {"idle", "check", "replay", "fresh", "target", "mark", "write", "verify"},
         i : Nat, seen : {"pending-approval", "active", "superseded"},
         op : 0..MaxCalls, out : Doc]

\* Documents, calls and the op log keep their shapes (proposals.ts, manual-ops.ts).
TypeOK ==
    /\ doc \in [Docs -> Doc]
    /\ call \in [Actors -> Call]
    /\ opLog \subseteq Ops /\ manLog \subseteq Ops
    /\ calls \in 0..MaxCalls /\ faults \in 0..MaxFaults /\ overlap \in BOOLEAN

\* Whatever any number of concurrent, failing and dying commands leave in a
\* document, an op log names the operation: opIds are durable before the
\* write they go with (proposals.ts:152, manual-ops.ts:116).
OpsAreLogged ==
    \A d \in Docs : \A l \in doc[d].lines :
        l.op \in IF l.what = "forget undone" THEN manLog ELSE opLog

\* The line a superseded document owes its state to.
LastSuperseded(d) ==
    CHOOSE l \in d.lines :
        /\ l.what = "superseded"
        /\ \A m \in d.lines : m.what = "superseded" => m.op <= l.op

\* No record is hidden without an approval that says so: wherever an approval
\* stops or dies, the proposal was written before its first target
\* (proposals.ts:465).
SupersededIsApproved ==
    ~overlap =>
        \A t \in Targets : doc[t].status = "superseded" =>
            LET l == LastSuperseded(doc[t]) IN
            /\ \E m \in doc[t].lines : m.what = "superseded"
            /\ \E m \in doc[l.by].lines : m.what = "approved" /\ m.op = l.op

\* A proposal marked as undone hides nothing any more, however often the undo
\* was interrupted and repeated (proposals.ts:692).
UndoneHidesNothing ==
    ~overlap =>
        \A p \in Proposals : HasLine(doc[p], "undone", p) =>
            \A t \in Targets : doc[t].status = "superseded" => LastSuperseded(doc[t]).by # p

\* A proposal is decided once: it is never both approved and rejected
\* (proposals.ts:450, :561).
DecidedOnce ==
    ~overlap =>
        \A p \in Proposals : ~ (HasLine(doc[p], "approved", p) /\ HasLine(doc[p], "rejected", p))

\* What commands leave behind, finished or not: each write is logged, and what
\* hides a record is an approval that stands.
ProposalSafety ==
    TypeOK /\ OpsAreLogged /\ SupersededIsApproved /\ UndoneHidesNothing /\ DecidedOnce

\* History is never erased: every write of a command keeps the lines that the
\* document has (proposals.ts:26).
KeepsHistory == ~overlap => \A d \in Docs : doc[d].lines \subseteq doc'[d].lines
NothingErased == [][KeepsHistory]_vars

(************************* what does not hold ********************************)

\* A forgotten record is brought back by forget-undo only (manual-ops.ts:497:
\* forgotten records stay out of retrieval regardless).  It is not so: a
\* transition of a proposal that names the record writes it without its mark.
ForgottenStays ==
    [][\A t \in Targets : doc[t].forgotten /\ ~doc'[t].forgotten =>
          \E a \in Actors : call[a].kind = "unforget"]_vars

\* An undo brings back only what its own proposal hides (proposals.ts:12).  It
\* is not so: an old line of the proposal is enough, and after an undo that
\* stopped half way another proposal may have superseded the record since.
RestoresOwn ==
    [][\A t \in Targets : doc[t].status = "superseded" /\ doc'[t].status = "active" =>
          \A a \in Actors : call[a].kind = "undo" /\ ~overlap =>
              LastSuperseded(doc[t]).by = call[a].path]_vars

\* An approval that stopped half way is completed by approving again
\* (proposals.ts:399, :513).  It is not so: the second approval finds the
\* proposal active and refuses at the first target that is not superseded.
ApproveCompletes ==
    [][\A a \in Actors :
          (/\ ~overlap /\ call[a].at = "replay" /\ call'[a] = Idle
           /\ faults' = faults) =>
              HasLine(doc[At(call[a])], "superseded", call[a].path)]_vars
=============================================================================
