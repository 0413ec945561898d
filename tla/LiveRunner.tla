----------------------------- MODULE LiveRunner -----------------------------
(***************************************************************************)
(* runLiveSuite of src/src/backend/live/runner.ts: the acceptance run that *)
(* creates, reads, updates, finds and deletes one record on a backend it   *)
(* does not trust, and then cleans up what its manifest names.             *)
(*                                                                         *)
(* A call of the adapter is one step, its retries included.  A call fails  *)
(* when its request times out or the run's deadline aborts it; a failed    *)
(* write or delete may have been applied, and a write that was sent twice  *)
(* or given up may still land later (one at a time here).  The backend may *)
(* also answer without doing what it was asked.                            *)
(***************************************************************************)
EXTENDS Naturals

CONSTANT MaxTrouble \* bound: failed calls, untrue answers, late writes

VARIABLES
  step,       \* the call the run is at
  tries,      \* calls made for the page of the changes feed under way
  deadline,   \* has the run's timer fired?
  record,     \* is the run's record on the backend?
  pending,    \* may a write of it still land?
  manifest,   \* does the manifest name it?
  passed,     \* steps reported ok
  degraded,   \* is a degradation disclosed?
  reason,     \* why the suite stopped: "none" while it has not
  report,     \* the outcome and what cleanup says of the record
  trouble,    \* trouble so far
  blame       \* history: what the report cannot know

vars == <<step, tries, deadline, record, pending, manifest, passed, degraded,
          reason, report, trouble, blame>>

NoReport == [outcome |-> "none", cleanup |-> "none"]

\* checkPreconditions() passes, or the run is over before any call.
Init ==
  /\ step \in {"discover", "done"}
  /\ report = IF step = "done" THEN [NoReport EXCEPT !.outcome = "setup-blocked"]
              ELSE NoReport
  /\ tries = 0 /\ deadline = FALSE /\ degraded = FALSE
  /\ record = FALSE /\ pending = FALSE /\ manifest = FALSE
  /\ passed = {} /\ reason = "none" /\ trouble = 0 /\ blame = {}

Trouble == trouble < MaxTrouble /\ trouble' = trouble + 1
Calm    == UNCHANGED trouble
backend == <<record, pending>>

\* The suite goes on, or gives up and cleans up.
Goes(next, names) == /\ step' = next /\ passed' = passed \cup names
                     /\ UNCHANGED reason
Stops(why) == step' = "cleanup" /\ reason' = why /\ UNCHANGED passed

\* A call the deadline has aborted fails for nothing; another costs trouble.
Fails == IF deadline THEN Calm ELSE Trouble
FailsWith(why) ==
  /\ Stops(why)
  /\ IF deadline THEN why = "error" /\ Calm ELSE Trouble

\* What a write or a delete that was not answered may have done.
MayHaveSet(value) ==
  /\ record' \in {record, value}
  /\ pending' \in IF value THEN BOOLEAN ELSE {pending}

-----------------------------------------------------------------------------
(* The suite.                                                              *)

Deadline ==
  /\ step \notin {"cleanup", "check", "done"} /\ ~deadline
  /\ deadline' = TRUE
  /\ UNCHANGED <<step, tries, backend, manifest, passed, degraded, reason,
                 report, trouble, blame>>

LateWrite ==
  /\ pending /\ pending' = FALSE /\ record' = TRUE
  /\ blame' = IF step \in {"check", "done"} \/ "delete" \in passed
              THEN blame \cup {"late"} ELSE blame
  /\ UNCHANGED <<step, tries, deadline, manifest, passed, degraded, reason,
                 report, trouble>>

Discover ==
  /\ step = "discover"
  /\ \/ ~deadline /\ Goes("route", {"discovery"}) /\ Calm
     \/ ~deadline /\ Stops("gap") /\ Calm
     \/ \E why \in {"error", "auth"} : FailsWith(why)
  /\ UNCHANGED <<tries, deadline, backend, manifest, degraded, report, blame>>

\* The sentinel is never there unless the backend routes the run elsewhere.
Route ==
  /\ step = "route"
  /\ \/ ~deadline /\ Goes("create", {"routing"}) /\ Calm
     \/ ~deadline /\ Stops("error") /\ Trouble
     \/ \E why \in {"error", "auth"} : FailsWith(why)
  /\ UNCHANGED <<tries, deadline, backend, manifest, degraded, report, blame>>

\* The record is on the manifest once its creation was answered.
Create ==
  /\ step = "create"
  /\ \/ /\ ~deadline /\ Goes("readBack", {}) /\ manifest' = TRUE
        /\ \/ record' = TRUE /\ Calm /\ UNCHANGED pending
           \/ record' \in BOOLEAN /\ pending' \in BOOLEAN /\ Trouble
        /\ UNCHANGED blame
     \/ /\ \E why \in {"error", "auth"} : FailsWith(why)
        /\ MayHaveSet(TRUE) /\ UNCHANGED manifest
        /\ blame' = IF record' \/ pending' THEN blame \cup {"unowned"} ELSE blame
  /\ UNCHANGED <<tries, deadline, degraded, report>>

ReadBack ==
  /\ step = "readBack"
  /\ \/ ~deadline /\ record /\ Goes("update", {}) /\ Calm
     \/ ~deadline /\ ~record /\ Stops("error") /\ Calm
     \/ \E why \in {"error", "auth"} : FailsWith(why)
  /\ UNCHANGED <<tries, deadline, backend, manifest, degraded, report, blame>>

\* An answer without an ETag fails the step.
Update ==
  /\ step = "update"
  /\ \/ /\ ~deadline /\ Goes("search", {}) /\ record' = TRUE
        /\ \/ Calm /\ UNCHANGED pending
           \/ Trouble /\ pending' = TRUE
     \/ ~deadline /\ Stops("error") /\ Trouble /\ record' = TRUE /\ UNCHANGED pending
     \/ /\ \E why \in {"error", "auth"} : FailsWith(why)
        /\ MayHaveSet(TRUE)
  /\ UNCHANGED <<tries, deadline, manifest, degraded, report, blame>>

\* A search that does not find the record yet passes all the same.
Search ==
  /\ step = "search"
  /\ \/ ~deadline /\ Goes("feed", {"crud"}) /\ Calm
     \/ \E why \in {"error", "auth"} : FailsWith(why)
  /\ UNCHANGED <<tries, deadline, backend, manifest, degraded, report, blame>>

\* The feed is read twice, each time with one retry.  One that fails or does not
\* report the record is disclosed as a degradation, one that reports it must
\* replay alike.
Feed ==
  /\ step = "feed"
  /\ \/ ~deadline /\ tries < 2 /\ tries' = 2 /\ Calm
        /\ UNCHANGED <<step, passed, reason, degraded>>
     \/ ~deadline /\ tries >= 2 /\ tries' = 0
        /\ \/ Goes("hybrid", {"feed"}) /\ Calm /\ UNCHANGED degraded
           \/ Goes("hybrid", {}) /\ Calm /\ degraded' = TRUE
           \/ Stops("error") /\ Trouble /\ UNCHANGED degraded
     \/ tries \in {0, 2} /\ tries' = tries + 1 /\ Fails
        /\ UNCHANGED <<step, passed, reason, degraded>>
     \/ tries \in {1, 3} /\ tries' = 0 /\ Fails
        /\ Goes("hybrid", {}) /\ degraded' = TRUE
  /\ UNCHANGED <<deadline, backend, manifest, report, blame>>

\* The index may lag behind: the record is found, or the step fails.
Hybrid ==
  /\ step = "hybrid"
  /\ \/ ~deadline /\ Goes("delete", {"hybrid"}) /\ Calm
     \/ ~deadline /\ Stops("error") /\ Calm
     \/ \E why \in {"error", "auth"} : FailsWith(why)
  /\ UNCHANGED <<tries, deadline, backend, manifest, degraded, report, blame>>

DeleteForgets == \* mutant: the manifest is cleared before the absence is seen
  /\ step = "delete"
  /\ \/ /\ ~deadline /\ Goes("absence", {}) /\ UNCHANGED pending
        /\ (record' = FALSE /\ Calm) \/ (record' = record /\ Trouble)
        /\ manifest' = FALSE
     \/ /\ \E why \in {"error", "auth"} : FailsWith(why)
        /\ MayHaveSet(FALSE) /\ UNCHANGED manifest
  /\ UNCHANGED <<tries, deadline, degraded, report, blame>>

Delete ==
  /\ step = "delete"
  /\ \/ /\ ~deadline /\ Goes("absence", {}) /\ UNCHANGED pending
        /\ (record' = FALSE /\ Calm) \/ (record' = record /\ Trouble)
     \/ \E why \in {"error", "auth"} : FailsWith(why) /\ MayHaveSet(FALSE)
  /\ UNCHANGED <<tries, deadline, manifest, degraded, report, blame>>

\* The record leaves the manifest when a read has seen it gone.
Absence ==
  /\ step = "absence"
  /\ \/ /\ ~deadline /\ ~record /\ Goes("cleanup", {"delete"}) /\ Calm
        /\ manifest' = FALSE
     \/ ~deadline /\ record /\ Stops("error") /\ Calm /\ UNCHANGED manifest
     \/ (\E why \in {"error", "auth"} : FailsWith(why)) /\ UNCHANGED manifest
  /\ UNCHANGED <<tries, deadline, backend, degraded, report, blame>>

-----------------------------------------------------------------------------
(* finish(): cleanup with a signal of its own, and the report.             *)

Outcome(cleanup) ==
  IF reason \in {"auth", "gap"} THEN "setup-blocked"
  ELSE IF reason = "error" \/ cleanup = "leftover" THEN "suite-failed-after-cleanup"
  ELSE IF degraded THEN "clean-pass-with-degradations" ELSE "clean-pass"

Reports(cleanup) ==
  /\ step' = "done"
  /\ report' = [outcome |-> Outcome(cleanup), cleanup |-> cleanup]

\* A delete that fails leaves the record over, even one that was gone already.
CleanupDelete ==
  /\ step = "cleanup"
  /\ \/ ~manifest /\ Reports("none") /\ Calm /\ UNCHANGED backend
     \/ /\ manifest /\ step' = "check" /\ UNCHANGED <<report, pending>>
        /\ (record' = FALSE /\ Calm) \/ (record' = record /\ Trouble)
     \/ /\ manifest /\ Reports("leftover")
        /\ \/ ~record /\ Calm /\ UNCHANGED backend
           \/ MayHaveSet(FALSE) /\ Trouble
  /\ UNCHANGED <<tries, deadline, manifest, passed, degraded, reason, blame>>

\* A read that fails, for whatever reason, counts as absence.
CleanupCheck ==
  /\ step = "check"
  /\ \/ Reports(IF record THEN "leftover" ELSE "deleted") /\ Calm
        /\ UNCHANGED blame
     \/ Reports("deleted") /\ Trouble
        /\ blame' = IF record THEN blame \cup {"unchecked"} ELSE blame
  /\ UNCHANGED <<tries, deadline, backend, manifest, passed, degraded, reason>>

Next ==
  \/ Deadline \/ LateWrite
  \/ Discover \/ Route \/ Create \/ ReadBack \/ Update \/ Search \/ Feed
  \/ Hybrid \/ Delete \/ Absence
  \/ CleanupDelete \/ CleanupCheck

Spec == Init /\ [][Next]_vars

-----------------------------------------------------------------------------
(* Properties.                                                             *)

Outcomes == {"clean-pass", "clean-pass-with-degradations",
             "suite-failed-after-cleanup", "setup-blocked"}

\* Type invariant of the run and its report.
RunnerTypeOK ==
  /\ step \in {"discover", "route", "create", "readBack", "update", "search",
               "feed", "hybrid", "delete", "absence", "cleanup", "check", "done"}
  /\ tries \in 0..3 /\ trouble \in 0..MaxTrouble
  /\ {deadline, record, pending, manifest, degraded} \subseteq BOOLEAN
  /\ passed \subseteq {"discovery", "routing", "crud", "feed", "hybrid", "delete"}
  /\ reason \in {"none", "error", "auth", "gap"}
  /\ report \in [outcome : Outcomes \cup {"none"},
                 cleanup : {"none", "deleted", "leftover"}]
  /\ (step = "done") = (report.outcome # "none")
  /\ blame \subseteq {"unowned", "late", "unchecked"}

\* A clean pass says what happened: every core step passed, the feed passed or
\* its degradation is disclosed, and nothing is left on the backend, whatever it
\* answered, unless a write landed late (runner.ts:478-517, 538-544).
CleanMeansClean ==
  report.outcome \in {"clean-pass", "clean-pass-with-degradations"} =>
    /\ {"discovery", "routing", "crud", "hybrid", "delete"} \subseteq passed
    /\ (report.outcome = "clean-pass") = ("feed" \in passed)
    /\ record => "late" \in blame

\* Leftovers are reported, never ignored (runner.ts:88): a record still on the
\* backend when the run is over is in the report, unless its creation was never
\* answered, a write landed late or the last read failed.
LeftIsReported ==
  step = "done" /\ record /\ blame = {} => report.cleanup = "leftover"

\* Cleanup works after the deadline (runner.ts:209-215): on a backend that
\* answers and does what it says, whenever the deadline fires, nothing is left
\* behind but what was aborted as it was created or landed late.
DeadlineLeavesNothing ==
  step = "done" /\ trouble = 0 /\ record => blame # {}

\* The report of a live run can be believed, whatever the backend and the deadline
\* did to the run.
RunnerSafety == RunnerTypeOK /\ CleanMeansClean /\ LeftIsReported /\ DeadlineLeavesNothing
=============================================================================
