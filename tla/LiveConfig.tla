----------------------------- MODULE LiveConfig -----------------------------
(***************************************************************************)
(* Private mode as a flag in a config file that several Pi processes read  *)
(* at every boundary and flip by a command: setPrivateModeInFile and the   *)
(* control surface (src/src/runtime/controls.ts), the live gate and its    *)
(* cancellation (src/src/privacy/live-gate.ts), the model call it guards   *)
(* (src/src/observation/model.ts), and what a session builds from the file *)
(* when it starts (src/src/runtime/session.ts, effectiveFeatures).         *)
(*                                                                         *)
(* A flip is synchronous: its process does nothing else until it is over.  *)
(* Another process may be anywhere in its own; both write the same         *)
(* temporary path, so a descriptor may outlive the name it was opened by.  *)
(***************************************************************************)
EXTENDS Naturals

CONSTANTS
    Pis,        \* processes that share the config file
    Features,   \* feature domains the file can switch on
    Edits,      \* bound: what an editor saves of what it could (Doc, Broken)
    MaxUpsets   \* bound: edits from outside, failing writes, killed processes

VARIABLES
    conf,   \* the config file
    tmp,    \* the temporary file, or NoFile
    flip,   \* each process's last flip of private mode
    runs,   \* features the running session was built with
    live,   \* a session is up
    last,   \* gate.lastObserved
    call,   \* the session's model call
    spoilt, \* history: an edit broke the file, or two flips overlapped
    upsets

paths  == <<conf, tmp>>
gate   == <<runs, live, last, call>>
vars   == <<paths, flip, gate, spoilt, upsets>>

\* "partial": valid only with the defaults merged in; "empty", "broken": not at all.
Doc == [form : {"ok", "partial"}, private : BOOLEAN, features : SUBSET Features]
NoDoc(form) == [form |-> form, private |-> FALSE, features |-> {}]
Empty  == NoDoc("empty")
Broken == NoDoc("broken")
NoFile == NoDoc("none")

BoundsAssumption == MaxUpsets \in Nat /\ Edits \subseteq Doc \cup {Broken}

\* readConfigLive: what cannot be loaded counts as private.
IsPrivate == conf \notin Doc \/ conf.private

\* A flip keeps what it read, where its descriptor points, whether anybody else
\* has touched the files since it read them, and at last what it told its user.
NoFlip == [at |-> "idle", want |-> FALSE, raw |-> Broken, fd |-> "none", alone |-> FALSE]
NoCall == [at |-> "none", again |-> FALSE]
Idle(p) == flip[p].at \in {"idle", "changed", "not changed"}
Writing(p) == flip[p].at \in {"opened", "written"}

Init ==
    /\ conf \in Doc /\ tmp = NoFile
    /\ flip = [p \in Pis |-> NoFlip]
    /\ runs = [p \in Pis |-> {}] /\ live = [p \in Pis |-> FALSE]
    /\ last = [p \in Pis |-> "unread"] /\ call = [p \in Pis |-> NoCall]
    /\ spoilt = FALSE /\ upsets = 0

Upset == upsets < MaxUpsets /\ upsets' = upsets + 1

-----------------------------------------------------------------------------
\* The gate.

\* observe: a transition to private aborts the call under way.
Observe(p, private) ==
    /\ last' = [last EXCEPT ![p] = IF private THEN "private" ELSE "public"]
    /\ call' = [call EXCEPT ![p].at =
                  IF private /\ last[p] # "private" /\ @ = "out" THEN "aborted" ELSE @]

\* isPrivate, holdWhilePrivate: the worker's tick, a boundary of the scheduler.
Boundary(p) ==
    /\ live[p] /\ Idle(p)
    /\ Observe(p, IsPrivate)
    /\ UNCHANGED <<paths, flip, runs, live, spoilt, upsets>>

\* assertModelCallAllowed before each attempt: nothing leaves in private mode.
Attempt(p, again) ==
    /\ last' = [last EXCEPT ![p] = IF IsPrivate THEN "private" ELSE "public"]
    /\ call' = [call EXCEPT ![p] = IF IsPrivate THEN NoCall ELSE [at |-> "out", again |-> again]]

\* A run of the observer asks the model, if its session has an extractor.
Ask(p) ==
    /\ live[p] /\ Idle(p) /\ "observation" \in runs[p] /\ call[p].at = "none"
    /\ Attempt(p, FALSE)
    /\ UNCHANGED <<paths, flip, runs, live, spoilt, upsets>>

\* A malformed answer is asked for once more; every other end is final: an
\* accepted answer, a provider's error, the deadline, the abort.
AnswerMalformed(p) ==
    /\ call[p].at = "out" /\ ~call[p].again /\ Idle(p)
    /\ Attempt(p, TRUE)
    /\ UNCHANGED <<paths, flip, runs, live, spoilt, upsets>>

CallEnds(p) ==
    /\ call[p].at # "none" /\ Idle(p)
    /\ call' = [call EXCEPT ![p] = NoCall]
    /\ UNCHANGED <<paths, flip, runs, live, last, spoilt, upsets>>

-----------------------------------------------------------------------------
\* Sessions.

EffectiveFeatures == IF IsPrivate THEN {} ELSE conf.features

\* The file of now decides what the session will ever have.
SessionStarts(p) ==
    /\ ~live[p] /\ Idle(p)
    /\ live' = [live EXCEPT ![p] = TRUE]
    /\ runs' = [runs EXCEPT ![p] = EffectiveFeatures]
    /\ UNCHANGED <<paths, flip, last, call, spoilt, upsets>>

\* The session is over, by session_shutdown or because the process is killed,
\* perhaps in the middle of a flip.  dispose drops the subscriptions: a call
\* under way at a shutdown is left to its deadline.
SessionEnds(p, killed) ==
    /\ live[p]
    /\ IF killed THEN Upset ELSE Idle(p) /\ UNCHANGED upsets
    /\ flip' = [flip EXCEPT ![p] = NoFlip]
    /\ live' = [live EXCEPT ![p] = FALSE] /\ runs' = [runs EXCEPT ![p] = {}]
    /\ last' = [last EXCEPT ![p] = "unread"] /\ call' = [call EXCEPT ![p] = NoCall]
    /\ UNCHANGED <<paths, spoilt>>

-----------------------------------------------------------------------------
\* The flip: /kiwifs-private-mode on | off.

Candidate(p) == [flip[p].raw EXCEPT !.private = flip[p].want]

\* Process p has touched a path: others cannot rely on what they read or said.
Disturbed(f) ==
    IF f.at \in {"idle", "changed", "not changed"} THEN NoFlip ELSE [f EXCEPT !.alone = FALSE]
Steps(p, f) == flip' = [q \in Pis |-> IF q = p THEN f ELSE Disturbed(flip[q])]

\* The raw file is parsed and, edited, validated without the defaults.
FlipReads(p, want) ==
    /\ live[p] /\ Idle(p)
    /\ flip' = [flip EXCEPT ![p] =
                  [at |-> IF conf.form = "ok" THEN "read" ELSE "not changed",
                   want |-> want, raw |-> conf, fd |-> "none", alone |-> TRUE]]
    /\ UNCHANGED <<paths, gate, spoilt, upsets>>

Overlaps(p) == \E q \in Pis \ {p} : Writing(q)

\* openSync(tmp, "w") truncates what is there, or makes a new file.
FlipOpens(p) ==
    /\ flip[p].at = "read"
    /\ tmp' = Empty
    /\ Steps(p, [flip[p] EXCEPT !.at = "opened", !.fd = "tmp"])
    /\ spoilt' = (spoilt \/ Overlaps(p))
    /\ UNCHANGED <<conf, gate, upsets>>

\* What a text leaves in a file that may hold another's, longer or shorter.
Over(old, new) == IF old \in {Empty, new} THEN {new} ELSE {new, Broken}

\* The descriptor may by now be the config file's, or nobody's.
FlipWrites(p) ==
    /\ flip[p].at = "opened"
    /\ tmp'  \in IF flip[p].fd = "tmp"  THEN Over(tmp, Candidate(p))  ELSE {tmp}
    /\ conf' \in IF flip[p].fd = "conf" THEN Over(conf, Candidate(p)) ELSE {conf}
    /\ Steps(p, [flip[p] EXCEPT !.at = "written"])
    /\ spoilt' = (spoilt \/ Overlaps(p))
    /\ UNCHANGED <<gate, upsets>>

\* Descriptors follow the file, not its name.
FlipRenames(p) ==
    /\ flip[p].at = "written" /\ tmp # NoFile
    /\ conf' = tmp /\ tmp' = NoFile
    /\ flip' = [q \in Pis |->
         IF q = p THEN [flip[p] EXCEPT !.at = "renamed", !.fd = "none"]
         ELSE [Disturbed(flip[q]) EXCEPT
                 !.fd = IF @ = "tmp" THEN "conf" ELSE IF @ = "conf" THEN "gone" ELSE @]]
    /\ UNCHANGED <<gate, spoilt, upsets>>

\* Mutant: the flip is left to the next boundary to find.
FlipIsLeft(p) ==
    /\ flip[p].at = "renamed"
    /\ flip' = [flip EXCEPT ![p].at = "changed"]
    /\ UNCHANGED <<paths, gate, spoilt, upsets>>

\* notifyPrivateTransition: the session's own gate reads the file at once.
FlipNotifies(p) ==
    /\ flip[p].at = "renamed"
    /\ Observe(p, IsPrivate)
    /\ flip' = [flip EXCEPT ![p].at = "changed"]
    /\ UNCHANGED <<paths, runs, live, spoilt, upsets>>

\* A write throws, or another process has taken the temporary file away.
FlipFails(p) ==
    /\ \/ flip[p].at \in {"read", "opened", "written"} /\ Upset
       \/ flip[p].at = "written" /\ tmp = NoFile /\ UNCHANGED upsets
    /\ flip' = [flip EXCEPT ![p].at = "not changed", ![p].fd = "none"]
    /\ UNCHANGED <<paths, gate, spoilt>>

\* An editor saves the file.
Edit(d) ==
    /\ Upset
    /\ conf' = d /\ flip' = [p \in Pis |-> Disturbed(flip[p])]
    /\ spoilt' = (spoilt \/ d = Broken)
    /\ UNCHANGED <<tmp, gate>>

Next ==
    \/ \E p \in Pis :
        \/ Boundary(p) \/ Ask(p) \/ AnswerMalformed(p) \/ CallEnds(p) \/ SessionStarts(p)
        \/ FlipOpens(p) \/ FlipWrites(p) \/ FlipRenames(p) \/ FlipNotifies(p) \/ FlipFails(p)
        \/ \E b \in BOOLEAN : FlipReads(p, b) \/ SessionEnds(p, b)
    \/ \E d \in Edits : Edit(d)

Spec == Init /\ [][Next]_vars

-----------------------------------------------------------------------------
\* The type invariant of the two files, the gates and the flips.
TypeOK ==
    /\ conf \in Doc \cup {Empty, Broken} /\ tmp \in Doc \cup {Empty, Broken, NoFile}
    /\ flip \in [Pis -> [at : {"idle", "read", "opened", "written", "renamed",
                               "changed", "not changed"},
                         want : BOOLEAN, raw : Doc \cup {Empty, Broken},
                         fd : {"none", "tmp", "conf", "gone"}, alone : BOOLEAN]]
    /\ runs \in [Pis -> SUBSET Features] /\ live \in [Pis -> BOOLEAN]
    /\ last \in [Pis -> {"unread", "public", "private"}]
    /\ call \in [Pis -> [at : {"none", "out", "aborted"}, again : BOOLEAN]]
    /\ spoilt \in BOOLEAN /\ upsets \in 0..MaxUpsets

\* live-gate.ts:140-165: a model call that is under way and not aborted belongs
\* to a session whose gate has seen no private mode since the call was let out.
OutMeansPublic == \A p \in Pis : call[p].at = "out" => live[p] /\ last[p] = "public"

\* controls.ts:126-131, index.ts:508-513: once the command has said that private
\* mode is on, no call of that session is under way and none starts, until
\* somebody else changes the file.
OnMeansQuiet ==
    \A p \in Pis : flip[p].at = "changed" /\ flip[p].want /\ flip[p].alone
                   => call[p].at # "out" /\ IsPrivate

\* controls.ts:37-43: the flip changes private mode and no other key, or, as its
\* answer says, nothing; a temporary file left by an earlier death included.
AnswerIsTrue ==
    \A p \in Pis : flip[p].alone =>
        /\ flip[p].at \in {"renamed", "changed"} => conf = Candidate(p)
        /\ flip[p].at = "not changed"           => conf = flip[p].raw

\* controls.ts:72-83: no reader ever meets a half-written file, whatever fails
\* and whoever dies, unless two flips overlap or the file was saved broken.
NeverTorn == ~spoilt => conf \in Doc

PrivacySafety == TypeOK /\ OutMeansPublic /\ OnMeansQuiet /\ AnswerIsTrue /\ NeverTorn

\* docs/configuration.md:34-42 and controls.ts:93: private mode is live in
\* every domain; when it is off, "gated features resume at their next cycle".  A
\* session that started in private mode was built without them.
OffResumes ==
    \A p \in Pis : live[p] /\ flip[p].at = "changed" /\ ~flip[p].want /\ flip[p].alone
                   => conf.features \subseteq runs[p]
=============================================================================
