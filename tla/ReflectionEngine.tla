-------------------------- MODULE ReflectionEngine --------------------------
(***************************************************************************)
(* From accepted observation records to reflections and merge proposals:   *)
(* model of observation/reflection.ts with the parts of observation/       *)
(* sender.ts and backend/adapter.ts that deliver its jobs.                 *)
(*                                                                         *)
(* The engine keeps the records it has not summarised yet, the run it is   *)
(* in, and registries of what it has seen, summarised and given up; the    *)
(* whole is saved to reflection-state.json after every change.  One thread *)
(* runs it: a step ends where the model is asked.  Enqueueing the jobs of  *)
(* an answer and saving the state are two steps, between which nothing but *)
(* the end of the process can fall.                                        *)
(***************************************************************************)
EXTENDS Naturals, Sequences, FiniteSets

CONSTANTS Records, NoRun,
          Large,         \* records that exceed the input budget on their own
          Room,          \* records of a prompt that fits the input budget
          MinObservations, SeenCap, ProcessedCap, MaxAttempts,
          MaxNotes,      \* bound: notifications of an accepted record
          MaxStarts,     \* bound: runs, each with its own startedAt
          MaxFaults      \* bound: failing writes, and restarts in mid-run

ASSUME EngineAssumption ==
    /\ Large \subseteq Records
    /\ {Room, MinObservations, SeenCap, ProcessedCap, MaxAttempts} \subseteq Nat \ {0}
    /\ {MaxNotes, MaxStarts, MaxFaults} \subseteq Nat

Sets == SUBSET Records
Run == [set : Sets, started : 1..MaxStarts, attempts : Nat, cooling : BOOLEAN,
        halved : BOOLEAN]

ASSUME NoRunAssumption == NoRun \notin Run

\* A queued job: the reflection of a set, or the proposal to merge "group".
\* "groups" is history: the duplicates that came in the same answer.
Job == [kind : {"reflection", "proposal"}, set : Sets, group : Sets,
        started : 1..MaxStarts, version : {0, 1, 2}, halved : BOOLEAN,
        groups : SUBSET Sets, status : {"pending", "stored", "refused"}]

VARIABLES
    st,       \* the engine's state in memory
    file,     \* reflection-state.json
    asked,    \* the records the model is asked about; <<>>: no call is out
    settling, \* the jobs of an answer are enqueued, the state is not saved yet
    jobs,     \* the engine's jobs in the outbox, oldest first
    cloud,    \* the documents they have become
    starts, notes, faults,
    \* history: records that have been on disk, records given up, a save has
    \* failed, a run was started over, a record was noted again after the seen
    \* registry had forgotten it, the registry of processed sets has forgotten
    noted, parked, unsaved, rerun, again, forgot

eng == <<st, file, asked, settling>>
hist == <<noted, parked, unsaved, rerun, again, forgot>>
vars == <<eng, jobs, cloud, starts, notes, faults, hist>>

Empty == [pending |-> <<>>, seen |-> <<>>, processed |-> <<>>, skipped |-> <<>>,
          running |-> NoRun]

Init ==
    /\ st = Empty /\ file = Empty /\ asked = <<>> /\ settling = FALSE
    /\ jobs = <<>> /\ cloud = {}
    /\ starts = 0 /\ notes = 0 /\ faults = 0
    /\ noted = {} /\ parked = {}
    /\ unsaved = FALSE /\ rerun = FALSE /\ again = FALSE /\ forgot = FALSE

(************************* helpers *******************************************)

Elems(s) == {s[i] : i \in 1..Len(s)}
\* Those elements of s that are in S, or not, in the order of s.
Within(s, S) ==
    LET picked[n \in 0..Len(s)] ==
            IF n = 0 THEN <<>>
            ELSE IF s[n] \in S THEN Append(picked[n - 1], s[n]) ELSE picked[n - 1]
    IN  picked[Len(s)]
Without(s, S) == Within(s, Elems(s) \ S)
\* The newest n of a registry.
Newest(s, n) == IF Len(s) > n THEN SubSeq(s, Len(s) - n + 1, Len(s)) ELSE s
Fits(s) == Len(s) <= Room /\ Elems(s) \cap Large = {}

\* Nothing else of this thread runs while an answer is being settled.
Free == ~settling

(************************* saving ********************************************)

\* The state becomes s; its save succeeds.
SaveOk(s) ==
    /\ st' = s /\ file' = s
    /\ noted' = noted \cup Elems(s.pending)
    /\ UNCHANGED <<unsaved, faults>>
\* The state becomes s; its save throws, before the rename or after it.
SaveThrows(s) ==
    /\ faults < MaxFaults /\ faults' = faults + 1
    /\ st' = s /\ file' \in {file, s}
    /\ noted' = noted \cup Elems(file'.pending)
    /\ unsaved' = TRUE

(************************* intake ********************************************)

\* An accepted record is announced; one that was seen is ignored.
NoteAccepted(r) ==
    /\ Free /\ notes < MaxNotes /\ r \notin Elems(st.seen)
    /\ notes' = notes + 1
    /\ again' = (again \/ r \in noted)
    /\ LET s == [st EXCEPT !.seen = Newest(Append(@, r), SeenCap),
                           !.pending = Append(@, r)]
       IN  SaveOk(s) \/ SaveThrows(s)
    /\ UNCHANGED <<asked, settling, jobs, cloud, starts, parked, rerun, forgot>>

(************************* runs **********************************************)

NewRun(s, halved) ==
    [set |-> Elems(s), started |-> starts + 1, attempts |-> 0, cooling |-> FALSE,
     halved |-> halved]

\* Nothing is running: the pending records are a new set, unless they were
\* summarised before.  The run is saved before the model is asked.
\* Mutant: a set that was summarised is run again.
StartUnguarded(trigger) ==
    /\ Free /\ asked = <<>> /\ st.running = NoRun /\ st.pending # <<>>
    /\ trigger = "manual" \/ Len(st.pending) >= MinObservations
    /\ starts < MaxStarts /\ starts' = starts + 1
    /\ LET s == [st EXCEPT !.running = NewRun(st.pending, FALSE)] IN
          \/ SaveOk(s) /\ asked' = st.pending
          \/ SaveThrows(s) /\ asked' = <<>>
    /\ UNCHANGED <<settling, jobs, cloud, notes, parked, rerun, again, forgot>>
Start(trigger) ==
    /\ Free /\ asked = <<>> /\ st.running = NoRun /\ st.pending # <<>>
    /\ trigger = "manual" \/ Len(st.pending) >= MinObservations
    /\ IF Elems(st.pending) \in Elems(st.processed)
       THEN LET s == [st EXCEPT !.pending = <<>>] IN
            /\ SaveOk(s) \/ SaveThrows(s)
            /\ UNCHANGED <<asked, starts>>
       ELSE LET s == [st EXCEPT !.running = NewRun(st.pending, FALSE)] IN
            /\ starts < MaxStarts /\ starts' = starts + 1
            /\ \/ SaveOk(s) /\ asked' = st.pending
               \/ SaveThrows(s) /\ asked' = <<>>
    /\ UNCHANGED <<settling, jobs, cloud, notes, parked, rerun, again, forgot>>

\* A run is left over from a failed attempt or from before a restart: it goes
\* on under its own set and startedAt.
Resume(trigger) ==
    /\ Free /\ asked = <<>> /\ st.running # NoRun
    /\ trigger = "manual" \/ ~st.running.cooling
    /\ asked' = Within(st.pending, st.running.set)
    /\ UNCHANGED <<st, file, settling, jobs, cloud, starts, notes, faults, hist>>

\* The time of the next attempt comes.
BackoffElapses ==
    /\ Free /\ st.running # NoRun /\ st.running.cooling
    /\ st' = [st EXCEPT !.running.cooling = FALSE]
    /\ file' = IF file.running = NoRun THEN file
               ELSE [file EXCEPT !.running.cooling = FALSE]
    /\ UNCHANGED <<asked, settling, jobs, cloud, starts, notes, faults, hist>>

\* The set does not fit: its first half is run instead, as a run of its own.
\* The registry of processed sets is not asked again.
Halve ==
    LET head == SubSeq(asked, 1, (Len(asked) + 1) \div 2)
        s == [st EXCEPT !.running = [NewRun(head, TRUE) EXCEPT !.cooling = st.running.cooling]]
    IN
    /\ Free /\ Len(asked) > 1 /\ ~Fits(asked)
    /\ starts < MaxStarts /\ starts' = starts + 1
    /\ \/ SaveOk(s) /\ asked' = head
       \/ SaveThrows(s) /\ asked' = <<>>
    /\ UNCHANGED <<settling, jobs, cloud, notes, parked, rerun, again, forgot>>

\* State s after one more failed attempt of the run: a pause, or after the
\* last one the set is given up.
\* Mutant: a set that is given up is not remembered as such.
ArmRetrySilent(s, run) ==
    IF run.attempts + 1 >= MaxAttempts
    THEN [s EXCEPT !.pending = Without(@, run.set), !.running = NoRun]
    ELSE IF s.running = NoRun THEN s
    ELSE [s EXCEPT !.running.attempts = @ + 1, !.running.cooling = TRUE]
ArmRetry(s, run) ==
    IF run.attempts + 1 >= MaxAttempts
    THEN [s EXCEPT !.skipped = Newest(Append(@, run.set), ProcessedCap),
                   !.pending = Without(@, run.set), !.running = NoRun]
    ELSE IF s.running = NoRun THEN s
    ELSE [s EXCEPT !.running.attempts = @ + 1, !.running.cooling = TRUE]

\* A call for a set that fits may fail all the same: no credential, private
\* mode before it or during it, its deadline, an outage, another model than
\* the configured one, an answer that does not validate.
CallMayFail == Fits(asked)

\* The attempt fails: the call does, a statement cannot be redacted, or the
\* set is one record that exceeds the budget.
AttemptFails ==
    LET s == ArmRetry(st, st.running) IN
    /\ Free /\ asked # <<>> /\ (CallMayFail \/ Len(asked) = 1)
    /\ SaveOk(s) \/ SaveThrows(s)
    /\ asked' = <<>>
    /\ parked' = IF s.skipped = st.skipped THEN parked ELSE parked \cup st.running.set
    /\ UNCHANGED <<settling, jobs, cloud, starts, notes, rerun, again, forgot>>

\* The answers that validate: duplicates are groups of two or more records
\* that were supplied.
Answers(set) == {{}} \cup {{g} : g \in {h \in SUBSET set : Cardinality(h) >= 2}}

JobsOf(run, groups, version) ==
    LET job(kind, g, v) ==
            [kind |-> kind, set |-> run.set, group |-> g, started |-> run.started,
             version |-> v, halved |-> run.halved, groups |-> groups,
             status |-> "pending"]
        proposals == [i \in 1..Cardinality(groups) |->
                        job("proposal", CHOOSE g \in groups : TRUE, 0)]
    IN <<job("reflection", {}, version)>> \o proposals

\* An answer is accepted: its jobs are enqueued, the reflection first.  If one
\* is refused, the set stays running and the rest is not tried.
AcceptResult ==
    /\ Free /\ asked # <<>> /\ Fits(asked)
    /\ \E groups \in Answers(Elems(asked)), version \in {1, 2} :
        LET new == JobsOf(st.running, groups, version) IN
        \/ /\ jobs' = jobs \o new
           /\ settling' = TRUE
           /\ UNCHANGED <<asked, faults, rerun>>
        \/ \E k \in 0..(Len(new) - 1) :
              /\ faults < MaxFaults /\ faults' = faults + 1
              /\ jobs' = jobs \o SubSeq(new, 1, k)
              /\ asked' = <<>> /\ rerun' = TRUE
              /\ UNCHANGED settling
    /\ UNCHANGED <<st, file, cloud, starts, notes, noted, parked, unsaved, again, forgot>>

\* The set is summarised: its records leave the pending ones.  When the save
\* throws, the attempt counts as failed although its jobs are enqueued.
Settled ==
    [st EXCEPT !.processed = Newest(Append(@, st.running.set), ProcessedCap),
               !.pending = Without(@, st.running.set),
               !.running = NoRun]
Settle ==
    LET late == ArmRetry(Settled, st.running) IN
    /\ settling /\ settling' = FALSE /\ asked' = <<>>
    /\ forgot' = (forgot \/ Len(st.processed) = ProcessedCap)
    /\ \/ SaveOk(Settled)
       \/ /\ faults < MaxFaults /\ faults' = faults + 1
          /\ st' = late /\ file' \in {late, Settled, file}
          /\ noted' = noted \cup Elems(file'.pending)
          /\ unsaved' = TRUE
    /\ UNCHANGED <<jobs, cloud, starts, notes, parked, rerun, again>>

(************************* delivery ******************************************)

\* The path of a job's document: the set's or the group's identity.
Path(j) == <<j.kind, IF j.kind = "reflection" THEN j.set ELSE j.group>>
Body(j) == <<j.started, j.version>>

\* The worker delivers the oldest job.  A path that is free is written; the
\* same content is a replay, any other a conflict: the job is quarantined.
Deliver ==
    \E i \in 1..Len(jobs) :
        LET j == jobs[i]  there == {d \in cloud : d.path = Path(j)} IN
        /\ Free
        /\ j.status = "pending" /\ \A k \in 1..(i - 1) : jobs[k].status # "pending"
        /\ \/ /\ there = {}
              /\ cloud' = cloud \cup {[path |-> Path(j), body |-> Body(j)]}
              /\ jobs' = [jobs EXCEPT ![i].status = "stored"]
           \/ /\ there # {}
              /\ jobs' = [jobs EXCEPT ![i].status =
                    IF \E d \in there : d.body = Body(j) THEN "stored" ELSE "refused"]
              /\ UNCHANGED cloud
        /\ UNCHANGED <<eng, starts, notes, faults, hist>>

(************************* restart *******************************************)

\* The session ends, or the process dies: the next engine reads the file.
Restart ==
    /\ st # file \/ asked # <<>> \/ settling
    /\ faults < MaxFaults /\ faults' = faults + 1
    /\ st' = file /\ asked' = <<>> /\ settling' = FALSE
    /\ rerun' = (rerun \/ settling)
    /\ UNCHANGED <<file, jobs, cloud, starts, notes, noted, parked, unsaved, again, forgot>>

Next ==
    \/ \E r \in Records : NoteAccepted(r)
    \/ \E trigger \in {"auto", "manual"} : Start(trigger) \/ Resume(trigger)
    \/ BackoffElapses \/ Halve \/ AttemptFails \/ AcceptResult \/ Settle
    \/ Deliver \/ Restart

Spec == Init /\ [][Next]_vars

(************************* properties ****************************************)

State == [pending : Seq(Records), seen : Seq(Records), processed : Seq(Sets),
          skipped : Seq(Sets), running : Run \cup {NoRun}]

\* State, file, jobs and documents keep their types (reflection.ts:833).
TypeOK ==
    /\ st \in State /\ file \in State
    /\ asked \in Seq(Records) /\ settling \in BOOLEAN
    /\ jobs \in Seq(Job)
    /\ cloud \subseteq [path : {"reflection", "proposal"} \X Sets,
                        body : (1..MaxStarts) \X {0, 1, 2}]
    /\ starts \in 0..MaxStarts /\ notes \in 0..MaxNotes /\ faults \in 0..MaxFaults
    /\ noted \subseteq Records /\ parked \subseteq Records
    /\ {unsaved, rerun, again, forgot} \subseteq BOOLEAN

Reflections == {j \in Elems(jobs) : j.kind = "reflection"}

\* A record that has reached the state file is pending there, summarised by a
\* job, or visibly given up, whatever fails and whenever the process dies
\* (reflection.ts:1158-1163).
NotedNeverLost ==
    \A r \in noted :
        \/ r \in Elems(file.pending)
        \/ \E j \in Reflections : r \in j.set
        \/ r \in parked

\* The records the model is asked about are pending, and they are those of the
\* run: nothing takes a record away from under a run (reflection.ts:1173).
AskedIsPending ==
    asked # <<>> => /\ Elems(asked) \subseteq Elems(st.pending)
                    /\ st.running # NoRun /\ Elems(asked) = st.running.set

\* A set that counts as processed has its reflection and all proposals of the
\* same answer in the outbox: acceptance is never partial (reflection.ts:1285).
ProcessedIsWhole ==
    \A s \in Elems(st.processed) :
        \E j \in Reflections :
            /\ j.set = s
            /\ \A g \in j.groups : \E k \in Elems(jobs) :
                  k.kind = "proposal" /\ k.group = g /\ k.set = s

\* A record is summarised in one set only, and a set under one startedAt: a
\* run that a restart finds is carried on as it was.  Not so after a save that
\* failed, or when a record comes back that the registry has forgotten
\* (reflection.ts:1150).
SummarisedOnce ==
    ~unsaved /\ ~again =>
        \A j, k \in Reflections :
            /\ j.set = k.set \/ j.set \cap k.set = {}
            /\ j.set = k.set => j.started = k.started

\* A set that comes back is not summarised under a second startedAt, as long
\* as the registry of processed sets goes back far enough, the set is not one
\* half of a larger one, and no run was carried out twice (reflection.ts:1134).
NoSecondSummary ==
    ~unsaved /\ ~forgot /\ ~rerun =>
        \A j, k \in Reflections :
            j.set = k.set /\ ~j.halved /\ ~k.halved => j.started = k.started

\* A job is quarantined for a conflict only if a run was carried out twice or
\* a record came back: its path is its own (reflection.ts:1329, adapter.ts:236).
NoNeedlessConflict ==
    ~unsaved /\ ~again /\ ~rerun => \A j \in Elems(jobs) : j.status # "refused"

\* A set is not both summarised and given up: its status says what became of
\* it (reflection.ts:1251), unless a save failed or a run was carried out twice.
OneFate ==
    ~unsaved /\ ~rerun /\ ~again => \A j \in Reflections : j.set \cap parked = {}

\* From record to reflection: none is lost on the way, none is summarised in
\* part, or twice, or in vain.
ReflectionSafety ==
    TypeOK /\ NotedNeverLost /\ AskedIsPending /\ ProcessedIsWhole /\ SummarisedOnce
    /\ NoNeedlessConflict /\ OneFate

(************************* what does not hold ********************************)

\* A run that is carried out twice gives the same content (reflection.ts:1106:
\* "byte-identical replay at send time").  It is not so: the model is asked
\* again, and its second summary conflicts with the first.
ReplayIsIdentical ==
    ~unsaved /\ ~again => \A j \in Reflections : j.status # "refused"
=============================================================================
