--------------------------- MODULE TickCoalescing ---------------------------
(***************************************************************************)
(* tick() of the outbox worker (src/outbox/worker.ts): callers that arrive *)
(* while a run of the worker is queued or executing do not queue another   *)
(* one; they wait, and one follow-up run is started for all of them.       *)
(*                                                                         *)
(* A run is two steps, its snapshot of the pending jobs and its end; any   *)
(* number of calls fall between.  OutboxDelivery looks inside a run.  The  *)
(* session drops the promise of every call it makes (session.ts:290); such *)
(* a call is a Poke.                                                       *)
(***************************************************************************)
EXTENDS Naturals

CONSTANTS
    Callers,    \* who may be waiting for a tick() of theirs at one time
    RunMayThrow \* may runTick() reject?

ASSUME TickAssumption == RunMayThrow \in BOOLEAN

VARIABLES
    queued,  \* this.queued
    wakeup,  \* this.wakeup
    waiters, \* callers whose promise sits in this.waiters
    first,   \* callers whose promise is the run's own (at most one)
    runs,    \* runTick executions on the chain, not begun yet
    running, \* runTick executions begun and not ended
    covered, \* callers whose call came before the running run's snapshot
    ended    \* runs that ended while a waiter was waiting, 0..2

vars == <<queued, wakeup, waiters, first, runs, running, covered, ended>>

Waiting == waiters \cup first

TypeOK ==
    /\ queued \in BOOLEAN /\ wakeup \in BOOLEAN
    /\ waiters \subseteq Callers /\ first \subseteq Callers /\ covered \subseteq Callers
    /\ runs \in Nat /\ running \in Nat
    /\ ended \in [Callers -> 0..2]

Init ==
    /\ queued = FALSE /\ wakeup = FALSE
    /\ waiters = {} /\ first = {} /\ covered = {}
    /\ runs = 0 /\ running = 0
    /\ ended = [c \in Callers |-> 0]

\* A call that starts a run: the chain gets one execution more.
Start(c) == queued' = TRUE /\ runs' = runs + 1 /\ first' = c

\* A call that finds a run queued or executing asks for a follow-up and waits.
Coalesce(c) == /\ wakeup' = TRUE /\ waiters' = waiters \cup c
               /\ UNCHANGED <<queued, first, runs>>

CallNoFlag(c) == \* mutant: the late caller does not ask for a follow-up
    IF queued THEN waiters' = waiters \cup c /\ UNCHANGED <<queued, wakeup, first, runs>>
    ELSE Start(c) /\ UNCHANGED <<wakeup, waiters>>
CallStarts(c) == Start(first \cup c) /\ UNCHANGED <<wakeup, waiters>> \* mutant
Call(c) == IF queued THEN Coalesce(c) ELSE Start(c) /\ UNCHANGED <<wakeup, waiters>>

Tick(c) ==
    /\ c \notin Waiting
    /\ Call({c})
    /\ ended' = [ended EXCEPT ![c] = 0]
    /\ UNCHANGED <<running, covered>>

Poke == Call({}) /\ UNCHANGED <<running, covered, ended>>

\* The chain lets one run begin when the one before has settled.
Begin ==
    /\ runs > 0 /\ running = 0
    /\ runs' = runs - 1 /\ running' = 1
    /\ covered' = Waiting
    /\ UNCHANGED <<queued, wakeup, waiters, first, ended>>

RunEnds == running = 1 /\ running' = 0 /\ UNCHANGED covered

\* finishTick(): a follow-up that keeps the waiters, or every waiter resolves.
FinishForgets == \* mutant: the follow-up is not started
    /\ RunEnds
    /\ ended' = [c \in Callers |-> IF c \in waiters /\ ended[c] < 2 THEN ended[c] + 1
                                    ELSE ended[c]]
    /\ queued' = FALSE /\ first' = {} /\ UNCHANGED runs
    /\ IF wakeup THEN wakeup' = FALSE /\ UNCHANGED waiters
       ELSE waiters' = {} /\ UNCHANGED wakeup
Finish ==
    /\ RunEnds
    /\ ended' = [c \in Callers |-> IF c \in waiters /\ ended[c] < 2 THEN ended[c] + 1
                                    ELSE ended[c]]
    /\ IF wakeup
       THEN wakeup' = FALSE /\ Start({}) /\ UNCHANGED waiters
       ELSE queued' = FALSE /\ waiters' = {} /\ first' = {} /\ UNCHANGED <<wakeup, runs>>

\* failTick(): every waiter rejects, and no follow-up is started.
FailKeepsQueued == \* mutant: queued is not reset
    /\ RunMayThrow /\ RunEnds
    /\ wakeup' = FALSE /\ waiters' = {} /\ first' = {}
    /\ UNCHANGED <<queued, runs, ended>>
Fail ==
    /\ RunMayThrow /\ RunEnds
    /\ queued' = FALSE /\ wakeup' = FALSE /\ waiters' = {} /\ first' = {}
    /\ UNCHANGED <<runs, ended>>

Next == (\E c \in Callers : Tick(c)) \/ Poke \/ Begin \/ Finish \/ Fail

Spec == Init /\ [][Next]_vars

\* A run that is queued begins, and one that has begun ends.
Fairness == WF_vars(Begin) /\ WF_vars(Finish \/ Fail)
LiveSpec == Spec /\ Fairness

(****************************** properties *********************************)

\* A call resolves only after a run that took its snapshot later than the
\* call (worker.ts:163-168: "no lost wakeup").  A rejected call promises nothing.
ResolvedIsCovered ==
    [][Finish => \A c \in Callers : c \in Waiting /\ c \notin Waiting' => c \in covered]_vars

\* One run at a time, and never more than one behind it (worker.ts:147-155,
\* 168-169: "at most one queued execution plus one follow-up per cycle").
OneRun == runs + running <= 1

\* Whoever waits has a run to wait for, and a quiet worker accepts the next
\* call (worker.ts:210-230: both ends settle or hand over their waiters).
WaitersHaveRun == (Waiting # {} \/ queued) => runs + running >= 1

\* Once no more calls arrive in the middle of runs, everybody who waits is
\* settled (worker.ts:210-221).
EveryCallSettles ==
    \A c \in Callers : <>[]~wakeup => (c \in Waiting ~> c \notin Waiting)

\* "coalesced callers settle with that follow-up's summary" (worker.ts:167):
\* no waiter sees more than the run it arrived in and one follow-up end.
SettlesWithFollowUp == \A c \in waiters : ended[c] < 2
=============================================================================
