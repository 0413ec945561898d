------------------------ MODULE TickCoalescingProofs ------------------------
(***************************************************************************)
(* One run at a time, nobody forgotten and no wakeup lost, for any callers *)
(* of tick().  The invariant says what this.queued and this.wakeup stand   *)
(* for: a run is queued or executing exactly when queued is set, nobody    *)
(* waits when it is not, and without a wakeup everybody who waits came     *)
(* before the run's snapshot.                                              *)
(***************************************************************************)
EXTENDS TickCoalescing, TLAPS

TicksInv ==
    /\ runs + running = IF queued THEN 1 ELSE 0
    /\ running <= 1
    /\ ~queued => Waiting = {} /\ ~wakeup
    /\ running = 1 => first \subseteq covered
    /\ running = 1 /\ ~wakeup => Waiting \subseteq covered

LEMMA TicksInit == Init => TypeOK /\ TicksInv
<1> SUFFICES ASSUME Init PROVE TypeOK /\ TicksInv
  OBVIOUS
<1>1. ended \in [Callers -> 0..2]
  BY DEF Init
<1>2. TypeOK
  BY <1>1 DEF Init, TypeOK
<1>3. TicksInv
  BY DEF Init, TicksInv, Waiting
<1> QED
  BY <1>2, <1>3

LEMMA TicksCall ==
    ASSUME TypeOK, TicksInv, NEW C \in SUBSET Callers, Call(C),
           UNCHANGED <<running, covered>>, ended' \in [Callers -> 0..2]
    PROVE  TypeOK' /\ TicksInv'
<1>1. CASE queued
  <2>1. /\ wakeup' = TRUE /\ waiters' = waiters \cup C
        /\ UNCHANGED <<queued, first, runs, running, covered>>
    BY <1>1 DEF Call, Coalesce
  <2>2. TypeOK'
    BY <2>1 DEF TypeOK
  <2>3. TicksInv'
    BY <2>1, <1>1 DEF TicksInv, TypeOK
  <2> QED
    BY <2>2, <2>3
<1>2. CASE ~queued
  <2>1. /\ queued' = TRUE /\ runs' = runs + 1 /\ first' = C
        /\ UNCHANGED <<wakeup, waiters, running, covered>>
    BY <1>2 DEF Call, Start
  <2>2. TypeOK'
    BY <2>1 DEF TypeOK
  <2>3. runs = 0 /\ running = 0 /\ ~wakeup
    BY <1>2 DEF TicksInv, TypeOK
  <2>4. TicksInv'
    BY <2>1, <2>3 DEF TicksInv
  <2> QED
    BY <2>2, <2>4
<1> QED
  BY <1>1, <1>2

\* A call, the beginning of a run, its end and its failure.
LEMMA TicksStep ==
    TypeOK /\ TicksInv /\ [Next]_vars => (TypeOK /\ TicksInv)'
<1> SUFFICES ASSUME TypeOK, TicksInv, [Next]_vars
             PROVE  TypeOK' /\ TicksInv'
  OBVIOUS
<1>1. ASSUME NEW c \in Callers, Tick(c) PROVE TypeOK' /\ TicksInv'
  BY <1>1, TicksCall DEF Tick, TypeOK
<1>2. CASE Poke
  BY <1>2, TicksCall DEF Poke, TypeOK
<1>3. CASE Begin
  <2>1. TypeOK'
    BY <1>3 DEF Begin, TypeOK, Waiting
  <2>2. queued /\ TicksInv'
    BY <1>3 DEF Begin, TypeOK, TicksInv, Waiting
  <2> QED
    BY <2>1, <2>2
<1>4. CASE Finish
  <2>1. ended' \in [Callers -> 0..2]
    BY <1>4 DEF Finish, TypeOK
  <2>2. queued /\ runs = 0
    BY <1>4 DEF Finish, RunEnds, TypeOK, TicksInv
  <2>3. TypeOK'
    <3>1. running' = 0 /\ covered' = covered
      BY <1>4 DEF Finish, RunEnds
    <3>2. CASE wakeup
      <4>1. /\ queued' = TRUE /\ wakeup' = FALSE /\ runs' = 1 /\ waiters' = waiters /\ first' = {}
        BY <1>4, <2>2, <3>2 DEF Finish, Start
      <4> QED
        BY <2>1, <3>1, <4>1 DEF TypeOK
    <3>3. CASE ~wakeup
      <4>1. /\ queued' = FALSE /\ wakeup' = wakeup /\ runs' = 0 /\ waiters' = {} /\ first' = {}
        BY <1>4, <2>2, <3>3 DEF Finish
      <4> QED
        BY <2>1, <3>1, <4>1 DEF TypeOK
    <3> QED
      BY <3>2, <3>3
  <2>4. TicksInv'
    BY <1>4, <2>2
       DEF Finish, RunEnds, Start, TicksInv, Waiting, TypeOK
  <2> QED
    BY <2>3, <2>4
<1>5. CASE Fail
  <2>1. queued /\ runs = 0
    BY <1>5 DEF Fail, RunEnds, TypeOK, TicksInv
  <2>2. TypeOK'
    BY <1>5 DEF Fail, RunEnds, TypeOK
  <2>3. TicksInv'
    BY <1>5, <2>1 DEF Fail, RunEnds, TicksInv, Waiting
  <2> QED
    BY <2>2, <2>3
<1>6. CASE UNCHANGED vars
  BY <1>6 DEF vars, TypeOK, TicksInv, Waiting
<1> QED
  BY <1>1, <1>2, <1>3, <1>4, <1>5, <1>6 DEF Next

LEMMA TicksAlways == Spec => [](TypeOK /\ TicksInv)
BY TicksInit, TicksStep, PTL DEF Spec

\* At most one run of the worker is queued or executing, however many call
\* tick() (the field queued).
THEOREM SingleRun == Spec => []OneRun
<1>1. TypeOK /\ TicksInv => OneRun
  BY DEF TypeOK, TicksInv, OneRun
<1> QED
  BY <1>1, TicksAlways, PTL

\* Nobody waits without a run to wait for (finishTick() and failTick()).
THEOREM NobodyIsForgotten == Spec => []WaitersHaveRun
<1>1. TypeOK /\ TicksInv => WaitersHaveRun
  BY DEF TypeOK, TicksInv, WaitersHaveRun
<1> QED
  BY <1>1, TicksAlways, PTL

\* A call resolves with a run whose snapshot is later than the call (the field
\* wakeup).
THEOREM NoLostWakeup == Spec => ResolvedIsCovered
<1>1. TypeOK /\ TicksInv /\ [Next]_vars =>
        [Finish => \A c \in Callers :
           c \in Waiting /\ c \notin Waiting' => c \in covered]_vars
  <2> SUFFICES ASSUME TypeOK, TicksInv, Finish,
                      NEW c \in Callers, c \in Waiting, c \notin Waiting'
               PROVE  c \in covered
    OBVIOUS
  <2>1. CASE ~wakeup
    BY <2>1 DEF TicksInv, Finish, RunEnds
  <2>2. CASE wakeup
    <3>1. c \in first /\ c \notin waiters
      BY <2>2 DEF Finish, Start, Waiting
    <3>2. \A d \in first : d \in covered
      BY DEF TicksInv, Finish, RunEnds
    <3> QED
      BY <3>1, <3>2
  <2> QED
    BY <2>1, <2>2
<1> QED
  BY <1>1, TicksAlways, PTL DEF Spec, ResolvedIsCovered
=============================================================================
