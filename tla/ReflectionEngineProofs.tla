----------------------- MODULE ReflectionEngineProofs -----------------------
(***************************************************************************)
(* ReflectionSafety and NoSecondSummary of ReflectionEngine, for every set *)
(* of records, every size of the registries and every number of faults.    *)
(*                                                                         *)
(* Each promise has its own exceptions (a save that failed, a record that  *)
(* came back, a run carried out twice), so the inductive invariant has one *)
(* part per exception:                                                     *)
(*   KInv  always: what memory and file know of a set is backed by jobs    *)
(*         in the outbox (Sound), and neither leaves out a record that has *)
(*         been on disk (Covers);                                          *)
(*   CInv  no failed save, no record back: a job whose records are still   *)
(*         pending is one of the current run, so that sets are disjoint;   *)
(*   DInv  nor a run carried out twice: such a job exists only while its   *)
(*         answer is being settled, so that every path is written once;    *)
(*   EInv  the registry of processed sets has lost nothing: it has every   *)
(*         set that was summarised.                                        *)
(* What Within, a loop in the code, computes is shown without induction:   *)
(* a least counterexample would have a smaller one.                        *)
(***************************************************************************)
EXTENDS MCReflectionBackup, Integers, FiniteSetTheorems, WellFoundedInduction, TLAPS

-----------------------------------------------------------------------------
(***************************************************************************)
(* Sequences.                                                              *)
(***************************************************************************)

\* The least number of a set: what replaces induction below is that a smallest
\* counterexample does not exist.
LEMMA Least ==
    ASSUME NEW T, T \subseteq Nat, T # {}
    PROVE  \E x \in T : \A y \in T : x <= y
<1> DEFINE R == OpToRel(<, Nat)
<1>1. \A x \in Nat, y \in Nat : x < y => <<x, y>> \in R
  BY DEF OpToRel
<1>2. IsWellFoundedOn(R, Nat)
  BY NatLessThanWellFounded
<1> HIDE DEF R
<1>3. PICK x \in T : \A y \in T : ~ (<<y, x>> \in R)
  BY <1>2, WFMin
<1>4. \A y \in T : ~ (y < x)
  BY <1>1, <1>3
<1> QED
  BY <1>4

\* What the helper Within computes, element by element.
Picks(s, S, f) ==
    f = [n \in 0..Len(s) |->
            IF n = 0 THEN <<>> ELSE IF s[n] \in S THEN Append(f[n - 1], s[n]) ELSE f[n - 1]]

LEMMA PicksExist ==
    ASSUME NEW R, NEW s \in Seq(R), NEW S
    PROVE  \E f : Picks(s, S, f)
<1> DEFINE Next1(f, n) == IF s[n] \in S THEN Append(f[n - 1], s[n]) ELSE f[n - 1]
           Up(n, f) == /\ f \in [0..n -> Seq(R)] /\ f[0] = <<>>
                       /\ \A i \in 1..n : f[i] = Next1(f, i)
           T == {n \in 0..Len(s) : ~ \E f : Up(n, f)}
<1>1. Len(s) \in Nat /\ \A i \in 1..Len(s) : s[i] \in R
  OBVIOUS
<1>2. T = {}
  <2> SUFFICES ASSUME T # {} PROVE FALSE
    OBVIOUS
  <2>1. PICK x \in T : \A y \in T : x <= y
    <3> HIDE DEF T
    <3>1. T \subseteq Nat
      BY DEF T
    <3> QED
      BY <3>1, Least
  <2>2. x \in 0..Len(s) /\ ~ \E f : Up(x, f)
    OBVIOUS
  <2>3. x # 0
    <3>1. Up(0, [i \in 0..0 |-> <<>>])
      OBVIOUS
    <3> QED
      BY <2>2, <3>1
  <2>4. x - 1 \in 0..Len(s) /\ x - 1 \notin T
    <3>1. x \in Nat /\ x - 1 \in 0..Len(s) /\ ~(x <= x - 1)
      BY <1>1, <2>2, <2>3
    <3> HIDE DEF T
    <3> QED
      BY <2>1, <3>1
  <2>5. PICK f : Up(x - 1, f)
    BY <2>4
  <2> DEFINE g == [i \in 0..x |-> IF i = x THEN Next1(f, x) ELSE f[i]]
  <2>6. x \in 1..Len(s) /\ x - 1 \in 0..(x - 1)
    BY <1>1, <2>2, <2>3
  <2>7. Next1(f, x) \in Seq(R)
    <3>1. f[x - 1] \in Seq(R) /\ s[x] \in R
      BY <1>1, <2>5, <2>6
    <3> QED
      BY <3>1
  <2>8. g \in [0..x -> Seq(R)]
    <3> HIDE DEF Next1
    <3>1. \A i \in 0..x : i # x => i \in 0..(x - 1)
      BY <2>6, <1>1
    <3> QED
      BY <2>5, <2>7, <3>1
  <2>9. \A i \in 0..x : i < x => g[i] = f[i]
    BY <2>6, <1>1
  <2>10. g[0] = <<>> /\ g[x] = Next1(f, x)
    BY <2>5, <2>6, <1>1
  <2>11. \A i \in 1..x : g[i] = Next1(g, i)
    <3> SUFFICES ASSUME NEW i \in 1..x PROVE g[i] = Next1(g, i)
      OBVIOUS
    <3>1. i \in 0..x /\ i - 1 \in 0..x /\ i - 1 < x
      BY <2>6, <1>1
    <3>2. g[i - 1] = f[i - 1]
      BY <2>9, <3>1
    <3>3. CASE i = x
      BY <2>10, <3>2, <3>3
    <3>4. CASE i # x
      <4>1. i \in 1..(x - 1) /\ i < x
        BY <2>6, <1>1, <3>4
      <4>2. g[i] = f[i] /\ f[i] = Next1(f, i)
        BY <2>5, <2>9, <3>1, <4>1
      <4> HIDE DEF g
      <4> QED
        BY <3>2, <4>2
    <3> QED
      BY <3>3, <3>4
  <2>12. Up(x, g)
    <3> HIDE DEF g, Next1
    <3> QED
      BY <2>8, <2>10, <2>11
  <2> QED
    BY <2>2, <2>12
<1>3. PICK f : Up(Len(s), f)
  <2>1. Len(s) \in 0..Len(s)
    BY <1>1
  <2>2. Len(s) \notin T
    <3> HIDE DEF T
    <3> QED
      BY <1>2
  <2> QED
    BY <2>1, <2>2
<1>4. \A n \in 0..Len(s) :
         f[n] = IF n = 0 THEN <<>> ELSE IF s[n] \in S THEN Append(f[n - 1], s[n]) ELSE f[n - 1]
  <2>1. \A n \in 0..Len(s) : n # 0 => n \in 1..Len(s)
    BY <1>1
  <2> QED
    BY <1>3, <2>1
<1>5. f = [n \in 0..Len(s) |-> f[n]]
  BY <1>3
<1>6. Picks(s, S, f)
  BY <1>4, <1>5 DEF Picks
<1> QED
  BY <1>6

Distinct(s) == \A i, k \in 1..Len(s) : s[i] = s[k] => i = k

LEMMA AppendIs ==
    ASSUME NEW R, NEW s \in Seq(R), NEW r \in R
    PROVE  /\ Append(s, r) \in Seq(R) /\ Len(Append(s, r)) = Len(s) + 1
           /\ Elems(Append(s, r)) = Elems(s) \cup {r}
           /\ Distinct(s) /\ r \notin Elems(s) => Distinct(Append(s, r))
<1> DEFINE t == Append(s, r)
<1>1. /\ Len(s) \in Nat /\ t \in Seq(R) /\ Len(t) = Len(s) + 1
      /\ \A i \in 1..Len(s) : t[i] = s[i]
      /\ t[Len(s) + 1] = r
  OBVIOUS
<1> HIDE DEF t
<1>2. Elems(t) = Elems(s) \cup {r}
  <2>1. \A x \in Elems(t) : x \in Elems(s) \cup {r}
    BY <1>1 DEF Elems
  <2>2. Elems(s) \subseteq Elems(t)
    BY <1>1 DEF Elems
  <2>3. r \in Elems(t)
    <3>1. Len(s) + 1 \in 1..Len(t)
      BY <1>1
    <3> QED
      BY <1>1, <3>1 DEF Elems
  <2> QED
    BY <2>1, <2>2, <2>3
<1>3. ASSUME Distinct(s), r \notin Elems(s) PROVE Distinct(t)
  <2>1. \A i \in 1..Len(s) : s[i] # r
    BY <1>3 DEF Elems
  <2> QED
    BY <1>1, <1>3, <2>1 DEF Distinct
<1> QED
  BY <1>1, <1>2, <1>3 DEF t

\* Within(s, S) keeps the elements of s that are in S, and as often.
LEMMA WithinIs ==
    ASSUME NEW R, NEW s \in Seq(R), NEW S
    PROVE  /\ Within(s, S) \in Seq(R) /\ Elems(Within(s, S)) = Elems(s) \cap S
           /\ Distinct(s) => Distinct(Within(s, S))
<1>1. PICK f : Picks(s, S, f) /\ Within(s, S) = f[Len(s)]
  <2>1. \E f : Picks(s, S, f)
    BY PicksExist
  <2> QED
    BY <2>1 DEF Within, Picks
<1>2. Len(s) \in Nat /\ \A i \in 1..Len(s) : s[i] \in R
  OBVIOUS
<1> DEFINE Upto(n) == {s[i] : i \in 1..n}
           Right(n) == /\ f[n] \in Seq(R) /\ Elems(f[n]) = Upto(n) \cap S
                       /\ Distinct(s) => Distinct(f[n])
           T == {n \in 0..Len(s) : ~Right(n)}
<1>3. f[0] = <<>> /\ \A n \in 1..Len(s) :
                       f[n] = IF s[n] \in S THEN Append(f[n - 1], s[n]) ELSE f[n - 1]
  <2>1. f = [n \in 0..Len(s) |->
               IF n = 0 THEN <<>> ELSE IF s[n] \in S THEN Append(f[n - 1], s[n]) ELSE f[n - 1]]
    BY <1>1 DEF Picks
  <2>2. 0 \in 0..Len(s) /\ \A n \in 1..Len(s) : n \in 0..Len(s) /\ n # 0
    BY <1>2
  <2> QED
    BY <2>1, <2>2
<1>4. Right(0)
  BY <1>3 DEF Elems, Distinct
<1>5. \A n \in 1..Len(s) : Right(n - 1) => Right(n)
  <2> SUFFICES ASSUME NEW n \in 1..Len(s), Right(n - 1) PROVE Right(n)
    OBVIOUS
  <2>1. s[n] \in R /\ n \in Nat /\ n - 1 \in Nat /\ n - 1 < n
    BY <1>2
  <2>2. Upto(n) = Upto(n - 1) \cup {s[n]}
    <3>1. \A i \in 1..n : i \in 1..(n - 1) \/ i = n
      BY <2>1
    <3>2. \A i \in 1..(n - 1) : i \in 1..n
      BY <2>1
    <3>3. n \in 1..n
      BY <2>1
    <3> QED
      BY <3>1, <3>2, <3>3
  <2> HIDE DEF Upto
  <2>3. CASE s[n] \notin S
    <3>1. f[n] = f[n - 1] /\ Upto(n) \cap S = Upto(n - 1) \cap S
      BY <1>3, <2>2, <2>3
    <3> QED
      BY <3>1
  <2>4. CASE s[n] \in S
    <3>1. f[n] = Append(f[n - 1], s[n]) /\ Upto(n) \cap S = (Upto(n - 1) \cap S) \cup {s[n]}
      BY <1>3, <2>2, <2>4
    <3>2. f[n] \in Seq(R) /\ Elems(f[n]) = Elems(f[n - 1]) \cup {s[n]}
          /\ (Distinct(f[n - 1]) /\ s[n] \notin Elems(f[n - 1]) => Distinct(f[n]))
      BY <2>1, <3>1, AppendIs
    <3>3. Distinct(s) => s[n] \notin Upto(n - 1)
      BY <1>2, <2>1 DEF Distinct, Upto
    <3> QED
      BY <3>1, <3>2, <3>3
  <2> QED
    BY <2>3, <2>4
<1>6. T = {}
  <2> SUFFICES ASSUME T # {} PROVE FALSE
    OBVIOUS
  <2>1. T \subseteq Nat /\ \A n \in T : n \in 0..Len(s) /\ ~Right(n)
    BY <1>2
  <2>2. \A n \in 0..Len(s) : n \notin T => Right(n)
    OBVIOUS
  <2> HIDE DEF T, Right
  <2>3. PICK x \in T : \A y \in T : x <= y
    BY <2>1, Least
  <2>4. x # 0 /\ x \in 1..Len(s)
    BY <1>2, <1>4, <2>1
  <2>5. x - 1 \in 0..Len(s) /\ ~(x <= x - 1)
    BY <1>2, <2>4
  <2>6. Right(x - 1)
    BY <2>2, <2>3, <2>5
  <2> QED
    BY <1>5, <2>1, <2>4, <2>6
<1>7. Right(Len(s))
  <2>1. Len(s) \in 0..Len(s)
    BY <1>2
  <2> HIDE DEF Right
  <2> QED
    BY <1>6, <2>1
<1>8. Upto(Len(s)) = Elems(s)
  BY DEF Elems
<1> QED
  BY <1>1, <1>7, <1>8

LEMMA WithoutIs ==
    ASSUME NEW R, NEW s \in Seq(R), NEW S
    PROVE  /\ Without(s, S) \in Seq(R) /\ Elems(Without(s, S)) = Elems(s) \ S
           /\ Distinct(s) => Distinct(Without(s, S))
BY WithinIs DEF Without

\* The newest members of a registry, at least one of them.
LEMMA NewestIs ==
    ASSUME NEW R, NEW s \in Seq(R), NEW n \in Nat \ {0}
    PROVE  /\ Newest(s, n) \in Seq(R) /\ Len(Newest(s, n)) <= n
           /\ Elems(Newest(s, n)) \subseteq Elems(s)
           /\ Len(s) <= n => Newest(s, n) = s
           /\ Len(s) > 0 => s[Len(s)] \in Elems(Newest(s, n))
<1>1. Len(s) \in Nat /\ \A i \in 1..Len(s) : s[i] \in R
  OBVIOUS
<1>2. CASE Len(s) <= n
  <2>1. Newest(s, n) = s
    BY <1>1, <1>2 DEF Newest
  <2> QED
    BY <1>1, <1>2, <2>1 DEF Elems
<1>3. CASE Len(s) > n
  <2> DEFINE d == Len(s) - n
             t == SubSeq(s, d + 1, Len(s))
  <2>1. d \in Nat /\ d + n = Len(s) /\ d + 1 \in 1..Len(s)
    BY <1>1, <1>3
  <2>2. Newest(s, n) = t
    <3>1. Len(s) - n + 1 = d + 1
      BY <1>1, <1>3
    <3> QED
      BY <1>3, <3>1 DEF Newest
  <2> HIDE DEF d
  <2>3. t \in Seq(R) /\ Len(t) = n /\ \A i \in 1..n : t[i] = s[d + i] /\ d + i \in 1..Len(s)
    BY <1>1, <2>1
  <2> HIDE DEF t
  <2>4. t[n] = s[Len(s)] /\ n \in 1..Len(t)
    BY <2>1, <2>3
  <2> QED
    BY <1>1, <1>3, <2>2, <2>3, <2>4 DEF Elems
<1> QED
  BY <1>1, <1>2, <1>3

LEMMA DistinctCount ==
    ASSUME NEW R, NEW s \in Seq(R), Distinct(s)
    PROVE  Cardinality(Elems(s)) = Len(s)
<1>1. Len(s) \in Nat /\ s \in [1..Len(s) -> Elems(s)]
  <2>1. Len(s) \in Nat /\ s \in [1..Len(s) -> R]
    OBVIOUS
  <2>2. \A i \in 1..Len(s) : s[i] \in Elems(s)
    BY DEF Elems
  <2> QED
    BY <2>1, <2>2
<1>2. s \in Bijection(1..Len(s), Elems(s))
  BY <1>1 DEF Distinct, Elems, Bijection, Injection, Surjection, IsInjective
<1>3. ExistsBijection(1..Len(s), Elems(s))
  BY <1>2 DEF ExistsBijection
<1> QED
  BY <1>1, <1>3, FS_CountingElements

-----------------------------------------------------------------------------
(***************************************************************************)
(* The inductive invariant.                                                *)
(***************************************************************************)

Queue == 1..Len(jobs)
Reflects(i, S) == jobs[i].kind = "reflection" /\ jobs[i].set = S

\* The set S has its reflection and the proposals of the same answer.
Whole(S) ==
    \E i \in Queue :
        /\ Reflects(i, S)
        /\ \A g \in jobs[i].groups :
              \E k \in Queue : jobs[k].kind = "proposal" /\ jobs[k].group = g /\ jobs[k].set = S

\* It is settled what becomes of the record r.
Fated(r) == r \in parked \/ \E i \in Queue : jobs[i].kind = "reflection" /\ r \in jobs[i].set

\* What holds of the state in memory holds of the one in the file.
Sound(s) ==
    /\ s.running # NoRun => s.running.set \subseteq Elems(s.pending)
    /\ \A S \in Elems(s.processed) : Whole(S)
    /\ \A S \in Elems(s.skipped) : \A r \in S : Fated(r)
    /\ Len(s.processed) <= ProcessedCap
Covers(s) == \A r \in noted : r \in Elems(s.pending) \/ Fated(r)

JobsGood ==
    \A i \in Queue :
        /\ jobs[i].set # {}
        /\ jobs[i].kind = "proposal" => jobs[i].group # {} /\ jobs[i].group \subseteq jobs[i].set

KInv ==
    /\ Sound(st) /\ Covers(st)
    /\ Sound(file) /\ Covers(file) /\ Elems(file.pending) \subseteq noted
    /\ AskedIsPending
    /\ settling => asked # <<>> /\ Whole(st.running.set)
    /\ ~unsaved => st = file
    /\ JobsGood

\* A record that is still pending, and a job for a set of such records.
Open(S)  == S \cap Elems(st.pending) # {}
Own(j) == st.running # NoRun /\ j.set = st.running.set /\ j.started = st.running.started

\* While no save failed and no record came back, the records of a job are no longer
\* pending, unless the job is one of the run itself.
CInv ==
    ~unsaved /\ ~again =>
        /\ Distinct(st.pending) /\ Distinct(asked)
        /\ \A i \in Queue :
              /\ jobs[i].set \subseteq noted
              /\ Cardinality(jobs[i].set) <= Room /\ jobs[i].set \cap Large = {}
              /\ Open(jobs[i].set) => Own(jobs[i])
        /\ \A i, k \in Queue :
              /\ jobs[i].set = jobs[k].set \/ jobs[i].set \cap jobs[k].set = {}
              /\ jobs[i].set = jobs[k].set => jobs[i].started = jobs[k].started
        /\ parked \cap Elems(st.pending) = {} /\ parked \subseteq noted

\* If besides no run was carried out twice, every path is written once.
DInv ==
    ~unsaved /\ ~again /\ ~rerun =>
        /\ \A i \in Queue : Open(jobs[i].set) => settling
        /\ \A i, k \in Queue : i # k => Path(jobs[i]) # Path(jobs[k])
        /\ \A d \in cloud : \E i \in Queue : jobs[i].status # "pending" /\ Path(jobs[i]) = d.path
        /\ \A i \in Queue : jobs[i].status # "refused" /\ jobs[i].set \cap parked = {}

\* While the registry of processed sets goes back far enough it has every set that
\* was summarised, whether records came back or not.
EInv ==
    ~unsaved /\ ~forgot /\ ~rerun =>
        /\ \A i \in Queue : jobs[i].kind = "reflection" =>
              jobs[i].set \in Elems(st.processed) \/ (settling /\ Own(jobs[i]))
        /\ st.running # NoRun /\ ~st.running.halved /\ ~settling =>
              st.running.set \notin Elems(st.processed)
        /\ \A i, k \in Queue :
              /\ jobs[i].kind = "reflection" /\ jobs[k].kind = "reflection"
              /\ jobs[i].set = jobs[k].set /\ ~jobs[i].halved /\ ~jobs[k].halved
              => jobs[i].started = jobs[k].started

IInv == KInv /\ CInv /\ DInv /\ EInv

-----------------------------------------------------------------------------
(***************************************************************************)
(* Saving.                                                                 *)
(***************************************************************************)

LEMMA StateIs ==
    ASSUME NEW s \in State
    PROVE  /\ s.pending \in Seq(Records) /\ s.seen \in Seq(Records)
           /\ s.processed \in Seq(Sets) /\ s.skipped \in Seq(Sets)
           /\ s.running \in Run \cup {NoRun}
           /\ s.running # NoRun =>
                /\ s.running \in Run /\ s.running.set \in Sets
                /\ s.running.started \in 1..MaxStarts /\ s.running.attempts \in Nat
                /\ s.running.cooling \in BOOLEAN /\ s.running.halved \in BOOLEAN
           /\ Elems(s.pending) \subseteq Records
BY DEF State, Run, Elems

LEMMA SaveIs ==
    ASSUME TypeOK, NEW s \in State, SaveOk(s) \/ SaveThrows(s)
    PROVE  /\ st' = s /\ file' \in {file, s} /\ file' \in State
           /\ noted' = noted \cup Elems(file'.pending) /\ noted' \subseteq Records
           /\ unsaved' \in BOOLEAN /\ faults' \in 0..MaxFaults
           /\ ~unsaved' => SaveOk(s) /\ file' = s /\ unsaved = FALSE
<1>1. st' = s /\ file' \in {file, s} /\ file' \in State
  BY DEF SaveOk, SaveThrows, TypeOK
<1>2. noted' = noted \cup Elems(file'.pending)
  BY DEF SaveOk, SaveThrows
<1>3. noted' \subseteq Records
  BY <1>1, <1>2, StateIs DEF TypeOK
<1>4. unsaved' \in BOOLEAN /\ (~unsaved' => SaveOk(s) /\ file' = s /\ unsaved = FALSE)
  <2>1. CASE SaveOk(s)
    BY <2>1 DEF SaveOk, TypeOK
  <2>2. CASE SaveThrows(s)
    BY <2>2 DEF SaveThrows
  <2> QED
    BY <2>1, <2>2
<1>5. faults' \in 0..MaxFaults
  BY EngineAssumption DEF SaveOk, SaveThrows, TypeOK
<1> QED
  BY <1>1, <1>2, <1>3, <1>4, <1>5

LEMMA SavedSound ==
    ASSUME TypeOK, KInv, NEW s \in State, SaveOk(s) \/ SaveThrows(s),
           UNCHANGED jobs, parked \subseteq parked',
           s.running # NoRun => s.running.set \subseteq Elems(s.pending),
           \A S \in Elems(s.processed) : Whole(S),
           \A S \in Elems(s.skipped) : \A r \in S : Fated(r)',
           Len(s.processed) <= ProcessedCap,
           \A r \in noted : r \in Elems(s.pending) \/ Fated(r)'
    PROVE  /\ Sound(st)' /\ Covers(st)' /\ Sound(file)' /\ Covers(file)'
           /\ Elems(file.pending)' \subseteq noted' /\ (~unsaved' => st' = file')
           /\ JobsGood'
<1>1. /\ st' = s /\ file' \in {file, s} /\ noted' = noted \cup Elems(file'.pending)
      /\ ~unsaved' => file' = s
  BY SaveIs
<1>2. \A S : Whole(S)' <=> Whole(S)
  BY DEF Whole, Queue, Reflects
<1>3. \A r : Fated(r) => Fated(r)'
  BY DEF Fated, Queue
<1>4. Sound(st)'
  BY <1>1, <1>2 DEF Sound
<1>5. Sound(file)'
  <2>1. CASE file' = s
    BY <1>1, <1>4, <2>1 DEF Sound
  <2>2. CASE file' = file
    BY <1>2, <1>3, <2>2 DEF KInv, Sound
  <2> QED
    BY <1>1, <2>1, <2>2
<1>6. \A r \in noted' : r \in noted \/ r \in Elems(s.pending)
  BY <1>1 DEF KInv
<1>7. Covers(st)'
  BY <1>1, <1>6 DEF Covers
<1>8. Covers(file)'
  <2>1. CASE file' = s
    BY <1>1, <1>7, <2>1 DEF Covers
  <2>2. CASE file' = file
    BY <1>1, <1>3, <2>2 DEF KInv, Covers
  <2> QED
    BY <1>1, <2>1, <2>2
<1>9. JobsGood'
  BY DEF KInv, JobsGood, Queue
<1> QED
  BY <1>1, <1>4, <1>5, <1>7, <1>8, <1>9

-----------------------------------------------------------------------------
(***************************************************************************)
(* Intake.                                                                 *)
(***************************************************************************)

\* What CInv asks for.
Clean == ~unsaved /\ ~again

LEMMA NoteKeeps ==
    ASSUME TypeOK, IInv, NEW r \in Records, NoteAccepted(r)
    PROVE  TypeOK' /\ IInv'
<1> DEFINE s == [st EXCEPT !.seen = Newest(Append(@, r), SeenCap), !.pending = Append(@, r)]
<1>1. /\ ~settling /\ notes < MaxNotes /\ notes' = notes + 1
      /\ again' = (again \/ r \in noted) /\ (SaveOk(s) \/ SaveThrows(s))
      /\ UNCHANGED <<asked, settling, jobs, cloud, starts, parked, rerun, forgot>>
  BY DEF NoteAccepted, Free
<1>2. st \in State /\ st.pending \in Seq(Records) /\ st.seen \in Seq(Records)
  BY StateIs DEF TypeOK
<1>3. Newest(Append(st.seen, r), SeenCap) \in Seq(Records) /\ Append(st.pending, r) \in Seq(Records)
  <2>1. Append(st.seen, r) \in Seq(Records) /\ SeenCap \in Nat \ {0}
    BY <1>2, EngineAssumption
  <2>2. Newest(Append(st.seen, r), SeenCap) \in Seq(Records)
    BY <2>1, NewestIs
  <2> QED
    BY <1>2, <2>2
<1>4. /\ s \in State /\ s.pending = Append(st.pending, r) /\ s.processed = st.processed
      /\ s.skipped = st.skipped /\ s.running = st.running
  BY <1>2, <1>3 DEF State
<1> HIDE DEF s
<1>5. /\ Elems(s.pending) = Elems(st.pending) \cup {r}
      /\ Distinct(st.pending) /\ r \notin Elems(st.pending) => Distinct(s.pending)
  BY <1>2, <1>4, AppendIs
<1>6. /\ st' = s /\ file' \in State /\ noted' = noted \cup Elems(file'.pending)
      /\ noted' \subseteq Records /\ unsaved' \in BOOLEAN /\ faults' \in 0..MaxFaults
      /\ ~unsaved' => file' = s /\ ~unsaved
  BY <1>1, <1>4, SaveIs
<1>7. TypeOK'
  <2>1. notes' \in 0..MaxNotes
    BY <1>1, EngineAssumption DEF TypeOK
  <2>2. again' \in BOOLEAN
    BY <1>1 DEF TypeOK
  <2> QED
    BY <1>1, <1>4, <1>6, <2>1, <2>2 DEF TypeOK
<1>8. KInv'
  <2>1. /\ s.running # NoRun => s.running.set \subseteq Elems(s.pending)
        /\ \A S \in Elems(s.processed) : Whole(S)
        /\ \A S \in Elems(s.skipped) : \A x \in S : Fated(x)'
        /\ Len(s.processed) <= ProcessedCap
        /\ \A x \in noted : x \in Elems(s.pending) \/ Fated(x)'
    BY <1>1, <1>4, <1>5 DEF IInv, KInv, Sound, Covers, Fated, Queue
  <2>2. AskedIsPending'
    BY <1>1, <1>4, <1>5, <1>6 DEF IInv, KInv, AskedIsPending
  <2>3. parked \subseteq parked' /\ ~settling'
    BY <1>1
  <2> QED
    BY <1>1, <1>4, <2>1, <2>2, <2>3, SavedSound DEF IInv, KInv
<1>9. ASSUME ~unsaved', ~again'
      PROVE  /\ ~unsaved /\ ~again /\ noted \subseteq noted' /\ r \notin noted
             /\ r \notin Elems(st.pending)
             /\ \A i \in Queue : jobs[i].set \subseteq noted /\ (Open(jobs[i].set)' <=> Open(jobs[i].set))
  <2>1. ~unsaved /\ ~again /\ noted \subseteq noted' /\ r \notin noted
    BY <1>1, <1>6, <1>9 DEF TypeOK
  <2>2. Elems(st.pending) \subseteq noted
    BY <2>1 DEF IInv, KInv
  <2>3. \A i \in Queue : jobs[i].set \subseteq noted
    BY <2>1 DEF IInv, CInv
  <2> QED
    BY <1>1, <1>4, <1>5, <1>6, <2>1, <2>2, <2>3 DEF Open
<1>10. CInv'
  <2> SUFFICES ASSUME ~unsaved', ~again' PROVE CInv'
    BY DEF CInv
  <2>1. /\ ~unsaved /\ ~again /\ noted \subseteq noted' /\ r \notin noted
        /\ Distinct(st'.pending) /\ Elems(st'.pending) = Elems(st.pending) \cup {r}
        /\ st'.running = st.running
    BY <1>4, <1>5, <1>6, <1>9 DEF IInv, CInv
  <2>2. \A i \in Queue : /\ jobs[i].set \subseteq noted'
                         /\ Open(jobs[i].set)' => Own(jobs[i])'
    BY <1>1, <1>9, <2>1 DEF IInv, CInv, Own
  <2>3. parked \cap Elems(st'.pending) = {} /\ parked \subseteq noted'
    BY <2>1 DEF IInv, CInv
  <2> QED
    BY <1>1, <2>1, <2>2, <2>3 DEF IInv, CInv, Queue
<1>11. DInv'
  BY <1>1, <1>4, <1>5, <1>6, <1>9 DEF IInv, DInv, Queue, Path
<1>12. EInv'
  BY <1>1, <1>4, <1>6 DEF IInv, EInv, Queue, Own
<1> QED
  BY <1>7, <1>8, <1>10, <1>11, <1>12 DEF IInv

-----------------------------------------------------------------------------
(***************************************************************************)
(* Runs.                                                                   *)
(***************************************************************************)

\* The pending records are a set that was summarised: they leave the pool.
LEMMA ForgetKeeps ==
    ASSUME TypeOK, IInv, Free, asked = <<>>, st.running = NoRun,
           Elems(st.pending) \in Elems(st.processed), NEW s, s = [st EXCEPT !.pending = <<>>],
           SaveOk(s) \/ SaveThrows(s),
           UNCHANGED <<asked, starts, settling, jobs, cloud, notes, parked, rerun, again, forgot>>
    PROVE  TypeOK' /\ IInv'
<1>1. /\ s \in State /\ s.pending = <<>> /\ s.processed = st.processed /\ s.seen = st.seen
      /\ s.skipped = st.skipped /\ s.running = NoRun /\ Elems(s.pending) = {}
  <2>1. <<>> \in Seq(Records) /\ Elems(<<>>) = {}
    BY DEF Elems
  <2> QED
    BY <2>1 DEF TypeOK, State
<1>2. /\ st' = s /\ file' \in State /\ noted' = noted \cup Elems(file'.pending)
      /\ noted' \subseteq Records /\ unsaved' \in BOOLEAN /\ faults' \in 0..MaxFaults
      /\ ~unsaved' => file' = s /\ ~unsaved
  BY <1>1, SaveIs
<1>3. TypeOK'
  BY <1>1, <1>2 DEF TypeOK
<1>4. KInv'
  <2>1. \A x \in Elems(st.pending) : Fated(x)
    BY DEF IInv, KInv, Sound, Whole, Fated, Queue, Reflects
  <2>2. \A x : Fated(x)' <=> Fated(x)
    BY DEF Fated, Queue
  <2>3. /\ \A S \in Elems(s.processed) : Whole(S)
        /\ \A S \in Elems(s.skipped) : \A x \in S : Fated(x)'
        /\ Len(s.processed) <= ProcessedCap
        /\ \A x \in noted : x \in Elems(s.pending) \/ Fated(x)'
    BY <1>1, <2>1, <2>2 DEF IInv, KInv, Sound, Covers
  <2>4. AskedIsPending' /\ ~settling'
    BY DEF AskedIsPending, Free
  <2> QED
    BY <1>1, <2>3, <2>4, SavedSound DEF IInv, KInv
<1>5. ASSUME ~unsaved' PROVE \A S : ~Open(S)'
  BY <1>1, <1>2 DEF Open
<1>6. CInv'
  <2> SUFFICES ASSUME ~unsaved', ~again' PROVE CInv'
    BY DEF CInv
  <2>1. ~unsaved /\ ~again /\ noted \subseteq noted'
    BY <1>2
  <2>2. Distinct(st'.pending) /\ parked \cap Elems(st'.pending) = {}
    BY <1>1, <1>2 DEF Distinct
  <2>3. parked \subseteq noted' /\ \A i \in Queue : jobs[i].set \subseteq noted'
    BY <2>1 DEF IInv, CInv
  <2> QED
    BY <1>5, <2>1, <2>2, <2>3 DEF IInv, CInv, Queue
<1>7. DInv'
  BY <1>2, <1>5 DEF IInv, DInv, Queue, Path
<1>8. EInv'
  BY <1>1, <1>2 DEF IInv, EInv, Queue, Own, Free
<1> QED
  BY <1>3, <1>4, <1>6, <1>7, <1>8 DEF IInv

LEMMA NewRunIs ==
    ASSUME NEW s \in Seq(Records), NEW halved \in BOOLEAN, starts \in Nat, starts < MaxStarts
    PROVE  /\ NewRun(s, halved) \in Run /\ NewRun(s, halved).set = Elems(s)
           /\ NewRun(s, halved).halved = halved /\ NewRun(s, halved).attempts = 0
           /\ NewRun(s, halved).started = starts + 1
<1>1. Elems(s) \subseteq Records
  BY DEF Elems
<1>2. starts + 1 \in 1..MaxStarts
  BY EngineAssumption
<1> QED
  BY <1>1, <1>2 DEF NewRun, Run, Sets

\* A new run of pending records none of which a job of the run before it covers.
LEMMA RunKeeps ==
    ASSUME TypeOK, IInv, Free, NEW set \in Seq(Records), Elems(set) \subseteq Elems(st.pending),
           NEW run \in Run, run.set = Elems(set),
           NEW s, s = [st EXCEPT !.running = run], SaveOk(s) \/ SaveThrows(s),
           starts < MaxStarts, starts' = starts + 1, asked' \in {set, <<>>},
           Clean => /\ Distinct(set) /\ \A i \in Queue : ~Open(jobs[i].set),
           run.halved \/ run.set \notin Elems(st.processed),
           UNCHANGED <<settling, jobs, cloud, notes, parked, rerun, again, forgot>>
    PROVE  TypeOK' /\ IInv'
<1>1. /\ s \in State /\ s.pending = st.pending /\ s.processed = st.processed /\ s.seen = st.seen
      /\ s.skipped = st.skipped /\ s.running = run
  BY DEF TypeOK, State
<1>2. /\ st' = s /\ file' \in State /\ noted' = noted \cup Elems(file'.pending)
      /\ noted' \subseteq Records /\ unsaved' \in BOOLEAN /\ faults' \in 0..MaxFaults
      /\ ~unsaved' => file' = s /\ ~unsaved
  BY <1>1, SaveIs
<1>3. TypeOK'
  <2>1. starts' \in 0..MaxStarts
    BY EngineAssumption DEF TypeOK
  <2>2. asked' \in Seq(Records)
    <3>1. CASE asked' = set
      BY <3>1
    <3>2. CASE asked' = <<>>
      BY <3>2
    <3> QED
      BY <3>1, <3>2
  <2> QED
    BY <1>1, <1>2, <2>1, <2>2 DEF TypeOK
<1>4. run # NoRun /\ Elems(asked') \subseteq Elems(st.pending)
      /\ (asked' # <<>> => Elems(asked') = run.set)
  <2>1. asked' = set \/ (asked' = <<>> /\ Elems(<<>>) = {})
    BY DEF Elems
  <2> QED
    BY <2>1, NoRunAssumption
<1>5. KInv'
  <2>1. \A x : Fated(x)' <=> Fated(x)
    BY DEF Fated, Queue
  <2>2. /\ s.running # NoRun => s.running.set \subseteq Elems(s.pending)
        /\ \A S \in Elems(s.processed) : Whole(S)
        /\ \A S \in Elems(s.skipped) : \A x \in S : Fated(x)'
        /\ Len(s.processed) <= ProcessedCap
        /\ \A x \in noted : x \in Elems(s.pending) \/ Fated(x)'
    BY <1>1, <2>1 DEF IInv, KInv, Sound, Covers
  <2>3. AskedIsPending'
    BY <1>1, <1>2, <1>4 DEF AskedIsPending
  <2> QED
    BY <1>1, <2>2, <2>3, SavedSound DEF IInv, KInv, Free
<1>6. \A S : Open(S)' <=> Open(S)
  BY <1>1, <1>2 DEF Open
<1>7. CInv'
  <2> SUFFICES ASSUME ~unsaved', ~again' PROVE CInv'
    BY DEF CInv
  <2>1. Clean /\ noted \subseteq noted' /\ st'.pending = st.pending
    BY <1>1, <1>2 DEF Clean
  <2>2. Distinct(asked')
    <3>1. Distinct(<<>>)
      BY DEF Distinct
    <3> QED
      BY <2>1, <3>1
  <2> QED
    BY <1>6, <2>1, <2>2 DEF IInv, CInv, Clean, Queue
<1>8. DInv'
  BY <1>2, <1>6 DEF IInv, DInv, Queue, Path
<1>9. EInv'
  BY <1>1, <1>2 DEF IInv, EInv, Queue, Own, Free
<1> QED
  BY <1>3, <1>5, <1>7, <1>8, <1>9 DEF IInv

\* Nothing changes but what the model is asked, the pause, and the work of others.
LEMMA QuietKeeps ==
    ASSUME TypeOK, IInv, st' \in State, file' \in State, asked' \in Seq(Records),
           \/ st' = st /\ file' = file
           \/ /\ st.running # NoRun /\ st' = [st EXCEPT !.running.cooling = FALSE]
              /\ file' = IF file.running = NoRun THEN file
                         ELSE [file EXCEPT !.running.cooling = FALSE],
           Clean => Distinct(asked'), AskedIsPending',
           settling' => settling /\ asked' = asked,
           settling /\ ~settling' => rerun',
           UNCHANGED <<jobs, cloud, starts, notes, noted, parked, unsaved, again, forgot>>,
           rerun => rerun'
    PROVE  IInv'
<1>1. /\ st'.pending = st.pending /\ st'.processed = st.processed /\ st'.skipped = st.skipped
      /\ st'.running = NoRun <=> st.running = NoRun
      /\ st.running # NoRun => /\ st'.running.set = st.running.set
                               /\ st'.running.started = st.running.started
                               /\ st'.running.halved = st.running.halved
  <2>1. CASE st' = st
    BY <2>1
  <2>2. CASE st.running # NoRun /\ st' = [st EXCEPT !.running.cooling = FALSE]
    <3>1. st.running \in Run
      BY <2>2, StateIs DEF TypeOK
    <3> DEFINE run == [st.running EXCEPT !.cooling = FALSE]
    <3>2. /\ run \in Run /\ run.set = st.running.set /\ run.started = st.running.started
          /\ run.halved = st.running.halved
      BY <3>1 DEF Run
    <3>3. st' = [st EXCEPT !.running = run]
      BY <2>2
    <3> HIDE DEF run
    <3>4. run # NoRun
      BY <3>2, NoRunAssumption
    <3> QED
      BY <2>2, <3>2, <3>3, <3>4 DEF TypeOK, State
  <2> QED
    BY <2>1, <2>2
<1>2. /\ file'.pending = file.pending /\ file'.processed = file.processed
      /\ file'.skipped = file.skipped
      /\ file'.running = NoRun <=> file.running = NoRun
      /\ file.running # NoRun => file'.running.set = file.running.set
  <2>1. CASE file' = file
    BY <2>1
  <2>2. CASE file.running # NoRun /\ file' = [file EXCEPT !.running.cooling = FALSE]
    <3>1. file.running \in Run
      BY <2>2, StateIs DEF TypeOK
    <3> DEFINE run == [file.running EXCEPT !.cooling = FALSE]
    <3>2. run \in Run /\ run.set = file.running.set
      BY <3>1 DEF Run
    <3>3. file' = [file EXCEPT !.running = run]
      BY <2>2
    <3> HIDE DEF run
    <3>4. run # NoRun
      BY <3>2, NoRunAssumption
    <3> QED
      BY <2>2, <3>2, <3>3, <3>4 DEF TypeOK, State
  <2> QED
    BY <2>1, <2>2
<1>3. \A S : (Whole(S)' <=> Whole(S)) /\ (Open(S)' <=> Open(S))
  BY <1>1 DEF Whole, Queue, Reflects, Open
<1>4. \A r : Fated(r)' <=> Fated(r)
  BY DEF Fated, Queue
<1>5. Sound(st)' /\ Covers(st)'
  BY <1>1, <1>3, <1>4 DEF IInv, KInv, Sound, Covers
<1>6. Sound(file)' /\ Covers(file)' /\ Elems(file'.pending) \subseteq noted'
  <2>1. Sound(file) /\ Covers(file) /\ Elems(file.pending) \subseteq noted /\ noted' = noted
    BY DEF IInv, KInv
  <2>2. Sound(file)'
    BY <1>2, <1>3, <1>4, <2>1 DEF Sound
  <2>3. Covers(file)'
    BY <1>2, <1>4, <2>1 DEF Covers
  <2> QED
    BY <1>2, <2>1, <2>2, <2>3
<1>7. ~unsaved' => st' = file'
  BY DEF IInv, KInv
<1>8. KInv'
  <2>1. settling' => asked' # <<>> /\ Whole(st.running.set)'
    <3> SUFFICES ASSUME settling' PROVE asked' # <<>> /\ Whole(st.running.set)'
      OBVIOUS
    <3>1. settling /\ asked' # <<>> /\ Whole(st.running.set) /\ st.running # NoRun
      BY DEF IInv, KInv, AskedIsPending
    <3> QED
      BY <1>1, <1>3, <3>1 DEF Whole, Queue, Reflects
  <2>2. JobsGood'
    BY DEF IInv, KInv, JobsGood, Queue
  <2> QED
    BY <1>5, <1>6, <1>7, <2>1, <2>2 DEF KInv
<1>9. \A i \in Queue : Own(jobs[i])' <=> Own(jobs[i])
  BY <1>1 DEF Own
<1>10. CInv'
  <2> SUFFICES ASSUME ~unsaved, ~again PROVE CInv'
    BY DEF CInv
  <2>1. Distinct(asked') /\ Distinct(st'.pending) /\ Elems(st'.pending) = Elems(st.pending)
    BY <1>1 DEF IInv, CInv, Clean
  <2> QED
    BY <1>3, <1>9, <2>1 DEF IInv, CInv, Queue
<1>11. DInv'
  BY <1>1, <1>3 DEF IInv, DInv, Queue, Path
<1>12. EInv'
  BY <1>1, <1>9 DEF IInv, EInv, Queue
<1> QED
  BY <1>8, <1>10, <1>11, <1>12 DEF IInv

LEMMA StartKeeps ==
    ASSUME TypeOK, IInv, NEW trigger, Start(trigger)
    PROVE  TypeOK' /\ IInv'
<1>1. /\ Free /\ asked = <<>> /\ st.running = NoRun /\ st.pending \in Seq(Records)
      /\ starts \in Nat
      /\ UNCHANGED <<settling, jobs, cloud, notes, parked, rerun, again, forgot>>
  BY EngineAssumption, StateIs DEF Start, TypeOK
<1>2. CASE Elems(st.pending) \in Elems(st.processed)
  BY <1>1, <1>2, ForgetKeeps DEF Start
<1>3. CASE Elems(st.pending) \notin Elems(st.processed)
  <2> DEFINE run == NewRun(st.pending, FALSE)
             s == [st EXCEPT !.running = run]
  <2>1. /\ starts < MaxStarts /\ starts' = starts + 1
        /\ SaveOk(s) \/ SaveThrows(s)
        /\ asked' \in {st.pending, <<>>}
    BY <1>3 DEF Start
  <2>2. run \in Run /\ run.set = Elems(st.pending)
    BY <1>1, <2>1, NewRunIs
  <2>3. Clean => Distinct(st.pending) /\ \A i \in Queue : ~Open(jobs[i].set)
    BY <1>1 DEF IInv, CInv, Clean, Own
  <2> HIDE DEF run
  <2> QED
    BY <1>1, <1>3, <2>1, <2>2, <2>3, RunKeeps
<1> QED
  BY <1>2, <1>3

LEMMA ResumeKeeps ==
    ASSUME TypeOK, IInv, NEW trigger, Resume(trigger)
    PROVE  TypeOK' /\ IInv'
<1>1. /\ ~settling /\ st.running # NoRun /\ asked' = Within(st.pending, st.running.set)
      /\ UNCHANGED <<st, file, settling, jobs, cloud, starts, notes, faults, hist>>
  BY DEF Resume, Free
<1>2. st.pending \in Seq(Records)
  BY StateIs DEF TypeOK
<1>3. /\ asked' \in Seq(Records) /\ Elems(asked') = Elems(st.pending) \cap st.running.set
      /\ Distinct(st.pending) => Distinct(asked')
  BY <1>1, <1>2, WithinIs
<1>4. st.running.set \subseteq Elems(st.pending)
  BY <1>1 DEF IInv, KInv, Sound
<1>5. AskedIsPending'
  BY <1>1, <1>3, <1>4 DEF AskedIsPending
<1>6. TypeOK'
  BY <1>1, <1>3 DEF TypeOK, hist
<1>7. Clean => Distinct(asked')
  BY <1>3 DEF IInv, CInv, Clean
<1> QED
  BY <1>1, <1>3, <1>5, <1>6, <1>7, QuietKeeps DEF TypeOK, hist

LEMMA BackoffKeeps ==
    ASSUME TypeOK, IInv, BackoffElapses
    PROVE  TypeOK' /\ IInv'
<1>1. /\ ~settling /\ st.running # NoRun /\ st' = [st EXCEPT !.running.cooling = FALSE]
      /\ file' = IF file.running = NoRun THEN file ELSE [file EXCEPT !.running.cooling = FALSE]
      /\ UNCHANGED <<asked, settling, jobs, cloud, starts, notes, faults, hist>>
  BY DEF BackoffElapses, Free
<1>2. ASSUME NEW s \in State, s.running # NoRun
      PROVE  /\ [s EXCEPT !.running.cooling = FALSE] \in State
             /\ [s EXCEPT !.running.cooling = FALSE].pending = s.pending
             /\ [s EXCEPT !.running.cooling = FALSE].running # NoRun
             /\ [s EXCEPT !.running.cooling = FALSE].running.set = s.running.set
  <2> DEFINE run == [s.running EXCEPT !.cooling = FALSE]
  <2>1. s.running \in Run
    BY <1>2, StateIs
  <2>2. run \in Run /\ run.set = s.running.set
    BY <2>1 DEF Run
  <2>3. [s EXCEPT !.running.cooling = FALSE] = [s EXCEPT !.running = run]
    OBVIOUS
  <2> HIDE DEF run
  <2>4. run # NoRun
    BY <2>2, NoRunAssumption
  <2> QED
    BY <2>2, <2>3, <2>4 DEF State
<1>3. /\ st' \in State /\ st'.pending = st.pending /\ st'.running # NoRun
      /\ st'.running.set = st.running.set
  BY <1>1, <1>2 DEF TypeOK
<1>4. file' \in State
  BY <1>1, <1>2 DEF TypeOK
<1>5. TypeOK'
  BY <1>1, <1>3, <1>4 DEF TypeOK, hist
<1>6. AskedIsPending' /\ (Clean => Distinct(asked'))
  BY <1>1, <1>3 DEF IInv, KInv, CInv, Clean, AskedIsPending
<1> QED
  BY <1>1, <1>3, <1>4, <1>5, <1>6, QuietKeeps DEF TypeOK, hist

LEMMA HalveKeeps ==
    ASSUME TypeOK, IInv, Halve
    PROVE  TypeOK' /\ IInv'
<1> DEFINE m == (Len(asked) + 1) \div 2
           head == SubSeq(asked, 1, m)
           run == [NewRun(head, TRUE) EXCEPT !.cooling = st.running.cooling]
           s == [st EXCEPT !.running = run]
<1>1. /\ Free /\ Len(asked) > 1 /\ ~Fits(asked) /\ starts < MaxStarts /\ starts' = starts + 1
      /\ SaveOk(s) \/ SaveThrows(s)
      /\ asked' \in {head, <<>>}
      /\ UNCHANGED <<settling, jobs, cloud, notes, parked, rerun, again, forgot>>
  BY DEF Halve
<1>2. asked \in Seq(Records) /\ Len(asked) \in Nat /\ starts \in Nat
  BY DEF TypeOK
<1>3. m \in 1..Len(asked)
  BY <1>1, <1>2
<1> HIDE DEF m
<1>4. /\ head \in Seq(Records) /\ Len(head) = m
      /\ \A i \in 1..m : head[i] = asked[i]
  BY <1>2, <1>3
<1> HIDE DEF head
<1>5. Elems(head) \subseteq Elems(asked) /\ (Distinct(asked) => Distinct(head))
  BY <1>2, <1>3, <1>4 DEF Elems, Distinct
<1>6. /\ asked # <<>> /\ Elems(asked) \subseteq Elems(st.pending) /\ st.running # NoRun
      /\ Elems(asked) = st.running.set
  <2>1. asked # <<>>
    BY <1>1
  <2> QED
    BY <2>1 DEF IInv, KInv, AskedIsPending
<1>7. run \in Run /\ run.set = Elems(head) /\ run.halved
  <2>1. st.running.cooling \in BOOLEAN
    BY <1>6, StateIs DEF TypeOK
  <2>2. /\ NewRun(head, TRUE) \in Run /\ NewRun(head, TRUE).set = Elems(head)
        /\ NewRun(head, TRUE).halved = TRUE
    BY <1>1, <1>2, <1>4, NewRunIs
  <2> QED
    BY <2>1, <2>2 DEF Run
<1> HIDE DEF run
<1>8. ASSUME Clean PROVE Distinct(head) /\ \A i \in Queue : ~Open(jobs[i].set)
  <2>1. /\ Distinct(asked)
        /\ \A i \in Queue :
              /\ Cardinality(jobs[i].set) <= Room /\ jobs[i].set \cap Large = {}
              /\ Open(jobs[i].set) => Own(jobs[i])
    BY <1>8 DEF Clean, IInv, CInv
  <2>2. Cardinality(Elems(asked)) = Len(asked)
    BY <1>2, <2>1, DistinctCount
  <2> QED
    BY <1>1, <1>5, <1>6, <2>1, <2>2 DEF Fits, Own
<1>9. Elems(head) \subseteq Elems(st.pending)
  BY <1>5, <1>6
<1> QED
  BY <1>1, <1>4, <1>7, <1>8, <1>9, RunKeeps

\* What one more failed attempt of a run leaves: the set given up, or no run to
\* pause, or the same run in its pause.
LEMMA RetryIs ==
    ASSUME NEW s \in State, NEW run \in Run, NEW t, t = ArmRetry(s, run)
    PROVE  /\ t \in State /\ t.processed = s.processed
           /\ \/ /\ t.running = NoRun /\ Elems(t.pending) = Elems(s.pending) \ run.set
                 /\ Distinct(s.pending) => Distinct(t.pending)
                 /\ run.set \in Elems(t.skipped) /\ Elems(t.skipped) \subseteq Elems(s.skipped) \cup {run.set}
              \/ t = s /\ s.running = NoRun
              \/ /\ s.running # NoRun /\ t.running # NoRun /\ t.running.set = s.running.set
                 /\ t.running.started = s.running.started /\ t.running.halved = s.running.halved
                 /\ t.pending = s.pending /\ t.skipped = s.skipped
<1>1. /\ s.pending \in Seq(Records) /\ s.skipped \in Seq(Sets) /\ run.set \in Sets
      /\ ProcessedCap \in Nat \ {0}
  BY StateIs, EngineAssumption DEF Run
<1>2. CASE run.attempts + 1 >= MaxAttempts
  <2> DEFINE more == Append(s.skipped, run.set)
             kept == Newest(more, ProcessedCap)
             left == Without(s.pending, run.set)
  <2>1. /\ more \in Seq(Sets) /\ Len(more) > 0 /\ more[Len(more)] = run.set
        /\ Elems(more) = Elems(s.skipped) \cup {run.set}
    <3>1. more \in Seq(Sets) /\ Len(more) > 0 /\ more[Len(more)] = run.set
      BY <1>1
    <3> QED
      BY <1>1, <3>1, AppendIs
  <2> HIDE DEF more
  <2>2. kept \in Seq(Sets) /\ run.set \in Elems(kept) /\ Elems(kept) \subseteq Elems(s.skipped) \cup {run.set}
    BY <1>1, <2>1, NewestIs
  <2>3. /\ left \in Seq(Records) /\ Elems(left) = Elems(s.pending) \ run.set
        /\ Distinct(s.pending) => Distinct(left)
    BY <1>1, WithoutIs
  <2>4. t = [s EXCEPT !.skipped = kept, !.pending = left, !.running = NoRun]
    BY <1>2 DEF ArmRetry, more
  <2> HIDE DEF kept, left
  <2>5. /\ t \in State /\ t.processed = s.processed /\ t.running = NoRun /\ t.pending = left
        /\ t.skipped = kept
    BY <2>2, <2>3, <2>4 DEF State
  <2> QED
    BY <2>2, <2>3, <2>5
<1>3. CASE ~(run.attempts + 1 >= MaxAttempts) /\ s.running = NoRun
  BY <1>3 DEF ArmRetry
<1>4. CASE ~(run.attempts + 1 >= MaxAttempts) /\ s.running # NoRun
  <2> DEFINE next == [s.running EXCEPT !.attempts = @ + 1, !.cooling = TRUE]
  <2>1. s.running \in Run
    BY <1>4, StateIs
  <2>2. /\ next \in Run /\ next.set = s.running.set /\ next.started = s.running.started
        /\ next.halved = s.running.halved
    <3>1. PICK a \in Nat : a = s.running.attempts + 1
      BY <2>1 DEF Run
    <3>2. next = [s.running EXCEPT !.attempts = a, !.cooling = TRUE]
      BY <2>1, <3>1 DEF Run
    <3> QED
      BY <2>1, <3>2 DEF Run
  <2>3. t = [s EXCEPT !.running = next]
    BY <1>4 DEF ArmRetry, State
  <2> HIDE DEF next
  <2>4. next # NoRun
    BY <2>2, NoRunAssumption
  <2>5. /\ t \in State /\ t.processed = s.processed /\ t.running = next /\ t.pending = s.pending
        /\ t.skipped = s.skipped
    BY <2>2, <2>3 DEF State
  <2> QED
    BY <1>4, <2>2, <2>4, <2>5
<1> QED
  BY <1>2, <1>3, <1>4

LEMMA FailKeeps ==
    ASSUME TypeOK, IInv, AttemptFails
    PROVE  TypeOK' /\ IInv'
<1> DEFINE s == ArmRetry(st, st.running)
           set == st.running.set
<1>1. /\ ~settling /\ asked # <<>> /\ (SaveOk(s) \/ SaveThrows(s)) /\ asked' = <<>>
      /\ parked' = IF s.skipped = st.skipped THEN parked ELSE parked \cup set
      /\ UNCHANGED <<settling, jobs, cloud, starts, notes, rerun, again, forgot>>
  BY DEF AttemptFails, Free
<1>2. /\ st.running # NoRun /\ set \subseteq Elems(st.pending) /\ st \in State
      /\ st.running \in Run /\ set \subseteq Records
  <2>1. st.running # NoRun /\ set \subseteq Elems(st.pending) /\ st \in State
    BY <1>1 DEF IInv, KInv, AskedIsPending, TypeOK
  <2> QED
    BY <2>1, StateIs DEF Sets
<1>3. /\ s \in State /\ s.processed = st.processed
      /\ \/ /\ s.running = NoRun /\ Elems(s.pending) = Elems(st.pending) \ set
            /\ Distinct(st.pending) => Distinct(s.pending)
            /\ set \in Elems(s.skipped) /\ Elems(s.skipped) \subseteq Elems(st.skipped) \cup {set}
         \/ /\ s.running # NoRun /\ s.running.set = set
            /\ s.running.started = st.running.started /\ s.running.halved = st.running.halved
            /\ s.pending = st.pending /\ s.skipped = st.skipped
  BY <1>2, RetryIs
<1> HIDE DEF s, set
<1>4. /\ st' = s /\ file' \in State /\ noted' = noted \cup Elems(file'.pending)
      /\ noted' \subseteq Records /\ unsaved' \in BOOLEAN /\ faults' \in 0..MaxFaults
      /\ ~unsaved' => file' = s /\ ~unsaved
  BY <1>1, <1>3, SaveIs
<1>5. /\ parked \subseteq parked' /\ parked' \subseteq parked \cup set /\ parked' \subseteq Records
      /\ s.skipped # st.skipped => set \subseteq parked'
      /\ s.skipped = st.skipped => parked' = parked
  BY <1>1, <1>2 DEF TypeOK
<1>6. TypeOK'
  <2>1. asked' \in Seq(Records)
    BY <1>1
  <2> QED
    BY <1>1, <1>3, <1>4, <1>5, <2>1 DEF TypeOK
<1>7. KInv'
  <2>1. \A r : Fated(r) => Fated(r)'
    BY <1>1, <1>5 DEF Fated, Queue
  <2>2. \A S \in Elems(s.skipped) : \A r \in S : Fated(r)'
    <3>1. \A S \in Elems(st.skipped) : \A r \in S : Fated(r)'
      BY <2>1 DEF IInv, KInv, Sound
    <3>2. CASE s.skipped = st.skipped
      BY <3>1, <3>2
    <3>3. CASE s.skipped # st.skipped
      <4>1. \A r \in set : Fated(r)'
        BY <1>5, <3>3 DEF Fated
      <4> QED
        BY <1>3, <3>1, <3>3, <4>1
    <3> QED
      BY <3>2, <3>3
  <2>3. \A r \in noted : r \in Elems(s.pending) \/ Fated(r)'
    <3>1. \A r \in noted : r \in Elems(st.pending) \/ Fated(r)'
      BY <2>1 DEF IInv, KInv, Covers
    <3> QED
      BY <1>3, <2>2, <3>1
  <2>4. /\ s.running # NoRun => s.running.set \subseteq Elems(s.pending)
        /\ \A S \in Elems(s.processed) : Whole(S)
        /\ Len(s.processed) <= ProcessedCap
    BY <1>2, <1>3 DEF IInv, KInv, Sound
  <2>5. AskedIsPending' /\ ~settling'
    BY <1>1 DEF AskedIsPending
  <2> QED
    BY <1>1, <1>3, <1>5, <2>2, <2>3, <2>4, <2>5, SavedSound DEF IInv, KInv
<1>8. ASSUME ~unsaved', ~again'
      PROVE  /\ ~unsaved /\ ~again /\ Elems(st.pending) \subseteq noted /\ noted \subseteq noted'
             /\ \A i \in Queue : /\ Open(jobs[i].set)' => Own(jobs[i])' /\ Open(jobs[i].set)
                                 /\ Open(jobs[i].set) => Own(jobs[i])
  <2>1. ~unsaved /\ ~again /\ noted \subseteq noted'
    BY <1>1, <1>4, <1>8
  <2>2. Elems(st.pending) \subseteq noted
    BY <2>1 DEF IInv, KInv
  <2>3. \A i \in Queue : Open(jobs[i].set) => Own(jobs[i])
    BY <2>1 DEF IInv, CInv
  <2>4. \A i \in Queue : Open(jobs[i].set)' => Own(jobs[i])' /\ Open(jobs[i].set)
    BY <1>1, <1>3, <1>4, <2>3 DEF Open, Own, set
  <2> QED
    BY <2>1, <2>2, <2>3, <2>4
<1>9. CInv'
  <2> SUFFICES ASSUME ~unsaved', ~again' PROVE CInv'
    BY DEF CInv
  <2>1. Distinct(st'.pending) /\ Distinct(asked')
    BY <1>1, <1>3, <1>4, <1>8 DEF IInv, CInv, Distinct
  <2>2. parked' \cap Elems(st'.pending) = {} /\ parked' \subseteq noted'
    <3>1. parked \cap Elems(st.pending) = {} /\ parked \subseteq noted
      BY <1>8 DEF IInv, CInv
    <3> QED
      BY <1>2, <1>3, <1>4, <1>5, <1>8, <3>1
  <2> QED
    BY <1>1, <1>8, <2>1, <2>2 DEF IInv, CInv, Queue
<1>10. DInv'
  <2> SUFFICES ASSUME ~unsaved', ~again', ~rerun' PROVE DInv'
    BY DEF DInv
  <2>1. /\ ~unsaved /\ ~again /\ ~rerun /\ \A i \in Queue : ~Open(jobs[i].set)
        /\ \A i \in Queue : jobs[i].set \cap parked = {}
    BY <1>1, <1>8 DEF IInv, DInv
  <2>2. \A i \in Queue : jobs[i].set \cap parked' = {} /\ ~Open(jobs[i].set)'
    BY <1>2, <1>5, <1>8, <2>1 DEF Open
  <2> QED
    BY <1>1, <2>1, <2>2 DEF IInv, DInv, Queue, Path
<1>11. EInv'
  <2> SUFFICES ASSUME ~unsaved', ~forgot', ~rerun' PROVE EInv'
    BY DEF EInv
  <2>1. ~unsaved /\ ~forgot /\ ~rerun /\ st'.processed = st.processed
    BY <1>1, <1>3, <1>4
  <2>2. st'.running = NoRun \/ (st'.running.set = set /\ st'.running.halved = st.running.halved)
    BY <1>3, <1>4
  <2>3. st.running.halved \/ set \notin Elems(st.processed)
    BY <1>1, <1>2, <2>1 DEF IInv, EInv, set
  <2>4. \A i \in Queue : jobs[i].kind = "reflection" => jobs[i].set \in Elems(st'.processed)
    BY <1>1, <2>1 DEF IInv, EInv
  <2> QED
    BY <1>1, <2>1, <2>2, <2>3, <2>4 DEF IInv, EInv, Queue
<1> QED
  BY <1>6, <1>7, <1>9, <1>10, <1>11 DEF IInv

-----------------------------------------------------------------------------
(***************************************************************************)
(* Answers.                                                                *)
(***************************************************************************)

\* What the jobs of an answer have in common.
JobFor(j, run, groups) ==
    /\ j \in Job /\ j.set = run.set /\ j.started = run.started /\ j.halved = run.halved
    /\ j.groups = groups /\ j.status = "pending"

\* An answer makes a reflection and, if it found duplicates, one proposal.
LEMMA JobsOfIs ==
    ASSUME NEW run \in Run, NEW groups \in Answers(run.set), NEW version \in {1, 2},
           NEW new, new = JobsOf(run, groups, version)
    PROVE  /\ new \in Seq(Job) /\ Len(new) \in {1, 2}
           /\ JobFor(new[1], run, groups) /\ new[1].kind = "reflection"
           /\ Len(new) = 1 => groups = {}
           /\ Len(new) = 2 => /\ JobFor(new[2], run, groups) /\ new[2].kind = "proposal"
                              /\ groups = {new[2].group}
                              /\ new[2].group # {} /\ new[2].group \subseteq run.set
<1> DEFINE job(kind, g, v) ==
              [kind |-> kind, set |-> run.set, group |-> g, started |-> run.started,
               version |-> v, halved |-> run.halved, groups |-> groups,
               status |-> "pending"]
<1>1. /\ run.set \in Sets /\ run.started \in 1..MaxStarts /\ run.halved \in BOOLEAN
      /\ groups \in SUBSET Sets
  BY DEF Run, Sets, Answers
<1>2. \A g \in Sets : /\ job("reflection", g, version) \in Job
                      /\ job("proposal", g, 0) \in Job
  BY <1>1 DEF Job
<1>3. {} \in Sets
  BY DEF Sets
<1>4. CASE groups = {}
  <2>1. Cardinality(groups) = 0
    BY <1>4, FS_EmptySet
  <2>2. new = <<job("reflection", {}, version)>>
    BY <2>1 DEF JobsOf
  <2>3. job("reflection", {}, version) \in Job
    BY <1>2, <1>3
  <2>4. new \in Seq(Job) /\ Len(new) = 1 /\ new[1] = job("reflection", {}, version)
    BY <2>2, <2>3
  <2> QED
    BY <1>4, <2>3, <2>4 DEF JobFor
<1>5. ASSUME NEW g, g \subseteq run.set, Cardinality(g) >= 2, groups = {g}
      PROVE  /\ new \in Seq(Job) /\ Len(new) = 2
             /\ JobFor(new[1], run, groups) /\ new[1].kind = "reflection"
             /\ JobFor(new[2], run, groups) /\ new[2].kind = "proposal"
             /\ new[2].group = g /\ g # {}
  <2>1. Cardinality(groups) = 1 /\ (CHOOSE h \in groups : TRUE) = g
    BY <1>5, FS_Singleton
  <2>2. g # {}
    BY <1>5, FS_EmptySet
  <2>3. [i \in 1..1 |-> job("proposal", g, 0)] = <<job("proposal", g, 0)>>
    OBVIOUS
  <2>4. new = <<job("reflection", {}, version)>> \o [i \in 1..1 |-> job("proposal", g, 0)]
    BY <2>1 DEF JobsOf
  <2>5. /\ job("reflection", {}, version) \in Job
        /\ job("proposal", g, 0) \in Job
    <3>1. g \in Sets
      BY <1>1, <1>5 DEF Sets
    <3> QED
      BY <1>2, <1>3, <3>1
  <2> DEFINE a == job("reflection", {}, version)
             b == job("proposal", g, 0)
  <2>6. a.kind = "reflection" /\ b.kind = "proposal" /\ b.group = g
    OBVIOUS
  <2>7. JobFor(a, run, groups) /\ JobFor(b, run, groups)
    BY <2>5 DEF JobFor
  <2>8. new = <<a>> \o <<b>> /\ a \in Job /\ b \in Job
    BY <2>3, <2>4, <2>5
  <2> HIDE DEF a, b
  <2>9. new \in Seq(Job) /\ Len(new) = 2 /\ new[1] = a /\ new[2] = b
    BY <2>8
  <2> QED
    BY <2>2, <2>6, <2>7, <2>9
<1>6. groups = {} \/ \E g : g \subseteq run.set /\ Cardinality(g) >= 2 /\ groups = {g}
  BY DEF Answers
<1> QED
  BY <1>4, <1>5, <1>6

LEMMA AcceptKeeps ==
    ASSUME TypeOK, IInv, AcceptResult
    PROVE  TypeOK' /\ IInv'
<1> DEFINE set == st.running.set
<1>1. /\ ~settling /\ asked # <<>> /\ Fits(asked)
      /\ UNCHANGED <<st, file, cloud, starts, notes, noted, parked, unsaved, again, forgot>>
  BY DEF AcceptResult, Free
<1>2. /\ st.running # NoRun /\ st.running \in Run /\ set \in Sets
      /\ Elems(asked) \subseteq Elems(st.pending) /\ Elems(asked) = set
  <2>1. /\ st.running # NoRun /\ Elems(asked) \subseteq Elems(st.pending) /\ Elems(asked) = set
    BY <1>1 DEF IInv, KInv, AskedIsPending
  <2> QED
    BY <2>1, StateIs DEF TypeOK
<1>3. set # {}
  <2>1. asked \in Seq(Records)
    BY DEF TypeOK
  <2>2. 1 \in 1..Len(asked)
    BY <1>1, <2>1
  <2> QED
    BY <1>2, <2>2 DEF Elems
<1>4. PICK groups \in Answers(set), version \in {1, 2} :
        LET new == JobsOf(st.running, groups, version) IN
        \/ jobs' = jobs \o new /\ settling' = TRUE /\ UNCHANGED <<asked, faults, rerun>>
        \/ \E k \in 0..(Len(new) - 1) :
              /\ faults < MaxFaults /\ faults' = faults + 1 /\ jobs' = jobs \o SubSeq(new, 1, k)
              /\ asked' = <<>> /\ rerun' = TRUE /\ UNCHANGED settling
  BY <1>2 DEF AcceptResult
<1> DEFINE new == JobsOf(st.running, groups, version)
<1>5. /\ new \in Seq(Job) /\ Len(new) \in {1, 2}
      /\ JobFor(new[1], st.running, groups) /\ new[1].kind = "reflection"
      /\ Len(new) = 1 => groups = {}
      /\ Len(new) = 2 => /\ JobFor(new[2], st.running, groups) /\ new[2].kind = "proposal"
                         /\ groups = {new[2].group}
                         /\ new[2].group # {} /\ new[2].group \subseteq set
  BY <1>2, JobsOfIs
<1> HIDE DEF set, new
<1>6. PICK k \in 0..Len(new) :
        /\ jobs' = jobs \o SubSeq(new, 1, k)
        /\ \/ k = Len(new) /\ settling' = TRUE /\ UNCHANGED <<asked, faults, rerun>>
           \/ /\ k < Len(new) /\ faults < MaxFaults /\ faults' = faults + 1
              /\ asked' = <<>> /\ rerun' = TRUE /\ UNCHANGED settling
  <2>1. SubSeq(new, 1, Len(new)) = new
    BY <1>5
  <2>2. CASE jobs' = jobs \o new /\ settling' = TRUE /\ UNCHANGED <<asked, faults, rerun>>
    <3>1. Len(new) \in 0..Len(new)
      BY <1>5
    <3> QED
      BY <2>1, <2>2, <3>1
  <2>3. ASSUME NEW k \in 0..(Len(new) - 1),
               faults < MaxFaults, faults' = faults + 1, jobs' = jobs \o SubSeq(new, 1, k),
               asked' = <<>>, rerun' = TRUE, UNCHANGED settling
        PROVE  k \in 0..Len(new) /\ k < Len(new)
    BY <1>5
  <2> QED
    BY <1>4, <2>2, <2>3 DEF new
<1> DEFINE n == Len(jobs)
           add == SubSeq(new, 1, k)
<1>7. n \in Nat /\ jobs \in Seq(Job)
  BY DEF TypeOK
<1>8. add \in Seq(Job) /\ Len(add) = k /\ \A i \in 1..k : add[i] = new[i]
  BY <1>5, <1>6
<1>9. /\ jobs' \in Seq(Job) /\ Len(jobs') = n + k
      /\ \A i \in Queue : jobs'[i] = jobs[i]
      /\ \A i \in 1..k : jobs'[n + i] = new[i]
  <2> HIDE DEF add
  <2> QED
    BY <1>6, <1>7, <1>8 DEF Queue, add
<1> HIDE DEF add, n
<1>10. /\ Queue \subseteq Queue'
       /\ \A i \in Queue' : \/ i \in Queue /\ jobs'[i] = jobs[i]
                            \/ i = n + 1 /\ i \notin Queue /\ jobs'[i] = new[1]
                            \/ i = n + 2 /\ i \notin Queue /\ Len(new) = 2 /\ jobs'[i] = new[2]
       /\ k = Len(new) => n + 1 \in Queue' /\ jobs'[n + 1] = new[1]
       /\ k = Len(new) /\ k = 2 => n + 2 \in Queue' /\ jobs'[n + 2] = new[2]
  <2>1. k \in {0, 1, 2} /\ k <= Len(new)
    BY <1>5, <1>6
  <2>2. \A i \in Queue' : i \in Queue \/ (i = n + 1 /\ i \notin Queue /\ k >= 1)
                                      \/ (i = n + 2 /\ i \notin Queue /\ k = 2)
    BY <1>7, <1>9, <2>1 DEF Queue, n
  <2>3. Queue \subseteq Queue'
    BY <1>7, <1>9, <2>1 DEF Queue, n
  <2>4. k >= 1 => jobs'[n + 1] = new[1]
    BY <1>9, <2>1
  <2>5. k = 2 => jobs'[n + 2] = new[2] /\ Len(new) = 2
    BY <1>5, <1>9, <2>1
  <2>6. (k >= 1 => n + 1 \in Queue') /\ (k = 2 => n + 2 \in Queue')
    BY <1>7, <1>9, <2>1 DEF Queue
  <2> QED
    BY <1>5, <1>9, <2>1, <2>2, <2>3, <2>4, <2>5, <2>6
<1>11. \A i \in Queue' :
          \/ i \in Queue /\ jobs'[i] = jobs[i]
          \/ /\ i \notin Queue /\ JobFor(jobs'[i], st.running, groups)
             /\ jobs'[i].kind = "proposal" =>
                  /\ jobs'[i].group # {} /\ jobs'[i].group \subseteq set
             /\ jobs'[i].kind \in {"reflection", "proposal"}
  BY <1>5, <1>10
<1>12. TypeOK'
  <2>1. asked' \in Seq(Records) /\ settling' \in BOOLEAN /\ rerun' \in BOOLEAN
    <3>1. asked' = <<>> => asked' \in Seq(Records)
      OBVIOUS
    <3>2. asked' = asked => asked' \in Seq(Records)
      BY DEF TypeOK
    <3>3. settling \in BOOLEAN /\ rerun \in BOOLEAN
      BY DEF TypeOK
    <3> QED
      BY <1>6, <3>1, <3>2, <3>3
  <2>2. faults' \in 0..MaxFaults
    BY <1>6, EngineAssumption DEF TypeOK
  <2> QED
    BY <1>1, <1>9, <2>1, <2>2 DEF TypeOK
<1>13. \A S : Whole(S) => Whole(S)'
  BY <1>10 DEF Whole, Reflects
<1>14. \A r : Fated(r) => Fated(r)'
  BY <1>1, <1>10 DEF Fated
<1>15. settling' => asked' = asked /\ k = Len(new) /\ Whole(set)' /\ rerun' = rerun
  <2> SUFFICES ASSUME settling' PROVE asked' = asked /\ k = Len(new) /\ Whole(set)' /\ rerun' = rerun
    OBVIOUS
  <2>1. k = Len(new) /\ asked' = asked /\ rerun' = rerun
    BY <1>1, <1>6
  <2>2. PICK i \in Queue' : /\ jobs'[i].kind = "reflection" /\ jobs'[i].set = set
                            /\ jobs'[i].groups = groups
    BY <1>5, <1>10, <2>1 DEF JobFor, set
  <2>3. \A g \in groups :
          \E l \in Queue' : jobs'[l].kind = "proposal" /\ jobs'[l].group = g /\ jobs'[l].set = set
    <3> SUFFICES ASSUME NEW g \in groups
                 PROVE  \E l \in Queue' : jobs'[l].kind = "proposal" /\ jobs'[l].group = g /\ jobs'[l].set = set
      OBVIOUS
    <3>1. Len(new) = 2 /\ g = new[2].group
      BY <1>5
    <3> QED
      BY <1>5, <1>10, <2>1, <3>1 DEF JobFor, set
  <2>4. set' = set
    BY <1>1 DEF set
  <2> QED
    BY <2>1, <2>2, <2>3, <2>4 DEF Whole, Reflects
<1>16. KInv'
  <2>1. Sound(st)' /\ Covers(st)' /\ Sound(file)' /\ Covers(file)'
    BY <1>1, <1>13, <1>14 DEF IInv, KInv, Sound, Covers
  <2>2. AskedIsPending'
    <3>1. CASE asked' = <<>>
      BY <3>1 DEF AskedIsPending
    <3>2. CASE asked' = asked
      BY <1>1, <3>2 DEF IInv, KInv, AskedIsPending
    <3> QED
      BY <1>6, <3>1, <3>2
  <2>3. settling' => asked' # <<>> /\ Whole(st.running.set)'
    BY <1>1, <1>15 DEF set
  <2>4. JobsGood'
    BY <1>3, <1>11 DEF IInv, KInv, JobsGood, JobFor, set
  <2> QED
    BY <1>1, <2>1, <2>2, <2>3, <2>4 DEF IInv, KInv
<1>17. \A S : Open(S)' <=> Open(S)
  BY <1>1 DEF Open
<1>18. \A i \in Queue' : i \notin Queue => Own(jobs[i])'
  BY <1>1, <1>2, <1>11 DEF Own, JobFor
<1>19. ASSUME Clean
       PROVE  /\ \A i \in Queue : \/ jobs[i].set = set /\ jobs[i].started = st.running.started
                                  \/ ~Open(jobs[i].set) /\ jobs[i].set \cap set = {} /\ jobs[i].set # set
              /\ set \subseteq noted /\ Cardinality(set) <= Room /\ set \cap Large = {}
              /\ set \cap parked = {} /\ Open(set)
  <2>1. /\ \A i \in Queue : Open(jobs[i].set) => Own(jobs[i])
        /\ Distinct(asked) /\ parked \cap Elems(st.pending) = {}
    BY <1>19 DEF Clean, IInv, CInv
  <2>2. Cardinality(set) = Len(asked)
    <3>1. asked \in Seq(Records)
      BY DEF TypeOK
    <3> QED
      BY <1>2, <2>1, <3>1, DistinctCount
  <2>3. set \subseteq noted
    BY <1>2, <1>19 DEF Clean, IInv, KInv
  <2>4. \A i \in Queue : jobs[i].set # {}
    BY DEF IInv, KInv, JobsGood
  <2>5. \A i \in Queue : ~Open(jobs[i].set) => jobs[i].set \cap set = {} /\ jobs[i].set # set
    BY <1>2, <2>4 DEF Open
  <2> QED
    BY <1>1, <1>2, <1>3, <2>1, <2>2, <2>3, <2>5 DEF Fits, Own, Open, set
<1>20. CInv'
  <2> SUFFICES ASSUME ~unsaved', ~again' PROVE CInv'
    BY DEF CInv
  <2>1. Clean /\ ~unsaved /\ ~again
    BY <1>1 DEF Clean
  <2>2. Distinct(st'.pending) /\ Distinct(asked') /\ parked' \cap Elems(st'.pending) = {}
        /\ parked' \subseteq noted'
    <3>1. Distinct(<<>>)
      BY DEF Distinct
    <3> QED
      BY <1>1, <1>6, <2>1, <3>1 DEF IInv, CInv
  <2>3. \A i \in Queue' :
          /\ jobs'[i].set \subseteq noted'
          /\ Cardinality(jobs'[i].set) <= Room /\ jobs'[i].set \cap Large = {}
          /\ Open(jobs[i].set)' => Own(jobs[i])'
    <3> SUFFICES ASSUME NEW i \in Queue'
                 PROVE  /\ jobs'[i].set \subseteq noted'
                        /\ Cardinality(jobs'[i].set) <= Room /\ jobs'[i].set \cap Large = {}
                        /\ Open(jobs[i].set)' => Own(jobs[i])'
      OBVIOUS
    <3>1. CASE i \in Queue /\ jobs'[i] = jobs[i]
      BY <1>1, <1>17, <2>1, <3>1 DEF IInv, CInv, Own, Open
    <3>2. CASE i \notin Queue /\ JobFor(jobs'[i], st.running, groups)
      BY <1>1, <1>18, <1>19, <2>1, <3>2 DEF JobFor, set
    <3> QED
      BY <1>11, <3>1, <3>2
  <2>4. \A i, l \in Queue' :
          /\ jobs'[i].set = jobs'[l].set \/ jobs'[i].set \cap jobs'[l].set = {}
          /\ jobs'[i].set = jobs'[l].set => jobs'[i].started = jobs'[l].started
    <3>1. \A i \in Queue' : \/ i \in Queue /\ jobs'[i] = jobs[i]
                            \/ jobs'[i].set = set /\ jobs'[i].started = st.running.started
      BY <1>11 DEF JobFor, set
    <3>2. \A i, l \in Queue : /\ jobs[i].set = jobs[l].set \/ jobs[i].set \cap jobs[l].set = {}
                              /\ jobs[i].set = jobs[l].set => jobs[i].started = jobs[l].started
      BY <2>1 DEF IInv, CInv
    <3> QED
      BY <1>19, <2>1, <3>1, <3>2
  <2> QED
    BY <2>2, <2>3, <2>4 DEF CInv
<1>21. DInv'
  <2> SUFFICES ASSUME ~unsaved', ~again', ~rerun' PROVE DInv'
    BY DEF DInv
  <2>1. Clean /\ settling' /\ ~rerun /\ ~unsaved /\ ~again
    BY <1>1, <1>6 DEF Clean
  <2>2. /\ \A i \in Queue : ~Open(jobs[i].set)
        /\ \A i, l \in Queue : i # l => Path(jobs[i]) # Path(jobs[l])
        /\ \A d \in cloud : \E i \in Queue : jobs[i].status # "pending" /\ Path(jobs[i]) = d.path
        /\ \A i \in Queue : jobs[i].status # "refused" /\ jobs[i].set \cap parked = {}
    BY <1>1, <2>1 DEF IInv, DInv
  <2>3. \A i \in Queue : jobs[i].set \cap set = {} /\ jobs[i].set # set
    BY <1>19, <2>1, <2>2
  <2>4. ASSUME NEW i \in Queue, NEW l \in Queue', l \notin Queue
        PROVE  Path(jobs'[i]) # Path(jobs'[l])
    <3>1. /\ jobs'[i] = jobs[i] /\ jobs[i].kind \in {"reflection", "proposal"}
          /\ jobs[i].kind = "proposal" => jobs[i].group # {} /\ jobs[i].group \subseteq jobs[i].set
      <4>1. jobs[i] \in Job
        BY <1>7 DEF Queue
      <4> QED
        BY <1>9, <4>1 DEF IInv, KInv, JobsGood, Job
    <3>2. /\ jobs'[l].kind \in {"reflection", "proposal"} /\ jobs'[l].set = set
          /\ jobs'[l].kind = "proposal" => jobs'[l].group \subseteq set
      BY <1>11, <2>4 DEF JobFor, set
    <3>3. CASE jobs[i].kind = "proposal" /\ jobs'[l].kind = "proposal"
      BY <2>3, <3>1, <3>2, <3>3 DEF Path
    <3>4. CASE jobs[i].kind = "reflection" /\ jobs'[l].kind = "reflection"
      BY <2>3, <3>1, <3>2, <3>4 DEF Path
    <3> QED
      BY <3>1, <3>2, <3>3, <3>4 DEF Path
  <2>5. \A i, l \in Queue' : i # l => Path(jobs[i])' # Path(jobs[l])'
    <3> SUFFICES ASSUME NEW i \in Queue', NEW l \in Queue', i # l
                 PROVE  Path(jobs'[i]) # Path(jobs'[l])
      BY DEF Path
    <3>1. CASE i \in Queue /\ l \in Queue
      BY <1>9, <2>2, <3>1
    <3>2. CASE i \notin Queue /\ l \notin Queue
      BY <1>5, <1>10, <3>2 DEF Path
    <3>3. CASE i \in Queue /\ l \notin Queue
      BY <2>4, <3>3
    <3>4. CASE i \notin Queue /\ l \in Queue
      BY <2>4, <3>4
    <3> QED
      BY <3>1, <3>2, <3>3, <3>4
  <2>6. \A d \in cloud' : \E i \in Queue' : jobs'[i].status # "pending" /\ Path(jobs[i])' = d.path
    BY <1>1, <1>9, <1>10, <2>2 DEF Path
  <2>7. \A i \in Queue' : jobs'[i].status # "refused" /\ jobs'[i].set \cap parked' = {}
    BY <1>1, <1>11, <1>19, <2>1, <2>2 DEF JobFor, set
  <2> QED
    BY <2>1, <2>5, <2>6, <2>7 DEF DInv
<1>22. EInv'
  <2> SUFFICES ASSUME ~unsaved', ~forgot', ~rerun' PROVE EInv'
    BY DEF EInv
  <2>1. settling' /\ ~rerun /\ ~unsaved /\ ~forgot
    BY <1>1, <1>6
  <2>2. /\ \A i \in Queue : jobs[i].kind = "reflection" => jobs[i].set \in Elems(st.processed)
        /\ st.running.halved \/ set \notin Elems(st.processed)
        /\ \A i, l \in Queue :
              /\ jobs[i].kind = "reflection" /\ jobs[l].kind = "reflection"
              /\ jobs[i].set = jobs[l].set /\ ~jobs[i].halved /\ ~jobs[l].halved
              => jobs[i].started = jobs[l].started
    BY <1>1, <1>2, <2>1 DEF IInv, EInv, set
  <2>3. \A i \in Queue' : \/ i \in Queue /\ jobs'[i] = jobs[i]
                          \/ /\ Own(jobs[i])' /\ jobs'[i].set = set /\ jobs'[i].halved = st.running.halved
                             /\ jobs'[i].started = st.running.started
    BY <1>11, <1>18 DEF JobFor, set
  <2>4. \A i \in Queue' : jobs'[i].kind = "reflection" =>
          jobs'[i].set \in Elems(st'.processed) \/ (settling' /\ Own(jobs[i])')
    BY <1>1, <2>1, <2>2, <2>3
  <2>5. \A i, l \in Queue' :
          /\ jobs'[i].kind = "reflection" /\ jobs'[l].kind = "reflection"
          /\ jobs'[i].set = jobs'[l].set /\ ~jobs'[i].halved /\ ~jobs'[l].halved
          => jobs'[i].started = jobs'[l].started
    BY <2>2, <2>3
  <2> QED
    BY <2>1, <2>4, <2>5 DEF EInv
<1> QED
  BY <1>12, <1>16, <1>20, <1>21, <1>22 DEF IInv

-----------------------------------------------------------------------------
(***************************************************************************)
(* Settling, delivery, restart.                                            *)
(***************************************************************************)

LEMMA SettleKeeps ==
    ASSUME TypeOK, IInv, Settle
    PROVE  TypeOK' /\ IInv'
<1> DEFINE set == st.running.set
           more == Append(st.processed, set)
           kept == Newest(more, ProcessedCap)
           left == Without(st.pending, set)
           late == ArmRetry(Settled, st.running)
<1>1. /\ settling /\ settling' = FALSE /\ asked' = <<>>
      /\ forgot' = (forgot \/ Len(st.processed) = ProcessedCap)
      /\ UNCHANGED <<jobs, cloud, starts, notes, parked, rerun, again>>
  BY DEF Settle
<1>2. /\ st.running # NoRun /\ st.running \in Run /\ st \in State /\ set \in Sets /\ Whole(set)
      /\ st.pending \in Seq(Records) /\ st.processed \in Seq(Sets) /\ ProcessedCap \in Nat \ {0}
  <2>1. st.running # NoRun /\ st \in State /\ Whole(set) /\ ProcessedCap \in Nat \ {0}
    BY <1>1, EngineAssumption DEF IInv, KInv, AskedIsPending, TypeOK
  <2> QED
    BY <2>1, StateIs
<1>3. more \in Seq(Sets) /\ Len(more) = Len(st.processed) + 1 /\ Elems(more) = Elems(st.processed) \cup {set}
  BY <1>2, AppendIs
<1>4. /\ kept \in Seq(Sets) /\ Elems(kept) \subseteq Elems(st.processed) \cup {set}
      /\ Len(kept) <= ProcessedCap
      /\ ~forgot' => ~forgot /\ Elems(kept) = Elems(st.processed) \cup {set}
  <2> HIDE DEF more
  <2>1. /\ kept \in Seq(Sets) /\ Len(kept) <= ProcessedCap /\ Elems(kept) \subseteq Elems(more)
        /\ Len(more) <= ProcessedCap => kept = more
    BY <1>2, <1>3, NewestIs
  <2>2. ~forgot' => ~forgot /\ Len(more) <= ProcessedCap
    <3>1. Len(st.processed) <= ProcessedCap /\ Len(st.processed) \in Nat
      BY <1>2 DEF IInv, KInv, Sound
    <3>2. ~forgot' => ~forgot /\ Len(st.processed) # ProcessedCap
      BY <1>1
    <3> QED
      BY <1>2, <1>3, <3>1, <3>2
  <2> HIDE DEF kept
  <2> QED
    BY <1>3, <2>1, <2>2
<1>5. /\ left \in Seq(Records) /\ Elems(left) = Elems(st.pending) \ set
      /\ Distinct(st.pending) => Distinct(left)
  BY <1>2, WithoutIs
<1>6. Settled = [st EXCEPT !.processed = kept, !.pending = left, !.running = NoRun]
  BY <1>2 DEF Settled, State
<1> HIDE DEF kept, left, set, more
<1>7. /\ Settled \in State /\ Settled.processed = kept /\ Settled.pending = left
      /\ Settled.running = NoRun /\ Settled.skipped = st.skipped
  BY <1>2, <1>4, <1>5, <1>6 DEF State
<1>8. /\ late \in State /\ late.processed = kept /\ late.running = NoRun
      /\ Elems(late.pending) = Elems(st.pending) \ set
      /\ Elems(late.skipped) \subseteq Elems(st.skipped) \cup {set}
  <2>1. PICK s : s = Settled
    OBVIOUS
  <2>2. PICK t : t = ArmRetry(s, st.running)
    OBVIOUS
  <2>3. /\ t \in State /\ t.processed = s.processed
        /\ \/ /\ t.running = NoRun /\ Elems(t.pending) = Elems(s.pending) \ set
              /\ Elems(t.skipped) \subseteq Elems(s.skipped) \cup {set}
           \/ t = s /\ s.running = NoRun
           \/ s.running # NoRun
    <3>1. PICK run \in Run : run = st.running
      BY <1>2
    <3>2. s \in State /\ t = ArmRetry(s, run)
      BY <1>7, <2>1, <2>2, <3>1
    <3>3. /\ t \in State /\ t.processed = s.processed
          /\ \/ /\ t.running = NoRun /\ Elems(t.pending) = Elems(s.pending) \ run.set
                /\ Elems(t.skipped) \subseteq Elems(s.skipped) \cup {run.set}
             \/ t = s /\ s.running = NoRun
             \/ s.running # NoRun
      BY <3>2, RetryIs
    <3> QED
      BY <3>1, <3>3 DEF set
  <2>4. t = late
    BY <2>1, <2>2
  <2>5. Elems(s.pending) \ set = Elems(st.pending) \ set
    BY <1>5, <1>7, <2>1
  <2> HIDE DEF late
  <2> QED
    BY <1>5, <1>7, <2>1, <2>3, <2>4, <2>5
<1>9. /\ st' \in {Settled, late} /\ file' \in {Settled, late, file}
      /\ noted' = noted \cup Elems(file'.pending)
      /\ ~unsaved' => st' = Settled /\ file' = Settled /\ unsaved = FALSE
      /\ unsaved' \in BOOLEAN
      /\ faults' = faults \/ (faults < MaxFaults /\ faults' = faults + 1)
  <2>1. CASE SaveOk(Settled)
    BY <2>1 DEF SaveOk, TypeOK
  <2>2. CASE ~SaveOk(Settled)
    BY <2>2 DEF Settle
  <2> QED
    BY <2>1, <2>2
<1> HIDE DEF late
<1>10. /\ st' \in State /\ file' \in State
       /\ Elems(st'.pending) = Elems(st.pending) \ set /\ st'.running = NoRun /\ st'.processed = kept
  BY <1>5, <1>7, <1>8, <1>9 DEF TypeOK
<1>11. TypeOK'
  <2>1. noted' \subseteq Records
    BY <1>9, <1>10, StateIs DEF TypeOK
  <2>2. asked' \in Seq(Records) /\ settling' \in BOOLEAN
    <3>1. asked' \in Seq(Records)
      BY <1>1
    <3> QED
      BY <1>1, <3>1
  <2>3. forgot' \in BOOLEAN
    BY <1>1 DEF TypeOK
  <2>4. faults' \in 0..MaxFaults
    BY <1>9, EngineAssumption DEF TypeOK
  <2> QED
    BY <1>1, <1>9, <1>10, <2>1, <2>2, <2>3, <2>4 DEF TypeOK
<1>12. \A S : Whole(S)' <=> Whole(S)
  BY <1>1 DEF Whole, Queue, Reflects
<1>13. \A r : (Fated(r)' <=> Fated(r)) /\ (r \in set => Fated(r))
  BY <1>1, <1>2 DEF Fated, Whole, Queue, Reflects
<1>14. \A s \in {Settled, late} :
          /\ s.running = NoRun /\ Len(s.processed) <= ProcessedCap
          /\ \A S \in Elems(s.processed) : Whole(S)
          /\ \A S \in Elems(s.skipped) : \A r \in S : Fated(r)
          /\ Elems(s.pending) = Elems(st.pending) \ set
          /\ \A r \in noted : r \in Elems(s.pending) \/ Fated(r)
  <2>1. /\ \A S \in Elems(kept) : Whole(S)
        /\ \A S \in Elems(st.skipped) \cup {set} : \A r \in S : Fated(r)
        /\ \A r \in noted : r \in Elems(st.pending) \ set \/ Fated(r)
    BY <1>2, <1>4, <1>13 DEF IInv, KInv, Sound, Covers
  <2>2. /\ Settled.running = NoRun /\ Settled.processed = kept /\ Settled.skipped = st.skipped
        /\ Elems(Settled.pending) = Elems(st.pending) \ set
    BY <1>5, <1>7
  <2> QED
    BY <1>4, <1>8, <2>1, <2>2
<1>15. Sound(st)' /\ Sound(file)'
  <2>1. \A s \in {Settled, late} : Sound(s)
    BY <1>14 DEF Sound
  <2>2. Sound(file)
    BY DEF IInv, KInv
  <2>3. PICK a, b : a = st' /\ b = file'
    OBVIOUS
  <2>4. Sound(a) /\ Sound(b)
    BY <1>9, <2>1, <2>2, <2>3
  <2> QED
    BY <1>12, <1>13, <2>3, <2>4 DEF Sound
<1>16. \A r \in noted' : /\ r \in Elems(st'.pending) \/ Fated(r)
                         /\ r \in Elems(file'.pending) \/ Fated(r)
  <2>1. \A r \in noted' : r \in noted \/ r \in Elems(st.pending) \ set
    BY <1>9, <1>14 DEF IInv, KInv
  <2>2. \A r \in noted : /\ r \in Elems(st'.pending) \/ Fated(r)
                         /\ r \in Elems(file'.pending) \/ Fated(r)
    BY <1>9, <1>14 DEF IInv, KInv, Covers
  <2>3. \A r \in noted' : r \in Elems(file'.pending) \/ r \in noted
    BY <1>9
  <2> QED
    BY <1>10, <2>1, <2>2, <2>3
<1>17. KInv'
  <2>1. Covers(st)' /\ Covers(file)'
    BY <1>13, <1>16 DEF Covers
  <2>2. Elems(file'.pending) \subseteq noted' /\ (~unsaved' => st' = file')
    BY <1>9
  <2>3. AskedIsPending' /\ ~settling' /\ JobsGood'
    BY <1>1 DEF IInv, KInv, AskedIsPending, JobsGood, Queue
  <2> QED
    BY <1>15, <2>1, <2>2, <2>3 DEF KInv
<1>18. ASSUME ~unsaved', ~again' PROVE Clean /\ \A i \in Queue : ~Open(jobs[i].set)'
  <2>1. Clean
    BY <1>1, <1>9, <1>18 DEF Clean
  <2>2. \A i \in Queue : Open(jobs[i].set) => jobs[i].set = set
    BY <2>1 DEF IInv, CInv, Clean, Own, set
  <2> QED
    BY <1>1, <1>10, <2>1, <2>2 DEF Open
<1>19. CInv'
  <2> SUFFICES ASSUME ~unsaved', ~again' PROVE CInv'
    BY DEF CInv
  <2>1. ~unsaved /\ ~again /\ noted \subseteq noted'
    BY <1>9, <1>18 DEF Clean
  <2>2. Distinct(st'.pending) /\ Distinct(asked') /\ parked' \cap Elems(st'.pending) = {}
    BY <1>1, <1>5, <1>7, <1>9, <1>10, <2>1 DEF IInv, CInv, Distinct
  <2> QED
    BY <1>1, <1>18, <2>1, <2>2 DEF IInv, CInv, Queue
<1>20. DInv'
  BY <1>1, <1>9, <1>18 DEF IInv, DInv, Queue, Path
<1>21. EInv'
  <2> SUFFICES ASSUME ~unsaved', ~forgot', ~rerun' PROVE EInv'
    BY DEF EInv
  <2>1. ~unsaved /\ ~forgot /\ ~rerun /\ Elems(st'.processed) = Elems(st.processed) \cup {set}
    BY <1>1, <1>4, <1>9, <1>10
  <2>2. \A i \in Queue : jobs[i].kind = "reflection" => jobs[i].set \in Elems(st'.processed)
    BY <2>1 DEF IInv, EInv, Own, set
  <2> QED
    BY <1>1, <1>10, <2>1, <2>2 DEF IInv, EInv, Queue
<1> QED
  BY <1>11, <1>17, <1>19, <1>20, <1>21 DEF IInv

LEMMA DeliverKeeps ==
    ASSUME TypeOK, IInv, Deliver
    PROVE  TypeOK' /\ IInv'
<1>1. PICK i \in 1..Len(jobs), x \in {"stored", "refused"} :
        /\ jobs[i].status = "pending"
        /\ jobs' = [jobs EXCEPT ![i].status = x]
        /\ \/ /\ {d \in cloud : d.path = Path(jobs[i])} = {} /\ x = "stored"
              /\ cloud' = cloud \cup {[path |-> Path(jobs[i]), body |-> Body(jobs[i])]}
           \/ {d \in cloud : d.path = Path(jobs[i])} # {} /\ cloud' = cloud
        /\ UNCHANGED <<eng, starts, notes, faults, hist>>
  <2>1. PICK i \in 1..Len(jobs) :
          LET j == jobs[i]  there == {d \in cloud : d.path = Path(j)} IN
          /\ j.status = "pending"
          /\ \/ /\ there = {}
                /\ cloud' = cloud \cup {[path |-> Path(j), body |-> Body(j)]}
                /\ jobs' = [jobs EXCEPT ![i].status = "stored"]
             \/ /\ there # {}
                /\ jobs' = [jobs EXCEPT ![i].status =
                      IF \E d \in there : d.body = Body(j) THEN "stored" ELSE "refused"]
                /\ UNCHANGED cloud
          /\ UNCHANGED <<eng, starts, notes, faults, hist>>
    BY DEF Deliver
  <2> DEFINE there == {d \in cloud : d.path = Path(jobs[i])}
             x == IF there = {} \/ \E d \in there : d.body = Body(jobs[i]) THEN "stored" ELSE "refused"
  <2>2. x \in {"stored", "refused"} /\ jobs' = [jobs EXCEPT ![i].status = x]
    BY <2>1
  <2>3. there = {} => x = "stored"
    OBVIOUS
  <2> HIDE DEF x
  <2> QED
    BY <2>1, <2>2, <2>3
<1>2. /\ jobs \in Seq(Job) /\ jobs[i] \in Job /\ i \in Queue
  BY DEF TypeOK, Queue
<1> DEFINE j == [jobs[i] EXCEPT !.status = x]
<1>3. /\ j \in Job /\ j.kind = jobs[i].kind /\ j.set = jobs[i].set /\ j.group = jobs[i].group
      /\ j.started = jobs[i].started /\ j.halved = jobs[i].halved /\ j.groups = jobs[i].groups
      /\ j.status = x
  BY <1>2 DEF Job
<1>4. jobs' = [jobs EXCEPT ![i] = j]
  BY <1>1
<1> HIDE DEF j
<1>5. /\ jobs' \in Seq(Job) /\ Len(jobs') = Len(jobs) /\ jobs'[i] = j
      /\ \A l \in Queue : l # i => jobs'[l] = jobs[l]
  BY <1>2, <1>3, <1>4 DEF Queue
<1>6. /\ Queue' = Queue
      /\ \A l \in Queue :
            /\ jobs'[l].kind = jobs[l].kind /\ jobs'[l].set = jobs[l].set
            /\ jobs'[l].group = jobs[l].group /\ jobs'[l].started = jobs[l].started
            /\ jobs'[l].halved = jobs[l].halved /\ jobs'[l].groups = jobs[l].groups
            /\ Path(jobs'[l]) = Path(jobs[l])
  BY <1>3, <1>5 DEF Queue, Path
<1>7. UNCHANGED <<st, file, asked, settling, starts, notes, faults, noted, parked, unsaved,
                  rerun, again, forgot>>
  BY <1>1 DEF eng, hist
<1>8. TypeOK'
  <2>1. /\ Path(jobs[i]) \in {"reflection", "proposal"} \X Sets
        /\ Body(jobs[i]) \in (1..MaxStarts) \X {0, 1, 2}
    BY <1>2 DEF Path, Body, Job
  <2>2. cloud' \subseteq [path : {"reflection", "proposal"} \X Sets,
                          body : (1..MaxStarts) \X {0, 1, 2}]
    BY <1>1, <2>1 DEF TypeOK
  <2> QED
    BY <1>5, <1>7, <2>2 DEF TypeOK
<1>9. \A S : (Whole(S)' <=> Whole(S)) /\ (Open(S)' <=> Open(S))
  BY <1>6, <1>7 DEF Whole, Reflects, Open
<1>10. \A r : Fated(r)' <=> Fated(r)
  BY <1>6, <1>7 DEF Fated
<1>11. KInv'
  <2>1. Sound(st)' /\ Covers(st)' /\ Sound(file)' /\ Covers(file)'
    BY <1>7, <1>9, <1>10 DEF IInv, KInv, Sound, Covers
  <2>2. AskedIsPending'
    BY <1>7 DEF IInv, KInv, AskedIsPending
  <2>3. JobsGood'
    BY <1>6 DEF IInv, KInv, JobsGood
  <2>4. settling' => asked' # <<>> /\ Whole(st.running.set)'
    <3>1. PICK S : S = st.running.set
      OBVIOUS
    <3>2. settling' => asked' # <<>> /\ Whole(S)'
      BY <1>7, <1>9, <3>1 DEF IInv, KInv
    <3> QED
      BY <1>7, <3>1, <3>2 DEF Whole, Reflects
  <2> QED
    BY <1>7, <2>1, <2>2, <2>3, <2>4 DEF IInv, KInv
<1>12. \A l \in Queue : (Open(jobs[l].set)' <=> Open(jobs[l].set)) /\ (Own(jobs[l])' <=> Own(jobs[l]))
  BY <1>6, <1>7 DEF Own, Open
<1>13. CInv'
  <2> SUFFICES ASSUME ~unsaved, ~again PROVE CInv'
    BY <1>7 DEF CInv
  <2>1. \A l \in Queue :
          /\ jobs'[l].set \subseteq noted'
          /\ Cardinality(jobs'[l].set) <= Room /\ jobs'[l].set \cap Large = {}
          /\ Open(jobs[l].set)' => Own(jobs[l])'
    BY <1>6, <1>7, <1>12 DEF IInv, CInv
  <2>2. \A l, m \in Queue :
          /\ jobs'[l].set = jobs'[m].set \/ jobs'[l].set \cap jobs'[m].set = {}
          /\ jobs'[l].set = jobs'[m].set => jobs'[l].started = jobs'[m].started
    BY <1>6 DEF IInv, CInv
  <2> QED
    BY <1>6, <1>7, <2>1, <2>2 DEF IInv, CInv
<1>14. DInv'
  <2> SUFFICES ASSUME ~unsaved, ~again, ~rerun PROVE DInv'
    BY <1>7 DEF DInv
  <2>1. /\ \A l \in Queue : Open(jobs[l].set) => settling
        /\ \A l, m \in Queue : l # m => Path(jobs[l]) # Path(jobs[m])
        /\ \A d \in cloud : \E l \in Queue : jobs[l].status # "pending" /\ Path(jobs[l]) = d.path
        /\ \A l \in Queue : jobs[l].status # "refused" /\ jobs[l].set \cap parked = {}
    BY DEF IInv, DInv
  <2>2. {d \in cloud : d.path = Path(jobs[i])} = {}
    BY <1>1, <1>2, <2>1
  <2>3. x = "stored" /\ cloud' = cloud \cup {[path |-> Path(jobs[i]), body |-> Body(jobs[i])]}
    BY <1>1, <2>2
  <2>4. \A l \in Queue : jobs'[l].status = jobs[l].status \/ (l = i /\ jobs'[l].status = "stored")
    BY <1>3, <1>5, <2>3
  <2>5. \A d \in cloud' : \E l \in Queue : jobs'[l].status # "pending" /\ Path(jobs'[l]) = d.path
    <3> SUFFICES ASSUME NEW d \in cloud'
                 PROVE  \E l \in Queue : jobs'[l].status # "pending" /\ Path(jobs'[l]) = d.path
      OBVIOUS
    <3>1. CASE d \in cloud
      <4>1. PICK l \in Queue : jobs[l].status # "pending" /\ Path(jobs[l]) = d.path
        BY <2>1, <3>1
      <4> QED
        BY <1>6, <2>4, <4>1
    <3>2. CASE d = [path |-> Path(jobs[i]), body |-> Body(jobs[i])]
      BY <1>2, <1>3, <1>5, <1>6, <2>3, <3>2
    <3> QED
      BY <2>3, <3>1, <3>2
  <2>6. \A l \in Queue : jobs'[l].status # "refused" /\ jobs'[l].set \cap parked' = {}
    BY <1>6, <1>7, <2>1, <2>4
  <2>7. \A l, m \in Queue : l # m => Path(jobs'[l]) # Path(jobs'[m])
    BY <1>6, <2>1
  <2>8. \A l \in Queue : Open(jobs[l].set)' => settling'
    BY <1>7, <1>12, <2>1
  <2> QED
    BY <1>6, <2>5, <2>6, <2>7, <2>8 DEF DInv, Path
<1>15. EInv'
  <2> SUFFICES ASSUME ~unsaved, ~forgot, ~rerun PROVE EInv'
    BY <1>7 DEF EInv
  <2>1. \A l \in Queue : jobs'[l].kind = "reflection" =>
          jobs'[l].set \in Elems(st'.processed) \/ (settling' /\ Own(jobs[l])')
    BY <1>6, <1>7, <1>12 DEF IInv, EInv
  <2>2. \A l, m \in Queue :
          /\ jobs'[l].kind = "reflection" /\ jobs'[m].kind = "reflection"
          /\ jobs'[l].set = jobs'[m].set /\ ~jobs'[l].halved /\ ~jobs'[m].halved
          => jobs'[l].started = jobs'[m].started
    BY <1>6 DEF IInv, EInv
  <2> QED
    BY <1>6, <1>7, <2>1, <2>2 DEF IInv, EInv
<1> QED
  BY <1>8, <1>11, <1>13, <1>14, <1>15 DEF IInv

\* What the next engine reads is as good as what the last one had.
LEMMA RestartKeeps ==
    ASSUME TypeOK, IInv, Restart
    PROVE  TypeOK' /\ IInv'
<1>1. /\ faults < MaxFaults /\ faults' = faults + 1
      /\ st' = file /\ asked' = <<>> /\ settling' = FALSE /\ rerun' = (rerun \/ settling)
      /\ UNCHANGED <<file, jobs, cloud, starts, notes, noted, parked, unsaved, again, forgot>>
  BY DEF Restart
<1>2. asked' \in Seq(Records) /\ Distinct(asked') /\ AskedIsPending'
  <2>1. asked' \in Seq(Records)
    BY <1>1
  <2> QED
    BY <1>1, <2>1 DEF Distinct, AskedIsPending
<1>3. TypeOK'
  <2>1. faults' \in 0..MaxFaults
    BY <1>1, EngineAssumption DEF TypeOK
  <2>2. rerun' \in BOOLEAN /\ settling' \in BOOLEAN
    BY <1>1 DEF TypeOK
  <2> QED
    BY <1>1, <1>2, <2>1, <2>2 DEF TypeOK
<1>4. CASE unsaved
  <2>1. \A S : Whole(S)' <=> Whole(S)
    BY <1>1 DEF Whole, Queue, Reflects
  <2>2. \A r : Fated(r)' <=> Fated(r)
    BY <1>1 DEF Fated, Queue
  <2>3. Sound(st)' /\ Covers(st)' /\ Sound(file)' /\ Covers(file)'
    BY <1>1, <2>1, <2>2 DEF IInv, KInv, Sound, Covers
  <2>4. JobsGood' /\ Elems(file'.pending) \subseteq noted'
    BY <1>1 DEF IInv, KInv, JobsGood, Queue
  <2>5. KInv'
    BY <1>1, <1>2, <1>4, <2>3, <2>4 DEF KInv
  <2> QED
    BY <1>1, <1>3, <1>4, <2>5 DEF IInv, CInv, DInv, EInv
<1>5. CASE ~unsaved
  <2>1. st' = st /\ file' = file
    BY <1>1, <1>5 DEF IInv, KInv
  <2>2. IInv'
    <3>1. st' \in State /\ file' \in State
      BY <2>1 DEF TypeOK
    <3> QED
      BY <1>1, <1>2, <2>1, <3>1, QuietKeeps
  <2> QED
    BY <1>3, <2>2
<1> QED
  BY <1>4, <1>5

-----------------------------------------------------------------------------
(***************************************************************************)
(* The theorems.                                                           *)
(***************************************************************************)

LEMMA InitGood == Init => TypeOK /\ IInv
<1> SUFFICES ASSUME Init PROVE TypeOK /\ IInv
  OBVIOUS
<1>1. <<>> \in Seq(Records) /\ <<>> \in Seq(Sets) /\ <<>> \in Seq(Job)
  OBVIOUS
<1>2. Empty \in State /\ Elems(<<>>) = {} /\ Distinct(<<>>) /\ Len(<<>>) = 0
  BY <1>1 DEF Empty, State, Elems, Distinct
<1>3. st = Empty /\ file = Empty /\ asked = <<>> /\ settling = FALSE /\ jobs = <<>> /\ cloud = {}
      /\ starts = 0 /\ notes = 0 /\ faults = 0 /\ noted = {} /\ parked = {}
      /\ unsaved = FALSE /\ rerun = FALSE /\ again = FALSE /\ forgot = FALSE
  BY DEF Init
<1>4. Queue = {}
  BY <1>3 DEF Queue
<1>5. TypeOK
  <2>1. 0 \in 0..MaxStarts /\ 0 \in 0..MaxNotes /\ 0 \in 0..MaxFaults
    BY EngineAssumption
  <2> QED
    BY <1>1, <1>2, <1>3, <2>1 DEF TypeOK
<1>6. Sound(Empty) /\ Covers(Empty) /\ Elems(Empty.pending) = {} /\ Empty.running = NoRun
      /\ Distinct(Empty.pending)
  <2>1. ProcessedCap >= 0
    BY EngineAssumption
  <2> QED
    BY <1>2, <1>3, <2>1 DEF Sound, Covers, Empty
<1>7. KInv
  BY <1>2, <1>3, <1>4, <1>6 DEF KInv, AskedIsPending, JobsGood
<1>8. CInv /\ DInv /\ EInv
  BY <1>2, <1>3, <1>4, <1>6 DEF CInv, DInv, EInv
<1> QED
  BY <1>5, <1>7, <1>8 DEF IInv

LEMMA StepGood == TypeOK /\ IInv /\ [Next]_vars => (TypeOK /\ IInv)'
<1> SUFFICES ASSUME TypeOK, IInv, [Next]_vars PROVE (TypeOK /\ IInv)'
  OBVIOUS
<1>1. ASSUME NEW r \in Records, NoteAccepted(r) PROVE (TypeOK /\ IInv)'
  BY <1>1, NoteKeeps
<1>2. ASSUME NEW trigger \in {"auto", "manual"}, Start(trigger) \/ Resume(trigger)
      PROVE  (TypeOK /\ IInv)'
  BY <1>2, StartKeeps, ResumeKeeps
<1>3. CASE BackoffElapses
  BY <1>3, BackoffKeeps
<1>4. CASE Halve
  BY <1>4, HalveKeeps
<1>5. CASE AttemptFails
  BY <1>5, FailKeeps
<1>6. CASE AcceptResult
  BY <1>6, AcceptKeeps
<1>7. CASE Settle
  BY <1>7, SettleKeeps
<1>8. CASE Deliver
  BY <1>8, DeliverKeeps
<1>9. CASE Restart
  BY <1>9, RestartKeeps
<1>10. CASE UNCHANGED vars
  <2>1. st' = st /\ file' = file /\ asked' = asked /\ settling' = settling /\ rerun' = rerun
        /\ UNCHANGED <<jobs, cloud, starts, notes, faults, noted, parked, unsaved, again, forgot>>
    BY <1>10 DEF vars, eng, hist
  <2>2. TypeOK'
    BY <2>1 DEF TypeOK
  <2>3. AskedIsPending' /\ (Clean => Distinct(asked'))
    BY <2>1 DEF IInv, KInv, CInv, Clean, AskedIsPending
  <2>4. st' \in State /\ file' \in State /\ asked' \in Seq(Records)
    BY <2>2 DEF TypeOK
  <2> QED
    BY <2>1, <2>2, <2>3, <2>4, QuietKeeps
<1> QED
  BY <1>1, <1>2, <1>3, <1>4, <1>5, <1>6, <1>7, <1>8, <1>9, <1>10 DEF Next

\* Every reflection in the queue has a place in it.
LEMMA ReflectionAt ==
    /\ \A j \in Reflections : \E i \in Queue : jobs[i] = j /\ j.kind = "reflection"
    /\ \A i \in Queue : jobs[i] \in Elems(jobs)
    /\ \A i \in Queue : jobs[i].kind = "reflection" => jobs[i] \in Reflections
    /\ \A j \in Elems(jobs) : \E i \in Queue : jobs[i] = j
BY DEF Reflections, Elems, Queue

\* What the invariant says of the places of the queue, the properties say of its jobs.
LEMMA SafetyFollows == TypeOK /\ IInv => ReflectionSafety /\ NoSecondSummary
<1> SUFFICES ASSUME TypeOK, IInv PROVE ReflectionSafety /\ NoSecondSummary
  OBVIOUS
<1>1. NotedNeverLost
  <2> SUFFICES ASSUME NEW r \in noted
               PROVE  \/ r \in Elems(file.pending) \/ r \in parked
                      \/ \E j \in Reflections : r \in j.set
    BY DEF NotedNeverLost
  <2>1. r \in Elems(file.pending) \/ Fated(r)
    BY DEF IInv, KInv, Covers
  <2> QED
    BY <2>1, ReflectionAt DEF Fated
<1>2. AskedIsPending
  BY DEF IInv, KInv
<1>3. ProcessedIsWhole
  <2> SUFFICES ASSUME NEW S \in Elems(st.processed)
               PROVE  \E j \in Reflections :
                         /\ j.set = S
                         /\ \A g \in j.groups : \E k \in Elems(jobs) :
                               k.kind = "proposal" /\ k.group = g /\ k.set = S
    BY DEF ProcessedIsWhole
  <2>1. Whole(S)
    BY DEF IInv, KInv, Sound
  <2>2. PICK i \in Queue :
          /\ Reflects(i, S)
          /\ \A g \in jobs[i].groups :
                \E k \in Queue : jobs[k].kind = "proposal" /\ jobs[k].group = g /\ jobs[k].set = S
    BY <2>1 DEF Whole
  <2> QED
    BY <2>2, ReflectionAt DEF Reflects
<1>4. SummarisedOnce
  BY ReflectionAt DEF IInv, CInv, SummarisedOnce
<1>5. NoNeedlessConflict /\ OneFate
  BY ReflectionAt DEF IInv, DInv, NoNeedlessConflict, OneFate
<1>6. NoSecondSummary
  BY ReflectionAt DEF IInv, EInv, NoSecondSummary
<1> QED
  BY <1>1, <1>2, <1>3, <1>4, <1>5, <1>6 DEF ReflectionSafety

\* The invariant and what it implies, in every reachable state.
LEMMA Always == Spec => [](TypeOK /\ ReflectionSafety /\ NoSecondSummary)
<1>1. Init => TypeOK /\ IInv
  BY InitGood
<1>2. (TypeOK /\ IInv) /\ [Next]_vars => (TypeOK /\ IInv)'
  BY StepGood
<1>3. TypeOK /\ IInv => TypeOK /\ ReflectionSafety /\ NoSecondSummary
  BY SafetyFollows
<1> QED
  BY <1>1, <1>2, <1>3, PTL DEF Spec

\* From record to reflection (observation/reflection.ts): a record that has reached
\* the state file is never lost, a model is asked about pending records of the run
\* only, a processed set is whole, and, with the exceptions each part names, a record
\* is summarised once, without a needless conflict, and not given up as well.
THEOREM ReflectionsAreSafe == Spec => []ReflectionSafety
BY Always, PTL

\* A set that comes back is not summarised under a second startedAt while the
\* registry of processed sets goes back far enough (reflection.ts:1134).
THEOREM NoSetIsSummarisedTwice == Spec => []NoSecondSummary
BY Always, PTL

=============================================================================
