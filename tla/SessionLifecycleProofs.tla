----------------------- MODULE SessionLifecycleProofs -----------------------
(***************************************************************************)
(* Theorems of the session, for any sessions, leaves, entries and bounds:  *)
(* no result outlives its boundary, generations never go back, consumed    *)
(* entries were earned and stay on disk, and the resources of the runtime  *)
(* follow the session; of the proposals its commands decide, for any       *)
(* documents: what hides a record is an approval that stands, and no line  *)
(* of a document's history is lost; and of the evidence put into its       *)
(* prompts: a pack is shown at most once, and never on a replay.           *)
(*                                                                         *)
(* The session's invariant relates the places a fact lives in: the file,   *)
(* the memory of the coordinator and what is published of it; the stash    *)
(* and the navigation it was taken for; the last pair of leaves and the    *)
(* leaf Pi is at, which is what makes the duplicate filter right.          *)
(***************************************************************************)
EXTENDS MCSession, FiniteSetTheorems, SequenceTheorems, WellFoundedInduction, TLAPS

\* Without a runtime there is no session, and without a session no coordinator
\* is active; a file of a newer version lets no runtime be built.
Phased ==
    /\ ~runtime => work = {} /\ pi = NoSession
    /\ pi = NoSession => ~active /\ ~announced
    /\ file.form = "newer" => ~runtime

\* What is published was minted, and is on disk as far as the file is readable.
Minted ==
    /\ runtime => highest <= published /\ published <= mem.gen
    /\ file.form = "ok" => highest <= file.state.gen
    /\ file.form \in {"absent", "corrupt"} => highest = 0

\* What must stay consumed is in the memory that will be written next.
Owed ==
    /\ runtime => owed \subseteq mem.consumed
    /\ file.form \in {"absent", "corrupt"} => owed = {}

\* The stash belongs to the announced navigation, or to one that took place
\* and may be delivered again.
Stashed ==
    /\ announced => stash = nav /\ lastNav = NoTree
    /\ lastNav # NoTree => stash \subseteq earned

\* Pi never stands on the leaf the last navigation left; only a shutdown that was
\* cut short leaves the filter an older pair.
Apart ==
    /\ leaf \in known
    /\ runtime /\ ~torn /\ lastTree # NoTree =>
         active /\ lastTree.old \in known /\ lastTree.old # leaf
    /\ lastNav # NoTree => pi # NoSession /\ lastNav.old \in known /\ lastNav.old # leaf

\* A result in flight that would still be applied is of this epoch, unless the
\* boundary since has missed its generation.
Current ==
    /\ \A w \in work : /\ w.gen <= published
                       /\ w.gen = published /\ w.epoch # epoch => missed
    /\ torn /\ pi # NoSession => missed

\* The resources of a runtime that has not been torn down by halves.
Complete == runtime /\ ~torn => Built \subseteq open

IInv ==
    /\ TypeOK /\ Phased /\ Minted /\ Owed /\ Stashed /\ Apart /\ Current /\ Complete
    /\ ConsumedIsEarned /\ ConsumedIsKept /\ NoStaleResult /\ ResourcesFollowSession

-----------------------------------------------------------------------------
(***************************************************************************)
(* What a write of the coordinator's state does.                           *)
(***************************************************************************)

FileRec == [form : {"absent", "ok", "corrupt", "newer"}, state : StateRec]

\* The memory grows; the file is the old one or holds what the old memory held;
\* what is published anew is the number after the last, and on disk.
Progresses ==
    /\ mem' \in StateRec /\ mem.gen <= mem'.gen /\ mem.consumed \subseteq mem'.consumed
    /\ file' \in FileRec /\ faults' \in 0..MaxFaults
    /\ \/ UNCHANGED <<file, owed>>
       \/ /\ file'.form = "ok" /\ mem.gen <= file'.state.gen
          /\ mem.consumed \subseteq file'.state.consumed
          /\ file'.state.consumed \subseteq mem'.consumed
          /\ owed' \subseteq owed \cup file'.state.consumed
    /\ \/ UNCHANGED <<published, highest>>
       \/ /\ published' = mem.gen + 1 /\ mem'.gen = mem.gen + 1
          /\ highest' \in {highest, published'}
          /\ file'.form = "ok" /\ file'.state.gen = mem'.gen

\* What a boundary must do: a new generation, or the write has missed it.
Renews(o) ==
    /\ missed' = (o # "ok" \/ torn)
    /\ IF o = "ok" THEN published' = mem.gen + 1 ELSE published' = published

LEMMA BumpType ==
    ASSUME NEW m \in StateRec, NEW s \in Sessions \cup {NoSession}
    PROVE  LET n == [m EXCEPT !.gen = @ + 1, !.session = s]
           IN  n \in StateRec /\ n.gen = m.gen + 1 /\ n.consumed = m.consumed
<1> DEFINE k == [m EXCEPT !.gen = @ + 1]
           n == [m EXCEPT !.gen = @ + 1, !.session = s]
<1>1. k \in StateRec /\ k.gen = m.gen + 1 /\ k.consumed = m.consumed
  BY DEF StateRec
<1>2. n = [k EXCEPT !.session = s]
  BY DEF StateRec
<1> HIDE DEF k
<1>3. [k EXCEPT !.session = s] \in StateRec
      /\ [k EXCEPT !.session = s].gen = k.gen
      /\ [k EXCEPT !.session = s].consumed = k.consumed
  BY <1>1 DEF StateRec
<1> QED
  BY <1>1, <1>2, <1>3

LEMMA ConsumeType ==
    ASSUME NEW m \in StateRec, NEW S \in SUBSET Entries
    PROVE  LET n == [m EXCEPT !.consumed = @ \cup S]
           IN  n \in StateRec /\ n.gen = m.gen /\ n.consumed = m.consumed \cup S
BY DEF StateRec

LEMMA FaultType ==
    ASSUME TypeOK, NEW o \in Writes, Fault(o)
    PROVE  faults' \in 0..MaxFaults
BY LifecycleAssumption DEF TypeOK, Fault

LEMMA PersistType ==
    ASSUME TypeOK, NEW o \in Writes, NEW m \in StateRec, Persist(o, m)
    PROVE  /\ file' \in FileRec /\ faults' \in 0..MaxFaults
           /\ file' = file \/ (file'.form = "ok" /\ file'.state = m)
           /\ o = "ok" => file'.form = "ok" /\ file'.state = m
<1>1. Fault(o) /\ file' = IF o = "throws" THEN file ELSE [form |-> "ok", state |-> m]
  BY DEF Persist
<1> QED
  BY <1>1, FaultType DEF TypeOK, FileRec

LEMMA PublishType ==
    ASSUME TypeOK, NEW g \in Nat, Publish(g)
    PROVE  published' = g /\ highest' \in {highest, g} /\ highest' \in Nat
BY DEF TypeOK, Publish

LEMMA MintStep ==
    ASSUME TypeOK, NEW o \in Writes, NEW s \in Sessions \cup {NoSession},
           Mint(o, s), UNCHANGED owed
    PROVE  Progresses /\ Renews(o) /\ highest' \in Nat /\ mem'.consumed = mem.consumed
<1> DEFINE m == [mem EXCEPT !.gen = @ + 1, !.session = s]
<1>1. /\ mem' = m /\ Persist(o, m) /\ missed' = (o # "ok" \/ torn)
      /\ IF o = "ok" THEN Publish(m.gen) ELSE UNCHANGED <<published, highest>>
  BY DEF Mint
<1>2. mem \in StateRec /\ mem.gen \in Nat /\ mem.consumed \subseteq Entries
  BY DEF TypeOK, StateRec
<1>3. m \in StateRec /\ m.gen = mem.gen + 1 /\ m.consumed = mem.consumed
  BY <1>2, BumpType
<1> HIDE DEF m
<1>4. /\ file' \in FileRec /\ faults' \in 0..MaxFaults
      /\ file' = file \/ (file'.form = "ok" /\ file'.state = m)
      /\ o = "ok" => file'.form = "ok" /\ file'.state = m
  BY <1>1, <1>3, PersistType
<1>5. IF o = "ok" THEN published' = mem.gen + 1 /\ highest' \in {highest, published'}
      /\ highest' \in Nat
                  ELSE UNCHANGED <<published, highest>>
  BY <1>1, <1>2, <1>3, PublishType
<1>6. highest' \in Nat
  BY <1>5 DEF TypeOK
<1> QED
  BY <1>1, <1>2, <1>3, <1>4, <1>5, <1>6 DEF Progresses, Renews

LEMMA SaveStep ==
    ASSUME TypeOK, NEW o \in Writes, NEW m \in StateRec, Persist(o, m), mem' = m,
           mem.gen = m.gen, mem.consumed \subseteq m.consumed,
           UNCHANGED <<published, highest>>,
           owed' = owed \/ (o = "ok" /\ owed' \subseteq owed \cup m.consumed)
    PROVE  Progresses
<1>1. mem \in StateRec /\ mem.gen \in Nat
  BY DEF TypeOK, StateRec
<1>2. /\ file' \in FileRec /\ faults' \in 0..MaxFaults
      /\ file' = file \/ (file'.form = "ok" /\ file'.state = m)
      /\ o = "ok" => file'.form = "ok" /\ file'.state = m
  BY PersistType
<1> QED
  BY <1>1, <1>2 DEF Progresses

LEMMA CommittedType ==
    ASSUME TypeOK
    PROVE  /\ Committed \in StateRec /\ Committed.gen = mem.gen
           /\ Committed.consumed = mem.consumed \cup stash
           /\ AfterCommit \in FileRec
           /\ AfterCommit = file \/ (AfterCommit.form = "ok" /\ AfterCommit.state = Committed)
           /\ AfterCommit = file => Committed = mem \/ (file.form = "ok" /\ file.state = Committed)
<1>1. mem \in StateRec /\ stash \in SUBSET Entries /\ file \in FileRec
  BY DEF TypeOK, FileRec
<1>2. /\ Committed \in StateRec /\ Committed.gen = mem.gen
      /\ Committed.consumed = mem.consumed \cup stash
  BY <1>1, ConsumeType DEF Committed
<1> QED
  BY <1>1, <1>2 DEF AfterCommit, FileRec

LEMMA CommitThrowsStep ==
    ASSUME TypeOK, NEW o \in Writes, NEW pair, CommitThrows(pair, o)
    PROVE  /\ Progresses /\ mem'.consumed = mem.consumed \cup stash
           /\ missed' /\ lastTree' = pair
           /\ UNCHANGED <<stash, published, highest, owed>>
<1>1. /\ mem' = Committed /\ Persist(o, Committed) /\ lastTree' = pair /\ missed' = TRUE
      /\ UNCHANGED <<stash, published, highest, owed>>
  BY DEF CommitThrows
<1>2. /\ Committed \in StateRec /\ Committed.gen = mem.gen
      /\ Committed.consumed = mem.consumed \cup stash
  BY CommittedType
<1> QED
  BY <1>1, <1>2, SaveStep

\* AfterCommit is a step of its own as far as the file and the debts go.
LEMMA CommitStep ==
    ASSUME TypeOK, owed' = owed \cup (stash \ mem.consumed), NEW f \in FileRec,
           f = AfterCommit \/ (f.form = "ok" /\ mem.gen <= f.state.gen
                               /\ f.state.consumed = mem.consumed \cup stash)
    PROVE  \/ f = file /\ owed' = owed
           \/ /\ f.form = "ok" /\ mem.gen <= f.state.gen
              /\ f.state.consumed = mem.consumed \cup stash
              /\ owed' \subseteq owed \cup f.state.consumed
<1>1. mem \in StateRec /\ mem.gen \in Nat
  BY DEF TypeOK, StateRec
<1> QED
  BY <1>1, CommittedType

LEMMA OnTreeStep ==
    ASSUME TypeOK, NEW o \in Writes, NEW pair, OnTree(pair, o)
    PROVE  /\ Progresses /\ highest' \in Nat /\ owed' \in SUBSET Entries
           /\ mem'.consumed = mem.consumed \cup stash
           /\ lastTree' = pair /\ stash' = {}
           /\ IF lastTree = pair THEN UNCHANGED <<published, missed>> ELSE Renews(o)
<1> DEFINE n == [Committed EXCEPT !.gen = @ + 1, !.session = pi]
<1>1. /\ mem \in StateRec /\ mem.gen \in Nat /\ stash \in SUBSET Entries
      /\ owed \in SUBSET Entries /\ highest \in Nat /\ pi \in Sessions \cup {NoSession}
  BY DEF TypeOK, StateRec
<1>2. /\ lastTree' = pair /\ stash' = {} /\ owed' = owed \cup (stash \ mem.consumed)
      /\ Fault(o)
  BY DEF OnTree
<1>3. faults' \in 0..MaxFaults
  BY <1>2, FaultType
<1>4. /\ Committed \in StateRec /\ Committed.gen = mem.gen
      /\ Committed.consumed = mem.consumed \cup stash /\ AfterCommit \in FileRec
  BY CommittedType
<1>5. CASE IsDuplicate(pair)
  <2>1. mem' = Committed /\ file' = AfterCommit /\ UNCHANGED <<published, highest, missed>>
    BY <1>5 DEF OnTree
  <2>2. \/ UNCHANGED <<file, owed>>
        \/ /\ file'.form = "ok" /\ mem.gen <= file'.state.gen
           /\ file'.state.consumed = mem.consumed \cup stash
           /\ owed' \subseteq owed \cup file'.state.consumed
    BY <1>2, <1>4, <2>1, CommitStep
  <2>3. Progresses
    BY <1>1, <1>3, <1>4, <2>1, <2>2 DEF Progresses
  <2> QED
    BY <1>1, <1>2, <1>4, <1>5, <2>1, <2>3 DEF IsDuplicate
<1>6. CASE ~IsDuplicate(pair)
  <2>1. /\ mem' = n
        /\ file' = IF o = "throws" THEN AfterCommit ELSE [form |-> "ok", state |-> n]
        /\ missed' = (o # "ok" \/ torn)
        /\ IF o = "ok" THEN Publish(n.gen) ELSE UNCHANGED <<published, highest>>
    BY <1>6 DEF OnTree
  <2>2. n \in StateRec /\ n.gen = mem.gen + 1 /\ n.consumed = mem.consumed \cup stash
    BY <1>1, <1>4, BumpType
  <2> HIDE DEF n
  <2>3. file' \in FileRec
    BY <1>4, <2>1, <2>2 DEF FileRec
  <2>4. \/ UNCHANGED <<file, owed>>
        \/ /\ file'.form = "ok" /\ mem.gen <= file'.state.gen
           /\ file'.state.consumed = mem.consumed \cup stash
           /\ owed' \subseteq owed \cup file'.state.consumed
    <3>1. \/ file' = AfterCommit
          \/ /\ file'.form = "ok" /\ mem.gen <= file'.state.gen
             /\ file'.state.consumed = mem.consumed \cup stash
      BY <1>1, <2>1, <2>2
    <3> QED
      BY <1>2, <2>3, <3>1, CommitStep
  <2>5. IF o = "ok" THEN published' = mem.gen + 1 /\ highest' \in {highest, published'}
        /\ highest' \in Nat
                    ELSE UNCHANGED <<published, highest>>
    BY <1>1, <2>1, <2>2, PublishType
  <2>6. o = "ok" => file'.form = "ok" /\ file'.state = n
    BY <2>1
  <2>7. Progresses
    BY <1>1, <1>3, <2>1, <2>2, <2>3, <2>4, <2>5, <2>6 DEF Progresses
  <2> QED
    BY <1>1, <1>2, <1>6, <2>1, <2>2, <2>5, <2>7 DEF IsDuplicate, Renews
<1> QED
  BY <1>5, <1>6

\* A write of a runtime keeps the promises about generations and entries.
LEMMA ProgressKeeps ==
    ASSUME IInv, runtime, Progresses,
           earned \subseteq earned', mem'.consumed \subseteq earned'
    PROVE  Minted' /\ Owed' /\ ConsumedIsEarned' /\ ConsumedIsKept' /\ file'.form # "newer"
<1>1. /\ mem.gen \in Nat /\ mem'.gen \in Nat /\ published \in Nat /\ highest \in Nat
      /\ file.state.gen \in Nat
  BY DEF IInv, TypeOK, StateRec, Progresses
<1>2. /\ highest <= published /\ published <= mem.gen /\ mem.gen <= mem'.gen
      /\ owed \subseteq mem.consumed /\ mem.consumed \subseteq mem'.consumed
      /\ file.form # "newer"
  BY DEF IInv, Minted, Owed, Phased, Progresses
<1>3. CASE UNCHANGED <<file, owed>>
  <2>1. Minted'
    BY <1>1, <1>2, <1>3 DEF IInv, Minted, Progresses
  <2>2. Owed' /\ ConsumedIsKept'
    BY <1>2, <1>3 DEF IInv, Owed, ConsumedIsKept
  <2>3. ConsumedIsEarned'
    BY <1>3 DEF IInv, ConsumedIsEarned
  <2> QED
    BY <1>2, <1>3, <2>1, <2>2, <2>3
<1>4. CASE /\ file'.form = "ok" /\ mem.gen <= file'.state.gen
           /\ mem.consumed \subseteq file'.state.consumed
           /\ file'.state.consumed \subseteq mem'.consumed
           /\ owed' \subseteq owed \cup file'.state.consumed
  <2>0. file'.state.gen \in Nat
    BY DEF Progresses, FileRec, StateRec
  <2>1. Minted'
    BY <1>1, <1>2, <1>4, <2>0 DEF Minted, Progresses
  <2>2. Owed' /\ ConsumedIsKept'
    BY <1>2, <1>4 DEF Owed, ConsumedIsKept
  <2>3. ConsumedIsEarned'
    BY <1>4 DEF ConsumedIsEarned
  <2> QED
    BY <1>4, <2>1, <2>2, <2>3
<1> QED
  BY <1>3, <1>4 DEF Progresses

-----------------------------------------------------------------------------
(***************************************************************************)
(* One lemma per action.                                                   *)
(***************************************************************************)

LEMMA InitHolds == Init => IInv
<1> SUFFICES ASSUME Init PROVE IInv
  OBVIOUS
<1>1. EmptyState \in StateRec
  BY DEF EmptyState, StateRec
<1>2. TypeOK
  <2>1. file \in [form : {"absent", "ok", "corrupt", "newer"}, state : StateRec]
    BY <1>1 DEF Init
  <2>2. epoch \in 0..MaxEpoch /\ faults \in 0..MaxFaults
        /\ applied \in [was : 0..MaxEpoch, now : 0..MaxEpoch, missed : BOOLEAN]
    BY LifecycleAssumption DEF Init
  <2>3. /\ mem \in StateRec /\ published \in Nat /\ highest \in Nat
        /\ lastTree \in PairRec \cup {NoTree} /\ lastNav \in PairRec \cup {NoTree}
        /\ work \in SUBSET [gen : Nat, epoch : 0..MaxEpoch]
    BY <1>1 DEF Init
  <2> QED
    BY <2>1, <2>2, <2>3 DEF Init, TypeOK
<1>3. /\ Phased /\ Minted /\ Owed /\ Stashed /\ Apart /\ Current /\ Complete
      /\ ConsumedIsEarned /\ ConsumedIsKept /\ NoStaleResult /\ ResourcesFollowSession
  BY DEF Init, EmptyState, Phased, Minted, Owed, Stashed, Apart, Current, Complete,
         ConsumedIsEarned, ConsumedIsKept, NoStaleResult, ResourcesFollowSession
<1> QED
  BY <1>2, <1>3 DEF IInv

LEMMA BuildKeeps == ASSUME IInv, Build PROVE IInv'
<1>1. Loaded \in StateRec /\ Loaded.gen \in Nat /\ Loaded.consumed \subseteq earned
  BY DEF IInv, TypeOK, Loaded, EmptyState, StateRec, ConsumedIsEarned
<1>2. highest <= Loaded.gen /\ owed \subseteq Loaded.consumed
  BY DEF IInv, TypeOK, Loaded, EmptyState, StateRec, Minted, Owed, ConsumedIsKept, Build
<1>3. /\ published' = Loaded.gen /\ highest' \in Nat /\ highest' <= published'
      /\ file.form \in {"absent", "corrupt"} => highest' = 0
  <2>1. Publish(Loaded.gen) /\ highest \in Nat
    BY DEF IInv, TypeOK, Build
  <2>2. file.form \in {"absent", "corrupt"} => highest = 0 /\ Loaded.gen = 0
    BY DEF IInv, Minted, Loaded, EmptyState
  <2> QED
    BY <1>1, <1>2, <2>1, <2>2 DEF Publish
<1>4. TypeOK'
  BY <1>1, <1>3 DEF IInv, TypeOK, Build, Built, Resources, piVars
<1>8. Minted'
  <2>1. file.form = "ok" => Loaded = file.state
    BY DEF Loaded
  <2> QED
    BY <1>1, <1>3, <2>1 DEF Build, Minted
<1>5. Phased' /\ Owed' /\ Stashed'
  BY <1>1, <1>2, <1>3 DEF IInv, Build, Phased, Owed, Stashed, piVars
<1>6. Apart' /\ Current' /\ Complete'
  BY DEF IInv, Phased, Build, Apart, Current, Complete, piVars
<1>7. ConsumedIsEarned' /\ ConsumedIsKept' /\ NoStaleResult' /\ ResourcesFollowSession'
  BY <1>1 DEF IInv, Build, ConsumedIsEarned, ConsumedIsKept, NoStaleResult,
              ResourcesFollowSession, Built, piVars
<1> QED
  BY <1>4, <1>5, <1>6, <1>7, <1>8 DEF IInv

LEMMA BuildFailsKeeps == ASSUME IInv, BuildFails PROVE IInv'
<1>1. TypeOK' /\ Phased'
  BY DEF IInv, TypeOK, Phased, BuildFails, coord, piVars, ghosts, Resources
<1>2. Minted' /\ Owed' /\ Stashed' /\ Apart' /\ Current' /\ Complete'
  BY DEF IInv, Minted, Owed, Stashed, Apart, Current, Complete, BuildFails, coord,
     piVars,
         ghosts
<1>3. ConsumedIsEarned' /\ ConsumedIsKept' /\ NoStaleResult' /\ ResourcesFollowSession'
  BY DEF IInv, Phased, BuildFails, coord, piVars, ghosts, ConsumedIsEarned,
     ConsumedIsKept,
         NoStaleResult, ResourcesFollowSession
<1> QED
  BY <1>1, <1>2, <1>3 DEF IInv

LEMMA CrashKeeps == ASSUME IInv, Crash PROVE IInv'
<1>1. TypeOK'
  <2>1. faults' \in 0..MaxFaults
    BY LifecycleAssumption DEF IInv, TypeOK, Crash
  <2> QED
    BY <2>1 DEF IInv, TypeOK, Crash
<1>5. Phased'
  BY DEF IInv, Phased, Crash
<1>2. Minted' /\ Owed' /\ Stashed' /\ Apart' /\ Current' /\ Complete'
  BY DEF IInv, Minted, Owed, Stashed, Apart, Current, Complete, Crash
<1>3. ConsumedIsEarned' /\ ConsumedIsKept' /\ NoStaleResult' /\ ResourcesFollowSession'
  BY DEF IInv, Crash, ConsumedIsEarned, ConsumedIsKept, NoStaleResult,
         ResourcesFollowSession
<1> QED
  BY <1>1, <1>2, <1>3, <1>5 DEF IInv

LEMMA DamageKeeps ==
    ASSUME IInv, NEW f \in {"corrupt", "newer"}, Damage(f)
    PROVE  IInv'
<1>1. /\ ~runtime /\ file.form = "ok" /\ file.state \in StateRec
      /\ file' = [file EXCEPT !.form = f] /\ file \in FileRec
      /\ f = "corrupt" => highest' = 0 /\ owed' = {}
      /\ f = "newer" => UNCHANGED <<highest, owed>>
      /\ UNCHANGED <<coord, box, piVars, work, epoch, missed, applied, earned>>
      /\ faults' \in 0..MaxFaults
  BY LifecycleAssumption DEF IInv, TypeOK, FileRec, Damage
<1>2. file'.form = f /\ file'.state = file.state /\ file' \in FileRec
  BY <1>1 DEF FileRec
<1>3. TypeOK'
  BY <1>1, <1>2 DEF IInv, TypeOK, FileRec, coord, box, piVars
<1>4. Phased' /\ Minted' /\ Owed' /\ Stashed' /\ Apart' /\ Current' /\ Complete'
  BY <1>1, <1>2 DEF IInv, Phased, Minted, Owed, Stashed, Apart, Current, Complete,
     coord,
                    box, piVars
<1>5. ConsumedIsEarned' /\ ConsumedIsKept' /\ NoStaleResult' /\ ResourcesFollowSession'
  BY <1>1, <1>2 DEF IInv, ConsumedIsEarned, ConsumedIsKept, NoStaleResult,
                    ResourcesFollowSession, coord, box, piVars
<1> QED
  BY <1>3, <1>4, <1>5 DEF IInv

LEMMA CaptureKeeps == ASSUME IInv, Capture PROVE IInv'
<1>1. TypeOK' /\ Phased'
  BY DEF IInv, TypeOK, Phased, Capture, coord, box, piVars
<1>2. Minted' /\ Owed' /\ Stashed' /\ Apart' /\ Complete'
  BY DEF IInv, Minted, Owed, Stashed, Apart, Complete, Capture, coord, box, piVars
<1>3. Current'
  BY DEF IInv, TypeOK, Current, Capture, coord, box, piVars
<1>4. ConsumedIsEarned' /\ ConsumedIsKept' /\ NoStaleResult' /\ ResourcesFollowSession'
  BY DEF IInv, Capture, coord, box, piVars, ConsumedIsEarned, ConsumedIsKept,
         NoStaleResult, ResourcesFollowSession
<1> QED
  BY <1>1, <1>2, <1>3, <1>4 DEF IInv

LEMMA AnswerKeeps == ASSUME IInv, NEW w \in work, Answer(w) PROVE IInv'
<1>1. w.epoch \in 0..MaxEpoch /\ w.gen \in Nat
  BY DEF IInv, TypeOK
<1>2. applied' = IF w.gen = published THEN [was |-> w.epoch, now |-> epoch, missed |-> missed]
                 ELSE applied
  BY DEF Answer, IsCurrent
<1>3. TypeOK' /\ Phased'
  BY <1>1, <1>2 DEF IInv, TypeOK, Phased, Answer, coord, box, piVars
<1>4. Minted' /\ Owed' /\ Stashed' /\ Apart' /\ Current' /\ Complete'
  BY DEF IInv, Minted, Owed, Stashed, Apart, Current, Complete, Answer, coord, box,
     piVars
<1>5. NoStaleResult'
  BY <1>1, <1>2 DEF IInv, Current, NoStaleResult
<1>6. ConsumedIsEarned' /\ ConsumedIsKept' /\ ResourcesFollowSession'
  BY DEF IInv, Answer, coord, box, piVars, ConsumedIsEarned, ConsumedIsKept,
         ResourcesFollowSession
<1> QED
  BY <1>3, <1>4, <1>5, <1>6 DEF IInv

LEMMA QuietKeeps ==
    ASSUME IInv, \/ Cancel \/ BeforeForkOrSwitch \/ \E l \in Leaves : AppendEntry(l)
    PROVE  IInv'
<1>1. CASE Cancel
  <2>1. TypeOK' /\ Phased' /\ Minted' /\ Owed' /\ Stashed'
    BY <1>1 DEF IInv, TypeOK, Phased, Minted, Owed, Stashed, Cancel, coord, box, ghosts
  <2>2. Apart' /\ Current' /\ Complete'
    BY <1>1 DEF IInv, Apart, Current, Complete, Cancel, coord, box, ghosts
  <2>3. ConsumedIsEarned' /\ ConsumedIsKept' /\ NoStaleResult' /\ ResourcesFollowSession'
    BY <1>1 DEF IInv, Cancel, coord, box, ghosts, ConsumedIsEarned, ConsumedIsKept,
                NoStaleResult, ResourcesFollowSession
  <2> QED
    BY <2>1, <2>2, <2>3 DEF IInv
<1>2. CASE BeforeForkOrSwitch
  <2>1. TypeOK' /\ Phased' /\ Minted' /\ Owed' /\ Stashed'
    BY <1>2 DEF IInv, TypeOK, Phased, Minted, Owed, Stashed, BeforeForkOrSwitch,
       coord, piVars,
                ghosts
  <2>2. Apart' /\ Current' /\ Complete'
    BY <1>2 DEF IInv, Apart, Current, Complete, Built, BeforeForkOrSwitch, coord,
       piVars, ghosts
  <2>3. ConsumedIsEarned' /\ ConsumedIsKept' /\ NoStaleResult' /\ ResourcesFollowSession'
    BY <1>2 DEF IInv, BeforeForkOrSwitch, coord, piVars, ghosts, ConsumedIsEarned,
                ConsumedIsKept, NoStaleResult, ResourcesFollowSession, Built
  <2> QED
    BY <2>1, <2>2, <2>3 DEF IInv
<1>3. ASSUME NEW l \in Leaves, AppendEntry(l) PROVE IInv'
  <2>1. TypeOK' /\ Phased' /\ Minted' /\ Owed' /\ Stashed'
    BY <1>3 DEF IInv, TypeOK, Phased, Minted, Owed, Stashed, AppendEntry, coord, box, ghosts
  <2>2. Apart' /\ Current' /\ Complete'
    BY <1>3 DEF IInv, Apart, Current, Complete, AppendEntry, coord, box, ghosts
  <2>3. ConsumedIsEarned' /\ ConsumedIsKept' /\ NoStaleResult' /\ ResourcesFollowSession'
    BY <1>3 DEF IInv, AppendEntry, coord, box, ghosts, ConsumedIsEarned, ConsumedIsKept,
                NoStaleResult, ResourcesFollowSession
  <2> QED
    BY <2>1, <2>2, <2>3 DEF IInv
<1> QED
  BY <1>1, <1>2, <1>3

LEMMA BeforeTreeKeeps ==
    ASSUME IInv, NEW es \in SUBSET Entries, NEW aborted \in BOOLEAN, BeforeTree(es, aborted)
    PROVE  IInv'
<1>1. TypeOK'
  BY DEF IInv, TypeOK, BeforeTree, ghosts
<1>2. Phased' /\ Minted' /\ Owed' /\ Stashed'
  BY DEF IInv, Phased, Minted, Owed, Stashed, BeforeTree, ghosts
<1>3. Apart' /\ Current' /\ Complete'
  BY DEF IInv, Apart, Current, Complete, Built, BeforeTree, ghosts
<1>4. ConsumedIsEarned' /\ ConsumedIsKept' /\ NoStaleResult' /\ ResourcesFollowSession'
  BY DEF IInv, BeforeTree, ghosts, ConsumedIsEarned, ConsumedIsKept, NoStaleResult,
         ResourcesFollowSession, Built
<1> QED
  BY <1>1, <1>2, <1>3, <1>4 DEF IInv

\* A boundary stales every result in flight, or has missed its generation.
LEMMA BoundaryStales ==
    ASSUME IInv, runtime, NEW o \in Writes, Progresses, Renews(o), UNCHANGED <<work, torn>>
    PROVE  Current'
<1>1. mem.gen \in Nat /\ published \in Nat /\ published <= mem.gen
  BY DEF IInv, TypeOK, StateRec, Minted
<1>2. \A w \in work : w.gen \in Nat /\ w.gen <= published
  BY DEF IInv, TypeOK, Current
<1>3. CASE o = "ok"
  <2>1. published' = mem.gen + 1 /\ missed' = torn
    BY <1>3 DEF Renews, IInv, TypeOK
  <2>2. \A w \in work : w.gen <= published' /\ w.gen # published'
    BY <1>1, <1>2, <2>1
  <2> QED
    BY <2>1, <2>2 DEF Current
<1>4. CASE o # "ok"
  BY <1>2, <1>4 DEF Renews, Current
<1> QED
  BY <1>3, <1>4

LEMMA StartStep ==
    ASSUME IInv, NEW o \in Writes, NEW s \in Sessions, OnSessionStart(s, o)
    PROVE  /\ Progresses /\ highest' \in Nat /\ mem'.consumed = mem.consumed
           /\ missed' \in BOOLEAN /\ active' = (active \/ o = "ok")
           /\ open' = IF o = "ok" THEN open \cup {"timer", "delivery"} ELSE open
           /\ IF ~active \/ s # mem.session THEN Renews(o) ELSE UNCHANGED <<published, missed>>
           /\ UNCHANGED <<lastTree, stash, runtime, failed, torn, work, applied, owed>>
<1>1. /\ active' = IF o = "ok" THEN TRUE ELSE active
      /\ open' = IF o = "ok" THEN open \cup {"timer", "delivery"} ELSE open
      /\ UNCHANGED <<lastTree, stash, runtime, failed, torn, work, applied, owed>>
      /\ IF ~active \/ s # mem.session THEN Mint(o, s)
         ELSE Persist(o, mem) /\ UNCHANGED <<mem, published, highest, missed>>
  BY DEF OnSessionStart
<1>2. TypeOK /\ active \in BOOLEAN /\ missed \in BOOLEAN /\ torn \in BOOLEAN /\ highest \in Nat
      /\ mem \in StateRec /\ mem.gen \in Nat
  BY DEF IInv, TypeOK, StateRec
<1>3. CASE ~active \/ s # mem.session
  <2>1. Progresses /\ Renews(o) /\ highest' \in Nat /\ mem'.consumed = mem.consumed
    BY <1>1, <1>2, <1>3, MintStep
  <2> QED
    BY <1>1, <1>2, <1>3, <2>1 DEF Renews
<1>4. CASE ~(~active \/ s # mem.session)
  <2>1. Progresses
    BY <1>1, <1>2, <1>4, SaveStep
  <2> QED
    BY <1>1, <1>2, <1>4, <2>1
<1> QED
  BY <1>3, <1>4

LEMMA SessionStartKeeps ==
    ASSUME IInv, NEW s \in Sessions, NEW l \in Leaves, NEW o \in Writes, SessionStart(s, l, o)
    PROVE  IInv'
<1>1. /\ runtime /\ pi = NoSession /\ epoch < MaxEpoch
      /\ pi' = s /\ epoch' = epoch + 1 /\ leaf' = l /\ known' = known \cup {l}
      /\ OnSessionStart(s, o) /\ UNCHANGED <<nav, announced, lastNav, earned>>
  BY DEF SessionStart
<1>2. /\ ~active /\ ~announced /\ lastNav = NoTree /\ s # NoSession
      /\ torn \/ lastTree = NoTree
  BY <1>1, LifecycleAssumption DEF IInv, Phased, Apart
<1>3. /\ Progresses /\ highest' \in Nat /\ mem'.consumed = mem.consumed
      /\ missed' \in BOOLEAN /\ active' = (active \/ o = "ok")
      /\ open' = IF o = "ok" THEN open \cup {"timer", "delivery"} ELSE open
      /\ Renews(o)
      /\ UNCHANGED <<lastTree, stash, runtime, failed, torn, work, applied, owed>>
  BY <1>1, <1>2, StartStep
<1>4. Minted' /\ Owed' /\ ConsumedIsEarned' /\ ConsumedIsKept' /\ file'.form # "newer"
  BY <1>1, <1>3, ProgressKeeps DEF IInv, ConsumedIsEarned
<1>5. TypeOK'
  <2>1. epoch' \in 0..MaxEpoch /\ published' \in Nat
    BY <1>1, <1>3, LifecycleAssumption DEF IInv, TypeOK, StateRec, Renews
  <2>2. file' \in FileRec /\ mem' \in StateRec /\ faults' \in 0..MaxFaults
    BY <1>3 DEF Progresses
  <2>3. open' \in SUBSET Resources /\ active' \in BOOLEAN
    BY <1>3 DEF IInv, TypeOK, Resources
  <2> QED
    BY <1>1, <1>3, <2>1, <2>2, <2>3 DEF IInv, TypeOK, FileRec
<1>6. Phased' /\ Stashed' /\ Apart' /\ Complete'
  BY <1>1, <1>2, <1>3, <1>4 DEF IInv, Phased, Stashed, Apart, Complete
<1>7. Current'
  BY <1>1, <1>3, BoundaryStales
<1>8. NoStaleResult' /\ ResourcesFollowSession'
  <2>1. NoStaleResult'
    BY <1>3 DEF IInv, NoStaleResult
  <2>2. runtime /\ open \in SUBSET Resources /\ active = FALSE
    BY <1>1, <1>2 DEF IInv, TypeOK
  <2>3. CASE o = "ok"
    <3>1. active' = TRUE /\ open' = open \cup {"timer", "delivery"} /\ torn' = torn
      BY <1>3, <2>3
    <3> QED
      BY <2>1, <2>2, <3>1 DEF IInv, Complete, ResourcesFollowSession
  <2>4. CASE o # "ok"
    <3>1. active' = FALSE /\ open' = open /\ torn' = torn
      BY <1>3, <2>2, <2>4
    <3> QED
      BY <2>1, <2>2, <3>1 DEF IInv, ResourcesFollowSession
  <2> QED
    BY <2>3, <2>4
<1> QED
  BY <1>4, <1>5, <1>6, <1>7, <1>8 DEF IInv

LEMMA StartAgainKeeps == ASSUME IInv, NEW o \in Writes, StartAgain(o) PROVE IInv'
<1>1. /\ runtime /\ pi # NoSession /\ pi \in Sessions
      /\ OnSessionStart(pi, o) /\ UNCHANGED <<piVars, epoch, earned>>
  BY DEF StartAgain, IInv, TypeOK
<1>3. /\ Progresses /\ highest' \in Nat /\ mem'.consumed = mem.consumed
      /\ missed' \in BOOLEAN /\ active' = (active \/ o = "ok")
      /\ open' = IF o = "ok" THEN open \cup {"timer", "delivery"} ELSE open
      /\ Renews(o) \/ UNCHANGED <<published, missed>>
      /\ UNCHANGED <<lastTree, stash, runtime, failed, torn, work, applied, owed>>
  BY <1>1, StartStep
<1>4. Minted' /\ Owed' /\ ConsumedIsEarned' /\ ConsumedIsKept' /\ file'.form # "newer"
  BY <1>1, <1>3, ProgressKeeps DEF IInv, ConsumedIsEarned
<1>5. TypeOK'
  <2>1. published' \in Nat
    BY <1>1, <1>3 DEF IInv, TypeOK, StateRec, Renews
  <2>2. file' \in FileRec /\ mem' \in StateRec /\ faults' \in 0..MaxFaults
    BY <1>3 DEF Progresses
  <2>3. open' \in SUBSET Resources /\ active' \in BOOLEAN
    BY <1>3 DEF IInv, TypeOK, Resources
  <2> QED
    BY <1>1, <1>3, <2>1, <2>2, <2>3 DEF IInv, TypeOK, FileRec, piVars
<1>6. Phased' /\ Stashed' /\ Apart' /\ Complete'
  BY <1>1, <1>3, <1>4 DEF IInv, TypeOK, Phased, Stashed, Apart, Complete, piVars
<1>7. Current'
  BY <1>1, <1>3, BoundaryStales DEF IInv, Current, piVars
<1>8. NoStaleResult' /\ ResourcesFollowSession'
  BY <1>1, <1>3 DEF IInv, TypeOK, NoStaleResult, ResourcesFollowSession, Built, Complete
<1> QED
  BY <1>4, <1>5, <1>6, <1>7, <1>8 DEF IInv

\* What both navigations owe Pi's side of the state.
LEMMA NavigatesStep ==
    ASSUME IInv, NEW new \in Leaves, Navigates(new)
    PROVE  /\ runtime /\ announced /\ pi # NoSession /\ stash = nav /\ leaf \in known
           /\ epoch' = epoch + 1 /\ epoch' \in 0..MaxEpoch
           /\ earned' = earned \cup nav /\ earned' \in SUBSET Entries
           /\ leaf' = new /\ new \in known /\ new # leaf
           /\ lastNav' = Pair(leaf, new) /\ Pair(leaf, new) \in PairRec
           /\ Pair(leaf, new) # NoTree /\ Pair(leaf, new).old = leaf
           /\ announced' = FALSE /\ nav' = {} /\ UNCHANGED <<pi, known>>
<1>1. runtime /\ announced /\ pi # NoSession /\ stash = nav /\ leaf \in known
  BY DEF IInv, Navigates, Phased, Stashed, Apart
<1>2. epoch' = epoch + 1 /\ epoch' \in 0..MaxEpoch
  BY LifecycleAssumption DEF IInv, TypeOK, Navigates
<1>3. /\ Pair(leaf, new) \in PairRec /\ Pair(leaf, new).old = leaf
      /\ Pair(leaf, new) # NoTree
  BY LifecycleAssumption DEF IInv, TypeOK, Pair, PairRec
<1> QED
  BY <1>1, <1>2, <1>3 DEF IInv, TypeOK, Navigates

LEMMA TreeKeeps ==
    ASSUME IInv, NEW new \in Leaves, NEW o \in Writes, Tree(new, o)
    PROVE  IInv'
<1> DEFINE pair == Pair(leaf, new)
<1>1. /\ active /\ Navigates(new) /\ UNCHANGED <<active, box, work, applied>>
      /\ CommitThrows(pair, o) \/ OnTree(pair, o)
  BY DEF Tree
<1>2. /\ runtime /\ announced /\ pi # NoSession /\ stash = nav /\ leaf \in known
      /\ epoch' = epoch + 1 /\ epoch' \in 0..MaxEpoch
      /\ earned' = earned \cup nav /\ earned' \in SUBSET Entries
      /\ leaf' = new /\ new \in known /\ new # leaf
      /\ lastNav' = pair /\ pair \in PairRec /\ pair # NoTree /\ pair.old = leaf
      /\ announced' = FALSE /\ nav' = {} /\ UNCHANGED <<pi, known>>
  BY <1>1, NavigatesStep
<1> HIDE DEF pair
<1>3. /\ Progresses /\ mem'.consumed = mem.consumed \cup stash /\ lastTree' = pair
      /\ highest' \in Nat /\ owed' \in SUBSET Entries /\ stash' \in {stash, {}}
      /\ missed' \in BOOLEAN /\ published' \in Nat
      /\ \/ missed' /\ published' = published
         \/ Renews(o)
         \/ lastTree = pair /\ UNCHANGED <<published, missed>>
  <2>0. /\ TypeOK /\ published \in Nat /\ highest \in Nat /\ owed \in SUBSET Entries
        /\ torn \in BOOLEAN /\ missed \in BOOLEAN /\ mem.gen \in Nat
    BY DEF IInv, TypeOK, StateRec
  <2>1. CASE CommitThrows(pair, o)
    <3>1. missed' = TRUE
      BY <2>1 DEF CommitThrows
    <3> QED
      BY <2>0, <2>1, <3>1, CommitThrowsStep
  <2>2. CASE OnTree(pair, o)
    <3>1. /\ Progresses /\ highest' \in Nat /\ owed' \in SUBSET Entries
          /\ mem'.consumed = mem.consumed \cup stash /\ lastTree' = pair /\ stash' = {}
          /\ IF lastTree = pair THEN UNCHANGED <<published, missed>> ELSE Renews(o)
      BY <2>0, <2>2, OnTreeStep
    <3>2. Renews(o) => missed' \in BOOLEAN /\ published' \in Nat
      BY <2>0 DEF Renews
    <3> QED
      BY <2>0, <3>1, <3>2
  <2> QED
    BY <1>1, <2>1, <2>2
<1>4. Minted' /\ Owed' /\ ConsumedIsEarned' /\ ConsumedIsKept' /\ file'.form # "newer"
  BY <1>2, <1>3, ProgressKeeps DEF IInv, ConsumedIsEarned
<1>5. TypeOK'
  <2>1. file' \in FileRec /\ mem' \in StateRec /\ faults' \in 0..MaxFaults
    BY <1>3 DEF Progresses
  <2> QED
    BY <1>1, <1>2, <1>3, <2>1 DEF IInv, TypeOK, FileRec, box
<1>6. Phased' /\ Stashed' /\ Complete'
  BY <1>1, <1>2, <1>3, <1>4 DEF IInv, Phased, Stashed, Complete, box
<1>7. Apart'
  BY <1>1, <1>2, <1>3 DEF IInv, Apart, box
<1>8. Current'
  \* A duplicate here means a filter left over from a shutdown that was cut short.
  <2>1. lastTree = pair => torn /\ missed
    BY <1>2 DEF IInv, Apart, Current
  <2>2. missed' /\ published' = published => Current'
    BY <1>1 DEF IInv, Current, box
  <2> QED
    BY <1>1, <1>2, <1>3, <2>1, <2>2, BoundaryStales DEF box
<1>9. NoStaleResult' /\ ResourcesFollowSession'
  BY <1>1 DEF IInv, NoStaleResult, ResourcesFollowSession, box
<1> QED
  BY <1>4, <1>5, <1>6, <1>7, <1>8, <1>9 DEF IInv

LEMMA TreeStartsKeeps ==
    ASSUME IInv, NEW new \in Leaves, NEW o \in Writes, TreeStarts(new, o)
    PROVE  IInv'
<1> DEFINE pair == Pair(leaf, new)
<1>1. /\ ~active /\ Navigates(new) /\ Mint(o, pi) /\ active' = (o = "ok")
      /\ open' = IF o = "ok" THEN open \cup {"timer"} ELSE open
      /\ UNCHANGED <<lastTree, stash, runtime, failed, torn, work, applied, owed>>
  BY DEF TreeStarts
<1>2. /\ runtime /\ announced /\ pi # NoSession /\ stash = nav /\ leaf \in known
      /\ epoch' = epoch + 1 /\ epoch' \in 0..MaxEpoch
      /\ earned' = earned \cup nav /\ earned' \in SUBSET Entries
      /\ leaf' = new /\ new \in known /\ new # leaf
      /\ lastNav' = pair /\ pair \in PairRec /\ pair # NoTree /\ pair.old = leaf
      /\ announced' = FALSE /\ nav' = {} /\ UNCHANGED <<pi, known>>
  BY <1>1, NavigatesStep
<1> HIDE DEF pair
<1>3. /\ Progresses /\ Renews(o) /\ highest' \in Nat /\ mem'.consumed = mem.consumed
      /\ published' \in Nat /\ missed' \in BOOLEAN
  <2>1. /\ TypeOK /\ pi \in Sessions \cup {NoSession} /\ published \in Nat /\ mem.gen \in Nat
        /\ torn \in BOOLEAN
    BY DEF IInv, TypeOK, StateRec
  <2>2. Progresses /\ Renews(o) /\ highest' \in Nat /\ mem'.consumed = mem.consumed
    BY <1>1, <2>1, MintStep
  <2> QED
    BY <2>1, <2>2 DEF Renews
<1>4. Minted' /\ Owed' /\ ConsumedIsEarned' /\ ConsumedIsKept' /\ file'.form # "newer"
  BY <1>2, <1>3, ProgressKeeps DEF IInv, ConsumedIsEarned
<1>5. TypeOK'
  <2>1. file' \in FileRec /\ mem' \in StateRec /\ faults' \in 0..MaxFaults
    BY <1>3 DEF Progresses
  <2>2. open' \in SUBSET Resources /\ active' \in BOOLEAN
    BY <1>1 DEF IInv, TypeOK, Resources
  <2> QED
    BY <1>1, <1>2, <1>3, <2>1, <2>2 DEF IInv, TypeOK, FileRec
<1>6. Phased' /\ Stashed' /\ Apart' /\ Complete'
  BY <1>1, <1>2, <1>4 DEF IInv, Phased, Stashed, Apart, Complete
<1>7. Current'
  BY <1>1, <1>2, <1>3, BoundaryStales
<1>8. NoStaleResult' /\ ResourcesFollowSession'
  BY <1>1, <1>2 DEF IInv, TypeOK, NoStaleResult, ResourcesFollowSession, Built, Complete
<1> QED
  BY <1>4, <1>5, <1>6, <1>7, <1>8 DEF IInv

LEMMA TreeAgainKeeps == ASSUME IInv, NEW o \in Writes, TreeAgain(o) PROVE IInv'
<1>1. /\ runtime /\ active /\ lastNav # NoTree
      /\ CommitThrows(lastNav, o) \/ OnTree(lastNav, o)
      /\ UNCHANGED <<active, box, piVars, work, epoch, applied, earned>>
  BY DEF TreeAgain
<1>2. lastNav \in PairRec /\ stash \subseteq earned
  BY <1>1 DEF IInv, TypeOK, Stashed
<1>3. /\ Progresses /\ mem'.consumed = mem.consumed \cup stash /\ lastTree' = lastNav
      /\ highest' \in Nat /\ owed' \in SUBSET Entries /\ stash' \in {stash, {}}
      /\ missed' \in BOOLEAN /\ published' \in Nat
      /\ \/ missed' /\ published' = published
         \/ Renews(o)
         \/ UNCHANGED <<published, missed>>
  <2>0. /\ TypeOK /\ published \in Nat /\ highest \in Nat /\ owed \in SUBSET Entries
        /\ torn \in BOOLEAN /\ missed \in BOOLEAN /\ mem.gen \in Nat
    BY DEF IInv, TypeOK, StateRec
  <2>1. CASE CommitThrows(lastNav, o)
    <3>1. missed' = TRUE
      BY <2>1 DEF CommitThrows
    <3> QED
      BY <2>0, <2>1, <3>1, CommitThrowsStep
  <2>2. CASE OnTree(lastNav, o)
    <3>1. /\ Progresses /\ highest' \in Nat /\ owed' \in SUBSET Entries
          /\ mem'.consumed = mem.consumed \cup stash /\ lastTree' = lastNav /\ stash' = {}
          /\ IF lastTree = lastNav THEN UNCHANGED <<published, missed>> ELSE Renews(o)
      BY <2>0, <2>2, OnTreeStep
    <3>2. Renews(o) => missed' \in BOOLEAN /\ published' \in Nat
      BY <2>0 DEF Renews
    <3> QED
      BY <2>0, <3>1, <3>2
  <2> QED
    BY <1>1, <2>1, <2>2
<1>4. Minted' /\ Owed' /\ ConsumedIsEarned' /\ ConsumedIsKept' /\ file'.form # "newer"
  BY <1>1, <1>2, <1>3, ProgressKeeps DEF IInv, ConsumedIsEarned
<1>5. TypeOK'
  <2>1. file' \in FileRec /\ mem' \in StateRec /\ faults' \in 0..MaxFaults
    BY <1>3 DEF Progresses
  <2> QED
    BY <1>1, <1>2, <1>3, <2>1 DEF IInv, TypeOK, FileRec, box, piVars
<1>6. Phased' /\ Stashed' /\ Complete'
  <2>1. ~announced
    BY <1>1 DEF IInv, Stashed
  <2> QED
    BY <1>1, <1>2, <1>3, <1>4 DEF IInv, TypeOK, Phased, Stashed, Complete, box, piVars
<1>7. Apart'
  BY <1>1, <1>3 DEF IInv, Apart, box, piVars
<1>8. Current'
  <2>1. (missed' \/ UNCHANGED missed) /\ published' = published => Current'
    BY <1>1 DEF IInv, Current, box, piVars
  <2> QED
    BY <1>1, <1>3, <2>1, BoundaryStales DEF box
<1>9. NoStaleResult' /\ ResourcesFollowSession'
  BY <1>1 DEF IInv, NoStaleResult, ResourcesFollowSession, box
<1> QED
  BY <1>4, <1>5, <1>6, <1>7, <1>8, <1>9 DEF IInv

LEMMA MarkConsumedKeeps ==
    ASSUME IInv, NEW e \in Entries, NEW o \in Writes, MarkConsumed(e, o)
    PROVE  IInv'
<1> DEFINE m == [mem EXCEPT !.consumed = @ \cup {e}]
<1>1. /\ runtime /\ mem' = m /\ Persist(o, m)
      /\ earned' = earned \cup {e} /\ owed' = IF o = "ok" THEN owed \cup {e} ELSE owed
      /\ UNCHANGED <<published, active, lastTree, stash, box, piVars, work,
                     epoch, missed, applied, highest>>
  BY DEF MarkConsumed
<1>2. TypeOK /\ mem \in StateRec
  BY DEF IInv, TypeOK
<1>3. m \in StateRec /\ m.gen = mem.gen /\ m.consumed = mem.consumed \cup {e}
  BY <1>2, ConsumeType
<1> HIDE DEF m
<1>4. Progresses /\ mem'.consumed = mem.consumed \cup {e}
  BY <1>1, <1>2, <1>3, SaveStep
<1>5. Minted' /\ Owed' /\ ConsumedIsEarned' /\ ConsumedIsKept' /\ file'.form # "newer"
  BY <1>1, <1>4, ProgressKeeps DEF IInv, ConsumedIsEarned
<1>6. TypeOK'
  <2>1. file' \in FileRec /\ mem' \in StateRec /\ faults' \in 0..MaxFaults
    BY <1>4 DEF Progresses
  <2> QED
    BY <1>1, <2>1 DEF IInv, TypeOK, FileRec, box, piVars
<1>7. Phased' /\ Stashed' /\ Apart' /\ Current' /\ Complete'
  BY <1>1, <1>5 DEF IInv, Phased, Stashed, Apart, Current, Complete, box, piVars
<1>8. NoStaleResult' /\ ResourcesFollowSession'
  BY <1>1 DEF IInv, NoStaleResult, ResourcesFollowSession, box
<1> QED
  BY <1>5, <1>6, <1>7, <1>8 DEF IInv

LEMMA ShutdownKeeps == ASSUME IInv, NEW o \in Writes, Shutdown(o) PROVE IInv'
<1>1. /\ runtime /\ Persist(o, mem) /\ Teardown(o)
      /\ active' = FALSE /\ stash' = {} /\ UNCHANGED lastTree
      /\ pi' = NoSession /\ announced' = FALSE /\ nav' = {} /\ lastNav' = NoTree
      /\ work' = IF o = "ok" THEN {} ELSE work
      /\ UNCHANGED <<mem, published, failed, leaf, known, epoch, missed, applied,
                     highest, earned, owed>>
  BY DEF Shutdown
<1>2. TypeOK /\ mem \in StateRec
  BY DEF IInv, TypeOK
<1>3. Progresses
  BY <1>1, <1>2, SaveStep
<1>4. Minted' /\ Owed' /\ ConsumedIsEarned' /\ ConsumedIsKept' /\ file'.form # "newer"
  BY <1>1, <1>3, ProgressKeeps DEF IInv, ConsumedIsEarned
<1>5. /\ o = "ok" => open' = {} /\ runtime' = FALSE /\ torn' = torn
      /\ o # "ok" => /\ open' = {"delivery", "store"} \cap open
                     /\ runtime' = runtime /\ torn' = TRUE
  BY <1>1 DEF Teardown
<1>6. TypeOK'
  <2>1. file' \in FileRec /\ faults' \in 0..MaxFaults
    BY <1>3 DEF Progresses
  <2>2. open' \in SUBSET Resources /\ runtime' \in BOOLEAN /\ torn' \in BOOLEAN
        /\ work' \in SUBSET work
    BY <1>1, <1>5 DEF IInv, TypeOK, Resources
  <2> QED
    BY <1>1, <2>1, <2>2 DEF IInv, TypeOK, FileRec
<1>7. Phased' /\ Stashed' /\ Complete'
  BY <1>1, <1>4, <1>5 DEF IInv, Phased, Stashed, Complete
<1>8. Apart' /\ Current'
  BY <1>1, <1>5 DEF IInv, Apart, Current
<1>9. NoStaleResult' /\ ResourcesFollowSession'
  BY <1>1, <1>5 DEF IInv, NoStaleResult, ResourcesFollowSession
<1> QED
  BY <1>4, <1>6, <1>7, <1>8, <1>9 DEF IInv

-----------------------------------------------------------------------------
(***************************************************************************)
(* The theorems.                                                           *)
(***************************************************************************)

LEMMA StepKeeps == ASSUME IInv, [Next]_vars PROVE IInv'
<1>1. CASE UNCHANGED vars
  <2>1. TypeOK' /\ Phased' /\ Minted' /\ Owed' /\ Stashed'
    BY <1>1 DEF IInv, vars, coord, box, piVars, ghosts, TypeOK, Phased, Minted, Owed,
       Stashed
  <2>2. Apart' /\ Current' /\ Complete'
    BY <1>1 DEF IInv, vars, coord, box, piVars, ghosts, Apart, Current, Complete
  <2>3. ConsumedIsEarned' /\ ConsumedIsKept' /\ NoStaleResult' /\ ResourcesFollowSession'
    BY <1>1 DEF IInv, vars, coord, box, piVars, ghosts, ConsumedIsEarned,
       ConsumedIsKept,
                NoStaleResult, ResourcesFollowSession
  <2> QED
    BY <2>1, <2>2, <2>3 DEF IInv
<1>2. CASE Build \/ BuildFails \/ Crash \/ Cancel \/ Capture \/ BeforeForkOrSwitch
  BY <1>2, BuildKeeps, BuildFailsKeeps, CrashKeeps, QuietKeeps, CaptureKeeps
<1>3. CASE \/ \E f \in {"corrupt", "newer"} : Damage(f)
           \/ \E l \in Leaves : AppendEntry(l)
           \/ \E w \in work : Answer(w)
           \/ \E es \in SUBSET Entries, aborted \in BOOLEAN : BeforeTree(es, aborted)
  BY <1>3, DamageKeeps, QuietKeeps, AnswerKeeps, BeforeTreeKeeps
<1>4. ASSUME NEW o \in Writes,
             \/ StartAgain(o) \/ TreeAgain(o) \/ Shutdown(o)
             \/ \E s \in Sessions, l \in Leaves : SessionStart(s, l, o)
             \/ \E e \in Entries : MarkConsumed(e, o)
             \/ \E l \in Leaves : Tree(l, o) \/ TreeStarts(l, o)
      PROVE  IInv'
  BY <1>4, StartAgainKeeps, TreeAgainKeeps, ShutdownKeeps, SessionStartKeeps,
     MarkConsumedKeeps, TreeKeeps, TreeStartsKeeps
<1> QED
  BY <1>1, <1>2, <1>3, <1>4 DEF Next

LEMMA Inductive == Spec => []IInv
BY InitHolds, StepKeeps, PTL DEF Spec

\* coordinator.ts:214-271, 352-361, 463-471: over any sequence of starts, forks,
\* navigations, duplicate deliveries, throwing writes and crashes, generations only
\* grow and the consumed entries are those that were earned, and stay.
THEOREM SessionIsSafe == Spec => []SessionSafety
<1>1. IInv => SessionSafety
  <2>1. IInv => GenerationNeverBack
    BY DEF IInv, TypeOK, Minted, GenerationNeverBack
  <2> QED
    BY <2>1 DEF IInv, SessionSafety
<1> QED
  BY <1>1, Inductive, PTL

\* coordinator.ts:254-271, 484-494: no result is applied after a boundary it was
\* captured before, except where a throwing write cost the boundary its generation.
THEOREM ResultsAreOfTheirEpoch == Spec => []NoStaleResult
<1>1. IInv => NoStaleResult
  BY DEF IInv
<1> QED
  BY <1>1, Inductive, PTL

\* index.ts:431-468, coordinator.ts:529-541: the timer, the poller and what they
\* work with are up exactly for as long as the session needs them.
THEOREM ResourcesAreOwned == Spec => []ResourcesFollowSession
<1>1. IInv => ResourcesFollowSession
  BY DEF IInv
<1> QED
  BY <1>1, Inductive, PTL

LEMMA KeepsNewerStep == IInv /\ [Next]_vars => [KeepsNewer]_vars
<1> SUFFICES ASSUME IInv, Next, file.form = "newer" PROVE file' = file
  BY DEF KeepsNewer
<1>1. ~runtime /\ ~active
  BY DEF IInv, Phased
<1> QED
  BY <1>1 DEF Next, Build, BuildFails, Crash, Cancel, Capture, BeforeForkOrSwitch, Damage,
              AppendEntry, Answer, BeforeTree, StartAgain, TreeAgain, Shutdown, SessionStart,
              MarkConsumed, Tree, TreeStarts, Navigates

\* coordinator.ts:194-200: while the state file is of a newer version no handler
\* writes it, because no runtime was built over it.
THEOREM NewerIsKept == Spec => [][KeepsNewer]_vars
<1>1. IInv /\ [Next]_vars => [KeepsNewer]_vars
  BY KeepsNewerStep
<1> QED
  BY <1>1, Inductive, PTL DEF Spec

-----------------------------------------------------------------------------
(* The proposals, ProposalLifecycle, for any documents, actors and targets *)
(* of a proposal.  What holds of any interleaving is about the op logs:    *)
(* the invariant counts the opIds still to be taken.  What holds only of   *)
(* commands one after another is about documents: Rest says what earlier   *)
(* commands left, Fits what the one under way may rely on when it writes.  *)

LEMMA CardIs == ASSUME NEW S PROVE P!Cardinality(S) = Cardinality(S)
BY DEF P!Cardinality, Cardinality

ProposalAssumptions ==
    P!TargetsAssumption /\ P!DisjointAssumption /\ P!BoundsAssumption

\* Where a command of each kind may be, and when it has its opId.
Shape(c) ==
    \/ c = P!Idle
    \/ /\ c.kind \in {"approve", "reject", "undo"} /\ c.path \in Proposals
       /\ \/ /\ c.kind = "approve"
             /\ \/ c.at \in {"check", "fresh"} /\ c.i = 0
                \/ c.at \in {"replay", "target"} /\ c.i \in 1..P!Count(c.path)
                \/ c.at \in {"write", "verify"} /\ c.i \in 0..P!Count(c.path)
             /\ c.op = 0 <=> c.at \in {"check", "replay"}
          \/ /\ c.kind = "reject"
             /\ c.at \in {"check", "fresh", "write", "verify"} /\ c.i = 0
             /\ c.op = 0 <=> c.at \in {"check", "fresh"}
          \/ /\ c.kind = "undo"
             /\ \/ c.at \in {"check", "fresh"} /\ c.i = 0
                \/ c.at = "target" /\ c.i \in 1..P!Count(c.path)
                \/ c.at = "mark" /\ c.i = P!Count(c.path) + 1
                \/ c.at \in {"write", "verify"} /\ c.i \in 1..(P!Count(c.path) + 1)
             /\ c.op = 0 <=> c.at \in {"check", "fresh"}
    \/ /\ c.kind = "forget" /\ c.path \in Targets
       /\ c.at = "check" /\ c.i = 0 /\ c.op # 0
    \/ /\ c.kind = "unforget" /\ c.path \in Targets
       /\ c.at \in {"check", "write", "verify"} /\ c.i = 0
       /\ c.op = 0 <=> c.at = "check"

(* OpIds: 1..n are out, and each command that has none yet may still take one. *)
Taken == Cardinality(opLog \cup manLog)
Untaken == {a \in Actors : call[a].kind # "idle" /\ call[a].op = 0}
Issued ==
    /\ Taken \in Nat /\ opLog \cup manLog = 1..Taken
    /\ IsFiniteSet(Untaken) /\ Taken + Cardinality(Untaken) <= commands

Logged(l) == l.op \in IF l.what = "forget undone" THEN manLog ELSE opLog
Logs ==
    /\ \A d \in P!Docs : \A l \in doc[d].lines : Logged(l)
    /\ \A a \in Actors : \A l \in call[a].out.lines : Logged(l)
    /\ \A a \in Actors : call[a].op # 0 =>
          call[a].op \in IF call[a].kind \in {"forget", "unforget"} THEN manLog ELSE opLog

\* A line of the history.
Line(what, by, op) == [what |-> what, by |-> by, op |-> op]
Whats == {"approved", "rejected", "undone", "superseded", "restored", "forget undone"}
Transitions == {"approve", "reject", "undo"}
Stats == {"pending-approval", "active", "superseded"}

(* What the commands one after another leave in the documents.             *)
IsLast(l, d) ==
    /\ l \in d.lines /\ l.what = "superseded"
    /\ \A m \in d.lines : m.what = "superseded" => m.op <= l.op
TargetSet(p) == {TargetsOf[p][k] : k \in 1..P!Count(p)}

OpsHaveOwners ==
    \A d, e \in P!Docs : \A l \in doc[d].lines, m \in doc[e].lines : l.op = m.op => l.by = m.by
HiddenByApproval ==
    \A t \in Targets :
        /\ \A l \in doc[t].lines : l.what = "superseded" =>
              /\ l.by \in Proposals /\ t \in TargetSet(l.by)
              /\ \E m \in doc[l.by].lines : m.what = "approved" /\ m.op = l.op
        /\ doc[t].status = "superseded" => \E l \in doc[t].lines : l.what = "superseded"
StatusSays ==
    \A p \in Proposals :
        /\ doc[p].status = "pending-approval" => ~P!HasLine(doc[p], "approved", p)
        /\ doc[p].status # "superseded" =>
              ~P!HasLine(doc[p], "rejected", p) /\ ~P!HasLine(doc[p], "undone", p)
        /\ ~ (P!HasLine(doc[p], "approved", p) /\ P!HasLine(doc[p], "rejected", p))
UndoneGone ==
    \A p \in Proposals : P!HasLine(doc[p], "undone", p) =>
        \A t \in Targets : doc[t].status = "superseded" =>
            \A l \in doc[t].lines : IsLast(l, doc[t]) => l.by # p
Rest == OpsHaveOwners /\ HiddenByApproval /\ StatusSays /\ UndoneGone

(* What a command finds as long as it is alone.                            *)
Stage(c) == IF c.at = "verify" THEN c.i + 1 ELSE c.i
NewWhat(c) ==
    IF c.kind = "approve" THEN IF c.i = 0 THEN "approved" ELSE "superseded"
    ELSE IF c.kind = "reject" THEN "rejected"
    ELSE IF c.kind = "undo" THEN IF c.i <= P!Count(c.path) THEN "restored" ELSE "undone"
    ELSE "forget undone"
NewLine(c) == Line(NewWhat(c), c.path, c.op)
NewStatus(c) ==
    IF c.kind = "approve" THEN IF c.i = 0 THEN "active" ELSE "superseded"
    ELSE IF c.kind = "reject" THEN "superseded"
    ELSE IF c.kind = "undo" THEN IF c.i <= P!Count(c.path) THEN "active" ELSE "superseded"
    ELSE doc[c.path].status

FitsOp(c) ==
    c.op # 0 => \A d \in P!Docs : \A l \in doc[d].lines :
                    l.op <= c.op /\ (l.op = c.op => l.by = c.path)
FitsApprove(c) ==
    c.kind = "approve" /\ c.op # 0 =>
        IF Stage(c) = 0 THEN doc[c.path].status = "pending-approval"
        ELSE /\ doc[c.path].status = "active"
             /\ \E m \in doc[c.path].lines : m.what = "approved" /\ m.op = c.op
FitsDecision(c) ==
    /\ c.kind \in {"reject", "undo"} /\ c.at = "fresh" => c.seen = doc[c.path].status
    /\ c.kind = "reject" /\ c.at = "write" => doc[c.path].status = "pending-approval"
FitsUndo(c) ==
    c.kind = "undo" /\ c.op # 0 =>
        /\ Stage(c) <= P!Count(c.path) + 1 => doc[c.path].status = "active"
        /\ \A k \in 1..P!Count(c.path) : k < Stage(c) => doc[TargetsOf[c.path][k]].status = "active"
FitsOut(c) ==
    c.at = "write" => /\ c.out.lines = doc[P!At(c)].lines \cup {NewLine(c)}
                      /\ c.out.status = NewStatus(c)
Fits(c) == FitsOp(c) /\ FitsApprove(c) /\ FitsDecision(c) /\ FitsUndo(c) /\ FitsOut(c)

OneByOne ==
    ~overlap => /\ \A a, b \in Actors : P!Busy(a) /\ P!Busy(b) => a = b
                /\ Rest
                /\ \A a \in Actors : Fits(call[a])

PInv == P!TypeOK /\ (\A a \in Actors : Shape(call[a])) /\ Issued /\ Logs /\ OneByOne

-----------------------------------------------------------------------------
LEMMA IdleIs ==
    ASSUME ProposalAssumptions
    PROVE  /\ P!Idle.kind = "idle" /\ P!Idle.at = "idle" /\ P!Idle.op = 0 /\ P!Idle.out.lines = {}
           /\ Shape(P!Idle) /\ P!Idle \in P!Call
<1>1. /\ P!Idle.kind = "idle" /\ P!Idle.at = "idle" /\ P!Idle.op = 0 /\ P!Idle.out.lines = {}
      /\ Shape(P!Idle)
  BY DEF P!Idle, P!NoContent, Shape
<1>2. P!NoContent \in P!Doc
  <2>1. {} \in SUBSET P!Lines
    OBVIOUS
  <2> QED
    BY <2>1 DEF P!NoContent, P!Doc
<1>3. 0 \in 0..MaxCalls
  BY DEF ProposalAssumptions, P!BoundsAssumption
<1>4. P!Idle \in P!Call
  BY <1>2, <1>3 DEF P!Idle, P!Call
<1> QED
  BY <1>1, <1>4

LEMMA IdleFits == Fits(P!Idle) /\ Fits(P!Idle)'
BY DEF P!Idle, Fits, FitsOp, FitsApprove, FitsDecision, FitsUndo, FitsOut

\* A command that is under way has a kind and a document.
LEMMA BusyIs ==
    ASSUME ProposalAssumptions, PInv, NEW a \in Actors
    PROVE  /\ Shape(call[a]) /\ call[a] \in P!Call
           /\ P!Busy(a) <=> call[a].kind # "idle"
           /\ call[a].at # "idle" => P!Busy(a)
           /\ P!Busy(a) => call[a].path \in P!Docs /\ P!At(call[a]) \in P!Docs
<1>1. Shape(call[a]) /\ call[a] \in P!Call
  BY DEF PInv, P!TypeOK
<1>2. P!Busy(a) <=> call[a].kind # "idle"
  BY <1>1, IdleIs DEF P!Busy, Shape
<1>3. call[a].at # "idle" => P!Busy(a)
  BY IdleIs DEF P!Busy
<1>4. P!Busy(a) => call[a].path \in P!Docs
  BY <1>1 DEF P!Busy, Shape, P!Docs
<1>5. ASSUME call[a].path \in Proposals, call[a].i \in 1..P!Count(call[a].path)
      PROVE  TargetsOf[call[a].path][call[a].i] \in P!Docs
  BY <1>5 DEF ProposalAssumptions, P!TargetsAssumption, P!Count, P!Docs
<1> QED
  BY <1>1, <1>2, <1>3, <1>4, <1>5 DEF P!At

LEMMA Counts ==
    ASSUME ProposalAssumptions, NEW p \in Proposals
    PROVE  /\ P!Count(p) \in Nat /\ P!Count(p) >= 2
           /\ \A k \in 1..P!Count(p) : TargetsOf[p][k] \in Targets
                /\ TargetsOf[p][k] \in TargetSet(p)
BY DEF ProposalAssumptions, P!TargetsAssumption, P!Count, TargetSet

-----------------------------------------------------------------------------
(* OpIds.                                                                  *)

\* No opId is taken.
LEMMA IssuedSame ==
    ASSUME Issued, UNCHANGED <<opLog, manLog>>, commands \in Nat, commands' = commands,
           Untaken' \subseteq Untaken
    PROVE  Issued'
<1>1. Taken' = Taken
  BY DEF Taken
<1>2. IsFiniteSet(Untaken') /\ Cardinality(Untaken') <= Cardinality(Untaken)
  BY FS_Subset DEF Issued
<1>3. Cardinality(Untaken) \in Nat /\ Cardinality(Untaken') \in Nat
  BY <1>2, FS_CardinalityType DEF Issued
<1> QED
  BY <1>1, <1>2, <1>3 DEF Issued

\* Another command is given.
LEMMA IssuedMore ==
    ASSUME Issued, UNCHANGED <<opLog, manLog>>, commands \in Nat, commands' = commands + 1, NEW a,
           Untaken' \subseteq Untaken \cup {a}
    PROVE  Issued'
<1>1. Taken' = Taken
  BY DEF Taken
<1>2. /\ IsFiniteSet(Untaken \cup {a})
      /\ Cardinality(Untaken \cup {a}) <= Cardinality(Untaken) + 1
  BY FS_AddElement, FS_CardinalityType DEF Issued
<1>3. IsFiniteSet(Untaken') /\ Cardinality(Untaken') <= Cardinality(Untaken \cup {a})
  BY <1>2, FS_Subset
<1>4. /\ Cardinality(Untaken) \in Nat /\ Cardinality(Untaken') \in Nat
      /\ Cardinality(Untaken \cup {a}) \in Nat
  BY <1>2, <1>3, FS_CardinalityType DEF Issued
<1> QED
  BY <1>1, <1>2, <1>3, <1>4 DEF Issued

\* The next opId is recorded.
LEMMA IssuedNext ==
    ASSUME Issued, MaxCalls \in Nat, commands \in 0..MaxCalls,
           opLog' \cup manLog' = (opLog \cup manLog) \cup {P!NextOp},
           \/ commands' = commands /\ \E a \in Untaken : Untaken' = Untaken \ {a}
           \/ commands' = commands + 1 /\ commands < MaxCalls /\ Untaken' \subseteq Untaken
    PROVE  /\ Issued' /\ P!NextOp \in P!Ops /\ P!NextOp # 0
           /\ \A o \in opLog \cup manLog : o < P!NextOp
<1>1. P!NextOp = Taken + 1 /\ Taken \in Nat /\ opLog \cup manLog = 1..Taken
  BY CardIs DEF P!NextOp, Taken, Issued
<1>2. opLog' \cup manLog' = 1..(Taken + 1)
  BY <1>1
<1>3. Taken' = Taken + 1
  <2>1. Cardinality(1..(Taken + 1)) = Taken + 1
    BY <1>1, FS_Interval
  <2> QED
    BY <1>2, <2>1 DEF Taken
<1>4. IsFiniteSet(Untaken) /\ Cardinality(Untaken) \in Nat
      /\ Taken + Cardinality(Untaken) <= commands
  BY FS_CardinalityType DEF Issued
<1>5. IsFiniteSet(Untaken') /\ Cardinality(Untaken') \in Nat
      /\ Taken + 1 + Cardinality(Untaken') <= commands' /\ Taken + 1 <= MaxCalls
  <2>1. CASE commands' = commands /\ \E a \in Untaken : Untaken' = Untaken \ {a}
    <3>1. PICK a \in Untaken : Untaken' = Untaken \ {a}
      BY <2>1
    <3>2. /\ IsFiniteSet(Untaken \ {a})
          /\ Cardinality(Untaken \ {a}) = Cardinality(Untaken) - 1
      BY <1>4, FS_RemoveElement
    <3>3. Cardinality(Untaken \ {a}) \in Nat
      BY <3>2, FS_CardinalityType
    <3>4. Cardinality(Untaken') = Cardinality(Untaken) - 1 /\ commands \in Nat
          /\ commands <= MaxCalls
      BY <3>1, <3>2
    <3>5. IsFiniteSet(Untaken') /\ Cardinality(Untaken') \in Nat
      BY <3>1, <3>2, <3>3
    <3>6. Taken + 1 + Cardinality(Untaken') <= commands
      BY <1>1, <1>4, <3>4, <3>5
    <3>7. Taken + 1 <= MaxCalls
      BY <1>1, <3>4, <3>5, <3>6
    <3> QED
      BY <2>1, <3>5, <3>6, <3>7
  <2>2. CASE commands' = commands + 1 /\ commands < MaxCalls /\ Untaken' \subseteq Untaken
    <3>1. IsFiniteSet(Untaken') /\ Cardinality(Untaken') <= Cardinality(Untaken)
      BY <1>4, <2>2, FS_Subset
    <3>2. Cardinality(Untaken') \in Nat
      BY <3>1, FS_CardinalityType
    <3> QED
      BY <1>1, <1>4, <2>2, <3>1, <3>2
  <2> QED
    BY <2>1, <2>2
<1>6. Issued'
  BY <1>1, <1>2, <1>3, <1>5 DEF Issued
<1>7. P!NextOp \in P!Ops
  BY <1>1, <1>5 DEF P!Ops
<1> QED
  BY <1>1, <1>6, <1>7

-----------------------------------------------------------------------------
(* Steps that write no document.                                           *)

LEMMA Unmoved ==
    ASSUME doc' = doc PROVE (Rest => Rest') /\ \A c : Fits(c) => Fits(c)'
<1>1. Rest => Rest'
  <2> SUFFICES ASSUME Rest PROVE Rest'
    OBVIOUS
  <2>1. OpsHaveOwners'
    BY DEF Rest, OpsHaveOwners
  <2>2. HiddenByApproval'
    BY DEF Rest, HiddenByApproval
  <2>3. StatusSays'
    BY DEF Rest, StatusSays, P!HasLine
  <2>4. UndoneGone'
    BY DEF Rest, UndoneGone, P!HasLine, IsLast
  <2> QED
    BY <2>1, <2>2, <2>3, <2>4 DEF Rest
<1>2. ASSUME NEW c, Fits(c) PROVE Fits(c)'
  <2>1. NewStatus(c)' = NewStatus(c)
    BY DEF NewStatus
  <2>2. FitsOut(c)'
    BY <1>2, <2>1 DEF Fits, FitsOut
  <2>3. FitsOp(c)' /\ FitsDecision(c)'
    BY <1>2 DEF Fits, FitsOp, FitsDecision
  <2>4. FitsApprove(c)'
    BY <1>2 DEF Fits, FitsApprove
  <2>5. FitsUndo(c)'
    BY <1>2 DEF Fits, FitsUndo
  <2> QED
    BY <2>2, <2>3, <2>4, <2>5 DEF Fits
<1> QED
  BY <1>1, <1>2

LEMMA Typed ==
    ASSUME PInv, NEW a \in Actors
    PROVE  /\ doc \in [P!Docs -> P!Doc] /\ call \in [Actors -> P!Call] /\ call[a] \in P!Call
           /\ commands \in 0..MaxCalls /\ commands \in Nat /\ failures \in 0..MaxFaults
           /\ overlap \in BOOLEAN /\ opLog \subseteq P!Ops /\ manLog \subseteq P!Ops
BY DEF PInv, P!TypeOK

LEMMA NextIs == Issued => P!NextOp = Taken + 1 /\ P!NextOp # 0 /\ Taken \in Nat
<1>1. P!NextOp = Taken + 1
  BY CardIs DEF P!NextOp, Taken
<1> QED
  BY <1>1 DEF Issued

\* What one command does, the others standing still.
LEMMA Moved ==
    ASSUME ProposalAssumptions, PInv, NEW a \in Actors, NEW c \in P!Call, Shape(c),
           call' = [call EXCEPT ![a] = c], doc' \in [P!Docs -> P!Doc],
           commands' \in 0..MaxCalls, failures' \in 0..MaxFaults, overlap' \in BOOLEAN,
           opLog' \subseteq P!Ops, manLog' \subseteq P!Ops, Issued', Logs',
           ~overlap' => /\ ~overlap /\ (P!Busy(a) \/ \A b \in Actors : ~P!Busy(b))
                        /\ Rest' /\ Fits(c)'
    PROVE  PInv'
<1>1. /\ call \in [Actors -> P!Call]
      /\ \A b \in Actors : call'[b] = IF b = a THEN c ELSE call[b]
  BY Typed
<1>2. P!TypeOK'
  BY <1>1 DEF P!TypeOK
<1>3. \A b \in Actors : Shape(call[b])'
  <2>1. \A b \in Actors : Shape(call'[b])
    BY <1>1 DEF PInv
  <2> QED
    BY <2>1 DEF Shape
<1>4. OneByOne'
  <2> SUFFICES ASSUME ~overlap'
               PROVE  /\ \A b, d \in Actors : P!Busy(b)' /\ P!Busy(d)' => b = d
                      /\ \A b \in Actors : Fits(call[b])'
    BY DEF OneByOne
  <2>1. \A b \in Actors : b # a => call[b] = P!Idle
    BY DEF PInv, OneByOne, P!Busy
  <2>2. \A b \in Actors : P!Busy(b)' => b = a
    BY <1>1, <2>1 DEF P!Busy
  <2>3. ASSUME NEW b \in Actors PROVE Fits(call[b])'
    <3>1. PICK x : x = call'[b]
      OBVIOUS
    <3>2. Fits(x)'
      BY <1>1, <2>1, <3>1, IdleFits
    <3>3. FitsOp(call[b])' /\ FitsDecision(call[b])'
      BY <3>1, <3>2 DEF Fits, FitsOp, FitsDecision
    <3>4. FitsApprove(call[b])'
      BY <3>1, <3>2 DEF Fits, FitsApprove, Stage
    <3>5. FitsUndo(call[b])'
      BY <3>1, <3>2 DEF Fits, FitsUndo, Stage
    <3>6. FitsOut(call[b])'
      <4>1. FitsOut(x)'
        BY <3>2 DEF Fits
      <4>2. /\ P!At(x) = P!At(call[b])' /\ NewLine(x) = NewLine(call[b])'
            /\ NewStatus(x)' = NewStatus(call[b])'
        BY <3>1 DEF P!At, NewLine, NewWhat, NewStatus
      <4> QED
        BY <3>1, <4>1, <4>2 DEF FitsOut
    <3> QED
      BY <3>3, <3>4, <3>5, <3>6 DEF Fits
  <2> QED
    BY <2>2, <2>3
<1> QED
  BY <1>2, <1>3, <1>4 DEF PInv

\* The op logs only grow, and so everything stays logged.
LEMMA LogsKept ==
    ASSUME PInv, NEW a \in Actors, NEW c, call' = [call EXCEPT ![a] = c],
           opLog \subseteq opLog', manLog \subseteq manLog',
           \A d \in P!Docs : \A l \in doc'[d].lines :
               l \in doc[d].lines \/ l \in call[a].out.lines,
           c.op # 0 => c.op \in IF c.kind \in {"forget", "unforget"} THEN manLog' ELSE opLog',
           \A l \in c.out.lines : l.op \in IF l.what = "forget undone" THEN manLog' ELSE opLog'
    PROVE  Logs'
<1>1. \A b \in Actors : call'[b] = IF b = a THEN c ELSE call[b]
  BY Typed
<1>2. \A d \in P!Docs : \A l \in doc'[d].lines : Logged(l)'
  BY DEF PInv, Logs, Logged
<1>3. \A b \in Actors : \A l \in call'[b].out.lines : Logged(l)'
  BY <1>1 DEF PInv, Logs, Logged
<1>4. \A b \in Actors : call'[b].op # 0 =>
         call'[b].op \in IF call'[b].kind \in {"forget", "unforget"} THEN manLog' ELSE opLog'
  BY <1>1 DEF PInv, Logs
<1> QED
  BY <1>2, <1>3, <1>4 DEF Logs

\* A command goes on with the opId it has, or ends.
LEMMA GoesOn ==
    ASSUME ProposalAssumptions, PInv, NEW a \in Actors, P!Busy(a), NEW c \in P!Call, Shape(c),
           call' = [call EXCEPT ![a] = c],
           UNCHANGED <<opLog, manLog, commands, overlap>>, failures' \in 0..MaxFaults,
           c.kind \in {call[a].kind, "idle"}, c.op \in {call[a].op, 0},
           c.op = 0 => call[a].op = 0 \/ c.kind = "idle",
           \A l \in c.out.lines : Logged(l),
           doc' \in [P!Docs -> P!Doc],
           \A d \in P!Docs : \A l \in doc'[d].lines :
               l \in doc[d].lines \/ l \in call[a].out.lines,
           ~overlap => Rest' /\ Fits(c)'
    PROVE  PInv'
<1>1. Untaken' \subseteq Untaken
  BY Typed, BusyIs DEF Untaken
<1>2. Issued'
  BY <1>1, Typed, IssuedSame DEF PInv
<1>3. Logs'
  <2>1. c.op # 0 => c.op = call[a].op /\ c.kind = call[a].kind
    BY IdleIs DEF Shape
  <2>2. c.op # 0 => c.op \in IF c.kind \in {"forget", "unforget"} THEN manLog ELSE opLog
    BY <2>1 DEF PInv, Logs
  <2> QED
    BY <2>2, LogsKept DEF Logged
<1> QED
  BY <1>2, <1>3, Typed, Moved

\* A command reads, and writes nothing.
LEMMA Reads ==
    ASSUME ProposalAssumptions, PInv, NEW a \in Actors, P!Busy(a), NEW c \in P!Call, Shape(c),
           call' = [call EXCEPT ![a] = c],
           UNCHANGED <<doc, opLog, manLog, commands, overlap>>, failures' \in 0..MaxFaults,
           c.kind \in {call[a].kind, "idle"}, c.op \in {call[a].op, 0},
           c.op = 0 => call[a].op = 0 \/ c.kind = "idle",
           \A l \in c.out.lines : Logged(l),
           ~overlap => Fits(c)
    PROVE  PInv'
<1>1. ~overlap => Rest' /\ Fits(c)'
  BY Unmoved DEF PInv, OneByOne
<1>2. doc' \in [P!Docs -> P!Doc] /\ \A d \in P!Docs : \A l \in doc'[d].lines : l \in doc[d].lines
  BY Typed
<1> QED
  BY <1>1, <1>2, GoesOn

\* A command ends.
LEMMA Ended ==
    ASSUME ProposalAssumptions, PInv, NEW a \in Actors, P!Busy(a), P!Ends(a),
           UNCHANGED <<doc, opLog, manLog, commands, overlap>>, failures' \in 0..MaxFaults
    PROVE  PInv'
BY IdleIs, IdleFits, Reads DEF P!Ends, P!Becomes

\* A command takes the next opId, for opLog or for manLog.
LEMMA TakesOp ==
    ASSUME ProposalAssumptions, PInv, NEW a \in Actors, P!Busy(a), call[a].op = 0,
           NEW c \in P!Call, Shape(c),
           call' = [call EXCEPT ![a] = c], UNCHANGED <<doc, commands, failures, overlap>>,
           c.kind = call[a].kind, c.op = P!NextOp,
           IF c.kind \in {"forget", "unforget"} THEN P!RecordManual(P!NextOp) ELSE P!Record(P!NextOp),
           \A l \in c.out.lines :
              \/ Logged(l)
              \/ l.op = P!NextOp /\ (l.what = "forget undone" <=> c.kind = "unforget"),
           ~overlap => Fits(c)
    PROVE  PInv'
<1>1. /\ call \in [Actors -> P!Call] /\ call[a] \in P!Call
      /\ commands \in 0..MaxCalls /\ commands \in Nat /\ failures \in 0..MaxFaults
           /\ overlap \in BOOLEAN
      /\ opLog \subseteq P!Ops /\ manLog \subseteq P!Ops
  BY Typed
<1>2. opLog' \cup manLog' = (opLog \cup manLog) \cup {P!NextOp}
      /\ opLog \subseteq opLog' /\ manLog \subseteq manLog'
      /\ opLog' \subseteq opLog \cup {P!NextOp} /\ manLog' \subseteq manLog \cup {P!NextOp}
      /\ P!NextOp \in IF c.kind \in {"forget", "unforget"} THEN manLog' ELSE opLog'
  BY DEF P!Record, P!RecordManual
<1>3. /\ Issued' /\ P!NextOp \in P!Ops /\ P!NextOp # 0
  <2>0. P!NextOp # 0
    BY NextIs DEF PInv
  <2>1. a \in Untaken /\ Untaken' = Untaken \ {a}
    BY <1>1, <2>0, BusyIs DEF Untaken
  <2> QED
    BY <1>1, <1>2, <2>1, IssuedNext DEF PInv, ProposalAssumptions, P!BoundsAssumption
<1>4. Logs'
  <2>1. c.kind \in {"forget", "unforget"} => c.kind = "unforget"
    BY BusyIs, IdleIs DEF Shape
  <2>2. \A l \in c.out.lines : l.op \in IF l.what = "forget undone" THEN manLog' ELSE opLog'
    BY <1>2, <2>1 DEF Logged
  <2>3. \A d \in P!Docs : \A l \in doc'[d].lines : l \in doc[d].lines
    OBVIOUS
  <2> QED
    BY <1>2, <2>2, <2>3, LogsKept
<1>5. opLog' \subseteq P!Ops /\ manLog' \subseteq P!Ops
  BY <1>1, <1>2, <1>3
<1>6. ~overlap => Rest' /\ Fits(c)'
  BY Unmoved DEF PInv, OneByOne
<1>7. doc' \in [P!Docs -> P!Doc]
  BY Typed
<1> QED
  BY <1>1, <1>3, <1>4, <1>5, <1>6, <1>7, Moved

\* The next opId is newer than all that are written.
LEMMA FreshOp ==
    ASSUME PInv, NEW d \in P!Docs, NEW l \in doc[d].lines
    PROVE  l.op <= P!NextOp /\ l.op # P!NextOp
<1>1. l.op \in opLog \cup manLog
  BY DEF PInv, Logs, Logged
<1>2. l.op \in 1..Taken
  BY <1>1 DEF PInv, Issued
<1> QED
  BY <1>2, NextIs DEF PInv

LEMMA FreshFits == ASSUME PInv, NEW c, c.op = P!NextOp PROVE FitsOp(c)
<1>1. ASSUME NEW d \in P!Docs, NEW l \in doc[d].lines PROVE l.op <= c.op /\ l.op # c.op
  BY FreshOp
<1> QED
  BY <1>1 DEF FitsOp

LEMMA OutIs ==
    ASSUME NEW d \in P!Doc, NEW by \in P!Docs, NEW op \in P!Ops, NEW what \in Whats
    PROVE  /\ P!AppendProvenance(d, what, by, op) \in P!Doc
           /\ P!AppendProvenance(d, what, by, op).lines = d.lines \cup {Line(what, by, op)}
           /\ P!AppendProvenance(d, what, by, op).status = d.status
<1>1. Line(what, by, op) \in P!Lines
  BY DEF P!Lines, Line, Whats
<1>2. P!AppendProvenance(d, what, by, op) = [d EXCEPT !.lines = @ \cup {Line(what, by, op)}]
  BY DEF P!AppendProvenance, Line
<1> QED
  BY <1>1, <1>2 DEF P!Doc

LEMMA Rewritten ==
    ASSUME NEW d \in P!Doc, NEW by \in P!Docs, NEW op \in P!Ops, NEW status \in Stats,
           NEW what \in Whats
    PROVE  /\ P!AppendProvenance(P!WithStatus(d, status), what, by, op) \in P!Doc
           /\ P!AppendProvenance(P!WithStatus(d, status), what, by, op).lines
                = d.lines \cup {Line(what, by, op)}
           /\ P!AppendProvenance(P!WithStatus(d, status), what, by, op).status = status
<1>1. PICK e : e = P!WithStatus(d, status)
  OBVIOUS
<1>2. e \in P!Doc /\ e.lines = d.lines /\ e.status = status
  BY <1>1 DEF P!WithStatus, P!Doc, Stats
<1>3. /\ P!AppendProvenance(e, what, by, op) \in P!Doc
      /\ P!AppendProvenance(e, what, by, op).lines = e.lines \cup {Line(what, by, op)}
      /\ P!AppendProvenance(e, what, by, op).status = e.status
  BY <1>2, OutIs
<1> QED
  BY <1>1, <1>2, <1>3

\* What a transition writes, when it is at document d under the opId op.
Out(c, d, op) == P!AppendProvenance(P!WithStatus(doc[d], NewStatus(c)), NewWhat(c), c.path, op)

LEMMA OutFits ==
    ASSUME NEW c, NEW d \in P!Docs, NEW op \in P!Ops, c.path \in P!Docs,
           doc \in [P!Docs -> P!Doc],
           c.kind \in Transitions
    PROVE  /\ Out(c, d, op) \in P!Doc /\ Out(c, d, op).status = NewStatus(c)
           /\ Out(c, d, op).lines = doc[d].lines \cup {Line(NewWhat(c), c.path, op)}
<1>1. PICK x, s, w, q : x = doc[d] /\ s = NewStatus(c) /\ w = NewWhat(c) /\ q = c.path
  OBVIOUS
<1>2. x \in P!Doc /\ q \in P!Docs
  BY <1>1
<1>3. s \in Stats /\ w \in Whats
  BY <1>1 DEF NewStatus, NewWhat, Stats, Whats, Transitions
<1>4. /\ P!AppendProvenance(P!WithStatus(x, s), w, q, op) \in P!Doc
      /\ P!AppendProvenance(P!WithStatus(x, s), w, q, op).lines = x.lines \cup {Line(w, q, op)}
      /\ P!AppendProvenance(P!WithStatus(x, s), w, q, op).status = s
  BY <1>2, <1>3, Rewritten
<1>5. Out(c, d, op) = P!AppendProvenance(P!WithStatus(x, s), w, q, op)
  BY <1>1 DEF Out
<1> QED
  BY <1>1, <1>4, <1>5

-----------------------------------------------------------------------------
(* The steps.                                                              *)

\* A transition that has its opId has read a document, and will rewrite it.
LEMMA GoesToWrite ==
    ASSUME ProposalAssumptions, PInv, NEW a \in Actors, NEW c, c = call[a],
           c.kind \in {"approve", "undo"}, c.at \in {"fresh", "target", "mark"}, c.op # 0,
           NEW d, call' = [call EXCEPT ![a] = d],
           d = [c EXCEPT !.at = "write", !.out = Out(c, P!At(c), c.op)],
           UNCHANGED <<doc, opLog, manLog, commands, failures, overlap>>
    PROVE  PInv'
<1>1. /\ P!Busy(a) /\ c \in P!Call /\ Shape(c) /\ c.path \in P!Docs /\ P!At(c) \in P!Docs
      /\ c.path \in Proposals /\ P!Count(c.path) \in Nat
  <2>1. P!Busy(a) /\ c \in P!Call /\ Shape(c) /\ c.path \in P!Docs /\ P!At(c) \in P!Docs
    BY BusyIs
  <2>2. c.path \in Proposals
    BY <2>1, IdleIs DEF Shape
  <2> QED
    BY <2>1, <2>2, Counts
<1>2. c.op \in P!Ops
  BY <1>1 DEF P!Call, P!Ops
<1>3. NewLine(c) = Line(NewWhat(c), c.path, c.op)
  BY DEF NewLine
<1>4. PICK o : o = Out(c, P!At(c), c.op)
  OBVIOUS
<1>5. /\ o \in P!Doc /\ o.lines = doc[P!At(c)].lines \cup {NewLine(c)}
      /\ o.status = NewStatus(c) /\ NewWhat(c) # "forget undone"
  <2>1. doc \in [P!Docs -> P!Doc]
    BY Typed
  <2>0. P!At(c) \in P!Docs /\ c.path \in P!Docs
    BY <1>1
  <2>2. /\ Out(c, P!At(c), c.op) \in P!Doc /\ Out(c, P!At(c), c.op).status = NewStatus(c)
        /\ Out(c, P!At(c), c.op).lines
             = doc[P!At(c)].lines \cup {Line(NewWhat(c), c.path, c.op)}
    <3>1. c.kind \in Transitions
      BY DEF Transitions
    <3>2. PICK op, d1 : op = c.op /\ d1 = P!At(c)
      OBVIOUS
    <3>3. op \in P!Ops /\ d1 \in P!Docs
      BY <1>2, <2>0, <3>2
    <3>4. /\ Out(c, d1, op) \in P!Doc /\ Out(c, d1, op).status = NewStatus(c)
          /\ Out(c, d1, op).lines = doc[d1].lines \cup {Line(NewWhat(c), c.path, op)}
      BY <2>0, <2>1, <3>1, <3>3, OutFits
    <3> QED
      BY <3>2, <3>4
  <2>3. NewWhat(c) # "forget undone"
    BY DEF NewWhat
  <2> QED
    BY <1>3, <1>4, <2>2, <2>3
<1>6. /\ d.kind = c.kind /\ d.path = c.path /\ d.at = "write" /\ d.i = c.i /\ d.op = c.op
      /\ d.seen = c.seen /\ d.out = o /\ d \in P!Call
  <2>1. d = [c EXCEPT !.at = "write", !.out = o]
    BY <1>4
  <2> QED
    BY <1>1, <1>5, <2>1 DEF P!Call
<1>7. Shape(d)
  BY <1>1, <1>6, IdleIs DEF Shape
<1>8. \A l \in d.out.lines : Logged(l)
  <2>1. \A l \in doc[P!At(c)].lines : Logged(l)
    BY <1>1 DEF PInv, Logs
  <2>2. c.op \in opLog
    BY DEF PInv, Logs
  <2>3. Logged(NewLine(c))
    <3>1. NewLine(c).op = c.op /\ NewLine(c).what = NewWhat(c)
      BY DEF NewLine, Line
    <3> QED
      BY <1>5, <2>2, <3>1 DEF Logged
  <2> QED
    BY <1>5, <1>6, <2>1, <2>3
<1>9. ~overlap => Fits(d)
  <2> SUFFICES ASSUME ~overlap PROVE Fits(d)
    OBVIOUS
  <2>1. Fits(c)
    BY DEF PInv, OneByOne
  <2>2. P!At(d) = P!At(c) /\ NewLine(d) = NewLine(c) /\ NewStatus(d) = NewStatus(c)
        /\ Stage(d) = Stage(c)
    BY <1>6 DEF P!At, NewLine, NewWhat, NewStatus, Stage
  <2>3. FitsOp(d) /\ FitsDecision(d)
    BY <1>6, <2>1 DEF Fits, FitsOp, FitsDecision
  <2>4. FitsApprove(d)
    BY <1>6, <2>1, <2>2 DEF Fits, FitsApprove
  <2>5. FitsUndo(d)
    BY <1>6, <2>1, <2>2 DEF Fits, FitsUndo
  <2>6. FitsOut(d)
    BY <1>5, <1>6, <2>2 DEF FitsOut
  <2> QED
    BY <2>3, <2>4, <2>5, <2>6 DEF Fits
<1> QED
  BY <1>1, <1>6, <1>7, <1>8, <1>9, Reads, Typed

\* What is known of the command under way.
LEMMA Here ==
    ASSUME ProposalAssumptions, PInv, NEW a \in Actors, NEW c, c = call[a], c.at # "idle"
    PROVE  /\ P!Busy(a) /\ c \in P!Call /\ Shape(c) /\ c # P!Idle /\ c.kind # "idle"
           /\ c.path \in P!Docs /\ P!At(c) \in P!Docs
           /\ c.kind \in Transitions => /\ c.path \in Proposals /\ P!Count(c.path) \in Nat
                                        /\ P!Count(c.path) >= 2
           /\ \A l \in c.out.lines : Logged(l)
           /\ ~overlap => Fits(c) /\ Rest
<1>1. /\ P!Busy(a) /\ c \in P!Call /\ Shape(c) /\ c # P!Idle /\ c.kind # "idle"
      /\ c.path \in P!Docs /\ P!At(c) \in P!Docs
  BY BusyIs DEF P!Busy
<1>2. c.kind \in Transitions => c.path \in Proposals
  BY <1>1 DEF Shape, Transitions
<1>3. \A l \in c.out.lines : Logged(l)
  BY DEF PInv, Logs
<1>4. ~overlap => Fits(c) /\ Rest
  BY DEF PInv, OneByOne
<1> QED
  BY <1>1, <1>2, <1>3, <1>4, Counts

LEMMA NextInOps ==
    ASSUME ProposalAssumptions, PInv, NEW a \in Actors, P!Busy(a), call[a].op = 0
    PROVE  P!NextOp \in P!Ops /\ P!NextOp \in 0..MaxCalls
<1>1. a \in Untaken
  BY BusyIs DEF Untaken
<1>2. IsFiniteSet(Untaken) /\ Taken + Cardinality(Untaken) <= commands
  BY DEF PInv, Issued
<1>3. IsFiniteSet(Untaken \ {a}) /\ Cardinality(Untaken \ {a}) = Cardinality(Untaken) - 1
  BY <1>1, <1>2, FS_RemoveElement
<1>4. Cardinality(Untaken \ {a}) \in Nat /\ Cardinality(Untaken) \in Nat
  BY <1>2, <1>3, FS_CardinalityType
<1>5. /\ P!NextOp = Taken + 1 /\ Taken \in Nat
      /\ commands \in Nat /\ MaxCalls \in Nat /\ commands <= MaxCalls
  BY NextIs, Typed DEF PInv, ProposalAssumptions, P!BoundsAssumption
<1> QED
  BY <1>2, <1>3, <1>4, <1>5 DEF P!Ops

LEMMA CheckApproveStep ==
    ASSUME ProposalAssumptions, PInv, NEW a \in Actors, P!CheckApprove(a) PROVE PInv'
<1>1. PICK c : c = call[a]
  OBVIOUS
<1>2. c.kind = "approve" /\ c.at = "check" /\ UNCHANGED doc /\ P!Quiet
  BY <1>1 DEF P!CheckApprove
<1>3. /\ P!Busy(a) /\ c \in P!Call /\ Shape(c) /\ c # P!Idle /\ c.path \in P!Docs
      /\ c.path \in Proposals /\ P!Count(c.path) \in Nat /\ P!Count(c.path) >= 2
      /\ \A l \in c.out.lines : Logged(l)
      /\ c.op = 0 /\ c.i = 0
  <2>1. c.kind \in Transitions
    BY <1>2 DEF Transitions
  <2>2. P!Busy(a) /\ c \in P!Call /\ Shape(c) /\ c # P!Idle /\ c.path \in P!Docs
    BY <1>1, <1>2, Here
  <2>3. /\ c.path \in Proposals /\ P!Count(c.path) \in Nat /\ P!Count(c.path) >= 2
        /\ \A l \in c.out.lines : Logged(l)
    BY <1>1, <1>2, <2>1, Here
  <2>4. c.op = 0 /\ c.i = 0
    BY <1>2, <2>2 DEF Shape
  <2> QED
    BY <2>2, <2>3, <2>4
<1>4. CASE P!Becomes(a, [c EXCEPT !.at = "replay", !.i = 1]) /\ P!NoRecord
  <2>1. PICK d : d = [c EXCEPT !.at = "replay", !.i = 1]
    OBVIOUS
  <2>2. /\ d.kind = "approve" /\ d.path = c.path /\ d.at = "replay" /\ d.i = 1 /\ d.op = 0
        /\ d.out = c.out /\ d \in P!Call
    BY <1>2, <1>3, <2>1 DEF P!Call
  <2>3. Shape(d)
    BY <1>3, <2>2 DEF Shape
  <2>4. Fits(d)
    BY <2>2 DEF Fits, FitsOp, FitsApprove, FitsDecision, FitsUndo, FitsOut
  <2>5. call' = [call EXCEPT ![a] = d]
        /\ UNCHANGED <<doc, opLog, manLog, commands, overlap, failures>>
    BY <1>2, <1>4, <2>1 DEF P!Becomes, P!NoRecord, P!Quiet
  <2> QED
    BY <1>1, <1>2, <1>3, <2>2, <2>3, <2>4, <2>5, Typed, Reads
<1>5. CASE /\ doc[c.path].status = "pending-approval"
           /\ P!Becomes(a, [c EXCEPT !.at = "fresh", !.op = P!NextOp])
           /\ P!Record(P!NextOp)
  <2>1. PICK d, o : d = [c EXCEPT !.at = "fresh", !.op = o] /\ o = P!NextOp
    OBVIOUS
  <2>2. o \in 0..MaxCalls /\ o # 0
    BY <1>1, <1>3, <2>1, NextInOps, NextIs DEF PInv
  <2>3. /\ d.kind = "approve" /\ d.path = c.path /\ d.at = "fresh" /\ d.i = 0 /\ d.op = o
        /\ d.out = c.out /\ d \in P!Call
    BY <1>2, <1>3, <2>1, <2>2 DEF P!Call
  <2>4. Shape(d)
    BY <1>3, <2>2, <2>3 DEF Shape
  <2>5. Fits(d)
    <3>1. FitsOp(d)
      BY <2>1, <2>3, FreshFits
    <3>2. FitsApprove(d)
      BY <1>5, <2>3 DEF FitsApprove, Stage
    <3>3. FitsDecision(d) /\ FitsUndo(d) /\ FitsOut(d)
      BY <2>3 DEF FitsDecision, FitsUndo, FitsOut
    <3> QED
      BY <3>1, <3>2, <3>3 DEF Fits
  <2>6. call' = [call EXCEPT ![a] = d] /\ UNCHANGED <<doc, commands, failures, overlap>>
    BY <1>2, <1>5, <2>1 DEF P!Becomes, P!Quiet
  <2> QED
    BY <1>1, <1>2, <1>3, <1>5, <2>1, <2>3, <2>4, <2>5, <2>6, TakesOp
<1>6. CASE P!Ends(a) /\ P!NoRecord
  BY <1>2, <1>3, <1>6, Ended, Typed DEF P!NoRecord, P!Quiet
<1> QED
  BY <1>1, <1>2, <1>4, <1>5, <1>6 DEF P!CheckApprove

LEMMA ReplayCheckStep ==
    ASSUME ProposalAssumptions, PInv, NEW a \in Actors, P!ReplayCheck(a) PROVE PInv'
<1>1. PICK c : c = call[a]
  OBVIOUS
<1>2. c.at = "replay" /\ UNCHANGED <<doc, opLog, manLog, commands, overlap, failures>>
  BY <1>1 DEF P!ReplayCheck, P!NoRecord, P!Quiet
<1>3. /\ P!Busy(a) /\ c \in P!Call /\ Shape(c) /\ c # P!Idle
      /\ \A l \in c.out.lines : Logged(l)
  BY <1>1, <1>2, Here
<1>4. c.kind = "approve" /\ c.op = 0 /\ c.path \in Proposals /\ c.i \in 1..P!Count(c.path)
  BY <1>2, <1>3 DEF Shape
<1>5. P!Count(c.path) \in Nat
  BY <1>4, Counts
<1>6. CASE c.i < P!Count(c.path) /\ P!Becomes(a, [c EXCEPT !.i = @ + 1])
  <2>1. PICK d : d = [c EXCEPT !.i = @ + 1]
    OBVIOUS
  <2>2. /\ d.kind = "approve" /\ d.path = c.path /\ d.at = "replay" /\ d.i = c.i + 1
        /\ d.op = 0 /\ d.out = c.out /\ d \in P!Call
    BY <1>2, <1>3, <1>4, <1>5, <2>1 DEF P!Call
  <2>3. d.i \in 1..P!Count(c.path)
    BY <1>4, <1>5, <1>6, <2>2
  <2>4. Shape(d)
    BY <1>4, <2>2, <2>3 DEF Shape
  <2>5. Fits(d)
    BY <2>2 DEF Fits, FitsOp, FitsApprove, FitsDecision, FitsUndo, FitsOut
  <2>6. call' = [call EXCEPT ![a] = d]
    BY <1>6, <2>1 DEF P!Becomes
  <2> QED
    BY <1>1, <1>2, <1>3, <1>4, <2>2, <2>4, <2>5, <2>6, Typed, Reads
<1>7. CASE P!Ends(a)
  BY <1>2, <1>3, <1>7, Ended, Typed
<1> QED
  BY <1>1, <1>6, <1>7 DEF P!ReplayCheck

LEMMA FreshApproveStep ==
    ASSUME ProposalAssumptions, PInv, NEW a \in Actors, P!FreshApprove(a) PROVE PInv'
<1>1. PICK c : c = call[a]
  OBVIOUS
<1>2. /\ c.kind = "approve" /\ c.at = "fresh"
      /\ UNCHANGED <<doc, opLog, manLog, commands, failures, overlap>>
  BY <1>1 DEF P!FreshApprove, P!NoRecord, P!Quiet
<1>3. Shape(c) /\ c # P!Idle
  BY <1>1, <1>2, Here
<1>4. c.i = 0 /\ c.op # 0 /\ c.path \in Proposals
  BY <1>2, <1>3 DEF Shape
<1>5. P!At(c) = c.path /\ NewStatus(c) = "active" /\ NewWhat(c) = "approved"
  BY <1>2, <1>4 DEF P!At, NewStatus, NewWhat
<1>6. PICK d : d = [c EXCEPT !.at = "write", !.out = Out(c, P!At(c), c.op)]
  OBVIOUS
<1>7. call' = [call EXCEPT ![a] = d]
  <2>1. Out(c, P!At(c), c.op)
          = P!AppendProvenance(P!WithStatus(doc[c.path], "active"), "approved", c.path, c.op)
    BY <1>5 DEF Out
  <2> QED
    BY <1>1, <1>6, <2>1 DEF P!FreshApprove, P!Becomes
<1> QED
  BY <1>1, <1>2, <1>4, <1>6, <1>7, GoesToWrite

LEMMA TargetApproveStep ==
    ASSUME ProposalAssumptions, PInv, NEW a \in Actors, P!TargetApprove(a) PROVE PInv'
<1>1. PICK c : c = call[a]
  OBVIOUS
<1>2. /\ c.kind = "approve" /\ c.at = "target"
      /\ UNCHANGED <<doc, opLog, manLog, commands, failures, overlap>>
  BY <1>1 DEF P!TargetApprove, P!NoRecord, P!Quiet
<1>3. Shape(c) /\ c # P!Idle /\ P!Busy(a)
  BY <1>1, <1>2, Here
<1>4. c.i # 0 /\ c.op # 0
  BY <1>2, <1>3 DEF Shape
<1>5. NewStatus(c) = "superseded" /\ NewWhat(c) = "superseded"
  BY <1>2, <1>4 DEF NewStatus, NewWhat
<1>6. CASE P!Becomes(a, [c EXCEPT !.at = "write", !.out =
              P!AppendProvenance(P!WithStatus(doc[P!At(c)], "superseded"),
                               "superseded", c.path, c.op)])
  <2>1. PICK d : d = [c EXCEPT !.at = "write", !.out = Out(c, P!At(c), c.op)]
    OBVIOUS
  <2>2. call' = [call EXCEPT ![a] = d]
    <3>1. Out(c, P!At(c), c.op)
            = P!AppendProvenance(P!WithStatus(doc[P!At(c)], "superseded"), "superseded", c.path, c.op)
      BY <1>5 DEF Out
    <3> QED
      BY <1>6, <2>1, <3>1 DEF P!Becomes
  <2> QED
    BY <1>1, <1>2, <1>4, <2>1, <2>2, GoesToWrite
<1>7. CASE P!Ends(a)
  BY <1>2, <1>3, <1>7, Ended, Typed
<1> QED
  BY <1>1, <1>6, <1>7 DEF P!TargetApprove

LEMMA MarkUndoneStep ==
    ASSUME ProposalAssumptions, PInv, NEW a \in Actors, P!MarkUndone(a) PROVE PInv'
<1>1. PICK c : c = call[a]
  OBVIOUS
<1>2. /\ c.at = "mark" /\ UNCHANGED <<doc, opLog, manLog, commands, failures, overlap>>
  BY <1>1 DEF P!MarkUndone, P!NoRecord, P!Quiet
<1>3. Shape(c) /\ c # P!Idle
  BY <1>1, <1>2, Here
<1>4. c.kind = "undo" /\ c.path \in Proposals /\ c.i = P!Count(c.path) + 1 /\ c.op # 0
  BY <1>2, <1>3 DEF Shape
<1>5. P!Count(c.path) \in Nat
  BY <1>4, Counts
<1>6. P!At(c) = c.path /\ NewStatus(c) = "superseded" /\ NewWhat(c) = "undone"
  <2>1. c.i \notin 1..P!Count(c.path) /\ ~ c.i <= P!Count(c.path)
    BY <1>4, <1>5
  <2> QED
    BY <1>4, <2>1 DEF P!At, NewStatus, NewWhat
<1>7. PICK d : d = [c EXCEPT !.at = "write", !.out = Out(c, P!At(c), c.op)]
  OBVIOUS
<1>8. call' = [call EXCEPT ![a] = d]
  <2>1. Out(c, P!At(c), c.op)
          = P!AppendProvenance(P!WithStatus(doc[c.path], "superseded"), "undone", c.path, c.op)
    BY <1>6 DEF Out
  <2> QED
    BY <1>1, <1>7, <2>1 DEF P!MarkUndone, P!Becomes
<1> QED
  BY <1>1, <1>2, <1>4, <1>7, <1>8, GoesToWrite

LEMMA CheckStatusStep ==
    ASSUME ProposalAssumptions, PInv, NEW a \in Actors, P!CheckStatus(a) PROVE PInv'
<1>1. PICK c, s : c = call[a] /\ s = doc[c.path].status
  OBVIOUS
<1>2. /\ c.kind \in {"reject", "undo"} /\ c.at = "check"
      /\ UNCHANGED <<doc, opLog, manLog, commands, failures, overlap>>
  BY <1>1 DEF P!CheckStatus, P!NoRecord, P!Quiet
<1>3. /\ P!Busy(a) /\ c \in P!Call /\ Shape(c) /\ c # P!Idle /\ c.path \in P!Docs
      /\ \A l \in c.out.lines : Logged(l)
  BY <1>1, <1>2, Here
<1>4. c.op = 0 /\ c.path \in Proposals /\ c.i = 0
  BY <1>2, <1>3 DEF Shape
<1>5. s \in {"pending-approval", "active", "superseded"}
  BY <1>1, <1>3, Typed DEF P!Doc
<1>6. PICK d : d = [c EXCEPT !.at = "fresh", !.seen = s]
  OBVIOUS
<1>7. /\ d.kind = c.kind /\ d.path = c.path /\ d.at = "fresh" /\ d.i = 0 /\ d.op = 0
      /\ d.seen = s /\ d.out = c.out /\ d \in P!Call
  BY <1>3, <1>4, <1>5, <1>6 DEF P!Call
<1>8. Shape(d)
  BY <1>2, <1>4, <1>7 DEF Shape
<1>9. Fits(d)
  BY <1>1, <1>2, <1>7 DEF Fits, FitsOp, FitsApprove, FitsDecision, FitsUndo, FitsOut
<1>10. call' = [call EXCEPT ![a] = d]
  BY <1>1, <1>6 DEF P!CheckStatus, P!Becomes
<1> QED
  BY <1>1, <1>2, <1>3, <1>4, <1>7, <1>8, <1>9, <1>10, Typed, Reads

LEMMA FreshUndoStep ==
    ASSUME ProposalAssumptions, PInv, NEW a \in Actors, P!FreshUndo(a) PROVE PInv'
<1>1. PICK c : c = call[a]
  OBVIOUS
<1>2. /\ c.kind = "undo" /\ c.at = "fresh" /\ UNCHANGED <<doc, commands, failures, overlap>>
  BY <1>1 DEF P!FreshUndo, P!Quiet
<1>3. /\ P!Busy(a) /\ c \in P!Call /\ Shape(c) /\ c # P!Idle
      /\ \A l \in c.out.lines : Logged(l)
  BY <1>1, <1>2, Here
<1>4. c.op = 0 /\ c.path \in Proposals /\ c.i = 0
  BY <1>2, <1>3 DEF Shape
<1>5. CASE /\ c.seen = "active"
           /\ P!Becomes(a, [c EXCEPT !.at = "target", !.i = 1, !.op = P!NextOp])
           /\ P!Record(P!NextOp)
  <2>1. PICK d, o : d = [c EXCEPT !.at = "target", !.i = 1, !.op = o] /\ o = P!NextOp
    OBVIOUS
  <2>2. o \in 0..MaxCalls /\ o # 0
    BY <1>1, <1>3, <1>4, <2>1, NextInOps, NextIs DEF PInv
  <2>3. /\ d.kind = "undo" /\ d.path = c.path /\ d.at = "target" /\ d.i = 1 /\ d.op = o
        /\ d.out = c.out /\ d \in P!Call
    BY <1>2, <1>3, <2>1, <2>2 DEF P!Call
  <2>4. Shape(d)
    <3>1. 1 \in 1..P!Count(c.path)
      BY <1>4, Counts
    <3> QED
      BY <1>4, <2>2, <2>3, <3>1 DEF Shape
  <2>5. ~overlap => Fits(d)
    <3> SUFFICES ASSUME ~overlap PROVE Fits(d)
      OBVIOUS
    <3>1. FitsOp(d)
      BY <2>1, <2>3, FreshFits
    <3>2. doc[c.path].status = "active"
      <4>1. FitsDecision(c)
        BY <1>1, <1>2, Here DEF Fits
      <4> QED
        BY <1>2, <1>5, <4>1 DEF FitsDecision
    <3>3. FitsUndo(d)
      <4>1. Stage(d) = 1
        BY <2>3 DEF Stage
      <4> QED
        BY <2>3, <3>2, <4>1 DEF FitsUndo
    <3>4. FitsApprove(d) /\ FitsDecision(d) /\ FitsOut(d)
      BY <2>3 DEF FitsApprove, FitsDecision, FitsOut
    <3> QED
      BY <3>1, <3>3, <3>4 DEF Fits
  <2>6. call' = [call EXCEPT ![a] = d]
    BY <1>5, <2>1 DEF P!Becomes
  <2> QED
    BY <1>1, <1>2, <1>3, <1>4, <1>5, <2>1, <2>3, <2>4, <2>5, <2>6, TakesOp
<1>6. CASE P!Ends(a) /\ P!NoRecord
  BY <1>2, <1>3, <1>6, Ended, Typed DEF P!NoRecord
<1> QED
  BY <1>1, <1>5, <1>6 DEF P!FreshUndo

LEMMA FreshRejectStep ==
    ASSUME ProposalAssumptions, PInv, NEW a \in Actors, P!FreshReject(a) PROVE PInv'
<1>1. PICK c : c = call[a]
  OBVIOUS
<1>2. /\ c.kind = "reject" /\ c.at = "fresh" /\ UNCHANGED <<doc, commands, failures, overlap>>
  BY <1>1 DEF P!FreshReject, P!Quiet
<1>3. P!Busy(a) /\ c \in P!Call /\ Shape(c) /\ c # P!Idle /\ c.path \in P!Docs
  BY <1>1, <1>2, Here
<1>4. c.op = 0 /\ c.path \in Proposals /\ c.i = 0
  BY <1>2, <1>3 DEF Shape
<1>5. NewStatus(c) = "superseded" /\ NewWhat(c) = "rejected"
  BY <1>2 DEF NewStatus, NewWhat
<1>6. CASE /\ c.seen = "pending-approval"
           /\ P!Becomes(a, [c EXCEPT !.at = "write", !.op = P!NextOp, !.out =
                P!AppendProvenance(P!WithStatus(doc[c.path], "superseded"),
                                 "rejected", c.path, P!NextOp)])
           /\ P!Record(P!NextOp)
  <2>1. PICK n : n = P!NextOp
    OBVIOUS
  <2>2. n \in 0..MaxCalls /\ n \in P!Ops /\ n # 0
    BY <1>1, <1>3, <1>4, <2>1, NextInOps, NextIs DEF PInv
  <2>3. PICK o : o = Out(c, c.path, n)
    OBVIOUS
  <2>4. /\ o \in P!Doc /\ o.status = NewStatus(c)
        /\ o.lines = doc[c.path].lines \cup {Line(NewWhat(c), c.path, n)}
    <3>1. c.kind \in Transitions /\ doc \in [P!Docs -> P!Doc]
      BY <1>2, Typed DEF Transitions
    <3>2. /\ Out(c, c.path, n) \in P!Doc /\ Out(c, c.path, n).status = NewStatus(c)
          /\ Out(c, c.path, n).lines
               = doc[c.path].lines \cup {Line(NewWhat(c), c.path, n)}
      BY <1>3, <2>2, <3>1, OutFits
    <3> QED
      BY <2>3, <3>2
  <2>5. PICK d : d = [c EXCEPT !.at = "write", !.op = n, !.out = o]
    OBVIOUS
  <2>6. call' = [call EXCEPT ![a] = d]
    <3>1. o = P!AppendProvenance(P!WithStatus(doc[c.path], "superseded"), "rejected", c.path, n)
      BY <1>5, <2>3 DEF Out
    <3> QED
      BY <1>6, <2>1, <2>5, <3>1 DEF P!Becomes
  <2>7. /\ d.kind = "reject" /\ d.path = c.path /\ d.at = "write" /\ d.i = 0 /\ d.op = n
        /\ d.out = o /\ d \in P!Call
    BY <1>2, <1>3, <1>4, <2>2, <2>4, <2>5 DEF P!Call
  <2>8. Shape(d)
    BY <1>4, <2>2, <2>7 DEF Shape
  <2>9. Line(NewWhat(c), c.path, n).op = n /\ Line(NewWhat(c), c.path, n).what = "rejected"
    BY <1>5 DEF Line
  <2>10. \A l \in d.out.lines : \/ Logged(l)
                                \/ l.op = P!NextOp
                                     /\ (l.what = "forget undone" <=> d.kind = "unforget")
    <3>1. \A l \in doc[c.path].lines : Logged(l)
      BY <1>3 DEF PInv, Logs
    <3> QED
      BY <2>1, <2>4, <2>7, <2>9, <3>1
  <2>11. ~overlap => Fits(d)
    <3> SUFFICES ASSUME ~overlap PROVE Fits(d)
      OBVIOUS
    <3>1. FitsOp(d)
      BY <2>1, <2>7, FreshFits
    <3>2. FitsDecision(d)
      <4>1. FitsDecision(c)
        BY <1>1, <1>2, Here DEF Fits
      <4> QED
        BY <1>2, <1>6, <2>7, <4>1 DEF FitsDecision
    <3>3. FitsApprove(d) /\ FitsUndo(d)
      BY <2>7 DEF FitsApprove, FitsUndo
    <3>4. FitsOut(d)
      <4>1. P!At(d) = c.path
        BY <2>7 DEF P!At
      <4>2. NewLine(d) = Line(NewWhat(c), c.path, n) /\ NewStatus(d) = NewStatus(c)
        BY <1>2, <2>7 DEF NewLine, NewWhat, NewStatus
      <4> QED
        BY <2>4, <2>7, <4>1, <4>2 DEF FitsOut
    <3> QED
      BY <3>1, <3>2, <3>3, <3>4 DEF Fits
  <2> QED
    BY <1>1, <1>2, <1>3, <1>4, <1>6, <2>1, <2>6, <2>7, <2>8, <2>10, <2>11, TakesOp
<1>7. CASE P!Ends(a) /\ P!NoRecord
  BY <1>2, <1>3, <1>7, Ended, Typed DEF P!NoRecord
<1> QED
  BY <1>1, <1>6, <1>7 DEF P!FreshReject

\* The next target of an undo, or the proposal itself.
LEMMA NextOfUndoIs ==
    ASSUME ProposalAssumptions, NEW c \in P!Call, c.kind = "undo", c.path \in Proposals,
           c.i \in 1..P!Count(c.path), c.op # 0,
           NEW d, d = P!NextOfUndo(c)
    PROVE  /\ d \in P!Call /\ Shape(d) /\ d.kind = "undo" /\ d.path = c.path /\ d.i = c.i + 1
           /\ d.op = c.op /\ d.out = c.out /\ d.at \in {"target", "mark"} /\ Stage(d) = c.i + 1
<1>1. P!Count(c.path) \in Nat
  BY Counts
<1>2. PICK w : w = IF c.i < P!Count(c.path) THEN "target" ELSE "mark"
  OBVIOUS
<1>3. d = [c EXCEPT !.i = c.i + 1, !.at = w]
  BY <1>2 DEF P!NextOfUndo
<1>4. w \in {"target", "mark"}
  BY <1>2
<1>5. /\ d.kind = "undo" /\ d.path = c.path /\ d.i = c.i + 1 /\ d.op = c.op /\ d.out = c.out
      /\ d.at = w /\ d \in P!Call
  <2>1. PICK n : n = c.i + 1
    OBVIOUS
  <2>2. n \in Nat
    BY <1>1, <2>1
  <2>3. d = [c EXCEPT !.i = n, !.at = w]
    BY <1>3, <2>1
  <2> QED
    BY <1>4, <2>1, <2>2, <2>3 DEF P!Call
<1>6. IF d.at = "target" THEN d.i \in 1..P!Count(c.path) ELSE d.i = P!Count(c.path) + 1
  BY <1>1, <1>2, <1>5
<1>7. Shape(d)
  BY <1>4, <1>5, <1>6 DEF Shape
<1>8. Stage(d) = c.i + 1
  BY <1>4, <1>5 DEF Stage
<1> QED
  BY <1>4, <1>5, <1>7, <1>8

LEMMA TargetUndoStep ==
    ASSUME ProposalAssumptions, PInv, NEW a \in Actors, P!TargetUndo(a) PROVE PInv'
<1>1. PICK c : c = call[a]
  OBVIOUS
<1>2. /\ c.kind = "undo" /\ c.at = "target"
      /\ UNCHANGED <<doc, opLog, manLog, commands, failures, overlap>>
  BY <1>1 DEF P!TargetUndo, P!NoRecord, P!Quiet
<1>3. /\ P!Busy(a) /\ c \in P!Call /\ Shape(c) /\ c # P!Idle
      /\ \A l \in c.out.lines : Logged(l)
  BY <1>1, <1>2, Here
<1>4. c.op # 0 /\ c.path \in Proposals /\ c.i \in 1..P!Count(c.path)
  BY <1>2, <1>3 DEF Shape
<1>5. P!Count(c.path) \in Nat
  BY <1>4, Counts
<1>6. CASE doc[P!At(c)].status = "active" /\ P!Becomes(a, P!NextOfUndo(c))
  <2>1. PICK d : d = P!NextOfUndo(c)
    OBVIOUS
  <2>2. /\ d \in P!Call /\ Shape(d) /\ d.kind = "undo" /\ d.path = c.path /\ d.i = c.i + 1
        /\ d.op = c.op /\ d.out = c.out /\ d.at \in {"target", "mark"} /\ Stage(d) = c.i + 1
    BY <1>2, <1>3, <1>4, <2>1, NextOfUndoIs
  <2>3. ~overlap => Fits(d)
    <3> SUFFICES ASSUME ~overlap PROVE Fits(d)
      OBVIOUS
    <3>1. Fits(c)
      BY <1>1, <1>2, Here
    <3>2. FitsOp(d)
      BY <2>2, <3>1 DEF Fits, FitsOp
    <3>3. FitsUndo(d)
      <4>1. Stage(c) = c.i /\ Stage(c) <= P!Count(c.path) + 1
        BY <1>2, <1>4, <1>5 DEF Stage
      <4>2. /\ doc[c.path].status = "active"
            /\ \A k \in 1..P!Count(c.path) : k < c.i => doc[TargetsOf[c.path][k]].status = "active"
        BY <1>2, <1>4, <3>1, <4>1 DEF Fits, FitsUndo
      <4>3. P!At(c) = TargetsOf[c.path][c.i]
        BY <1>4 DEF P!At
      <4>4. \A k \in 1..P!Count(c.path) : k < c.i + 1 => k < c.i \/ k = c.i
        BY <1>4, <1>5
      <4> QED
        BY <1>6, <2>2, <4>2, <4>3, <4>4 DEF FitsUndo
    <3>4. FitsApprove(d) /\ FitsDecision(d) /\ FitsOut(d)
      BY <2>2 DEF FitsApprove, FitsDecision, FitsOut
    <3> QED
      BY <3>2, <3>3, <3>4 DEF Fits
  <2>4. call' = [call EXCEPT ![a] = d]
    BY <1>6, <2>1 DEF P!Becomes
  <2> QED
    BY <1>1, <1>2, <1>3, <1>4, <2>2, <2>3, <2>4, Typed, Reads
<1>7. CASE P!Becomes(a, [c EXCEPT !.at = "write", !.out =
              P!AppendProvenance(P!WithStatus(doc[P!At(c)], "active"), "restored", c.path, c.op)])
  <2>1. NewStatus(c) = "active" /\ NewWhat(c) = "restored"
    <3>1. c.i <= P!Count(c.path)
      BY <1>4, <1>5
    <3> QED
      BY <1>2, <3>1 DEF NewStatus, NewWhat
  <2>2. PICK d : d = [c EXCEPT !.at = "write", !.out = Out(c, P!At(c), c.op)]
    OBVIOUS
  <2>3. call' = [call EXCEPT ![a] = d]
    <3>1. Out(c, P!At(c), c.op)
            = P!AppendProvenance(P!WithStatus(doc[P!At(c)], "active"), "restored", c.path, c.op)
      BY <2>1 DEF Out
    <3> QED
      BY <1>7, <2>2, <3>1 DEF P!Becomes
  <2> QED
    BY <1>1, <1>2, <1>4, <2>2, <2>3, GoesToWrite
<1>8. CASE P!Ends(a)
  BY <1>2, <1>3, <1>8, Ended, Typed
<1> QED
  BY <1>1, <1>6, <1>7, <1>8 DEF P!TargetUndo

LEMMA VerifyStep ==
    ASSUME ProposalAssumptions, PInv, NEW a \in Actors, P!Verify(a) PROVE PInv'
<1>1. PICK c : c = call[a]
  OBVIOUS
<1>2. /\ c.at = "verify" /\ UNCHANGED <<doc, opLog, manLog, commands, failures, overlap>>
  BY <1>1 DEF P!Verify, P!NoRecord, P!Quiet
<1>3. /\ P!Busy(a) /\ c \in P!Call /\ Shape(c) /\ c # P!Idle
      /\ \A l \in c.out.lines : Logged(l)
  BY <1>1, <1>2, Here
<1>4. c.op # 0
  BY <1>2, <1>3 DEF Shape
<1>5. Stage(c) = c.i + 1
  BY <1>2 DEF Stage
<1>6. CASE /\ c.kind = "approve" /\ c.i < P!Count(c.path)
           /\ P!Becomes(a, [c EXCEPT !.i = @ + 1, !.at = "target"])
  <2>1. PICK d : d = [c EXCEPT !.i = @ + 1, !.at = "target"]
    OBVIOUS
  <2>2. c.path \in Proposals /\ c.i \in 0..P!Count(c.path) /\ P!Count(c.path) \in Nat
    <3>1. c.path \in Proposals /\ c.i \in 0..P!Count(c.path)
      BY <1>2, <1>3, <1>6 DEF Shape
    <3> QED
      BY <3>1, Counts
  <2>3. /\ d.kind = "approve" /\ d.path = c.path /\ d.i = c.i + 1 /\ d.op = c.op
        /\ d.out = c.out /\ d.at = "target" /\ d \in P!Call
    <3>1. PICK n : n = c.i + 1
      OBVIOUS
    <3>2. n \in Nat
      BY <2>2, <3>1
    <3>3. d = [c EXCEPT !.i = n, !.at = "target"]
      BY <2>1, <3>1
    <3> QED
      BY <1>3, <1>6, <3>1, <3>2, <3>3 DEF P!Call
  <2>4. Shape(d)
    <3>1. d.i \in 1..P!Count(c.path)
      BY <1>6, <2>2, <2>3
    <3> QED
      BY <1>4, <2>2, <2>3, <3>1 DEF Shape
  <2>5. ~overlap => Fits(d)
    <3> SUFFICES ASSUME ~overlap PROVE Fits(d)
      OBVIOUS
    <3>1. Fits(c)
      BY <1>1, <1>2, Here
    <3>2. FitsOp(d)
      BY <2>3, <3>1 DEF Fits, FitsOp
    <3>3. FitsApprove(d)
      <4>1. Stage(d) = Stage(c)
        BY <1>5, <2>3 DEF Stage
      <4> QED
        BY <1>6, <2>3, <3>1, <4>1 DEF Fits, FitsApprove
    <3>4. FitsUndo(d) /\ FitsDecision(d) /\ FitsOut(d)
      BY <2>3 DEF FitsUndo, FitsDecision, FitsOut
    <3> QED
      BY <3>2, <3>3, <3>4 DEF Fits
  <2>6. call' = [call EXCEPT ![a] = d]
    BY <1>6, <2>1 DEF P!Becomes
  <2> QED
    BY <1>1, <1>2, <1>3, <1>4, <1>6, <2>3, <2>4, <2>5, <2>6, Typed, Reads
<1>7. CASE /\ c.kind = "undo" /\ c.i <= P!Count(c.path) /\ P!Becomes(a, P!NextOfUndo(c))
  <2>1. PICK d : d = P!NextOfUndo(c)
    OBVIOUS
  <2>2. c.path \in Proposals /\ c.i \in 1..P!Count(c.path)
    <3>1. c.path \in Proposals /\ c.i \in 1..(P!Count(c.path) + 1)
      BY <1>2, <1>3, <1>7 DEF Shape
    <3> QED
      BY <1>7, <3>1, Counts
  <2>3. /\ d \in P!Call /\ Shape(d) /\ d.kind = "undo" /\ d.path = c.path /\ d.i = c.i + 1
        /\ d.op = c.op /\ d.out = c.out /\ d.at \in {"target", "mark"} /\ Stage(d) = c.i + 1
    BY <1>3, <1>4, <1>7, <2>1, <2>2, NextOfUndoIs
  <2>4. ~overlap => Fits(d)
    <3> SUFFICES ASSUME ~overlap PROVE Fits(d)
      OBVIOUS
    <3>1. Fits(c)
      BY <1>1, <1>2, Here
    <3>2. FitsOp(d)
      BY <2>3, <3>1 DEF Fits, FitsOp
    <3>3. FitsUndo(d)
      BY <1>5, <1>7, <2>3, <3>1 DEF Fits, FitsUndo
    <3>4. FitsApprove(d) /\ FitsDecision(d) /\ FitsOut(d)
      BY <2>3 DEF FitsApprove, FitsDecision, FitsOut
    <3> QED
      BY <3>2, <3>3, <3>4 DEF Fits
  <2>5. call' = [call EXCEPT ![a] = d]
    BY <1>7, <2>1 DEF P!Becomes
  <2> QED
    BY <1>1, <1>2, <1>3, <1>4, <1>7, <2>3, <2>4, <2>5, Typed, Reads
<1>8. CASE P!Becomes(a, P!Idle)
  BY <1>2, <1>3, <1>8, Ended, Typed DEF P!Ends
<1> QED
  BY <1>1, <1>6, <1>7, <1>8 DEF P!Verify, P!AfterWrite

LEMMA UnforgetStep ==
    ASSUME ProposalAssumptions, PInv, NEW a \in Actors, P!Unforget(a) PROVE PInv'
<1>1. PICK c : c = call[a]
  OBVIOUS
<1>2. /\ c.kind = "unforget" /\ c.at = "check" /\ UNCHANGED <<doc, commands, failures, overlap>>
  BY <1>1 DEF P!Unforget, P!Quiet
<1>3. P!Busy(a) /\ c \in P!Call /\ Shape(c) /\ c # P!Idle /\ c.path \in P!Docs
  BY <1>1, <1>2, Here
<1>4. c.op = 0 /\ c.path \in Targets /\ c.i = 0
  BY <1>2, <1>3 DEF Shape
<1>5. CASE /\ P!Becomes(a, [c EXCEPT !.at = "write", !.op = P!NextOp, !.out =
                P!AppendProvenance([doc[c.path] EXCEPT !.forgotten = FALSE],
                                 "forget undone", c.path, P!NextOp)])
           /\ P!RecordManual(P!NextOp)
  <2>1. PICK n, e : n = P!NextOp /\ e = [doc[c.path] EXCEPT !.forgotten = FALSE]
    OBVIOUS
  <2>2. n \in 0..MaxCalls /\ n \in P!Ops /\ n # 0
    BY <1>1, <1>3, <1>4, <2>1, NextInOps, NextIs DEF PInv
  <2>3. PICK o : o = P!AppendProvenance(e, "forget undone", c.path, n)
    OBVIOUS
  <2>4. e \in P!Doc /\ e.lines = doc[c.path].lines /\ e.status = doc[c.path].status
    <3>1. doc[c.path] \in P!Doc
      BY <1>3, Typed
    <3> QED
      BY <2>1, <3>1 DEF P!Doc
  <2>5. /\ o \in P!Doc /\ o.status = doc[c.path].status
        /\ o.lines = doc[c.path].lines \cup {Line("forget undone", c.path, n)}
    <3>1. PICK w : w = "forget undone"
      OBVIOUS
    <3>2. w \in Whats
      BY <3>1 DEF Whats
    <3>3. /\ P!AppendProvenance(e, w, c.path, n) \in P!Doc
          /\ P!AppendProvenance(e, w, c.path, n).lines = e.lines \cup {Line(w, c.path, n)}
          /\ P!AppendProvenance(e, w, c.path, n).status = e.status
      BY <1>3, <2>2, <2>4, <3>2, OutIs
    <3> QED
      BY <2>3, <2>4, <3>1, <3>3
  <2>6. PICK d : d = [c EXCEPT !.at = "write", !.op = n, !.out = o]
    OBVIOUS
  <2>7. call' = [call EXCEPT ![a] = d]
    BY <1>5, <2>1, <2>3, <2>6 DEF P!Becomes
  <2>8. /\ d.kind = "unforget" /\ d.path = c.path /\ d.at = "write" /\ d.i = 0 /\ d.op = n
        /\ d.out = o /\ d \in P!Call
    BY <1>2, <1>3, <1>4, <2>2, <2>5, <2>6 DEF P!Call
  <2>9. Shape(d)
    BY <1>4, <2>2, <2>8 DEF Shape
  <2>10. /\ Line("forget undone", c.path, n).op = n
         /\ Line("forget undone", c.path, n).what = "forget undone"
    BY DEF Line
  <2>11. \A l \in d.out.lines :
            \/ Logged(l)
            \/ l.op = P!NextOp /\ (l.what = "forget undone" <=> d.kind = "unforget")
    <3>1. \A l \in doc[c.path].lines : Logged(l)
      BY <1>3 DEF PInv, Logs
    <3> QED
      BY <2>1, <2>5, <2>8, <2>10, <3>1
  <2>12. Fits(d)
    <3>1. FitsOp(d)
      BY <2>1, <2>8, FreshFits
    <3>2. FitsDecision(d) /\ FitsApprove(d) /\ FitsUndo(d)
      BY <2>8 DEF FitsDecision, FitsApprove, FitsUndo
    <3>3. FitsOut(d)
      <4>1. P!At(d) = c.path
        BY <2>8 DEF P!At
      <4>2. NewLine(d) = Line("forget undone", c.path, n) /\ NewStatus(d) = doc[c.path].status
        BY <2>8 DEF NewLine, NewWhat, NewStatus
      <4> QED
        BY <2>5, <2>8, <4>1, <4>2 DEF FitsOut
    <3> QED
      BY <3>1, <3>2, <3>3 DEF Fits
  <2> QED
    BY <1>1, <1>2, <1>3, <1>4, <1>5, <2>1, <2>7, <2>8, <2>9, <2>11, <2>12, TakesOp
<1>6. CASE P!Ends(a) /\ P!NoRecord
  BY <1>2, <1>3, <1>6, Ended, Typed DEF P!NoRecord
<1> QED
  BY <1>1, <1>5, <1>6 DEF P!Unforget

\* A command is given to an idle actor.
LEMMA BeginStep ==
    ASSUME ProposalAssumptions, PInv, NEW a \in Actors, NEW kind \in P!Kinds, NEW p \in P!Docs,
           P!Begin(a, kind, p)
    PROVE  PInv'
<1>1. /\ ~P!Busy(a) /\ commands < MaxCalls /\ commands' = commands + 1
           /\ UNCHANGED <<doc, failures>>
      /\ overlap' = (overlap \/ \E b \in Actors : P!Busy(b))
      /\ \/ kind \in {"approve", "reject", "undo"} /\ p \in Proposals
         \/ kind \in {"forget", "unforget"} /\ p \in Targets
  BY DEF P!Begin
<1>2. PICK n : n = IF kind = "forget" THEN P!NextOp ELSE 0
  OBVIOUS
<1>3. PICK c, d : /\ c = [P!Idle EXCEPT !.kind = kind, !.path = p, !.at = "check"]
                  /\ d = IF kind = "forget" THEN [c EXCEPT !.op = n] ELSE c
  OBVIOUS
<1>4. /\ c.kind = kind /\ c.path = p /\ c.at = "check" /\ c.i = 0 /\ c.op = 0
      /\ c.out = P!NoContent /\ c.seen = "active" /\ c \in P!Call
  <2>1. /\ c.kind = kind /\ c.path = p /\ c.at = "check" /\ c.i = 0 /\ c.op = 0
        /\ c.out = P!NoContent /\ c.seen = "active"
    BY <1>3 DEF P!Idle
  <2>2. c \in P!Call
    BY <1>3, IdleIs DEF P!Call
  <2> QED
    BY <2>1, <2>2
<1>5. /\ d.kind = kind /\ d.path = p /\ d.at = "check" /\ d.i = 0 /\ d.op = n
      /\ d.out = P!NoContent /\ (n \in 0..MaxCalls => d \in P!Call)
  <2>1. CASE kind = "forget"
    <3>1. d = [c EXCEPT !.op = n]
      BY <1>3, <2>1
    <3> QED
      BY <1>4, <3>1 DEF P!Call
  <2>2. CASE kind # "forget"
    BY <1>2, <1>3, <1>4, <2>2
  <2> QED
    BY <2>1, <2>2
<1>5a. call' = [call EXCEPT ![a] = d]
  <2>1. CASE kind = "forget"
    BY <1>2, <1>3, <2>1 DEF P!Begin, P!Becomes
  <2>2. CASE kind # "forget"
    BY <1>3, <2>2 DEF P!Begin, P!Becomes
  <2> QED
    BY <2>1, <2>2
<1>6. d.out.lines = {}
  BY <1>5 DEF P!NoContent
<1>7. call[a] = P!Idle /\ \A b \in Actors : call'[b] = IF b = a THEN d ELSE call[b]
  BY <1>1, <1>5a, Typed DEF P!Busy
<1>8. CASE kind = "forget"
  <2>1. n = P!NextOp /\ n # 0 /\ P!RecordManual(n)
    BY <1>2, <1>8, NextIs DEF PInv, P!Begin
  <2>2. /\ opLog' \cup manLog' = (opLog \cup manLog) \cup {P!NextOp}
        /\ opLog' = opLog /\ manLog' = manLog \cup {P!NextOp}
    BY <2>1 DEF P!RecordManual
  <2>3. Untaken' \subseteq Untaken
    BY <1>5, <1>7, <1>8, <2>1 DEF Untaken
  <2>4. Issued' /\ P!NextOp \in P!Ops
    BY <1>1, <2>2, <2>3, Typed, IssuedNext DEF PInv, ProposalAssumptions, P!BoundsAssumption
  <2>5. n \in 0..MaxCalls
    BY <2>1, <2>4 DEF P!Ops
  <2>6. d \in P!Call
    BY <1>5, <2>5
  <2>7. Shape(d)
    BY <1>1, <1>5, <1>8, <2>1 DEF Shape
  <2>8. Logs'
    BY <1>1, <1>5, <1>6, <1>5a, <1>8, <2>1, <2>2, LogsKept
  <2>9. ~overlap' => ~overlap /\ (\A b \in Actors : ~P!Busy(b)) /\ Rest' /\ Fits(d)'
    <3> SUFFICES ASSUME ~overlap' PROVE ~overlap /\ (\A b \in Actors : ~P!Busy(b))
                 /\ Rest' /\ Fits(d)'
      OBVIOUS
    <3>1. ~overlap /\ \A b \in Actors : ~P!Busy(b)
      BY <1>1
    <3>2. Fits(d)
      <4>1. FitsOp(d)
        BY <1>5, <2>1, FreshFits
      <4>2. FitsApprove(d) /\ FitsDecision(d) /\ FitsUndo(d) /\ FitsOut(d)
        BY <1>5, <1>8 DEF FitsApprove, FitsDecision, FitsUndo, FitsOut
      <4> QED
        BY <4>1, <4>2 DEF Fits
    <3> QED
      BY <1>1, <3>1, <3>2, Unmoved DEF PInv, OneByOne
  <2>10. commands' \in 0..MaxCalls /\ overlap' \in BOOLEAN
    <3>1. commands' \in 0..MaxCalls
      BY <1>1, Typed DEF ProposalAssumptions, P!BoundsAssumption
    <3> QED
      BY <1>1, <3>1, Typed
  <2>11. doc' \in [P!Docs -> P!Doc] /\ failures' \in 0..MaxFaults
         /\ opLog' \subseteq P!Ops /\ manLog' \subseteq P!Ops
    BY <1>1, <2>2, <2>4, Typed
  <2> QED
    BY <1>5a, <2>4, <2>6, <2>7, <2>8, <2>9, <2>10, <2>11, Moved
<1>9. CASE kind # "forget"
  <2>1. n = 0 /\ UNCHANGED <<opLog, manLog>>
    BY <1>2, <1>9 DEF P!Begin, P!NoRecord
  <2>2. Untaken' \subseteq Untaken \cup {a}
    BY <1>7 DEF Untaken
  <2>3. Issued'
    BY <1>1, <2>1, <2>2, Typed, IssuedMore DEF PInv
  <2>4. n \in 0..MaxCalls
    BY <2>1 DEF ProposalAssumptions, P!BoundsAssumption
  <2>5. d \in P!Call
    BY <1>5, <2>4
  <2>6. Shape(d)
    BY <1>1, <1>5, <1>9, <2>1 DEF Shape, P!Kinds
  <2>7. Logs'
    BY <1>1, <1>5, <1>6, <1>5a, <2>1, LogsKept
  <2>8. ~overlap' => ~overlap /\ (\A b \in Actors : ~P!Busy(b)) /\ Rest' /\ Fits(d)'
    <3>1. Fits(d)
      BY <1>5, <2>1 DEF Fits, FitsOp, FitsApprove, FitsDecision, FitsUndo, FitsOut
    <3> QED
      BY <1>1, <3>1, Unmoved DEF PInv, OneByOne
  <2>9. commands' \in 0..MaxCalls
    BY <1>1, Typed DEF ProposalAssumptions, P!BoundsAssumption
  <2>10. overlap' \in BOOLEAN
    BY <1>1, Typed
  <2>11. doc' \in [P!Docs -> P!Doc] /\ failures' \in 0..MaxFaults
         /\ opLog' \subseteq P!Ops /\ manLog' \subseteq P!Ops
    BY <1>1, <2>1, Typed
  <2> QED
    BY <1>5a, <2>3, <2>5, <2>6, <2>7, <2>8, <2>9, <2>10, <2>11, Moved
<1> QED
  BY <1>8, <1>9

-----------------------------------------------------------------------------
(* What a write leaves.                                                    *)

\* The document that was written, and the others.
Wrote(c) == doc' = [doc EXCEPT ![P!At(c)] = c.out]

LEMMA WroteIs ==
    ASSUME ProposalAssumptions, PInv, NEW a \in Actors, NEW c, c = call[a], c.at = "write",
           Wrote(c)
    PROVE  /\ doc' \in [P!Docs -> P!Doc] /\ P!At(c) \in P!Docs /\ c.op # 0
           /\ \A d \in P!Docs : d # P!At(c) => doc'[d] = doc[d]
           /\ doc'[P!At(c)] = c.out
           /\ \A d \in P!Docs : \A l \in doc'[d].lines :
                  l \in doc[d].lines \/ l \in call[a].out.lines
<1>1. c \in P!Call /\ Shape(c) /\ c # P!Idle /\ P!At(c) \in P!Docs
  BY Here
<1>2. c.op # 0
  BY <1>1 DEF Shape
<1>3. c.out \in P!Doc /\ doc \in [P!Docs -> P!Doc]
  BY <1>1, Typed DEF P!Call
<1>4. /\ doc' \in [P!Docs -> P!Doc] /\ \A d \in P!Docs : d # P!At(c) => doc'[d] = doc[d]
      /\ doc'[P!At(c)] = c.out
  BY <1>1, <1>3 DEF Wrote
<1> QED
  BY <1>1, <1>2, <1>4

\* As long as commands come one after another: what was read is what is rewritten.
LEMMA WroteAlone ==
    ASSUME ProposalAssumptions, PInv, NEW a \in Actors, NEW c, c = call[a], c.at = "write",
           Wrote(c),
           ~overlap
    PROVE  /\ P!At(c) \in P!Docs /\ c.path \in P!Docs /\ Shape(c) /\ c # P!Idle /\ c.op # 0
           /\ Fits(c) /\ Rest /\ Stage(c) = c.i
           /\ \A d \in P!Docs : d # P!At(c) => doc'[d] = doc[d]
           /\ doc'[P!At(c)].lines = doc[P!At(c)].lines \cup {NewLine(c)}
           /\ doc'[P!At(c)].status = NewStatus(c)
           /\ NewLine(c).what = NewWhat(c) /\ NewLine(c).by = c.path /\ NewLine(c).op = c.op
           /\ \A d \in P!Docs : doc[d].lines \subseteq doc'[d].lines
           /\ \A d \in P!Docs : \A l \in doc'[d].lines :
                 l \in doc[d].lines \/ (d = P!At(c) /\ l = NewLine(c))
<1>1. /\ P!At(c) \in P!Docs /\ c.path \in P!Docs /\ Shape(c) /\ c # P!Idle /\ c.op # 0
      /\ Fits(c) /\ Rest
  BY Here, WroteIs
<1>2. Stage(c) = c.i
  BY DEF Stage
<1>3. /\ \A d \in P!Docs : d # P!At(c) => doc'[d] = doc[d]
      /\ doc'[P!At(c)] = c.out
  BY WroteIs
<1>4. c.out.lines = doc[P!At(c)].lines \cup {NewLine(c)} /\ c.out.status = NewStatus(c)
  BY <1>1 DEF Fits, FitsOut
<1>5. NewLine(c).what = NewWhat(c) /\ NewLine(c).by = c.path /\ NewLine(c).op = c.op
  BY DEF NewLine, Line
<1>6. \A d \in P!Docs : doc[d].lines \subseteq doc'[d].lines
  BY <1>3, <1>4
<1>7. \A d \in P!Docs : \A l \in doc'[d].lines :
         l \in doc[d].lines \/ (d = P!At(c) /\ l = NewLine(c))
  BY <1>3, <1>4
<1> QED
  BY <1>1, <1>2, <1>3, <1>4, <1>5, <1>6, <1>7

\* Which document a command is at, and what it says there.
LEMMA Writers ==
    ASSUME ProposalAssumptions, NEW c, Shape(c), c # P!Idle, c.at = "write"
    PROVE  \/ /\ c.kind = "approve" /\ c.path \in Proposals /\ c.i = 0 /\ P!At(c) = c.path
              /\ NewWhat(c) = "approved" /\ NewStatus(c) = "active"
           \/ /\ c.kind = "approve" /\ c.path \in Proposals /\ c.i \in 1..P!Count(c.path)
              /\ P!At(c) = TargetsOf[c.path][c.i] /\ P!At(c) \in Targets
                   /\ P!At(c) \in TargetSet(c.path)
              /\ c.i # 0 /\ NewWhat(c) = "superseded" /\ NewStatus(c) = "superseded"
           \/ /\ c.kind = "reject" /\ c.path \in Proposals /\ c.i = 0 /\ P!At(c) = c.path
              /\ NewWhat(c) = "rejected" /\ NewStatus(c) = "superseded"
           \/ /\ c.kind = "undo" /\ c.path \in Proposals /\ c.i \in 1..P!Count(c.path)
              /\ P!At(c) = TargetsOf[c.path][c.i] /\ P!At(c) \in Targets
              /\ NewWhat(c) = "restored" /\ NewStatus(c) = "active"
           \/ /\ c.kind = "undo" /\ c.path \in Proposals /\ c.i = P!Count(c.path) + 1
              /\ P!At(c) = c.path /\ NewWhat(c) = "undone" /\ NewStatus(c) = "superseded"
           \/ /\ c.kind = "unforget" /\ c.path \in Targets /\ P!At(c) = c.path
              /\ NewWhat(c) = "forget undone" /\ NewStatus(c) = doc[c.path].status
<1>1. CASE c.kind = "approve"
  <2>1. c.path \in Proposals /\ c.i \in 0..P!Count(c.path)
    BY <1>1 DEF Shape
  <2>2. CASE c.i = 0
    BY <1>1, <2>1, <2>2 DEF P!At, NewWhat, NewStatus
  <2>3. CASE c.i # 0
    <3>1. c.i \in 1..P!Count(c.path)
      BY <2>1, <2>3, Counts
    <3>2. P!At(c) = TargetsOf[c.path][c.i]
      BY <2>1, <3>1 DEF P!At
    <3> QED
      BY <1>1, <2>1, <2>3, <3>1, <3>2, Counts DEF NewWhat, NewStatus
  <2> QED
    BY <2>2, <2>3
<1>2. CASE c.kind = "reject"
  <2>1. c.path \in Proposals /\ c.i = 0
    BY <1>2 DEF Shape
  <2> QED
    BY <1>2, <2>1 DEF P!At, NewWhat, NewStatus
<1>3. CASE c.kind = "undo"
  <2>1. c.path \in Proposals /\ c.i \in 1..(P!Count(c.path) + 1) /\ P!Count(c.path) \in Nat
    <3>1. c.path \in Proposals /\ c.i \in 1..(P!Count(c.path) + 1)
      BY <1>3 DEF Shape
    <3> QED
      BY <3>1, Counts
  <2>2. CASE c.i <= P!Count(c.path)
    <3>1. c.i \in 1..P!Count(c.path)
      BY <2>1, <2>2
    <3>2. P!At(c) = TargetsOf[c.path][c.i]
      BY <2>1, <3>1 DEF P!At
    <3> QED
      BY <1>3, <2>1, <2>2, <3>1, <3>2, Counts DEF NewWhat, NewStatus
  <2>3. CASE ~ c.i <= P!Count(c.path)
    <3>1. c.i = P!Count(c.path) + 1 /\ c.i \notin 1..P!Count(c.path)
      BY <2>1, <2>3
    <3> QED
      BY <1>3, <2>1, <2>3, <3>1 DEF P!At, NewWhat, NewStatus
  <2> QED
    BY <2>2, <2>3
<1>4. CASE c.kind = "unforget"
  <2>1. c.path \in Targets /\ c.path \notin Proposals
    BY <1>4 DEF Shape, ProposalAssumptions, P!DisjointAssumption
  <2> QED
    BY <1>4, <2>1 DEF P!At, NewWhat, NewStatus
<1> QED
  BY <1>1, <1>2, <1>3, <1>4 DEF Shape

LEMMA WriteKeepsOwners ==
    ASSUME ProposalAssumptions, PInv, NEW a \in Actors, NEW c, c = call[a], c.at = "write",
           Wrote(c),
           ~overlap
    PROVE  OpsHaveOwners'
<1>1. \A d \in P!Docs : \A l \in doc[d].lines : l.op = c.op => l.by = c.path
  BY WroteAlone DEF Fits, FitsOp
<1>2. \A d, e \in P!Docs : \A l \in doc[d].lines, m \in doc[e].lines : l.op = m.op => l.by = m.by
  BY WroteAlone DEF Rest, OpsHaveOwners
<1>3. \A d \in P!Docs : \A l \in doc'[d].lines :
         l \in doc[d].lines \/ (l.op = c.op /\ l.by = c.path)
  BY WroteAlone
<1> QED
  BY <1>1, <1>2, <1>3 DEF OpsHaveOwners

LEMMA WriteKeepsHidden ==
    ASSUME ProposalAssumptions, PInv, NEW a \in Actors, NEW c, c = call[a], c.at = "write",
           Wrote(c),
           ~overlap
    PROVE  HiddenByApproval'
<1> SUFFICES ASSUME NEW t \in Targets
             PROVE  /\ \A l \in doc'[t].lines : l.what = "superseded" =>
                          /\ l.by \in Proposals /\ t \in TargetSet(l.by)
                          /\ \E m \in doc'[l.by].lines : m.what = "approved" /\ m.op = l.op
                    /\ doc'[t].status = "superseded" =>
                          \E l \in doc'[t].lines : l.what = "superseded"
  BY DEF HiddenByApproval, TargetSet
<1>1. /\ \A l \in doc[t].lines : l.what = "superseded" =>
            /\ l.by \in Proposals /\ t \in TargetSet(l.by)
            /\ \E m \in doc[l.by].lines : m.what = "approved" /\ m.op = l.op
      /\ doc[t].status = "superseded" => \E l \in doc[t].lines : l.what = "superseded"
  BY WroteAlone DEF Rest, HiddenByApproval
<1>2. t \in P!Docs /\ Proposals \subseteq P!Docs /\ Targets \subseteq P!Docs /\ t \notin Proposals
  BY DEF P!Docs, ProposalAssumptions, P!DisjointAssumption
<1>3. \A d \in P!Docs : doc[d].lines \subseteq doc'[d].lines
  BY WroteAlone
<1>4. ASSUME NEW l \in doc'[t].lines, l.what = "superseded"
      PROVE  /\ l.by \in Proposals /\ t \in TargetSet(l.by)
             /\ \E m \in doc'[l.by].lines : m.what = "approved" /\ m.op = l.op
  <2>1. CASE l \in doc[t].lines
    BY <1>1, <1>2, <1>3, <1>4, <2>1
  <2>2. CASE t = P!At(c) /\ l = NewLine(c)
    <3>1. /\ c.kind = "approve" /\ c.path \in Proposals /\ P!At(c) \in TargetSet(c.path)
          /\ c.i # 0 /\ l.by = c.path /\ l.op = c.op
      <4>1. NewWhat(c) = "superseded" /\ l.by = c.path /\ l.op = c.op
        BY <1>4, <2>2, WroteAlone
      <4>2. Shape(c) /\ c # P!Idle
        BY WroteAlone
      <4> QED
        BY <4>1, <4>2, Writers
    <3>2. \E m \in doc[c.path].lines : m.what = "approved" /\ m.op = c.op
      <4>1. FitsApprove(c) /\ Stage(c) = c.i /\ c.op # 0
        BY WroteAlone DEF Fits
      <4> QED
        BY <3>1, <4>1 DEF FitsApprove
    <3> QED
      BY <1>2, <1>3, <2>2, <3>1, <3>2
  <2> QED
    BY <1>2, <2>1, <2>2, WroteAlone
<1>5. ASSUME doc'[t].status = "superseded"
      PROVE  \E l \in doc'[t].lines : l.what = "superseded"
  <2>1. CASE t # P!At(c)
    BY <1>1, <1>2, <1>3, <1>5, <2>1, WroteAlone
  <2>2. CASE t = P!At(c)
    <3>1. NewStatus(c) = "superseded"
      BY <1>5, <2>2, WroteAlone
    <3>2. NewWhat(c) = "superseded" \/ NewStatus(c) = doc[t].status
      <4>1. Shape(c) /\ c # P!Idle
        BY WroteAlone
      <4> QED
        BY <1>2, <2>2, <3>1, <4>1, Writers
    <3>3. NewLine(c) \in doc'[t].lines /\ NewLine(c).what = NewWhat(c)
      BY <2>2, WroteAlone
    <3> QED
      BY <1>1, <1>2, <1>3, <3>1, <3>2, <3>3
  <2> QED
    BY <2>1, <2>2
<1> QED
  BY <1>4, <1>5

LEMMA WriteKeepsStatus ==
    ASSUME ProposalAssumptions, PInv, NEW a \in Actors, NEW c, c = call[a], c.at = "write",
           Wrote(c),
           ~overlap
    PROVE  StatusSays'
<1> SUFFICES ASSUME NEW p \in Proposals
             PROVE  /\ doc'[p].status = "pending-approval" => ~P!HasLine(doc'[p], "approved", p)
                    /\ doc'[p].status # "superseded" =>
                          ~P!HasLine(doc'[p], "rejected", p) /\ ~P!HasLine(doc'[p], "undone", p)
                    /\ ~ (P!HasLine(doc'[p], "approved", p) /\ P!HasLine(doc'[p], "rejected", p))
  BY DEF StatusSays, P!HasLine
<1>1. /\ doc[p].status = "pending-approval" => ~P!HasLine(doc[p], "approved", p)
      /\ doc[p].status # "superseded" =>
            ~P!HasLine(doc[p], "rejected", p) /\ ~P!HasLine(doc[p], "undone", p)
      /\ ~ (P!HasLine(doc[p], "approved", p) /\ P!HasLine(doc[p], "rejected", p))
  BY WroteAlone DEF Rest, StatusSays
<1>2. p \in P!Docs /\ p \notin Targets
  BY DEF P!Docs, ProposalAssumptions, P!DisjointAssumption
<1>3. CASE p # P!At(c)
  <2>1. doc'[p] = doc[p]
    BY <1>2, <1>3, WroteAlone
  <2> QED
    BY <1>1, <2>1
<1>4. CASE p = P!At(c)
  <2>1. /\ doc'[p].lines = doc[p].lines \cup {NewLine(c)} /\ doc'[p].status = NewStatus(c)
        /\ NewLine(c).what = NewWhat(c)
    BY <1>4, WroteAlone
  <2>2. \A w \in Whats : P!HasLine(doc'[p], w, p) => P!HasLine(doc[p], w, p) \/ w = NewWhat(c)
    BY <2>1 DEF P!HasLine
  <2>3. /\ P!HasLine(doc'[p], "approved", p) => P!HasLine(doc[p], "approved", p)
             \/ NewWhat(c) = "approved"
        /\ P!HasLine(doc'[p], "rejected", p) => P!HasLine(doc[p], "rejected", p)
             \/ NewWhat(c) = "rejected"
        /\ P!HasLine(doc'[p], "undone", p) => P!HasLine(doc[p], "undone", p)
             \/ NewWhat(c) = "undone"
    BY <2>2 DEF Whats
  <2>4. /\ Shape(c) /\ c # P!Idle /\ Stage(c) = c.i /\ c.op # 0
        /\ FitsApprove(c) /\ FitsDecision(c)
    BY WroteAlone DEF Fits
  <2>5. \/ c.kind = "approve" /\ c.i = 0 /\ c.path = p /\ NewWhat(c) = "approved"
           /\ NewStatus(c) = "active"
        \/ c.kind = "reject" /\ c.path = p /\ NewWhat(c) = "rejected"
             /\ NewStatus(c) = "superseded"
        \/ NewWhat(c) = "undone" /\ NewStatus(c) = "superseded"
    BY <1>2, <1>4, <2>4, Writers
  <2>6. CASE c.kind = "approve" /\ c.i = 0 /\ c.path = p /\ NewWhat(c) = "approved"
             /\ NewStatus(c) = "active"
    <3>1. doc[p].status = "pending-approval"
      BY <2>4, <2>6 DEF FitsApprove
    <3> QED
      BY <1>1, <2>1, <2>3, <2>6, <3>1
  <2>7. CASE c.kind = "reject" /\ c.path = p /\ NewWhat(c) = "rejected"
             /\ NewStatus(c) = "superseded"
    <3>1. doc[p].status = "pending-approval"
      BY <2>4, <2>7 DEF FitsDecision
    <3> QED
      BY <1>1, <2>1, <2>3, <2>7, <3>1
  <2>8. CASE NewWhat(c) = "undone" /\ NewStatus(c) = "superseded"
    BY <1>1, <2>1, <2>3, <2>8
  <2> QED
    BY <2>5, <2>6, <2>7, <2>8
<1> QED
  BY <1>3, <1>4

LEMMA WriteKeepsUndone ==
    ASSUME ProposalAssumptions, PInv, NEW a \in Actors, NEW c, c = call[a], c.at = "write",
           Wrote(c),
           ~overlap
    PROVE  UndoneGone'
<1> SUFFICES ASSUME NEW p \in Proposals, P!HasLine(doc'[p], "undone", p),
                    NEW t \in Targets, doc'[t].status = "superseded",
                    NEW l \in doc'[t].lines, IsLast(l, doc'[t])
             PROVE  l.by # p
  BY DEF UndoneGone, P!HasLine, IsLast
<1>1. /\ p \in P!Docs /\ t \in P!Docs /\ p \notin Targets /\ t \notin Proposals
  BY DEF P!Docs, ProposalAssumptions, P!DisjointAssumption
<1>2. /\ Shape(c) /\ c # P!Idle /\ Stage(c) = c.i /\ c.op # 0 /\ Fits(c)
      /\ \A d \in P!Docs : d # P!At(c) => doc'[d] = doc[d]
      /\ \A d \in P!Docs : \A m \in doc'[d].lines :
            m \in doc[d].lines \/ (d = P!At(c) /\ m = NewLine(c))
      /\ NewLine(c).what = NewWhat(c) /\ NewLine(c).by = c.path /\ NewLine(c).op = c.op
  BY WroteAlone
<1>3. CASE P!HasLine(doc[p], "undone", p)
  <2>1. doc[t].status = "superseded" => \A m \in doc[t].lines : IsLast(m, doc[t]) => m.by # p
    BY <1>3, WroteAlone DEF Rest, UndoneGone
  <2>2. CASE t # P!At(c)
    BY <1>1, <1>2, <2>1, <2>2
  <2>3. CASE t = P!At(c)
    <3>1. /\ doc'[t].lines = doc[t].lines \cup {NewLine(c)} /\ NewStatus(c) = "superseded"
      BY <2>3, WroteAlone
    <3>2. \/ c.kind = "approve" /\ c.path \in Proposals /\ c.i # 0 /\ NewWhat(c) = "superseded"
          \/ NewWhat(c) = "forget undone" /\ NewStatus(c) = doc[t].status
      BY <1>1, <1>2, <2>3, <3>1, Writers
    <3>3. CASE c.kind = "approve" /\ c.path \in Proposals /\ c.i # 0 /\ NewWhat(c) = "superseded"
      <4>1. NewLine(c) \in doc'[t].lines
        BY <3>1
      <4>2. c.op <= l.op
        BY <1>2, <3>3, <4>1 DEF IsLast
      <4>3. l.by = c.path
        <5>1. CASE l = NewLine(c)
          BY <1>2, <5>1
        <5>2. CASE l \in doc[t].lines
          <6>1. l.op <= c.op /\ (l.op = c.op => l.by = c.path)
            BY <1>1, <1>2, <5>2 DEF Fits, FitsOp
          <6>2. l.op \in Nat /\ c.op \in Nat
            <7>1. c \in P!Call
              BY Here
            <7>2. doc[t] \in P!Doc
              BY <1>1, Typed
            <7>3. l.op \in P!Ops
              BY <5>2, <7>2 DEF P!Doc, P!Lines
            <7> QED
              BY <7>1, <7>3 DEF P!Call, P!Ops
          <6> QED
            BY <4>2, <6>1, <6>2
        <5> QED
          BY <3>1, <5>1, <5>2
      <4>4. doc[c.path].status = "active"
        BY <1>2, <3>3 DEF Fits, FitsApprove
      <4>5. doc[p].status = "superseded"
        BY <1>3, WroteAlone DEF Rest, StatusSays
      <4> QED
        BY <4>3, <4>4, <4>5
    <3>4. CASE NewWhat(c) = "forget undone" /\ NewStatus(c) = doc[t].status
      <4>1. \A m \in doc'[t].lines : m.what = "superseded" => m \in doc[t].lines
        BY <1>2, <3>1, <3>4
      <4>2. IsLast(l, doc[t])
        BY <3>1, <4>1 DEF IsLast
      <4> QED
        BY <2>1, <3>1, <3>4, <4>2 DEF IsLast
    <3> QED
      BY <3>2, <3>3, <3>4
  <2> QED
    BY <2>2, <2>3
<1>4. CASE ~P!HasLine(doc[p], "undone", p)
  <2>1. p = P!At(c) /\ NewWhat(c) = "undone"
    BY <1>1, <1>2, <1>4 DEF P!HasLine
  <2>2. c.kind = "undo" /\ c.path = p /\ c.i = P!Count(p) + 1
    BY <1>1, <1>2, <2>1, Writers
  <2>3. P!Count(p) \in Nat
    BY Counts
  <2>4. \A k \in 1..P!Count(p) : doc[TargetsOf[p][k]].status = "active"
    <3>1. \A k \in 1..P!Count(p) : k < c.i
      BY <2>2, <2>3
    <3> QED
      BY <1>2, <2>2, <3>1 DEF Fits, FitsUndo
  <2>5. t # P!At(c) /\ doc'[t] = doc[t]
    BY <1>1, <1>2, <2>1
  <2>6. t \notin TargetSet(p)
    BY <2>4, <2>5 DEF TargetSet
  <2>7. t \in TargetSet(l.by)
    <3>1. l \in doc[t].lines /\ l.what = "superseded"
      BY <2>5 DEF IsLast
    <3> QED
      BY <3>1, WroteAlone DEF Rest, HiddenByApproval
  <2> QED
    BY <2>6, <2>7
<1> QED
  BY <1>3, <1>4

\* What was written is what the command goes by when it has read it back.
LEMMA WriteFits ==
    ASSUME ProposalAssumptions, PInv, NEW a \in Actors, NEW c, c = call[a], c.at = "write",
           Wrote(c),
           ~overlap, NEW d, d = [c EXCEPT !.at = "verify"]
    PROVE  Fits(d)'
<1>1. /\ Shape(c) /\ c # P!Idle /\ Stage(c) = c.i /\ c.op # 0 /\ Fits(c)
      /\ \A e \in P!Docs : e # P!At(c) => doc'[e] = doc[e]
      /\ \A e \in P!Docs : doc[e].lines \subseteq doc'[e].lines
      /\ \A e \in P!Docs : \A m \in doc'[e].lines :
            m \in doc[e].lines \/ (e = P!At(c) /\ m = NewLine(c))
      /\ doc'[P!At(c)].lines = doc[P!At(c)].lines \cup {NewLine(c)}
      /\ doc'[P!At(c)].status = NewStatus(c)
      /\ NewLine(c).what = NewWhat(c) /\ NewLine(c).by = c.path /\ NewLine(c).op = c.op
      /\ c.path \in P!Docs /\ P!At(c) \in P!Docs
  BY WroteAlone
<1>2. c \in P!Call
  BY Here
<1>3. /\ d.kind = c.kind /\ d.path = c.path /\ d.at = "verify" /\ d.i = c.i /\ d.op = c.op
  BY <1>2 DEF P!Call
<1>4. Stage(d) = c.i + 1
  BY <1>3 DEF Stage
<1>5. FitsOp(d)'
  <2>1. NewLine(c).op <= c.op
    BY <1>1, <1>2 DEF P!Call
  <2>2. \A e \in P!Docs : \A m \in doc[e].lines : m.op <= c.op /\ (m.op = c.op => m.by = c.path)
    BY <1>1 DEF Fits, FitsOp
  <2> QED
    BY <1>1, <1>3, <2>1, <2>2 DEF FitsOp
<1>6. FitsApprove(d)'
  <2> SUFFICES ASSUME c.kind = "approve"
               PROVE  /\ c.i + 1 # 0 /\ doc'[c.path].status = "active"
                      /\ \E m \in doc'[c.path].lines : m.what = "approved" /\ m.op = c.op
    BY <1>3, <1>4 DEF FitsApprove, Stage
  <2>1. c.i + 1 # 0
    BY <1>2 DEF P!Call
  <2>2. CASE c.i = 0
    <3>1. P!At(c) = c.path /\ NewWhat(c) = "approved" /\ NewStatus(c) = "active"
      BY <1>1, <2>2, Writers
    <3> QED
      BY <1>1, <2>1, <3>1
  <2>3. CASE c.i # 0
    <3>1. P!At(c) # c.path
      <4>1. P!At(c) \in Targets /\ c.path \in Proposals
        BY <1>1, <2>3, Writers
      <4> QED
        BY <4>1 DEF ProposalAssumptions, P!DisjointAssumption
    <3>2. /\ doc[c.path].status = "active"
          /\ \E m \in doc[c.path].lines : m.what = "approved" /\ m.op = c.op
      BY <1>1, <2>3 DEF Fits, FitsApprove
    <3> QED
      BY <1>1, <2>1, <3>1, <3>2
  <2> QED
    BY <2>2, <2>3
<1>7. FitsUndo(d)'
  <2> SUFFICES ASSUME c.kind = "undo"
               PROVE  /\ c.i + 1 <= P!Count(c.path) + 1 => doc'[c.path].status = "active"
                      /\ \A k \in 1..P!Count(c.path) :
                            k < c.i + 1 => doc'[TargetsOf[c.path][k]].status = "active"
    BY <1>3, <1>4 DEF FitsUndo, Stage
  <2>1. /\ c.path \in Proposals
        /\ \/ /\ c.i \in 1..P!Count(c.path) /\ P!At(c) = TargetsOf[c.path][c.i]
              /\ P!At(c) \in Targets /\ NewStatus(c) = "active"
           \/ c.i = P!Count(c.path) + 1 /\ P!At(c) = c.path
    BY <1>1, Writers
  <2>2. P!Count(c.path) \in Nat /\ \A k \in 1..P!Count(c.path) : TargetsOf[c.path][k] \in Targets
    BY <2>1, Counts
  <2>3. /\ c.i <= P!Count(c.path) + 1 => doc[c.path].status = "active"
        /\ \A k \in 1..P!Count(c.path) : k < c.i => doc[TargetsOf[c.path][k]].status = "active"
    BY <1>1 DEF Fits, FitsUndo
  <2>4. \A t \in Targets : t \in P!Docs /\ t # c.path
    BY <2>1 DEF P!Docs, ProposalAssumptions, P!DisjointAssumption
  <2>5. c.i + 1 <= P!Count(c.path) + 1 => doc'[c.path].status = "active"
    <3>1. c.i + 1 <= P!Count(c.path) + 1 => P!At(c) \in Targets /\ c.i <= P!Count(c.path) + 1
      BY <2>1, <2>2
    <3> QED
      BY <1>1, <2>3, <2>4, <3>1
  <2>6. ASSUME NEW k \in 1..P!Count(c.path), k < c.i + 1
        PROVE  doc'[TargetsOf[c.path][k]].status = "active"
    <3>1. CASE P!At(c) = TargetsOf[c.path][k]
      <4>1. NewStatus(c) = "active"
        BY <2>1, <2>2, <2>4, <3>1
      <4> QED
        BY <1>1, <3>1, <4>1
    <3>2. CASE P!At(c) # TargetsOf[c.path][k]
      <4>1. k # c.i
        BY <2>1, <2>2, <2>4, <3>2
      <4>2. k < c.i
        BY <2>1, <2>2, <2>6, <4>1
      <4> QED
        BY <1>1, <2>2, <2>3, <2>4, <3>2, <4>2
    <3> QED
      BY <3>1, <3>2
  <2> QED
    BY <2>5, <2>6
<1>8. FitsDecision(d)' /\ FitsOut(d)'
  BY <1>3 DEF FitsDecision, FitsOut
<1> QED
  BY <1>5, <1>6, <1>7, <1>8 DEF Fits

\* A document was written, and the command reads it back or is no more.
LEMMA WriteLands ==
    ASSUME ProposalAssumptions, PInv, NEW a \in Actors, NEW c, c = call[a], c.at = "write",
           Wrote(c),
           NEW d, d \in {P!Idle, [c EXCEPT !.at = "verify"]},
           call' = [call EXCEPT ![a] = d],
           UNCHANGED <<opLog, manLog, commands, overlap>>, failures' \in 0..MaxFaults
    PROVE  PInv'
<1>1. /\ P!Busy(a) /\ c \in P!Call /\ Shape(c) /\ c # P!Idle
      /\ \A l \in c.out.lines : Logged(l)
  BY Here
<1>2. /\ doc' \in [P!Docs -> P!Doc]
      /\ \A e \in P!Docs : \A l \in doc'[e].lines : l \in doc[e].lines \/ l \in call[a].out.lines
  BY WroteIs
<1>3. ~overlap => Rest'
  BY WriteKeepsOwners, WriteKeepsHidden, WriteKeepsStatus, WriteKeepsUndone DEF Rest
<1>4. CASE d = P!Idle
  BY <1>1, <1>2, <1>3, <1>4, IdleIs, IdleFits, GoesOn
<1>5. CASE d = [c EXCEPT !.at = "verify"]
  <2>1. /\ d.kind = c.kind /\ d.path = c.path /\ d.at = "verify" /\ d.i = c.i /\ d.op = c.op
        /\ d.out = c.out /\ d \in P!Call
    BY <1>1, <1>5 DEF P!Call
  <2>2. Shape(d)
    BY <1>1, <2>1 DEF Shape
  <2>3. ~overlap => Fits(d)'
    BY <1>5, WriteFits
  <2> QED
    BY <1>1, <1>2, <1>3, <2>1, <2>2, <2>3, GoesOn
<1> QED
  BY <1>4, <1>5

LEMMA WriteStep ==
    ASSUME ProposalAssumptions, PInv, NEW a \in Actors, P!Write(a) PROVE PInv'
<1>1. PICK c, d : c = call[a] /\ d = [c EXCEPT !.at = "verify"]
  OBVIOUS
<1>2. /\ c.at = "write" /\ Wrote(c) /\ call' = [call EXCEPT ![a] = d]
      /\ UNCHANGED <<opLog, manLog, commands, failures, overlap>>
  BY <1>1 DEF P!Write, Wrote, P!Becomes, P!NoRecord, P!Quiet
<1> QED
  BY <1>1, <1>2, Typed, WriteLands

\* The mark of a forgotten record is no part of what transitions look at.
LEMMA ForgetLands ==
    ASSUME ProposalAssumptions, PInv, NEW a \in Actors, call[a].kind = "forget",
           doc' = [doc EXCEPT ![call[a].path].forgotten = TRUE], P!Ends(a),
           UNCHANGED <<opLog, manLog, commands, overlap>>, failures' \in 0..MaxFaults
    PROVE  PInv'
<1>1. PICK c : c = call[a]
  OBVIOUS
<1>2. c \in P!Call /\ Shape(c) /\ c # P!Idle /\ P!Busy(a) /\ c.path \in P!Docs
  BY <1>1, BusyIs, IdleIs
<1>3. PICK x : x = [doc[c.path] EXCEPT !.forgotten = TRUE]
  OBVIOUS
<1>4. doc' = [doc EXCEPT ![c.path] = x]
  BY <1>1, <1>3
<1>5. x \in P!Doc /\ x.lines = doc[c.path].lines /\ x.status = doc[c.path].status
  <2>1. doc[c.path] \in P!Doc
    BY <1>2, Typed
  <2> QED
    BY <1>3, <2>1 DEF P!Doc
<1>6. /\ doc' \in [P!Docs -> P!Doc]
      /\ \A e \in P!Docs : doc'[e].lines = doc[e].lines /\ doc'[e].status = doc[e].status
  BY <1>2, <1>4, <1>5, Typed
<1>7. ~overlap => Rest'
  <2> SUFFICES ASSUME ~overlap PROVE Rest'
    OBVIOUS
  <2>0. Proposals \subseteq P!Docs /\ Targets \subseteq P!Docs
    BY DEF P!Docs
  <2>1. Rest
    BY DEF PInv, OneByOne
  <2>2. OpsHaveOwners'
    BY <1>6, <2>1 DEF Rest, OpsHaveOwners
  <2>3. HiddenByApproval'
    BY <1>6, <2>0, <2>1 DEF Rest, HiddenByApproval, TargetSet
  <2>4. StatusSays'
    BY <1>6, <2>0, <2>1 DEF Rest, StatusSays, P!HasLine
  <2>5. UndoneGone'
    BY <1>6, <2>0, <2>1 DEF Rest, UndoneGone, P!HasLine, IsLast
  <2> QED
    BY <2>2, <2>3, <2>4, <2>5 DEF Rest
<1> QED
  BY <1>2, <1>6, <1>7, IdleIs, IdleFits, GoesOn DEF P!Ends, P!Becomes

LEMMA ForgetStep ==
    ASSUME ProposalAssumptions, PInv, NEW a \in Actors, P!Forget(a) PROVE PInv'
BY ForgetLands, Typed DEF P!Forget, P!NoRecord, P!Quiet

LEMMA FaultStep ==
    ASSUME ProposalAssumptions, PInv, NEW a \in Actors, P!Fault(a) PROVE PInv'
<1>1. PICK c : c = call[a]
  OBVIOUS
<1>2. /\ P!Busy(a) /\ P!Ends(a) /\ UNCHANGED <<opLog, manLog, commands, overlap>>
      /\ failures < MaxFaults /\ failures' = failures + 1
  BY DEF P!Fault, P!NoRecord
<1>3. failures' \in 0..MaxFaults
  BY <1>2, Typed DEF ProposalAssumptions, P!BoundsAssumption
<1>4. CASE UNCHANGED doc
  BY <1>2, <1>3, <1>4, Ended
<1>5. CASE c.at = "write" /\ doc' = [doc EXCEPT ![P!At(c)] = c.out]
  BY <1>1, <1>2, <1>3, <1>5, WriteLands DEF Wrote, P!Ends, P!Becomes
<1>6. CASE c.kind = "forget" /\ doc' = [doc EXCEPT ![c.path].forgotten = TRUE]
  BY <1>1, <1>2, <1>3, <1>6, ForgetLands
<1> QED
  BY <1>1, <1>4, <1>5, <1>6 DEF P!Fault

LEMMA ProposalInit == ProposalAssumptions /\ P!Init => PInv
<1> SUFFICES ASSUME ProposalAssumptions, P!Init PROVE PInv
  OBVIOUS
<1>1. /\ call = [b \in Actors |-> P!Idle] /\ opLog = {} /\ manLog = {} /\ commands = 0
           /\ failures = 0
      /\ overlap = FALSE
  BY DEF P!Init
<1>2. \A d \in P!Docs : /\ doc[d] \in P!Doc /\ doc[d].lines = {}
                      /\ doc[d].status = IF d \in Proposals THEN "pending-approval" ELSE "active"
  <2> SUFFICES ASSUME NEW d \in P!Docs
               PROVE  /\ doc[d] \in P!Doc /\ doc[d].lines = {}
                      /\ doc[d].status = IF d \in Proposals THEN "pending-approval" ELSE "active"
    OBVIOUS
  <2>1. PICK s : s = IF d \in Proposals THEN "pending-approval" ELSE "active"
    OBVIOUS
  <2>2. doc[d] = [P!NoContent EXCEPT !.status = s]
    BY <2>1 DEF P!Init
  <2>3. doc[d] = [status |-> s, forgotten |-> FALSE, lines |-> {}]
    BY <2>2 DEF P!NoContent
  <2>4. {} \in SUBSET P!Lines
    OBVIOUS
  <2>5. s \in {"pending-approval", "active", "superseded"}
    BY <2>1
  <2>6. doc[d] \in P!Doc
    BY <2>3, <2>4, <2>5 DEF P!Doc
  <2> QED
    BY <2>1, <2>3, <2>6
<1>3. P!TypeOK
  <2>1. doc \in [P!Docs -> P!Doc]
    <3>1. doc = [d \in P!Docs |-> doc[d]]
      BY DEF P!Init
    <3> QED
      BY <1>2, <3>1
  <2>2. call \in [Actors -> P!Call]
    BY <1>1, IdleIs
  <2>3. commands \in 0..MaxCalls /\ failures \in 0..MaxFaults
    BY <1>1 DEF ProposalAssumptions, P!BoundsAssumption
  <2> QED
    BY <1>1, <2>1, <2>2, <2>3 DEF P!TypeOK
<1>4. \A b \in Actors : Shape(call[b])
  BY <1>1, IdleIs
<1>5. Issued
  <2>1. opLog \cup manLog = {} /\ Untaken = {}
    BY <1>1, IdleIs DEF Untaken
  <2>2. Cardinality({}) = 0 /\ IsFiniteSet({})
    BY FS_EmptySet
  <2>3. Taken = 0
    BY <2>1, <2>2 DEF Taken
  <2>4. IsFiniteSet(Untaken) /\ Cardinality(Untaken) = 0
    BY <2>1, <2>2
  <2>5. 1..0 = {}
    OBVIOUS
  <2> QED
    BY <1>1, <2>1, <2>3, <2>4, <2>5 DEF Issued
<1>6. Logs
  BY <1>1, <1>2, IdleIs DEF Logs
<1>7. OneByOne
  <2>1. \A b \in Actors : ~P!Busy(b) /\ Fits(call[b])
    BY <1>1, IdleFits DEF P!Busy
  <2>2. Proposals \subseteq P!Docs /\ Targets \subseteq P!Docs /\ Targets \cap Proposals = {}
    BY DEF P!Docs, ProposalAssumptions, P!DisjointAssumption
  <2>3. OpsHaveOwners
    BY <1>2 DEF OpsHaveOwners
  <2>4. HiddenByApproval
    BY <1>2, <2>2 DEF HiddenByApproval
  <2>5. StatusSays /\ UndoneGone
    BY <1>2, <2>2 DEF StatusSays, UndoneGone, P!HasLine
  <2> QED
    BY <2>1, <2>3, <2>4, <2>5 DEF OneByOne, Rest
<1> QED
  BY <1>3, <1>4, <1>5, <1>6, <1>7 DEF PInv

LEMMA ProposalStep == ProposalAssumptions /\ PInv /\ [P!Next]_(P!vars) => PInv'
<1> SUFFICES ASSUME ProposalAssumptions, PInv, [P!Next]_(P!vars) PROVE PInv'
  OBVIOUS
<1>1. CASE UNCHANGED P!vars
  <2> USE <1>1 DEF P!vars
  <2>1. P!TypeOK' /\ \A b \in Actors : Shape(call[b])'
    BY DEF PInv, P!TypeOK, Shape
  <2>2. Untaken' = Untaken
    BY DEF Untaken
  <2>3. Issued'
    BY <2>2 DEF PInv, Issued, Taken
  <2>4. Logs'
    BY DEF PInv, Logs, Logged
  <2>5. OneByOne'
    <3> SUFFICES ASSUME ~overlap PROVE OneByOne'
      BY DEF OneByOne
    <3>1. \A b, d \in Actors : P!Busy(b)' /\ P!Busy(d)' => b = d
      BY DEF PInv, OneByOne, P!Busy
    <3>2. Rest' /\ \A b \in Actors : Fits(call[b])'
      BY Unmoved DEF PInv, OneByOne
    <3> QED
      BY <3>1, <3>2 DEF OneByOne
  <2> QED
    BY <2>1, <2>3, <2>4, <2>5 DEF PInv
<1>2. ASSUME NEW a \in Actors, NEW kind \in P!Kinds, NEW p \in P!Docs,
             P!Begin(a, kind, p)
      PROVE  PInv'
  BY <1>2, BeginStep
<1>3. ASSUME NEW a \in Actors, P!CheckApprove(a) \/ P!ReplayCheck(a) \/ P!FreshApprove(a)
             \/ P!TargetApprove(a)
      PROVE  PInv'
  BY <1>3, CheckApproveStep, ReplayCheckStep, FreshApproveStep, TargetApproveStep
<1>4. ASSUME NEW a \in Actors, P!CheckStatus(a) \/ P!FreshReject(a) \/ P!FreshUndo(a)
             \/ P!TargetUndo(a)
                               \/ P!MarkUndone(a)
      PROVE  PInv'
  BY <1>4, CheckStatusStep, FreshRejectStep, FreshUndoStep, TargetUndoStep,
     MarkUndoneStep
<1>5. ASSUME NEW a \in Actors, P!Write(a) \/ P!Verify(a) \/ P!Forget(a) \/ P!Unforget(a)
             \/ P!Fault(a)
      PROVE  PInv'
  BY <1>5, WriteStep, VerifyStep, ForgetStep, UnforgetStep, FaultStep
<1> QED
  BY <1>1, <1>2, <1>3, <1>4, <1>5 DEF P!Next

\* The last of the lines that superseded a document.
LEMMA LastExists ==
    ASSUME ProposalAssumptions, PInv, NEW d \in P!Docs,
           \E l \in doc[d].lines : l.what = "superseded"
    PROVE  \E l \in doc[d].lines : IsLast(l, doc[d])
<1> DEFINE L == {l \in doc[d].lines : l.what = "superseded"}
           R == OpToRel(<, Nat)
           T == {MaxCalls - l.op : l \in L}
<1>1. \A l \in L : l.op \in 1..MaxCalls /\ MaxCalls - l.op \in Nat
  <2>1. \A l \in doc[d].lines : l.op \in P!Ops
    <3>1. doc[d] \in P!Doc
      BY DEF PInv, P!TypeOK
    <3>2. doc[d].lines \subseteq P!Lines
      BY <3>1 DEF P!Doc
    <3> QED
      BY <3>2 DEF P!Lines
  <2> QED
    BY <2>1 DEF P!Ops, ProposalAssumptions, P!BoundsAssumption
<1>2. T \subseteq Nat /\ T # {}
  BY <1>1
<1>3. \A x \in Nat, y \in Nat : x < y => <<x, y>> \in R
  BY DEF OpToRel
<1>4. IsWellFoundedOn(R, Nat)
  BY NatLessThanWellFounded
<1> HIDE DEF R
<1>5. PICK x \in T : \A y \in T : ~ (<<y, x>> \in R)
  BY <1>2, <1>4, WFMin
<1>6. \A y \in T : ~ (y < x)
  BY <1>2, <1>3, <1>5
<1>7. PICK l \in L : x = MaxCalls - l.op
  BY <1>5
<1>8. ASSUME NEW m \in L PROVE m.op <= l.op
  <2>1. ~ (MaxCalls - m.op < MaxCalls - l.op)
    BY <1>6, <1>7
  <2> QED
    BY <1>1, <2>1 DEF ProposalAssumptions, P!BoundsAssumption
<1> QED
  BY <1>7, <1>8 DEF IsLast

LEMMA PInvIsSafe == ProposalAssumptions /\ PInv => P!ProposalSafety
<1> SUFFICES ASSUME ProposalAssumptions, PInv PROVE P!ProposalSafety
  OBVIOUS
<1>1. P!TypeOK /\ P!OpsAreLogged
  BY DEF PInv, Logs, Logged, P!OpsAreLogged
<1>2. ASSUME ~overlap, NEW t \in Targets, doc[t].status = "superseded"
      PROVE  IsLast(P!LastSuperseded(doc[t]), doc[t])
  <2>1. \E l \in doc[t].lines : l.what = "superseded"
    BY <1>2 DEF PInv, OneByOne, Rest, HiddenByApproval
  <2>2. PICK l \in doc[t].lines : IsLast(l, doc[t])
    BY <2>1, LastExists DEF P!Docs
  <2> QED
    BY <2>2 DEF P!LastSuperseded, IsLast
<1>3. P!SupersededIsApproved
  <2> SUFFICES ASSUME ~overlap, NEW t \in Targets, doc[t].status = "superseded",
                      NEW l, l = P!LastSuperseded(doc[t])
               PROVE  /\ \E m \in doc[t].lines : m.what = "superseded"
                      /\ \E m \in doc[l.by].lines : m.what = "approved" /\ m.op = l.op
    BY DEF P!SupersededIsApproved
  <2>1. l \in doc[t].lines /\ l.what = "superseded"
    BY <1>2 DEF IsLast
  <2> QED
    BY <2>1 DEF PInv, OneByOne, Rest, HiddenByApproval
<1>4. P!UndoneHidesNothing
  <2> SUFFICES ASSUME ~overlap, NEW p \in Proposals, P!HasLine(doc[p], "undone", p),
                      NEW t \in Targets, doc[t].status = "superseded"
               PROVE  P!LastSuperseded(doc[t]).by # p
    BY DEF P!UndoneHidesNothing
  <2>1. IsLast(P!LastSuperseded(doc[t]), doc[t])
    BY <1>2
  <2> QED
    BY <2>1 DEF PInv, OneByOne, Rest, UndoneGone, IsLast
<1>5. P!DecidedOnce
  BY DEF P!DecidedOnce, PInv, OneByOne, Rest, StatusSays
<1> QED
  BY <1>1, <1>3, <1>4, <1>5 DEF P!ProposalSafety

LEMMA KeepsHistoryStep ==
    ProposalAssumptions /\ PInv /\ [P!Next]_(P!vars)
        => [P!KeepsHistory]_(P!vars)
<1> SUFFICES ASSUME ProposalAssumptions, PInv, P!Next, ~overlap,
                    NEW e \in P!Docs
             PROVE  doc[e].lines \subseteq doc'[e].lines
  BY DEF P!KeepsHistory
<1>1. CASE UNCHANGED doc
  BY <1>1
<1>2. ASSUME NEW a \in Actors, call[a].at = "write", Wrote(call[a])
      PROVE  doc[e].lines \subseteq doc'[e].lines
  <2>1. PICK c : c = call[a]
    OBVIOUS
  <2> QED
    BY <1>2, <2>1, WroteAlone
<1>3. ASSUME NEW a \in Actors, call[a].kind = "forget",
             doc' = [doc EXCEPT ![call[a].path].forgotten = TRUE]
      PROVE  doc[e].lines \subseteq doc'[e].lines
  <2>1. PICK p, x : p = call[a].path /\ x = [doc[p] EXCEPT !.forgotten = TRUE]
    OBVIOUS
  <2>2. p \in P!Docs
    BY <1>3, <2>1, BusyIs, IdleIs
  <2>3. doc' = [doc EXCEPT ![p] = x]
    BY <1>3, <2>1
  <2>4. x.lines = doc[p].lines
    BY <2>1, <2>2, Typed DEF P!Doc
  <2> QED
    BY <2>2, <2>3, <2>4, <1>3, Typed
<1>4. PICK a \in Actors :
         \/ UNCHANGED doc
         \/ call[a].at = "write" /\ Wrote(call[a])
         \/ call[a].kind = "forget" /\ doc' = [doc EXCEPT ![call[a].path].forgotten = TRUE]
  BY DEF P!Next, P!Begin, P!CheckApprove, P!ReplayCheck,
         P!FreshApprove, P!TargetApprove, P!CheckStatus,
         P!FreshReject, P!FreshUndo, P!TargetUndo,
         P!MarkUndone, P!Write, P!Verify, P!Forget,
         P!Unforget, P!Fault, Wrote
<1> QED
  BY <1>1, <1>2, <1>3, <1>4

-----------------------------------------------------------------------------
(* The session, the proposals and the injection side by side: MCSession.   *)

everything == <<part, vars, proposalVars, injectionVars>>

PartsGood ==
    /\ part = "session" => IInv
    /\ part = "proposals" => PInv

LEMMA Assumed == ProposalAssumptions
BY SessionAssumption DEF ProposalAssumptions

LEMMA PartsStep ==
    ASSUME PartsGood, [MCNext]_everything
    PROVE  /\ PartsGood'
           /\ \/ part = "session" /\ [Next]_vars /\ UNCHANGED proposalVars
              \/ part = "proposals" /\ UNCHANGED vars /\ [P!Next]_(P!vars)
              \/ part = "injection" /\ UNCHANGED <<vars, proposalVars>>
              \/ UNCHANGED everything
<1>1. CASE UNCHANGED everything
  <2>1. UNCHANGED vars /\ UNCHANGED P!vars /\ UNCHANGED part
    BY <1>1 DEF everything, proposalVars, P!vars
  <2>2. IInv => IInv'
    BY <2>1, StepKeeps
  <2>3. PInv => PInv'
    BY <2>1, Assumed, ProposalStep
  <2> QED
    BY <1>1, <2>1, <2>2, <2>3 DEF PartsGood
<1>2. CASE part = "session" /\ Next /\ UNCHANGED <<part, proposalVars, injectionVars>>
  BY <1>2, StepKeeps DEF PartsGood
<1>3. CASE part = "proposals" /\ P!Next /\ UNCHANGED <<part, vars, injectionVars>>
  BY <1>3, Assumed, ProposalStep DEF PartsGood
<1>4. CASE part = "injection" /\ UNCHANGED <<part, vars, proposalVars>>
  BY <1>4 DEF PartsGood
<1> QED
  BY <1>1, <1>2, <1>3, <1>4 DEF MCNext

LEMMA PartsAlways == MCSpec => []PartsGood
<1>1. MCInit => PartsGood
  BY InitHolds, Assumed, ProposalInit DEF MCInit, PartsGood
<1>2. PartsGood /\ [MCNext]_everything => PartsGood'
  BY PartsStep
<1> QED
  BY <1>1, <1>2, PTL DEF MCSpec, everything

\* Proposals are safe (proposals.ts:152, :450, :465, :692; manual-ops.ts:116): whatever
\* commands run at once, fail and die, each line of a document is in an op log; and as
\* long as they run one after another, what hides a record is an approval that stands,
\* no undone proposal hides one, and none is both approved and rejected.
THEOREM ProposalsAreSafe == MCSpec => []ProposalSafety
<1>1. PartsGood => ProposalSafety
  BY Assumed, PInvIsSafe DEF PartsGood, ProposalSafety
<1> QED
  BY <1>1, PartsAlways, PTL

\* History is never erased (proposals.ts:26, coordinator.ts:194-200): a write of a
\* command keeps every line that the document has, as long as commands run one after
\* another, and no handler of the session writes a state file of a newer version.
THEOREM HistoryIsKept == MCSpec => NothingErased
<1>1. PartsGood /\ [MCNext]_everything
        => [KeepsNewer /\ P!KeepsHistory]_<<vars, proposalVars>>
  <2> SUFFICES ASSUME PartsGood, [MCNext]_everything, ~UNCHANGED <<vars, proposalVars>>
               PROVE  KeepsNewer /\ P!KeepsHistory
    OBVIOUS
  <2>1. CASE part = "session" /\ [Next]_vars /\ UNCHANGED proposalVars
    <3>1. KeepsNewer
      BY <2>1, KeepsNewerStep DEF PartsGood
    <3>2. doc' = doc
      BY <2>1 DEF proposalVars
    <3> QED
      BY <3>1, <3>2 DEF P!KeepsHistory
  <2>2. CASE part = "proposals" /\ UNCHANGED vars /\ [P!Next]_(P!vars)
    <3>1. P!KeepsHistory
      BY <2>2, Assumed, KeepsHistoryStep DEF PartsGood, proposalVars, P!vars
    <3>2. file' = file
      BY <2>2 DEF vars
    <3> QED
      BY <3>1, <3>2 DEF KeepsNewer
  <2> QED
    BY <2>1, <2>2, PartsStep DEF everything
<1> QED
  BY <1>1, PartsAlways, PTL DEF MCSpec, everything, NothingErased

-----------------------------------------------------------------------------
(* EvidenceInjection.                                                      *)
(*                                                                         *)
(* A pack has one fate: while its input is being retrieved there is none,  *)
(* then it is pending, and from there it is shown or dropped (OneFate).    *)
(* What it holds was readable when its cycle found it, and a record that   *)
(* was forgotten all through the cycle cannot have been (Readable).  The   *)
(* barrier is bounded and forgets, but never the entry of the message a    *)
(* replay would ask about: the last message of the context is in the       *)
(* barrier as soon as a call has had it, and no other message can become   *)
(* the last one that a call has had before (ReplaysAreSeen).               *)

Stages == {"retrieving", "ready", "sent", "gone"}

EvidenceTyped ==
    /\ forgotten \subseteq Records /\ forgetting \subseteq Records
    /\ hushed \in BOOLEAN /\ tokenizer \in BOOLEAN /\ run \in BOOLEAN
    /\ inputs \in Seq([key : Keys, kind : Evidence!Kinds]) /\ Len(inputs) <= MaxInputs
    /\ stage \in Seq(Stages) /\ Len(stage) = Len(inputs)
    /\ cycle \in Seq(SUBSET Records) /\ Len(cycle) = Len(inputs)
    /\ banned \in Seq(SUBSET Records) /\ Len(banned) = Len(inputs)
    /\ occurrences \in [Keys \X Evidence!Kinds -> Nat]
    /\ context \in Seq(1..Len(inputs))
    /\ calls \in 0..MaxQueries /\ turns \in 0..MaxTurns

\* The barrier, within its bounds.
BarrierTyped ==
    /\ seen \in Seq([key : Keys, counts : Seq(Nat)]) /\ Len(seen) <= MaxKeys
    /\ \A j \in 1..Len(seen) : /\ Len(seen[j].counts) <= MaxCounts
                               /\ Evidence!IsInjective(seen[j].counts)

Counted(occ, id) == id[3] <= occ[<<id[1], id[2]>>]

\* No id is issued twice.
IdsIssued ==
    /\ pending \in Seq(Evidence!Pack)
    /\ consumed \subseteq Keys \X Evidence!Kinds \X Nat
    /\ \A id \in consumed : Counted(occurrences, id)
    /\ \A j \in 1..Len(pending) : Counted(occurrences, pending[j].id)
    /\ \A i, j \in 1..Len(pending) : pending[i].id = pending[j].id => i = j
    /\ lost = {}

Done(st, i) == i \in 1..Len(st) /\ st[i] # "retrieving"

OneFate ==
    /\ \A j \in 1..Len(pending) : Done(stage, pending[j].input) /\ pending[j].input \notin dropped
    /\ \A i, j \in 1..Len(pending) : pending[i].input = pending[j].input => i = j
    /\ \A i \in dropped : Done(stage, i)
    /\ \A x \in packs : /\ Done(stage, x.input) /\ x.input \notin dropped /\ ~x.again
                        /\ \A j \in 1..Len(pending) : pending[j].input # x.input
    /\ \A x, y \in packs : x.input = y.input => x = y

Readable ==
    /\ \A i \in 1..Len(inputs) : /\ stage[i] = "retrieving" => banned[i] \subseteq forgotten
                                 /\ cycle[i] \subseteq Authorized \ banned[i]
    /\ \A j \in 1..Len(pending) :
         pending[j].items \subseteq Authorized \ banned[pending[j].input]
    /\ \A x \in packs : x.items \subseteq Authorized \ banned[x.input]

Sent(st, i) == i \in 1..Len(st) /\ st[i] = "sent"

\* The last message of the context is the n-th, of text k, and a call has had it.
LastCalled(k, n) ==
    n = Len(context) /\ n # 0 /\ context[n] \in called /\ inputs[context[n]].key = k

ReplaysAreSeen ==
    /\ \A i \in called : Sent(stage, i)
    /\ \A j \in 1..Len(context) : Sent(stage, context[j])
    /\ \A k \in Keys, n \in Nat : LastCalled(k, n) => Evidence!IsSeen(k, n)

EvidenceInv ==
    EvidenceTyped /\ BarrierTyped /\ IdsIssued /\ OneFate /\ Readable /\ ReplaysAreSeen

-----------------------------------------------------------------------------
(* Sequences.                                                              *)

\* The place of the i-th element of what is left after the j-th is removed.
Place(i, j) == IF i < j THEN i ELSE i + 1

LEMMA RemoveAtIs ==
    ASSUME NEW S, NEW s \in Seq(S), NEW j \in 1..Len(s)
    PROVE  /\ Evidence!RemoveAt(s, j) \in Seq(S)
           /\ Len(Evidence!RemoveAt(s, j)) = Len(s) - 1
           /\ \A i \in 1..Len(s) - 1 : /\ Evidence!RemoveAt(s, j)[i] = s[Place(i, j)]
                                       /\ Place(i, j) \in 1..Len(s) /\ Place(i, j) # j
<1>1. Len(s) \in Nat
  BY LenProperties
<1> DEFINE a == SubSeq(s, 1, j - 1)
           b == SubSeq(s, j + 1, Len(s))
<1>2. a \in Seq(S) /\ Len(a) = j - 1 /\ \A i \in 1..j - 1 : a[i] = s[i]
  BY <1>1, SubSeqProperties
<1>3. b \in Seq(S) /\ Len(b) = Len(s) - j /\ \A i \in 1..Len(s) - j : b[i] = s[j + i]
  BY <1>1, SubSeqProperties
<1>4. Evidence!RemoveAt(s, j) = a \o b
  BY DEF Evidence!RemoveAt
<1> HIDE DEF a, b
<1>5. /\ a \o b \in Seq(S) /\ Len(a \o b) = Len(s) - 1
      /\ \A i \in 1..Len(s) - 1 : (a \o b)[i] = IF i =< j - 1 THEN a[i] ELSE b[i - (j - 1)]
  BY <1>1, <1>2, <1>3, ConcatProperties
<1>6. \A i \in 1..Len(s) - 1 : (a \o b)[i] = s[Place(i, j)]
  BY <1>1, <1>2, <1>3, <1>5 DEF Place
<1> QED
  BY <1>1, <1>4, <1>5, <1>6 DEF Place

LEMMA PlaceIsInjective ==
    ASSUME NEW i \in Nat, NEW k \in Nat, NEW j \in Nat, Place(i, j) = Place(k, j)
    PROVE  i = k
BY DEF Place

\* A set of naturals that is not empty has a least element.
LEMMA LeastOf ==
    ASSUME NEW I \in SUBSET Nat, I # {}
    PROVE  Evidence!Min(I) \in I
<1> DEFINE R == OpToRel(<, Nat)
<1>1. \A x \in Nat, y \in Nat : x < y => <<x, y>> \in R
  BY DEF OpToRel
<1>2. IsWellFoundedOn(R, Nat)
  BY NatLessThanWellFounded
<1> HIDE DEF R
<1>3. PICK x \in I : \A y \in I : <<y, x>> \notin R
  BY <1>2, WFMin
<1>4. ASSUME NEW y \in I PROVE x <= y
  <2>1. x \in Nat /\ y \in Nat /\ ~(y < x)
    BY <1>1, <1>3
  <2> QED
    BY <2>1
<1> QED
  BY <1>3, <1>4 DEF Evidence!Min

\* What recordCount() does to a list that is full, or not.
Bounded(s, max, e) == Append(IF Len(s) >= max THEN Tail(s) ELSE s, e)
AllButLast(t, s) == \A i \in 1..Len(t) - 1 : \E j \in 1..Len(s) : t[i] = s[j]

LEMMA BoundedIs ==
    ASSUME NEW S, NEW s \in Seq(S), NEW max \in Nat \ {0}, Len(s) <= max, NEW e \in S,
           NEW t, t = Bounded(s, max, e)
    PROVE  /\ t \in Seq(S) /\ Len(t) \in 1..max /\ Evidence!Last(t) = e
           /\ AllButLast(t, s)
           /\ (\A j \in 1..Len(s) : s[j] # e) /\ Evidence!IsInjective(s)
                => Evidence!IsInjective(t)
<1>1. Len(s) \in Nat /\ DOMAIN s = 1..Len(s)
  BY LenProperties
<1>2. PICK u \in Seq(S), d \in {0, 1} :
        /\ t = Append(u, e) /\ Len(u) = Len(s) - d /\ Len(u) \in Nat /\ Len(u) < max
        /\ \A i \in 1..Len(u) : u[i] = s[i + d]
  <2>1. CASE Len(s) >= max
    <3>1. s # <<>>
      BY <1>1, <2>1
    <3>2. Tail(s) \in Seq(S) /\ Len(Tail(s)) = Len(s) - 1
          /\ \A i \in 1..Len(Tail(s)) : Tail(s)[i] = s[i + 1]
      BY <3>1, HeadTailProperties
    <3>3. /\ t = Append(Tail(s), e) /\ Len(Tail(s)) \in Nat /\ Len(Tail(s)) < max
          /\ 1 \in {0, 1}
      BY <1>1, <2>1, <3>1, <3>2 DEF Bounded
    <3> QED
      BY <3>2, <3>3
  <2>2. CASE ~(Len(s) >= max)
    <3>1. t = Append(s, e) /\ Len(s) = Len(s) - 0 /\ Len(s) < max
          /\ \A i \in 1..Len(s) : s[i] = s[i + 0]
      BY <1>1, <2>2 DEF Bounded
    <3> QED
      BY <1>1, <3>1
  <2> QED
    BY <2>1, <2>2
<1>3. /\ t \in Seq(S) /\ Len(t) = Len(u) + 1 /\ DOMAIN t = 1..Len(u) + 1
      /\ t[Len(u) + 1] = e /\ \A i \in 1..Len(u) : t[i] = u[i]
  BY <1>2, AppendProperties, LenProperties
<1>4. /\ \A i \in 1..Len(u) : i + d \in 1..Len(s) /\ t[i] = s[i + d]
      /\ Len(t) - 1 = Len(u) /\ Len(u) \in Nat /\ d \in Nat
  <2>1. d \in Nat /\ Len(s) = Len(u) + d /\ Len(u) \in Nat
    BY <1>1, <1>2
  <2>2. ASSUME NEW i \in 1..Len(u) PROVE i + d \in 1..Len(s) /\ t[i] = s[i + d]
    <3>1. t[i] = u[i] /\ u[i] = s[i + d]
      BY <1>2, <1>3
    <3> QED
      BY <2>1, <3>1
  <2> QED
    BY <1>3, <2>1, <2>2
<1>5. Len(t) \in 1..max /\ Evidence!Last(t) = e
  BY <1>2, <1>3 DEF Evidence!Last
<1>6. ASSUME \A j \in 1..Len(s) : s[j] # e, Evidence!IsInjective(s)
      PROVE  Evidence!IsInjective(t)
  <2> SUFFICES ASSUME NEW a \in 1..Len(u) + 1, NEW b \in 1..Len(u) + 1, t[a] = t[b]
               PROVE  a = b
    BY <1>3 DEF Evidence!IsInjective
  <2>1. CASE a = Len(u) + 1 \/ b = Len(u) + 1
    <3>1. ASSUME NEW i \in 1..Len(u) PROVE t[i] # t[Len(u) + 1]
      BY <1>3, <1>4, <1>6
    <3> QED
      BY <1>4, <2>1, <3>1
  <2>2. CASE a # Len(u) + 1 /\ b # Len(u) + 1
    <3>1. a \in 1..Len(u) /\ b \in 1..Len(u)
      BY <1>4, <2>2
    <3>2. a + d \in 1..Len(s) /\ b + d \in 1..Len(s) /\ s[a + d] = s[b + d]
      BY <1>4, <3>1
    <3>3. a + d = b + d
      BY <1>1, <1>6, <3>2 DEF Evidence!IsInjective
    <3> QED
      BY <1>4, <3>1, <3>3
  <2> QED
    BY <2>1, <2>2
<1>7. AllButLast(t, s)
  BY <1>4 DEF AllButLast
<1> QED
  BY <1>3, <1>5, <1>6, <1>7

-----------------------------------------------------------------------------
(* The barrier.                                                            *)

EvidenceAssumptions == Evidence!BoundsAssumption

At(s, k) == {i \in 1..Len(s) : s[i].key = k}

LEMMA AtIs ==
    ASSUME NEW k, NEW s, Len(s) \in Nat, At(s, k) # {}
    PROVE  Evidence!Min(At(s, k)) \in At(s, k) /\ At(s, k) \subseteq 1..Len(s)
<1>1. At(s, k) \subseteq 1..Len(s)
  BY DEF At
<1> QED
  BY <1>1, LeastOf

LEMMA SeenIs ==
    ASSUME NEW k, Len(seen) \in Nat
    PROVE  /\ Evidence!SeenAt(k) # 0 <=> At(seen, k) # {}
           /\ At(seen, k) # {} => /\ Evidence!SeenAt(k) = Evidence!Min(At(seen, k))
                                  /\ Evidence!SeenAt(k) \in At(seen, k)
                                  /\ At(seen, k) \subseteq 1..Len(seen)
<1>1. Evidence!SeenAt(k) = IF At(seen, k) # {} THEN Evidence!Min(At(seen, k)) ELSE 0
  BY DEF Evidence!SeenAt, Evidence!SelectInSeq, At
<1>2. At(seen, k) # {} => /\ Evidence!Min(At(seen, k)) \in At(seen, k)
                          /\ At(seen, k) \subseteq 1..Len(seen)
  BY AtIs
<1> QED
  BY <1>1, <1>2

LEMMA SeenNext ==
    ASSUME NEW k, At(seen', k) # {}
    PROVE  (Evidence!SeenAt(k))' = Evidence!Min(At(seen', k))
BY DEF Evidence!SeenAt, Evidence!SelectInSeq, At

Entry(k, c) == [key |-> k, counts |-> c]

LEMMA EntryIs ==
    ASSUME NEW k \in Keys, NEW c \in Seq(Nat)
    PROVE  Entry(k, c) \in [key : Keys, counts : Seq(Nat)] /\ Entry(k, c).key = k
           /\ Entry(k, c).counts = c
BY DEF Entry

\* A count that is recorded is seen from then on, and the bounds hold.
LEMMA RecordedIsSeen ==
    ASSUME EvidenceAssumptions, BarrierTyped, NEW k \in Keys, NEW n \in Nat,
           ~Evidence!IsSeen(k, n), seen' = Evidence!RecordCount(k, n)
    PROVE  BarrierTyped' /\ Evidence!IsSeen(k, n)'
<1> DEFINE E == [key : Keys, counts : Seq(Nat)]
           a == Evidence!SeenAt(k)
<1>1. /\ MaxKeys \in Nat \ {0} /\ MaxCounts \in Nat \ {0} /\ seen \in Seq(E)
      /\ Len(seen) \in Nat /\ Len(seen) <= MaxKeys
  BY LenProperties DEF EvidenceAssumptions, Evidence!BoundsAssumption, BarrierTyped
<1>2. CASE a # 0
  <2>1. a \in 1..Len(seen) /\ seen[a].key = k
    BY <1>1, <1>2, SeenIs DEF At
  <2>2. seen[a] \in E
    BY <1>1, <2>1, ElementOfSeq
  <2> DEFINE c == seen[a].counts
             d == Bounded(c, MaxCounts, n)
  <2>3. c \in Seq(Nat) /\ Len(c) <= MaxCounts /\ Evidence!IsInjective(c)
    BY <2>1, <2>2 DEF BarrierTyped
  <2>4. \A j \in 1..Len(c) : c[j] # n
    BY <1>2 DEF Evidence!IsSeen, Evidence!Contains
  <2>5. seen' = [seen EXCEPT ![a].counts = d]
    BY <1>2 DEF Evidence!RecordCount, Bounded
  <2>6. seen' = [seen EXCEPT ![a] = Entry(k, d)]
    BY <1>1, <2>1, <2>2, <2>5 DEF Entry
  <2> HIDE DEF c
  <2>7. d \in Seq(Nat) /\ Len(d) \in 1..MaxCounts /\ d[Len(d)] = n /\ Evidence!IsInjective(d)
    BY <1>1, <2>3, <2>4, BoundedIs DEF Evidence!Last
  <2> HIDE DEF d
  <2>8. Entry(k, d) \in E /\ Entry(k, d).key = k /\ Entry(k, d).counts = d
    BY <2>7, EntryIs
  <2> HIDE DEF E
  <2>9. /\ seen' \in Seq(E) /\ Len(seen') = Len(seen)
        /\ \A i \in 1..Len(seen) : seen'[i] = IF i = a THEN Entry(k, d) ELSE seen[i]
    BY <1>1, <2>1, <2>6, <2>8, ExceptSeq, LenProperties
  <2>10. At(seen', k) = At(seen, k)
    BY <2>1, <2>8, <2>9 DEF At
  <2>11. BarrierTyped'
    <3>1. ASSUME NEW i \in 1..Len(seen')
          PROVE  Len(seen'[i].counts) <= MaxCounts /\ Evidence!IsInjective(seen'[i].counts)
      <4>1. CASE i = a
        BY <1>1, <2>1, <2>7, <2>8, <2>9, <4>1
      <4>2. CASE i # a
        BY <2>9, <4>2 DEF BarrierTyped
      <4> QED
        BY <4>1, <4>2
    <3> QED
      BY <1>1, <2>9, <3>1 DEF BarrierTyped, E
  <2>12. (Evidence!SeenAt(k))' = a
    <3>1. At(seen, k) # {} /\ a = Evidence!Min(At(seen, k))
      BY <1>1, <1>2, SeenIs
    <3>2. (Evidence!SeenAt(k))' = Evidence!Min(At(seen', k))
      BY <2>10, <3>1, SeenNext
    <3> QED
      BY <2>10, <3>1, <3>2
  <2>13. seen'[a].counts = d
    BY <2>1, <2>8, <2>9
  <2> QED
    BY <1>2, <2>1, <2>7, <2>11, <2>12, <2>13 DEF Evidence!IsSeen, Evidence!Contains
<1>3. CASE a = 0
  <2> DEFINE e == Entry(k, <<n>>)
  <2>1. <<n>> \in Seq(Nat) /\ Len(<<n>>) = 1 /\ <<n>>[1] = n /\ DOMAIN <<n>> = {1}
    OBVIOUS
  <2>2. e \in E /\ e.key = k /\ e.counts = <<n>>
    BY <2>1, EntryIs
  <2>3. seen' = Bounded(seen, MaxKeys, e)
    BY <1>3 DEF Evidence!RecordCount, Entry, Bounded
  <2>10. Len(e.counts) = 1 /\ e.counts[1] = n
    BY <2>1, <2>2
  <2> HIDE DEF e, E
  <2>4. /\ seen' \in Seq(E) /\ Len(seen') \in 1..MaxKeys /\ seen'[Len(seen')] = e
        /\ \A i \in 1..Len(seen') - 1 : \E j \in 1..Len(seen) : seen'[i] = seen[j]
    <3>1. e \in E
      BY <2>2
    <3>2. /\ seen' \in Seq(E) /\ Len(seen') \in 1..MaxKeys /\ Evidence!Last(seen') = e
          /\ AllButLast(seen', seen)
      BY <1>1, <2>3, <3>1, BoundedIs
    <3> QED
      BY <3>2 DEF Evidence!Last, AllButLast
  <2>5. \A j \in 1..Len(seen) : seen[j].key # k
    BY <1>1, <1>3, SeenIs DEF At
  <2>6. At(seen', k) = {Len(seen')}
    <3>1. Len(seen') \in 1..Len(seen') /\ seen'[Len(seen')].key = k
      BY <2>2, <2>4
    <3>2. ASSUME NEW i \in 1..Len(seen'), seen'[i].key = k PROVE i = Len(seen')
      BY <2>4, <2>5, <3>2
    <3> QED
      BY <3>1, <3>2 DEF At
  <2>7. Evidence!IsInjective(e.counts)
    BY <2>1, <2>2 DEF Evidence!IsInjective
  <2>8. BarrierTyped'
    <3>1. ASSUME NEW i \in 1..Len(seen')
          PROVE  Len(seen'[i].counts) <= MaxCounts /\ Evidence!IsInjective(seen'[i].counts)
      <4>1. CASE i = Len(seen')
        <5>1. seen'[i] = e /\ 1 <= MaxCounts
          BY <1>1, <2>4, <4>1
        <5> QED
          BY <2>7, <2>10, <5>1
      <4>2. CASE i # Len(seen')
        BY <2>4, <4>2 DEF BarrierTyped
      <4> QED
        BY <4>1, <4>2
    <3> QED
      BY <1>1, <2>4, <3>1 DEF BarrierTyped, E
  <2>9. (Evidence!SeenAt(k))' = Len(seen')
    <3>1. Evidence!Min({Len(seen')}) = Len(seen')
      <4>1. {Len(seen')} \in SUBSET Nat /\ {Len(seen')} # {}
        BY <1>1, <2>4
      <4>2. Evidence!Min({Len(seen')}) \in {Len(seen')}
        BY <4>1, LeastOf
      <4> QED
        BY <4>2
    <3> QED
      BY <2>6, <3>1, SeenNext
  <2> QED
    BY <2>4, <2>8, <2>9, <2>10 DEF Evidence!IsSeen, Evidence!Contains
<1> QED
  BY <1>2, <1>3

-----------------------------------------------------------------------------
(* The registry.                                                           *)

LEMMA PendingIs ==
    ASSUME IdsIssued
    PROVE  /\ Len(pending) \in Nat /\ DOMAIN pending = 1..Len(pending)
           /\ \A j \in 1..Len(pending) :
                /\ pending[j] \in Evidence!Pack
                /\ pending[j].id \in Keys \X Evidence!Kinds \X Nat
                /\ pending[j].items \subseteq Records
<1>1. pending \in Seq(Evidence!Pack)
  BY DEF IdsIssued
<1>2. Len(pending) \in Nat /\ DOMAIN pending = 1..Len(pending)
  BY <1>1, LenProperties
<1>3. ASSUME NEW j \in 1..Len(pending)
      PROVE  /\ pending[j] \in Evidence!Pack
             /\ pending[j].id \in Keys \X Evidence!Kinds \X Nat
             /\ pending[j].items \subseteq Records
  <2>1. pending[j] \in Evidence!Pack
    BY <1>1, ElementOfSeq
  <2> QED
    BY <2>1 DEF Evidence!Pack
<1> QED
  BY <1>2, <1>3

\* What the rest of the state owes to the registry when that does not change.
LEMMA RegistryRests ==
    ASSUME IdsIssued, OneFate,
           UNCHANGED <<pending, consumed, packs, dropped, lost, occurrences>>,
           \A i : Done(stage, i) => Done(stage', i)
    PROVE  IdsIssued' /\ OneFate'
<1>1. IdsIssued'
  BY DEF IdsIssued, Counted
<1>2. OneFate'
  BY DEF OneFate
<1> QED
  BY <1>1, <1>2

\* A pack is taken, and shown or not.
LEMMA TakeStep ==
    ASSUME IdsIssued, OneFate, Readable, NEW j \in 1..Len(pending),
           pending' = Evidence!RemoveAt(pending, j),
           consumed' = consumed \cup {pending[j].id},
           NEW m, NEW via,
           \A x \in packs' : x \in packs \/ x = Evidence!Showing(pending[j], m, via, FALSE),
           UNCHANGED <<inputs, cycle, banned, forgotten, occurrences, dropped, lost>>,
           \A i : Done(stage, i) => Done(stage', i),
           \A i \in 1..Len(inputs) : stage'[i] = "retrieving" => stage[i] = "retrieving"
    PROVE  IdsIssued' /\ OneFate' /\ Readable'
<1>1. /\ pending' \in Seq(Evidence!Pack) /\ Len(pending') = Len(pending) - 1
      /\ Len(pending) \in Nat
      /\ \A i \in 1..Len(pending') : /\ pending'[i] = pending[Place(i, j)]
                                     /\ Place(i, j) \in 1..Len(pending) /\ Place(i, j) # j
  <2>1. pending \in Seq(Evidence!Pack) /\ Len(pending) \in Nat
    BY PendingIs DEF IdsIssued
  <2>2. /\ Evidence!RemoveAt(pending, j) \in Seq(Evidence!Pack)
        /\ Len(Evidence!RemoveAt(pending, j)) = Len(pending) - 1
        /\ \A i \in 1..Len(pending) - 1 :
             /\ Evidence!RemoveAt(pending, j)[i] = pending[Place(i, j)]
             /\ Place(i, j) \in 1..Len(pending) /\ Place(i, j) # j
    BY <2>1, RemoveAtIs
  <2> QED
    BY <2>1, <2>2
<1>2. \A i, k \in 1..Len(pending') : Place(i, j) = Place(k, j) => i = k
  BY <1>1, PlaceIsInjective
<1>3. IdsIssued'
  <2>1. consumed' \subseteq Keys \X Evidence!Kinds \X Nat /\ \A id \in consumed' : Counted(occurrences', id)
    BY PendingIs DEF IdsIssued, Counted
  <2>2. \A i \in 1..Len(pending') : Counted(occurrences', pending'[i].id)
    BY <1>1 DEF IdsIssued, Counted
  <2>3. \A i, k \in 1..Len(pending') : pending'[i].id = pending'[k].id => i = k
    BY <1>1, <1>2 DEF IdsIssued
  <2> QED
    BY <1>1, <2>1, <2>2, <2>3 DEF IdsIssued
<1>4. PICK new : /\ new.input = pending[j].input /\ new.items = pending[j].items
                 /\ new.again = FALSE /\ \A x \in packs' : x \in packs \/ x = new
  <2> DEFINE new == Evidence!Showing(pending[j], m, via, FALSE)
  <2>1. new.input = pending[j].input /\ new.items = pending[j].items /\ new.again = FALSE
    BY DEF Evidence!Showing
  <2> HIDE DEF new
  <2>2. \A x \in packs' : x \in packs \/ x = new
    BY DEF new
  <2> QED
    BY <2>1, <2>2
<1>5. OneFate'
  <2>1. \A i \in 1..Len(pending') :
          Done(stage', pending'[i].input) /\ pending'[i].input \notin dropped'
    BY <1>1 DEF OneFate
  <2>2. \A i, k \in 1..Len(pending') : pending'[i].input = pending'[k].input => i = k
    BY <1>1, <1>2 DEF OneFate
  <2>3. \A i \in dropped' : Done(stage', i)
    BY DEF OneFate
  <2>4. ASSUME NEW x \in packs'
        PROVE  /\ Done(stage', x.input) /\ x.input \notin dropped' /\ ~x.again
               /\ \A i \in 1..Len(pending') : pending'[i].input # x.input
    BY <1>1, <1>4 DEF OneFate
  <2>5. ASSUME NEW x \in packs', NEW y \in packs', x.input = y.input PROVE x = y
    BY <1>4, <2>5 DEF OneFate
  <2> QED
    BY <2>1, <2>2, <2>3, <2>4, <2>5 DEF OneFate
<1>6. Readable'
  <2>1. \A i \in 1..Len(inputs) : /\ stage'[i] = "retrieving" => banned[i] \subseteq forgotten
                                  /\ cycle[i] \subseteq Authorized \ banned[i]
    BY DEF Readable
  <2>2. \A i \in 1..Len(pending') :
          pending'[i].items \subseteq Authorized \ banned[pending'[i].input]
    BY <1>1 DEF Readable
  <2>3. \A x \in packs' : x.items \subseteq Authorized \ banned[x.input]
    BY <1>4 DEF Readable
  <2> QED
    BY <2>1, <2>2, <2>3 DEF Readable
<1> QED
  BY <1>3, <1>5, <1>6

\* Everything pending is dropped.
LEMMA DropStep ==
    ASSUME IdsIssued, OneFate, Readable, Evidence!DropUnmatched,
           UNCHANGED <<inputs, stage, cycle, banned, forgotten, occurrences, packs, lost>>
    PROVE  IdsIssued' /\ OneFate' /\ Readable'
<1>1. /\ pending' = <<>> /\ Len(pending') = 0 /\ pending' \in Seq(Evidence!Pack)
      /\ 1..Len(pending') = {}
  BY EmptySeq DEF Evidence!DropUnmatched
<1>2. /\ consumed' = consumed \cup {pending[j].id : j \in 1..Len(pending)}
      /\ dropped' = dropped \cup {pending[j].input : j \in 1..Len(pending)}
  BY PendingIs DEF Evidence!DropUnmatched
<1>3. IdsIssued'
  <2>1. consumed' \subseteq Keys \X Evidence!Kinds \X Nat /\ \A id \in consumed' : Counted(occurrences', id)
    BY <1>2, PendingIs DEF IdsIssued, Counted
  <2> QED
    BY <1>1, <2>1 DEF IdsIssued
<1>4. OneFate'
  <2>1. \A i : Done(stage, i) => Done(stage', i)
    BY DEF Done
  <2>2. \A i \in dropped' : Done(stage', i)
    BY <1>2, <2>1 DEF OneFate
  <2>3. \A x \in packs' : Done(stage', x.input) /\ x.input \notin dropped' /\ ~x.again
    BY <1>2, <2>1 DEF OneFate
  <2> QED
    BY <1>1, <2>2, <2>3 DEF OneFate
<1>5. Readable'
  BY <1>1 DEF Readable
<1> QED
  BY <1>3, <1>4, <1>5

IdOf(k, o, n) == <<k, o, n>>

LEMMA IdOfIs ==
    ASSUME NEW k \in Keys, NEW o \in Evidence!Kinds, NEW n \in Nat
    PROVE  /\ IdOf(k, o, n) \in Keys \X Evidence!Kinds \X Nat
           /\ IdOf(k, o, n)[1] = k /\ IdOf(k, o, n)[2] = o /\ IdOf(k, o, n)[3] = n
BY DEF IdOf

\* A pack is registered: its id is new, since ids of a text and kind are counted.
LEMMA RegisterStep ==
    ASSUME EvidenceInv, NEW i \in 1..Len(inputs), Evidence!Register(i)
    PROVE  IdsIssued' /\ OneFate' /\ Readable' /\ EvidenceTyped'
<1> DEFINE k == inputs[i].key
           o == inputs[i].kind
           n == occurrences[<<k, o>>] + 1
<1>1. k \in Keys /\ o \in Evidence!Kinds /\ occurrences[<<k, o>>] \in Nat /\ n \in Nat
  <2>1. inputs[i] \in [key : Keys, kind : Evidence!Kinds]
    BY ElementOfSeq DEF EvidenceInv, EvidenceTyped
  <2> QED
    BY <2>1 DEF EvidenceInv, EvidenceTyped
<1>2. /\ stage[i] = "retrieving"
      /\ occurrences' = [occurrences EXCEPT ![<<k, o>>] = n]
      /\ stage' = [stage EXCEPT ![i] = "ready"] /\ cycle' = [cycle EXCEPT ![i] = {}]
      /\ UNCHANGED <<forgotten, forgetting, hushed, tokenizer, inputs, context, run, consumed,
                     seen, calls, turns, packs, called, banned, removed, dropped, cancelled>>
  BY DEF Evidence!Register, Evidence!backend
<1>3. PICK p : /\ p.input = i /\ p.id = IdOf(k, o, n) /\ p \in Evidence!Pack
               /\ p.items \subseteq cycle[i]
               /\ IF Evidence!Rejected(p) THEN lost' = lost \cup {i} /\ UNCHANGED pending
                  ELSE pending' = Append(pending, p) /\ UNCHANGED lost
  <2>1. PICK kept \in SUBSET cycle[i], ok \in BOOLEAN :
          LET p == Evidence!BuildPack(i, kept, ok)
          IN  IF Evidence!Rejected(p) THEN lost' = lost \cup {i} /\ UNCHANGED pending
              ELSE pending' = Append(pending, p) /\ UNCHANGED lost
    BY DEF Evidence!Register
  <2>2. cycle[i] \subseteq Records /\ i \in Nat
    <3>1. cycle[i] \in SUBSET Records
      BY ElementOfSeq DEF EvidenceInv, EvidenceTyped
    <3> QED
      BY <3>1
  <2> DEFINE q == Evidence!BuildPack(i, kept, ok)
  <2>3. q.input = i /\ q.id = IdOf(k, o, n) /\ q.items = kept
    BY DEF Evidence!BuildPack, Evidence!InputId, IdOf
  <2>4. q \in Evidence!Pack
    BY <1>1, <2>2 DEF Evidence!BuildPack, Evidence!InputId, Evidence!Pack
  <2> QED
    BY <2>1, <2>3, <2>4
<1> HIDE DEF k, o, n
<1>4. /\ p.id \in Keys \X Evidence!Kinds \X Nat
      /\ p.id[1] = k /\ p.id[2] = o /\ p.id[3] = n
  BY <1>1, <1>3, IdOfIs
<1>5. ASSUME NEW id \in Keys \X Evidence!Kinds \X Nat, Counted(occurrences, id)
      PROVE  id # p.id /\ Counted(occurrences', id)
  <2>1. id[1] \in Keys /\ id[2] \in Evidence!Kinds /\ id[3] \in Nat
    BY <1>5
  <2>2. id # p.id
    <3>1. SUFFICES ASSUME id[1] = k, id[2] = o, id[3] = n PROVE FALSE
      BY <1>4
    <3> QED
      BY <1>1, <1>5, <3>1 DEF Counted, n
  <2>3. occurrences[<<id[1], id[2]>>] \in Nat /\ <<id[1], id[2]>> \in Keys \X Evidence!Kinds
    BY <2>1 DEF EvidenceInv, EvidenceTyped
  <2>4. occurrences'[<<id[1], id[2]>>] >= occurrences[<<id[1], id[2]>>]
    <3>1. CASE <<id[1], id[2]>> = <<k, o>>
      BY <1>1, <1>2, <2>3, <3>1 DEF EvidenceInv, EvidenceTyped, n
    <3>2. CASE <<id[1], id[2]>> # <<k, o>>
      BY <1>1, <1>2, <2>3, <3>2 DEF EvidenceInv, EvidenceTyped
    <3> QED
      BY <3>1, <3>2
  <2>5. Counted(occurrences', id)
    <3>1. occurrences'[<<id[1], id[2]>>] \in Nat
      BY <1>1, <1>2, <2>3 DEF EvidenceInv, EvidenceTyped
    <3> QED
      BY <1>5, <2>1, <2>3, <2>4, <3>1 DEF Counted
  <2> QED
    BY <2>2, <2>5
<1>6. /\ Len(pending) \in Nat /\ DOMAIN pending = 1..Len(pending)
      /\ pending \in Seq(Evidence!Pack)
      /\ \A j \in 1..Len(pending) : /\ pending[j].id \in Keys \X Evidence!Kinds \X Nat
                                    /\ Counted(occurrences, pending[j].id) /\ pending[j].id # p.id
  BY <1>5, PendingIs DEF EvidenceInv, IdsIssued
<1>7. ~Evidence!Rejected(p)
  BY <1>5, <1>6 DEF Evidence!Rejected, EvidenceInv, IdsIssued
<1>8. /\ pending' \in Seq(Evidence!Pack) /\ Len(pending') = Len(pending) + 1
      /\ pending'[Len(pending) + 1] = p /\ lost' = lost
      /\ \A j \in 1..Len(pending) : pending'[j] = pending[j]
  <2>1. p \in Evidence!Pack /\ pending' = Append(pending, p) /\ lost' = lost
    BY <1>3, <1>7
  <2> QED
    BY <1>6, <2>1, AppendProperties
<1>9. IdsIssued'
  <2>1. Counted(occurrences', p.id)
    BY <1>1, <1>2, <1>4 DEF Counted, EvidenceInv, EvidenceTyped
  <2>2. ASSUME NEW j \in 1..Len(pending') PROVE Counted(occurrences', pending'[j].id)
    <3>1. CASE j = Len(pending) + 1
      BY <1>8, <2>1, <3>1
    <3>2. CASE j # Len(pending) + 1
      BY <1>5, <1>6, <1>8, <3>2
    <3> QED
      BY <3>1, <3>2
  <2>3. ASSUME NEW j \in 1..Len(pending'), NEW l \in 1..Len(pending'),
               pending'[j].id = pending'[l].id
        PROVE  j = l
    <3>1. j \in 1..Len(pending) + 1 /\ l \in 1..Len(pending) + 1
      BY <1>8, <2>3
    <3>2. \A h \in 1..Len(pending) : pending'[h].id # p.id
      BY <1>6, <1>8
    <3>3. CASE j = Len(pending) + 1 \/ l = Len(pending) + 1
      BY <1>6, <1>8, <2>3, <3>1, <3>2, <3>3
    <3>4. CASE j # Len(pending) + 1 /\ l # Len(pending) + 1
      <4>1. j \in 1..Len(pending) /\ l \in 1..Len(pending)
        <5>1. Len(pending) \in Nat
          BY <1>6
        <5> QED
          BY <3>1, <3>4, <5>1
      <4>2. pending[j].id = pending[l].id
        BY <1>8, <2>3, <4>1
      <4> QED
        BY <4>1, <4>2 DEF EvidenceInv, IdsIssued
    <3> QED
      BY <3>3, <3>4
  <2>4. \A id \in consumed' : Counted(occurrences', id)
    BY <1>2, <1>5 DEF EvidenceInv, IdsIssued
  <2> QED
    BY <1>2, <1>8, <2>2, <2>3, <2>4 DEF EvidenceInv, IdsIssued
<1>10. EvidenceTyped'
  <2>1. stage' \in Seq(Stages) /\ Len(stage') = Len(stage)
    BY <1>2, ExceptSeq DEF EvidenceInv, EvidenceTyped, Stages
  <2>2. cycle' \in Seq(SUBSET Records) /\ Len(cycle') = Len(cycle)
    BY <1>2, ExceptSeq DEF EvidenceInv, EvidenceTyped
  <2>3. occurrences' \in [Keys \X Evidence!Kinds -> Nat]
    BY <1>1, <1>2 DEF EvidenceInv, EvidenceTyped
  <2> QED
    BY <1>2, <2>1, <2>2, <2>3 DEF EvidenceInv, EvidenceTyped
<1>11. /\ \A l \in 1..Len(inputs) : stage'[l] = IF l = i THEN "ready" ELSE stage[l]
       /\ \A l \in 1..Len(inputs) : cycle'[l] = IF l = i THEN {} ELSE cycle[l]
  BY <1>2, LenProperties DEF EvidenceInv, EvidenceTyped
<1>12. (\A l : Done(stage, l) => Done(stage', l)) /\ Done(stage', i) /\ ~Done(stage, i)
  BY <1>2, <1>11 DEF Done
<1>13. OneFate'
  <2>1. \A j \in 1..Len(pending) : pending[j].input # i /\ pending[j].input \notin dropped
    BY <1>12 DEF EvidenceInv, OneFate
  <2>2. i \notin dropped /\ \A x \in packs : x.input # i
    BY <1>12 DEF EvidenceInv, OneFate
  <2>3. ASSUME NEW j \in 1..Len(pending')
        PROVE  /\ Done(stage', pending'[j].input) /\ pending'[j].input \notin dropped'
               /\ \A x \in packs' : pending'[j].input # x.input
    <3>1. CASE j = Len(pending) + 1
      BY <1>2, <1>3, <1>8, <1>12, <2>2, <3>1
    <3>2. CASE j # Len(pending) + 1
      <4>1. j \in 1..Len(pending) /\ pending'[j] = pending[j]
        BY <1>6, <1>8, <3>2
      <4>2. /\ Done(stage, pending[j].input) /\ pending[j].input \notin dropped
            /\ \A x \in packs : pending[j].input # x.input
        BY <4>1 DEF EvidenceInv, OneFate
      <4>3. Done(stage', pending[j].input)
        BY <1>12, <4>2
      <4> QED
        BY <1>2, <4>1, <4>2, <4>3
    <3> QED
      BY <3>1, <3>2
  <2>4. ASSUME NEW j \in 1..Len(pending'), NEW l \in 1..Len(pending'),
               pending'[j].input = pending'[l].input
        PROVE  j = l
    BY <1>3, <1>6, <1>8, <2>1, <2>4 DEF EvidenceInv, OneFate
  <2>5. (\A l \in dropped' : Done(stage', l)) /\ \A x, y \in packs' : x.input = y.input => x = y
    BY <1>2, <1>12 DEF EvidenceInv, OneFate
  <2>6. \A x \in packs' : Done(stage', x.input) /\ x.input \notin dropped' /\ ~x.again
    BY <1>2, <1>12 DEF EvidenceInv, OneFate
  <2> QED
    BY <2>3, <2>4, <2>5, <2>6 DEF OneFate
<1>14. Readable'
  <2>1. p.items \subseteq Authorized \ banned[i]
    BY <1>3 DEF EvidenceInv, Readable
  <2>2. ASSUME NEW j \in 1..Len(pending')
        PROVE  pending'[j].items \subseteq Authorized \ banned'[pending'[j].input]
    <3>1. CASE j = Len(pending) + 1
      BY <1>2, <1>3, <1>8, <2>1, <3>1
    <3>2. CASE j # Len(pending) + 1
      BY <1>2, <1>6, <1>8, <3>2 DEF EvidenceInv, Readable
    <3> QED
      BY <3>1, <3>2
  <2>3. \A l \in 1..Len(inputs) : /\ stage'[l] = "retrieving" => banned[l] \subseteq forgotten
                                  /\ cycle'[l] \subseteq Authorized \ banned[l]
    BY <1>11 DEF EvidenceInv, Readable
  <2> QED
    BY <1>2, <2>2, <2>3 DEF EvidenceInv, Readable
<1> QED
  BY <1>9, <1>10, <1>13, <1>14

-----------------------------------------------------------------------------
(* The steps.                                                              *)

LEMMA BarrierRests == ASSUME BarrierTyped, seen' = seen PROVE BarrierTyped'
BY DEF BarrierTyped

LEMMA SeenRests ==
    ASSUME seen' = seen, NEW k, NEW n, Evidence!IsSeen(k, n)
    PROVE  Evidence!IsSeen(k, n)'
BY DEF Evidence!IsSeen, Evidence!SeenAt, Evidence!SelectInSeq

\* No other message becomes the last one.
LEMMA ReplaysRest ==
    ASSUME EvidenceTyped, ReplaysAreSeen, UNCHANGED <<context, called, seen>>,
           \A i : Sent(stage, i) => Sent(stage', i),
           \A i \in 1..Len(inputs) : inputs'[i] = inputs[i]
    PROVE  ReplaysAreSeen'
<1>1. ASSUME NEW k \in Keys, NEW n \in Nat, LastCalled(k, n)' PROVE Evidence!IsSeen(k, n)'
  <2>1. n = Len(context) /\ n # 0 /\ context[n] \in called /\ inputs'[context[n]].key = k
    BY <1>1 DEF LastCalled
  <2>2. context[n] \in 1..Len(inputs)
    BY <2>1, ElementOfSeq DEF EvidenceTyped
  <2>3. LastCalled(k, n)
    BY <2>1, <2>2 DEF LastCalled
  <2> QED
    BY <2>3, SeenRests DEF ReplaysAreSeen
<1>2. (\A i \in called' : Sent(stage', i)) /\ \A j \in 1..Len(context') : Sent(stage', context'[j])
  BY DEF ReplaysAreSeen
<1> QED
  BY <1>1, <1>2 DEF ReplaysAreSeen

\* A message that no call has had becomes the last one.
LEMMA ReplaysAppend ==
    ASSUME EvidenceTyped, ReplaysAreSeen, NEW i \in 1..Len(inputs), ~Sent(stage, i),
           context' = Append(context, i), Sent(stage', i), called' = called,
           \A l : Sent(stage, l) => Sent(stage', l)
    PROVE  ReplaysAreSeen'
<1>1. context \in Seq(1..Len(inputs)) /\ Len(context) \in Nat
  BY LenProperties DEF EvidenceTyped
<1>2. /\ Len(context') = Len(context) + 1 /\ context'[Len(context) + 1] = i
      /\ \A j \in 1..Len(context) : context'[j] = context[j]
  BY <1>1, AppendProperties
<1>3. i \notin called
  BY DEF ReplaysAreSeen
<1>4. \A k \in Keys, n \in Nat : ~LastCalled(k, n)'
  BY <1>2, <1>3 DEF LastCalled
<1>5. ASSUME NEW j \in 1..Len(context') PROVE Sent(stage', context'[j])
  <2>1. CASE j = Len(context) + 1
    BY <1>2, <2>1
  <2>2. CASE j # Len(context) + 1
    BY <1>1, <1>2, <2>2 DEF ReplaysAreSeen
  <2> QED
    BY <2>1, <2>2
<1>6. \A l \in called' : Sent(stage', l)
  BY DEF ReplaysAreSeen
<1> QED
  BY <1>4, <1>5, <1>6 DEF ReplaysAreSeen

\* The context is cut, and no call has had what is left of it.
LEMMA ReplaysReset ==
    ASSUME ReplaysAreSeen, called' = {}, stage' = stage,
           \A j \in 1..Len(context') : \E l \in 1..Len(context) : context'[j] = context[l]
    PROVE  ReplaysAreSeen'
<1>1. \A k \in Keys, n \in Nat : ~LastCalled(k, n)'
  BY DEF LastCalled
<1>2. \A j \in 1..Len(context') : Sent(stage', context'[j])
  BY DEF ReplaysAreSeen
<1> QED
  BY <1>1, <1>2 DEF ReplaysAreSeen

\* The stage of an input that has not been sent goes on.
LEMMA StageStep ==
    ASSUME EvidenceTyped, NEW i \in 1..Len(inputs), stage[i] # "sent",
           NEW s \in Stages \ {"retrieving"}, stage' = [stage EXCEPT ![i] = s]
    PROVE  /\ stage' \in Seq(Stages) /\ Len(stage') = Len(stage) /\ stage'[i] = s
           /\ \A l : Done(stage, l) => Done(stage', l)
           /\ \A l : Sent(stage, l) => Sent(stage', l)
           /\ \A l \in 1..Len(inputs) : stage'[l] = "retrieving" => stage[l] = "retrieving"
<1>1. stage \in Seq(Stages) /\ Len(stage) = Len(inputs) /\ Len(stage) \in Nat
      /\ DOMAIN stage = 1..Len(stage)
  BY LenProperties DEF EvidenceTyped
<1>2. stage' \in Seq(Stages) /\ Len(stage') = Len(stage)
  BY <1>1, ExceptSeq
<1>3. \A l \in 1..Len(stage) : stage'[l] = IF l = i THEN s ELSE stage[l]
  BY <1>1
<1> QED
  BY <1>1, <1>2, <1>3 DEF Done, Sent

\* Nothing is registered, taken or dropped.
LEMMA PacksRest ==
    ASSUME EvidenceInv, EvidenceTyped', ReplaysAreSeen',
           UNCHANGED <<pending, consumed, packs, dropped, lost, occurrences, seen, inputs, banned>>,
           forgotten \subseteq forgotten',
           \A i : Done(stage, i) => Done(stage', i),
           \A i \in 1..Len(inputs) : stage'[i] = "retrieving" => stage[i] = "retrieving",
           \A i \in 1..Len(inputs) : cycle'[i] \subseteq cycle[i]
    PROVE  EvidenceInv'
<1>1. IdsIssued' /\ OneFate'
  BY RegistryRests DEF EvidenceInv
<1>2. BarrierTyped'
  BY BarrierRests DEF EvidenceInv
<1>3. Readable'
  BY DEF EvidenceInv, Readable
<1> QED
  BY <1>1, <1>2, <1>3 DEF EvidenceInv

LEMMA EvidenceBounds ==
    /\ EvidenceAssumptions
    /\ MaxInputs \in Nat /\ MaxQueries \in Nat /\ MaxTurns \in Nat
BY SessionAssumption DEF EvidenceAssumptions, Evidence!BoundsAssumption

LEMMA TurnIs ==
    ASSUME EvidenceTyped, Evidence!Turn
    PROVE  turns' \in 0..MaxTurns
BY EvidenceBounds DEF EvidenceTyped, Evidence!Turn

\* Steps that touch neither packs nor messages.
LEMMA SwitchStep ==
    ASSUME EvidenceInv,
           \/ Evidence!AttachTokenizer \/ Evidence!PrivateOn \/ Evidence!PrivateOff
           \/ \E r \in Records : Evidence!Forget(r)
    PROVE  EvidenceInv'
<1>1. /\ UNCHANGED <<run, inputs, stage, cycle, banned, occurrences, context, calls, called>>
      /\ UNCHANGED <<pending, consumed, packs, dropped, lost, seen>>
      /\ forgotten \subseteq forgotten' /\ forgotten' \subseteq Records
      /\ forgetting' \subseteq Records
  BY DEF EvidenceInv, EvidenceTyped, Evidence!AttachTokenizer, Evidence!PrivateOn,
         Evidence!PrivateOff, Evidence!Forget, Evidence!registry, Evidence!pi, Evidence!ghosts
<1>2. turns' \in 0..MaxTurns
  BY TurnIs DEF EvidenceInv, EvidenceTyped, Evidence!AttachTokenizer, Evidence!PrivateOn,
         Evidence!PrivateOff, Evidence!Forget
<1>3. hushed' \in BOOLEAN /\ tokenizer' \in BOOLEAN
  BY Zenon DEF EvidenceInv, EvidenceTyped, Evidence!AttachTokenizer, Evidence!PrivateOn,
         Evidence!PrivateOff, Evidence!Forget
<1>4. EvidenceTyped'
  BY <1>1, <1>2, <1>3 DEF EvidenceInv, EvidenceTyped
<1>5. ReplaysAreSeen'
  BY <1>1, ReplaysRest DEF EvidenceInv
<1> QED
  BY <1>1, <1>4, <1>5, PacksRest

\* Compaction and a navigation cut the context.
LEMMA CutStep ==
    ASSUME EvidenceInv, Evidence!Compact \/ Evidence!Navigate
    PROVE  EvidenceInv'
<1>1. /\ UNCHANGED <<run, inputs, stage, cycle, banned, occurrences, calls, forgotten,
                     forgetting, hushed, tokenizer>>
      /\ UNCHANGED <<pending, consumed, packs, dropped, lost, seen>>
      /\ called' = {}
  BY DEF Evidence!Compact, Evidence!Navigate, Evidence!backend, Evidence!registry
<1>2. turns' \in 0..MaxTurns
  BY TurnIs DEF EvidenceInv, Evidence!Compact, Evidence!Navigate
<1>3. context \in Seq(1..Len(inputs)) /\ Len(context) \in Nat
  BY LenProperties DEF EvidenceInv, EvidenceTyped
<1>4. PICK a \in 1..Len(context) + 1, b \in 0..Len(context) : context' = SubSeq(context, a, b)
  <2>1. CASE Evidence!Compact
    <3>1. PICK n \in 2..Len(context) : context' = SubSeq(context, n, Len(context))
      BY <2>1 DEF Evidence!Compact
    <3> QED
      BY <1>3, <3>1
  <2>2. CASE Evidence!Navigate
    <3>1. PICK n \in 0..Len(context) - 1 : context' = SubSeq(context, 1, n)
      BY <2>2 DEF Evidence!Navigate
    <3> QED
      BY <1>3, <3>1
  <2> QED
    BY <2>1, <2>2
<1>5. context' \in Seq(1..Len(inputs)) /\ Len(context') = (IF a <= b THEN b - a + 1 ELSE 0)
      /\ \A j \in 1..b - a + 1 : context'[j] = context[a + j - 1]
  <2>1. /\ SubSeq(context, a, b) \in Seq(1..Len(inputs))
        /\ Len(SubSeq(context, a, b)) = (IF a <= b THEN b - a + 1 ELSE 0)
        /\ \A j \in 1..b - a + 1 : SubSeq(context, a, b)[j] = context[a + j - 1]
    BY <1>3, SubSeqProperties
  <2> QED
    BY <1>4, <2>1
<1>6. \A j \in 1..Len(context') : \E l \in 1..Len(context) : context'[j] = context[l]
  <2>1. ASSUME NEW j \in 1..Len(context')
        PROVE  a + j - 1 \in 1..Len(context) /\ context'[j] = context[a + j - 1]
    <3>1. j \in 1..b - a + 1 /\ a \in Nat /\ b \in Nat
      BY <1>3, <1>5
    <3> QED
      BY <1>3, <1>5, <3>1
  <2> QED
    BY <2>1
<1>7. EvidenceTyped'
  BY <1>1, <1>2, <1>5 DEF EvidenceInv, EvidenceTyped
<1>8. ReplaysAreSeen'
  BY <1>1, <1>6, ReplaysReset DEF EvidenceInv
<1> QED
  BY <1>1, <1>7, <1>8, PacksRest

\* An input is held without a pack, or answered by somebody else.
LEMMA HeldStep ==
    ASSUME EvidenceInv, NEW i \in 1..Len(inputs), Evidence!Degrade(i) \/ Evidence!Handled(i)
    PROVE  EvidenceInv'
<1>1. /\ UNCHANGED <<run, inputs, context, banned, occurrences, calls, turns, forgotten,
                     forgetting, hushed, tokenizer, called>>
      /\ UNCHANGED <<pending, consumed, packs, dropped, lost, seen>>
      /\ stage[i] # "sent"
      /\ \E s \in Stages \ {"retrieving"} : stage' = [stage EXCEPT ![i] = s]
      /\ cycle' = [cycle EXCEPT ![i] = {}] \/ cycle' = cycle
  BY DEF Evidence!Degrade, Evidence!Handled, Evidence!backend, Evidence!registry,
         Evidence!ghosts, Stages
<1>2. PICK s \in Stages \ {"retrieving"} : stage' = [stage EXCEPT ![i] = s]
  BY <1>1
<1>3. /\ stage' \in Seq(Stages) /\ Len(stage') = Len(stage)
      /\ \A l : Done(stage, l) => Done(stage', l)
      /\ \A l : Sent(stage, l) => Sent(stage', l)
      /\ \A l \in 1..Len(inputs) : stage'[l] = "retrieving" => stage[l] = "retrieving"
  BY <1>1, <1>2, StageStep DEF EvidenceInv
<1>4. cycle \in Seq(SUBSET Records) /\ Len(cycle) = Len(inputs) /\ DOMAIN cycle = 1..Len(inputs)
  BY LenProperties DEF EvidenceInv, EvidenceTyped
<1>5. cycle' \in Seq(SUBSET Records) /\ Len(cycle') = Len(cycle)
      /\ \A l \in 1..Len(inputs) : cycle'[l] \subseteq cycle[l]
  <2>1. CASE cycle' = cycle
    BY <1>4, <2>1
  <2>2. CASE cycle' = [cycle EXCEPT ![i] = {}]
    <3>1. cycle' \in Seq(SUBSET Records) /\ Len(cycle') = Len(cycle)
      BY <1>4, <2>2, ExceptSeq
    <3>2. \A l \in 1..Len(inputs) : cycle'[l] = IF l = i THEN {} ELSE cycle[l]
      BY <1>4, <2>2
    <3> QED
      BY <3>1, <3>2
  <2> QED
    BY <1>1, <2>1, <2>2
<1>6. EvidenceTyped'
  BY <1>1, <1>3, <1>5 DEF EvidenceInv, EvidenceTyped
<1>7. ReplaysAreSeen'
  BY <1>1, <1>3, ReplaysRest DEF EvidenceInv
<1> QED
  BY <1>1, <1>3, <1>5, <1>6, <1>7, PacksRest

\* A queued input becomes a message.
LEMMA DeliverStep ==
    ASSUME EvidenceInv, NEW i \in 1..Len(inputs), Evidence!Deliver(i)
    PROVE  EvidenceInv'
<1>1. /\ UNCHANGED <<inputs, cycle, banned, occurrences, calls, turns, forgotten,
                     forgetting, hushed, tokenizer, called>>
      /\ UNCHANGED <<pending, consumed, packs, dropped, lost, seen>>
      /\ stage[i] = "ready" /\ run' = TRUE
      /\ context' = Append(context, i) /\ stage' = [stage EXCEPT ![i] = "sent"]
  BY DEF Evidence!Deliver, Evidence!backend, Evidence!registry, Evidence!ghosts
<1>2. /\ stage' \in Seq(Stages) /\ Len(stage') = Len(stage) /\ stage'[i] = "sent"
      /\ \A l : Done(stage, l) => Done(stage', l)
      /\ \A l : Sent(stage, l) => Sent(stage', l)
      /\ \A l \in 1..Len(inputs) : stage'[l] = "retrieving" => stage[l] = "retrieving"
  <2>1. "sent" \in Stages \ {"retrieving"} /\ stage[i] # "sent"
    BY <1>1 DEF Stages
  <2> QED
    BY <1>1, <2>1, StageStep DEF EvidenceInv
<1>3. context' \in Seq(1..Len(inputs))
  BY <1>1, AppendProperties DEF EvidenceInv, EvidenceTyped
<1>4. EvidenceTyped'
  BY <1>1, <1>2, <1>3 DEF EvidenceInv, EvidenceTyped
<1>5. ReplaysAreSeen'
  <2>1. ~Sent(stage, i) /\ Sent(stage', i)
    BY <1>1, <1>2 DEF Sent, EvidenceInv, EvidenceTyped
  <2> QED
    BY <1>1, <1>2, <2>1, ReplaysAppend DEF EvidenceInv
<1> QED
  BY <1>1, <1>2, <1>4, <1>5, PacksRest

\* A run settles, or a forget is answered: what is pending goes.
LEMMA DroppedStep ==
    ASSUME EvidenceInv, Evidence!Settle \/ \E r \in Records : Evidence!ForgetDrops(r)
    PROVE  EvidenceInv'
<1>1. /\ UNCHANGED <<inputs, stage, cycle, banned, occurrences, context, calls, turns,
                     forgotten, hushed, tokenizer, called, packs, lost, seen>>
      /\ Evidence!DropUnmatched /\ forgetting' \subseteq Records
  BY DEF EvidenceInv, EvidenceTyped, Evidence!Settle, Evidence!ForgetDrops, Evidence!backend,
         Evidence!pi
<1>2. run' \in BOOLEAN
  BY Zenon DEF EvidenceInv, EvidenceTyped, Evidence!Settle, Evidence!ForgetDrops, Evidence!pi
<1>3. EvidenceTyped'
  BY <1>1, <1>2 DEF EvidenceInv, EvidenceTyped
<1>4. ReplaysAreSeen'
  BY <1>1, ReplaysRest DEF EvidenceInv
<1>5. IdsIssued' /\ OneFate' /\ Readable'
  BY <1>1, DropStep DEF EvidenceInv
<1>6. BarrierTyped'
  BY <1>1, BarrierRests DEF EvidenceInv
<1> QED
  BY <1>3, <1>4, <1>5, <1>6 DEF EvidenceInv

\* The cycle of an input ends with its pack.
LEMMA RegisteredStep ==
    ASSUME EvidenceInv, NEW i \in 1..Len(inputs), Evidence!Register(i)
    PROVE  EvidenceInv'
<1>1. /\ UNCHANGED <<inputs, context, called, seen>> /\ stage[i] = "retrieving"
      /\ stage' = [stage EXCEPT ![i] = "ready"]
  BY DEF Evidence!Register
<1>2. \A l : Sent(stage, l) => Sent(stage', l)
  <2>1. "ready" \in Stages \ {"retrieving"} /\ stage[i] # "sent"
    BY <1>1 DEF Stages
  <2> QED
    BY <1>1, <2>1, StageStep DEF EvidenceInv
<1>3. ReplaysAreSeen'
  BY <1>1, <1>2, ReplaysRest DEF EvidenceInv
<1>4. BarrierTyped'
  BY <1>1, BarrierRests DEF EvidenceInv
<1> QED
  BY <1>3, <1>4, RegisterStep DEF EvidenceInv

\* An input arrives; no pack and no message is about it yet.
LEMMA InputStep ==
    ASSUME EvidenceInv, NEW k \in Keys, NEW kind \in Evidence!Kinds, Evidence!Input(k, kind)
    PROVE  EvidenceInv'
<1> DEFINE s == IF hushed THEN "ready" ELSE "retrieving"
           e == [key |-> k, kind |-> kind]
<1>1. /\ inputs' = Append(inputs, e) /\ stage' = Append(stage, s)
      /\ cycle' = Append(cycle, {}) /\ banned' = Append(banned, forgotten)
      /\ Len(inputs) < MaxInputs
      /\ UNCHANGED <<run, context, occurrences, calls, turns, forgotten, forgetting, hushed,
                     tokenizer, called>>
      /\ UNCHANGED <<pending, consumed, packs, dropped, lost, seen>>
  BY DEF Evidence!Input, Evidence!backend, Evidence!registry
<1>2. s \in Stages /\ e \in [key : Keys, kind : Evidence!Kinds]
  BY DEF Stages
<1> HIDE DEF s, e
<1>3. /\ inputs \in Seq([key : Keys, kind : Evidence!Kinds]) /\ Len(inputs) \in Nat
      /\ stage \in Seq(Stages) /\ Len(stage) = Len(inputs)
      /\ cycle \in Seq(SUBSET Records) /\ Len(cycle) = Len(inputs)
      /\ banned \in Seq(SUBSET Records) /\ Len(banned) = Len(inputs)
      /\ forgotten \in SUBSET Records /\ {} \in SUBSET Records
  BY LenProperties DEF EvidenceInv, EvidenceTyped
<1>4. /\ inputs' \in Seq([key : Keys, kind : Evidence!Kinds]) /\ Len(inputs') = Len(inputs) + 1
      /\ \A l \in 1..Len(inputs) : inputs'[l] = inputs[l]
  BY <1>1, <1>2, <1>3, AppendProperties
<1>5. /\ stage' \in Seq(Stages) /\ Len(stage') = Len(inputs) + 1
      /\ \A l \in 1..Len(inputs) : stage'[l] = stage[l]
  BY <1>1, <1>2, <1>3, AppendProperties
<1>6. /\ cycle' \in Seq(SUBSET Records) /\ Len(cycle') = Len(inputs) + 1
      /\ cycle'[Len(inputs) + 1] = {} /\ \A l \in 1..Len(inputs) : cycle'[l] = cycle[l]
  BY <1>1, <1>3, AppendProperties
<1>7. /\ banned' \in Seq(SUBSET Records) /\ Len(banned') = Len(inputs) + 1
      /\ banned'[Len(inputs) + 1] = forgotten /\ \A l \in 1..Len(inputs) : banned'[l] = banned[l]
  BY <1>1, <1>3, AppendProperties
<1>8. (\A l : Done(stage, l) => Done(stage', l)) /\ \A l : Sent(stage, l) => Sent(stage', l)
  BY <1>3, <1>5 DEF Done, Sent
<1>9. EvidenceTyped'
  <2>1. context' \in Seq(1..Len(inputs'))
    <3>1. 1..Len(inputs) \subseteq 1..Len(inputs')
      BY <1>3, <1>4
    <3>2. \A j \in 1..Len(context) : context[j] \in 1..Len(inputs')
      BY <3>1, ElementOfSeq DEF EvidenceInv, EvidenceTyped
    <3>3. context \in Seq(1..Len(inputs)) /\ Len(context) \in Nat
      BY LenProperties DEF EvidenceInv, EvidenceTyped
    <3>4. context \in Seq(1..Len(inputs'))
      BY <3>2, <3>3, LenProperties
    <3> QED
      BY <1>1, <3>4
  <2>2. Len(inputs') <= MaxInputs
    BY <1>1, <1>3, <1>4, EvidenceBounds
  <2> QED
    BY <1>1, <1>4, <1>5, <1>6, <1>7, <2>1, <2>2 DEF EvidenceInv, EvidenceTyped
<1>10. ReplaysAreSeen'
  BY <1>1, <1>4, <1>8, ReplaysRest DEF EvidenceInv
<1>11. IdsIssued' /\ OneFate'
  BY <1>1, <1>8, RegistryRests DEF EvidenceInv
<1>12. BarrierTyped'
  BY <1>1, BarrierRests DEF EvidenceInv
<1>13. Readable'
  <2>1. ASSUME NEW l \in 1..Len(inputs')
        PROVE  /\ stage'[l] = "retrieving" => banned'[l] \subseteq forgotten'
               /\ cycle'[l] \subseteq Authorized \ banned'[l]
    <3>1. CASE l = Len(inputs) + 1
      BY <1>1, <1>6, <1>7, <3>1
    <3>2. CASE l # Len(inputs) + 1
      <4>1. l \in 1..Len(inputs)
        BY <1>3, <1>4, <3>2
      <4> QED
        BY <1>1, <1>5, <1>6, <1>7, <4>1 DEF EvidenceInv, Readable
    <3> QED
      BY <3>1, <3>2
  <2>2. \A l : Done(stage, l) => banned'[l] = banned[l]
    BY <1>3, <1>7 DEF Done
  <2>3. \A j \in 1..Len(pending) : Done(stage, pending[j].input)
    BY DEF EvidenceInv, OneFate
  <2>4. \A x \in packs : Done(stage, x.input)
    BY DEF EvidenceInv, OneFate
  <2> QED
    BY <1>1, <2>1, <2>2, <2>3, <2>4 DEF EvidenceInv, Readable
<1> QED
  BY <1>9, <1>10, <1>11, <1>12, <1>13 DEF EvidenceInv

\* A hit is read back, now: it is not forgotten, so not all through the cycle.
LEMMA HitStep ==
    ASSUME EvidenceInv, NEW i \in 1..Len(inputs), NEW r \in Records, Evidence!Hit(i, r)
    PROVE  EvidenceInv'
<1>1. /\ UNCHANGED <<run, inputs, stage, banned, context, occurrences, calls, turns, forgotten,
                     forgetting, hushed, tokenizer, called>>
      /\ UNCHANGED <<pending, consumed, packs, dropped, lost, seen>>
      /\ stage[i] = "retrieving" /\ r \notin forgotten /\ r \in Authorized
      /\ cycle' = [cycle EXCEPT ![i] = @ \cup {r}]
  BY DEF Evidence!Hit, Evidence!Guard, Evidence!backend, Evidence!registry, Evidence!pi,
         Evidence!ghosts
<1>2. cycle \in Seq(SUBSET Records) /\ Len(cycle) = Len(inputs) /\ DOMAIN cycle = 1..Len(inputs)
      /\ cycle[i] \in SUBSET Records
  BY LenProperties, ElementOfSeq DEF EvidenceInv, EvidenceTyped
<1>3. cycle' \in Seq(SUBSET Records) /\ Len(cycle') = Len(cycle)
  <2>1. cycle[i] \cup {r} \in SUBSET Records
    BY <1>2
  <2>2. cycle' = [cycle EXCEPT ![i] = cycle[i] \cup {r}]
    BY <1>1
  <2> QED
    BY <1>2, <2>1, <2>2, ExceptSeq
<1>4. \A l \in 1..Len(inputs) : cycle'[l] = IF l = i THEN cycle[i] \cup {r} ELSE cycle[l]
  BY <1>1, <1>2
<1>5. EvidenceTyped'
  BY <1>1, <1>3 DEF EvidenceInv, EvidenceTyped
<1>6. ReplaysAreSeen'
  BY <1>1, ReplaysRest DEF EvidenceInv
<1>7. IdsIssued' /\ OneFate'
  BY <1>1, RegistryRests DEF EvidenceInv
<1>8. BarrierTyped'
  BY <1>1, BarrierRests DEF EvidenceInv
<1>9. Readable'
  <2>1. \A l \in 1..Len(inputs) : cycle'[l] \subseteq Authorized \ banned[l]
    BY <1>1, <1>4 DEF EvidenceInv, Readable
  <2> QED
    BY <1>1, <2>1 DEF EvidenceInv, Readable
<1> QED
  BY <1>5, <1>6, <1>7, <1>8, <1>9 DEF EvidenceInv

\* A restored record has not been forgotten all through the cycles under way.
LEMMA RestoreStep ==
    ASSUME EvidenceInv, NEW r \in Records, Evidence!Restore(r)
    PROVE  EvidenceInv'
<1>1. /\ UNCHANGED <<run, inputs, stage, cycle, context, occurrences, calls, turns,
                     forgetting, hushed, tokenizer, called>>
      /\ UNCHANGED <<pending, consumed, packs, dropped, lost, seen>>
      /\ forgotten' = forgotten \ {r}
      /\ banned' = [i \in 1..Len(inputs) |->
                      IF stage[i] = "retrieving" THEN banned[i] \ {r} ELSE banned[i]]
  BY DEF Evidence!Restore, Evidence!Ids, Evidence!registry, Evidence!pi
<1>2. Len(inputs) \in Nat /\ \A l \in 1..Len(inputs) : banned[l] \in SUBSET Records
  BY LenProperties, ElementOfSeq DEF EvidenceInv, EvidenceTyped
<1>3. banned' \in Seq(SUBSET Records) /\ Len(banned') = Len(inputs)
  <2>1. banned' \in [1..Len(inputs) -> SUBSET Records]
    BY <1>1, <1>2
  <2> QED
    BY <1>2, <2>1, SeqDef, LenProperties
<1>4. \A l \in 1..Len(inputs) :
        banned'[l] = IF stage[l] = "retrieving" THEN banned[l] \ {r} ELSE banned[l]
  BY <1>1
<1>5. EvidenceTyped'
  BY <1>1, <1>3 DEF EvidenceInv, EvidenceTyped
<1>6. ReplaysAreSeen'
  BY <1>1, ReplaysRest DEF EvidenceInv
<1>7. IdsIssued' /\ OneFate'
  BY <1>1, RegistryRests DEF EvidenceInv
<1>8. BarrierTyped'
  BY <1>1, BarrierRests DEF EvidenceInv
<1>9. Readable'
  <2>1. \A l \in 1..Len(inputs) : /\ stage'[l] = "retrieving" => banned'[l] \subseteq forgotten'
                                  /\ cycle'[l] \subseteq Authorized \ banned'[l]
    BY <1>1, <1>4 DEF EvidenceInv, Readable
  <2>2. \A l : Done(stage, l) => banned'[l] = banned[l]
    BY <1>4 DEF Done, EvidenceInv, EvidenceTyped
  <2>3. \A j \in 1..Len(pending) : Done(stage, pending[j].input)
    BY DEF EvidenceInv, OneFate
  <2>4. \A x \in packs : Done(stage, x.input)
    BY DEF EvidenceInv, OneFate
  <2> QED
    BY <1>1, <2>1, <2>2, <2>3, <2>4 DEF EvidenceInv, Readable
<1> QED
  BY <1>5, <1>6, <1>7, <1>8, <1>9 DEF EvidenceInv

\* consumeFresh and consumeMatching name a pack that is pending, or none.
LEMMA FoundIs ==
    ASSUME NEW k
    PROVE  /\ Len(pending) \in Nat => Evidence!FreshFor(k) \in {0} \cup 1..Len(pending)
           /\ Len(pending) \in Nat => Evidence!Match(k) \in {0} \cup 1..Len(pending)
<1> DEFINE F == {i \in 1..Len(pending) : pending[i].origin = "fresh" /\ pending[i].key = k}
           M == {i \in 1..Len(pending) : pending[i].key = k}
<1>1. Evidence!FreshFor(k) = IF F # {} THEN Evidence!Min(F) ELSE 0
  BY DEF Evidence!FreshFor, Evidence!SelectInSeq
<1>2. Evidence!Match(k) = IF M # {} THEN Evidence!Min(M) ELSE 0
  BY DEF Evidence!Match, Evidence!SelectInSeq
<1>3. Len(pending) \in Nat => F \in SUBSET Nat /\ M \in SUBSET Nat
  OBVIOUS
<1>4. F \subseteq 1..Len(pending) /\ M \subseteq 1..Len(pending)
  OBVIOUS
<1> HIDE DEF F, M
<1>5. Len(pending) \in Nat => (F # {} => Evidence!Min(F) \in F) /\ (M # {} => Evidence!Min(M) \in M)
  BY <1>3, LeastOf
<1> QED
  BY <1>1, <1>2, <1>4, <1>5

\* The message of a fresh input opens the run, with the pack of its text.
LEMMA RunStep ==
    ASSUME EvidenceInv, NEW i \in 1..Len(inputs), Evidence!BeforeAgentStart(i)
    PROVE  EvidenceInv'
<1> DEFINE j == Evidence!FreshFor(inputs[i].key)
<1>1. /\ UNCHANGED <<inputs, cycle, banned, occurrences, calls, turns, forgotten, forgetting,
                     hushed, tokenizer, called, dropped, lost, seen>>
      /\ stage[i] = "ready" /\ run' = TRUE
      /\ context' = Append(context, i) /\ stage' = [stage EXCEPT ![i] = "sent"]
  BY DEF Evidence!BeforeAgentStart, Evidence!backend
<1>2. \/ UNCHANGED <<pending, consumed, packs>>
      \/ /\ j # 0 /\ pending' = Evidence!RemoveAt(pending, j)
         /\ consumed' = consumed \cup {pending[j].id}
         /\ \A x \in packs' :
              x \in packs \/ x = Evidence!Showing(pending[j], i, "start", FALSE)
  BY DEF Evidence!BeforeAgentStart, Evidence!Take
<1> HIDE DEF j
<1>3. j \in {0} \cup 1..Len(pending)
  BY PendingIs, FoundIs DEF j, EvidenceInv
<1>4. /\ stage' \in Seq(Stages) /\ Len(stage') = Len(stage) /\ stage'[i] = "sent"
      /\ \A l : Done(stage, l) => Done(stage', l)
      /\ \A l : Sent(stage, l) => Sent(stage', l)
      /\ \A l \in 1..Len(inputs) : stage'[l] = "retrieving" => stage[l] = "retrieving"
  <2>1. "sent" \in Stages \ {"retrieving"} /\ stage[i] # "sent"
    BY <1>1 DEF Stages
  <2> QED
    BY <1>1, <2>1, StageStep DEF EvidenceInv
<1>5. context' \in Seq(1..Len(inputs))
  BY <1>1, AppendProperties DEF EvidenceInv, EvidenceTyped
<1>6. EvidenceTyped'
  BY <1>1, <1>4, <1>5 DEF EvidenceInv, EvidenceTyped
<1>7. ReplaysAreSeen'
  <2>1. ~Sent(stage, i) /\ Sent(stage', i)
    BY <1>1, <1>4 DEF Sent, EvidenceInv, EvidenceTyped
  <2> QED
    BY <1>1, <1>4, <2>1, ReplaysAppend DEF EvidenceInv
<1>8. CASE UNCHANGED <<pending, consumed, packs>>
  BY <1>1, <1>4, <1>6, <1>7, <1>8, PacksRest
<1>9. CASE ~UNCHANGED <<pending, consumed, packs>>
  <2>1. IdsIssued' /\ OneFate' /\ Readable'
    BY <1>1, <1>2, <1>3, <1>4, <1>9, TakeStep DEF EvidenceInv
  <2>2. BarrierTyped'
    BY <1>1, BarrierRests DEF EvidenceInv
  <2> QED
    BY <1>6, <1>7, <2>1, <2>2 DEF EvidenceInv
<1> QED
  BY <1>8, <1>9

\* A provider call: a replay is seen and takes nothing; what is taken was not seen,
\* so that its message is one no call has had, and is seen from now on.
LEMMA ContextStep ==
    ASSUME EvidenceInv, Evidence!Context
    PROVE  EvidenceInv'
<1>1. PICK n \in Nat, m \in 1..Len(inputs), k \in Keys :
        n = Len(context) /\ n # 0 /\ m = context[n] /\ k = inputs[m].key
  <2> DEFINE n == Len(context)
             m == context[n]
  <2>1. context \in Seq(1..Len(inputs)) /\ n \in Nat /\ context # <<>>
    BY LenProperties DEF EvidenceInv, EvidenceTyped, Evidence!Context
  <2>2. n # 0
    BY <2>1, EmptySeq
  <2>3. m \in 1..Len(inputs)
    BY <2>1, <2>2, ElementOfSeq
  <2>4. inputs[m] \in [key : Keys, kind : Evidence!Kinds]
    BY <2>3, ElementOfSeq DEF EvidenceInv, EvidenceTyped
  <2>5. inputs[m].key \in Keys
    BY <2>4
  <2> QED
    BY <2>1, <2>2, <2>3, <2>5
<1>2. /\ UNCHANGED <<run, inputs, stage, cycle, banned, context, occurrences, turns, forgotten,
                     forgetting, hushed, tokenizer, dropped, lost>>
      /\ calls < MaxQueries /\ calls' = calls + 1 /\ called' = called \cup {m}
      /\ Evidence!ConsumeMatching(k, n)
      /\ packs' = packs \cup
           {Evidence!Showing(p, m, "context", m \in called) :
              p \in {q \in Evidence!ToSet(pending) : q.id \in consumed' \ consumed /\ Evidence!Injectable(q)}}
  BY <1>1 DEF Evidence!Context, Evidence!Last, Evidence!backend, Evidence!pi
<1>3. calls' \in 0..MaxQueries
  BY <1>2, EvidenceBounds DEF EvidenceInv, EvidenceTyped
<1>4. EvidenceTyped'
  BY <1>2, <1>3 DEF EvidenceInv, EvidenceTyped
<1>5. BarrierTyped' /\ Evidence!IsSeen(k, n)'
  <2>1. CASE Evidence!IsSeen(k, n)
    <3>1. seen' = seen
      BY <1>2, <2>1 DEF Evidence!ConsumeMatching
    <3> QED
      BY <2>1, <3>1, BarrierRests, SeenRests DEF EvidenceInv
  <2>2. CASE ~Evidence!IsSeen(k, n)
    <3>1. seen' = Evidence!RecordCount(k, n)
      BY <1>2, <2>2 DEF Evidence!ConsumeMatching
    <3> QED
      BY <1>1, <2>2, <3>1, EvidenceBounds, RecordedIsSeen DEF EvidenceInv
  <2> QED
    BY <2>1, <2>2
<1>6. ReplaysAreSeen'
  <2>1. Sent(stage, m)
    BY <1>1 DEF EvidenceInv, ReplaysAreSeen
  <2>2. (\A i \in called' : Sent(stage', i)) /\ \A j \in 1..Len(context') : Sent(stage', context'[j])
    BY <1>2, <2>1 DEF EvidenceInv, ReplaysAreSeen
  <2>3. ASSUME NEW a \in Keys, NEW b \in Nat, LastCalled(a, b)' PROVE a = k /\ b = n
    BY <1>1, <1>2, <2>3 DEF LastCalled
  <2> QED
    BY <1>5, <2>2, <2>3 DEF ReplaysAreSeen
<1>7. IdsIssued' /\ OneFate' /\ Readable'
  <2>1. CASE consumed' = consumed /\ pending' = pending
    <3>1. packs' = packs
      BY <1>2, <2>1
    <3>2. IdsIssued' /\ OneFate'
      BY <1>2, <2>1, <3>1, RegistryRests DEF EvidenceInv
    <3>3. Readable'
      BY <1>2, <2>1, <3>1 DEF EvidenceInv, Readable
    <3> QED
      BY <3>2, <3>3
  <2>2. CASE ~(consumed' = consumed /\ pending' = pending)
    <3> DEFINE j == Evidence!Match(k)
    <3>1. /\ ~Evidence!IsSeen(k, n) /\ j # 0
          /\ pending' = Evidence!RemoveAt(pending, j)
          /\ consumed' = consumed \cup {pending[j].id}
      BY <1>2, <2>2 DEF Evidence!ConsumeMatching, Evidence!Take
    <3> HIDE DEF j
    <3>2. j \in 1..Len(pending)
      BY <3>1, PendingIs, FoundIs DEF j, EvidenceInv
    <3>3. m \notin called
      <4>1. ~LastCalled(k, n)
        BY <1>1, <3>1 DEF EvidenceInv, ReplaysAreSeen
      <4> QED
        BY <1>1, <4>1 DEF LastCalled
    <3>4. ASSUME NEW x \in packs'
          PROVE  x \in packs \/ x = Evidence!Showing(pending[j], m, "context", FALSE)
      <4>1. CASE x \in packs
        BY <4>1
      <4>2. CASE x \notin packs
        <5>1. PICK q \in Evidence!ToSet(pending) :
                q.id \in consumed' \ consumed /\ x = Evidence!Showing(q, m, "context", m \in called)
          BY <1>2, <4>2
        <5>2. PICK l \in 1..Len(pending) : q = pending[l]
          BY PendingIs DEF EvidenceInv, Evidence!ToSet
        <5>3. pending[l].id = pending[j].id
          BY <3>1, <5>1, <5>2
        <5>4. l = j
          BY <3>2, <5>3 DEF EvidenceInv, IdsIssued
        <5>5. (m \in called) = FALSE
          BY <3>3
        <5> QED
          BY <5>1, <5>2, <5>4, <5>5
      <4> QED
        BY <4>1, <4>2
    <3>5. \A i : Done(stage, i) => Done(stage', i)
      BY <1>2
    <3> QED
      BY <1>2, <3>1, <3>2, <3>4, <3>5, TakeStep DEF EvidenceInv
  <2> QED
    BY <2>1, <2>2
<1> QED
  BY <1>4, <1>5, <1>6, <1>7 DEF EvidenceInv

LEMMA EvidenceStep ==
    ASSUME EvidenceInv, Evidence!Next
    PROVE  EvidenceInv'
<1>1. \/ Evidence!AttachTokenizer \/ Evidence!PrivateOn \/ Evidence!PrivateOff
      \/ \E r \in Records : Evidence!Forget(r)
      \/ Evidence!Compact \/ Evidence!Navigate
      \/ Evidence!Settle \/ \E r \in Records : Evidence!ForgetDrops(r)
      \/ Evidence!Context
      \/ \E r \in Records : Evidence!Restore(r)
      \/ \E k \in Keys, kind \in Evidence!Kinds : Evidence!Input(k, kind)
      \/ \E i \in 1..Len(inputs) :
           \/ Evidence!Register(i) \/ Evidence!Degrade(i) \/ Evidence!Handled(i)
           \/ Evidence!BeforeAgentStart(i) \/ Evidence!Deliver(i)
           \/ \E r \in Records : Evidence!Hit(i, r)
  BY DEF Evidence!Next, Evidence!Step, Evidence!Ids
<1> QED
  BY <1>1, SwitchStep, CutStep, DroppedStep, ContextStep, RestoreStep, InputStep,
     RegisteredStep, HeldStep, RunStep, DeliverStep, HitStep

LEMMA EvidenceStutter ==
    ASSUME EvidenceInv, UNCHANGED injectionVars
    PROVE  EvidenceInv'
<1>1. UNCHANGED <<forgotten, forgetting, hushed, tokenizer, inputs, stage, cycle, pending,
                  consumed, seen, occurrences, context, run, calls, turns, packs, called,
                  banned, removed, dropped, cancelled, lost>>
  BY DEF injectionVars
<1>2. EvidenceTyped'
  BY <1>1 DEF EvidenceInv, EvidenceTyped
<1>3. ReplaysAreSeen'
  BY <1>1, ReplaysRest DEF EvidenceInv
<1> QED
  BY <1>1, <1>2, <1>3, PacksRest

LEMMA EvidenceStart ==
    ASSUME Evidence!Init
    PROVE  EvidenceInv
<1>1. /\ forgotten = {} /\ forgetting = {} /\ tokenizer = FALSE /\ hushed = FALSE /\ run = FALSE
      /\ inputs = <<>> /\ stage = <<>> /\ cycle = <<>> /\ banned = <<>>
      /\ pending = <<>> /\ consumed = {} /\ seen = <<>> /\ context = <<>>
      /\ calls = 0 /\ turns = 0 /\ packs = {} /\ called = {} /\ dropped = {} /\ lost = {}
      /\ occurrences = [c \in Keys \X Evidence!Kinds |-> 0]
  BY DEF Evidence!Init
<1>2. \A S : <<>> \in Seq(S) /\ Len(<<>>) = 0
  BY EmptySeq
<1>3. 1..0 = {} /\ MaxKeys \in Nat
  BY EvidenceBounds DEF EvidenceAssumptions, Evidence!BoundsAssumption
<1>4. EvidenceTyped
  <2>1. occurrences \in [Keys \X Evidence!Kinds -> Nat]
    BY <1>1
  <2>2. /\ hushed \in BOOLEAN /\ tokenizer \in BOOLEAN /\ run \in BOOLEAN
    BY <1>1, Zenon
  <2>3. /\ inputs \in Seq([key : Keys, kind : Evidence!Kinds]) /\ Len(inputs) <= MaxInputs
        /\ stage \in Seq(Stages) /\ Len(stage) = Len(inputs)
        /\ cycle \in Seq(SUBSET Records) /\ Len(cycle) = Len(inputs)
        /\ banned \in Seq(SUBSET Records) /\ Len(banned) = Len(inputs)
        /\ context \in Seq(1..Len(inputs))
    BY <1>1, <1>2, EvidenceBounds
  <2>4. calls \in 0..MaxQueries /\ turns \in 0..MaxTurns
    BY <1>1, EvidenceBounds
  <2> QED
    BY <1>1, <2>1, <2>2, <2>3, <2>4 DEF EvidenceTyped
<1>5. BarrierTyped
  BY <1>1, <1>2, <1>3 DEF BarrierTyped
<1>6. IdsIssued /\ OneFate /\ Readable
  BY <1>1, <1>2, <1>3 DEF IdsIssued, OneFate, Readable
<1>7. ReplaysAreSeen
  BY <1>1, <1>2, <1>3 DEF ReplaysAreSeen, LastCalled
<1> QED
  BY <1>4, <1>5, <1>6, <1>7 DEF EvidenceInv

LEMMA EvidenceHolds ==
    ASSUME EvidenceInv
    PROVE  Evidence!InjectionSafety
<1>1. /\ Len(inputs) \in Nat
      /\ DOMAIN inputs = 1..Len(inputs) /\ DOMAIN stage = 1..Len(inputs)
      /\ DOMAIN cycle = 1..Len(inputs) /\ DOMAIN seen = 1..Len(seen)
  BY LenProperties DEF EvidenceInv, EvidenceTyped, BarrierTyped
<1>2. Evidence!TypeOK
  <2>1. /\ forgotten \in SUBSET Records /\ forgetting \in SUBSET Records
        /\ inputs \in Seq([key : Keys, kind : Evidence!Kinds]) /\ Len(inputs) <= MaxInputs
        /\ cycle \in Seq(SUBSET Records) /\ DOMAIN cycle = Evidence!Ids
        /\ pending \in Seq(Evidence!Pack) /\ consumed \subseteq Keys \X Evidence!Kinds \X Nat
        /\ occurrences \in [Keys \X Evidence!Kinds -> Nat]
        /\ context \in Seq(Evidence!Ids) /\ calls \in 0..MaxQueries /\ turns \in 0..MaxTurns
    BY <1>1 DEF EvidenceInv, EvidenceTyped, IdsIssued, Evidence!Ids
  <2>2. stage \in Seq({"retrieving", "ready", "sent", "gone"}) /\ DOMAIN stage = Evidence!Ids
    BY <1>1 DEF EvidenceInv, EvidenceTyped, Stages, Evidence!Ids
  <2>3. hushed \in BOOLEAN /\ tokenizer \in BOOLEAN /\ run \in BOOLEAN
    BY Zenon DEF EvidenceInv, EvidenceTyped
  <2>4. Len(seen) <= MaxKeys
    BY DEF EvidenceInv, BarrierTyped
  <2>5. ASSUME NEW j \in DOMAIN seen
        PROVE  /\ seen[j].key \in Keys /\ Len(seen[j].counts) <= MaxCounts
               /\ Evidence!IsInjective(seen[j].counts)
    <3>1. seen[j] \in [key : Keys, counts : Seq(Nat)] /\ j \in 1..Len(seen)
      BY <1>1, <2>5, ElementOfSeq DEF EvidenceInv, BarrierTyped
    <3>2. seen[j].key \in Keys
      BY <3>1
    <3>3. Len(seen[j].counts) <= MaxCounts /\ Evidence!IsInjective(seen[j].counts)
      BY <3>1 DEF EvidenceInv, BarrierTyped
    <3> QED
      BY <3>2, <3>3
  <2> QED
    BY <2>1, <2>2, <2>3, <2>4, <2>5 DEF Evidence!TypeOK
<1>3. Evidence!ShownOnce /\ Evidence!NoReplayInjects
  BY DEF EvidenceInv, OneFate, Evidence!ShownOnce, Evidence!NoReplayInjects
<1>4. Evidence!EvidenceWasReadable /\ Evidence!NothingRefused
  BY DEF EvidenceInv, Readable, IdsIssued, Evidence!EvidenceWasReadable, Evidence!NothingRefused
<1> QED
  BY <1>2, <1>3, <1>4 DEF Evidence!InjectionSafety

\* Evidence reaches a prompt at most once, never after it was dropped and never on
\* a replay of its turn, whatever the barrier has forgotten; it holds what was read
\* back in its own cycle, and no pack is refused by the registry
\* (retrieval/coordinator.ts:89-96, 184-208, backend/guard.ts:106-160).
THEOREM InjectionIsSafe == MCSpec => []InjectionSafety
<1>1. MCInit => EvidenceInv
  BY EvidenceStart DEF MCInit
<1>2. EvidenceInv /\ [MCNext]_<<part, vars, proposalVars, injectionVars>> => EvidenceInv'
  BY EvidenceStep, EvidenceStutter DEF MCNext
<1>3. EvidenceInv => InjectionSafety
  BY EvidenceHolds DEF InjectionSafety
<1> QED
  BY <1>1, <1>2, <1>3, PTL DEF MCSpec
=============================================================================
