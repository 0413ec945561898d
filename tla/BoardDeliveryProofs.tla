------------------------- MODULE BoardDeliveryProofs -------------------------
(***************************************************************************)
(* Theorems of BoardDelivery, for any consumers, sessions, pollers, page   *)
(* sizes and bounds, whatever the lock does: the type invariant, that the  *)
(* cursor passes no message that is neither notified nor skipped, that a   *)
(* consumer is told once and its acknowledgements are kept, and that all   *)
(* this is a BoardMailbox.                                                 *)
(*                                                                         *)
(* CursorCovers is not inductive.  The invariant says it of every state    *)
(* that is or may be saved (Good: the entries, by which a cycle dedupes,   *)
(* are known too), and says of every cycle (Sound) that what its cursor    *)
(* passed is known already or still in the cycle's hands.  NoticesKept has *)
(* an invariant of its own, further down, and so have the refinement of    *)
(* the mailbox (MailInv) and the safety of the paged listings beside it,   *)
(* for any rows, limits and bounds (ListInv).                              *)
(***************************************************************************)
EXTENDS MCBoardDelivery, Integers, Sequences, FiniteSetTheorems, WellFoundedInduction, TLAPS

Known == notified \cup skipped

\* F is the feed and K the messages that were notified or skipped.
Passed(n, F, K) == \A i \in 1..Len(F) : i <= n => F[i] \in K

Good(s, F, K) ==
    /\ s \in State /\ s.seq <= Len(F)
    /\ Passed(s.seq, F, K) /\ Handled(s) \subseteq K

InHand(c) == c.todo \cup c.ok \cup c.bad

Sound(c, F, K) ==
    /\ c \in Cycle /\ c.pages < MaxPages /\ c.since <= Len(F) /\ c.seen <= Len(F)
    /\ c.at # "none" => c.rt \in Runtimes
    /\ Passed(c.seen, F, K \cup InHand(c))
    /\ c.at = "feed" => Passed(c.since, F, K \cup InHand(c))
    /\ c.at \in {"idle", "feed"} => c.ok = {} /\ c.bad = {}
    /\ c.at \in {"deliver", "record"} => c.todo = {} /\ c.bad = {}
    /\ c.at = "record" => c.msg \in K

IInv ==
    /\ TypeOK
    /\ Good(file, feed, Known)
    /\ \A r \in Runtimes : Good(mem[r], feed, Known)
    /\ \A p \in Pollers : Sound(run[p], feed, Known)

(****************************** the operators ******************************)

LEMMA GoodGrows ==
    ASSUME NEW s, NEW F, NEW K, NEW L, Good(s, F, K), K \subseteq L
    PROVE  Good(s, F, L)
BY DEF Good, Passed

LEMMA SoundGrows ==
    ASSUME NEW c, NEW F, NEW K, NEW L, Sound(c, F, K), K \subseteq L
    PROVE  Sound(c, F, L)
BY DEF Sound, Passed

LEMMA PassedAppend ==
    ASSUME NEW F \in Seq(Msgs), NEW m \in Msgs, NEW K, NEW n \in Nat,
           n <= Len(F), Passed(n, F, K)
    PROVE  n <= Len(Append(F, m)) /\ Passed(n, Append(F, m), K)
BY DEF Passed

LEMMA GoodAppend ==
    ASSUME NEW F \in Seq(Msgs), NEW m \in Msgs, NEW K, NEW s, Good(s, F, K)
    PROVE  Good(s, Append(F, m), K)
BY PassedAppend DEF Good, State

LEMMA SoundAppend ==
    ASSUME NEW F \in Seq(Msgs), NEW m \in Msgs, NEW K, NEW c, Sound(c, F, K)
    PROVE  Sound(c, Append(F, m), K)
<1>1. c.since \in Nat /\ c.seen \in Nat
  BY DEF Sound, Cycle
<1>2. /\ c.seen <= Len(Append(F, m)) /\ c.since <= Len(Append(F, m))
      /\ Passed(c.seen, Append(F, m), K \cup InHand(c))
      /\ c.at = "feed" => Passed(c.since, Append(F, m), K \cup InHand(c))
  <2>1. Passed(c.seen, Append(F, m), K \cup InHand(c)) /\ c.seen <= Len(Append(F, m))
    BY <1>1, PassedAppend DEF Sound
  <2>2. c.since <= Len(F)
    BY DEF Sound
  <2>3. c.since <= Len(Append(F, m))
    BY <1>1, <2>2
  <2>4. c.at = "feed" => Passed(c.since, Append(F, m), K \cup InHand(c))
    BY <1>1, PassedAppend DEF Sound
  <2> QED
    BY <2>1, <2>3, <2>4
<1> QED
  BY <1>2 DEF Sound

LEMMA FreshGood ==
    ASSUME NEW F \in Seq(Msgs), NEW K
    PROVE  Good(Fresh, F, K)
BY DEF Good, Passed, Fresh, State, Entries, Handled

LEMMA MarkGood ==
    ASSUME NEW F, NEW K, NEW s, Good(s, F, K), NEW M \in SUBSET Msgs,
           NEW e \in Entries, M \subseteq K \/ e = "none"
    PROVE  Good(Mark(s, M, e), F, K)
<1> DEFINE t == Mark(s, M, e)
<1>1. t \in State /\ t.seq = s.seq
  BY DEF Good, State, Mark
<1>2. \A m \in Msgs : t.entry[m] = IF m \in M THEN e ELSE s.entry[m]
  BY DEF Good, State, Mark
<1>3. Handled(t) \subseteq K
  BY <1>2 DEF Good, Handled
<1> QED
  BY <1>1, <1>3 DEF Good

LEMMA SettledType == \A s : Settled(s) \subseteq Msgs
BY DEF Settled, Handled

\* Whatever becomes of a write, only good states are left behind.
LEMMA WriteGood ==
    ASSUME NEW F, NEW K, NEW r \in Runtimes, NEW s, Good(s, F, K), TypeOK,
           Good(file, F, K), \A q \in Runtimes : Good(mem[q], F, K), Write(r, s)
    PROVE  /\ mem' \in [Runtimes -> State]
           /\ Good(file', F, K) /\ \A q \in Runtimes : Good(mem'[q], F, K)
           /\ upset' \in BOOLEAN /\ mishaps' \in Nat
<1>1. CASE Save(r, s)
  <2>1. PICK M \in SUBSET (IF Prunes THEN Settled(s) ELSE {}) :
            /\ mem' = [mem EXCEPT ![r] = Mark(s, M, "none")]
            /\ file' = Mark(s, M, "none")
            /\ upset' = (upset \/ M # {}) /\ mishaps' = mishaps
    BY <1>1 DEF Save, Stored
  <2>2. M \in SUBSET Msgs
    BY <2>1, SettledType
  <2>3. Good(Mark(s, M, "none"), F, K)
    BY <2>2, MarkGood DEF Entries
  <2>4. mem' \in [Runtimes -> State] /\ \A q \in Runtimes : Good(mem'[q], F, K)
    BY <2>1, <2>3 DEF TypeOK, Good
  <2> QED
    BY <2>1, <2>3, <2>4 DEF TypeOK
<1>2. CASE SaveThrows(r, s)
  <2>1. mem' = [mem EXCEPT ![r] = s] /\ file' \in {file, s} /\ upset' = TRUE
        /\ mishaps' = mishaps + 1
    BY <1>2 DEF SaveThrows
  <2>2. mem' \in [Runtimes -> State] /\ \A q \in Runtimes : Good(mem'[q], F, K)
    BY <2>1 DEF TypeOK, Good
  <2> QED
    BY <2>1, <2>2 DEF TypeOK
<1> QED
  BY <1>1, <1>2 DEF Write

LEMMA RestSound ==
    ASSUME NEW F \in Seq(Msgs), NEW K, NEW p, run[p].rt \in Runtimes
    PROVE  Sound(Rest(p), F, K) /\ Sound(NoCycle, F, K)
<1>1. NoCycle \in Cycle /\ [NoCycle EXCEPT !.at = "idle", !.rt = run[p].rt] \in Cycle
  BY BoardAssumption DEF NoCycle, Cycle, Phases
<1> QED
  BY <1>1, BoardAssumption DEF Rest, NoCycle, Sound, Passed

(******************************** the steps *********************************)

LEMMA Initially == Init => IInv
<1> SUFFICES ASSUME Init PROVE IInv
  OBVIOUS
<1> USE BoardAssumption
<1>1. Fresh \in State /\ Unlocked \in Lock /\ NoCycle \in Cycle
  BY DEF Fresh, State, Entries, Unlocked, Lock, NoCycle, Cycle, Phases
<1>2. feed \in Seq(Msgs) /\ Len(feed) = 0
  BY DEF Init
<1>3. TypeOK
  <2>1. \A p \in Pollers : run[p].pages < MaxPages /\ run[p].since <= Len(feed)
                                                   /\ run[p].seen <= Len(feed)
    BY <1>2 DEF Init, NoCycle
  <2> QED
    BY <1>1, <1>2, <2>1 DEF Init, TypeOK
<1>4. Good(Fresh, feed, Known)
  BY <1>2, FreshGood
<1>5. Sound(NoCycle, feed, Known)
  BY <1>1, <1>2 DEF Sound, Passed, NoCycle
<1> QED
  BY <1>3, <1>4, <1>5 DEF Init, IInv

LEMMA StepSound ==
    ASSUME IInv, NEW p \in Pollers, NEW c, Sound(c, feed, Known'),
           Known \subseteq Known', Step(p, c)
    PROVE  /\ run' \in [Pollers -> Cycle]
           /\ \A q \in Pollers : Sound(run'[q], feed, Known')
<1>1. run' = [run EXCEPT ![p] = c] /\ c \in Cycle /\ run \in [Pollers -> Cycle]
  BY DEF Step, Sound, IInv, TypeOK
<1>2. \A q \in Pollers : Sound(run[q], feed, Known')
  BY SoundGrows DEF IInv
<1> QED
  BY <1>1, <1>2

\* What the action of a cycle has to show.
LEMMA CycleKeepsInv ==
    ASSUME IInv, NEW p \in Pollers, NEW c, Step(p, c),
           Sound(c, feed, Known'), Known \subseteq Known',
           UNCHANGED <<feed, session>>,
           notified' \subseteq Msgs, skipped' \subseteq Msgs, failed' \subseteq Msgs,
           mem' \in [Runtimes -> State], upset' \in BOOLEAN, mishaps' \in Nat,
           Good(file', feed, Known'), \A r \in Runtimes : Good(mem'[r], feed, Known')
    PROVE  IInv'
<1>1. /\ run' \in [Pollers -> Cycle]
      /\ \A q \in Pollers : Sound(run'[q], feed, Known')
  BY StepSound
<1>2. feed' = feed /\ open' = open /\ holds' = holds /\ acq' = acq /\ lock' = lock
  BY DEF session
<1>3. file' \in State
  BY DEF Good
<1>4. \A q \in Pollers : run'[q].pages < MaxPages /\ run'[q].since <= Len(feed')
                                                  /\ run'[q].seen <= Len(feed')
  BY <1>1, <1>2 DEF Sound
<1>5. TypeOK'
  BY <1>1, <1>2, <1>3, <1>4 DEF TypeOK, IInv
<1> QED
  BY <1>1, <1>2, <1>5 DEF IInv

\* The steps that write nothing.
LEMMA QuietKeepsInv ==
    ASSUME IInv, NEW p \in Pollers, NEW c, Step(p, c), Sound(c, feed, Known),
           UNCHANGED quiet
    PROVE  IInv'
<1>1. /\ UNCHANGED <<feed, session>> /\ Known' = Known
      /\ notified' = notified /\ skipped' = skipped /\ failed' = failed
      /\ mem' = mem /\ file' = file /\ upset' = upset /\ mishaps' = mishaps
  BY DEF quiet, history, Known
<1> QED
  BY <1>1, CycleKeepsInv DEF IInv, TypeOK

LEMMA CycleType ==
    ASSUME IInv, NEW p \in Pollers
    PROVE  /\ run[p] \in Cycle /\ Sound(run[p], feed, Known)
           /\ run[p].at # "none" => run[p].rt \in Runtimes
           /\ feed \in Seq(Msgs) /\ Known \subseteq Msgs
BY DEF IInv, TypeOK, Known, Sound

\* What discovery dedupes is known; what it keeps is in hand.
LEMMA FoundCovers ==
    ASSUME IInv, NEW p \in Pollers, run[p].at # "none", NEW M \in SUBSET Msgs
    PROVE  Found(p, M) \subseteq Msgs /\ M \subseteq Known \cup Found(p, M)
BY CycleType DEF IInv, Good, Found

LEMMA DiscoveredSound ==
    ASSUME NEW F, NEW K, NEW c, c.at = "feed", Sound(c, F, K)
    PROVE  Sound(Discovered(c), F, K)
<1>1. c \in Cycle
  BY DEF Sound
<1>2. Discovered(c) \in Cycle
  BY <1>1 DEF Discovered, Cycle, Phases
<1>3. /\ Discovered(c).pages = 0 /\ Discovered(c).since = 0
      /\ Discovered(c).seen = c.seen /\ InHand(Discovered(c)) = InHand(c)
      /\ Discovered(c).rt = c.rt /\ Discovered(c).ok = c.ok
      /\ Discovered(c).bad = c.bad /\ Discovered(c).todo = c.todo
      /\ Discovered(c).at = IF c.todo = {} THEN "deliver" ELSE "read"
  BY <1>1 DEF Discovered, Cycle, InHand
<1>4. Len(F) >= 0
  BY <1>1 DEF Sound, Cycle
<1> QED
  BY <1>1, <1>2, <1>3, BoardAssumption DEF Sound, Cycle

LEMMA StartCycleKeeps ==
    ASSUME IInv, NEW p \in Pollers, StartCycle(p)
    PROVE  IInv'
<1> DEFINE s == mem[run[p].rt]
           c == [run[p] EXCEPT !.at = "feed", !.since = s.seq]
<1>1. run[p].at = "idle" /\ Step(p, c) /\ UNCHANGED quiet
  BY DEF StartCycle
<1>2. run[p] \in Cycle /\ Sound(run[p], feed, Known) /\ Good(s, feed, Known)
  BY <1>1, CycleType DEF IInv
<1>3. c \in Cycle
  BY <1>2 DEF Cycle, Phases, Good, State
<1>4. /\ c.at = "feed" /\ c.since = s.seq /\ c.seen = run[p].seen
      /\ c.pages = run[p].pages /\ c.rt = run[p].rt
      /\ c.ok = run[p].ok /\ c.bad = run[p].bad /\ InHand(c) = InHand(run[p])
  BY <1>2 DEF Cycle, InHand
<1> HIDE DEF c, s
<1>5. Sound(c, feed, Known)
  BY <1>1, <1>2, <1>3, <1>4 DEF Sound, Good, Passed
<1> QED
  BY <1>1, <1>5, QuietKeepsInv

LEMMA FeedReplyKeeps ==
    ASSUME IInv, NEW p \in Pollers, FeedReply(p)
    PROVE  IInv'
<1> DEFINE c == run[p]
           top == IF Len(feed) < c.since + PageSize THEN Len(feed) ELSE c.since + PageSize
           fetched == {feed[i] : i \in (c.since + 1)..top}
           d == [c EXCEPT !.since = top, !.seen = top, !.pages = @ + 1,
                          !.todo = @ \cup Found(p, fetched)]
<1> USE BoardAssumption
<1>1. /\ c.at = "feed" /\ UNCHANGED quiet
      /\ \/ Step(p, Discovered(c))
         \/ fetched # {} /\ Step(p, IF LastPage(d) THEN Discovered(d) ELSE d)
  BY DEF FeedReply
<1>2. c \in Cycle /\ Sound(c, feed, Known) /\ feed \in Seq(Msgs)
  BY CycleType
<1>3. CASE Step(p, Discovered(c))
  BY <1>1, <1>2, <1>3, DiscoveredSound, QuietKeepsInv
<1>4. CASE fetched # {} /\ Step(p, IF LastPage(d) THEN Discovered(d) ELSE d)
  <2>1. c.since \in Nat /\ c.pages \in Nat /\ c.since <= Len(feed) /\ c.pages < MaxPages
    BY <1>2 DEF Sound, Cycle
  <2>2. top \in Nat /\ top <= Len(feed) /\ c.since <= top
    BY <1>2, <2>1
  <2>3. fetched \subseteq Msgs
    BY <1>2, <2>1, <2>2
  <2>4. Found(p, fetched) \subseteq Msgs /\ fetched \subseteq Known \cup Found(p, fetched)
    BY <1>1, <2>3, FoundCovers
  <2>t. top \in Nat /\ Found(p, fetched) \in SUBSET Msgs /\ c.pages + 1 \in Nat
    BY <2>1, <2>2, <2>4
  <2> HIDE DEF top, fetched
  <2>5. d \in Cycle
    BY <1>2, <2>t DEF Cycle
  <2>6. /\ d.at = "feed" /\ d.since = top /\ d.seen = top /\ d.pages = c.pages + 1
        /\ d.rt = c.rt /\ d.ok = c.ok /\ d.bad = c.bad
        /\ d.todo = c.todo \cup Found(p, fetched)
    BY <1>1, <1>2 DEF Cycle
  <2>7. Passed(top, feed, Known \cup InHand(d))
    <3> SUFFICES ASSUME NEW i \in 1..Len(feed), i <= top
                 PROVE  feed[i] \in Known \cup InHand(d)
      BY DEF Passed
    <3>1. CASE i <= c.since
      BY <1>1, <1>2, <2>6, <3>1 DEF Sound, Passed, InHand
    <3>2. CASE ~(i <= c.since)
      <4>1. i \in (c.since + 1)..top
        BY <2>1, <2>2, <3>2
      <4>2. feed[i] \in fetched
        BY <4>1 DEF fetched
      <4> QED
        BY <4>2, <2>4, <2>6 DEF InHand
    <3> QED
      BY <3>1, <3>2
  <2> HIDE DEF d
  <2>8. \/ Sound(d, feed, Known)
        \/ LastPage(d)
    <3>1. ~LastPage(d) => d.pages < MaxPages
      BY <2>1, <2>6 DEF LastPage
    <3>2. InHand(d) = d.todo \cup d.ok \cup d.bad
      BY DEF InHand
    <3> QED
      BY <1>1, <1>2, <2>2, <2>5, <2>6, <2>7, <3>1 DEF Sound
  <2>9. Sound(Discovered(d), feed, Known)
    <3>1. Discovered(d) \in Cycle
      BY <2>5 DEF Discovered, Cycle, Phases
    <3>2. /\ Discovered(d).pages = 0 /\ Discovered(d).since = 0
          /\ Discovered(d).seen = top /\ InHand(Discovered(d)) = InHand(d)
          /\ Discovered(d).rt = c.rt /\ Discovered(d).ok = c.ok
          /\ Discovered(d).bad = c.bad /\ Discovered(d).todo = d.todo
          /\ Discovered(d).at = IF d.todo = {} THEN "deliver" ELSE "read"
      BY <2>5, <2>6 DEF Discovered, Cycle, InHand
    <3>3. Len(feed) \in Nat
      BY <1>2
    <3> QED
      BY <1>1, <1>2, <2>2, <2>7, <3>1, <3>2, <3>3 DEF Sound
  <2> QED
    BY <1>1, <1>4, <2>8, <2>9, QuietKeepsInv
<1> QED
  BY <1>1, <1>3, <1>4

LEMMA ListReplyKeeps ==
    ASSUME IInv, NEW p \in Pollers, ListReply(p)
    PROVE  IInv'
<1>1. PICK M \in SUBSET Posted :
          /\ run[p].at = "feed" /\ UNCHANGED quiet
          /\ Step(p, Discovered([run[p] EXCEPT !.todo = @ \cup Found(p, M)]))
  BY DEF ListReply
<1> DEFINE d == [run[p] EXCEPT !.todo = @ \cup Found(p, M)]
<1>2. run[p] \in Cycle /\ Sound(run[p], feed, Known) /\ feed \in Seq(Msgs)
  BY CycleType
<1>3. M \in SUBSET Msgs
  BY <1>2 DEF Posted
<1>4. Found(p, M) \subseteq Msgs
  BY <1>1, <1>3, FoundCovers
<1>5. d \in Cycle
  BY <1>2, <1>4 DEF Cycle
<1>6. /\ d.at = "feed" /\ d.since = run[p].since /\ d.seen = run[p].seen
      /\ d.pages = run[p].pages /\ d.rt = run[p].rt
      /\ d.ok = run[p].ok /\ d.bad = run[p].bad
      /\ InHand(run[p]) \subseteq InHand(d)
  BY <1>1, <1>2 DEF Cycle, InHand
<1> HIDE DEF d
<1>7. Sound(d, feed, Known)
  BY <1>1, <1>2, <1>5, <1>6 DEF Sound, Passed
<1> QED
  BY <1>1, <1>6, <1>7, DiscoveredSound, QuietKeepsInv DEF d

LEMMA AbandonKeeps ==
    ASSUME IInv, NEW p \in Pollers, Abandon(p)
    PROVE  IInv'
<1>1. run[p].at \in {"feed", "read"} /\ Step(p, Rest(p)) /\ UNCHANGED quiet
  BY DEF Abandon
<1>2. Sound(Rest(p), feed, Known)
  BY <1>1, CycleType, RestSound
<1> QED
  BY <1>1, <1>2, QuietKeepsInv

\* A write of a cycle's runtime, after which the cycle is c.
LEMMA WriteKeepsInv ==
    ASSUME IInv, NEW p \in Pollers, NEW r \in Runtimes, NEW s, NEW c,
           Write(r, s), Step(p, c), Known \subseteq Known',
           Good(s, feed, Known'), Sound(c, feed, Known'),
           UNCHANGED <<feed, session>>,
           notified' \subseteq Msgs, skipped' \subseteq Msgs, failed' \subseteq Msgs
    PROVE  IInv'
<1>1. Good(file, feed, Known') /\ \A q \in Runtimes : Good(mem[q], feed, Known')
  BY GoodGrows DEF IInv
<1>2. TypeOK
  BY DEF IInv
<1>3. /\ mem' \in [Runtimes -> State]
      /\ Good(file', feed, Known') /\ \A q \in Runtimes : Good(mem'[q], feed, Known')
      /\ upset' \in BOOLEAN /\ mishaps' \in Nat
  BY <1>1, <1>2, WriteGood
<1> QED
  BY <1>3, CycleKeepsInv

LEMMA SkipKeeps ==
    ASSUME IInv, NEW p \in Pollers, NEW c, Skip(p, c),
           Sound(c, feed, Known), c.at = "read", c.todo = {}, c.rt = run[p].rt,
           UNCHANGED <<feed, session, notified>>, failed' \subseteq Msgs
    PROVE  IInv'
<1> DEFINE over == [c EXCEPT !.at = "deliver", !.bad = {}]
<1>1. c \in Cycle /\ c.rt \in Runtimes /\ c.bad \subseteq Msgs
  BY DEF Sound, Cycle
<1>2. /\ over \in Cycle /\ over.at = "deliver" /\ over.bad = {} /\ over.todo = {}
      /\ over.ok = c.ok /\ over.seen = c.seen /\ over.since = c.since
      /\ over.pages = c.pages /\ over.rt = c.rt
  BY <1>1 DEF Cycle, Phases
<1>3. notified \subseteq Msgs /\ skipped \subseteq Msgs /\ TypeOK
  BY DEF IInv, TypeOK
<1>4. CASE /\ c.bad = {} /\ Step(p, [c EXCEPT !.at = "deliver"])
           /\ UNCHANGED <<file, mem, skipped, upset, mishaps>>
  <2>1. [c EXCEPT !.at = "deliver"] = over
    BY <1>1, <1>4 DEF Cycle
  <2>2. Known' = Known
    BY <1>4 DEF Known
  <2>3. Sound(over, feed, Known)
    BY <1>2, <1>4 DEF Sound, Passed, InHand
  <2> HIDE DEF over
  <2> QED
    BY <1>3, <1>4, <2>1, <2>2, <2>3, CycleKeepsInv DEF IInv, TypeOK
<1>5. CASE /\ c.bad # {} /\ Step(p, over)
           /\ Save(c.rt, Mark(mem[c.rt], c.bad, "skipped"))
           /\ skipped' = skipped \cup c.bad
  <2>1. Known' = Known \cup c.bad
    BY <1>5 DEF Known
  <2>2. Good(Mark(mem[c.rt], c.bad, "skipped"), feed, Known')
    <3>1. Good(mem[c.rt], feed, Known')
      BY <1>1, <2>1, GoodGrows DEF IInv
    <3> QED
      BY <1>1, <2>1, <3>1, MarkGood DEF Entries
  <2>3. Sound(over, feed, Known')
    BY <1>2, <2>1 DEF Sound, Passed, InHand
  <2> HIDE DEF over
  <2> QED
    BY <1>1, <1>3, <1>5, <2>1, <2>2, <2>3, WriteKeepsInv DEF Write
<1>6. ASSUME NEW M \in SUBSET c.bad \ {{}},
             SaveThrows(c.rt, Mark(mem[c.rt], M, "skipped")), Step(p, Rest(p)),
             skipped' = skipped \cup M
      PROVE  IInv'
  <2>1. Known' = Known \cup M
    BY <1>6 DEF Known
  <2>2. Good(Mark(mem[c.rt], M, "skipped"), feed, Known')
    <3>1. Good(mem[c.rt], feed, Known')
      BY <1>1, <2>1, GoodGrows DEF IInv
    <3> QED
      BY <1>1, <2>1, <3>1, MarkGood DEF Entries
  <2>3. Sound(Rest(p), feed, Known')
    BY <1>1, CycleType, RestSound
  <2> QED
    BY <1>1, <1>3, <1>6, <2>1, <2>2, <2>3, WriteKeepsInv DEF Write
<1> QED
  BY <1>4, <1>5, <1>6 DEF Skip

LEMMA ReadReplyKeeps ==
    ASSUME IInv, NEW p \in Pollers, NEW m \in Msgs, ReadReply(p, m)
    PROVE  IInv'
<1> DEFINE c == [run[p] EXCEPT !.todo = @ \ {m}]
           good == [c EXCEPT !.ok = @ \cup {m}]
           bad == [c EXCEPT !.bad = @ \cup {m}]
           Go(d) == IF d.todo = {} THEN Skip(p, d)
                    ELSE Step(p, d) /\ UNCHANGED <<file, mem, skipped, upset, mishaps>>
<1>1. /\ run[p].at = "read" /\ m \in run[p].todo
      /\ Go(good) \/ Go(bad)
      /\ failed' = failed \/ failed' = failed \cup {m}
      /\ UNCHANGED <<feed, session, notified>>
  BY DEF ReadReply
<1>2. run[p] \in Cycle /\ Sound(run[p], feed, Known) /\ failed' \subseteq Msgs
  BY <1>1, CycleType DEF IInv, TypeOK
<1>c. /\ c \in Cycle /\ c.at = "read" /\ c.since = run[p].since /\ c.seen = run[p].seen
      /\ c.pages = run[p].pages /\ c.rt = run[p].rt /\ c.todo = run[p].todo \ {m}
      /\ c.ok = run[p].ok /\ c.bad = run[p].bad
  BY <1>1, <1>2 DEF Cycle
<1>3. ASSUME NEW d \in {good, bad}
      PROVE  /\ Sound(d, feed, Known) /\ d.at = "read" /\ d.rt = run[p].rt
  <2> HIDE DEF c
  <2>1. good \in Cycle /\ bad \in Cycle
    BY <1>c DEF Cycle
  <2>2. /\ good.at = "read" /\ good.since = run[p].since /\ good.seen = run[p].seen
        /\ good.pages = run[p].pages /\ good.rt = run[p].rt
        /\ good.todo = run[p].todo \ {m} /\ good.ok = run[p].ok \cup {m}
        /\ good.bad = run[p].bad
    BY <1>c DEF Cycle
  <2>3. /\ bad.at = "read" /\ bad.since = run[p].since /\ bad.seen = run[p].seen
        /\ bad.pages = run[p].pages /\ bad.rt = run[p].rt
        /\ bad.todo = run[p].todo \ {m} /\ bad.bad = run[p].bad \cup {m}
        /\ bad.ok = run[p].ok
    BY <1>c DEF Cycle
  <2> HIDE DEF good, bad
  <2>4. /\ d \in Cycle /\ d.at = "read" /\ d.since = run[p].since
        /\ d.seen = run[p].seen /\ d.pages = run[p].pages /\ d.rt = run[p].rt
        /\ InHand(run[p]) \subseteq InHand(d)
    BY <1>3, <2>1, <2>2, <2>3 DEF InHand
  <2> QED
    BY <1>1, <1>2, <2>4 DEF Sound, Passed
<1>4. PICK d \in {good, bad} : Go(d)
  BY <1>1
<1> HIDE DEF good, bad
<1>5. Sound(d, feed, Known) /\ d.at = "read" /\ d.rt = run[p].rt
  BY <1>3
<1>6. CASE d.todo = {}
  <2>1. Skip(p, d)
    BY <1>4, <1>6
  <2> QED
    BY <1>1, <1>2, <1>5, <1>6, <2>1, SkipKeeps
<1>7. CASE d.todo # {}
  <2>1. Step(p, d) /\ UNCHANGED <<file, mem, skipped, upset, mishaps>>
    BY <1>4, <1>7
  <2>2. Known' = Known
    BY <1>1, <2>1 DEF Known
  <2> QED
    BY <1>1, <1>2, <1>5, <2>1, <2>2, CycleKeepsInv DEF IInv, TypeOK
<1> QED
  BY <1>6, <1>7

LEMMA ReadPauseKeeps ==
    ASSUME IInv, NEW p \in Pollers, ReadPause(p)
    PROVE  IInv'
<1> DEFINE c == [Paused(run[p]) EXCEPT !.todo = {}]
<1>1. /\ run[p].at = "read" /\ Skip(p, c) /\ UNCHANGED <<feed, session, notified, failed>>
  BY DEF ReadPause
<1>2. run[p] \in Cycle /\ Sound(run[p], feed, Known)
  BY CycleType
<1>3. c \in Cycle
  BY <1>2 DEF Cycle, Paused
<1>4. /\ c.at = "read" /\ c.seen = 0 /\ c.since = run[p].since /\ c.todo = {}
      /\ c.pages = run[p].pages /\ c.rt = run[p].rt
  BY <1>1, <1>2 DEF Cycle, Paused
<1> HIDE DEF c
<1>5. Sound(c, feed, Known)
  <2>1. Len(feed) \in Nat
    BY CycleType
  <2> QED
    BY <1>1, <1>2, <1>3, <1>4, <2>1 DEF Sound, Passed
<1> QED
  BY <1>1, <1>4, <1>5, SkipKeeps DEF IInv, TypeOK

LEMMA DeliverKeeps ==
    ASSUME IInv, NEW p \in Pollers, NEW m \in Msgs, Deliver(p, m)
    PROVE  IInv'
<1> DEFINE d == [run[p] EXCEPT !.at = "record", !.ok = @ \ {m}, !.msg = m]
<1>1. /\ run[p].at = "deliver" /\ m \in run[p].ok /\ Step(p, d)
      /\ notified' = notified \cup {m}
      /\ UNCHANGED <<feed, file, mem, session, skipped, failed, upset, mishaps>>
  BY DEF Deliver
<1>2. run[p] \in Cycle /\ Sound(run[p], feed, Known)
  BY CycleType
<1>3. d \in Cycle
  BY <1>2 DEF Cycle, Phases
<1>4. /\ d.at = "record" /\ d.since = run[p].since /\ d.seen = run[p].seen
      /\ d.pages = run[p].pages /\ d.rt = run[p].rt /\ d.msg = m
      /\ d.todo = run[p].todo /\ d.bad = run[p].bad /\ d.ok = run[p].ok \ {m}
  BY <1>2 DEF Cycle
<1>5. Known' = Known \cup {m}
  BY <1>1 DEF Known
<1> HIDE DEF d
<1>6. Sound(d, feed, Known')
  BY <1>1, <1>2, <1>3, <1>4, <1>5 DEF Sound, Passed, InHand
<1>7. Good(file, feed, Known') /\ \A r \in Runtimes : Good(mem[r], feed, Known')
  BY <1>5, GoodGrows DEF IInv
<1> QED
  BY <1>1, <1>5, <1>6, <1>7, CycleKeepsInv DEF IInv, TypeOK

LEMMA DeliverPauseKeeps ==
    ASSUME IInv, NEW p \in Pollers, DeliverPause(p)
    PROVE  IInv'
<1> DEFINE c == [Paused(run[p]) EXCEPT !.ok = {}]
<1>1. run[p].at = "deliver" /\ Step(p, c) /\ UNCHANGED quiet
  BY DEF DeliverPause
<1>2. run[p] \in Cycle /\ Sound(run[p], feed, Known)
  BY CycleType
<1>3. c \in Cycle
  BY <1>2 DEF Cycle, Paused
<1>4. /\ c.at = "deliver" /\ c.seen = 0 /\ c.since = run[p].since
      /\ c.todo = run[p].todo /\ c.bad = run[p].bad
      /\ c.pages = run[p].pages /\ c.rt = run[p].rt
  BY <1>1, <1>2 DEF Cycle, Paused
<1> HIDE DEF c
<1>5. Sound(c, feed, Known)
  <2>1. Len(feed) \in Nat
    BY CycleType
  <2> QED
    BY <1>1, <1>2, <1>3, <1>4, <2>1 DEF Sound, Passed
<1> QED
  BY <1>1, <1>5, QuietKeepsInv

LEMMA RecordKeeps ==
    ASSUME IInv, NEW p \in Pollers, Record(p)
    PROVE  IInv'
<1> DEFINE c == run[p]
           s == Mark(mem[c.rt], {c.msg}, "delivered")
           d == [c EXCEPT !.at = "deliver", !.msg = NoMsg]
<1>1. /\ c.at = "record" /\ UNCHANGED <<feed, session, history>>
      /\ Write(c.rt, s) /\ (Step(p, d) \/ Step(p, Rest(p)))
  BY DEF Record, Write
<1>2. c \in Cycle /\ Sound(c, feed, Known) /\ c.rt \in Runtimes /\ c.msg \in Known
  BY <1>1, CycleType DEF Sound
<1>3. /\ Known' = Known /\ notified' = notified /\ skipped' = skipped
      /\ failed' = failed
  BY <1>1 DEF Known, history
<1>4. Good(s, feed, Known)
  <2>1. {c.msg} \in SUBSET Msgs /\ {c.msg} \subseteq Known
    BY <1>2, CycleType
  <2> QED
    BY <1>2, <2>1, MarkGood DEF IInv, Entries
<1>5. Sound(d, feed, Known)
  <2>1. d \in Cycle
    BY <1>2 DEF Cycle, Phases
  <2>2. /\ d.at = "deliver" /\ d.since = c.since /\ d.seen = c.seen
        /\ d.pages = c.pages /\ d.rt = c.rt
        /\ d.todo = c.todo /\ d.bad = c.bad /\ d.ok = c.ok
    BY <1>2 DEF Cycle
  <2> HIDE DEF d
  <2> QED
    BY <1>1, <1>2, <2>1, <2>2 DEF Sound, Passed, InHand
<1>6. Sound(Rest(p), feed, Known)
  BY <1>2, CycleType, RestSound
<1> HIDE DEF s, d
<1> QED
  BY <1>1, <1>2, <1>3, <1>4, <1>5, <1>6, WriteKeepsInv DEF IInv, TypeOK

\* Nothing is in the hands of a cycle that moves the cursor.
LEMMA EndCycleKeeps ==
    ASSUME IInv, NEW p \in Pollers, EndCycle(p)
    PROVE  IInv'
<1> DEFINE c == run[p]
           s == [mem[c.rt] EXCEPT !.seq = c.seen]
<1>1. /\ c.at = "deliver" /\ c.ok = {} /\ Step(p, Rest(p))
      /\ UNCHANGED <<feed, session, history>>
      /\ IF c.seen # 0 THEN Write(c.rt, s) ELSE UNCHANGED <<file, mem, upset, mishaps>>
  BY DEF EndCycle
<1>2. c \in Cycle /\ Sound(c, feed, Known) /\ c.rt \in Runtimes
  BY <1>1, CycleType
<1>3. /\ Known' = Known /\ notified' = notified /\ skipped' = skipped
      /\ failed' = failed
  BY <1>1 DEF Known, history
<1>4. Sound(Rest(p), feed, Known)
  BY <1>2, CycleType, RestSound
<1>5. CASE c.seen # 0
  <2>1. Write(c.rt, s)
    BY <1>1, <1>5
  <2>2. Good(mem[c.rt], feed, Known)
    BY <1>2 DEF IInv
  <2>3. Passed(c.seen, feed, Known) /\ c.seen <= Len(feed) /\ c.seen \in Nat
    BY <1>1, <1>2 DEF Sound, Passed, InHand, Cycle
  <2>4. s \in State /\ s.seq = c.seen /\ s.entry = mem[c.rt].entry
    BY <2>2, <2>3 DEF Good, State
  <2> HIDE DEF s
  <2>5. Good(s, feed, Known)
    BY <2>2, <2>3, <2>4 DEF Good, Handled
  <2> QED
    BY <1>1, <1>2, <1>3, <1>4, <2>1, <2>5, WriteKeepsInv DEF IInv, TypeOK
<1>6. CASE c.seen = 0
  BY <1>1, <1>3, <1>4, <1>6, CycleKeepsInv DEF IInv, TypeOK
<1> QED
  BY <1>5, <1>6

LEMMA CycleStepKeeps ==
    ASSUME IInv, NEW p \in Pollers, CycleStep(p)
    PROVE  IInv'
BY StartCycleKeeps, FeedReplyKeeps, ListReplyKeeps, AbandonKeeps,
   ReadPauseKeeps, DeliverPauseKeeps, RecordKeeps, EndCycleKeeps,
   ReadReplyKeeps, DeliverKeeps DEF CycleStep

\* What the action of a session has to show.
LEMMA SessionKeepsInv ==
    ASSUME IInv, UNCHANGED <<feed, history>>,
           mem' \in [Runtimes -> State], run' \in [Pollers -> Cycle],
           lock' \in Lock, open' \subseteq Runtimes, holds' \subseteq Runtimes,
           acq' \in [Runtimes -> {"no", "break", "retry", "pid"}],
           upset' \in BOOLEAN, mishaps' \in Nat,
           Good(file', feed, Known), \A r \in Runtimes : Good(mem'[r], feed, Known),
           \A p \in Pollers : Sound(run'[p], feed, Known)
    PROVE  IInv'
<1>1. /\ feed' = feed /\ notified' = notified /\ skipped' = skipped
      /\ failed' = failed /\ Known' = Known
  BY DEF history, Known
<1>2. file' \in State
  BY DEF Good
<1>3. \A p \in Pollers : run'[p].pages < MaxPages /\ run'[p].since <= Len(feed')
                                                  /\ run'[p].seen <= Len(feed')
  BY <1>1 DEF Sound
<1>4. TypeOK'
  BY <1>1, <1>2, <1>3 DEF TypeOK, IInv
<1> QED
  BY <1>1, <1>4 DEF IInv

\* A write of a command or a tool.
LEMMA CallKeepsInv ==
    ASSUME IInv, NEW r \in Runtimes, NEW s, Good(s, feed, Known), Write(r, s),
           UNCHANGED <<feed, session, run, history>>
    PROVE  IInv'
<1>1. /\ mem' \in [Runtimes -> State]
      /\ Good(file', feed, Known) /\ \A q \in Runtimes : Good(mem'[q], feed, Known)
      /\ upset' \in BOOLEAN /\ mishaps' \in Nat
  BY WriteGood DEF IInv
<1>2. open' = open /\ holds' = holds /\ acq' = acq /\ lock' = lock /\ run' = run
  BY DEF session
<1> QED
  BY <1>1, <1>2, SessionKeepsInv DEF IInv, TypeOK

LEMMA AckKeeps ==
    ASSUME IInv, NEW r \in Runtimes, NEW m \in Msgs, Ack(r, m)
    PROVE  IInv'
<1> DEFINE s == Mark(mem[r], {m}, "acked")
<1>1. m \in Handled(mem[r]) /\ Write(r, s) /\ UNCHANGED <<feed, session, run, history>>
  BY DEF Ack
<1>2. Good(mem[r], feed, Known)
  BY DEF IInv
<1>3. {m} \subseteq Known
  BY <1>1, <1>2 DEF Good
<1>4. Good(s, feed, Known)
  BY <1>2, <1>3, MarkGood DEF Entries
<1> HIDE DEF s
<1> QED
  BY <1>1, <1>4, CallKeepsInv

LEMMA GcKeeps ==
    ASSUME IInv, NEW r \in Runtimes, Gc(r)
    PROVE  IInv'
<1>1. PICK M \in SUBSET Settled(mem[r]) :
          \/ Stored(r, Mark(mem[r], M, "none"), TRUE)
          \/ SaveThrows(r, Mark(mem[r], M, "none"))
  BY DEF Gc
<1> DEFINE s == Mark(mem[r], M, "none")
<1>2. Good(mem[r], feed, Known) /\ UNCHANGED <<feed, session, run, history>>
  BY DEF IInv, Gc
<1>3. M \in SUBSET Msgs
  BY SettledType
<1>4. Good(s, feed, Known)
  BY <1>2, <1>3, MarkGood DEF Entries
<1> HIDE DEF s
<1>5. CASE SaveThrows(r, s)
  BY <1>2, <1>4, <1>5, CallKeepsInv DEF Write
<1>6. CASE Stored(r, s, TRUE)
  <2>1. mem' = [mem EXCEPT ![r] = s] /\ file' = s /\ upset' \in BOOLEAN
        /\ mishaps' = mishaps
    BY <1>6 DEF Stored
  <2>2. open' = open /\ holds' = holds /\ acq' = acq /\ lock' = lock /\ run' = run
    BY <1>2 DEF session
  <2>3. mem' \in [Runtimes -> State] /\ \A q \in Runtimes : Good(mem'[q], feed, Known)
    BY <1>4, <2>1 DEF IInv, TypeOK, Good
  <2> QED
    BY <1>2, <1>4, <2>1, <2>2, <2>3, SessionKeepsInv DEF IInv, TypeOK
<1> QED
  BY <1>1, <1>5, <1>6 DEF s

LEMMA LockType ==
    ASSUME IInv, NEW r \in Runtimes
    PROVE  Released(r) \in Lock /\ Unlocked \in Lock
           /\ [by |-> r, pid |-> FALSE, live |-> TRUE] \in Lock
BY DEF IInv, TypeOK, Released, Unlocked, Lock

LEMMA StoppedSound ==
    ASSUME IInv, NEW r \in Runtimes
    PROVE  /\ Stopped(r) \in [Pollers -> Cycle]
           /\ \A p \in Pollers : Sound(Stopped(r)[p], feed, Known)
<1> SUFFICES ASSUME NEW p \in Pollers
             PROVE  Stopped(r)[p] \in Cycle /\ Sound(Stopped(r)[p], feed, Known)
  BY DEF Stopped
<1>1. run[p] \in Cycle /\ Sound(run[p], feed, Known) /\ feed \in Seq(Msgs)
  BY CycleType
<1> DEFINE d == [run[p] EXCEPT !.stopped = TRUE]
<1>2. d \in Cycle
  BY <1>1 DEF Cycle
<1>3. /\ d.at = run[p].at /\ d.since = run[p].since /\ d.seen = run[p].seen
      /\ d.pages = run[p].pages /\ d.rt = run[p].rt /\ d.msg = run[p].msg
      /\ d.todo = run[p].todo /\ d.bad = run[p].bad /\ d.ok = run[p].ok
  BY <1>1 DEF Cycle
<1> HIDE DEF d
<1>4. Sound(d, feed, Known)
  BY <1>1, <1>2, <1>3 DEF Sound, Passed, InHand
<1>5. p \in PollersOf(r) => Sound(NoCycle, feed, Known)
  BY <1>1, RestSound DEF PollersOf
<1>6. NoCycle \in Cycle
  BY BoardAssumption DEF NoCycle, Cycle, Phases
<1> QED
  BY <1>1, <1>2, <1>4, <1>5, <1>6 DEF Stopped, d

LEMMA AttemptType ==
    ASSUME IInv, NEW r \in Runtimes, NEW l \in Lock, NEW left \in Lock,
           NEW goOn \in {"no", "break"}, Attempt(r, l, left, goOn)
    PROVE  lock' \in Lock /\ acq' \in [Runtimes -> {"no", "break", "retry", "pid"}]
<1>1. acq \in [Runtimes -> {"no", "break", "retry", "pid"}]
  BY DEF IInv, TypeOK
<1>2. [by |-> r, pid |-> FALSE, live |-> TRUE] \in Lock
  BY LockType
<1> QED
  BY <1>1, <1>2 DEF Attempt

LEMMA BuildKeeps ==
    ASSUME IInv, NEW r \in Runtimes, Build(r)
    PROVE  IInv'
<1>1. /\ mem' = [mem EXCEPT ![r] = file] /\ open' = open \cup {r}
      /\ upset' \in BOOLEAN
      /\ UNCHANGED <<feed, file, holds, acq, lock, run, history, mishaps>>
  BY DEF Build, IInv, TypeOK
<1>2. mem' \in [Runtimes -> State] /\ \A q \in Runtimes : Good(mem'[q], feed, Known)
  BY <1>1 DEF IInv, TypeOK
<1> QED
  BY <1>1, <1>2, SessionKeepsInv DEF IInv, TypeOK

LEMMA StopKeeps ==
    ASSUME IInv, NEW r \in Runtimes, Stop(r)
    PROVE  IInv'
<1>1. /\ run' = Stopped(r) /\ lock' = Released(r) /\ holds' = holds \ {r}
      /\ UNCHANGED <<feed, file, mem, open, acq, history, upset, mishaps>>
  BY DEF Stop
<1> QED
  BY <1>1, StoppedSound, LockType, SessionKeepsInv DEF IInv, TypeOK

LEMMA ShutdownKeeps ==
    ASSUME IInv, NEW r \in Runtimes, Shutdown(r)
    PROVE  IInv'
<1>1. /\ run' = Stopped(r) /\ lock' = Released(r) /\ holds' = holds \ {r}
      /\ open' = open \ {r} /\ mem' \in {mem, [mem EXCEPT ![r] = Fresh]}
      /\ UNCHANGED <<feed, file, acq, history, upset, mishaps>>
  BY DEF Shutdown
<1>2. Good(Fresh, feed, Known) /\ Fresh \in State
  BY FreshGood DEF IInv, TypeOK, Good
<1>3. mem' \in [Runtimes -> State] /\ \A q \in Runtimes : Good(mem'[q], feed, Known)
  BY <1>1, <1>2 DEF IInv, TypeOK
<1> QED
  BY <1>1, <1>3, StoppedSound, LockType, SessionKeepsInv DEF IInv, TypeOK

LEMMA StartKeeps ==
    ASSUME IInv, NEW r \in Runtimes, Start(r)
    PROVE  IInv'
<1>1. /\ run' = Stopped(r) /\ holds' = holds \ {r}
      /\ Attempt(r, Released(r), Released(r), "break") /\ upset' \in BOOLEAN
      /\ UNCHANGED <<feed, file, mem, open, history, mishaps>>
  BY DEF Start, IInv, TypeOK
<1>2. lock' \in Lock /\ acq' \in [Runtimes -> {"no", "break", "retry", "pid"}]
  BY <1>1, LockType, AttemptType
<1> QED
  BY <1>1, <1>2, StoppedSound, SessionKeepsInv DEF IInv, TypeOK

LEMMA AcquireKeeps ==
    ASSUME IInv, NEW r \in Runtimes, BreakLock(r) \/ Retry(r)
    PROVE  IInv'
<1>1. UNCHANGED <<feed, file, mem, open, holds, run, history, upset, mishaps>>
  BY DEF BreakLock, Retry
<1>2. lock' \in Lock /\ acq' \in [Runtimes -> {"no", "break", "retry", "pid"}]
  <2>1. CASE BreakLock(r)
    BY <2>1, LockType DEF BreakLock, IInv, TypeOK
  <2>2. CASE Retry(r)
    <3>1. lock \in Lock /\ Attempt(r, lock, Unlocked, "no")
      BY <2>2 DEF Retry, IInv, TypeOK
    <3> QED
      BY <3>1, LockType, AttemptType
  <2> QED
    BY <2>1, <2>2
<1> QED
  BY <1>1, <1>2, SessionKeepsInv DEF IInv, TypeOK

LEMMA LockedKeeps ==
    ASSUME IInv, NEW r \in Runtimes, Locked(r)
    PROVE  IInv'
<1> DEFINE d == [NoCycle EXCEPT !.at = "idle", !.rt = r]
<1>1. PICK p \in Pollers : Step(p, d)
  BY DEF Locked
<1>2. /\ lock' = IF lock.by = r THEN [lock EXCEPT !.pid = TRUE] ELSE lock
      /\ acq' = [acq EXCEPT ![r] = "no"] /\ holds' = holds \cup {r}
      /\ UNCHANGED <<feed, file, mem, open, history, upset, mishaps>>
  BY DEF Locked
<1>3. lock' \in Lock /\ acq' \in [Runtimes -> {"no", "break", "retry", "pid"}]
  BY <1>2 DEF IInv, TypeOK, Lock
<1>4. d \in Cycle
  BY BoardAssumption DEF NoCycle, Cycle, Phases
<1>5. Sound(d, feed, Known)
  <2>1. Len(feed) \in Nat
    BY CycleType
  <2> QED
    BY <1>4, <2>1, BoardAssumption DEF NoCycle, Sound, Passed
<1>6. run' \in [Pollers -> Cycle] /\ \A q \in Pollers : Sound(run'[q], feed, Known)
  BY <1>1, <1>4, <1>5 DEF Step, IInv, TypeOK
<1> HIDE DEF d
<1> QED
  BY <1>2, <1>3, <1>6, SessionKeepsInv DEF IInv, TypeOK

LEMMA SessionStepKeeps ==
    ASSUME IInv, NEW r \in Runtimes, SessionStep(r)
    PROVE  IInv'
BY BuildKeeps, StopKeeps, ShutdownKeeps, StartKeeps, AcquireKeeps, LockedKeeps,
   GcKeeps, AckKeeps DEF SessionStep

LEMMA CrashKeeps ==
    ASSUME IInv, NEW R \in SUBSET Runtimes, Crash(R)
    PROVE  IInv'
<1>1. /\ mishaps' = mishaps + 1 /\ open' = open \ R /\ holds' = holds \ R
      /\ acq' = [r \in Runtimes |-> IF r \in R THEN "no" ELSE acq[r]]
      /\ mem' = [r \in Runtimes |-> IF r \in R THEN Fresh ELSE mem[r]]
      /\ lock' = IF lock.by \in R THEN [lock EXCEPT !.live = FALSE] ELSE lock
      /\ run' = [p \in Pollers |-> IF run[p].rt \in R THEN NoCycle ELSE run[p]]
      /\ upset' \in BOOLEAN /\ UNCHANGED <<feed, file, history>>
  BY DEF Crash, IInv, TypeOK
<1>2. Good(Fresh, feed, Known) /\ Fresh \in State
  BY FreshGood DEF IInv, TypeOK, Good
<1>3. mem' \in [Runtimes -> State] /\ \A q \in Runtimes : Good(mem'[q], feed, Known)
  BY <1>1, <1>2 DEF IInv, TypeOK
<1>4. \A p \in Pollers : run[p].rt \in R => Sound(NoCycle, feed, Known)
  BY CycleType, RestSound
<1>5. NoCycle \in Cycle
  BY BoardAssumption DEF NoCycle, Cycle, Phases
<1>6. run' \in [Pollers -> Cycle] /\ \A p \in Pollers : Sound(run'[p], feed, Known)
  BY <1>1, <1>4, <1>5 DEF IInv, TypeOK
<1>7. lock' \in Lock /\ acq' \in [Runtimes -> {"no", "break", "retry", "pid"}]
  BY <1>1 DEF IInv, TypeOK, Lock
<1> QED
  BY <1>1, <1>3, <1>6, <1>7, SessionKeepsInv DEF IInv, TypeOK

LEMMA PostKeeps ==
    ASSUME IInv, NEW m \in Msgs, Post(m)
    PROVE  IInv'
<1>1. /\ feed' = Append(feed, m) /\ feed \in Seq(Msgs)
      /\ UNCHANGED <<file, mem, session, run, history, upset, mishaps>>
  BY DEF Post, IInv, TypeOK
<1>2. /\ Known' = Known /\ open' = open /\ holds' = holds /\ acq' = acq
      /\ lock' = lock /\ notified' = notified /\ skipped' = skipped
      /\ failed' = failed
  BY <1>1 DEF Known, history, session
<1>3. /\ Good(file, feed', Known) /\ \A r \in Runtimes : Good(mem[r], feed', Known)
      /\ \A p \in Pollers : Sound(run[p], feed', Known)
  BY <1>1, GoodAppend, SoundAppend DEF IInv
<1>4. \A p \in Pollers : run[p].pages < MaxPages /\ run[p].since <= Len(feed')
                                                 /\ run[p].seen <= Len(feed')
  BY <1>3 DEF Sound
<1>5. feed' \in Seq(Msgs)
  BY <1>1
<1>6. TypeOK'
  BY <1>1, <1>2, <1>4, <1>5 DEF TypeOK, IInv
<1> QED
  BY <1>1, <1>2, <1>3, <1>6 DEF IInv

LEMMA NextKeeps == IInv /\ [Next]_vars => IInv'
<1> SUFFICES ASSUME IInv, [Next]_vars PROVE IInv'
  OBVIOUS
<1>1. CASE Next
  BY <1>1, CycleStepKeeps, SessionStepKeeps, CrashKeeps, PostKeeps DEF Next
<1>2. CASE UNCHANGED vars
  BY <1>2 DEF vars, session, history, IInv, TypeOK, Known
<1> QED
  BY <1>1, <1>2

(****************************** the theorems ********************************)

THEOREM Inductive == Spec => []IInv
<1> QED
  BY Initially, NextKeeps, PTL DEF Spec

\* The state file, the memories, the lock and the cycles keep their types: a
\* cycle reads at most maxChangesPages pages and no cursor is beyond the feed.
THEOREM TypeCorrect == Spec => []TypeOK
<1>1. IInv => TypeOK
  BY DEF IInv
<1> QED
  BY <1>1, Inductive, PTL

\* runCycleInner() sets the cursor last and only when it was not paused, so it
\* passes no message that was neither handed to a session nor recorded as
\* skipped, whichever sessions, stopped pollers, crashes and failing writes
\* overlap.
THEOREM CursorNeverSkips == Spec => []CursorCovers
<1>1. IInv => CursorCovers
  BY DEF IInv, CursorCovers, Covers, Good, Passed, Known, TypeOK
<1> QED
  BY <1>1, Inductive, PTL

-----------------------------------------------------------------------------
(* NoticesKept.                                                            *)
(*                                                                         *)
(* As long as nothing upsets the file there is one session and one poller, *)
(* and the memory it works with is what the file holds (Calm).  Then every *)
(* message that was notified is in the file, or about to be recorded       *)
(* there (Told), and a cycle has only messages in its hands that the file  *)
(* does not have, each of them once (Unhandled).                           *)

Active(p) == run[p].at # "none"

\* Whatever happens: a lock is acquired for a live session, and only the pollers
\* of one are scheduled again.
Scheduled ==
    /\ \A r \in Runtimes : acq[r] # "no" => r \in open
    /\ \A p \in Pollers : /\ Active(p) /\ ~run[p].stopped => run[p].rt \in open
                          /\ run[p].at = "idle" => ~run[p].stopped

\* H is what the file has an entry of, N what was notified.
Unhandled(c, H, N) ==
    /\ InHand(c) \cap H = {} /\ (c.todo \cup c.ok) \cap N = {}
    /\ c.todo \cap (c.ok \cup c.bad) = {} /\ c.ok \cap c.bad = {}
    /\ c.at = "record" => c.msg \notin H \cup c.ok

OnlyOne ==
    /\ \A r, s \in open : r = s
    /\ \A p, q \in Pollers : Active(p) /\ Active(q) => p = q
    /\ \A p \in Pollers, r \in open : Active(p) => run[p].rt = r
    /\ \A p \in Pollers, r \in Runtimes : acq[r] # "no" => ~Active(p)

InSync ==
    /\ \A r \in open : mem[r] = file
    /\ \A p \in Pollers : Active(p) => mem[run[p].rt] = file

Told ==
    \A m \in notified :
        \/ m \in Handled(file)
        \/ \E p \in Pollers : run[p].at = "record" /\ run[p].msg = m

Calm ==
    /\ OnlyOne /\ InSync /\ Told
    /\ \A p \in Pollers : Active(p) => Unhandled(run[p], Handled(file), notified)

NoticeInv == Scheduled /\ (~upset => Calm)

LEMMA MarkIs ==
    ASSUME NEW f \in State, NEW M \in SUBSET Msgs, NEW e \in Entries \ {"none"},
           NEW s, s = Mark(f, M, e)
    PROVE  /\ s \in State /\ Handled(s) = Handled(f) \cup M
           /\ \A m \in Msgs \ M : s.entry[m] = f.entry[m]
<1>1. s \in State /\ \A m \in Msgs : s.entry[m] = IF m \in M THEN e ELSE f.entry[m]
  BY DEF State, Mark
<1>2. Handled(s) = Handled(f) \cup M
  BY <1>1 DEF Handled
<1> QED
  BY <1>1, <1>2

LEMMA MarkSets ==
    ASSUME NEW f \in State, NEW M \in SUBSET Msgs, NEW e \in Entries, NEW s, s = Mark(f, M, e)
    PROVE  \A m \in M : s.entry[m] = e
BY DEF State, Mark

\* A write that upsets nothing has stored what it was given, whole.
LEMMA WriteIs ==
    ASSUME NEW r \in Runtimes, NEW s \in State, Write(r, s), ~upset'
    PROVE  ~upset /\ mem' = [mem EXCEPT ![r] = s] /\ file' = s
<1>1. Save(r, s)
  BY DEF Write, SaveThrows
<1>2. PICK M : Stored(r, Mark(s, M, "none"), M # {})
  BY <1>1 DEF Save
<1>3. M = {} /\ ~upset
  BY <1>2 DEF Stored
<1>4. Mark(s, {}, "none") = s
  <2>1. s = [seq |-> s.seq, entry |-> s.entry] /\ s.entry \in [Msgs -> Entries]
    BY DEF State
  <2>2. [m \in Msgs |-> IF m \in {} THEN "none" ELSE s.entry[m]] = s.entry
    BY <2>1
  <2> QED
    BY <2>1, <2>2 DEF Mark
<1> QED
  BY <1>2, <1>3, <1>4 DEF Stored

\* With no poller about to record, what was notified is in the file.
LEMMA ToldIs ==
    ASSUME Calm, \A p \in Pollers : run[p].at # "record"
    PROVE  notified \subseteq Handled(file)
BY DEF Calm, Told

LEMMA CalmIs ==
    ASSUME Calm, NEW p \in Pollers, Active(p)
    PROVE  /\ mem[run[p].rt] = file /\ Unhandled(run[p], Handled(file), notified)
           /\ \A q \in Pollers : q # p => ~Active(q)
           /\ \A r \in open : r = run[p].rt
           /\ \A r \in Runtimes : acq[r] = "no"
           /\ run[p].at # "record" => notified \subseteq Handled(file)
<1>1. \A q \in Pollers : q # p => ~Active(q)
  BY DEF Calm, OnlyOne
<1>2. run[p].at # "record" => notified \subseteq Handled(file)
  BY <1>1, ToldIs DEF Active
<1> QED
  BY <1>1, <1>2 DEF Calm, OnlyOne, InSync

\* What the step of a cycle has to show: s is what the file is afterwards.
Leaves(p, c, s) ==
    /\ mem' = [mem EXCEPT ![run[p].rt] = s] /\ file' = s
    /\ \A m \in Msgs : file.entry[m] = "acked" => s.entry[m] = "acked"
    /\ \A m \in notified' : m \in Handled(s) \/ (c.at = "record" /\ c.msg = m)
    /\ c.at # "none" => Unhandled(c, Handled(s), notified')

LEMMA CycleCalm ==
    ASSUME IInv, Calm, NEW p \in Pollers, Active(p), NEW c, Step(p, c),
           UNCHANGED <<open, acq>>, c.at # "none" => c.rt = run[p].rt,
           NEW s \in State, Leaves(p, c, s)
    PROVE  Calm'
<1>1. /\ run[p].rt \in Runtimes /\ mem \in [Runtimes -> State] /\ open \subseteq Runtimes
      /\ \A q \in Pollers : run'[q] = IF q = p THEN c ELSE run[q]
  BY DEF IInv, TypeOK, Sound, Active, Step
<1>2. \A q \in Pollers : Active(q)' => q = p
  BY <1>1, CalmIs DEF Active
<1>3. OnlyOne'
  BY <1>1, <1>2, CalmIs DEF OnlyOne, Active
<1>4. InSync'
  BY <1>1, <1>2, CalmIs DEF InSync, Active, Leaves
<1>5. Told'
  BY <1>1 DEF Told, Leaves
<1>6. \A q \in Pollers : Active(q)' => Unhandled(run'[q], Handled(file'), notified')
  BY <1>1, <1>2 DEF Active, Leaves
<1> QED
  BY <1>3, <1>4, <1>5, <1>6 DEF Calm

LEMMA CycleNotices ==
    ASSUME IInv, NoticeInv, NEW p \in Pollers, Active(p), NEW c, Step(p, c),
           UNCHANGED <<open, acq>>,
           c.at # "none" => c.rt = run[p].rt /\ (~c.stopped => ~run[p].stopped),
           c.at = "idle" => ~c.stopped,
           c.at = "record" => upset \/ c.msg \notin notified,
           ~upset' => ~upset /\ \E s \in State : Leaves(p, c, s)
    PROVE  NoticeInv' /\ NotifiesOnce /\ KeepsAcks
<1>1. \A q \in Pollers : run'[q] = IF q = p THEN c ELSE run[q]
  BY DEF IInv, TypeOK, Step
<1>2. Scheduled'
  BY <1>1 DEF NoticeInv, Scheduled, Active
<1>3. ~upset' => Calm'
  BY CycleCalm DEF NoticeInv
<1>4. NotifiesOnce
  BY <1>1 DEF NotifiesOnce
<1>5. KeepsAcks
  BY DEF KeepsAcks, Leaves
<1> QED
  BY <1>2, <1>3, <1>4, <1>5 DEF NoticeInv

\* A step of a cycle that writes nothing and notifies nobody.
LEMMA QuietNotices ==
    ASSUME IInv, NoticeInv, NEW p \in Pollers, Active(p), run[p].at # "record", NEW c, Step(p, c),
           UNCHANGED quiet,
           c.at # "none" => c.rt = run[p].rt /\ (~c.stopped => ~run[p].stopped),
           c.at = "idle" => ~c.stopped, c.at # "record",
           Calm /\ c.at # "none" => Unhandled(c, Handled(file), notified)
    PROVE  NoticeInv' /\ NotifiesOnce /\ KeepsAcks
<1>1. UNCHANGED <<open, acq, mem, file, upset, notified>>
  BY DEF quiet, session, history
<1>2. ASSUME ~upset PROVE file \in State /\ Leaves(p, c, file)
  <2>1. Calm
    BY <1>2 DEF NoticeInv
  <2>2. mem' = [mem EXCEPT ![run[p].rt] = file] /\ file \in State
    BY <1>1, <2>1, CalmIs DEF IInv, TypeOK
  <2>3. \A m \in notified' : m \in Handled(file)
    BY <1>1, <2>1, CalmIs
  <2> QED
    BY <1>1, <2>1, <2>2, <2>3 DEF Leaves
<1> QED
  BY <1>1, <1>2, CycleNotices

LEMMA RestIs ==
    ASSUME NEW p
    PROVE  LET c == Rest(p)
           IN  /\ c.at \in {"none", "idle"}
               /\ c.at # "none" => c.rt = run[p].rt /\ ~run[p].stopped
               /\ c.at = "idle" => ~c.stopped
               /\ \A H, N : Unhandled(c, H, N)
BY DEF Rest, NoCycle, Unhandled, InHand

\* Entries are made for messages the file has none of.
LEMMA MarkLeaves ==
    ASSUME IInv, NoticeInv, NEW p \in Pollers, Active(p), run[p].rt \in Runtimes,
           NEW M \in SUBSET Msgs, NEW e \in Entries \ {"none"}, NEW c,
           Write(run[p].rt, Mark(mem[run[p].rt], M, e)), ~upset',
           Calm => M \cap Handled(file) = {},
           Calm => \A m \in notified' : m \in Handled(file) \cup M,
           Calm /\ c.at # "none" => Unhandled(c, Handled(file) \cup M, notified'),
           c.at # "record"
    PROVE  ~upset /\ \E s \in State : Leaves(p, c, s)
<1> DEFINE f == mem[run[p].rt]
           s == Mark(f, M, e)
<1>1. f \in State
  BY DEF IInv, TypeOK
<1> HIDE DEF f
<1>2. s \in State
  BY <1>1, MarkIs
<1>3. Handled(s) = Handled(f) \cup M
  BY <1>1, MarkIs
<1>4. \A m \in Msgs \ M : s.entry[m] = f.entry[m]
  BY <1>1, MarkIs
<1> HIDE DEF s
<1>5. Write(run[p].rt, s)
  BY DEF s, f
<1>6. ~upset /\ mem' = [mem EXCEPT ![run[p].rt] = s] /\ file' = s
  BY <1>2, <1>5, WriteIs
<1>7. Calm /\ f = file
  BY <1>6, CalmIs DEF NoticeInv, f
<1>8. \A m \in Msgs : file.entry[m] = "acked" => s.entry[m] = "acked"
  <2> SUFFICES ASSUME NEW m \in Msgs, file.entry[m] = "acked" PROVE s.entry[m] = "acked"
    OBVIOUS
  <2>1. m \in Handled(file)
    BY DEF Handled
  <2>2. m \in Msgs \ M
    BY <1>7, <2>1
  <2> QED
    BY <1>4, <1>7, <2>2
<1>9. Leaves(p, c, s)
  BY <1>3, <1>6, <1>7, <1>8 DEF Leaves
<1> QED
  BY <1>2, <1>6, <1>9

(******************************* the cycles *********************************)

LEMMA StartCycleNotices ==
    ASSUME IInv, NoticeInv, NEW p \in Pollers, StartCycle(p)
    PROVE  NoticeInv' /\ NotifiesOnce /\ KeepsAcks
<1> DEFINE c == [run[p] EXCEPT !.at = "feed", !.since = mem[run[p].rt].seq]
<1>1. run[p].at = "idle" /\ Step(p, c) /\ UNCHANGED quiet /\ run[p] \in Cycle
  BY CycleType DEF StartCycle
<1>2. /\ c.at = "feed" /\ c.rt = run[p].rt /\ c.stopped = run[p].stopped
      /\ c.todo = run[p].todo /\ c.ok = run[p].ok /\ c.bad = run[p].bad
  BY <1>1 DEF Cycle
<1> HIDE DEF c
<1>3. Calm => Unhandled(c, Handled(file), notified)
  BY <1>1, <1>2, CalmIs DEF Unhandled, InHand, Active
<1> QED
  BY <1>1, <1>2, <1>3, QuietNotices DEF Active

LEMMA DiscoveredIs ==
    ASSUME NEW c \in Cycle
    PROVE  LET d == Discovered(c)
           IN  /\ d.at \in {"deliver", "read"} /\ d.rt = c.rt /\ d.stopped = c.stopped
               /\ d.todo = c.todo /\ d.ok = c.ok /\ d.bad = c.bad
BY DEF Discovered, Cycle

\* What discovery finds is not in the file, and so was not notified.
LEMMA FoundNotices ==
    ASSUME IInv, NoticeInv, NEW p \in Pollers, run[p].at = "feed", NEW M \in SUBSET Msgs,
           NEW d, d.at \in {"feed", "deliver", "read"}, d.rt = run[p].rt,
           d.stopped = run[p].stopped,
           d.todo = run[p].todo \cup Found(p, M) \/ d.todo = run[p].todo,
           d.ok = run[p].ok, d.bad = run[p].bad, Step(p, d), UNCHANGED quiet
    PROVE  NoticeInv' /\ NotifiesOnce /\ KeepsAcks
<1>1. run[p].ok = {} /\ run[p].bad = {} /\ Active(p)
  BY CycleType DEF Sound, Active
<1>2. ASSUME Calm PROVE Unhandled(d, Handled(file), notified)
  <2>1. /\ Unhandled(run[p], Handled(file), notified) /\ notified \subseteq Handled(file)
        /\ mem[run[p].rt] = file
    BY <1>1, <1>2, CalmIs
  <2>2. Found(p, M) \cap Handled(file) = {}
    BY <2>1 DEF Found
  <2>3. d.todo \cap Handled(file) = {} /\ d.ok = {} /\ d.bad = {}
    BY <1>1, <2>1, <2>2 DEF Unhandled, InHand
  <2> QED
    BY <2>1, <2>3 DEF Unhandled, InHand
<1> QED
  BY <1>1, <1>2, QuietNotices

LEMMA FeedReplyNotices ==
    ASSUME IInv, NoticeInv, NEW p \in Pollers, FeedReply(p)
    PROVE  NoticeInv' /\ NotifiesOnce /\ KeepsAcks
<1> DEFINE c == run[p]
           top == IF Len(feed) < c.since + PageSize THEN Len(feed) ELSE c.since + PageSize
           fetched == {feed[i] : i \in (c.since + 1)..top}
           d == [c EXCEPT !.since = top, !.seen = top, !.pages = @ + 1,
                          !.todo = @ \cup Found(p, fetched)]
<1>1. /\ c.at = "feed" /\ UNCHANGED quiet
      /\ \/ Step(p, Discovered(c))
         \/ Step(p, Discovered(d)) \/ Step(p, d)
  BY DEF FeedReply
<1>2. c \in Cycle /\ feed \in Seq(Msgs)
  BY CycleType
<1>3. c.since \in Nat /\ c.pages \in Nat /\ top \in Nat /\ top <= Len(feed)
  BY <1>2, BoardAssumption DEF Cycle
<1>4. fetched \in SUBSET Msgs
  BY <1>2, <1>3
<1>5. Found(p, fetched) \subseteq Msgs /\ c.pages + 1 \in Nat
  BY <1>3, <1>4 DEF Found
<1> HIDE DEF top, fetched
<1>6. d \in Cycle
  BY <1>2, <1>3, <1>5 DEF Cycle
<1>7. /\ d.at = "feed" /\ d.rt = c.rt /\ d.stopped = c.stopped
      /\ d.ok = c.ok /\ d.bad = c.bad /\ d.todo = c.todo \cup Found(p, fetched)
  BY <1>1, <1>2 DEF Cycle
<1> HIDE DEF d
<1>8. CASE Step(p, Discovered(c))
  <2> DEFINE e == Discovered(c)
  <2>1. /\ e.at \in {"deliver", "read"} /\ e.rt = c.rt /\ e.stopped = c.stopped
        /\ e.todo = c.todo /\ e.ok = c.ok /\ e.bad = c.bad
    BY <1>2, DiscoveredIs
  <2> HIDE DEF e
  <2>2. Step(p, e)
    BY <1>8 DEF e
  <2> QED
    BY <1>1, <1>4, <2>1, <2>2, FoundNotices
<1>9. CASE Step(p, Discovered(d))
  BY <1>1, <1>4, <1>6, <1>7, <1>9, DiscoveredIs, FoundNotices
<1>10. CASE Step(p, d)
  BY <1>1, <1>4, <1>7, <1>10, FoundNotices
<1> QED
  BY <1>1, <1>8, <1>9, <1>10

LEMMA ListReplyNotices ==
    ASSUME IInv, NoticeInv, NEW p \in Pollers, ListReply(p)
    PROVE  NoticeInv' /\ NotifiesOnce /\ KeepsAcks
<1>1. PICK M \in SUBSET Posted :
          /\ run[p].at = "feed" /\ UNCHANGED quiet
          /\ Step(p, Discovered([run[p] EXCEPT !.todo = @ \cup Found(p, M)]))
  BY DEF ListReply
<1> DEFINE d == [run[p] EXCEPT !.todo = @ \cup Found(p, M)]
<1>2. run[p] \in Cycle /\ feed \in Seq(Msgs)
  BY CycleType
<1>3. M \in SUBSET Msgs /\ Found(p, M) \subseteq Msgs
  BY <1>2 DEF Posted, Found
<1>4. d \in Cycle
  BY <1>2, <1>3 DEF Cycle
<1>5. /\ d.rt = run[p].rt /\ d.stopped = run[p].stopped
      /\ d.ok = run[p].ok /\ d.bad = run[p].bad /\ d.todo = run[p].todo \cup Found(p, M)
  BY <1>2 DEF Cycle
<1> HIDE DEF d
<1>6. Step(p, Discovered(d))
  BY <1>1 DEF d
<1> QED
  BY <1>1, <1>3, <1>4, <1>5, <1>6, DiscoveredIs, FoundNotices

LEMMA AbandonNotices ==
    ASSUME IInv, NoticeInv, NEW p \in Pollers, Abandon(p)
    PROVE  NoticeInv' /\ NotifiesOnce /\ KeepsAcks
<1>1. run[p].at \in {"feed", "read"} /\ Step(p, Rest(p)) /\ UNCHANGED quiet
  BY DEF Abandon
<1> QED
  BY <1>1, RestIs, QuietNotices DEF Active

\* The verdicts are about messages the file has no entry of.
LEMMA SkipNotices ==
    ASSUME IInv, NoticeInv, NEW p \in Pollers, run[p].at = "read", NEW c \in Cycle, Skip(p, c),
           c.at = "read", c.todo = {}, c.rt = run[p].rt, c.stopped = run[p].stopped,
           Calm => Unhandled(c, Handled(file), notified),
           UNCHANGED <<open, acq, notified>>
    PROVE  NoticeInv' /\ NotifiesOnce /\ KeepsAcks
<1> DEFINE over == [c EXCEPT !.at = "deliver", !.bad = {}]
<1>1. c.bad \subseteq Msgs /\ c.rt \in Runtimes /\ Active(p)
  BY CycleType DEF Cycle, Active
<1>2. /\ over.at = "deliver" /\ over.bad = {} /\ over.todo = {} /\ over.stopped = c.stopped
      /\ over.ok = c.ok /\ over.rt = c.rt
  BY DEF Cycle
<1>3. CASE /\ c.bad = {} /\ Step(p, [c EXCEPT !.at = "deliver"])
           /\ UNCHANGED <<file, mem, skipped, upset, mishaps>>
  <2>1. [c EXCEPT !.at = "deliver"] = over
    BY <1>3 DEF Cycle
  <2> HIDE DEF over
  <2>2. ASSUME ~upset PROVE file \in State /\ Leaves(p, over, file)
    <3>1. Calm
      BY <2>2 DEF NoticeInv
    <3>2. mem' = [mem EXCEPT ![run[p].rt] = file] /\ file \in State
      BY <1>1, <1>3, <3>1, CalmIs DEF IInv, TypeOK
    <3>3. \A m \in notified' : m \in Handled(file)
      BY <1>1, <3>1, CalmIs
    <3>4. Unhandled(over, Handled(file), notified')
      BY <1>2, <3>1 DEF Unhandled, InHand
    <3> QED
      BY <1>3, <3>2, <3>3, <3>4 DEF Leaves
  <2> QED
    BY <1>1, <1>2, <1>3, <2>1, <2>2, CycleNotices
<1>4. CASE /\ Step(p, over)
           /\ Save(c.rt, Mark(mem[c.rt], c.bad, "skipped"))
  <2> DEFINE B == c.bad
             e == "skipped"
  <2> HIDE DEF over
  <2>1. /\ B \in SUBSET Msgs /\ e \in Entries \ {"none"}
        /\ Write(run[p].rt, Mark(mem[run[p].rt], B, e))
    BY <1>1, <1>4 DEF Entries, Write
  <2>2. ASSUME Calm
        PROVE  /\ B \cap Handled(file) = {} /\ notified' \subseteq Handled(file) \cup B
               /\ Unhandled(over, Handled(file) \cup B, notified')
    <3>1. Unhandled(c, Handled(file), notified) /\ notified \subseteq Handled(file)
      BY <1>1, <2>2, CalmIs
    <3> QED
      BY <1>2, <3>1 DEF Unhandled, InHand
  <2> HIDE DEF B, e
  <2>3. ~upset' => ~upset /\ \E s \in State : Leaves(p, over, s)
    BY <1>1, <1>2, <2>1, <2>2, MarkLeaves
  <2> QED
    BY <1>1, <1>2, <1>4, <2>3, CycleNotices
<1>5. ASSUME NEW M, SaveThrows(c.rt, Mark(mem[c.rt], M, "skipped")), Step(p, Rest(p))
      PROVE  NoticeInv' /\ NotifiesOnce /\ KeepsAcks
  <2>1. upset'
    BY <1>5 DEF SaveThrows
  <2> QED
    BY <1>1, <1>5, <2>1, RestIs, CycleNotices
<1> QED
  BY <1>3, <1>4, <1>5 DEF Skip

LEMMA ReadReplyNotices ==
    ASSUME IInv, NoticeInv, NEW p \in Pollers, NEW m \in Msgs, ReadReply(p, m)
    PROVE  NoticeInv' /\ NotifiesOnce /\ KeepsAcks
<1> DEFINE c == [run[p] EXCEPT !.todo = @ \ {m}]
           good == [c EXCEPT !.ok = @ \cup {m}]
           bad == [c EXCEPT !.bad = @ \cup {m}]
           Go(d) == IF d.todo = {} THEN Skip(p, d)
                    ELSE Step(p, d) /\ UNCHANGED <<file, mem, skipped, upset, mishaps>>
<1>1. /\ run[p].at = "read" /\ m \in run[p].todo
      /\ Go(good) \/ Go(bad)
      /\ UNCHANGED <<feed, session, notified>>
  BY DEF ReadReply
<1>2. run[p] \in Cycle /\ Active(p) /\ run[p].rt \in Runtimes
  BY <1>1, CycleType DEF Active
<1>3. /\ c \in Cycle /\ c.at = "read" /\ c.stopped = run[p].stopped /\ c.rt = run[p].rt
      /\ c.todo = run[p].todo \ {m} /\ c.ok = run[p].ok /\ c.bad = run[p].bad
  BY <1>1, <1>2 DEF Cycle
<1>4. ASSUME NEW d \in {good, bad}
      PROVE  /\ d \in Cycle /\ d.at = "read" /\ d.stopped = run[p].stopped
             /\ d.rt = run[p].rt /\ d.todo = run[p].todo \ {m}
             /\ \/ d.ok = run[p].ok \cup {m} /\ d.bad = run[p].bad
                \/ d.ok = run[p].ok /\ d.bad = run[p].bad \cup {m}
  <2> HIDE DEF c
  <2> QED
    BY <1>3, <1>4 DEF Cycle
<1>5. PICK d \in {good, bad} : Go(d)
  BY <1>1
<1> HIDE DEF good, bad
<1>6. /\ d \in Cycle /\ d.at = "read" /\ d.stopped = run[p].stopped
      /\ d.rt = run[p].rt /\ d.todo = run[p].todo \ {m}
      /\ \/ d.ok = run[p].ok \cup {m} /\ d.bad = run[p].bad
         \/ d.ok = run[p].ok /\ d.bad = run[p].bad \cup {m}
  BY <1>4
<1>7. Calm => Unhandled(d, Handled(file), notified)
  <2> SUFFICES ASSUME Calm PROVE Unhandled(d, Handled(file), notified)
    OBVIOUS
  <2>1. Unhandled(run[p], Handled(file), notified)
    BY <1>2, CalmIs
  <2> QED
    BY <1>1, <1>6, <2>1 DEF Unhandled, InHand
<1>8. open' = open /\ acq' = acq /\ notified' = notified
  BY <1>1 DEF session
<1>9. CASE d.todo = {}
  <2>1. Skip(p, d)
    BY <1>5, <1>9
  <2> QED
    BY <1>1, <1>6, <1>7, <1>8, <1>9, <2>1, SkipNotices
<1>10. CASE d.todo # {}
  <2>1. Step(p, d) /\ UNCHANGED <<file, mem, skipped, upset, mishaps>>
    BY <1>5, <1>10
  <2>2. ASSUME ~upset PROVE file \in State /\ Leaves(p, d, file)
    <3>1. Calm
      BY <2>2 DEF NoticeInv
    <3>2. mem' = [mem EXCEPT ![run[p].rt] = file] /\ file \in State
      BY <1>2, <2>1, <3>1, CalmIs DEF IInv, TypeOK
    <3>3. \A n \in notified' : n \in Handled(file)
      BY <1>1, <1>2, <1>8, <3>1, CalmIs
    <3> QED
      BY <1>7, <1>8, <2>1, <3>1, <3>2, <3>3 DEF Leaves
  <2> QED
    BY <1>2, <1>6, <1>8, <2>1, <2>2, CycleNotices
<1> QED
  BY <1>9, <1>10

LEMMA ReadPauseNotices ==
    ASSUME IInv, NoticeInv, NEW p \in Pollers, ReadPause(p)
    PROVE  NoticeInv' /\ NotifiesOnce /\ KeepsAcks
<1> DEFINE c == [Paused(run[p]) EXCEPT !.todo = {}]
<1>1. run[p].at = "read" /\ Skip(p, c) /\ open' = open /\ acq' = acq /\ notified' = notified
  BY DEF ReadPause, session
<1>2. run[p] \in Cycle /\ Active(p)
  BY <1>1, CycleType DEF Active
<1>3. c \in Cycle
  BY <1>2 DEF Cycle, Paused
<1>4. /\ c.at = "read" /\ c.todo = {} /\ c.rt = run[p].rt /\ c.stopped = run[p].stopped
      /\ c.ok = run[p].ok /\ c.bad = run[p].bad
  BY <1>1, <1>2 DEF Cycle, Paused
<1> HIDE DEF c
<1>5. Calm => Unhandled(c, Handled(file), notified)
  BY <1>1, <1>2, <1>4, CalmIs DEF Unhandled, InHand
<1> QED
  BY <1>1, <1>3, <1>4, <1>5, SkipNotices

\* What is handed to the callback was not handed to one before.
LEMMA DeliverNotices ==
    ASSUME IInv, NoticeInv, NEW p \in Pollers, NEW m \in Msgs, Deliver(p, m)
    PROVE  NoticeInv' /\ NotifiesOnce /\ KeepsAcks
<1> DEFINE d == [run[p] EXCEPT !.at = "record", !.ok = @ \ {m}, !.msg = m]
<1>1. /\ run[p].at = "deliver" /\ m \in run[p].ok /\ Step(p, d)
      /\ notified' = notified \cup {m}
      /\ file' = file /\ mem' = mem /\ open' = open /\ acq' = acq /\ upset' = upset
  BY DEF Deliver, session
<1>2. run[p] \in Cycle /\ Sound(run[p], feed, Known) /\ Active(p)
  BY <1>1, CycleType DEF Active
<1>3. /\ d.at = "record" /\ d.rt = run[p].rt /\ d.stopped = run[p].stopped /\ d.msg = m
      /\ d.todo = {} /\ d.bad = {} /\ d.ok = run[p].ok \ {m}
  BY <1>1, <1>2 DEF Cycle, Sound
<1> HIDE DEF d
<1>4. ASSUME ~upset
      PROVE  m \notin notified /\ file \in State /\ Leaves(p, d, file)
  <2>1. Calm
    BY <1>4 DEF NoticeInv
  <2>2. /\ Unhandled(run[p], Handled(file), notified) /\ notified \subseteq Handled(file)
        /\ mem[run[p].rt] = file
    BY <1>1, <1>2, <2>1, CalmIs
  <2>3. mem' = [mem EXCEPT ![run[p].rt] = file] /\ file \in State
    BY <1>1, <2>2 DEF IInv, TypeOK
  <2>4. m \notin notified /\ Unhandled(d, Handled(file), notified')
    BY <1>1, <1>3, <2>2 DEF Unhandled, InHand
  <2>5. \A n \in notified' : n \in Handled(file) \/ (d.at = "record" /\ d.msg = n)
    BY <1>1, <1>3, <2>2
  <2> QED
    BY <1>1, <2>3, <2>4, <2>5 DEF Leaves
<1> QED
  BY <1>1, <1>2, <1>3, <1>4, CycleNotices

LEMMA DeliverPauseNotices ==
    ASSUME IInv, NoticeInv, NEW p \in Pollers, DeliverPause(p)
    PROVE  NoticeInv' /\ NotifiesOnce /\ KeepsAcks
<1> DEFINE c == [Paused(run[p]) EXCEPT !.ok = {}]
<1>1. run[p].at = "deliver" /\ Step(p, c) /\ UNCHANGED quiet
  BY DEF DeliverPause
<1>2. run[p] \in Cycle /\ Active(p)
  BY <1>1, CycleType DEF Active
<1>3. /\ c.at = "deliver" /\ c.rt = run[p].rt /\ c.stopped = run[p].stopped
      /\ c.todo = run[p].todo /\ c.ok = {} /\ c.bad = run[p].bad
  BY <1>1, <1>2 DEF Cycle, Paused
<1> HIDE DEF c
<1>4. Calm => Unhandled(c, Handled(file), notified)
  BY <1>1, <1>2, <1>3, CalmIs DEF Unhandled, InHand
<1> QED
  BY <1>1, <1>2, <1>3, <1>4, QuietNotices

LEMMA RecordNotices ==
    ASSUME IInv, NoticeInv, NEW p \in Pollers, Record(p)
    PROVE  NoticeInv' /\ NotifiesOnce /\ KeepsAcks
<1> DEFINE M == {run[p].msg}
           e == "delivered"
           d == [run[p] EXCEPT !.at = "deliver", !.msg = NoMsg]
<1>1. /\ run[p].at = "record" /\ open' = open /\ acq' = acq /\ notified' = notified
      /\ \/ Step(p, d) /\ Write(run[p].rt, Mark(mem[run[p].rt], M, e))
         \/ Step(p, Rest(p)) /\ upset'
  BY DEF Record, Write, session, history, SaveThrows
<1>2. /\ run[p] \in Cycle /\ Sound(run[p], feed, Known) /\ Active(p)
      /\ run[p].rt \in Runtimes /\ M \in SUBSET Msgs /\ e \in Entries \ {"none"}
  BY <1>1, CycleType DEF Active, Sound, Entries
<1>3. /\ d.at = "deliver" /\ d.rt = run[p].rt /\ d.stopped = run[p].stopped
      /\ d.todo = {} /\ d.bad = {} /\ d.ok = run[p].ok
  BY <1>1, <1>2 DEF Cycle, Sound
<1> HIDE DEF d
<1>4. ASSUME Calm
      PROVE  /\ M \cap Handled(file) = {} /\ notified' \subseteq Handled(file) \cup M
             /\ Unhandled(d, Handled(file) \cup M, notified')
  <2>1. Unhandled(run[p], Handled(file), notified)
    BY <1>2, <1>4, CalmIs
  <2>2. notified \subseteq Handled(file) \cup M
    BY <1>2, <1>4, CalmIs DEF Calm, Told, Active
  <2> QED
    BY <1>1, <1>3, <2>1, <2>2 DEF Unhandled, InHand
<1> HIDE DEF M, e
<1>5. CASE Step(p, d) /\ Write(run[p].rt, Mark(mem[run[p].rt], M, e))
  <2>1. ~upset' => ~upset /\ \E s \in State : Leaves(p, d, s)
    BY <1>2, <1>3, <1>4, <1>5, MarkLeaves
  <2> QED
    BY <1>1, <1>2, <1>3, <1>5, <2>1, CycleNotices
<1>6. CASE Step(p, Rest(p)) /\ upset'
  BY <1>1, <1>2, <1>6, RestIs, CycleNotices
<1> QED
  BY <1>1, <1>5, <1>6

LEMMA EndCycleNotices ==
    ASSUME IInv, NoticeInv, NEW p \in Pollers, EndCycle(p)
    PROVE  NoticeInv' /\ NotifiesOnce /\ KeepsAcks
<1> DEFINE c == run[p]
           f == mem[c.rt]
           s == [f EXCEPT !.seq = c.seen]
<1>1. /\ c.at = "deliver" /\ Step(p, Rest(p)) /\ open' = open /\ acq' = acq
      /\ notified' = notified
      /\ Write(c.rt, s) \/ UNCHANGED <<file, mem, upset, mishaps>>
  BY DEF EndCycle, session, history
<1>2. c \in Cycle /\ c.rt \in Runtimes /\ Active(p) /\ f \in State
  BY <1>1, CycleType DEF Active, IInv, TypeOK
<1>3. s \in State /\ s.entry = f.entry
  BY <1>2 DEF State, Cycle
<1> HIDE DEF s, f
<1>4. ASSUME ~upset, NEW t \in State, t.entry = f.entry,
             mem' = [mem EXCEPT ![c.rt] = t], file' = t
      PROVE  Leaves(p, Rest(p), t)
  <2>1. Calm /\ f = file /\ notified \subseteq Handled(file)
    BY <1>1, <1>2, <1>4, CalmIs DEF NoticeInv, f
  <2>2. Handled(t) = Handled(file)
    BY <1>4, <2>1 DEF Handled
  <2> QED
    BY <1>1, <1>4, <2>1, <2>2, RestIs DEF Leaves
<1>5. ~upset' => ~upset /\ \E t \in State : Leaves(p, Rest(p), t)
  <2>1. CASE Write(c.rt, s)
    BY <1>2, <1>3, <1>4, <2>1, WriteIs
  <2>2. ASSUME UNCHANGED <<file, mem, upset, mishaps>>, ~upset
        PROVE  Leaves(p, Rest(p), file) /\ file \in State
    <3>1. Calm /\ mem[c.rt] = file /\ file \in State
      BY <1>2, <2>2, CalmIs DEF NoticeInv, IInv, TypeOK
    <3>2. mem' = [mem EXCEPT ![c.rt] = file] /\ file' = file
      BY <2>2, <3>1 DEF IInv, TypeOK
    <3> QED
      BY <1>4, <2>2, <3>1, <3>2 DEF f
  <2> QED
    BY <1>1, <2>1, <2>2
<1> QED
  BY <1>1, <1>2, <1>5, RestIs, CycleNotices

LEMMA CycleStepNotices ==
    ASSUME IInv, NoticeInv, NEW p \in Pollers, CycleStep(p)
    PROVE  NoticeInv' /\ NotifiesOnce /\ KeepsAcks
BY StartCycleNotices, FeedReplyNotices, ListReplyNotices, AbandonNotices,
   ReadPauseNotices, DeliverPauseNotices, RecordNotices, EndCycleNotices,
   ReadReplyNotices, DeliverNotices DEF CycleStep

(****************************** the sessions ********************************)

\* p is where it was, stopped or not.
Kept(p) ==
    /\ run'[p].at = run[p].at /\ run'[p].rt = run[p].rt /\ run'[p].msg = run[p].msg
    /\ run'[p].todo = run[p].todo /\ run'[p].ok = run[p].ok /\ run'[p].bad = run[p].bad

\* Sessions and pollers are gone, the others are as they were.
LEMMA FewerCalm ==
    ASSUME IInv, Calm, open' \subseteq open, file' = file, notified' = notified,
           \A r \in Runtimes : acq'[r] # "no" => acq[r] # "no",
           \A p \in Pollers : Active(p)' \/ run[p].at = "record" => Kept(p),
           \A r \in open' : mem'[r] = mem[r],
           \A p \in Pollers : Active(p)' => mem'[run[p].rt] = mem[run[p].rt]
    PROVE  Calm'
<1>1. \A p \in Pollers : Active(p)' => Active(p) /\ Kept(p)
  BY DEF Active, Kept
<1>2. OnlyOne'
  BY <1>1 DEF Calm, OnlyOne, Kept
<1>3. InSync'
  BY <1>1 DEF Calm, InSync, Kept
<1>4. Told'
  BY DEF Calm, Told, Kept
<1>5. \A p \in Pollers : Active(p)' => Unhandled(run'[p], Handled(file'), notified')
  BY <1>1 DEF Calm, Unhandled, InHand, Kept
<1> QED
  BY <1>2, <1>3, <1>4, <1>5 DEF Calm

\* At most one session is left, and no poller.
LEMMA IdleCalm ==
    ASSUME \A p \in Pollers : ~Active(p)', \A r, s \in open' : r = s,
           \A r \in open' : mem'[r] = file', notified' \subseteq Handled(file')
    PROVE  Calm'
<1>1. OnlyOne' /\ InSync'
  BY DEF OnlyOne, InSync
<1> QED
  BY <1>1 DEF Calm, Told

LEMMA SessionNotices ==
    ASSUME Scheduled', ~upset' => Calm', file' = file,
           \A p \in Pollers : run'[p].at = "record" => run[p].at # "deliver"
    PROVE  NoticeInv' /\ NotifiesOnce /\ KeepsAcks
BY DEF NoticeInv, NotifiesOnce, KeepsAcks

\* A stopped poller is gone, or keeps what it has in its hands.
LEMMA StoppedIs ==
    ASSUME IInv, NEW r \in Runtimes, run' = Stopped(r), NEW p \in Pollers
    PROVE  /\ run'[p].at = "none" \/ Kept(p)
           /\ run'[p].at = "record" => run[p].at = "record"
           /\ InCycle(p) => Kept(p)
           /\ Active(p)' /\ run[p].rt = r => InCycle(p) /\ run'[p].stopped
           /\ run[p].rt # r => run'[p] = run[p]
<1> DEFINE d == [run[p] EXCEPT !.stopped = TRUE]
<1>1. run[p] \in Cycle
  BY CycleType
<1>2. /\ d.at = run[p].at /\ d.rt = run[p].rt /\ d.msg = run[p].msg /\ d.stopped
      /\ d.todo = run[p].todo /\ d.ok = run[p].ok /\ d.bad = run[p].bad
  BY <1>1 DEF Cycle
<1> HIDE DEF d
<1>3. \/ p \notin PollersOf(r) /\ run'[p] = run[p]
      \/ p \in PollersOf(r) /\ InCycle(p) /\ run'[p] = d
      \/ p \in PollersOf(r) /\ ~InCycle(p) /\ run'[p] = NoCycle
  BY DEF Stopped, d
<1>4. NoCycle.at = "none"
  BY DEF NoCycle
<1>5. CASE p \notin PollersOf(r) /\ run'[p] = run[p]
  BY <1>5 DEF PollersOf, Kept, Active
<1>6. CASE p \in PollersOf(r) /\ InCycle(p) /\ run'[p] = d
  BY <1>2, <1>6 DEF PollersOf, Kept
<1>7. CASE p \in PollersOf(r) /\ ~InCycle(p) /\ run'[p] = NoCycle
  BY <1>4, <1>7 DEF PollersOf, Active
<1> QED
  BY <1>3, <1>5, <1>6, <1>7

LEMMA BuildNotices ==
    ASSUME IInv, NoticeInv, NEW r \in Runtimes, Build(r)
    PROVE  NoticeInv' /\ NotifiesOnce /\ KeepsAcks
<1>1. /\ open' = open \cup {r} /\ mem' = [mem EXCEPT ![r] = file]
      /\ upset' = (upset \/ open # {} \/ \E p \in Pollers : InCycle(p))
      /\ file' = file /\ acq' = acq /\ run' = run /\ notified' = notified
  BY DEF Build, history
<1>2. Scheduled'
  BY <1>1 DEF NoticeInv, Scheduled, Active
<1>3. ASSUME ~upset' PROVE Calm'
  <2>1. ~upset /\ open = {} /\ \A p \in Pollers : ~InCycle(p)
    BY <1>1, <1>3
  <2>2. \A p \in Pollers : ~Active(p)
    BY <2>1 DEF NoticeInv, Scheduled, Active, InCycle
  <2>3. notified \subseteq Handled(file)
    BY <2>1, <2>2, ToldIs DEF NoticeInv, Active
  <2>4. \A s \in open' : s = r /\ mem'[s] = file
    BY <1>1, <2>1 DEF IInv, TypeOK
  <2>5. \A p \in Pollers : ~Active(p)'
    BY <1>1, <2>2 DEF Active
  <2> QED
    BY <1>1, <2>3, <2>4, <2>5, IdleCalm
<1> QED
  BY <1>1, <1>2, <1>3, SessionNotices

LEMMA StopNotices ==
    ASSUME IInv, NoticeInv, NEW r \in Runtimes, Stop(r)
    PROVE  NoticeInv' /\ NotifiesOnce /\ KeepsAcks
<1>1. /\ run' = Stopped(r) /\ file' = file /\ mem' = mem /\ open' = open /\ acq' = acq
      /\ notified' = notified /\ upset' = upset
  BY DEF Stop, history
<1>2. Scheduled'
  BY <1>1, StoppedIs DEF NoticeInv, Scheduled, Active, InCycle, Kept
<1>3. \A p \in Pollers : Active(p)' \/ run[p].at = "record" => Kept(p)
  BY <1>1, StoppedIs DEF Active, InCycle
<1>4. ~upset' => Calm'
  BY <1>1, <1>3, FewerCalm DEF NoticeInv
<1> QED
  BY <1>1, <1>2, <1>4, StoppedIs, SessionNotices

LEMMA ShutdownNotices ==
    ASSUME IInv, NoticeInv, NEW r \in Runtimes, Shutdown(r)
    PROVE  NoticeInv' /\ NotifiesOnce /\ KeepsAcks
<1>1. /\ run' = Stopped(r) /\ file' = file /\ open' = open \ {r} /\ acq' = acq
      /\ acq[r] = "no" /\ notified' = notified /\ upset' = upset
      /\ mem' = IF \E p \in PollersOf(r) : InCycle(p) THEN mem ELSE [mem EXCEPT ![r] = Fresh]
  BY DEF Shutdown, history
<1>2. Scheduled'
  BY <1>1, StoppedIs DEF NoticeInv, Scheduled, Active, InCycle, Kept
<1>3. \A p \in Pollers : Active(p)' \/ run[p].at = "record" => Kept(p)
  BY <1>1, StoppedIs DEF Active, InCycle
<1>4. \A s \in open' : mem'[s] = mem[s]
  BY <1>1 DEF IInv, TypeOK
<1>5. \A p \in Pollers : Active(p)' => mem'[run[p].rt] = mem[run[p].rt]
  <2> SUFFICES ASSUME NEW p \in Pollers, Active(p)' PROVE mem'[run[p].rt] = mem[run[p].rt]
    OBVIOUS
  <2>1. CASE run[p].rt = r
    BY <1>1, <1>3, <2>1, StoppedIs DEF PollersOf, Active, Kept
  <2>2. CASE run[p].rt # r
    BY <1>1, <1>3, <2>2, CycleType DEF IInv, TypeOK, Active, Kept
  <2> QED
    BY <2>1, <2>2
<1>6. ~upset' => Calm'
  BY <1>1, <1>3, <1>4, <1>5, FewerCalm DEF NoticeInv
<1> QED
  BY <1>1, <1>2, <1>6, StoppedIs, SessionNotices

\* start() leaves none of the session's own pollers scheduled.
LEMMA StartNotices ==
    ASSUME IInv, NoticeInv, NEW r \in Runtimes, Start(r)
    PROVE  NoticeInv' /\ NotifiesOnce /\ KeepsAcks
<1>1. /\ run' = Stopped(r) /\ r \in open
      /\ file' = file /\ mem' = mem /\ open' = open /\ notified' = notified
      /\ upset' = (upset \/ \E p \in PollersOf(r) : InCycle(p))
      /\ \A s \in Runtimes : s # r => acq'[s] = acq[s]
  BY DEF Start, Attempt, history, IInv, TypeOK
<1>2. Scheduled'
  BY <1>1, StoppedIs DEF NoticeInv, Scheduled, Active, InCycle, Kept
<1>3. ASSUME ~upset' PROVE Calm'
  <2>1. ~upset /\ Calm /\ \A p \in PollersOf(r) : ~InCycle(p)
    BY <1>1, <1>3 DEF NoticeInv
  <2>2. \A p \in Pollers : Active(p) => p \in PollersOf(r)
    BY <1>1, <2>1 DEF Calm, OnlyOne, PollersOf, Active
  <2>3. \A p \in Pollers : ~Active(p)'
    BY <1>1, <2>1, <2>2, StoppedIs DEF PollersOf, Active, Kept
  <2>4. notified \subseteq Handled(file)
    BY <2>1, <2>2, ToldIs DEF InCycle, Active
  <2>5. \A s, t \in open : s = t /\ mem[s] = file
    BY <2>1 DEF Calm, OnlyOne, InSync
  <2> QED
    BY <1>1, <2>3, <2>4, <2>5, IdleCalm
<1> QED
  BY <1>1, <1>2, <1>3, StoppedIs, SessionNotices

LEMMA AcquireNotices ==
    ASSUME IInv, NoticeInv, NEW r \in Runtimes, BreakLock(r) \/ Retry(r)
    PROVE  NoticeInv' /\ NotifiesOnce /\ KeepsAcks
<1>1. /\ acq[r] # "no" /\ \A s \in Runtimes : s # r => acq'[s] = acq[s]
      /\ file' = file /\ mem' = mem /\ open' = open /\ notified' = notified
      /\ run' = run /\ upset' = upset
  BY DEF BreakLock, Retry, Attempt, history, IInv, TypeOK
<1>2. Scheduled'
  BY <1>1 DEF NoticeInv, Scheduled, Active
<1>3. ASSUME ~upset PROVE Calm'
  <2>1. Calm /\ \A p \in Pollers : ~Active(p)
    BY <1>1, <1>3 DEF NoticeInv, Calm, OnlyOne
  <2>2. notified \subseteq Handled(file)
    BY <2>1, ToldIs DEF Active
  <2>3. \A s, t \in open : s = t /\ mem[s] = file
    BY <2>1 DEF Calm, OnlyOne, InSync
  <2>4. \A p \in Pollers : ~Active(p)'
    BY <1>1, <2>1 DEF Active
  <2> QED
    BY <1>1, <2>2, <2>3, <2>4, IdleCalm
<1> QED
  BY <1>1, <1>2, <1>3, SessionNotices

LEMMA LockedNotices ==
    ASSUME IInv, NoticeInv, NEW r \in Runtimes, Locked(r)
    PROVE  NoticeInv' /\ NotifiesOnce /\ KeepsAcks
<1> DEFINE d == [NoCycle EXCEPT !.at = "idle", !.rt = r]
<1>1. /\ acq[r] # "no" /\ acq' = [acq EXCEPT ![r] = "no"]
      /\ file' = file /\ mem' = mem /\ open' = open /\ notified' = notified
      /\ upset' = upset
  BY DEF Locked, history
<1>2. PICK p \in Pollers : run[p].at = "none" /\ Step(p, d)
  BY DEF Locked
<1>3. /\ d.at = "idle" /\ d.rt = r /\ ~d.stopped
      /\ d.todo = {} /\ d.ok = {} /\ d.bad = {}
  BY DEF NoCycle
<1> HIDE DEF d
<1>4. \A q \in Pollers : run'[q] = IF q = p THEN d ELSE run[q]
  BY <1>2 DEF Step, IInv, TypeOK
<1>5. r \in open /\ \A s \in Runtimes : acq'[s] # "no" => s # r /\ acq[s] # "no" /\ s \in open
  BY <1>1 DEF NoticeInv, Scheduled, IInv, TypeOK
<1>6. Scheduled'
  BY <1>1, <1>3, <1>4, <1>5 DEF NoticeInv, Scheduled, Active
<1>7. ASSUME ~upset PROVE Calm'
  <2>1. Calm /\ \A q \in Pollers : ~Active(q)
    BY <1>1, <1>7 DEF NoticeInv, Calm, OnlyOne
  <2>2. notified \subseteq Handled(file)
    BY <2>1, ToldIs DEF Active
  <2>3. /\ \A s \in open : s = r /\ mem[s] = file
        /\ \A s \in Runtimes : acq'[s] = "no"
    BY <1>5, <2>1 DEF Calm, OnlyOne, InSync
  <2>4. \A q \in Pollers : Active(q)' => q = p /\ run'[q] = d
    BY <1>4, <2>1 DEF Active
  <2>5. OnlyOne'
    BY <1>1, <1>3, <2>3, <2>4 DEF OnlyOne
  <2>6. InSync'
    BY <1>1, <1>3, <1>5, <2>3, <2>4 DEF InSync
  <2>7. Unhandled(d, Handled(file'), notified')
    BY <1>3 DEF Unhandled, InHand
  <2> QED
    BY <1>1, <2>2, <2>4, <2>5, <2>6, <2>7 DEF Calm, Told
<1> QED
  BY <1>1, <1>3, <1>4, <1>6, <1>7, SessionNotices

LEMMA GcNotices ==
    ASSUME IInv, NoticeInv, NEW r \in Runtimes, Gc(r)
    PROVE  NoticeInv' /\ NotifiesOnce /\ KeepsAcks
<1>1. upset' /\ run' = run /\ acq' = acq /\ open' = open
  BY DEF Gc, Stored, SaveThrows, session
<1>2. Scheduled'
  BY <1>1 DEF NoticeInv, Scheduled, Active
<1> QED
  BY <1>1, <1>2 DEF NoticeInv, NotifiesOnce, KeepsAcks

\* An acknowledgement is of a message the file has an entry of.
LEMMA AckNotices ==
    ASSUME IInv, NoticeInv, NEW r \in Runtimes, NEW m \in Msgs, Ack(r, m)
    PROVE  NoticeInv' /\ NotifiesOnce /\ KeepsAcks
<1> DEFINE f == mem[r]
           M == {m}
           e == "acked"
           s == Mark(f, M, e)
<1>1. /\ r \in open /\ m \in Handled(f) /\ Write(r, s)
      /\ run' = run /\ acq' = acq /\ open' = open /\ notified' = notified
  BY DEF Ack, session, history
<1>2. Scheduled'
  BY <1>1 DEF NoticeInv, Scheduled, Active
<1>3. f \in State /\ M \in SUBSET Msgs /\ e \in Entries \ {"none"}
  BY DEF IInv, TypeOK, Entries
<1> HIDE DEF f, M, e
<1>4. s \in State
  BY <1>3, MarkIs
<1>5. Handled(s) = Handled(f) \cup M
  BY <1>3, MarkIs
<1>6. \A n \in Msgs \ M : s.entry[n] = f.entry[n]
  BY <1>3 DEF Mark, State
<1>7. \A n \in M : s.entry[n] = e
  BY <1>3, MarkSets
<1> HIDE DEF s
<1>8. ASSUME ~upset'
      PROVE  Calm' /\ \A n \in Msgs : file.entry[n] = "acked" => file'.entry[n] = "acked"
  <2>1. ~upset /\ mem' = [mem EXCEPT ![r] = s] /\ file' = s
    BY <1>1, <1>4, <1>8, WriteIs
  <2>2. Calm /\ f = file
    BY <1>1, <2>1 DEF NoticeInv, Calm, InSync, f
  <2>3. \A n \in Msgs : file.entry[n] = "acked" => file'.entry[n] = "acked"
    BY <1>6, <1>7, <2>1, <2>2 DEF e
  <2>4. Handled(file') = Handled(file)
    BY <1>1, <1>5, <2>1, <2>2 DEF M
  <2>5. OnlyOne'
    BY <1>1, <2>2 DEF Calm, OnlyOne, Active
  <2>6. InSync'
    BY <1>1, <2>1, <2>2 DEF Calm, OnlyOne, InSync, Active, IInv, TypeOK
  <2>7. Told'
    BY <1>1, <2>2, <2>4 DEF Calm, Told
  <2>8. \A p \in Pollers : Active(p)' => Unhandled(run'[p], Handled(file'), notified')
    BY <1>1, <2>2, <2>4 DEF Calm, Active
  <2> QED
    BY <2>3, <2>5, <2>6, <2>7, <2>8 DEF Calm
<1> QED
  BY <1>1, <1>2, <1>8 DEF NoticeInv, NotifiesOnce, KeepsAcks

LEMMA SessionStepNotices ==
    ASSUME IInv, NoticeInv, NEW r \in Runtimes, SessionStep(r)
    PROVE  NoticeInv' /\ NotifiesOnce /\ KeepsAcks
BY BuildNotices, StopNotices, ShutdownNotices, StartNotices, AcquireNotices,
   LockedNotices, GcNotices, AckNotices DEF SessionStep

LEMMA CrashNotices ==
    ASSUME IInv, NoticeInv, NEW R \in SUBSET Runtimes, Crash(R)
    PROVE  NoticeInv' /\ NotifiesOnce /\ KeepsAcks
<1>1. /\ open' = open \ R /\ file' = file /\ notified' = notified
      /\ acq' = [r \in Runtimes |-> IF r \in R THEN "no" ELSE acq[r]]
      /\ mem' = [r \in Runtimes |-> IF r \in R THEN Fresh ELSE mem[r]]
      /\ run' = [p \in Pollers |-> IF run[p].rt \in R THEN NoCycle ELSE run[p]]
      /\ upset' = (upset \/ \E p \in Pollers : run[p].rt \in R /\ run[p].at = "record")
  BY DEF Crash, history
<1>2. \A p \in Pollers : \/ run[p].rt \in R /\ run'[p].at = "none"
                         \/ run[p].rt \notin R /\ run'[p] = run[p]
  BY <1>1 DEF NoCycle
<1>3. Scheduled'
  BY <1>1, <1>2 DEF NoticeInv, Scheduled, Active
<1>4. ASSUME ~upset' PROVE Calm'
  <2>1. ~upset /\ \A p \in Pollers : Active(p)' \/ run[p].at = "record" => Kept(p)
    BY <1>1, <1>2, <1>4 DEF Active, Kept
  <2>2. open \subseteq Runtimes /\ \A r \in open' : mem'[r] = mem[r]
    BY <1>1 DEF IInv, TypeOK
  <2>3. \A p \in Pollers : Active(p)' => mem'[run[p].rt] = mem[run[p].rt]
    BY <1>1, <1>2, CycleType DEF Active
  <2>4. \A r \in Runtimes : acq'[r] # "no" => acq[r] # "no"
    BY <1>1
  <2> QED
    BY <1>1, <2>1, <2>2, <2>3, <2>4, FewerCalm DEF NoticeInv
<1> QED
  BY <1>1, <1>2, <1>3, <1>4, SessionNotices

\* A post, or nothing at all.
LEMMA PostNotices ==
    ASSUME IInv, NoticeInv, UNCHANGED <<file, mem, session, run, history, upset>>
    PROVE  NoticeInv' /\ NotifiesOnce /\ KeepsAcks
<1>1. /\ file' = file /\ mem' = mem /\ open' = open /\ acq' = acq /\ run' = run
      /\ notified' = notified /\ upset' = upset
  BY DEF session, history
<1>2. Scheduled'
  BY <1>1 DEF NoticeInv, Scheduled, Active
<1>3. Calm => Calm'
  BY <1>1 DEF Calm, OnlyOne, InSync, Told, Active, Handled
<1> QED
  BY <1>1, <1>2, <1>3, SessionNotices DEF NoticeInv

LEMMA NextNotices ==
    IInv /\ NoticeInv /\ [Next]_vars => NoticeInv' /\ NotifiesOnce /\ KeepsAcks
<1> SUFFICES ASSUME IInv, NoticeInv, [Next]_vars
             PROVE  NoticeInv' /\ NotifiesOnce /\ KeepsAcks
  OBVIOUS
<1>1. ASSUME NEW m \in Msgs, Post(m) PROVE NoticeInv' /\ NotifiesOnce /\ KeepsAcks
  BY <1>1, PostNotices DEF Post
<1>2. CASE UNCHANGED vars
  BY <1>2, PostNotices DEF vars
<1> QED
  BY <1>1, <1>2, CycleStepNotices, SessionStepNotices, CrashNotices DEF Next

LEMMA InitiallyCalm == Init => NoticeInv
<1> SUFFICES ASSUME Init PROVE NoticeInv
  OBVIOUS
<1>1. \A p \in Pollers : run[p].at = "none"
  BY DEF Init, NoCycle
<1>2. Scheduled
  BY <1>1 DEF Init, Scheduled, Active
<1>3. OnlyOne /\ InSync /\ Told
  BY <1>1 DEF Init, OnlyOne, InSync, Told, Active
<1> QED
  BY <1>1, <1>2, <1>3 DEF NoticeInv, Calm, Active

\* A consumer is told of a message once, and what it acknowledged stays so,
\* whichever way its messages are found: as long as no record was lost in a
\* crash or a failing write, pruned, or out of sight of a second session.
THEOREM NoticesAreKept == Spec => NoticesKept
<1>1. IInv /\ NoticeInv /\ [Next]_vars => NotifiesOnce /\ KeepsAcks
  BY NextNotices
<1>2. Spec => [](IInv /\ NoticeInv)
  <2>1. IInv /\ NoticeInv /\ [Next]_vars => (IInv /\ NoticeInv)'
    BY NextKeeps, NextNotices
  <2>2. Init => IInv /\ NoticeInv
    BY Initially, InitiallyCalm
  <2> QED
    BY <2>1, <2>2, PTL DEF Spec
<1>3. IInv /\ NoticeInv /\ [Next]_vars => [NotifiesOnce /\ KeepsAcks]_vars
  BY <1>1
<1> QED
  BY <1>2, <1>3, PTL DEF Spec, NoticesKept
-----------------------------------------------------------------------------
(* IsMailbox, the refinement of BoardMailbox.                              *)
(*                                                                         *)
(* The invariant adds that nothing is in hand that was not posted, and, as *)
(* long as nothing upsets the file, that what was skipped is in it and the *)
(* positions of the cycle are at or beyond its cursor (Beyond), which is   *)
(* what the cycle will put in its place.                                   *)

Beyond(c, n) == (c.at = "feed" => c.since >= n) /\ (c.seen # 0 => c.seen >= n)

MailInv ==
    /\ Known \subseteq Posted
    /\ \A p \in Pollers : InHand(run[p]) \subseteq Posted
    /\ ~upset => /\ skipped \subseteq Handled(file) \ notified
                 /\ \A p \in Pollers : Active(p) => Beyond(run[p], file.seq)

Mails == [Mailbox!Next]_Mailbox!vars

Acked(s) == {m \in Msgs : s.entry[m] = "acked"}

LEMMA MailboxIs ==
    /\ Mailbox!Posted = Posted /\ Mailbox!Known = Known
    /\ Mailbox!Covered = Passed(file.seq, feed, Known)
BY DEF Mailbox!Posted, Posted, Mailbox!Known, Known, Mailbox!Covered, Passed

LEMMA PostedGrows ==
    ASSUME NEW m \in Msgs, feed \in Seq(Msgs), feed' = Append(feed, m)
    PROVE  Posted' = Posted \cup {m}
<1>1. Len(feed') = Len(feed) + 1 /\ \A i \in 1..Len(feed) : feed'[i] = feed[i]
  OBVIOUS
<1>2. feed'[Len(feed) + 1] = m
  OBVIOUS
<1> QED
  BY <1>1, <1>2 DEF Posted

\* What a step that upsets the file, or one after it, may do.
LEMMA Disturbs ==
    ASSUME IInv', MailInv', upset', feed' = feed,
           notified \subseteq notified', skipped \subseteq skipped'
    PROVE  Mails
<1>1. /\ file' \in State /\ file'.seq =< Len(feed) /\ Passed(file'.seq, feed', Known')
      /\ Handled(file') \subseteq Known'
  BY DEF IInv, Good
<1>2. Mailbox!Covered'
  BY <1>1 DEF Passed, Known, Mailbox!Covered, Mailbox!Known
<1>3. Posted' = Posted
  BY DEF Posted
<1>4. notified' \subseteq Posted /\ skipped' \subseteq Posted
  BY <1>3 DEF MailInv, Known
<1>5. {m \in Msgs : file'.entry[m] = "acked"} \subseteq Known'
  BY <1>1 DEF Handled
<1>6. file'.seq \in 0..Len(feed)
  BY <1>1 DEF State, IInv, TypeOK
<1>7. Mailbox!Disturb
  BY <1>2, <1>4, <1>5, <1>6, MailboxIs
     DEF Mailbox!Disturb, Known, Mailbox!Known
<1> QED
  BY <1>7 DEF Mails, Mailbox!Next

LEMMA Stutters ==
    ASSUME UNCHANGED <<feed, notified, skipped, upset>>,
           file'.seq = file.seq, Acked(file') = Acked(file)
    PROVE  Mails
BY DEF Mails, Mailbox!vars, Acked

LEMMA CycleMail ==
    ASSUME IInv, NoticeInv, MailInv, IInv', NEW p \in Pollers, Active(p), NEW c, Step(p, c),
           feed' = feed, notified \subseteq notified', skipped \subseteq skipped',
           InHand(c) \subseteq Posted, Known' \subseteq Posted,
           ~upset' => /\ ~upset /\ skipped' \subseteq Handled(file') \ notified'
                      /\ c.at # "none" => Beyond(c, file'.seq)
    PROVE  MailInv' /\ (upset' => Mails)
<1>1. Posted' = Posted /\ \A q \in Pollers : run'[q] = IF q = p THEN c ELSE run[q]
  BY DEF Posted, Step, IInv, TypeOK
<1>2. \A q \in Pollers : InHand(run'[q]) \subseteq Posted'
  BY <1>1 DEF MailInv
<1>3. ASSUME ~upset' PROVE \A q \in Pollers : Active(q)' => Beyond(run'[q], file'.seq)
  BY <1>1, <1>3, CalmIs DEF NoticeInv, Active
<1>4. MailInv'
  BY <1>1, <1>2, <1>3 DEF MailInv
<1> QED
  BY <1>4, Disturbs

LEMMA QuietMail ==
    ASSUME IInv, NoticeInv, MailInv, IInv', NEW p \in Pollers, Active(p), NEW c, Step(p, c),
           UNCHANGED quiet, InHand(c) \subseteq Posted,
           ~upset /\ c.at # "none" => Beyond(c, file.seq)
    PROVE  MailInv' /\ Mails
<1>1. UNCHANGED <<feed, notified, skipped, upset, file>> /\ Known' = Known
  BY DEF quiet, history, Known
<1>2. MailInv'
  BY <1>1, CycleMail DEF MailInv
<1> QED
  BY <1>1, <1>2, Stutters

LEMMA RestMail ==
    ASSUME NEW p
    PROVE  InHand(Rest(p)) = {} /\ \A n : Beyond(Rest(p), n)
BY DEF Rest, NoCycle, InHand, Beyond

LEMMA StartCycleMail ==
    ASSUME IInv, NoticeInv, MailInv, IInv', NEW p \in Pollers, StartCycle(p)
    PROVE  MailInv' /\ Mails
<1> DEFINE c == [run[p] EXCEPT !.at = "feed", !.since = mem[run[p].rt].seq]
<1>1. run[p].at = "idle" /\ Step(p, c) /\ UNCHANGED quiet /\ run[p] \in Cycle
  BY CycleType DEF StartCycle
<1>2. /\ InHand(c) = InHand(run[p]) /\ c.since = mem[run[p].rt].seq /\ c.seen = run[p].seen
  BY <1>1 DEF Cycle, InHand
<1> HIDE DEF c
<1>3. Active(p)
  BY <1>1 DEF Active
<1>4. file.seq \in Nat
  BY DEF IInv, TypeOK, State
<1>5. ~upset => Beyond(c, file.seq)
  BY <1>2, <1>3, <1>4, CalmIs DEF NoticeInv, MailInv, Beyond
<1> QED
  BY <1>1, <1>2, <1>3, <1>5, QuietMail DEF MailInv

LEMMA DiscoveredMail ==
    ASSUME NEW c \in Cycle
    PROVE  /\ InHand(Discovered(c)) = InHand(c)
           /\ \A n : Beyond(c, n) => Beyond(Discovered(c), n)
BY DEF Discovered, Cycle, InHand, Beyond

LEMMA FeedReplyMail ==
    ASSUME IInv, NoticeInv, MailInv, IInv', NEW p \in Pollers, FeedReply(p)
    PROVE  MailInv' /\ Mails
<1> DEFINE c == run[p]
           top == IF Len(feed) < c.since + PageSize THEN Len(feed) ELSE c.since + PageSize
           fetched == {feed[i] : i \in (c.since + 1)..top}
           d == [c EXCEPT !.since = top, !.seen = top, !.pages = @ + 1,
                          !.todo = @ \cup Found(p, fetched)]
<1>1. /\ c.at = "feed" /\ UNCHANGED quiet
      /\ \/ Step(p, Discovered(c))
         \/ Step(p, Discovered(d)) \/ Step(p, d)
  BY DEF FeedReply
<1>2. c \in Cycle /\ feed \in Seq(Msgs) /\ c.since \in Nat /\ c.since =< Len(feed) /\ Active(p)
  BY <1>1, CycleType DEF Cycle, Sound, Active
<1>3. top \in Nat /\ top >= c.since /\ top =< Len(feed)
  BY <1>2, BoardAssumption
<1> HIDE DEF top
<1>4. fetched \subseteq Posted /\ Posted \subseteq Msgs
  BY <1>2, <1>3 DEF Posted
<1> HIDE DEF fetched
<1>5. d \in Cycle
  <2>1. Found(p, fetched) \subseteq Msgs
    BY <1>4 DEF Found
  <2> QED
    <3>1. c.pages + 1 \in Nat
      BY <1>2 DEF Cycle
    <3> HIDE DEF fetched, top
    <3> QED
      BY <1>2, <1>3, <2>1, <3>1 DEF Cycle
<1>6. InHand(d) \subseteq Posted
  BY <1>2, <1>4 DEF MailInv, InHand, Found, Cycle
<1>7. file.seq \in Nat
  BY DEF IInv, TypeOK, State
<1>8. ASSUME ~upset PROVE Beyond(c, file.seq) /\ Beyond(d, file.seq)
  <2>1. Beyond(c, file.seq)
    BY <1>2, <1>8 DEF MailInv
  <2>2. d.since = top /\ d.seen = top
    BY <1>2 DEF Cycle
  <2>3. top >= file.seq
    BY <1>1, <1>2, <1>3, <1>7, <2>1 DEF Beyond
  <2> QED
    BY <2>1, <2>2, <2>3 DEF Beyond
<1> HIDE DEF d
<1>9. InHand(c) \subseteq Posted
  BY DEF MailInv
<1>10. ASSUME NEW e \in Cycle, InHand(e) \subseteq Posted, ~upset => Beyond(e, file.seq),
              Step(p, e) \/ Step(p, Discovered(e))
       PROVE  MailInv' /\ Mails
  <2>1. PICK x \in {e, Discovered(e)} : Step(p, x)
    BY <1>10
  <2>2. InHand(x) \subseteq Posted /\ (~upset => Beyond(x, file.seq))
    BY <1>10, DiscoveredMail
  <2> QED
    BY <1>1, <1>2, <2>1, <2>2, QuietMail
<1> QED
  BY <1>1, <1>2, <1>5, <1>6, <1>8, <1>9, <1>10

LEMMA ListReplyMail ==
    ASSUME IInv, NoticeInv, MailInv, IInv', NEW p \in Pollers, ListReply(p)
    PROVE  MailInv' /\ Mails
<1>1. PICK M \in SUBSET Posted :
          /\ run[p].at = "feed" /\ UNCHANGED quiet
          /\ Step(p, Discovered([run[p] EXCEPT !.todo = @ \cup Found(p, M)]))
  BY DEF ListReply
<1> DEFINE d == [run[p] EXCEPT !.todo = @ \cup Found(p, M)]
<1>2. run[p] \in Cycle /\ feed \in Seq(Msgs) /\ Active(p)
  BY <1>1, CycleType DEF Active
<1>3. M \subseteq Msgs
  BY <1>2 DEF Posted
<1>4. /\ d \in Cycle /\ d.at = run[p].at /\ d.since = run[p].since /\ d.seen = run[p].seen
      /\ InHand(d) \subseteq InHand(run[p]) \cup M
  BY <1>2, <1>3 DEF Cycle, InHand, Found
<1> HIDE DEF d
<1>5. InHand(d) \subseteq Posted /\ (~upset => Beyond(d, file.seq))
  BY <1>2, <1>4 DEF MailInv, Beyond
<1>6. Step(p, Discovered(d))
  BY <1>1 DEF d
<1> QED
  BY <1>1, <1>2, <1>4, <1>5, <1>6, DiscoveredMail, QuietMail

LEMMA PausesMail ==
    ASSUME IInv, NoticeInv, MailInv, IInv', NEW p \in Pollers, Abandon(p) \/ DeliverPause(p)
    PROVE  MailInv' /\ Mails
<1>1. CASE Abandon(p)
  BY <1>1, RestMail, QuietMail DEF Abandon, Active
<1>2. CASE DeliverPause(p)
  <2> DEFINE c == [Paused(run[p]) EXCEPT !.ok = {}]
  <2>1. run[p].at = "deliver" /\ Step(p, c) /\ UNCHANGED quiet /\ run[p] \in Cycle
    BY <1>2, CycleType DEF DeliverPause
  <2>2. InHand(c) \subseteq InHand(run[p]) /\ c.seen = 0 /\ c.at = "deliver"
    BY <2>1 DEF Paused, Cycle, InHand
  <2> HIDE DEF c
  <2>3. InHand(c) \subseteq Posted /\ Beyond(c, file.seq)
    BY <2>2 DEF MailInv, Beyond
  <2> QED
    BY <2>1, <2>3, QuietMail DEF Active
<1> QED
  BY <1>1, <1>2

LEMMA SkippedIs ==
    ASSUME NEW f \in State, NEW B \in SUBSET Msgs, NEW s, s = Mark(f, B, "skipped")
    PROVE  /\ s \in State /\ s.seq = f.seq /\ Handled(s) = Handled(f) \cup B
           /\ \A m \in Msgs \ B : s.entry[m] = f.entry[m]
           /\ \A m \in B : s.entry[m] = "skipped"
<1>1. s \in State /\ s.seq = f.seq /\ \A m \in Msgs : s.entry[m] = IF m \in B THEN "skipped" ELSE f.entry[m]
  BY DEF Mark, State, Entries
<1>2. Handled(s) = Handled(f) \cup B
  BY <1>1 DEF Handled
<1> QED
  BY <1>1, <1>2

\* What Skip leaves of the cycle c it is given.
LEMMA SkipMail ==
    ASSUME IInv, NoticeInv, MailInv, IInv', NEW p \in Pollers, run[p].at = "read",
           NEW c \in Cycle, Skip(p, c), c.at = "read", c.rt = run[p].rt, InHand(c) \subseteq Posted,
           Calm => Unhandled(c, Handled(file), notified),
           ~upset => Beyond(c, file.seq), feed' = feed, notified' = notified
    PROVE  MailInv' /\ Mails
<1> DEFINE over == [c EXCEPT !.at = "deliver", !.bad = {}]
           B == c.bad
           s == Mark(mem[c.rt], B, "skipped")
<1>1. B \subseteq Msgs /\ B \subseteq Posted /\ c.rt \in Runtimes /\ Active(p)
  BY CycleType DEF Cycle, Active, InHand
<1>2. /\ over.at = "deliver" /\ over.seen = c.seen /\ InHand(over) \subseteq Posted
  BY DEF Cycle, InHand
<1>3. ~upset => Beyond(over, file.seq)
  BY <1>2 DEF Beyond
<1> HIDE DEF over
<1>4. CASE /\ B = {} /\ Step(p, [c EXCEPT !.at = "deliver"])
           /\ UNCHANGED <<file, mem, skipped, upset, mishaps>>
  <2>1. [c EXCEPT !.at = "deliver"] = over
    BY <1>4 DEF Cycle, over
  <2>2. Known' = Known
    BY <1>4 DEF Known
  <2>3. MailInv'
    BY <1>1, <1>2, <1>3, <1>4, <2>1, <2>2, CycleMail DEF MailInv
  <2> QED
    BY <1>4, <2>3, Stutters
<1>5. CASE /\ B # {} /\ Step(p, over) /\ Save(c.rt, s) /\ skipped' = skipped \cup B
  <2> DEFINE f == mem[c.rt]
  <2>1. f \in State /\ B \in SUBSET Msgs /\ s = Mark(f, B, "skipped")
    BY <1>1 DEF IInv, TypeOK
  <2> HIDE DEF B, s, f
  <2>2. s \in State /\ Handled(s) = Handled(f) \cup B
    BY <2>1, SkippedIs
  <2>3. \A m \in Msgs \ B : s.entry[m] = f.entry[m]
    BY <2>1, SkippedIs
  <2>4. s.seq = f.seq /\ \A m \in B : s.entry[m] = "skipped"
    BY <2>1, SkippedIs
  <2>5. ASSUME ~upset'
        PROVE  /\ ~upset /\ Calm /\ file' = s /\ f = file
               /\ Unhandled(c, Handled(file), notified) /\ notified \subseteq Handled(file)
    <3>1. ~upset /\ file' = s
      BY <1>1, <1>5, <2>2, <2>5, WriteIs DEF Write
    <3> QED
      BY <1>1, <3>1, CalmIs DEF NoticeInv, f
  <2>6. Known' \subseteq Posted
    BY <1>1, <1>5 DEF MailInv, Known
  <2>7. MailInv' /\ (upset' => Mails)
    <3>1. ASSUME ~upset' PROVE skipped' \subseteq Handled(file') \ notified'
      <4>1. B \cap notified = {}
        BY <2>5, <3>1 DEF Unhandled, InHand, B
      <4> QED
        BY <1>5, <2>2, <2>5, <3>1, <4>1 DEF MailInv
    <3>2. ~upset' => Beyond(over, file'.seq)
      BY <1>3, <2>4, <2>5
    <3> QED
      BY <1>1, <1>2, <1>5, <2>5, <2>6, <3>1, <3>2, CycleMail
  <2>8. ASSUME ~upset' PROVE Mails
    <3>1. B \cap Handled(file) = {} /\ B \cap notified = {}
      BY <2>5, <2>8 DEF Unhandled, InHand, B
    <3>2. Acked(s) = Acked(file)
      BY <2>3, <2>4, <2>5, <2>8, <3>1 DEF Acked, Handled
    <3>3. skipped' \subseteq Posted \ notified
      BY <1>5, <2>5, <2>6, <2>8, <3>1 DEF MailInv, Known
    <3>4. upset' = upset
      BY <2>5, <2>8 DEF IInv, TypeOK
    <3>5. Mailbox!GiveUpSome
      BY <1>5, <3>4, <2>4, <2>5, <2>8, <3>2, <3>3, MailboxIs DEF Mailbox!GiveUpSome, Acked
    <3> QED
      BY <3>5 DEF Mails, Mailbox!Next
  <2> QED
    BY <2>7, <2>8
<1>6. ASSUME NEW M \in SUBSET B, SaveThrows(c.rt, Mark(mem[c.rt], M, "skipped")),
             Step(p, Rest(p)), skipped' = skipped \cup M
      PROVE  MailInv' /\ Mails
  <2>1. upset' /\ Known' \subseteq Posted
    BY <1>1, <1>6 DEF SaveThrows, Known, MailInv
  <2> QED
    BY <1>1, <1>6, <2>1, RestMail, CycleMail
<1> QED
  BY <1>4, <1>5, <1>6 DEF Skip, over

LEMMA ReadReplyMail ==
    ASSUME IInv, NoticeInv, MailInv, IInv', NEW p \in Pollers, NEW m \in Msgs, ReadReply(p, m)
    PROVE  MailInv' /\ Mails
<1> DEFINE c == [run[p] EXCEPT !.todo = @ \ {m}]
           good == [c EXCEPT !.ok = @ \cup {m}]
           bad == [c EXCEPT !.bad = @ \cup {m}]
           Go(d) == IF d.todo = {} THEN Skip(p, d)
                    ELSE Step(p, d) /\ UNCHANGED <<file, mem, skipped, upset, mishaps>>
<1>1. /\ run[p].at = "read" /\ m \in run[p].todo
      /\ Go(good) \/ Go(bad)
      /\ feed' = feed /\ notified' = notified
  BY DEF ReadReply
<1>2. run[p] \in Cycle /\ Active(p)
  BY <1>1, CycleType DEF Active
<1>3. /\ c \in Cycle /\ c.at = "read" /\ c.rt = run[p].rt /\ c.seen = run[p].seen
      /\ c.todo = run[p].todo \ {m} /\ c.ok = run[p].ok /\ c.bad = run[p].bad
  BY <1>1, <1>2 DEF Cycle
<1>4. ASSUME NEW d \in {good, bad}
      PROVE  /\ d \in Cycle /\ d.at = "read" /\ d.seen = run[p].seen
             /\ d.rt = run[p].rt /\ d.todo = run[p].todo \ {m}
             /\ \/ d.ok = run[p].ok \cup {m} /\ d.bad = run[p].bad
                \/ d.ok = run[p].ok /\ d.bad = run[p].bad \cup {m}
  <2> HIDE DEF c
  <2> QED
    BY <1>3, <1>4 DEF Cycle
<1>5. PICK d \in {good, bad} : Go(d)
  BY <1>1
<1> HIDE DEF good, bad
<1>6. /\ d \in Cycle /\ d.at = "read" /\ d.seen = run[p].seen
      /\ d.rt = run[p].rt /\ d.todo = run[p].todo \ {m}
      /\ \/ d.ok = run[p].ok \cup {m} /\ d.bad = run[p].bad
         \/ d.ok = run[p].ok /\ d.bad = run[p].bad \cup {m}
  BY <1>4
<1>7. ASSUME Calm PROVE Unhandled(d, Handled(file), notified)
  <2>1. Unhandled(run[p], Handled(file), notified)
    BY <1>2, <1>7, CalmIs
  <2> QED
    BY <1>1, <1>6, <2>1 DEF Unhandled, InHand
<1>8. InHand(d) \subseteq Posted
  BY <1>1, <1>6 DEF MailInv, InHand
<1>9. ~upset => Beyond(d, file.seq)
  BY <1>2, <1>6 DEF MailInv, Beyond
<1>10. CASE d.todo = {}
  <2>1. Skip(p, d)
    BY <1>5, <1>10
  <2> QED
    BY <1>1, <1>6, <1>7, <1>8, <1>9, <2>1, SkipMail
<1>11. CASE d.todo # {}
  <2>1. Step(p, d) /\ UNCHANGED <<file, mem, skipped, upset, mishaps>>
    BY <1>5, <1>11
  <2>2. Known' = Known
    BY <1>1, <2>1 DEF Known
  <2>3. MailInv'
    BY <1>1, <1>2, <1>8, <1>9, <2>1, <2>2, CycleMail DEF MailInv
  <2> QED
    BY <1>1, <2>1, <2>3, Stutters
<1> QED
  BY <1>10, <1>11

LEMMA ReadPauseMail ==
    ASSUME IInv, NoticeInv, MailInv, IInv', NEW p \in Pollers, ReadPause(p)
    PROVE  MailInv' /\ Mails
<1> DEFINE c == [Paused(run[p]) EXCEPT !.todo = {}]
<1>1. run[p].at = "read" /\ Skip(p, c) /\ feed' = feed /\ notified' = notified
  BY DEF ReadPause
<1>2. run[p] \in Cycle /\ Active(p)
  BY <1>1, CycleType DEF Active
<1>3. /\ c \in Cycle /\ c.at = "read" /\ c.rt = run[p].rt /\ c.seen = 0
      /\ c.todo = {} /\ c.ok = run[p].ok /\ c.bad = run[p].bad
  BY <1>1, <1>2 DEF Cycle, Paused
<1> HIDE DEF c
<1>4. InHand(c) \subseteq Posted /\ Beyond(c, file.seq)
  BY <1>3 DEF MailInv, InHand, Beyond
<1>5. Calm => Unhandled(c, Handled(file), notified)
  BY <1>1, <1>2, <1>3, CalmIs DEF Unhandled, InHand
<1> QED
  BY <1>1, <1>3, <1>4, <1>5, SkipMail

\* A message that is told has neither been told nor given up.
LEMMA DeliverMail ==
    ASSUME IInv, NoticeInv, MailInv, IInv', NEW p \in Pollers, NEW m \in Msgs, Deliver(p, m)
    PROVE  MailInv' /\ Mails
<1> DEFINE d == [run[p] EXCEPT !.at = "record", !.ok = @ \ {m}, !.msg = m]
<1>1. /\ run[p].at = "deliver" /\ m \in run[p].ok /\ Step(p, d)
      /\ notified' = notified \cup {m}
      /\ file' = file /\ feed' = feed /\ upset' = upset /\ skipped' = skipped
  BY DEF Deliver
<1>2. run[p] \in Cycle /\ Active(p)
  BY <1>1, CycleType DEF Active
<1>3. /\ d.at = "record" /\ d.seen = run[p].seen /\ InHand(d) \subseteq InHand(run[p])
  BY <1>1, <1>2 DEF Cycle, InHand
<1> HIDE DEF d
<1>4. m \in Posted
  BY <1>1 DEF MailInv, InHand
<1>5. ASSUME ~upset PROVE m \notin Known /\ skipped' \subseteq Handled(file') \ notified'
  <2>1. /\ Unhandled(run[p], Handled(file), notified) /\ notified \subseteq Handled(file)
        /\ skipped \subseteq Handled(file) \ notified
    BY <1>1, <1>2, <1>5, CalmIs DEF NoticeInv, MailInv
  <2>2. m \notin Handled(file)
    BY <1>1, <2>1 DEF Unhandled, InHand
  <2> QED
    BY <1>1, <2>1, <2>2 DEF Known
<1>6. InHand(d) \subseteq Posted /\ (~upset => Beyond(d, file.seq))
  BY <1>2, <1>3 DEF MailInv, Beyond
<1>7. Known' \subseteq Posted
  BY <1>1, <1>4 DEF Known, MailInv
<1>8. MailInv' /\ (upset' => Mails)
  BY <1>1, <1>2, <1>5, <1>6, <1>7, CycleMail
<1>9. ASSUME ~upset PROVE Mails
  <2>1. Mailbox!Tell(m)
    BY <1>1, <1>4, <1>5, <1>9, MailboxIs DEF Mailbox!Tell
  <2> QED
    BY <2>1 DEF Mails, Mailbox!Next
<1> QED
  BY <1>1, <1>8, <1>9

LEMMA RecordMail ==
    ASSUME IInv, NoticeInv, MailInv, IInv', NEW p \in Pollers, Record(p)
    PROVE  MailInv' /\ Mails
<1> DEFINE n == run[p].msg
           f == mem[run[p].rt]
           s == Mark(f, {n}, "delivered")
           d == [run[p] EXCEPT !.at = "deliver", !.msg = NoMsg]
<1>1. /\ run[p].at = "record" /\ feed' = feed /\ notified' = notified /\ skipped' = skipped
      /\ \/ Step(p, d) /\ Write(run[p].rt, s)
         \/ Step(p, Rest(p)) /\ upset'
  BY DEF Record, Write, history, SaveThrows
<1>2. /\ run[p] \in Cycle /\ Active(p) /\ run[p].rt \in Runtimes /\ n \in Msgs
  BY <1>1, CycleType DEF Active, Sound
<1>3. /\ d.at = "deliver" /\ d.seen = run[p].seen /\ InHand(d) \subseteq InHand(run[p])
  BY <1>1, <1>2 DEF Cycle, InHand
<1> HIDE DEF d
<1>4. InHand(d) \subseteq Posted /\ (~upset => Beyond(d, file.seq))
  BY <1>2, <1>3 DEF MailInv, Beyond
<1>5. f \in State
  BY <1>2 DEF IInv, TypeOK
<1>6. /\ s \in State /\ s.seq = f.seq /\ Handled(s) = Handled(f) \cup {n}
      /\ \A m \in Msgs \ {n} : s.entry[m] = f.entry[m]
      /\ s.entry[n] = "delivered"
  <2> HIDE DEF f, n
  <2>1. s \in State /\ s.seq = f.seq
        /\ \A m \in Msgs : s.entry[m] = IF m = n THEN "delivered" ELSE f.entry[m]
    BY <1>2, <1>5 DEF Mark, State, Entries
  <2> QED
    BY <1>2, <2>1 DEF Handled
<1> HIDE DEF s
<1>7. ASSUME Step(p, d), Write(run[p].rt, s), ~upset'
      PROVE  /\ ~upset /\ file' = s /\ f = file /\ n \notin Handled(file)
             /\ skipped \subseteq Handled(file) \ notified
  <2>1. ~upset /\ file' = s
    BY <1>2, <1>6, <1>7, WriteIs
  <2>2. f = file /\ Unhandled(run[p], Handled(file), notified)
    BY <1>2, <2>1, CalmIs DEF NoticeInv
  <2> QED
    BY <1>1, <2>1, <2>2 DEF Unhandled, MailInv
<1>8. Known' = Known
  BY <1>1 DEF Known
<1>9. CASE Step(p, d) /\ Write(run[p].rt, s)
  <2>1. MailInv' /\ (upset' => Mails)
    BY <1>1, <1>2, <1>4, <1>6, <1>7, <1>8, <1>9, CycleMail DEF MailInv
  <2>2. ASSUME ~upset' PROVE Mails
    <3>1. Acked(s) = Acked(file)
      BY <1>6, <1>7, <1>9, <2>2 DEF Acked, Handled
    <3>2. upset' = upset
      BY <1>7, <1>9, <2>2 DEF IInv, TypeOK
    <3> QED
      BY <1>1, <1>6, <1>7, <1>9, <2>2, <3>1, <3>2, Stutters
  <2> QED
    BY <2>1, <2>2
<1>10. CASE Step(p, Rest(p)) /\ upset'
  BY <1>1, <1>2, <1>8, <1>10, RestMail, CycleMail DEF MailInv
<1> QED
  BY <1>1, <1>9, <1>10

\* The cursor that is put in its place is not before the one that was there.
LEMMA EndCycleMail ==
    ASSUME IInv, NoticeInv, MailInv, IInv', NEW p \in Pollers, EndCycle(p)
    PROVE  MailInv' /\ Mails
<1> DEFINE c == run[p]
           f == mem[c.rt]
           s == [f EXCEPT !.seq = c.seen]
<1>1. /\ c.at = "deliver" /\ Step(p, Rest(p))
      /\ feed' = feed /\ notified' = notified /\ skipped' = skipped
      /\ \/ c.seen # 0 /\ Write(c.rt, s)
         \/ c.seen = 0 /\ UNCHANGED <<file, mem, upset, mishaps>>
  BY DEF EndCycle, history
<1>2. /\ c \in Cycle /\ Active(p) /\ c.rt \in Runtimes /\ c.seen \in Nat
  BY <1>1, CycleType DEF Active, Cycle
<1>3. f \in State
  BY <1>2 DEF IInv, TypeOK
<1>4. s \in State /\ s.seq = c.seen /\ s.entry = f.entry
  BY <1>2, <1>3 DEF State
<1> HIDE DEF s
<1>5. Known' = Known
  BY <1>1 DEF Known
<1>6. CASE c.seen = 0 /\ UNCHANGED <<file, mem, upset, mishaps>>
  <2>1. MailInv'
    BY <1>1, <1>2, <1>5, <1>6, RestMail, CycleMail DEF MailInv
  <2> QED
    BY <1>1, <1>6, <2>1, Stutters
<1>7. CASE c.seen # 0 /\ Write(c.rt, s)
  <2>1. ASSUME ~upset'
        PROVE  /\ ~upset /\ file' = s /\ f = file /\ c.seen >= file.seq
               /\ skipped \subseteq Handled(file) \ notified
    <3>1. ~upset /\ file' = s
      BY <1>2, <1>4, <1>7, <2>1, WriteIs
    <3> QED
      BY <1>2, <1>7, <3>1, CalmIs DEF NoticeInv, MailInv, Beyond
  <2>2. ~upset' => skipped' \subseteq Handled(file') \ notified'
    BY <1>1, <1>4, <2>1 DEF Handled
  <2>3. MailInv' /\ (upset' => Mails)
    BY <1>1, <1>2, <1>5, <2>1, <2>2, RestMail, CycleMail DEF MailInv
  <2>4. ASSUME ~upset' PROVE Mails
    <3>1. upset' = upset
      BY <2>1, <2>4 DEF IInv, TypeOK
    <3>2. {m \in Msgs : file'.entry[m] = "acked"} = {m \in Msgs : file.entry[m] = "acked"}
      BY <1>4, <2>1, <2>4
    <3>3. file'.seq =< Len(feed') /\ Passed(file'.seq, feed', Known')
      BY DEF IInv, Good
    <3>4. Mailbox!Covered'
      BY <3>3 DEF Passed, Known, Mailbox!Covered, Mailbox!Known
    <3>5. file'.seq \in file.seq..Len(feed)
      BY <1>1, <1>2, <1>4, <2>1, <2>4, <3>3 DEF IInv, TypeOK, State
    <3>6. Mailbox!MoveOn
      BY <1>1, <2>1, <2>4, <3>1, <3>2, <3>4, <3>5 DEF Mailbox!MoveOn
    <3> QED
      BY <3>6 DEF Mails, Mailbox!Next
  <2> QED
    BY <2>3, <2>4
<1> QED
  BY <1>1, <1>6, <1>7

LEMMA CycleStepMail ==
    ASSUME IInv, NoticeInv, MailInv, IInv', NEW p \in Pollers, CycleStep(p)
    PROVE  MailInv' /\ Mails
BY StartCycleMail, FeedReplyMail, ListReplyMail, PausesMail, ReadPauseMail, RecordMail,
   EndCycleMail, ReadReplyMail, DeliverMail DEF CycleStep

\* Sessions and pollers come and go, and the file stays.
LEMMA SessionMail ==
    ASSUME IInv, MailInv, IInv', UNCHANGED <<feed, file, notified, skipped>>,
           upset => upset',
           \A p \in Pollers : \/ InHand(run'[p]) = {} /\ \A n : Beyond(run'[p], n)
                             \/ /\ Active(p)' => Active(p)
                                /\ InHand(run'[p]) = InHand(run[p])
                                /\ \A n : Beyond(run[p], n) => Beyond(run'[p], n)
    PROVE  MailInv' /\ Mails
<1>1. Posted' = Posted /\ Known' = Known
  BY DEF Posted, Known
<1>2. \A p \in Pollers : InHand(run'[p]) \subseteq Posted
  BY DEF MailInv
<1>3. ASSUME ~upset'
      PROVE  \A p \in Pollers : Active(p)' => Beyond(run'[p], file'.seq)
  <2>1. file' = file /\ \A p \in Pollers : Active(p) => Beyond(run[p], file.seq)
    BY <1>3 DEF MailInv
  <2> QED
    BY <2>1
<1>4. MailInv'
  BY <1>1, <1>2, <1>3 DEF MailInv
<1>5. CASE upset'
  BY <1>4, <1>5, Disturbs
<1>6. CASE ~upset'
  <2>1. upset' = upset
    BY <1>6 DEF IInv, TypeOK
  <2> QED
    BY <1>4, <2>1, Stutters
<1> QED
  BY <1>4, <1>5, <1>6

LEMMA StoppedMail ==
    ASSUME IInv, NEW r \in Runtimes, run' = Stopped(r), NEW p \in Pollers
    PROVE  \/ InHand(run'[p]) = {} /\ \A n : Beyond(run'[p], n)
           \/ /\ Active(p)' => Active(p)
              /\ InHand(run'[p]) = InHand(run[p])
              /\ \A n : Beyond(run[p], n) => Beyond(run'[p], n)
<1> DEFINE d == [run[p] EXCEPT !.stopped = TRUE]
<1>1. run[p] \in Cycle
  BY CycleType
<1>2. /\ d.at = run[p].at /\ d.since = run[p].since /\ d.seen = run[p].seen
      /\ d.todo = run[p].todo /\ d.ok = run[p].ok /\ d.bad = run[p].bad
  BY <1>1 DEF Cycle
<1> HIDE DEF d
<1>3. run'[p] \in {run[p], d, NoCycle}
  BY DEF Stopped, d
<1>4. InHand(NoCycle) = {} /\ \A n : Beyond(NoCycle, n)
  BY DEF NoCycle, InHand, Beyond
<1>5. CASE run'[p] = d
  BY <1>2, <1>5 DEF InHand, Beyond, Active
<1> QED
  BY <1>3, <1>4, <1>5 DEF Active

LEMMA AckMail ==
    ASSUME IInv, NoticeInv, MailInv, IInv', NEW r \in Runtimes, NEW m \in Msgs, Ack(r, m)
    PROVE  MailInv' /\ Mails
<1> DEFINE f == mem[r]
           s == Mark(f, {m}, "acked")
<1>1. /\ r \in open /\ m \in Handled(f) /\ Write(r, s)
      /\ UNCHANGED <<feed, notified, skipped, run>>
  BY DEF Ack, history
<1>2. f \in State
  BY DEF IInv, TypeOK
<1>3. s \in State /\ s.seq = f.seq /\ Handled(s) = Handled(f) \cup {m}
      /\ \A n \in Msgs : s.entry[n] = IF n = m THEN "acked" ELSE f.entry[n]
  <2> HIDE DEF f
  <2>1. s \in State /\ s.seq = f.seq
        /\ \A n \in Msgs : s.entry[n] = IF n = m THEN "acked" ELSE f.entry[n]
    BY <1>2 DEF Mark, State, Entries
  <2> QED
    BY <2>1 DEF Handled
<1> HIDE DEF s
<1>4. ASSUME ~upset'
      PROVE  ~upset /\ file' = s /\ f = file
  <2>1. ~upset /\ file' = s
    BY <1>1, <1>3, <1>4, WriteIs
  <2> QED
    BY <1>1, <2>1 DEF NoticeInv, Calm, InSync
<1>5. Posted' = Posted /\ Known' = Known
  BY <1>1 DEF Posted, Known
<1>6. ASSUME ~upset' PROVE /\ skipped' \subseteq Handled(file') \ notified'
                           /\ \A p \in Pollers : Active(p)' => Beyond(run'[p], file'.seq)
  <2>1. file'.seq = file.seq /\ Handled(file) \subseteq Handled(file')
    BY <1>3, <1>4, <1>6
  <2> QED
    BY <1>1, <1>4, <1>6, <2>1 DEF MailInv, Active
<1>7. MailInv'
  BY <1>1, <1>5, <1>6 DEF MailInv
<1>8. ASSUME ~upset' PROVE Mails
  <2>1. upset' = upset
    BY <1>4, <1>8 DEF IInv, TypeOK
  <2>2. Acked(file') = Acked(file) \cup {m}
    BY <1>3, <1>4, <1>8 DEF Acked
  <2>3. m \in Known
    BY <1>1 DEF IInv, Good
  <2>4. file'.seq = file.seq
    BY <1>3, <1>4, <1>8
  <2>5. Mailbox!Acknowledge(m)
    BY <1>1, <1>4, <1>8, <2>1, <2>2, <2>3, <2>4, MailboxIs DEF Mailbox!Acknowledge, Acked
  <2> QED
    BY <2>5 DEF Mails, Mailbox!Next
<1> QED
  BY <1>1, <1>7, <1>8, Disturbs

LEMMA GcMail ==
    ASSUME IInv, MailInv, IInv', NEW r \in Runtimes, Gc(r)
    PROVE  MailInv' /\ Mails
<1>1. upset' /\ UNCHANGED <<feed, notified, skipped, run>>
  BY DEF Gc, Stored, SaveThrows, history
<1>2. Posted' = Posted /\ Known' = Known
  BY <1>1 DEF Posted, Known
<1>3. MailInv'
  BY <1>1, <1>2 DEF MailInv
<1> QED
  BY <1>1, <1>3, Disturbs

LEMMA SessionStepMail ==
    ASSUME IInv, NoticeInv, MailInv, IInv', NEW r \in Runtimes, SessionStep(r)
    PROVE  MailInv' /\ Mails
<1>1. CASE Build(r) \/ BreakLock(r) \/ Retry(r)
  <2>1. UNCHANGED <<feed, file, notified, skipped, run>> /\ (upset => upset')
    <3>1. CASE Build(r)
      BY <3>1 DEF Build, history
    <3>2. CASE BreakLock(r)
      BY <3>2 DEF BreakLock, history
    <3>3. CASE Retry(r)
      BY <3>3 DEF Retry, history
    <3> QED
      BY <1>1, <3>1, <3>2, <3>3
  <2> QED
    BY <2>1, SessionMail DEF Active
<1>2. CASE Stop(r) \/ Shutdown(r) \/ Start(r)
  <2>1. /\ UNCHANGED <<feed, file, notified, skipped>> /\ (upset => upset')
        /\ run' = Stopped(r)
    <3>1. CASE Stop(r)
      BY <3>1 DEF Stop, history
    <3>2. CASE Shutdown(r)
      BY <3>2 DEF Shutdown, history
    <3>3. CASE Start(r)
      BY <3>3 DEF Start, history
    <3> QED
      BY <1>2, <3>1, <3>2, <3>3
  <2> QED
    BY <2>1, StoppedMail, SessionMail
<1>3. CASE Locked(r)
  <2> DEFINE d == [NoCycle EXCEPT !.at = "idle", !.rt = r]
  <2>1. UNCHANGED <<feed, file, notified, skipped>> /\ (upset => upset')
    BY <1>3 DEF Locked, history
  <2>2. PICK p \in Pollers : Step(p, d)
    BY <1>3 DEF Locked
  <2>3. InHand(d) = {} /\ \A n : Beyond(d, n)
    BY DEF NoCycle, InHand, Beyond
  <2> HIDE DEF d
  <2>4. \A q \in Pollers : run'[q] = IF q = p THEN d ELSE run[q]
    BY <2>2 DEF Step, IInv, TypeOK
  <2> QED
    BY <2>1, <2>3, <2>4, SessionMail DEF Active
<1> QED
  BY <1>1, <1>2, <1>3, GcMail, AckMail DEF SessionStep

LEMMA CrashMail ==
    ASSUME IInv, MailInv, IInv', NEW R \in SUBSET Runtimes, Crash(R)
    PROVE  MailInv' /\ Mails
<1>1. /\ UNCHANGED <<feed, file, notified, skipped>> /\ (upset => upset')
      /\ run' = [p \in Pollers |-> IF run[p].rt \in R THEN NoCycle ELSE run[p]]
  BY DEF Crash, history
<1>2. InHand(NoCycle) = {} /\ \A n : Beyond(NoCycle, n)
  BY DEF NoCycle, InHand, Beyond
<1>3. \A p \in Pollers : run'[p] \in {run[p], NoCycle}
  BY <1>1
<1> QED
  BY <1>1, <1>2, <1>3, SessionMail DEF Active

LEMMA PostMail ==
    ASSUME IInv, MailInv, NEW m \in Msgs, Post(m)
    PROVE  MailInv' /\ Mails
<1>1. /\ feed' = Append(feed, m) /\ feed \in Seq(Msgs)
      /\ UNCHANGED <<file, run, notified, skipped, upset>>
  BY DEF Post, history, IInv, TypeOK
<1>2. Posted \subseteq Posted' /\ Known' = Known
  BY <1>1, PostedGrows DEF Known
<1>3. MailInv'
  BY <1>1, <1>2 DEF MailInv, Active, Handled
<1>4. Mailbox!Post(m)
  BY <1>1 DEF Mailbox!Post
<1> QED
  BY <1>3, <1>4 DEF Mails, Mailbox!Next

LEMMA NextMail == IInv /\ NoticeInv /\ MailInv /\ [Next]_vars => MailInv' /\ Mails
<1> SUFFICES ASSUME IInv, NoticeInv, MailInv, [Next]_vars PROVE MailInv' /\ Mails
  OBVIOUS
<1>1. IInv'
  BY NextKeeps
<1>2. CASE UNCHANGED vars
  BY <1>1, <1>2, SessionMail DEF vars, history, Active
<1> QED
  BY <1>1, <1>2, CycleStepMail, SessionStepMail, CrashMail, PostMail DEF Next

LEMMA MailboxInit == Init => MailInv /\ Mailbox!Init
<1> SUFFICES ASSUME Init PROVE MailInv /\ Mailbox!Init
  OBVIOUS
<1>1. \A p \in Pollers : InHand(run[p]) = {} /\ ~Active(p)
  BY DEF Init, NoCycle, InHand, Active
<1>2. file.seq = 0 /\ {m \in Msgs : file.entry[m] = "acked"} = {}
  BY DEF Init, Fresh
<1> QED
  BY <1>1, <1>2 DEF Init, MailInv, Known, Mailbox!Init

\* Delivery to one consumer is a mailbox, through restarts, fallbacks, lock races
\* and crashes: each message is told once or given up, not both, the cursor of the
\* file only goes forward, over messages whose fate is known, and what upsets the
\* file may bring back the cursor and the acknowledgements, not lose a message.
THEOREM DeliveryIsMailbox == Spec => IsMailbox
<1>1. Init => IInv /\ NoticeInv /\ MailInv /\ Mailbox!Init
  BY Initially, InitiallyCalm, MailboxInit
<1>2. IInv /\ NoticeInv /\ MailInv /\ [Next]_vars => (IInv /\ NoticeInv /\ MailInv)'
  BY NextKeeps, NextNotices, NextMail
<1>3. IInv /\ NoticeInv /\ MailInv /\ [Next]_vars => [Mailbox!Next]_Mailbox!vars
  BY NextMail DEF Mails
<1>4. Spec => Mailbox!Spec
  BY <1>1, <1>2, <1>3, PTL DEF Spec, Mailbox!Spec
<1> QED
  BY <1>4, NoticesAreKept DEF IsMailbox

-----------------------------------------------------------------------------
(* The paged listings, for any rows, limits and bounds.                    *)

\* The least number of a set: what replaces induction below is that a smallest
\* counterexample does not exist.
LEMMA Least ==
    ASSUME NEW T, T \subseteq Nat, T # {}
    PROVE  \E x \in T : \A y \in T : x <= y
<1> DEFINE R == OpToRel(<, Nat)
<1>1. \A x \in Nat, y \in Nat : x < y => <<x, y>> \in R
  BY DEF OpToRel
<1>2. IsWellFoundedOn(R, Nat)
  BY NatLessThanWellFounded
<1> HIDE DEF R
<1>3. PICK x \in T : \A y \in T : ~ (<<y, x>> \in R)
  BY <1>2, WFMin
<1>4. \A y \in T : ~ (y < x)
  BY <1>1, <1>3
<1> QED
  BY <1>4

\* The members of a sequence.
Elems(s) == {s[i] : i \in 1..Len(s)}

\* What the helper Within of the listings computes, element by element.
Picks(s, S, f) ==
    f = [n \in 0..Len(s) |->
            IF n = 0 THEN <<>> ELSE IF s[n] \in S THEN Append(f[n - 1], s[n]) ELSE f[n - 1]]

LEMMA PicksExist ==
    ASSUME NEW R, NEW s \in Seq(R), NEW S
    PROVE  \E f : Picks(s, S, f)
<1> DEFINE Next1(f, n) == IF s[n] \in S THEN Append(f[n - 1], s[n]) ELSE f[n - 1]
           Up(n, f) == /\ f \in [0..n -> Seq(R)] /\ f[0] = <<>>
                       /\ \A i \in 1..n : f[i] = Next1(f, i)
           T == {n \in 0..Len(s) : ~ \E f : Up(n, f)}
<1>1. Len(s) \in Nat /\ \A i \in 1..Len(s) : s[i] \in R
  OBVIOUS
<1>2. T = {}
  <2> SUFFICES ASSUME T # {} PROVE FALSE
    OBVIOUS
  <2>1. PICK x \in T : \A y \in T : x <= y
    <3> HIDE DEF T
    <3>1. T \subseteq Nat
      BY DEF T
    <3> QED
      BY <3>1, Least
  <2>2. x \in 0..Len(s) /\ ~ \E f : Up(x, f)
    OBVIOUS
  <2>3. x # 0
    <3>1. Up(0, [i \in 0..0 |-> <<>>])
      OBVIOUS
    <3> QED
      BY <2>2, <3>1
  <2>4. x - 1 \in 0..Len(s) /\ x - 1 \notin T
    <3>1. x \in Nat /\ x - 1 \in 0..Len(s) /\ ~(x <= x - 1)
      BY <1>1, <2>2, <2>3
    <3> HIDE DEF T
    <3> QED
      BY <2>1, <3>1
  <2>5. PICK f : Up(x - 1, f)
    BY <2>4
  <2> DEFINE g == [i \in 0..x |-> IF i = x THEN Next1(f, x) ELSE f[i]]
  <2>6. x \in 1..Len(s) /\ x - 1 \in 0..(x - 1)
    BY <1>1, <2>2, <2>3
  <2>7. Next1(f, x) \in Seq(R)
    <3>1. f[x - 1] \in Seq(R) /\ s[x] \in R
      BY <1>1, <2>5, <2>6
    <3> QED
      BY <3>1
  <2>8. g \in [0..x -> Seq(R)]
    <3> HIDE DEF Next1
    <3>1. \A i \in 0..x : i # x => i \in 0..(x - 1)
      BY <2>6, <1>1
    <3> QED
      BY <2>5, <2>7, <3>1
  <2>9. \A i \in 0..x : i < x => g[i] = f[i]
    BY <2>6, <1>1
  <2>10. g[0] = <<>> /\ g[x] = Next1(f, x)
    BY <2>5, <2>6, <1>1
  <2>11. \A i \in 1..x : g[i] = Next1(g, i)
    <3> SUFFICES ASSUME NEW i \in 1..x PROVE g[i] = Next1(g, i)
      OBVIOUS
    <3>1. i \in 0..x /\ i - 1 \in 0..x /\ i - 1 < x
      BY <2>6, <1>1
    <3>2. g[i - 1] = f[i - 1]
      BY <2>9, <3>1
    <3>3. CASE i = x
      BY <2>10, <3>2, <3>3
    <3>4. CASE i # x
      <4>1. i \in 1..(x - 1) /\ i < x
        BY <2>6, <1>1, <3>4
      <4>2. g[i] = f[i] /\ f[i] = Next1(f, i)
        BY <2>5, <2>9, <3>1, <4>1
      <4> HIDE DEF g
      <4> QED
        BY <3>2, <4>2
    <3> QED
      BY <3>3, <3>4
  <2>12. Up(x, g)
    <3> HIDE DEF g, Next1
    <3> QED
      BY <2>8, <2>10, <2>11
  <2> QED
    BY <2>2, <2>12
<1>3. PICK f : Up(Len(s), f)
  <2>1. Len(s) \in 0..Len(s)
    BY <1>1
  <2>2. Len(s) \notin T
    <3> HIDE DEF T
    <3> QED
      BY <1>2
  <2> QED
    BY <2>1, <2>2
<1>4. \A n \in 0..Len(s) :
         f[n] = IF n = 0 THEN <<>> ELSE IF s[n] \in S THEN Append(f[n - 1], s[n]) ELSE f[n - 1]
  <2>1. \A n \in 0..Len(s) : n # 0 => n \in 1..Len(s)
    BY <1>1
  <2> QED
    BY <1>3, <2>1
<1>5. f = [n \in 0..Len(s) |-> f[n]]
  BY <1>3
<1>6. Picks(s, S, f)
  BY <1>4, <1>5 DEF Picks
<1> QED
  BY <1>6

Distinct(s) == \A i, k \in 1..Len(s) : s[i] = s[k] => i = k

LEMMA AppendIs ==
    ASSUME NEW R, NEW s \in Seq(R), NEW r \in R
    PROVE  /\ Append(s, r) \in Seq(R) /\ Len(Append(s, r)) = Len(s) + 1
           /\ Elems(Append(s, r)) = Elems(s) \cup {r}
           /\ Distinct(s) /\ r \notin Elems(s) => Distinct(Append(s, r))
<1> DEFINE t == Append(s, r)
<1>1. /\ Len(s) \in Nat /\ t \in Seq(R) /\ Len(t) = Len(s) + 1
      /\ \A i \in 1..Len(s) : t[i] = s[i]
      /\ t[Len(s) + 1] = r
  OBVIOUS
<1> HIDE DEF t
<1>2. Elems(t) = Elems(s) \cup {r}
  <2>1. \A x \in Elems(t) : x \in Elems(s) \cup {r}
    BY <1>1 DEF Elems
  <2>2. Elems(s) \subseteq Elems(t)
    BY <1>1 DEF Elems
  <2>3. r \in Elems(t)
    <3>1. Len(s) + 1 \in 1..Len(t)
      BY <1>1
    <3> QED
      BY <1>1, <3>1 DEF Elems
  <2> QED
    BY <2>1, <2>2, <2>3
<1>3. ASSUME Distinct(s), r \notin Elems(s) PROVE Distinct(t)
  <2>1. \A i \in 1..Len(s) : s[i] # r
    BY <1>3 DEF Elems
  <2> QED
    BY <1>1, <1>3, <2>1 DEF Distinct
<1> QED
  BY <1>1, <1>2, <1>3 DEF t

\* Within(s, S) keeps the elements of s that are in S, and as often.
LEMMA WithinIs ==
    ASSUME NEW R, NEW s \in Seq(R), NEW S
    PROVE  /\ Listing!Within(s, S) \in Seq(R) /\ Elems(Listing!Within(s, S)) = Elems(s) \cap S
           /\ Distinct(s) => Distinct(Listing!Within(s, S))
           /\ Len(Listing!Within(s, S)) <= Len(s)
<1>1. PICK f : Picks(s, S, f) /\ Listing!Within(s, S) = f[Len(s)]
  <2>1. \E f : Picks(s, S, f)
    BY PicksExist
  <2> QED
    BY <2>1 DEF Listing!Within, Picks
<1>2. Len(s) \in Nat /\ \A i \in 1..Len(s) : s[i] \in R
  OBVIOUS
<1> DEFINE Upto(n) == {s[i] : i \in 1..n}
           Right(n) == /\ f[n] \in Seq(R) /\ Elems(f[n]) = Upto(n) \cap S
                       /\ Distinct(s) => Distinct(f[n])
                       /\ Len(f[n]) <= n
           T == {n \in 0..Len(s) : ~Right(n)}
<1>3. f[0] = <<>> /\ \A n \in 1..Len(s) :
                       f[n] = IF s[n] \in S THEN Append(f[n - 1], s[n]) ELSE f[n - 1]
  <2>1. f = [n \in 0..Len(s) |->
               IF n = 0 THEN <<>> ELSE IF s[n] \in S THEN Append(f[n - 1], s[n]) ELSE f[n - 1]]
    BY <1>1 DEF Picks
  <2>2. 0 \in 0..Len(s) /\ \A n \in 1..Len(s) : n \in 0..Len(s) /\ n # 0
    BY <1>2
  <2> QED
    BY <2>1, <2>2
<1>4. Right(0)
  BY <1>3 DEF Elems, Distinct
<1>5. \A n \in 1..Len(s) : Right(n - 1) => Right(n)
  <2> SUFFICES ASSUME NEW n \in 1..Len(s), Right(n - 1) PROVE Right(n)
    OBVIOUS
  <2>1. s[n] \in R /\ n \in Nat /\ n - 1 \in Nat /\ n - 1 < n
    BY <1>2
  <2>2. Upto(n) = Upto(n - 1) \cup {s[n]}
    <3>1. \A i \in 1..n : i \in 1..(n - 1) \/ i = n
      BY <2>1
    <3>2. \A i \in 1..(n - 1) : i \in 1..n
      BY <2>1
    <3>3. n \in 1..n
      BY <2>1
    <3> QED
      BY <3>1, <3>2, <3>3
  <2> HIDE DEF Upto
  <2>3. CASE s[n] \notin S
    <3>1. f[n] = f[n - 1] /\ Upto(n) \cap S = Upto(n - 1) \cap S
      BY <1>3, <2>2, <2>3
    <3>2. Len(f[n]) <= n
      BY <2>1, <3>1
    <3> QED
      BY <3>1, <3>2
  <2>4. CASE s[n] \in S
    <3>1. f[n] = Append(f[n - 1], s[n]) /\ Upto(n) \cap S = (Upto(n - 1) \cap S) \cup {s[n]}
      BY <1>3, <2>2, <2>4
    <3>2. f[n] \in Seq(R) /\ Elems(f[n]) = Elems(f[n - 1]) \cup {s[n]}
          /\ (Distinct(f[n - 1]) /\ s[n] \notin Elems(f[n - 1]) => Distinct(f[n]))
      BY <2>1, <3>1, AppendIs
    <3>4. Len(f[n]) <= n
      BY <2>1, <3>1
    <3>3. Distinct(s) => s[n] \notin Upto(n - 1)
      BY <1>2, <2>1 DEF Distinct, Upto
    <3> QED
      BY <3>1, <3>2, <3>3, <3>4
  <2> QED
    BY <2>3, <2>4
<1>6. T = {}
  <2> SUFFICES ASSUME T # {} PROVE FALSE
    OBVIOUS
  <2>1. T \subseteq Nat /\ \A n \in T : n \in 0..Len(s) /\ ~Right(n)
    BY <1>2
  <2>2. \A n \in 0..Len(s) : n \notin T => Right(n)
    OBVIOUS
  <2> HIDE DEF T, Right
  <2>3. PICK x \in T : \A y \in T : x <= y
    BY <2>1, Least
  <2>4. x # 0 /\ x \in 1..Len(s)
    BY <1>2, <1>4, <2>1
  <2>5. x - 1 \in 0..Len(s) /\ ~(x <= x - 1)
    BY <1>2, <2>4
  <2>6. Right(x - 1)
    BY <2>2, <2>3, <2>5
  <2> QED
    BY <1>5, <2>1, <2>4, <2>6
<1>7. Right(Len(s))
  <2>1. Len(s) \in 0..Len(s)
    BY <1>2
  <2> HIDE DEF Right
  <2> QED
    BY <1>6, <2>1
<1>8. Upto(Len(s)) = Elems(s)
  BY DEF Elems
<1> QED
  BY <1>1, <1>7, <1>8


LEMMA ConcatIs ==
    ASSUME NEW R, NEW s \in Seq(R), NEW t \in Seq(R), NEW w, w = s \o t
    PROVE  /\ w \in Seq(R) /\ Len(w) = Len(s) + Len(t)
           /\ \A a \in 1..Len(s) : w[a] = s[a]
           /\ \A a \in 1..Len(t) : w[Len(s) + a] = t[a]
<1>1. Len(s) \in Nat /\ Len(t) \in Nat
  OBVIOUS
<1>2. w \in Seq(R)
  OBVIOUS
<1>3. Len(w) = Len(s) + Len(t)
  OBVIOUS
<1>4. \A a \in 1..Len(s) : w[a] = s[a]
  BY <1>1
<1>5. \A a \in 1..Len(t) : w[Len(s) + a] = t[a]
  <2> SUFFICES ASSUME NEW a \in 1..Len(t) PROVE w[Len(s) + a] = t[a]
    OBVIOUS
  <2>1. Len(s) + a > Len(s) /\ Len(s) + a <= Len(s) + Len(t) /\ (Len(s) + a) - Len(s) = a
    BY <1>1
  <2> QED
    BY <1>1, <2>1
<1> QED
  BY <1>2, <1>3, <1>4, <1>5

Ins(s, i, r) == Listing!InsertAt(s, i, r)

\* A row goes between two, and those behind it move up.
LEMMA InsertIs ==
    ASSUME NEW R, NEW s \in Seq(R), NEW i \in 1..(Len(s) + 1), NEW r \in R
    PROVE  /\ Ins(s, i, r) \in Seq(R) /\ Len(Ins(s, i, r)) = Len(s) + 1
           /\ Ins(s, i, r)[i] = r
           /\ \A a \in 1..Len(s) :
                Ins(s, i, r)[IF a < i THEN a ELSE a + 1] = s[a]
           /\ Distinct(s) /\ r \notin Elems(s) => Distinct(Ins(s, i, r))
<1> DEFINE k  == Len(s)
           s1 == SubSeq(s, 1, i - 1)
           s2 == SubSeq(s, i, k)
           t  == Ins(s, i, r)
<1>1. k \in Nat /\ i \in Nat /\ i - 1 \in Nat /\ i <= k + 1 /\ 1 <= i
  OBVIOUS
<1>2. s1 \in Seq(R) /\ Len(s1) = i - 1 /\ \A a \in 1..(i - 1) : s1[a] = s[a]
  BY <1>1
<1>3. /\ s2 \in Seq(R) /\ Len(s2) = k - i + 1
      /\ \A a \in 1..(k - i + 1) : s2[a] = s[a + i - 1]
  BY <1>1
<1>4. t = (s1 \o <<r>>) \o s2
  BY DEF Ins, Listing!InsertAt
<1> HIDE DEF k, s1, s2, t
<1>5. /\ s1 \o <<r>> \in Seq(R) /\ Len(s1 \o <<r>>) = i
      /\ (s1 \o <<r>>)[i] = r /\ \A a \in 1..(i - 1) : (s1 \o <<r>>)[a] = s[a]
  BY <1>1, <1>2
<1> DEFINE u == s1 \o <<r>>
<1> HIDE DEF u
<1>6. t = u \o s2 /\ u \in Seq(R) /\ Len(u) = i /\ u[i] = r
      /\ \A a \in 1..(i - 1) : u[a] = s[a]
  BY <1>4, <1>5 DEF u
<1>7. t \in Seq(R) /\ Len(t) = k + 1
  <2>1. t \in Seq(R) /\ Len(t) = Len(u) + Len(s2)
    BY <1>3, <1>6, ConcatIs
  <2> QED
    BY <1>1, <1>3, <1>6, <2>1
<1>8. t[i] = r /\ \A a \in 1..(i - 1) : t[a] = s[a]
  <2>1. i \in 1..i /\ \A a \in 1..(i - 1) : a \in 1..i
    BY <1>1
  <2>2. \A a \in 1..i : t[a] = u[a]
    BY <1>3, <1>6
  <2> QED
    BY <1>6, <2>1, <2>2
<1>9. \A a \in i..k : t[a + 1] = s[a]
  <2> SUFFICES ASSUME NEW a \in i..k PROVE t[a + 1] = s[a]
    OBVIOUS
  <2>1. a + 1 - i \in 1..(k - i + 1) /\ a + 1 \in (i + 1)..(k + 1)
    BY <1>1
  <2>2. t[a + 1] = s2[a + 1 - i]
    BY <1>1, <1>3, <1>6, <2>1
  <2>3. s2[a + 1 - i] = s[(a + 1 - i) + i - 1]
    BY <1>3, <2>1
  <2>4. (a + 1 - i) + i - 1 = a
    BY <1>1
  <2> QED
    BY <2>2, <2>3, <2>4
<1>10. \A a \in 1..k : t[IF a < i THEN a ELSE a + 1] = s[a]
  <2> SUFFICES ASSUME NEW a \in 1..k PROVE t[IF a < i THEN a ELSE a + 1] = s[a]
    OBVIOUS
  <2>1. CASE a < i
    <3>1. a \in 1..(i - 1)
      BY <1>1, <2>1
    <3> QED
      BY <1>8, <2>1, <3>1
  <2>2. CASE ~(a < i)
    <3>1. a \in i..k
      BY <1>1, <2>2
    <3> QED
      BY <1>9, <2>2, <3>1
  <2> QED
    BY <2>1, <2>2
<1>11. ASSUME Distinct(s), r \notin Elems(s) PROVE Distinct(t)
  <2>1. \A b \in 1..(k + 1) : b # i => \E a \in 1..k : b = (IF a < i THEN a ELSE a + 1)
    <3> SUFFICES ASSUME NEW b \in 1..(k + 1), b # i
                 PROVE  \E a \in 1..k : b = (IF a < i THEN a ELSE a + 1)
      OBVIOUS
    <3>1. CASE b < i
      <4>1. b \in 1..k
        BY <1>1, <3>1
      <4> QED
        BY <3>1, <4>1
    <3>2. CASE b > i
      <4>1. b - 1 \in 1..k /\ ~(b - 1 < i) /\ (b - 1) + 1 = b
        BY <1>1, <3>2
      <4> QED
        BY <4>1
    <3> QED
      BY <1>1, <3>1, <3>2
  <2>2. \A a \in 1..k : s[a] # r
    BY <1>11 DEF Elems, k
  <2>3. \A a, b \in 1..k : s[a] = s[b] => a = b
    BY <1>11 DEF Distinct, k
  <2> SUFFICES ASSUME NEW a \in 1..(k + 1), NEW b \in 1..(k + 1), t[a] = t[b]
               PROVE  a = b
    BY <1>7 DEF Distinct
  <2>4. CASE a # i /\ b # i
    <3>1. PICK c \in 1..k : a = (IF c < i THEN c ELSE c + 1)
      BY <2>1, <2>4
    <3>2. PICK d \in 1..k : b = (IF d < i THEN d ELSE d + 1)
      BY <2>1, <2>4
    <3>3. t[a] = s[c] /\ t[b] = s[d]
      BY <1>10, <3>1, <3>2
    <3>4. c = d
      BY <2>3, <3>3
    <3> QED
      BY <3>1, <3>2, <3>4
  <2>5. CASE a = i /\ b # i
    BY <1>8, <1>10, <2>1, <2>2, <2>5
  <2>6. CASE a # i /\ b = i
    BY <1>8, <1>10, <2>1, <2>2, <2>6
  <2> QED
    BY <2>4, <2>5, <2>6
<1> QED
  BY <1>7, <1>8, <1>10, <1>11 DEF k, t

Del(s, i) == Listing!RemoveAt(s, i)

\* A row is taken out.
LEMMA RemoveIs ==
    ASSUME NEW R, NEW s \in Seq(R), NEW i \in 1..Len(s)
    PROVE  /\ Del(s, i) \in Seq(R)
           /\ Distinct(s) => Distinct(Del(s, i))
<1> DEFINE k  == Len(s)
           s1 == SubSeq(s, 1, i - 1)
           s2 == SubSeq(s, i + 1, k)
           t  == Del(s, i)
<1>1. k \in Nat /\ i \in Nat /\ i - 1 \in Nat /\ i <= k /\ 1 <= i /\ i + 1 \in Nat
  OBVIOUS
<1>2. s1 \in Seq(R) /\ Len(s1) = i - 1 /\ \A a \in 1..(i - 1) : s1[a] = s[a]
  BY <1>1
<1>3. s2 \in Seq(R) /\ Len(s2) = k - i
  BY <1>1
<1>4. \A a \in 1..(k - i) : s2[a] = s[a + i]
  BY <1>1
<1>5. t = s1 \o s2
  BY DEF Del, Listing!RemoveAt
<1> HIDE DEF k, s1, s2, t
<1>6. t \in Seq(R) /\ Len(t) = k - 1
  <2>0. s1 \in Seq(R) /\ s2 \in Seq(R) /\ t = s1 \o s2
    BY <1>2, <1>3, <1>5
  <2>1. t \in Seq(R) /\ Len(t) = Len(s1) + Len(s2)
    BY <2>0, ConcatIs
  <2> QED
    BY <1>1, <1>2, <1>3, <2>1
<1>7. \A a \in 1..(i - 1) : t[a] = s[a]
  BY <1>1, <1>2, <1>3, <1>5
<1>8. \A a \in i..(k - 1) : t[a] = s[a + 1]
  <2> SUFFICES ASSUME NEW a \in i..(k - 1) PROVE t[a] = s[a + 1]
    OBVIOUS
  <2>1. a - (i - 1) \in 1..(k - i) /\ (a - (i - 1)) + i = a + 1
    BY <1>1
  <2>2. t[a] = s2[a - (i - 1)]
    <3>1. a \in Nat /\ a > Len(s1) /\ a <= Len(s1) + Len(s2)
      BY <1>1, <1>2, <1>3
    <3>2. t[a] = s2[a - Len(s1)]
      BY <1>2, <1>3, <1>5, <3>1
    <3> QED
      BY <1>2, <3>2
  <2> QED
    BY <1>4, <2>1, <2>2
<1>9. \A a \in 1..(k - 1) : LET b == IF a < i THEN a ELSE a + 1
                            IN  b \in 1..k /\ t[a] = s[b]
  <2> SUFFICES ASSUME NEW a \in 1..(k - 1)
               PROVE  LET b == IF a < i THEN a ELSE a + 1 IN b \in 1..k /\ t[a] = s[b]
    OBVIOUS
  <2>1. CASE a < i
    <3>1. a \in 1..(i - 1) /\ a \in 1..k
      BY <1>1, <2>1
    <3> QED
      BY <1>7, <2>1, <3>1
  <2>2. CASE ~(a < i)
    <3>1. a \in i..(k - 1) /\ a + 1 \in 1..k
      BY <1>1, <2>2
    <3> QED
      BY <1>8, <2>2, <3>1
  <2> QED
    BY <2>1, <2>2
<1>10. ASSUME Distinct(s) PROVE Distinct(t)
  <2>1. \A a, b \in 1..k : s[a] = s[b] => a = b
    BY <1>10 DEF Distinct, k
  <2> SUFFICES ASSUME NEW a \in 1..(k - 1), NEW b \in 1..(k - 1), t[a] = t[b]
               PROVE  a = b
    BY <1>6 DEF Distinct
  <2> DEFINE up(c) == IF c < i THEN c ELSE c + 1
  <2>2. up(a) = up(b)
    BY <1>9, <2>1
  <2> QED
    BY <1>1, <2>2
<1> QED
  BY <1>6, <1>10 DEF t

Cut(s, n) == Listing!UpTo(s, n)

LEMMA UpToIs ==
    ASSUME NEW R, NEW s \in Seq(R), NEW n \in Nat
    PROVE  /\ Cut(s, n) \in Seq(R) /\ Len(Cut(s, n)) = IF n < Len(s) THEN n ELSE Len(s)
           /\ \A a \in 1..Len(Cut(s, n)) : Cut(s, n)[a] = s[a]
           /\ Distinct(s) => Distinct(Cut(s, n))
           /\ Len(s) <= n => Cut(s, n) = s
<1> DEFINE k == Len(s)
           m == IF n < k THEN n ELSE k
           t == Cut(s, n)
<1>1. k \in Nat /\ m \in Nat /\ m <= k
  OBVIOUS
<1>2. t = SubSeq(s, 1, m)
  BY DEF Cut, Listing!UpTo
<1>3. m = IF n < k THEN n ELSE k
  OBVIOUS
<1>4. k <= n => m = k
  BY <1>1
<1> HIDE DEF m, t
<1>5. t \in Seq(R)
  BY <1>1, <1>2
<1>6. Len(t) = m
  BY <1>1, <1>2
<1>7. \A a \in 1..m : t[a] = s[a]
  BY <1>1, <1>2
<1>8. Distinct(s) => Distinct(t)
  <2>1. \A a \in 1..m : a \in 1..k
    BY <1>1
  <2> QED
    BY <1>6, <1>7, <2>1 DEF Distinct
<1>9. k <= n => t = s
  <2> SUFFICES ASSUME k <= n PROVE t = s
    OBVIOUS
  <2>1. m = k
    BY <1>4
  <2> QED
    BY <1>5, <1>6, <1>7, <2>1
<1> QED
  BY <1>3, <1>5, <1>6, <1>7, <1>8, <1>9 DEF t

\* A page of a sequence: at most n members after the first so many.
Part(s, from, n) == Cut(SubSeq(s, from + 1, Len(s)), n)

LEMMA PartIs ==
    ASSUME NEW R, NEW s \in Seq(R), NEW from \in Nat, NEW n \in Nat \ {0}
    PROVE  /\ Part(s, from, n) \in Seq(R) /\ Len(Part(s, from, n)) <= n
           /\ Distinct(s) => Distinct(Part(s, from, n))
           /\ \A j \in 1..Len(s) : from < j /\ j <= from + n => s[j] \in Elems(Part(s, from, n))
           /\ Part(s, from, n) = << >> => Len(s) <= from
<1> DEFINE k == Len(s)
           rest == SubSeq(s, from + 1, k)
           size == IF from < k THEN k - from ELSE 0
           t == Part(s, from, n)
<1>1. k \in Nat /\ size \in Nat /\ size + from >= k /\ (from < k => size + from = k)
  OBVIOUS
<1>0. from >= k => size = 0
  BY <1>1
<1>2. size = IF from < k THEN k - from ELSE 0
  OBVIOUS
<1> HIDE DEF size
<1>3. rest \in Seq(R) /\ Len(rest) = size
  <2>1. CASE from < k
    <3>1. \A a \in (from + 1)..k : a \in 1..k /\ s[a] \in R
      OBVIOUS
    <3>2. from + 1 \in Nat /\ from + 1 <= k /\ (k - (from + 1)) + 1 = size
      BY <1>1, <2>1
    <3>3. Len(rest) = (k - (from + 1)) + 1
      BY <1>1, <3>1, <3>2
    <3>4. rest \in Seq(R)
      BY <1>1, <3>1, <3>2
    <3> QED
      BY <3>2, <3>3, <3>4
  <2>2. CASE ~(from < k)
    <3>1. size = 0 /\ from + 1 > k /\ from + 1 \in Nat
      BY <1>0, <1>1, <2>2
    <3>2. rest = << >>
      BY <1>1, <3>1
    <3> QED
      BY <3>1, <3>2
  <2> QED
    BY <2>1, <2>2
<1>4. \A a \in 1..size : rest[a] = s[a + from]
  <2>1. \A a \in 1..size : a + from \in 1..k /\ (from + 1) + a - 1 = a + from
    BY <1>0, <1>1
  <2>2. \A a \in 1..size : rest[a] = s[(from + 1) + a - 1]
    BY <1>1, <1>3
  <2> QED
    BY <2>1, <2>2
<1> HIDE DEF k, rest, t
<1>5. t = Cut(rest, n)
  BY DEF t, Part, rest, k
<1>6. Distinct(s) => Distinct(rest)
  <2> SUFFICES ASSUME Distinct(s), NEW a \in 1..size, NEW b \in 1..size, rest[a] = rest[b]
               PROVE  a = b
    BY <1>3 DEF Distinct
  <2>1. a + from \in 1..k /\ b + from \in 1..k /\ s[a + from] = s[b + from]
    BY <1>0, <1>1, <1>4
  <2>2. a + from = b + from
    BY <2>1 DEF Distinct, k
  <2> QED
    BY <1>1, <2>2
<1>7. /\ t \in Seq(R) /\ Len(t) = IF n < size THEN n ELSE size
      /\ \A a \in 1..Len(t) : t[a] = rest[a]
      /\ Distinct(rest) => Distinct(t)
  BY <1>3, <1>5, UpToIs
<1>8. Len(t) <= n
  BY <1>1, <1>7
<1>9. ASSUME NEW j \in 1..k, from < j, j <= from + n PROVE s[j] \in Elems(t)
  <2>1. /\ j - from \in 1..size /\ j - from <= n /\ (j - from) + from = j
    BY <1>1, <1>9
  <2>2. j - from \in 1..Len(t)
    BY <1>1, <1>7, <2>1
  <2>3. t[j - from] = s[j]
    BY <1>4, <1>7, <2>1, <2>2
  <2> QED
    BY <2>2, <2>3 DEF Elems
<1>10. ASSUME t = << >> PROVE k <= from
  <2>1. Len(t) = 0
    BY <1>10
  <2>2. size = 0
    BY <1>1, <1>7, <2>1
  <2> QED
    BY <1>1, <2>2
<1> QED
  BY <1>6, <1>7, <1>8, <1>9, <1>10 DEF k, t

LEMMA JoinIs ==
    ASSUME NEW R, NEW s \in Seq(R), NEW t \in Seq(R), NEW w, w = s \o t
    PROVE  /\ w \in Seq(R) /\ Len(w) = Len(s) + Len(t)
           /\ \A x : x \in Elems(w) <=> x \in Elems(s) \/ x \in Elems(t)
           /\ Distinct(s) /\ Distinct(t) /\ Elems(s) \cap Elems(t) = {} => Distinct(w)
<1> DEFINE k == Len(s)
           m == Len(t)
<1>1. /\ k \in Nat /\ m \in Nat /\ w \in Seq(R) /\ Len(w) = k + m
      /\ \A a \in 1..k : w[a] = s[a]
      /\ \A a \in 1..m : w[k + a] = t[a]
  <2>1. k \in Nat /\ m \in Nat
    OBVIOUS
  <2> QED
    BY <2>1, ConcatIs
<1> HIDE DEF k, m
<1>2. \A a \in 1..(k + m) : a \in 1..k \/ \E b \in 1..m : a = k + b
  <2> SUFFICES ASSUME NEW a \in 1..(k + m), a \notin 1..k PROVE \E b \in 1..m : a = k + b
    OBVIOUS
  <2>1. a - k \in 1..m /\ a = k + (a - k)
    BY <1>1
  <2> QED
    BY <2>1
<1>3. Elems(w) = Elems(s) \cup Elems(t)
  <2>1. \A x \in Elems(w) : x \in Elems(s) \cup Elems(t)
    BY <1>1, <1>2 DEF Elems, k, m
  <2>2. \A a \in 1..k : a \in 1..(k + m)
    BY <1>1
  <2>3. \A a \in 1..m : k + a \in 1..(k + m)
    BY <1>1
  <2>4. \A x \in Elems(s) : x \in Elems(w)
    BY <1>1, <2>2 DEF Elems, k
  <2>5. \A x \in Elems(t) : x \in Elems(w)
    BY <1>1, <2>3 DEF Elems, m
  <2> QED
    BY <2>1, <2>4, <2>5
<1>4. ASSUME Distinct(s), Distinct(t), Elems(s) \cap Elems(t) = {} PROVE Distinct(w)
  <2>1. \A a, b \in 1..k : s[a] = s[b] => a = b
    BY <1>4 DEF Distinct, k
  <2>2. \A a, b \in 1..m : t[a] = t[b] => a = b
    BY <1>4 DEF Distinct, m
  <2>3. \A a \in 1..k, b \in 1..m : s[a] # t[b]
    BY <1>4 DEF Elems, k, m
  <2> SUFFICES ASSUME NEW a \in 1..(k + m), NEW b \in 1..(k + m), w[a] = w[b]
               PROVE  a = b
    BY <1>1 DEF Distinct
  <2>4. CASE a \in 1..k /\ b \in 1..k
    BY <1>1, <2>1, <2>4
  <2>5. CASE a \in 1..k /\ b \notin 1..k
    <3>1. PICK c \in 1..m : b = k + c
      BY <1>2, <2>5
    <3>2. w[a] = s[a] /\ w[b] = t[c]
      BY <1>1, <2>5, <3>1
    <3> QED
      BY <2>3, <2>5, <3>2
  <2>6. CASE a \notin 1..k /\ b \in 1..k
    <3>1. PICK c \in 1..m : a = k + c
      BY <1>2, <2>6
    <3>2. w[a] = t[c] /\ w[b] = s[b]
      BY <1>1, <2>6, <3>1
    <3> QED
      BY <2>3, <2>6, <3>2
  <2>7. CASE a \notin 1..k /\ b \notin 1..k
    <3>1. PICK c \in 1..m : a = k + c
      BY <1>2, <2>7
    <3>2. PICK d \in 1..m : b = k + d
      BY <1>2, <2>7
    <3>3. t[c] = t[d]
      BY <1>1, <3>1, <3>2
    <3> QED
      BY <2>2, <3>1, <3>2, <3>3
  <2> QED
    BY <2>4, <2>5, <2>6, <2>7
<1> QED
  BY <1>1, <1>3, <1>4 DEF k, m

(************************ the invariant of a listing ************************)

From == IF ignores THEN 0 ELSE page * Limit
Wanted == (atStart \cap Fitting) \ exclude

\* The row has a page to come.
Ahead(r) == \E i \in 1..Len(rows) : rows[i] = r /\ (ignores \/ i > From)

RowsGood == rows \in Seq(Rows) /\ Distinct(rows) /\ ignores \in BOOLEAN
SeenGood ==
    /\ seen \in Seq(Fitting \ exclude) /\ Distinct(seen)
    /\ kind \in {"list", "all"} /\ (kind = "list" => exclude = {})
    /\ done \in BOOLEAN /\ truncated \in BOOLEAN /\ removed \in BOOLEAN /\ barren \in BOOLEAN
    /\ page \in 0..ListPages /\ moves \in 0..ListMoves
    /\ ~done => page < ListPages
    /\ kind = "list" => Len(seen) <= Limit /\ (~done => Len(seen) < Limit)
    /\ kind = "all" => Len(seen) <= MaxPaths

\* What is wanted has been seen or is still ahead, while the listing goes on.
NothingPassed == ~done /\ ~removed => \A r \in Wanted : r \in Elems(seen) \/ Ahead(r)

ListInv ==
    /\ RowsGood /\ SeenGood /\ NothingPassed
    /\ Listing!CompleteOrDisclosed /\ Listing!UnderfillIsComplete

LEMMA PageGrows ==
    ASSUME page \in Nat, Limit \in Nat, page' = page + 1, ignores' = ignores
    PROVE  From \in Nat /\ (~ignores => From' = From + Limit)
<1>1. page * Limit \in Nat /\ (page + 1) * Limit = page * Limit + Limit
  OBVIOUS
<1> QED
  BY <1>1 DEF From

\* What the page adds, and what it leaves out.
LEMMA PageIs ==
    ASSUME RowsGood, SeenGood, Listing!BoundsAssumption,
           NEW all, all = seen \o Listing!Kept
    PROVE  /\ all \in Seq(Fitting \ exclude) /\ Distinct(all)
           /\ Len(all) <= Len(seen) + Limit
           /\ \A x \in Elems(seen) : x \in Elems(all)
           /\ \A r \in Fitting \ exclude : \A j \in 1..Len(rows) :
                rows[j] = r /\ From < j /\ j <= From + Limit => r \in Elems(all)
           /\ Listing!Raw = << >> => Len(rows) <= From
           /\ Listing!Raw = << >> => Listing!Kept = << >>
<1> DEFINE raw  == Listing!Raw
           kept == Listing!Kept
           new  == Fitting \ (exclude \cup Elems(seen))
<1>1. /\ Limit \in Nat \ {0} /\ page \in Nat /\ From \in Nat /\ rows \in Seq(Rows)
      /\ Distinct(rows)
  <2>1. Limit \in Nat \ {0} /\ page \in Nat
    BY DEF Listing!BoundsAssumption, SeenGood
  <2>2. page * Limit \in Nat
    BY <2>1
  <2> QED
    BY <2>1, <2>2 DEF RowsGood, From
<1>2. raw = Part(rows, From, Limit)
  BY DEF Listing!Raw, Part, Cut, From
<1>3. kept = Listing!Within(raw, new)
  <2>1. Listing!ToSet(seen) = Elems(seen)
    <3>1. DOMAIN seen = 1..Len(seen)
      BY DEF SeenGood
    <3> QED
      BY <3>1 DEF Listing!ToSet, Elems
  <2> QED
    BY <2>1 DEF Listing!Kept
<1> HIDE DEF raw, kept, new
<1>4. /\ raw \in Seq(Rows) /\ Len(raw) <= Limit /\ Distinct(raw)
      /\ \A j \in 1..Len(rows) : From < j /\ j <= From + Limit => rows[j] \in Elems(raw)
      /\ raw = << >> => Len(rows) <= From
  BY <1>1, <1>2, PartIs
<1>5. /\ kept \in Seq(Rows) /\ Elems(kept) = Elems(raw) \cap new /\ Distinct(kept)
      /\ Len(kept) <= Len(raw)
  BY <1>3, <1>4, WithinIs
<1>6. kept \in Seq(Fitting \ exclude)
  <2>1. \A a \in 1..Len(kept) : kept[a] \in Fitting \ exclude
    <3>1. \A a \in 1..Len(kept) : kept[a] \in Elems(kept)
      BY DEF Elems
    <3> QED
      BY <1>5, <3>1 DEF new
  <2> QED
    BY <1>5, <2>1
<1>7. seen \in Seq(Fitting \ exclude) /\ Distinct(seen) /\ all = seen \o kept
  BY DEF SeenGood, kept
<1>8. Elems(seen) \cap Elems(kept) = {}
  BY <1>5 DEF new
<1>9. /\ all \in Seq(Fitting \ exclude) /\ Len(all) = Len(seen) + Len(kept)
      /\ \A x : x \in Elems(all) <=> x \in Elems(seen) \/ x \in Elems(kept)
      /\ Distinct(all)
  <2>1. /\ seen \in Seq(Fitting \ exclude) /\ kept \in Seq(Fitting \ exclude)
        /\ all = seen \o kept
    BY <1>6, <1>7
  <2>2. Distinct(seen) /\ Distinct(kept)
    BY <1>5, <1>7
  <2>3. all \in Seq(Fitting \ exclude)
    BY <2>1, JoinIs
  <2>4. Len(all) = Len(seen) + Len(kept)
    BY <2>1, JoinIs
  <2>5. \A x : x \in Elems(all) <=> x \in Elems(seen) \/ x \in Elems(kept)
    BY <2>1, JoinIs
  <2>6. Distinct(all)
    BY <1>8, <2>1, <2>2, JoinIs
  <2> QED
    BY <2>3, <2>4, <2>5, <2>6
<1>10. Len(all) <= Len(seen) + Limit
  <2>1. Len(seen) \in Nat /\ Len(kept) \in Nat /\ Len(raw) \in Nat
    BY <1>4, <1>5, <1>7
  <2> QED
    BY <1>1, <1>4, <1>5, <1>9, <2>1
<1>11. ASSUME NEW r \in Fitting \ exclude, NEW j \in 1..Len(rows),
              rows[j] = r, From < j, j <= From + Limit
       PROVE  r \in Elems(all)
  <2>1. r \in Elems(raw)
    BY <1>4, <1>11
  <2> QED
    BY <1>5, <1>9, <2>1 DEF new
<1>12. raw = << >> => kept = << >>
  <2> SUFFICES ASSUME raw = << >> PROVE kept = << >>
    OBVIOUS
  <2>1. Len(raw) = 0 /\ Len(kept) \in Nat
    BY <1>5
  <2>2. Len(kept) = 0
    BY <1>5, <2>1
  <2> QED
    BY <1>5, <2>2
<1> QED
  BY <1>4, <1>9, <1>10, <1>11, <1>12 DEF raw, kept

LEMMA PostStep ==
    ASSUME Listing!BoundsAssumption, ListInv, Listing!Post
    PROVE  ListInv'
<1>1. /\ ~done /\ moves < ListMoves /\ moves' = moves + 1
      /\ UNCHANGED <<ignores, kind, exclude, page, seen, done, truncated, atStart,
                     removed, barren>>
  BY DEF Listing!Post, Listing!Move
<1>2. PICK r \in Rows \ (Listing!ToSet(rows) \cup atStart), i \in 1..(Len(rows) + 1) :
         rows' = Ins(rows, i, r)
  BY DEF Listing!Post, Ins
<1>3. rows \in Seq(Rows) /\ Distinct(rows) /\ r \in Rows /\ r \notin Elems(rows)
  <2>1. rows \in Seq(Rows) /\ Distinct(rows)
    BY DEF ListInv, RowsGood
  <2>2. DOMAIN rows = 1..Len(rows)
    BY <2>1
  <2> QED
    BY <1>2, <2>1, <2>2 DEF Listing!ToSet, Elems
<1>4. /\ rows' \in Seq(Rows) /\ Len(rows') = Len(rows) + 1
      /\ \A a \in 1..Len(rows) : rows'[IF a < i THEN a ELSE a + 1] = rows[a]
      /\ Distinct(rows')
  BY <1>2, <1>3, InsertIs
<1>5. RowsGood' /\ SeenGood'
  <2>1. moves' \in 0..ListMoves
    BY <1>1 DEF ListInv, SeenGood, Listing!BoundsAssumption
  <2> QED
    BY <1>1, <1>4, <2>1 DEF ListInv, RowsGood, SeenGood
<1>6. From' = From /\ Wanted' = Wanted /\ Elems(seen)' = Elems(seen) /\ From \in Nat
  <2>1. page \in Nat /\ Limit \in Nat
    BY DEF ListInv, SeenGood, Listing!BoundsAssumption
  <2>2. page * Limit \in Nat
    BY <2>1
  <2> QED
    BY <1>1, <2>2 DEF From, Wanted, Elems
<1>7. ASSUME NEW x, Ahead(x) PROVE Ahead(x)'
  <2>1. PICK a \in 1..Len(rows) : rows[a] = x /\ (ignores \/ a > From)
    BY <1>7 DEF Ahead
  <2>2. Len(rows) \in Nat /\ i \in Nat /\ a \in Nat
    BY <1>3
  <2> DEFINE b == IF a < i THEN a ELSE a + 1
  <2>3. b \in 1..Len(rows') /\ b >= a /\ rows'[b] = x
    BY <1>4, <2>1, <2>2
  <2>4. ignores' \/ b > From'
    BY <1>1, <1>6, <2>1, <2>2
  <2> HIDE DEF b
  <2> QED
    BY <2>3, <2>4 DEF Ahead
<1>8. NothingPassed'
  BY <1>1, <1>6, <1>7 DEF ListInv, NothingPassed
<1>9. Listing!CompleteOrDisclosed' /\ Listing!UnderfillIsComplete'
  BY <1>1 DEF Listing!CompleteOrDisclosed, Listing!UnderfillIsComplete
<1> QED
  BY <1>5, <1>8, <1>9 DEF ListInv

LEMMA WithdrawStep ==
    ASSUME Listing!BoundsAssumption, ListInv, Listing!Withdraw
    PROVE  ListInv'
<1>1. /\ ~done /\ moves < ListMoves /\ moves' = moves + 1 /\ removed' = TRUE
      /\ UNCHANGED <<ignores, kind, exclude, page, seen, done, truncated, atStart,
                     barren>>
  BY DEF Listing!Withdraw, Listing!Move
<1>2. rows \in Seq(Rows) /\ Distinct(rows)
  BY DEF ListInv, RowsGood
<1>3. PICK i \in 1..Len(rows) : rows' = Del(rows, i)
  <2>1. DOMAIN rows = 1..Len(rows)
    BY <1>2
  <2> QED
    BY <2>1 DEF Listing!Withdraw, Del
<1>4. rows' \in Seq(Rows) /\ Distinct(rows')
  BY <1>2, <1>3, RemoveIs
<1>5. RowsGood' /\ SeenGood'
  <2>1. moves' \in 0..ListMoves
    BY <1>1 DEF ListInv, SeenGood, Listing!BoundsAssumption
  <2> QED
    BY <1>1, <1>4, <2>1 DEF ListInv, RowsGood, SeenGood
<1>6. NothingPassed' /\ Listing!CompleteOrDisclosed' /\ Listing!UnderfillIsComplete'
  BY <1>1 DEF NothingPassed, Listing!CompleteOrDisclosed, Listing!UnderfillIsComplete
<1> QED
  BY <1>5, <1>6 DEF ListInv

\* After the page, what is wanted is kept or further on; after an empty one, kept.
LEMMA NextPage ==
    ASSUME Listing!BoundsAssumption, ListInv, ~done, ~removed, page' = page + 1,
           UNCHANGED <<rows, ignores, exclude, atStart>>,
           NEW all, all = seen \o Listing!Kept, NEW r \in Wanted
    PROVE  /\ r \in Elems(all) \/ Ahead(r)'
           /\ Listing!Raw = << >> => r \in Elems(all)
<1>1. r \in Elems(seen) \/ Ahead(r)
  BY DEF ListInv, NothingPassed
<1>2. RowsGood /\ SeenGood /\ page \in Nat /\ Limit \in Nat \ {0} /\ rows \in Seq(Rows)
  BY DEF ListInv, SeenGood, RowsGood, Listing!BoundsAssumption
<1>3. From \in Nat /\ (~ignores => From' = From + Limit)
  BY <1>2, PageGrows
<1>4. r \in Fitting \ exclude
  BY DEF Wanted
<1>5. \A x \in Elems(seen) : x \in Elems(all)
  BY <1>2, PageIs
<1>6. \A j \in 1..Len(rows) : rows[j] = r /\ From < j /\ j <= From + Limit => r \in Elems(all)
  BY <1>2, <1>4, PageIs
<1>7. Listing!Raw = << >> => Len(rows) <= From
  BY <1>2, PageIs
<1>8. CASE r \in Elems(seen)
  BY <1>5, <1>8
<1>9. CASE Ahead(r)
  <2>1. PICK j \in 1..Len(rows) : rows[j] = r /\ (ignores \/ j > From)
    BY <1>9 DEF Ahead
  <2>2. Len(rows) \in Nat /\ j \in Nat
    BY <1>2
  <2>3. CASE ignores
    <3>1. From = 0
      BY <2>3 DEF From
    <3>2. Listing!Raw # << >>
      BY <1>7, <2>1, <2>2, <3>1
    <3>3. Ahead(r)'
      BY <2>1, <2>3 DEF Ahead
    <3> QED
      BY <3>2, <3>3
  <2>4. CASE ~ignores
    <3>1. j > From
      BY <2>1, <2>4
    <3>2. Listing!Raw # << >>
      BY <1>3, <1>7, <2>2, <3>1
    <3>3. CASE j <= From + Limit
      BY <1>6, <2>1, <3>1, <3>2, <3>3
    <3>4. CASE j > From'
      <4>1. Ahead(r)'
        BY <2>1, <3>4 DEF Ahead
      <4> QED
        BY <3>2, <4>1
    <3> QED
      BY <1>2, <1>3, <2>2, <2>4, <3>3, <3>4
  <2> QED
    BY <2>3, <2>4
<1> QED
  BY <1>1, <1>8, <1>9

LEMMA ListPageStep ==
    ASSUME Listing!BoundsAssumption, ListInv, Listing!ListPage
    PROVE  ListInv'
<1> DEFINE all  == seen \o Listing!Kept
           stop == Listing!Filled(all) \/ page + 1 = ListPages
<1>1. /\ kind = "list" /\ ~done /\ page' = page + 1
      /\ seen' = IF stop THEN Cut(all, Limit) ELSE all
      /\ done' = stop /\ barren' = (Listing!Kept = << >> /\ Listing!Raw # << >>)
      /\ UNCHANGED <<rows, ignores, kind, exclude, truncated, atStart, moves, removed>>
  BY DEF Listing!ListPage, Cut
<1>2. /\ RowsGood /\ SeenGood /\ Limit \in Nat \ {0} /\ ListPages \in Nat \ {0}
      /\ page \in Nat /\ page < ListPages /\ exclude = {}
  BY <1>1 DEF ListInv, SeenGood, Listing!BoundsAssumption
<1>3. all \in Seq(Fitting \ exclude) /\ Distinct(all)
  <2> HIDE DEF all
  <2> QED
    BY <1>2, PageIs DEF all
<1>4. /\ Cut(all, Limit) \in Seq(Fitting \ exclude) /\ Distinct(Cut(all, Limit))
      /\ Len(Cut(all, Limit)) = IF Limit < Len(all) THEN Limit ELSE Len(all)
      /\ Len(all) <= Limit => Cut(all, Limit) = all
  <2> HIDE DEF all
  <2> QED
    BY <1>2, <1>3, UpToIs
<1>5. /\ Len(all) \in Nat
      /\ stop <=> (Len(all) >= Limit \/ Listing!Kept = << >> \/ page + 1 = ListPages)
  BY <1>3 DEF Listing!Filled
<1>14. stop \in BOOLEAN
  BY DEF Listing!Filled
<1> HIDE DEF all, stop
<1>6. seen' \in Seq(Fitting \ exclude) /\ Distinct(seen') /\ Len(seen') <= Limit
  <2>1. CASE stop
    BY <1>1, <1>2, <1>4, <1>5, <2>1
  <2>2. CASE ~stop
    BY <1>1, <1>2, <1>3, <1>5, <2>2
  <2> QED
    BY <2>1, <2>2
<1>7. ~done' => seen' = all /\ Len(seen') < Limit /\ page' < ListPages
  BY <1>1, <1>2, <1>5
<1>8. done' \in BOOLEAN /\ barren' \in BOOLEAN
  BY <1>1, <1>14
<1>9. RowsGood' /\ SeenGood'
  <2>1. page' \in 0..ListPages
    BY <1>1, <1>2
  <2> QED
    BY <1>1, <1>2, <1>6, <1>7, <1>8, <2>1 DEF RowsGood, SeenGood
<1>10. ASSUME ~removed, NEW r \in Wanted
       PROVE  /\ r \in Elems(all) \/ Ahead(r)'
              /\ Listing!Raw = << >> => r \in Elems(all)
  BY <1>1, <1>10, NextPage DEF all
<1>11. NothingPassed'
  <2> SUFFICES ASSUME ~done', ~removed', NEW r \in Wanted'
               PROVE  r \in Elems(seen)' \/ Ahead(r)'
    BY DEF NothingPassed
  <2>1. r \in Wanted /\ ~removed
    BY <1>1 DEF Wanted
  <2>2. Elems(seen)' = Elems(all)
    BY <1>7 DEF Elems
  <2> QED
    BY <1>10, <2>1, <2>2
<1>12. Listing!UnderfillIsComplete'
  <2> SUFFICES ASSUME done', Len(seen') < Limit, ~barren', ~removed', page' < ListPages,
                      NEW r \in (atStart \cap Fitting)'
               PROVE  r \in Listing!ToSet(seen)'
    BY DEF Listing!UnderfillIsComplete
  <2>1. r \in Wanted /\ ~removed
    BY <1>1, <1>2 DEF Wanted
  <2>2. Len(all) < Limit /\ seen' = all
    BY <1>1, <1>2, <1>4, <1>5
  <2>3. Listing!Kept = << >>
    BY <1>1, <1>2, <1>5, <2>2
  <2>4. r \in Elems(all)
    BY <1>1, <1>10, <2>1, <2>3
  <2>5. DOMAIN all = 1..Len(all)
    BY <1>3
  <2> QED
    BY <2>2, <2>4, <2>5 DEF Listing!ToSet, Elems
<1>13. Listing!CompleteOrDisclosed'
  BY <1>1 DEF Listing!CompleteOrDisclosed
<1> QED
  BY <1>9, <1>11, <1>12, <1>13 DEF ListInv

LEMMA AllPageStep ==
    ASSUME Listing!BoundsAssumption, ListInv, Listing!AllPage
    PROVE  ListInv'
<1> DEFINE all  == seen \o Listing!Kept
           full == Len(all) > MaxPaths
           stop == full \/ Listing!Raw = << >> \/ page + 1 = ListPages
<1>1. /\ kind = "all" /\ ~done /\ page' = page + 1 /\ seen' = Cut(all, MaxPaths)
      /\ done' = stop /\ truncated' = (stop /\ (full \/ Listing!Raw # << >>))
      /\ UNCHANGED <<rows, ignores, kind, exclude, atStart, moves, removed, barren>>
  BY DEF Listing!AllPage, Listing!Discloses, Cut
<1>2. /\ RowsGood /\ SeenGood /\ MaxPaths \in Nat \ {0} /\ ListPages \in Nat \ {0}
      /\ page \in Nat /\ page < ListPages
  BY <1>1 DEF ListInv, SeenGood, Listing!BoundsAssumption
<1>3. all \in Seq(Fitting \ exclude) /\ Distinct(all)
  <2> HIDE DEF all
  <2> QED
    BY <1>2, PageIs DEF all
<1>4. /\ seen' \in Seq(Fitting \ exclude) /\ Distinct(seen')
      /\ Len(seen') = IF MaxPaths < Len(all) THEN MaxPaths ELSE Len(all)
      /\ Len(all) <= MaxPaths => seen' = all
  <2> HIDE DEF all
  <2> QED
    BY <1>1, <1>2, <1>3, UpToIs
<1>5. /\ Len(all) \in Nat /\ (full <=> Len(all) > MaxPaths)
      /\ stop <=> (full \/ Listing!Raw = << >> \/ page + 1 = ListPages)
  BY <1>3
<1>14. stop \in BOOLEAN /\ full \in BOOLEAN
  OBVIOUS
<1> HIDE DEF all, full, stop
<1>6. Len(seen') <= MaxPaths
  BY <1>2, <1>4, <1>5
<1>7. ~full => seen' = all
  BY <1>2, <1>4, <1>5
<1>8. done' \in BOOLEAN /\ truncated' \in BOOLEAN
  BY <1>1, <1>14
<1>9. RowsGood' /\ SeenGood'
  <2>1. page' \in 0..ListPages /\ (~done' => page' < ListPages)
    BY <1>1, <1>2, <1>5
  <2> QED
    BY <1>1, <1>2, <1>4, <1>6, <1>8, <2>1 DEF RowsGood, SeenGood
<1>10. ASSUME ~removed, NEW r \in Wanted
       PROVE  /\ r \in Elems(all) \/ Ahead(r)'
              /\ Listing!Raw = << >> => r \in Elems(all)
  BY <1>1, <1>10, NextPage DEF all
<1>11. NothingPassed'
  <2> SUFFICES ASSUME ~done', ~removed', NEW r \in Wanted'
               PROVE  r \in Elems(seen)' \/ Ahead(r)'
    BY DEF NothingPassed
  <2>1. r \in Wanted /\ ~removed
    BY <1>1 DEF Wanted
  <2>2. Elems(seen)' = Elems(all)
    BY <1>1, <1>5, <1>7 DEF Elems
  <2> QED
    BY <1>10, <2>1, <2>2
<1>12. Listing!CompleteOrDisclosed'
  <2> SUFFICES ASSUME done', ~truncated', ~removed', NEW r \in Wanted'
               PROVE  r \in Listing!ToSet(seen)'
    BY DEF Listing!CompleteOrDisclosed, Wanted
  <2>1. r \in Wanted /\ ~removed
    BY <1>1 DEF Wanted
  <2>2. ~full /\ Listing!Raw = << >>
    BY <1>1
  <2>3. r \in Elems(all) /\ seen' = all
    BY <1>7, <1>10, <2>1, <2>2
  <2>4. DOMAIN all = 1..Len(all)
    BY <1>3
  <2> QED
    BY <2>3, <2>4 DEF Listing!ToSet, Elems
<1>13. Listing!UnderfillIsComplete'
  BY <1>1 DEF Listing!UnderfillIsComplete
<1> QED
  BY <1>9, <1>11, <1>12, <1>13 DEF ListInv

LEMMA FreshListing ==
    ASSUME Listing!BoundsAssumption, RowsGood, page = 0, ignores \in BOOLEAN
    PROVE  \A r \in Listing!ToSet(rows) : Ahead(r)
<1>1. From = 0
  <2>1. 0 * Limit = 0
    BY DEF Listing!BoundsAssumption
  <2> QED
    BY <2>1 DEF From
<1>2. rows \in Seq(Rows) /\ DOMAIN rows = 1..Len(rows)
  BY DEF RowsGood
<1> QED
  BY <1>1, <1>2 DEF Listing!ToSet, Ahead

LEMMA AgainStep ==
    ASSUME Listing!BoundsAssumption, ListInv, Listing!Again
    PROVE  ListInv'
<1>1. /\ page' = 0 /\ seen' = << >> /\ done' = FALSE /\ truncated' = FALSE
      /\ atStart' = Listing!ToSet(rows) /\ moves' = 0 /\ removed' = FALSE /\ barren' = FALSE
      /\ UNCHANGED <<rows, ignores, kind, exclude>>
  BY DEF Listing!Again
<1>2. RowsGood'
  BY <1>1 DEF ListInv, RowsGood
<1>3. SeenGood'
  <2>1. << >> \in Seq(Fitting \ exclude) /\ Len(<< >>) = 0 /\ Distinct(<< >>)
    BY DEF Distinct
  <2>2. /\ 0 \in 0..ListPages /\ 0 \in 0..ListMoves /\ 0 < ListPages /\ 0 < Limit
        /\ 0 <= Limit /\ 0 <= MaxPaths
    BY DEF Listing!BoundsAssumption
  <2> QED
    BY <1>1, <2>1, <2>2 DEF ListInv, SeenGood
<1>4. From' = 0
  <2>1. 0 * Limit = 0
    BY DEF Listing!BoundsAssumption
  <2> QED
    BY <1>1, <2>1 DEF From
<1>5. NothingPassed'
  <2> SUFFICES ASSUME NEW r \in Wanted' PROVE Ahead(r)'
    BY DEF NothingPassed
  <2>1. rows \in Seq(Rows) /\ DOMAIN rows = 1..Len(rows)
    BY DEF ListInv, RowsGood
  <2>2. PICK i \in 1..Len(rows) : rows[i] = r
    BY <1>1, <2>1 DEF Wanted, Listing!ToSet
  <2> QED
    BY <1>1, <1>4, <2>2 DEF Ahead
<1>6. Listing!CompleteOrDisclosed' /\ Listing!UnderfillIsComplete'
  BY <1>1 DEF Listing!CompleteOrDisclosed, Listing!UnderfillIsComplete
<1> QED
  BY <1>2, <1>3, <1>5, <1>6 DEF ListInv

LEMMA ListingInit == Listing!BoundsAssumption /\ Listing!Init => ListInv
<1> SUFFICES ASSUME Listing!BoundsAssumption, Listing!Init PROVE ListInv
  OBVIOUS
<1>1. /\ page = 0 /\ seen = << >> /\ done = FALSE /\ truncated = FALSE
      /\ moves = 0 /\ removed = FALSE /\ barren = FALSE /\ ignores \in BOOLEAN
      /\ atStart = Listing!ToSet(rows)
      /\ kind \in {"list", "all"} /\ (kind = "list" => exclude = {})
  BY DEF Listing!Init
<1>2. RowsGood
  <2>1. PICK M \in SUBSET Rows : rows \in Listing!SetToSeqs(M)
    BY DEF Listing!Init
  <2> DEFINE k == Listing!Cardinality(M)
  <2>5. IsFiniteSet(Rows)
    BY DEF Listing!BoundsAssumption, Listing!IsFiniteSet, IsFiniteSet
  <2>6. Cardinality(M) \in Nat
    BY <2>5, FS_Subset, FS_CardinalityType
  <2>7. Listing!Cardinality(M) = Cardinality(M)
    BY DEF Listing!Cardinality, Cardinality
  <2>2. k \in Nat
    BY <2>6, <2>7
  <2>3. rows \in [1..k -> M] /\ \A i, j \in 1..k : i # j => rows[i] # rows[j]
    BY <2>1 DEF Listing!SetToSeqs
  <2> HIDE DEF k
  <2>4. rows \in Seq(Rows) /\ Len(rows) = k
    BY <2>2, <2>3
  <2> QED
    BY <1>1, <2>3, <2>4 DEF RowsGood, Distinct
<1>3. SeenGood
  <2>1. << >> \in Seq(Fitting \ exclude) /\ Len(<< >>) = 0 /\ Distinct(<< >>)
    BY DEF Distinct
  <2>2. /\ 0 \in 0..ListPages /\ 0 \in 0..ListMoves /\ 0 < ListPages /\ 0 < Limit
        /\ 0 <= Limit /\ 0 <= MaxPaths
    BY DEF Listing!BoundsAssumption
  <2> QED
    BY <1>1, <2>1, <2>2 DEF SeenGood
<1>4. NothingPassed
  BY <1>1, <1>2, FreshListing DEF NothingPassed, Wanted
<1>5. Listing!CompleteOrDisclosed /\ Listing!UnderfillIsComplete
  BY <1>1 DEF Listing!CompleteOrDisclosed, Listing!UnderfillIsComplete
<1> QED
  BY <1>2, <1>3, <1>4, <1>5 DEF ListInv

LEMMA ListingStep ==
    ASSUME Listing!BoundsAssumption, ListInv, [Listing!Next]_(Listing!vars)
    PROVE  ListInv'
<1>1. CASE Listing!Next
  BY <1>1, PostStep, WithdrawStep, ListPageStep, AllPageStep, AgainStep
     DEF Listing!Next
<1>2. CASE UNCHANGED Listing!vars
  BY <1>2 DEF Listing!vars, ListInv, RowsGood, SeenGood, NothingPassed, Wanted, Ahead,
     From, Elems, Listing!CompleteOrDisclosed, Listing!UnderfillIsComplete
<1> QED
  BY <1>1, <1>2

LEMMA ListingHolds == Listing!BoundsAssumption /\ ListInv => Listing!ListingSafety
<1> SUFFICES ASSUME Listing!BoundsAssumption, ListInv PROVE Listing!ListingSafety
  OBVIOUS
<1>1. RowsGood /\ SeenGood /\ Limit \in Nat /\ MaxPaths \in Nat
  BY DEF ListInv, Listing!BoundsAssumption
<1>2. rows \in Seq(Rows) /\ seen \in Seq(Fitting \ exclude)
  BY <1>1 DEF RowsGood, SeenGood
<1>3. Listing!IsInjective(rows) /\ Listing!IsInjective(seen)
  <2>1. DOMAIN rows = 1..Len(rows) /\ DOMAIN seen = 1..Len(seen)
    BY <1>2
  <2> QED
    BY <1>1, <2>1 DEF RowsGood, SeenGood, Distinct, Listing!IsInjective
<1>4. Len(seen) \in Nat /\ 2 * Limit >= Limit
  BY <1>1, <1>2
<1>5. Len(seen) =< IF kind = "list" THEN 2 * Limit ELSE MaxPaths
  BY <1>1, <1>4 DEF SeenGood
<1>6. Listing!ListingTypeOK
  BY <1>1, <1>2, <1>3, <1>5 DEF RowsGood, SeenGood, Listing!ListingTypeOK
<1> QED
  BY <1>6 DEF ListInv, Listing!ListingSafety

\* A paged listing can be trusted while rows are posted under it: one that does
\* not say it is truncated has every message that was there when it began, also on
\* a backend that ignores the offset, unless one was removed meanwhile
\* (repository.ts:211-217, :258-280, :361-365).
THEOREM ListingIsSafe == SetupSpec => []ListingSafety
<1> DEFINE Trusted == setup = "listing" => ListInv
<1>1. SetupInit => Trusted
  BY ListingAssumption, ListingInit DEF SetupInit
<1>2. Trusted /\ [SetupNext]_<<vars, setup, listing>> => Trusted'
  <2> SUFFICES ASSUME Trusted, setup' = "listing", [SetupNext]_<<vars, setup, listing>>
               PROVE  ListInv'
    OBVIOUS
  <2>1. setup = "listing" /\ [Listing!Next]_(Listing!vars)
    BY DEF SetupNext, listing, Listing!vars
  <2> QED
    BY <2>1, ListingAssumption, ListingStep
<1>3. Trusted => ListingSafety
  BY ListingAssumption, ListingHolds DEF ListingSafety
<1> QED
  BY <1>1, <1>2, <1>3, PTL DEF SetupSpec
=============================================================================
