--------------------------- MODULE CursorReconcile ---------------------------
(***************************************************************************)
(* The durable cursor of src/src/outbox/cursor.ts and one process that     *)
(* uses it: CursorFile keeps the authoritative local seq and an advisory   *)
(* position in the backend's change feed, reconcile() moves the advisory   *)
(* one page by page, and the feed grows, is trimmed or starts over between *)
(* any two pages.  Saves may throw before or after their rename, and the   *)
(* process may die.                                                        *)
(***************************************************************************)
EXTENDS Naturals, Sequences, FiniteSets

CONSTANTS
  PageSize,   \* changes of a page
  MaxPages,   \* ReconcileLimits.maxPages
  MaxSeq,     \* bound: changes the feed ever has
  MaxLocal,   \* bound: seqs accepted locally
  MaxMishaps  \* bound: failing saves, deaths, trims, restarts of the feed

VARIABLES
  file,    \* cursors.json
  mem,     \* CursorFile.state: {} while no process has it open
  feed,    \* the backend's changes: low+1..head, in its epoch-th life
  pass,    \* the reconciliation under way: {} or its since, lastSeq and pages
  chain,   \* history: seqs of the pages the adopted position rests on
  durable, \* history: the highest seq whose advance returned
  failed,  \* history: a save threw
  mishaps  \* mishaps so far

vars == <<file, mem, feed, pass, chain, durable, failed, mishaps>>
history == <<chain, durable, failed>>

BoundsAssumption ==
  /\ {PageSize, MaxPages, MaxSeq, MaxLocal} \subseteq Nat \ {0} /\ MaxMishaps \in Nat

Fresh == [kind |-> "v1", local |-> 0, back |-> 0, hash |-> << >>, flag |-> FALSE]
Files == {Fresh, [Fresh EXCEPT !.kind = "corrupt"],
          [Fresh EXCEPT !.kind = "newer", !.local = 1, !.back = 1, !.hash = <<0, 1>>]}

\* No file, a corrupt one, or one of a newer version.
Init ==
  /\ file \in Files
  /\ mem = {} /\ pass = {}
  /\ feed = [epoch |-> 0, low |-> 0, head |-> 1]
  /\ chain = IF file.back = 0 THEN {} ELSE {1}
  /\ durable = file.local /\ failed = FALSE /\ mishaps = 0

Mishap == mishaps < MaxMishaps /\ mishaps' = mishaps + 1

-----------------------------------------------------------------------------
(* The file.                                                               *)

\* A missing file is created empty, one that cannot be read stops the caller,
\* and a newer one is held with the re-scan flag set.
Open ==
  /\ mem = {} /\ file.kind # "corrupt"
  /\ mem' = {[file EXCEPT !.flag = @ \/ file.kind = "newer"]}
  /\ UNCHANGED <<file, feed, pass, history, mishaps>>

\* The temporary file is written and renamed; what follows may throw as well.
\* Memory has changed before either.
Save(s) ==
  /\ mem' = {s}
  /\ \/ file' = s /\ UNCHANGED <<failed, mishaps>>
     \/ Mishap /\ file' \in {file, s} /\ failed' = TRUE

Advances(s, q) == q > s.local

\* A seq that was durably accepted; one that is not ahead returns at once.
AdvanceLocalSeq(q) ==
  \E s \in mem :
    /\ s.kind = "v1"
    /\ \/ /\ Advances(s, q)
          /\ Save([s EXCEPT !.local = q])
          /\ durable' = IF mishaps' = mishaps /\ q > durable THEN q ELSE durable
       \/ /\ ~Advances(s, q)
          /\ durable' = IF q > durable THEN q ELSE durable
          /\ UNCHANGED <<file, mem, failed, mishaps>>
    /\ UNCHANGED <<feed, pass, chain>>

-----------------------------------------------------------------------------
(* The feed: a page holds what follows the commit it is asked from; a      *)
(* commit the feed does not know starts it from its oldest change.         *)

Page(since) ==
  LET known == since # << >> /\ since[1] = feed.epoch /\ since[2] >= feed.low
      from  == IF known THEN since[2] ELSE feed.low
      upto  == IF from + PageSize < feed.head THEN from + PageSize ELSE feed.head
  IN  [changes |-> (from + 1)..upto, first |-> from + 1, last |-> upto,
       hash |-> <<feed.epoch, upto>>, more |-> upto < feed.head]

Grow ==
  /\ feed.head < MaxSeq
  /\ feed' = [feed EXCEPT !.head = @ + 1]
  /\ UNCHANGED <<file, mem, pass, history, mishaps>>

Trim ==
  /\ Mishap
  /\ \E low \in (feed.low + 1)..feed.head : feed' = [feed EXCEPT !.low = low]
  /\ UNCHANGED <<file, mem, pass, history>>

StartOver ==
  /\ Mishap
  /\ feed' = [epoch |-> feed.epoch + 1, low |-> 0, head |-> 1]
  /\ UNCHANGED <<file, mem, pass, history>>

-----------------------------------------------------------------------------
(* reconcile().                                                            *)

Begin ==
  /\ pass = {}
  /\ \E s \in mem :
       pass' = {[since |-> s.hash, last |-> s.back, pages |-> 0,
                 seen |-> chain \cap (1..s.back)]}
  /\ UNCHANGED <<file, mem, feed, history, mishaps>>

RegressionOnly(p, page) == \* mutant: a gap is not looked for
  page.changes # {} /\ page.first =< p.last
Drifted(p, page) ==
  /\ page.changes # {}
  /\ page.first =< p.last \/ (p.last > 0 /\ page.first > p.last + 1)

\* The flag is saved whatever the version of the file.
Flag(s) == Save([s EXCEPT !.flag = TRUE])

SetBackend(s, last, hash) ==
  \/ /\ s.kind = "v1"
     /\ Save([s EXCEPT !.back = last, !.hash = hash, !.flag = FALSE])
  \/ s.kind = "newer" /\ UNCHANGED <<mem, file, failed, mishaps>>

\* One page: drift ends the pass, the last page moves the advisory position, and
\* the bound of pages ends it without.  A call that fails ends it too.
Drift(p, s, page) ==
  /\ Drifted(p, page)
  /\ Flag(s) /\ pass' = {} /\ UNCHANGED chain

Adopt(p, s, page) ==
  /\ ~Drifted(p, page) /\ ~page.more
  /\ SetBackend(s, IF page.changes = {} THEN p.last ELSE page.last, page.hash)
  /\ pass' = {}
  /\ chain' = IF s.kind = "v1" THEN p.seen \cup page.changes ELSE chain

Turn(p, page) ==
  /\ ~Drifted(p, page) /\ page.more /\ p.pages + 1 < MaxPages
  /\ pass' = {[since |-> page.hash, pages |-> p.pages + 1,
               last |-> IF page.changes = {} THEN p.last ELSE page.last,
               seen |-> p.seen \cup page.changes]}
  /\ UNCHANGED <<file, mem, chain, failed, mishaps>>

Pause(p, s, page) ==
  /\ ~Drifted(p, page) /\ page.more /\ p.pages + 1 = MaxPages
  /\ Flag(s) /\ pass' = {} /\ UNCHANGED chain

FetchPage ==
  \E p \in pass, s \in mem :
    LET page == Page(p.since)
    IN  /\ \/ Drift(p, s, page) \/ Adopt(p, s, page)
           \/ Turn(p, page) \/ Pause(p, s, page)
        /\ UNCHANGED <<feed, durable>>

FetchFails ==
  /\ pass # {} /\ Mishap
  /\ pass' = {}
  /\ UNCHANGED <<file, mem, feed, history>>

Crash ==
  /\ mem # {} /\ Mishap
  /\ mem' = {} /\ pass' = {}
  /\ UNCHANGED <<file, feed, history>>

Next ==
  \/ Open \/ Grow \/ Trim \/ StartOver
  \/ \E q \in 1..MaxLocal : AdvanceLocalSeq(q)
  \/ Begin \/ FetchPage \/ FetchFails \/ Crash

Spec == Init /\ [][Next]_vars

-----------------------------------------------------------------------------
(* Properties.                                                             *)

States == [kind : {"v1", "newer", "corrupt"}, local : 0..MaxLocal, back : 0..MaxSeq,
           hash : {<< >>} \cup (0..MaxMishaps) \X (0..MaxSeq), flag : BOOLEAN]

\* Types of the variables; a process never holds a corrupt state, and a pass
\* belongs to one that has the file open.
TypeOK ==
  /\ file \in States
  /\ mem \subseteq {s \in States : s.kind # "corrupt"} /\ Cardinality(mem) =< 1
  /\ Cardinality(pass) =< 1 /\ (pass # {} => mem # {})
  /\ \A p \in pass : p.last \in 0..MaxSeq /\ p.pages \in 0..(MaxPages - 1)
  /\ feed.low =< feed.head /\ feed.head =< MaxSeq
  /\ chain \subseteq 1..MaxSeq /\ durable \in 0..MaxLocal
  /\ failed \in BOOLEAN /\ mishaps \in 0..MaxMishaps

\* The advisory position never jumps over a change: whatever was trimmed between
\* two pages or two passes, the pages it rests on leave no seq out
\* (cursor.ts:224-243), through pauses, failing saves and restarts.
AdoptedWithoutGap ==
  \A s \in mem : s.back > 0 =>
    \E from \in 1..s.back : chain \cap (1..s.back) = from..s.back

\* The authoritative cursor survives: a seq whose advance returned is in the file,
\* and the file's never goes back, whatever the reconciliation saves beside it
\* (cursor.ts:141-149), as long as no save of this file threw.
AdvancedIsDurable == ~failed => file.local >= durable

\* What a reader of the cursors relies on: the advisory position rests on every
\* change before it, and the authoritative one is durable.
CursorSafety == TypeOK /\ AdoptedWithoutGap /\ AdvancedIsDurable

-----------------------------------------------------------------------------
(* What the code does not promise, although a comment of it does.          *)

\* "cursor retained, never rewritten" (cursor.ts:68): flagReconcileNeeded() saves
\* without looking at the version (cursor.ts:165-169).
NewerNeverRewritten == [][file.kind = "newer" => file' = file]_vars

\* After a save that threw, memory is ahead of the file, and the repeated advance
\* returns at once (cursor.ts:146) without a save: "Advances the AUTHORITATIVE
\* local cursor" (cursor.ts:141) is then true of memory only.
ReturnedIsDurable == file.local >= durable
=============================================================================
