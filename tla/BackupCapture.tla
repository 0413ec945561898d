--------------------------- MODULE BackupCapture ---------------------------
(***************************************************************************)
(* The transcript backup of one session: src/src/backup/capture.ts draws   *)
(* immutable chunks from the session's entries and queues them with a      *)
(* manifest, the outbox delivers them in order, and recovery.ts with       *)
(* verify.ts compares what is stored with what the manifest declares.      *)
(*                                                                         *)
(* An entry is a position in the session file; a chunk's content is the    *)
(* sequence of the entries in it, and equal contents have equal checksums. *)
(* What an entry holds matters in four ways only: ordinary text, text that *)
(* alone exceeds the cap of a chunk, something omitted (the extension's    *)
(* own entries, binary blocks, excluded text), or text the redactor holds. *)
(***************************************************************************)
EXTENDS Naturals, Sequences, SequencesExt, FiniteSets

CONSTANTS
  MaxEntries,   \* bound: entries the session ever has
  Cap,          \* ordinary entries that fit in a chunk (maxChunkBytes)
  MaxFaults     \* bound: faults of the disk, the process, the network, the store

BoundsAssumption == MaxEntries \in Nat /\ Cap \in Nat \ {0} /\ MaxFaults \in Nat

VARIABLES
  entries,      \* the session's tree: kind and parent (0: none) of each entry
  mem,          \* BackupCapture.state of this session
  file,         \* the same in backup-state.json
  outbox,       \* jobs of the scope not yet acknowledged, oldest first
  stored,       \* chunk files on the backend: seq -> content
  manifest,     \* the manifest on the backend: none or one
  quarantined,  \* jobs the backend refused for good
  faults,       \* faults so far
  cut,          \* entries of the flush that was cut short, << >> if none
  moved,        \* a later flush drew other chunks over a flush cut short
  thrown,       \* an enqueue or a save threw inside a flush
  tampered      \* somebody else changed the stored chunks

vars == <<entries, mem, file, outbox, stored, manifest, quarantined, faults,
          cut, moved, thrown, tampered>>

Kinds == {"text", "big", "omitted", "held"}
EmptyState == [covered |-> << >>, nextSeq |-> 0, chunks |-> << >>]

Init ==
  /\ entries = << >>
  /\ mem = EmptyState /\ file = EmptyState
  /\ outbox = << >> /\ stored = << >> /\ manifest = {} /\ quarantined = {}
  /\ faults = 0 /\ cut = << >>
  /\ moved = FALSE /\ thrown = FALSE /\ tampered = FALSE

ghosts == <<cut, moved, thrown, tampered>>
remote == <<stored, manifest, quarantined>>
Fault == faults < MaxFaults /\ faults' = faults + 1

-----------------------------------------------------------------------------
(* Entries, views and chunks.                                              *)

IsText(e) == entries[e].kind \in {"text", "big"}
Ids == [i \in 1..Len(entries) |-> i]

\* The path from the root to an entry: what session_before_compact hands over.
BranchTo[e \in 0..Len(entries)] ==
  IF e = 0 THEN << >> ELSE Append(BranchTo[entries[e].parent], e)

\* The members of a sequence that are in a set, in their order.
Within(s, S) ==
  LET picked[n \in 0..Len(s)] ==
        IF n = 0 THEN << >>
        ELSE IF s[n] \in S THEN Append(picked[n - 1], s[n]) ELSE picked[n - 1]
  IN  picked[Len(s)]

\* The views a flush may be given, and what the cursor has not consumed of one.
Deliveries == {Ids} \cup {BranchTo[e] : e \in 1..Len(entries)}
Fresh(view) == Within(view, ToSet(view) \ ToSet(mem.covered))

\* An entry that is big exceeds the cap alone.
Size(content) ==
  Len(content) + Cap * Cardinality({i \in 1..Len(content) : entries[content[i]].kind = "big"})

\* The pending entries go out as a chunk.
Closed(acc) == IF acc.pending = << >> THEN acc.drafts ELSE Append(acc.drafts, acc.pending)

\* One entry more: it fits, it is alone and over the cap, or it overflows the
\* pending chunk and both go out.
ChunkStep(acc, e) ==
  LET grown == Append(acc.pending, e)
  IN  IF Size(grown) =< Cap
      THEN [pending |-> grown, drafts |-> acc.drafts]
      ELSE [pending |-> << >>, drafts |-> Append(Closed(acc), <<e>>)]

ChunkEntries(candidates) ==
  LET acc[n \in 0..Len(candidates)] ==
        IF n = 0 THEN [pending |-> << >>, drafts |-> << >>]
        ELSE ChunkStep(acc[n - 1], candidates[n])
  IN  Closed(acc[Len(candidates)])

\* A chunk by its place, as the job carries it and as the state records it.
Drafts(fresh) ==
  LET contents == ChunkEntries(Within(fresh, {e \in ToSet(fresh) : IsText(e)}))
  IN  [i \in 1..Len(contents) |->
         [seq |-> mem.nextSeq + i - 1, content |-> contents[i]]]

CoveredNow(fresh) == Within(fresh, {e \in ToSet(fresh) : entries[e].kind # "held"})

ChunkJob(d)    == [type |-> "chunk", seq |-> d.seq, content |-> d.content]
ManifestOf(s)  == [chunks |-> s.chunks, covered |-> s.covered]
ManifestJob(s) == [type |-> "manifest", body |-> ManifestOf(s)]

-----------------------------------------------------------------------------
(* The flush: queue every chunk, advance the cursor, queue the manifest    *)
(* when there were chunks, save.                                           *)

Recorded(s, drafts) == [s EXCEPT !.chunks = @ \o drafts]

Advanced(s, fresh, drafts) ==
  [s EXCEPT !.covered = @ \o CoveredNow(fresh), !.nextSeq = @ + Len(drafts)]

FlushJobs(fresh) ==
  LET drafts == Drafts(fresh)
      after  == Advanced(Recorded(mem, drafts), fresh, drafts)
  IN  [i \in 1..Len(drafts) |-> ChunkJob(drafts[i])]
      \o (IF drafts = << >> THEN << >> ELSE <<ManifestJob(after)>>)

CoveredFirst(fresh, k) == \* mutant: the cursor moves before the chunks are queued
  LET drafts == Drafts(fresh)
      known  == IF k < Len(drafts) THEN SubSeq(drafts, 1, k) ELSE drafts
  IN  Advanced(Recorded(mem, known), fresh, drafts)

\* In memory after the first k jobs of a flush were queued and it went no further.
MemoryAt(fresh, k) ==
  LET drafts == Drafts(fresh)
      s      == Recorded(mem, SubSeq(drafts, 1, k))
  IN  IF k < Len(drafts) THEN s ELSE Advanced(Recorded(mem, drafts), fresh, drafts)

Moves(fresh) == moved' = (moved \/ (cut # << >> /\ fresh # cut))

Capture(view) ==
  LET fresh == Fresh(view)
      jobs  == FlushJobs(fresh)
  IN  /\ fresh # << >>
      /\ outbox' = outbox \o jobs
      /\ mem' = MemoryAt(fresh, Len(jobs))
      /\ file' = mem'
      /\ Moves(fresh) /\ cut' = << >>
      /\ UNCHANGED <<entries, remote, faults, thrown, tampered>>

\* An enqueue or the save throws: what was queued stays queued, and the
\* process goes on with the state as far as the flush had taken it.
CaptureThrows(view) ==
  LET fresh == Fresh(view)
      jobs  == FlushJobs(fresh)
  IN  /\ fresh # << >>
      /\ Fault
      /\ \E k \in 0..Len(jobs) :
           /\ outbox' = outbox \o SubSeq(jobs, 1, k)
           /\ mem' = MemoryAt(fresh, k)
      /\ Moves(fresh) /\ cut' = fresh /\ thrown' = TRUE
      /\ UNCHANGED <<entries, file, remote, tampered>>

\* The process dies inside a flush; the next one starts from the file.
CaptureDies(view) ==
  LET fresh == Fresh(view)
      jobs  == FlushJobs(fresh)
  IN  /\ fresh # << >>
      /\ Fault
      /\ \E k \in 0..Len(jobs) : outbox' = outbox \o SubSeq(jobs, 1, k)
      /\ mem' = file
      /\ Moves(fresh) /\ cut' = fresh
      /\ UNCHANGED <<entries, file, remote, thrown, tampered>>

\* A new process reads the state file; one it cannot parse is read as empty.
Restart ==
  /\ Fault
  /\ \/ mem # file /\ mem' = file /\ UNCHANGED <<file, moved>>
     \/ /\ file # EmptyState
        /\ mem' = EmptyState /\ file' = EmptyState /\ moved' = TRUE
  /\ UNCHANGED <<entries, outbox, remote, cut, thrown, tampered>>

\* The session appends an entry, on any branch of its one tree.
AppendEntry(kind, parent) ==
  /\ Len(entries) < MaxEntries
  /\ parent = 0 <=> entries = << >>
  /\ entries' = Append(entries, [kind |-> kind, parent |-> parent])
  /\ UNCHANGED <<mem, file, outbox, remote, faults, ghosts>>

-----------------------------------------------------------------------------
(* Delivery: the chunk paths are immutable, the manifest is overwritten.   *)

Store(job) ==
  \/ /\ job.type = "manifest"
     /\ manifest' = {job.body}
     /\ UNCHANGED <<stored, quarantined>>
  \/ /\ job.type = "chunk"
     /\ job.seq \notin DOMAIN stored
     /\ stored' = [q \in DOMAIN stored \cup {job.seq} |->
                     IF q = job.seq THEN job.content ELSE stored[q]]
     /\ UNCHANGED <<manifest, quarantined>>
  \/ /\ job.type = "chunk"
     /\ job.seq \in DOMAIN stored
     /\ quarantined' = quarantined
          \cup (IF stored[job.seq] = job.content THEN {} ELSE {job})
     /\ UNCHANGED <<stored, manifest>>

\* The oldest job is written and acknowledged, or the answer is lost and the
\* job stays: a refusal is an answer and is never lost.
Deliver ==
  /\ outbox # << >>
  /\ Store(Head(outbox))
  /\ \/ outbox' = Tail(outbox) /\ UNCHANGED faults
     \/ Fault /\ quarantined' = quarantined /\ UNCHANGED outbox
  /\ UNCHANGED <<entries, mem, file, ghosts>>

\* Somebody else removes a stored chunk, or puts another content in its place.
Tamper(q) ==
  /\ q \in DOMAIN stored
  /\ Fault
  /\ \/ stored' = [p \in DOMAIN stored \ {q} |-> stored[p]]
     \/ \E p \in DOMAIN stored :
          /\ stored[p] # stored[q]
          /\ stored' = [stored EXCEPT ![q] = stored[p]]
  /\ tampered' = TRUE
  /\ UNCHANGED <<entries, mem, file, outbox, manifest, quarantined, cut, moved, thrown>>

Next ==
  \/ \E kind \in Kinds, parent \in 0..Len(entries) : AppendEntry(kind, parent)
  \/ \E view \in Deliveries : Capture(view) \/ CaptureThrows(view) \/ CaptureDies(view)
  \/ Restart
  \/ Deliver
  \/ \E q \in 0..MaxEntries : Tamper(q)

Spec == Init /\ [][Next]_vars

-----------------------------------------------------------------------------
(* Verification: fetchRemoteBackup and verifyBackup over what is stored.   *)

\* The declared chunks that were found, in the manifest's order, as one list
\* of entries.
Found(m) == Within(m.chunks, {c \in ToSet(m.chunks) : c.seq \in DOMAIN stored})
Delivered(m) == FlattenSeq([i \in 1..Len(Found(m)) |-> stored[Found(m)[i].seq]])

\* The one seq past the declared ones is probed.
UnexpectedChunk(m) ==
  \E c \in ToSet(m.chunks) :
    /\ \A d \in ToSet(m.chunks) : d.seq =< c.seq
    /\ c.seq + 1 \in DOMAIN stored
MissingChunk(m)      == Len(Found(m)) # Len(m.chunks)
ChecksumMismatch(m)  == \E c \in ToSet(Found(m)) : stored[c.seq] # c.content
DuplicateCoverage(m) == ~IsInjective(Delivered(m))
EntryCountMismatch(m) == Len(Delivered(m)) # Len(m.covered)
RangeMismatch(m) ==
  /\ Delivered(m) # << >> /\ m.covered # << >>
  /\ \/ Head(Delivered(m)) # Head(m.covered)
     \/ Last(Delivered(m)) # Last(m.covered)
UnlinkedParent(m) ==
  \E i \in 1..Len(Delivered(m)) :
    LET parent == entries[Delivered(m)[i]].parent
    IN  parent # 0 /\ parent \notin {Delivered(m)[j] : j \in 1..(i - 1)}

Verifies(m) ==
  /\ ~UnexpectedChunk(m) /\ ~MissingChunk(m) /\ ~ChecksumMismatch(m)
  /\ ~DuplicateCoverage(m) /\ ~EntryCountMismatch(m)
  /\ ~RangeMismatch(m) /\ ~UnlinkedParent(m)

-----------------------------------------------------------------------------
(* Properties.                                                             *)

Content == Seq(1..MaxEntries)
States == [covered : Content, nextSeq : Nat, chunks : Seq([seq : Nat, content : Content])]

\* Types of the variables; the state BackupCapture keeps and the file agree in
\* shape, and the cursor never lists an entry twice (capture.ts:530-539).
TypeOK ==
  /\ entries \in Seq([kind : Kinds, parent : 0..MaxEntries])
  /\ mem \in States /\ IsInjective(mem.covered)
  /\ file \in States /\ IsInjective(file.covered)
  /\ \A i \in 1..Len(outbox) : outbox[i].type \in {"chunk", "manifest"}
  /\ \A q \in DOMAIN stored : q \in Nat /\ stored[q] \in Content
  /\ Cardinality(manifest) =< 1
  /\ faults \in 0..MaxFaults
  /\ cut \in Content
  /\ {moved, thrown, tampered} \subseteq BOOLEAN

InQueue == UNION {ToSet(j.content) : j \in {k \in ToSet(outbox) : k.type = "chunk"}}
InStore == UNION {ToSet(stored[q]) : q \in DOMAIN stored}
Refused == UNION {ToSet(j.content) : j \in quarantined}

\* No text is ever lost by the cursor: whatever enqueue, save or process fails
\* inside a flush, an entry with text that memory or the file takes for covered
\* is in a queued chunk, in a stored one or in one that was refused
\* (capture.ts:665-669, the cursor moves only after every chunk is queued).
CoveredIsSomewhere ==
  ~tampered =>
    \A e \in ToSet(mem.covered) \cup ToSet(file.covered) :
      IsText(e) => e \in InQueue \cup InStore \cup Refused

\* A flush that is cut short and then drawn again over the same entries is a
\* replay: the backend refuses a chunk only after the entries of the flush
\* changed in between, or the stored chunks did (chunker.ts:65-69).
ReplayNeverConflicts == quarantined # {} => moved \/ tampered

\* A stored chunk is never written again, whatever is redelivered, re-drawn or
\* refused: only somebody else changes it (capture.ts:259-304, writeImmutable).
KeepsStored ==
  \A q \in DOMAIN stored :
    (q \in DOMAIN stored' /\ stored'[q] = stored[q]) \/ tampered'
StoredIsImmutable == [][KeepsStored]_vars

\* What verification accepts is whole: the entries of the declared chunks are
\* exactly those the manifest counts as covered, each once and after its parent,
\* although the manifest carries only their number and the two ends
\* (verify.ts:350-483), and whatever was lost, misplaced or drawn twice.
VerifiedMeansComplete ==
  \A m \in manifest :
    Verifies(m) =>
      /\ ToSet(Delivered(m)) = ToSet(m.covered)
      /\ \A c \in ToSet(m.chunks) : c.seq \in DOMAIN stored /\ stored[c.seq] = c.content

\* The backup of a session of text only verifies once everything is delivered,
\* on any tree of branches, whichever views the flushes were given and wherever
\* the process died, as long as no flush was drawn differently the second time
\* and none threw (capture.ts:8-21).
QuietVerifies ==
  (/\ outbox = << >> /\ cut = << >> /\ ~moved /\ ~thrown /\ ~tampered
   /\ \A e \in 1..Len(entries) : IsText(e))
    => \A m \in manifest : Verifies(m)

\* From entry to verified backup: nothing covered is lost, a replay is harmless,
\* and verification tells the whole from the incomplete.
BackupSafety ==
  TypeOK /\ CoveredIsSomewhere /\ ReplayNeverConflicts /\ VerifiedMeansComplete
  /\ QuietVerifies

-----------------------------------------------------------------------------
(* What the code does not promise, although a comment of it does.          *)

\* "A crash before this point re-derives the same chunks (identical content ->
\* backend replay no-op)" (capture.ts:665-667; the same of a state file read as
\* empty, capture.ts:399-400): it does not when the session grew meanwhile or
\* another view is flushed; the new chunk meets the old path and is refused.
RederivedIsIdentical == ~tampered => quarantined = {}

\* What was delivered in full verifies (manifest.ts:47: the count is of the
\* entries "chunked + omitted"): verify.ts:415 compares it with the chunked ones
\* alone, so one omitted entry, such as the extension's own, fails every check.
DeliveredVerifies ==
  (outbox = << >> /\ cut = << >> /\ ~moved /\ ~thrown /\ ~tampered)
    => \A m \in manifest : Verifies(m)

\* A flush that threw and was repeated verifies: the chunk records of the first
\* attempt stay in memory (capture.ts:655), so the manifest declares them twice.
RetriedVerifies ==
  (/\ outbox = << >> /\ cut = << >> /\ ~moved /\ ~tampered
   /\ \A e \in 1..Len(entries) : IsText(e))
    => \A m \in manifest : Verifies(m)

=============================================================================
