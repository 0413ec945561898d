---------------------------- MODULE BackupExport ----------------------------
(***************************************************************************)
(* exportBackup of src/src/backup/verify.ts: a verified backup is copied   *)
(* to a directory that must not exist yet.  Each file operation is a step, *)
(* because another process may create a path of its own between two of     *)
(* them; what an operation meets is refused, and a failure removes what    *)
(* this call created.                                                      *)
(***************************************************************************)
EXTENDS Naturals, Sequences, FiniteSets

CONSTANTS
  Chunks,    \* chunk files, a sequence of paths
  MaxPlants  \* bound: paths other processes create

BoundsAssumption == MaxPlants \in Nat

VARIABLES
  owner,   \* who created each path: none, ours, theirs
  todo,    \* paths still to create, in order
  ledger,  \* files this call created (the array "files")
  outcome, \* running, cleaning, refused, failed or done
  plants   \* paths other processes created so far

vars == <<owner, todo, ledger, outcome, plants>>

ChunkPaths  == {Chunks[i] : i \in 1..Len(Chunks)}
Files       == {"manifest", "summary"} \cup ChunkPaths
Directories == {"destination", "chunks"}
Paths       == Files \cup Directories
Parent(p)   == IF p \in ChunkPaths THEN "chunks" ELSE "destination"
Inside(d)   == {p \in Paths \ {"destination"} : Parent(p) = d /\ owner[p] # "none"}

Order == <<"destination", "manifest", "chunks">> \o Chunks \o <<"summary">>

Init ==
  /\ owner = [p \in Paths |-> "none"]
  /\ todo = Order
  /\ ledger = {} /\ outcome = "running" /\ plants = 0

CreateLate == \* mutant: a file is on the ledger only once it is written
  /\ outcome = "running" /\ todo # << >>
  /\ owner[Head(todo)] = "none"
  /\ owner' = [owner EXCEPT ![Head(todo)] = "ours"]
  /\ \/ /\ todo' = Tail(todo) /\ ledger' = ledger \cup ({Head(todo)} \cap Files)
        /\ outcome' = (IF Tail(todo) = << >> THEN "done" ELSE "running")
     \/ Head(todo) \in Files /\ todo' = << >> /\ outcome' = "cleaning" /\ ledger' = ledger
  /\ UNCHANGED plants

\* The next path is free and is created.  A file is on the ledger as soon as it
\* is open; the write after that may still fail and start the cleanup.
Create ==
  /\ outcome = "running" /\ todo # << >>
  /\ owner[Head(todo)] = "none"
  /\ owner' = [owner EXCEPT ![Head(todo)] = "ours"]
  /\ ledger' = ledger \cup ({Head(todo)} \cap Files)
  /\ \/ todo' = Tail(todo) /\ outcome' = (IF Tail(todo) = << >> THEN "done" ELSE "running")
     \/ Head(todo) \in Files /\ todo' = << >> /\ outcome' = "cleaning"
  /\ UNCHANGED plants

\* A destination that exists is refused before anything is created.
Refuse ==
  /\ outcome = "running" /\ todo # << >>
  /\ Head(todo) = "destination" /\ owner["destination"] # "none"
  /\ outcome' = "refused" /\ todo' = << >>
  /\ UNCHANGED <<owner, ledger, plants>>

\* A path of somebody else, or an operation that fails, ends the copy.
Fail ==
  /\ outcome = "running" /\ todo # << >>
  /\ Head(todo) # "destination"
  /\ outcome' = "cleaning" /\ todo' = << >>
  /\ UNCHANGED <<owner, ledger, plants>>

\* cleanupOwned: the files of the ledger, then the two directories, each only
\* if nothing is left in it.
RemoveAll(dropped) == [p \in Paths |-> IF p \in dropped THEN "none" ELSE owner[p]]

EmptiedAll(dropped) == Paths \* mutant: the tree is removed recursively
EmptiedBy(dropped) ==
  LET chunks == IF owner["chunks"] # "none" /\ Inside("chunks") \subseteq dropped
                THEN {"chunks"} ELSE {}
      gone   == dropped \cup chunks
  IN  chunks \cup (IF Inside("destination") \subseteq gone THEN {"destination"} ELSE {})

Cleanup ==
  /\ outcome = "cleaning"
  /\ owner' = RemoveAll(ledger \cup EmptiedBy(ledger))
  /\ outcome' = "failed" /\ ledger' = {}
  /\ UNCHANGED <<todo, plants>>

\* Another process creates a path that is free, where its directory exists.
Plant(p) ==
  /\ plants < MaxPlants /\ plants' = plants + 1
  /\ owner[p] = "none"
  /\ p # "destination" => owner[Parent(p)] # "none"
  /\ owner' = [owner EXCEPT ![p] = "theirs"]
  /\ UNCHANGED <<todo, ledger, outcome>>

Next == Create \/ Refuse \/ Fail \/ Cleanup \/ \E p \in Paths : Plant(p)

Spec == Init /\ [][Next]_vars

-----------------------------------------------------------------------------
(* Properties.                                                             *)

\* Types of the variables; the ledger lists files of this call only.
TypeOK ==
  /\ owner \in [Paths -> {"none", "ours", "theirs"}]
  /\ ledger \subseteq {p \in Files : owner[p] = "ours"}
  /\ outcome \in {"running", "cleaning", "refused", "failed", "done"}
  /\ plants \in 0..MaxPlants

\* A file that another process puts in the way, at any moment of the copy or of
\* its cleanup, is neither overwritten nor removed (verify.ts:507-532, 549-551).
KeepsForeign == \A p \in Files : owner[p] = "theirs" => owner'[p] = "theirs"
ForeignFilesKept == [][KeepsForeign]_vars

\* A copy that failed leaves no file of its own, and a directory of its own only
\* where something is left in it (verify.ts:606-624).
FailureLeavesNothing ==
  outcome = "failed" =>
    /\ \A p \in Files : owner[p] # "ours"
    /\ \A d \in Directories : owner[d] = "ours" => Inside(d) # {}

\* A copy that is reported done consists of paths this call created and no other
\* (verify.ts:540-546, 577-653).
DoneIsOurs == outcome = "done" => \A p \in Paths : owner[p] = "ours"

\* An export is all or nothing.
ExportSafety == TypeOK /\ FailureLeavesNothing /\ DoneIsOurs

\* "preexisting or non-owned content is never deleted" (verify.ts:549-551): the
\* cleanup removes "chunks" whenever it is empty, whoever made it.
ForeignDirectoriesKept ==
  [][\A d \in Directories : owner[d] = "theirs" => owner'[d] = "theirs"]_vars
=============================================================================
