------------------------ MODULE MCReflectionBackup ------------------------
(***************************************************************************)
(* The two producers that keep a state file of their own beside the outbox *)
(* and hand it work: reflection, and the backup of sessions with its       *)
(* export.  They share no state, so TLC explores them side by side: "part" *)
(* is chosen once, and the others stay in their initial states.            *)
(*                                                                         *)
(* Reflection: three records, one of them over the budget alone.           *)
(* Backup: one session of three entries on any tree, chunks of two         *)
(* ordinary entries, two faults; the export of two chunks.                 *)
(***************************************************************************)
EXTENDS ReflectionEngine, TLC

CONSTANTS r1, r2, r3, MaxEntries, ChunkCap, MaxBackupFaults, MaxPlants

VARIABLES part, entries, mem, state, outbox, stored, manifest, quarantined,
          failures, cut, moved, thrown, tampered,
          owner, todo, ledger, outcome, plants

captureVars == <<entries, mem, state, outbox, stored, manifest, quarantined,
                 failures, cut, moved, thrown, tampered>>
exportVars  == <<owner, todo, ledger, outcome, plants>>

Backup == INSTANCE BackupCapture
    WITH Cap <- ChunkCap, MaxFaults <- MaxBackupFaults, file <- state,
         faults <- failures

Copy == INSTANCE BackupExport WITH Chunks <- <<"000000", "000001">>

ASSUME BackupAssumption == Backup!BoundsAssumption /\ Copy!BoundsAssumption

MCInit ==
    /\ part \in {"reflection", "backup", "export"}
    /\ Init /\ Backup!Init /\ Copy!Init

MCNext ==
    \/ part = "reflection" /\ Next /\ UNCHANGED <<part, captureVars, exportVars>>
    \/ part = "backup" /\ Backup!Next /\ UNCHANGED <<part, vars, exportVars>>
    \/ part = "export" /\ Copy!Next /\ UNCHANGED <<part, vars, captureVars>>

MCSpec == MCInit /\ [][MCNext]_<<part, vars, captureVars, exportVars>>

\* What the cursor counts as covered is in a job, stored, or refused; replays are
\* harmless; and what verifies is whole.  A copy that failed leaves nothing of
\* its own behind, one that is done is ours.
BackupSafety == Backup!BackupSafety /\ Copy!ExportSafety

\* Neither a stored chunk nor a file of others in the export's way is ever
\* written over or removed (capture.ts:259-304, verify.ts:507-532).
BackupKeepsOthers ==
    [][Backup!KeepsStored /\ Copy!KeepsForeign]_<<captureVars, exportVars>>
=============================================================================
