--------------------------- MODULE MCSharedState ---------------------------
(***************************************************************************)
(* What several processes or agents share and change under each other's    *)
(* hands: the outbox directory (OutboxStore), the config file with its     *)
(* private-mode flag (LiveConfig), and the remote board that a cleanup     *)
(* deletes from (BoardCleanup).  The three share no state, so TLC explores *)
(* them side by side: "setup" is chosen once, and the other parts stay in  *)
(* their initial states.                                                   *)
(*                                                                         *)
(* Outbox: as MCOutboxStore says.  Config: two symmetric processes, one    *)
(* feature domain, which an editor leaves switched on.  Board: two         *)
(* symmetric paths, two different messages of this agent and of another,   *)
(* with a time to live, with an etag and without.                          *)
(***************************************************************************)
EXTENDS MCOutboxStore, TLC

CONSTANTS x, y,                                                        \* symmetric
          Msgs, Posted, Grace, Retention, MaxTime, MaxEvents, MaxRuns, \* board
          Pis, Features, Edits, MaxUpsets                              \* config

VARIABLES now, board, acks, private, log, cmd, shown, report, firstAck, sent,
          gone, late, spent,
          conf, draft, flip, runs, live, last, asked, spoilt, upsets

cleanupVars == <<now, board, acks, private, log, cmd, shown, report, firstAck,
                 sent, gone, late, spent>>
configVars  == <<conf, draft, flip, runs, live, last, asked, spoilt, upsets>>

Message(from, expires, etag) ==
  [from |-> from, created |-> 0, expires |-> expires, etag |-> etag]
MCPosted == {Message("own", {1}, 1), Message("own", {0}, 0),
             Message("other", {0}, 1)}

MCEdits == [form : {"ok", "partial"}, private : BOOLEAN, features : {{"observation"}}]
             \cup {[form |-> "broken", private |-> FALSE, features |-> {}]}

Cleanup == INSTANCE BoardCleanup

Config == INSTANCE LiveConfig WITH tmp <- draft, call <- asked

ASSUME SharedAssumption ==
    /\ Cleanup!CleanupAssumption /\ Config!BoundsAssumption
    /\ Posted \subseteq Cleanup!Messages

Symmetry == Permutations({x, y})

MCInit ==
    /\ \/ setup = "one process" /\ One!Init
       \/ setup = "two processes" /\ Two!Init
       \/ setup \in {"cleanup", "config"} /\ Init
    /\ Cleanup!Init /\ Config!Init
    /\ IF setup = "cleanup"
         THEN \A m, k \in Msgs : m # k => board[m] # board[k]
         ELSE board = [m \in Msgs |-> {Message("own", {1}, 1)}]
    /\ IF setup = "config"
         THEN conf.features = Features
         ELSE conf = [form |-> "ok", private |-> TRUE, features |-> {}]

StoreNext ==
    \/ setup = "one process" /\ One!Next
    \/ setup = "two processes" /\ Two!Next

MCNext ==
    /\ UNCHANGED setup
    /\ \/ StoreNext /\ UNCHANGED <<cleanupVars, configVars>>
       \/ setup = "cleanup" /\ Cleanup!Next /\ UNCHANGED <<vars, configVars>>
       \/ setup = "config" /\ Config!Next /\ UNCHANGED <<vars, cleanupVars>>

MCSpec == MCInit /\ [][MCNext]_<<vars, setup, cleanupVars, configVars>>

\* Nothing is deleted from the board that was not confirmed, settled, logged and
\* reported, and at most one delete outlives private mode.
CleanupSafety == setup = "cleanup" => Cleanup!CleanupSafety

\* No model call is out while private mode is known to be on, and a flip of
\* private mode does to the config file what it says.
PrivacySafety == setup = "config" => Config!PrivacySafety
=============================================================================
