----------------------------- MODULE MCSession -----------------------------
(***************************************************************************)
(* The life of a session, the commands its user gives on proposals, and    *)
(* the evidence it injects into prompts.  The three share no state, so TLC *)
(* explores them side by side: "part" is chosen once, and the other parts  *)
(* stay in their initial states.                                           *)
(*                                                                         *)
(* Sessions, leaves, actors and texts are symmetric; of sessions, actors   *)
(* and texts, which never meet, there are two, the same two model values.  *)
(* The two proposals share a target; one of two records is authorized.     *)
(***************************************************************************)
EXTENDS SessionLifecycle, TLC

CONSTANTS p1, p2, t1, t2, t3, r1, r2,
          Proposals, Targets, Actors, NoDoc, TargetsOf, MaxCalls,       \* proposals
          Records, Authorized, Keys, Cap, MaxKeys, MaxCounts, MaxInputs, \* injection
          MaxQueries, MaxTurns, MaxMoves

VARIABLES part,
          doc, call, opLog, manLog, commands, failures, overlap,
          forgotten, forgetting, hushed, tokenizer, inputs, stage, cycle,
          pending, consumed, seen, occurrences, context, run, calls, turns,
          packs, called, banned, removed, dropped, cancelled, lost

proposalVars == <<doc, call, opLog, manLog, commands, failures, overlap>>
injectionVars ==
    <<forgotten, forgetting, hushed, tokenizer, inputs, stage, cycle, pending,
      consumed, seen, occurrences, context, run, calls, turns, packs, called,
      banned, removed, dropped, cancelled, lost>>

Sharing == [p \in {p1, p2} |-> IF p = p1 THEN <<t1, t2>> ELSE <<t2, t3>>]

P == INSTANCE ProposalLifecycle WITH calls <- commands, faults <- failures

Evidence == INSTANCE EvidenceInjection
    WITH MaxCalls <- MaxQueries, private <- hushed, history <- context,
         shown <- packs, gone <- removed

ASSUME SessionAssumption ==
    /\ Evidence!BoundsAssumption
    /\ P!TargetsAssumption /\ P!DisjointAssumption
    /\ P!BoundsAssumption

Symmetry ==
    Permutations(Sessions \cup Actors \cup Keys) \cup Permutations(Leaves)

MCInit ==
    /\ part \in {"session", "proposals", "injection"}
    /\ Init /\ P!Init /\ Evidence!Init

MCNext ==
    \/ part = "session" /\ Next /\ UNCHANGED <<part, proposalVars, injectionVars>>
    \/ part = "proposals" /\ P!Next /\ UNCHANGED <<part, vars, injectionVars>>
    \/ part = "injection" /\ Evidence!Next /\ UNCHANGED <<part, vars, proposalVars>>

MCSpec == MCInit /\ [][MCNext]_<<part, vars, proposalVars, injectionVars>>

\* Every transition is logged, decided once, and hides only what it says.
ProposalSafety == part = "proposals" => P!ProposalSafety

\* A pack is injected once, into its own turn, with evidence read back in its own
\* cycle.
InjectionSafety == part = "injection" => Evidence!InjectionSafety

\* Neither a state file of a newer version nor a line of a document's history is
\* ever written over (coordinator.ts:194-200, proposals.ts:26).
NothingErased ==
    [][KeepsNewer /\ P!KeepsHistory]_<<vars, proposalVars>>
=============================================================================
