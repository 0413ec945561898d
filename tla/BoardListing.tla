---------------------------- MODULE BoardListing ----------------------------
(***************************************************************************)
(* The paged listings of src/src/board/repository.ts: list() of a channel, *)
(* and listAllBoardMessagePaths(), which stands in for the changes feed    *)
(* when the backend rejects it.  A page is a kiwi_query_meta by offset, and *)
(* between two pages messages are posted, at any place of the listing, and *)
(* removed.  The backend may ignore the offset.                            *)
(***************************************************************************)
EXTENDS Naturals, Sequences, SequencesExt, FiniteSets

CONSTANTS
  Rows,     \* paths of the records a query may find
  Fitting,  \* those whose path is one of the channel, or of the board
  Limit,    \* rows of a page, and paths of a list()
  MaxPages,
  MaxPaths, \* of listAllBoardMessagePaths()
  MaxMoves  \* bound: rows posted or removed during a listing

BoundsAssumption ==
  /\ IsFiniteSet(Rows) /\ Fitting \subseteq Rows
  /\ Limit \in Nat \ {0} /\ MaxPages \in Nat \ {0} /\ MaxPaths \in Nat \ {0}
  /\ MaxMoves \in Nat

VARIABLES
  rows,    \* what the query finds, in the order of the backend
  ignores, \* does the backend ignore the offset?
  kind,    \* the listing: "list" or "all"
  exclude, \* paths delivery has handled
  page,    \* pages fetched
  seen,    \* paths kept, by their order
  done, truncated,
  atStart, \* history: rows when the listing began
  moves,
  removed, \* history: was a row removed since?
  barren   \* history: did a page add no path, and still have rows?

vars == <<rows, ignores, kind, exclude, page, seen, done, truncated, atStart,
          moves, removed, barren>>

Init ==
  /\ \E M \in SUBSET Rows : rows \in SetToSeqs(M)
  /\ atStart = ToSet(rows)
  /\ ignores \in BOOLEAN
  /\ \/ kind = "list" /\ exclude = {}
     \/ kind = "all" /\ exclude \in SUBSET Fitting
  /\ page = 0 /\ seen = << >> /\ done = FALSE /\ truncated = FALSE
  /\ moves = 0 /\ removed = FALSE /\ barren = FALSE

-----------------------------------------------------------------------------
(* The backend.                                                            *)

Move == ~done /\ page > 0 /\ moves < MaxMoves /\ moves' = moves + 1

Post ==
  /\ Move
  /\ \E r \in Rows \ (ToSet(rows) \cup atStart), i \in 1..Len(rows) + 1 :
       rows' = InsertAt(rows, i, r)
  /\ UNCHANGED <<ignores, kind, exclude, page, seen, done, truncated, atStart,
                 removed, barren>>

Withdraw ==
  /\ Move
  /\ \E i \in DOMAIN rows : rows' = RemoveAt(rows, i)
  /\ removed' = TRUE
  /\ UNCHANGED <<ignores, kind, exclude, page, seen, done, truncated, atStart,
                 barren>>

\* The members of s that are in S, in their order.
Within(s, S) ==
  LET picked[n \in 0..Len(s)] ==
        IF n = 0 THEN << >>
        ELSE IF s[n] \in S THEN Append(picked[n - 1], s[n]) ELSE picked[n - 1]
  IN  picked[Len(s)]

\* The first n members of a sequence.
UpTo(s, n) == SubSeq(s, 1, IF n < Len(s) THEN n ELSE Len(s))

\* The rows of the page under way, and those of them that are kept.
Raw == LET from == IF ignores THEN 0 ELSE page * Limit
           rest == SubSeq(rows, from + 1, Len(rows))
       IN  UpTo(rest, Limit)
Kept == Within(Raw, Fitting \ (exclude \cup ToSet(seen)))

Filled(all) == Len(all) >= Limit \/ Kept = << >>

-----------------------------------------------------------------------------
(* The listings.                                                           *)

\* Pages until there is enough, or a page adds nothing; the surplus is cut off.
ListPage ==
  /\ kind = "list" /\ ~done
  /\ LET all == seen \o Kept
         stop == Filled(all) \/ page + 1 = MaxPages
     IN  /\ seen' = IF stop THEN UpTo(all, Limit) ELSE all
         /\ done' = stop
         /\ barren' = (Kept = << >> /\ Raw # << >>)
  /\ page' = page + 1
  /\ UNCHANGED <<rows, ignores, kind, exclude, truncated, atStart, moves, removed>>

StopsAtBound(full) == full \* mutant: a stop at the page bound is not disclosed
Discloses(full) == full \/ Raw # << >>

\* Pages until one is empty, a path would be too many, or the bound of the pages;
\* a stop that cannot tell it has seen everything is disclosed.
AllPage ==
  /\ kind = "all" /\ ~done
  /\ LET all  == seen \o Kept
         full == Len(all) > MaxPaths
         stop == full \/ Raw = << >> \/ page + 1 = MaxPages
     IN  /\ seen' = UpTo(all, MaxPaths)
         /\ done' = stop
         /\ truncated' = (stop /\ Discloses(full))
  /\ page' = page + 1
  /\ UNCHANGED <<rows, ignores, kind, exclude, atStart, moves, removed, barren>>

\* The next call, from its own beginning.
Again ==
  /\ done
  /\ page' = 0 /\ seen' = << >> /\ done' = FALSE /\ truncated' = FALSE
  /\ atStart' = ToSet(rows) /\ moves' = 0 /\ removed' = FALSE /\ barren' = FALSE
  /\ UNCHANGED <<rows, ignores, kind, exclude>>

Next == Post \/ Withdraw \/ ListPage \/ AllPage \/ Again

Spec == Init /\ [][Next]_vars

-----------------------------------------------------------------------------
(* Properties.                                                             *)

\* Type invariant of the backend's rows and the listing.
ListingTypeOK ==
  /\ rows \in Seq(Rows) /\ IsInjective(rows)
  /\ seen \in Seq(Fitting \ exclude) /\ IsInjective(seen)
  /\ page \in 0..MaxPages /\ moves \in 0..MaxMoves
  /\ Len(seen) =< IF kind = "list" THEN 2 * Limit ELSE MaxPaths
  /\ done /\ kind = "list" => Len(seen) =< Limit
  /\ {ignores, done, truncated, removed, barren} \subseteq BOOLEAN

\* A listing that does not say it is truncated is complete (repository.ts:361-365:
\* "never a silent false-complete"): it has every message that was there when it
\* began and was not handled, whatever was posted meanwhile and wherever, also on
\* a backend that ignores the offset; unless one was removed meanwhile.
CompleteOrDisclosed ==
  kind = "all" /\ done /\ ~truncated /\ ~removed =>
    (atStart \cap Fitting) \ exclude \subseteq ToSet(seen)

\* A list() below its limit has left no message of the channel out
\* (repository.ts:211-217), whatever else the pages hold, unless a page added
\* nothing, the bound of the pages was reached or a message was removed.
UnderfillIsComplete ==
  kind = "list" /\ done /\ Len(seen) < Limit
  /\ ~barren /\ ~removed /\ page < MaxPages =>
    atStart \cap Fitting \subseteq ToSet(seen)

\* A paged listing of a backend that changes under it can be trusted.
ListingSafety == ListingTypeOK /\ CompleteOrDisclosed /\ UnderfillIsComplete

-----------------------------------------------------------------------------
(* What the code does not promise, although a comment of it does: a row    *)
(* removed between two pages moves the next one before the offset, and the *)
(* listing is taken for complete without it.                               *)

NoFalseComplete ==
  kind = "all" /\ done /\ ~truncated =>
    ((atStart \cap ToSet(rows)) \cap Fitting) \ exclude \subseteq ToSet(seen)
=============================================================================
