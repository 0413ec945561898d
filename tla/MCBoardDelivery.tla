--------------------------- MODULE MCBoardDelivery ---------------------------
(***************************************************************************)
(* Instances of BoardDelivery for TLC: one session that works through two  *)
(* messages page by page, and two sessions whose pollers overlap over one  *)
(* message.  Beside them, the paged listings BoardDelivery takes for one   *)
(* step: five rows, pages of two, rows posted and withdrawn between the    *)
(* pages.  "setup" is chosen once, and the others rest.                    *)
(***************************************************************************)
EXTENDS BoardDelivery, TLC

CONSTANTS r1, r2, m1, m2, p1, p2,
          Rows, Fitting, Limit, MaxPaths, ListPages, ListMoves   \* the listing

VARIABLES setup,
          rows, ignores, kind, exclude, page, seen, done, truncated, atStart,
          moves, removed, barren

Symmetry == Permutations(Runtimes) \cup Permutations(Pollers) \cup Permutations(Msgs)

\* Two messages, pages of one, bounded backlog, and a mishap.
Alone == INSTANCE BoardDelivery
    WITH MaxPages <- 2, Prunes <- FALSE, LocksAge <- FALSE, MaxFeed <- 2, MaxMishaps <- 1

\* One message; entries are pruned and locks get old.
Overlap == INSTANCE BoardDelivery
    WITH MaxPages <- 1, Prunes <- TRUE, LocksAge <- TRUE, MaxFeed <- 1, MaxMishaps <- 0

Listing == INSTANCE BoardListing WITH MaxPages <- ListPages, MaxMoves <- ListMoves

ASSUME ListingAssumption == Listing!BoundsAssumption

listing == <<rows, ignores, kind, exclude, page, seen, done, truncated, atStart,
             moves, removed, barren>>

OnlyFirst == r2 \notin open' \cup holds' /\ acq'[r2] = "no"

NoListing == rows = << >> /\ exclude = {} /\ kind = "list" /\ ~ignores

\* Which of the fitting rows are handled makes no difference, only how many.
HandledFirst == exclude = 1..Cardinality(exclude)

SetupInit ==
    /\ setup \in {"alone", "overlap", "listing"}
    /\ Init /\ Listing!Init /\ (IF setup = "listing" THEN HandledFirst ELSE NoListing)

SetupNext ==
    \/ setup = "alone" /\ Alone!Next /\ OnlyFirst /\ UNCHANGED <<setup, listing>>
    \/ setup = "overlap" /\ Overlap!Next /\ UNCHANGED <<setup, listing>>
    \/ setup = "listing" /\ Listing!Next /\ UNCHANGED <<setup, vars>>

SetupSpec == SetupInit /\ [][SetupNext]_<<vars, setup, listing>>

\* One session whose reads may be refused.
RefusedInit == Init /\ setup = "alone" /\ Listing!Init /\ NoListing

RefusedSpec ==
    /\ RefusedInit
    /\ [][Next /\ UNCHANGED <<setup, listing>>]_<<vars, setup, listing>>

\* A listing that does not say it is truncated has every message, and a list()
\* below its limit has left none of the channel out.
ListingSafety == setup = "listing" => Listing!ListingSafety
=============================================================================
