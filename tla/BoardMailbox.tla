----------------------------- MODULE BoardMailbox -----------------------------
(***************************************************************************)
(* What board delivery promises to one consumer, whoever polls for it.     *)
(* Posted messages are told or given up, each in one of these ways and for *)
(* good; the place of the consumer in the feed moves forward only, over    *)
(* messages with which that has happened; what was acknowledged stays so.  *)
(* A disturbance (a lost record, a forgotten entry, two sessions over one  *)
(* file) may bring back the place and the acknowledgements, never lose a   *)
(* message; after it the rest is no longer promised.                       *)
(***************************************************************************)
EXTENDS Naturals, Sequences

CONSTANT Msgs

VARIABLES
    feed,     \* the messages posted, in order
    place,    \* how much of the feed the consumer is through with
    told, givenUp, acked,
    disturbed

vars == <<feed, place, told, givenUp, acked, disturbed>>

Posted == {feed[i] : i \in 1..Len(feed)}
Known == told \cup givenUp
Covered == \A i \in 1..Len(feed) : i <= place => feed[i] \in Known

Init ==
    /\ feed = << >> /\ place = 0
    /\ told = {} /\ givenUp = {} /\ acked = {}
    /\ disturbed = FALSE

Post(m) ==
    /\ feed' = Append(feed, m)
    /\ UNCHANGED <<place, told, givenUp, acked, disturbed>>

Tell(m) ==
    /\ ~disturbed /\ m \in Posted \ Known
    /\ told' = told \cup {m}
    /\ UNCHANGED <<feed, place, givenUp, acked, disturbed>>

GiveUpSome ==
    /\ ~disturbed
    /\ UNCHANGED <<feed, place, told, acked, disturbed>>
    /\ givenUp \subseteq givenUp' /\ givenUp' \subseteq Posted \ told

MoveOn ==
    /\ ~disturbed
    /\ UNCHANGED <<feed, told, givenUp, acked, disturbed>>
    /\ place' \in place..Len(feed) /\ Covered'

Acknowledge(m) ==
    /\ ~disturbed /\ m \in Known
    /\ acked' = acked \cup {m}
    /\ UNCHANGED <<feed, place, told, givenUp, disturbed>>

\* What was told or given up was posted, and stays known.
Disturb ==
    /\ disturbed' /\ feed' = feed
    /\ told \subseteq told' /\ told' \subseteq Posted
    /\ givenUp \subseteq givenUp' /\ givenUp' \subseteq Posted
    /\ acked' \subseteq Known'
    /\ place' \in 0..Len(feed) /\ Covered'

Next ==
    \/ MoveOn \/ GiveUpSome \/ Disturb
    \/ \E m \in Msgs : Post(m) \/ Tell(m) \/ Acknowledge(m)

Spec == Init /\ [][Next]_vars
=============================================================================
