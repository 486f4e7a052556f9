--------------------------- MODULE MCDestinations ---------------------------
(***************************************************************************)
(* A site and the destinations, checked in one run.  They share no state,  *)
(* so nothing is lost by letting one of them move in a behaviour: the      *)
(* initial state picks which, and the other stays at its own.              *)
(***************************************************************************)
EXTENDS MCSite, Destinations

CONSTANTS ann, p, q   \* a chat and two processes that pair

VARIABLE part   \* what moves in this behaviour

EitherInit == part \in {"site", "destinations"} /\ Init /\ DestinationsInit

EitherNext ==
  \/ part = "site" /\ Next /\ UNCHANGED <<part, destinationsVars>>
  \/ part = "destinations" /\ DestinationsNext /\ UNCHANGED <<part, vars>>

EitherSpec == EitherInit /\ [][EitherNext]_<<part, vars, destinationsVars>>

\* The site alone, as fair as it is specified.
SiteStarts == part = "site" /\ EitherInit
SiteAlone == SiteStarts /\ [][EitherNext]_<<part, vars, destinationsVars>> /\ Fairness

\* Between two of their steps.
Pairings == Cardinality({x \in Pairer : pairer[x].at = "write"})
Taps == Cardinality({c \in Address : claim[c] # {}})
Edits == Cardinality(edit.on)
Workers == Cardinality({d \in DestId : worker[d] # "idle"})

\* Two of them, one once pairings have overlapped; a worker alone or beside a pairing.
FewAtOnce ==
  /\ Pairings + Taps + Edits + Workers <= IF overlapped THEN 1 ELSE 2
  /\ Workers > 0 => Workers = 1 /\ Taps + Edits = 0

AllInterchangeable == Interchangeable \cup Permutations(Pairer)
=============================================================================
