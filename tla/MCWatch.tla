------------------------------- MODULE MCWatch -------------------------------
(***************************************************************************)
(* Instances of Watch for TLC: three listings, the last of them without a  *)
(* photo timestamp, and searches that overlap in all of them.              *)
(***************************************************************************)
EXTENDS Watch

MCTs == [i \in Item |-> CASE i = "older" -> 1 [] i = "newer" -> 2 [] i = "bare" -> 0]
MCMatches == [q \in Search |-> Item]
MCNoGate == [q \in Search |-> {}]
MCGated == [q \in Search |-> {"older"}]

\* Everybody sends to every destination, or each search to its own.
MCShared == [q \in Search |-> Destination]
MCApart == [q \in Search |-> IF q = "shoes" THEN {"phone"} ELSE {"desk"}]

MCListed == [i \in Item |-> CHOOSE p \in Price : \A q \in Price : q <= p]
MCFalls == {p \in Price \X Price : p[2] < p[1]}
=============================================================================
