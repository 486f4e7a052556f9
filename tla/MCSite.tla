-------------------------------- MODULE MCSite --------------------------------
(***************************************************************************)
(* Instances of Site for TLC.  The searches are interchangeable.           *)
(***************************************************************************)
EXTENDS Site, TLC

Interchangeable == Permutations(Search)
=============================================================================
