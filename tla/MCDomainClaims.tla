--------------------------- MODULE MCDomainClaims ---------------------------
(***************************************************************************)
(* Instances of DomainClaims for TLC.                                      *)
(***************************************************************************)
EXTENDS DomainClaims, TLC

Interchangeable == Permutations(Ids) \cup Permutations(Domains) \cup Permutations(Actors)
=============================================================================
