---------------------------- MODULE MCDocuments ----------------------------
(***************************************************************************)
(* Documents with interchangeable documents and clients.                   *)
(***************************************************************************)
EXTENDS Documents, TLC

Symmetry == Permutations(Docs) \cup Permutations(Clients)
=============================================================================
