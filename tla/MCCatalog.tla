----------------------------- MODULE MCCatalog ------------------------------
(***************************************************************************)
(* Two projects to move a repository between; clients are interchangeable. *)
(***************************************************************************)
EXTENDS Catalog, TLC

ClientSymmetry == Permutations(Clients)
=============================================================================
