--------------------------- MODULE MCArtifactStore ---------------------------
(***************************************************************************)
(* Three calls of Put of different lengths, one of them without content.   *)
(***************************************************************************)
EXTENDS ArtifactStore

CONSTANTS long, short, empty

MCSize == [p \in Puts |-> CASE p = long -> 2 [] p = short -> 1 [] p = empty -> 0]
=============================================================================
