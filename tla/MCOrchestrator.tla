--------------------------- MODULE MCOrchestrator ---------------------------
(***************************************************************************)
(* Configurations of pipelines for TLC.                                    *)
(***************************************************************************)
EXTENDS OrchestratorRefinement, OrchestratorClaims

CONSTANTS binary, image, none

MCTypes == {binary, image}

(* Two build steps; the second declares the wanted type twice.             *)
BuildTwo == << <<binary>>, <<image, image>> >>
BuildOne == << <<image>> >>

(* A block of two, with a sequential step and a second block after it; a   *)
(* block alone.                                                            *)
TwoBlocks   == <<TRUE, TRUE, FALSE, TRUE>>
ParPar      == <<TRUE, TRUE>>
NoTests     == <<>>
=============================================================================
