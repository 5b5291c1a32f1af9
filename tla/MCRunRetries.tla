---------------------------- MODULE MCRunRetries ----------------------------
(***************************************************************************)
(* One test step: two calls of it are a large state space already.         *)
(***************************************************************************)
EXTENDS RunRetries

CONSTANTS image, none

NoBuild == <<>>
TestOne == <<FALSE>>
=============================================================================
