---------------------------- MODULE MCRunReader -----------------------------
(***************************************************************************)
(* A small pipeline of two stages, for the reader of its rows.             *)
(***************************************************************************)
EXTENDS RunReaderInvariant

CONSTANTS image, none

BuildOne == << <<image>> >>
TestOne  == <<FALSE>>
=============================================================================
