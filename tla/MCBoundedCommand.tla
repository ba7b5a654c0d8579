-------------------------- MODULE MCBoundedCommand ---------------------------
(***************************************************************************)
(* A helper with two descendants, pipes of one chunk, some chunks more on  *)
(* a stream and a limit of one: the output may be under, at and over the   *)
(* limit, and over what a pipe holds.                                      *)
(***************************************************************************)
EXTENDS HelperEvidence

CONSTANTS d1, d2

Descendants == {d1, d2}
==============================================================================
