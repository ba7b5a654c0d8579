-------------------------- MODULE MCRuntimeCommand ---------------------------
(***************************************************************************)
(* A helper with two descendants, pipes of one chunk, up to three chunks on  *)
(* a stream and a limit of one: the output may be under, at and over the   *)
(* limit, and over what a pipe holds.                                      *)
(***************************************************************************)
EXTENDS RuntimeCommand

CONSTANTS d1, d2

Descendants == {d1, d2}
==============================================================================
