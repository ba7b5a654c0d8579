------------------------------- MODULE MCFanout ------------------------------
(***************************************************************************)
(* Fan-outs small enough for TLC: more inputs than places, so that the     *)
(* join loop has to pass places on, and tasks that stop or time out.       *)
(***************************************************************************)
EXTENDS Fanout

MCKind == {"pass", "refused"}
==============================================================================
