------------------------------ MODULE HelperCall -----------------------------
(***************************************************************************)
(* What run_bounded, run_command and run_runtime each promise their caller *)
(* of one run of a helper: a single answer, given when nothing of the      *)
(* helper's process group is left to run, and with an "ok" the whole       *)
(* output up to the limit.  The promise goes on after the answer: no       *)
(* member of the group comes back, and an output that was given stays the  *)
(* whole of it, because nobody is left who could add to it.                *)
(***************************************************************************)
EXTENDS Naturals

CONSTANTS
  Process,  \* the helper and all it may fork
  Stream,   \* the output streams
  Limit,    \* what is retained of a stream
  Failure   \* the answers that are errors

VARIABLES
  members,  \* the processes of the helper's group that run
  written,  \* what was ever written to a stream
  answer,   \* "none", "ok" or a member of Failure
  given     \* the output that was given: a set of at most one

callState == <<members, written, answer, given>>

Retained(s) ==
  [kept      |-> IF written[s] < Limit THEN written[s] ELSE Limit,
   truncated |-> written[s] > Limit]

\* The helper runs, or it could not be started.
Init ==
  /\ \/ answer = "none" /\ members \in (SUBSET Process) \ {{}}
     \/ answer \in Failure /\ members = {}
  /\ written = [s \in Stream |-> 0]
  /\ given = {}

Work ==
  /\ members' \subseteq Process
  /\ members = {} => members' = {}
  /\ written' \in [Stream -> Nat]
  /\ \A s \in Stream : written'[s] >= written[s]
  /\ answer = "ok" => UNCHANGED written
  /\ UNCHANGED <<answer, given>>

Return ==
  /\ answer = "none"
  /\ \/ answer' \in Failure /\ UNCHANGED given
     \/ answer' = "ok" /\ given' = {[s \in Stream |-> Retained(s)]}
  /\ members' = {}
  /\ UNCHANGED written

Next == Work \/ Return

Spec == Init /\ [][Next]_callState
==============================================================================
