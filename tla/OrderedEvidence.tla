--------------------------- MODULE OrderedEvidence ---------------------------
(***************************************************************************)
(* What every fan-out of the program promises its caller: one piece of     *)
(* evidence per input, in input order, each about its own input, delivered *)
(* only once every input has been observed.  An input whose probe stopped  *)
(* without evidence is reported as such and never left out.                *)
(***************************************************************************)
EXTENDS Naturals

CONSTANTS
  N,         \* number of inputs (addresses or programs)
  Kind,      \* what a probe can observe
  Fallback   \* the kind reported for a probe that stopped without evidence

VARIABLES
  observed,  \* per input: "unknown", "stopped" or a member of Kind
  report     \* the delivered sequence of evidence

Input == 1..N

Evidence == [input : Input, kind : Kind \cup {Fallback}]

Delivered == report # <<>>

Init ==
  /\ observed = [i \in Input |-> "unknown"]
  /\ report = <<>>

Observe(i) ==
  /\ observed[i] = "unknown"
  /\ \E k \in Kind \cup {"stopped"} : observed' = [observed EXCEPT ![i] = k]
  /\ UNCHANGED report

Deliver ==
  /\ ~ Delivered
  /\ \A i \in Input : observed[i] # "unknown"
  /\ report' = [i \in Input |->
                  [input |-> i,
                   kind  |-> IF observed[i] = "stopped" THEN Fallback
                                                        ELSE observed[i]]]
  /\ UNCHANGED observed

Next == Deliver \/ \E i \in Input : Observe(i)

vars == <<observed, report>>

Spec ==
  /\ Init
  /\ [][Next]_vars
  /\ WF_vars(Deliver)
  /\ \A i \in Input : WF_vars(Observe(i))
==============================================================================
