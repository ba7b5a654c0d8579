------------------------------- MODULE Fanout -------------------------------
(***************************************************************************)
(* The bounded fan-out shared by the TCP and the route probes              *)
(* (connect_all_with, inspect_all_with): a JoinSet holds the spawned       *)
(* tasks, `pending` enumerates the inputs that wait for a place, `results` *)
(* has a slot per input.  A task runs on the runtime's threads while the   *)
(* loop spawns or joins; it ends with evidence, at its timeout, or by      *)
(* stopping without evidence (a panic).  plugin::collect and inspect_mtu   *)
(* are the same loop with every input spawned at once (N =< MaxConcurrent).*)
(***************************************************************************)
EXTENDS Naturals, FiniteSets

CONSTANTS
  N,              \* number of inputs
  MaxConcurrent,  \* MAX_CONCURRENT_CONNECTS, MAX_CONCURRENT_COMMANDS
  Kind,           \* evidence a probe may return before its timeout
  Timeout,        \* evidence of a probe whose timer fired
  Fallback        \* kind of the evidence that stands for a stopped task

ASSUME FanoutAssumption ==
  /\ N \in Nat
  /\ MaxConcurrent \in Nat \ {0}
  /\ {"running", "stopped", "unknown"} \cap (Kind \cup {Timeout}) = {}

Input == 1..N

Observed == Kind \cup {Timeout}

Evidence == [input : Input, kind : Observed \cup {Fallback}]

\* An unfilled slot of `results`.
None == [input |-> 0, kind |-> "none"]

VARIABLES
  next,     \* position of the iterator `pending`
  tasks,    \* the JoinSet: spawned tasks that join_next has not returned
  outcome,  \* per input: "running" until its task ended, then how it ended
  results,  \* the slots, None or the evidence joined from a task
  report    \* the returned vector, <<>> until the function returns

vars == <<next, tasks, outcome, results, report>>

Init ==
  /\ next = 1
  /\ tasks = {}
  /\ outcome = [i \in Input |-> "running"]
  /\ results = [i \in Input |-> None]
  /\ report = <<>>

\* The first loop: `pending.by_ref().take(MAX_CONCURRENT_...)`.
MutFilling == next <= N   \* mutant: the first loop ignores the limit

Filling == next <= N /\ next <= MaxConcurrent

Spawn ==
  /\ Filling
  /\ tasks' = tasks \cup {next}
  /\ next' = next + 1
  /\ UNCHANGED <<outcome, results, report>>

\* A spawned task ends: with the evidence of its probe, or stopped.
End(i, how) ==
  /\ i \in tasks
  /\ outcome[i] = "running"
  /\ outcome' = [outcome EXCEPT ![i] = how]
  /\ UNCHANGED <<next, tasks, results, report>>

Complete(i) == \E k \in Kind : End(i, k)

\* The timer of `timeout(operation_timeout, ...)` inside the task.
Expire(i) == End(i, Timeout)

Stop(i) == End(i, "stopped")

\* Mutants of Join: a place is passed on only by a task with evidence; the
\* evidence is pushed instead of stored in its slot; the loop is
\* `while let Some(Ok(..))`; the iterator is advanced past its end.
MutJoinOnlyOkSpawns(i) ==
  /\ ~ Filling
  /\ i \in tasks
  /\ outcome[i] # "running"
  /\ results' = IF outcome[i] = "stopped"
                  THEN results
                  ELSE [results EXCEPT ![i] = [input |-> i, kind |-> outcome[i]]]
  /\ tasks' = (tasks \ {i}) \cup
                (IF next <= N /\ outcome[i] # "stopped" THEN {next} ELSE {})
  /\ next' = IF next <= N /\ outcome[i] # "stopped" THEN next + 1 ELSE next
  /\ UNCHANGED <<outcome, report>>

MutJoinPushes(i) ==
  LET free == {j \in Input : results[j] = None}
      push == CHOOSE j \in free : \A l \in free : j <= l
  IN /\ ~ Filling
     /\ i \in tasks
     /\ outcome[i] # "running"
     /\ results' = IF outcome[i] = "stopped"
                     THEN results
                     ELSE [results EXCEPT ![push] =
                             [input |-> i, kind |-> outcome[i]]]
     /\ tasks' = (tasks \ {i}) \cup (IF next <= N THEN {next} ELSE {})
     /\ next' = IF next <= N THEN next + 1 ELSE next
     /\ UNCHANGED <<outcome, report>>

MutJoinLosesPlace(i) ==
  /\ ~ Filling
  /\ i \in tasks
  /\ outcome[i] \notin {"running", "stopped"}
  /\ results' = [results EXCEPT ![i] = [input |-> i, kind |-> outcome[i]]]
  /\ tasks' = (tasks \ {i}) \cup (IF next <= N THEN {next} ELSE {})
  /\ next' = IF next <= N THEN next + 1 ELSE next
  /\ UNCHANGED <<outcome, report>>

MutJoinAdvancesPastEnd(i) ==
  /\ ~ Filling
  /\ i \in tasks
  /\ outcome[i] # "running"
  /\ UNCHANGED <<results, outcome, report>>
  /\ tasks' = (tasks \ {i}) \cup (IF next <= N THEN {next} ELSE {})
  /\ next' = next + 1

\* join_next returned task i: keep its evidence, then give its place to the
\* next pending input whether or not the task produced evidence.
Join(i) ==
  /\ ~ Filling
  /\ i \in tasks
  /\ outcome[i] # "running"
  /\ results' = IF outcome[i] = "stopped"
                  THEN results
                  ELSE [results EXCEPT ![i] = [input |-> i, kind |-> outcome[i]]]
  /\ tasks' = (tasks \ {i}) \cup (IF next <= N THEN {next} ELSE {})
  /\ next' = IF next <= N THEN next + 1 ELSE next
  /\ UNCHANGED <<outcome, report>>

failed_task(i) == [input |-> i, kind |-> Fallback]

\* join_next returned None: zip the slots with the inputs.
Return ==
  /\ ~ Filling
  /\ tasks = {}
  /\ report = <<>>
  /\ report' = [i \in Input |-> IF results[i] = None THEN failed_task(i)
                                                     ELSE results[i]]
  /\ UNCHANGED <<next, tasks, outcome, results>>

Next ==
  \/ Spawn
  \/ Return
  \/ \E i \in Input : Complete(i) \/ Expire(i) \/ Stop(i) \/ Join(i)

\* A probe may hang for ever, its timer may not: no fairness of Complete or
\* Stop.  The loop itself never waits on anything but join_next.
Spec ==
  /\ Init
  /\ [][Next]_vars
  /\ WF_vars(Spawn)
  /\ WF_vars(Return)
  /\ \A i \in Input : WF_vars(Expire(i)) /\ WF_vars(Join(i))

------------------------------------------------------------------------------
\* Type invariant: the iterator is in range, the JoinSet holds inputs, slots
\* hold evidence, the report is empty or a full vector of evidence.
TypeOK ==
  /\ next \in 1..N+1
  /\ tasks \in SUBSET Input
  /\ outcome \in [Input -> Observed \cup {"running", "stopped"}]
  /\ results \in [Input -> Evidence \cup {None}]
  /\ report = <<>> \/ report \in [Input -> Evidence]

\* Never more than MaxConcurrent probes at a time (connects or `ip` commands),
\* whatever the order in which tasks end, stop and are joined.
BoundedConcurrency == Cardinality(tasks) <= MaxConcurrent

\* No place is wasted: after the first loop an input waits only while every
\* place is taken.  A stopped task that gave up its place without passing it
\* on would make the join loop end with inputs never probed.
WorkConserving == next <= N /\ ~ Filling => Cardinality(tasks) = MaxConcurrent

\* The returned vector tells the truth about every input in its own position:
\* the input was probed, its entry is what its own task observed, and the
\* placeholder stands exactly for the tasks that stopped.
FaithfulReport ==
  report # <<>> =>
    \A i \in Input :
      /\ outcome[i] # "running"
      /\ report[i].input = i
      /\ report[i].kind = IF outcome[i] = "stopped" THEN Fallback
                                                    ELSE outcome[i]

\* Every task is bounded by its timeout, so the fan-out returns.
Returns == <>(N > 0 => report # <<>>)

\* The fan-out implements what it promises its caller.
Promise == INSTANCE OrderedEvidence WITH
  Kind <- Observed,
  observed <- [i \in Input |-> IF outcome[i] = "running" THEN "unknown"
                                                         ELSE outcome[i]]

ImplementsOrderedEvidence == Promise!Spec
==============================================================================
