---------------------------- MODULE FanoutProofs -----------------------------
(***************************************************************************)
(* Proofs, for every number of inputs and every limit, that the fan-out    *)
(* never exceeds its limit, wastes no place, and returns a faithful        *)
(* report; and that it implements OrderedEvidence step by step.            *)
(***************************************************************************)
EXTENDS Fanout, FiniteSetTheorems, TLAPS

\* A place is taken only by an input the iterator has passed; an input it has
\* passed is either in the JoinSet or ended and joined, with the evidence of
\* its task in its slot; an input still pending has not run at all.
SlotsMatchOutcomes ==
  /\ tasks \subseteq 1..(next - 1)
  /\ \A i \in Input :
       /\ i >= next => outcome[i] = "running"
       /\ i < next /\ i \notin tasks => outcome[i] # "running"
       /\ results[i] = IF i < next /\ i \notin tasks /\ outcome[i] # "stopped"
                         THEN [input |-> i, kind |-> outcome[i]]
                         ELSE None

\* While the first loop runs, every spawned task still occupies its place.
FillingCount == Filling => Cardinality(tasks) = next - 1

\* The function returns only when no input is pending and no task is left.
ReturnsLast == report # <<>> => tasks = {} /\ next > N

\* The inductive invariant.
IInv ==
  /\ TypeOK
  /\ SlotsMatchOutcomes
  /\ FillingCount
  /\ BoundedConcurrency
  /\ WorkConserving
  /\ ReturnsLast
  /\ FaithfulReport

-----------------------------------------------------------------------------

LEMMA TasksFinite ==
  ASSUME TypeOK
  PROVE  IsFiniteSet(tasks) /\ Cardinality(tasks) \in Nat
<1>1. IsFiniteSet(Input)
  BY FanoutAssumption, FS_Interval DEF Input
<1>2. IsFiniteSet(tasks)
  BY <1>1, FS_Subset DEF TypeOK
<1>. QED
  BY <1>2, FS_CardinalityType

\* The size of the JoinSet after each of its three changes.
LEMMA TasksSize ==
  ASSUME TypeOK, NEW i \in Input, NEW j \in Input
  PROVE  /\ i \notin tasks => Cardinality(tasks \cup {i}) = Cardinality(tasks) + 1
         /\ i \in tasks => Cardinality(tasks \ {i}) = Cardinality(tasks) - 1
         /\ i \in tasks /\ j \notin tasks =>
              Cardinality((tasks \ {i}) \cup {j}) = Cardinality(tasks)
<1>1. IsFiniteSet(tasks) /\ Cardinality(tasks) \in Nat
  BY TasksFinite
<1>2. i \in tasks => /\ IsFiniteSet(tasks \ {i})
                     /\ Cardinality(tasks \ {i}) = Cardinality(tasks) - 1
  BY <1>1, FS_RemoveElement
<1>3. i \in tasks /\ j \notin tasks =>
        Cardinality((tasks \ {i}) \cup {j}) = Cardinality(tasks \ {i}) + 1
  BY <1>2, FS_AddElement
<1>4. i \notin tasks => Cardinality(tasks \cup {i}) = Cardinality(tasks) + 1
  BY <1>1, FS_AddElement
<1>. QED
  BY <1>1, <1>2, <1>3, <1>4

LEMMA InitIInv == Init => IInv
<1>. SUFFICES ASSUME Init PROVE IInv
  OBVIOUS
<1>. USE FanoutAssumption
<1>1. TypeOK
  BY DEF Init, TypeOK, Input
<1>2. Cardinality(tasks) = 0
  BY FS_EmptySet DEF Init
<1>3. SlotsMatchOutcomes
  BY DEF Init, SlotsMatchOutcomes, Input
<1>4. FillingCount /\ BoundedConcurrency /\ WorkConserving
  BY <1>2 DEF Init, FillingCount, BoundedConcurrency, WorkConserving, Filling
<1>5. ReturnsLast /\ FaithfulReport
  BY DEF Init, ReturnsLast, FaithfulReport
<1>. QED
  BY <1>1, <1>3, <1>4, <1>5 DEF IInv

LEMMA SpawnIInv == IInv /\ Spawn => IInv'
<1>. SUFFICES ASSUME IInv, Spawn PROVE IInv'
  OBVIOUS
<1>. USE FanoutAssumption
<1>1. TypeOK'
  BY DEF IInv, Spawn, TypeOK, Filling, Input
<1>2. next \in Input /\ next \notin tasks
  BY DEF IInv, Spawn, Filling, TypeOK, SlotsMatchOutcomes, Input
<1>3. Cardinality(tasks') = Cardinality(tasks) + 1
  BY <1>2, TasksSize DEF IInv, Spawn
<1>4. Cardinality(tasks) = next - 1
  BY DEF IInv, FillingCount, Spawn
<1>5. SlotsMatchOutcomes'
  BY <1>2 DEF IInv, Spawn, TypeOK, SlotsMatchOutcomes, Input
<1>6. FillingCount' /\ BoundedConcurrency' /\ WorkConserving'
  BY <1>3, <1>4 DEF IInv, TypeOK, Spawn, Filling, FillingCount,
                    BoundedConcurrency, WorkConserving
<1>7. ReturnsLast' /\ FaithfulReport'
  <2>1. report = <<>>
    BY DEF IInv, Spawn, Filling, ReturnsLast, TypeOK
  <2>. QED
    BY <2>1 DEF Spawn, ReturnsLast, FaithfulReport
<1>. QED
  BY <1>1, <1>5, <1>6, <1>7 DEF IInv

LEMMA EndIInv ==
  ASSUME NEW i \in Input, NEW how \in Observed \cup {"stopped"},
         IInv, End(i, how)
  PROVE  IInv'
<1>. USE FanoutAssumption
<1>1. TypeOK'
  BY DEF IInv, End, TypeOK
<1>2. SlotsMatchOutcomes'
  BY DEF IInv, End, TypeOK, SlotsMatchOutcomes, Input, Observed
<1>3. FillingCount' /\ BoundedConcurrency' /\ WorkConserving'
  BY DEF IInv, End, Filling, FillingCount, BoundedConcurrency, WorkConserving
<1>4. ReturnsLast' /\ FaithfulReport'
  BY DEF IInv, End, ReturnsLast, FaithfulReport
<1>. QED
  BY <1>1, <1>2, <1>3, <1>4 DEF IInv

LEMMA JoinIInv ==
  ASSUME NEW i \in Input, IInv, Join(i)
  PROVE  IInv'
<1>. USE FanoutAssumption
<1>1. TypeOK'
  <2>1. results' \in [Input -> Evidence \cup {None}]
    <3>1. outcome[i] # "stopped" =>
            [input |-> i, kind |-> outcome[i]] \in Evidence
      BY DEF IInv, TypeOK, Join, Evidence
    <3>. QED
      BY <3>1 DEF IInv, TypeOK, Join
  <2>2. next' \in 1..N+1 /\ tasks' \in SUBSET Input
    BY DEF IInv, TypeOK, Join, Input
  <2>. QED
    BY <2>1, <2>2 DEF IInv, TypeOK, Join
<1>2. next \notin tasks /\ (next <= N => next \in Input)
  BY DEF IInv, TypeOK, SlotsMatchOutcomes, Input
<1>3. Cardinality(tasks') = IF next <= N THEN Cardinality(tasks)
                                         ELSE Cardinality(tasks) - 1
  <2>1. CASE next <= N
    BY <1>2, <2>1, TasksSize DEF IInv, Join
  <2>2. CASE ~ (next <= N)
    <3>1. tasks' = tasks \ {i}
      BY <2>2 DEF Join
    <3>. QED
      BY <2>2, <3>1, TasksSize DEF IInv, Join
  <2>. QED
    BY <2>1, <2>2
<1>4. SlotsMatchOutcomes'
  BY <1>2 DEF IInv, Join, TypeOK, SlotsMatchOutcomes, Input
<1>5. FillingCount' /\ BoundedConcurrency' /\ WorkConserving'
  <2>1. Cardinality(tasks) \in Nat
    BY TasksFinite DEF IInv
  <2>2. ~ Filling'
    BY DEF IInv, Join, Filling, TypeOK
  <2>. QED
    BY <1>3, <2>1, <2>2 DEF IInv, Join, TypeOK, FillingCount,
                            BoundedConcurrency, WorkConserving
<1>6. ReturnsLast' /\ FaithfulReport'
  <2>1. report = <<>>
    BY DEF IInv, Join, ReturnsLast
  <2>. QED
    BY <2>1 DEF Join, ReturnsLast, FaithfulReport
<1>. QED
  BY <1>1, <1>4, <1>5, <1>6 DEF IInv

\* The join loop is over: WorkConserving turns "no task left" into "no input
\* pending", so every input ended and its slot tells how.
LEMMA AllEnded ==
  ASSUME IInv, Return
  PROVE  /\ next > N
         /\ \A i \in Input :
              /\ outcome[i] # "running"
              /\ results[i] = IF outcome[i] # "stopped"
                                THEN [input |-> i, kind |-> outcome[i]]
                                ELSE None
<1>. USE FanoutAssumption
<1>1. Cardinality(tasks) = 0
  BY FS_EmptySet DEF Return
<1>2. next > N
  BY <1>1 DEF IInv, TypeOK, WorkConserving, Return
<1>. QED
  BY <1>2 DEF IInv, TypeOK, SlotsMatchOutcomes, Return, Input

LEMMA ReturnIInv == IInv /\ Return => IInv'
<1>. SUFFICES ASSUME IInv, Return PROVE IInv'
  OBVIOUS
<1>. USE FanoutAssumption
<1>1. TypeOK'
  BY DEF IInv, Return, TypeOK, failed_task, Evidence
<1>2. SlotsMatchOutcomes' /\ FillingCount' /\ BoundedConcurrency' /\ WorkConserving'
  BY DEF IInv, Return, SlotsMatchOutcomes, FillingCount, Filling,
         BoundedConcurrency, WorkConserving
<1>3. ReturnsLast'
  BY AllEnded DEF Return, ReturnsLast
<1>4. FaithfulReport'
  <2>. SUFFICES ASSUME NEW i \in Input
                PROVE  /\ outcome[i] # "running"
                       /\ report'[i].input = i
                       /\ report'[i].kind = IF outcome[i] = "stopped"
                                              THEN Fallback ELSE outcome[i]
    BY DEF FaithfulReport, Return
  <2>1. report'[i] = IF results[i] = None THEN failed_task(i) ELSE results[i]
    BY DEF Return
  <2>2. [input |-> i, kind |-> outcome[i]] # None
    BY DEF None, Input
  <2>3. /\ outcome[i] # "running"
        /\ results[i] = IF outcome[i] # "stopped"
                          THEN [input |-> i, kind |-> outcome[i]]
                          ELSE None
    BY AllEnded
  <2>4. CASE outcome[i] = "stopped"
    BY <2>1, <2>3, <2>4 DEF failed_task
  <2>5. CASE outcome[i] # "stopped"
    BY <2>1, <2>2, <2>3, <2>5
  <2>. QED
    BY <2>4, <2>5
<1>. QED
  BY <1>1, <1>2, <1>3, <1>4 DEF IInv

LEMMA NextIInv == IInv /\ [Next]_vars => IInv'
<1>. SUFFICES ASSUME IInv, [Next]_vars PROVE IInv'
  OBVIOUS
<1>1. CASE Spawn
  BY <1>1, SpawnIInv
<1>2. CASE Return
  BY <1>2, ReturnIInv
<1>3. ASSUME NEW i \in Input, Complete(i) \/ Expire(i) \/ Stop(i)
      PROVE  IInv'
  <2>1. PICK how \in Observed \cup {"stopped"} : End(i, how)
    BY <1>3 DEF Complete, Expire, Stop, Observed
  <2>. QED
    BY <2>1, EndIInv
<1>4. ASSUME NEW i \in Input, Join(i)
      PROVE  IInv'
  BY <1>4, JoinIInv
<1>5. CASE UNCHANGED vars
  BY <1>5 DEF vars, IInv, TypeOK, SlotsMatchOutcomes, FillingCount, Filling,
              BoundedConcurrency, WorkConserving, ReturnsLast, FaithfulReport
<1>. QED
  BY <1>1, <1>2, <1>3, <1>4, <1>5 DEF Next

LEMMA SpecIInv == Spec => []IInv
  BY InitIInv, NextIInv, PTL DEF Spec

\* Type correctness of the fan-out, for every number of inputs and limit.
THEOREM FanoutTypeOK == Spec => []TypeOK
<1>1. IInv => TypeOK
  BY DEF IInv
<1>. QED
  BY <1>1, SpecIInv, PTL

\* At most MaxConcurrent probes are ever in flight (MAX_CONCURRENT_CONNECTS,
\* MAX_CONCURRENT_COMMANDS), whatever the order of endings and joins.
THEOREM FanoutBounded == Spec => []BoundedConcurrency
<1>1. IInv => BoundedConcurrency
  BY DEF IInv
<1>. QED
  BY <1>1, SpecIInv, PTL

\* No pending input waits while a place is free.
THEOREM FanoutWorkConserving == Spec => []WorkConserving
<1>1. IInv => WorkConserving
  BY DEF IInv
<1>. QED
  BY <1>1, SpecIInv, PTL

\* The returned vector has, for every input in its own position, what the
\* input's own task observed.
THEOREM FanoutFaithful == Spec => []FaithfulReport
<1>1. IInv => FaithfulReport
  BY DEF IInv
<1>. QED
  BY <1>1, SpecIInv, PTL

-----------------------------------------------------------------------------
\* The fan-out implements the safety part of OrderedEvidence: the end of a
\* task is an observation, the return is the delivery, all else stutters.
LEMMA InitPromise == Init => Promise!Init
BY DEF Init, Promise!Init, Promise!Input, Input

LEMMA NextPromise == IInv /\ [Next]_vars => [Promise!Next]_(Promise!vars)
<1>. SUFFICES ASSUME IInv, [Next]_vars
              PROVE  [Promise!Next]_(Promise!vars)
  OBVIOUS
<1>. USE FanoutAssumption
<1>. DEFINE seen == [i \in Input |-> IF outcome[i] = "running" THEN "unknown"
                                                             ELSE outcome[i]]
<1>1. ASSUME NEW i \in Input, NEW how \in Observed \cup {"stopped"}, End(i, how)
      PROVE  Promise!Observe(i)
  BY <1>1 DEF End, IInv, TypeOK, Promise!Observe, Input, Observed
<1>2. ASSUME Return
      PROVE  Promise!Deliver
  <2>1. report = <<>> /\ outcome' = outcome
    BY <1>2 DEF Return
  <2>2. ASSUME NEW i \in Input
        PROVE  /\ outcome[i] \notin {"running", "unknown"}
               /\ seen[i] = outcome[i]
               /\ report'[i] = [input |-> i,
                                kind  |-> IF outcome[i] = "stopped"
                                            THEN Fallback ELSE outcome[i]]
    <3>1. /\ outcome[i] # "running"
          /\ results[i] = IF outcome[i] # "stopped"
                            THEN [input |-> i, kind |-> outcome[i]]
                            ELSE None
      BY <1>2, AllEnded
    <3>2. outcome[i] # "unknown"
      BY DEF IInv, TypeOK, Observed
    <3>3. report'[i] = IF results[i] = None THEN failed_task(i) ELSE results[i]
      BY <1>2 DEF Return
    <3>4. [input |-> i, kind |-> outcome[i]] # None
      BY DEF None, Input
    <3>. QED
      BY <3>1, <3>2, <3>3, <3>4 DEF failed_task
  <2>3. report' = [i \in Input |->
                     [input |-> i,
                      kind  |-> IF seen[i] = "stopped" THEN Fallback
                                                       ELSE seen[i]]]
    BY <1>2, <2>2 DEF Return
  <2>4. \A i \in Input : seen[i] # "unknown"
    BY <2>2
  <2>. QED
    BY <2>1, <2>3, <2>4 DEF Promise!Deliver, Promise!Delivered, Promise!Input, Input
<1>3. ASSUME UNCHANGED <<outcome, report>>
      PROVE  UNCHANGED Promise!vars
  BY <1>3 DEF Promise!vars
<1>4. ASSUME NEW i \in Input, Complete(i) \/ Expire(i) \/ Stop(i)
      PROVE  Promise!Observe(i)
  BY <1>1, <1>4 DEF Complete, Expire, Stop, Observed
<1>5. Spawn \/ (\E i \in Input : Join(i)) \/ UNCHANGED vars
        => UNCHANGED <<outcome, report>>
  BY DEF Spawn, Join, vars
<1>. QED
  BY <1>2, <1>3, <1>4, <1>5 DEF Next, Promise!Next, Promise!Input, Input

\* Implementation of the promise made to diagnose_with_context: one entry per
\* address, in address order, delivered only when all have been observed.
THEOREM FanoutRefines == Spec => Promise!Init /\ [][Promise!Next]_(Promise!vars)
<1>. QED
  BY InitPromise, NextPromise, SpecIInv, PTL DEF Spec
==============================================================================
