---------------------------- MODULE CaptureProofs ----------------------------
(***************************************************************************)
(* The accounting behind FaithfulCapture, kept by every step of a helper,  *)
(* of the readers and of the signals, whoever composes them: each chunk    *)
(* ever written is in the pipe, kept, or dropped over the limit, and a     *)
(* reader at end of file has an empty pipe that nobody can write to.       *)
(***************************************************************************)
EXTENDS Capture, TLAPS

Accounted(s) ==
  /\ truncated[s] => kept[s] = Limit /\ written[s] > pipe[s] + Limit
  /\ ~ truncated[s] => written[s] = pipe[s] + kept[s]
  /\ reader[s] = "eof" => pipe[s] = 0 /\ Closed(s)

\* The inductive part of the invariants of BoundedCommand and RuntimeCommand.
CaptureInv ==
  /\ HelperTypeOK
  /\ CaptureTypeOK
  /\ \A s \in Stream : Accounted(s)

------------------------------------------------------------------------------
\* The accounting starts balanced.
LEMMA CaptureInitially ==
  ASSUME HelperInit, CaptureInit
  PROVE  CaptureInv
<1> USE HelperAssumption, LimitAssumption
<1>1. HelperTypeOK
  BY DEF HelperInit, HelperTypeOK, Proc, Stream
<1>2. CaptureTypeOK
  BY DEF CaptureInit, CaptureTypeOK, Stream
<1>3. \A s \in Stream : Accounted(s)
  BY DEF HelperInit, CaptureInit, Accounted, Stream
<1>4. QED
  BY <1>1, <1>2, <1>3 DEF CaptureInv

\* Deaths close pipes and change nothing else of the accounts.
LEMMA CaptureDeaths ==
  ASSUME CaptureInv, UNCHANGED captureVars, UNCHANGED <<pipe, written>>,
         NEW S \in SUBSET Proc, Die(S), foreign' \in {"none", "alive", "killed"}
  PROVE  CaptureInv'
<1>1. HelperTypeOK'
  BY DEF CaptureInv, HelperTypeOK, Die, Dead
<1>2. CaptureTypeOK'
  BY DEF CaptureInv, CaptureTypeOK, captureVars
<1>3. \A s \in Stream : Accounted(s)'
  BY DEF CaptureInv, Accounted, Closed, HelperTypeOK, Die, captureVars
<1>4. QED
  BY <1>1, <1>2, <1>3 DEF CaptureInv

\* The kill of the group, whoever has its id.
LEMMA CaptureSignal ==
  ASSUME CaptureInv, signal_process_group, UNCHANGED captureVars
  PROVE  CaptureInv'
<1>1. foreign' \in {"none", "alive", "killed"}
  BY DEF CaptureInv, HelperTypeOK, signal_process_group
<1>2. QED
  BY <1>1, CaptureDeaths DEF signal_process_group, Group

\* Reaping touches no pipe.
LEMMA CaptureReap ==
  ASSUME CaptureInv, ReapLeader, UNCHANGED captureVars
  PROVE  CaptureInv'
<1>1. HelperTypeOK'
  BY DEF CaptureInv, HelperTypeOK, ReapLeader
<1>2. CaptureTypeOK'
  BY DEF CaptureInv, CaptureTypeOK, captureVars
<1>3. \A s \in Stream : Accounted(s)'
  BY DEF CaptureInv, Accounted, Closed, ReapLeader, captureVars
<1>4. QED
  BY <1>1, <1>2, <1>3 DEF CaptureInv

\* Whatever the helper and its descendants do, no chunk gets lost and no pipe
\* is opened again.
LEMMA CaptureEnvironment ==
  ASSUME CaptureInv, Environment, UNCHANGED captureVars
  PROVE  CaptureInv'
<1> USE HelperAssumption, LimitAssumption
<1>0. CaptureTypeOK'
  BY DEF CaptureInv, CaptureTypeOK, captureVars
<1>1. CASE \E p \in Proc, d \in Descendant : Fork(p, d)
  <2>1. PICK p \in Proc, d \in Descendant : Fork(p, d)
    BY <1>1
  <2>2. d \in Proc
    BY DEF Proc
  <2>3. HelperTypeOK'
    BY <2>1, <2>2 DEF CaptureInv, HelperTypeOK, Fork, Alive
  <2>4. ASSUME NEW s \in Stream, Closed(s)
        PROVE  Closed(s)'
    BY <2>1, <2>2, <2>4 DEF CaptureInv, HelperTypeOK, Fork, Closed
  <2>5. \A s \in Stream : Accounted(s)'
    BY <2>1, <2>4 DEF CaptureInv, Accounted, Fork, captureVars
  <2>6. QED
    BY <1>0, <2>3, <2>5 DEF CaptureInv
<1>2. CASE \E d \in Descendant : Setsid(d)
  <2>1. HelperTypeOK'
    BY <1>2 DEF CaptureInv, HelperTypeOK, Setsid, Proc
  <2>2. \A s \in Stream : Accounted(s)'
    BY <1>2 DEF CaptureInv, Accounted, Closed, Setsid, captureVars
  <2>3. QED
    BY <1>0, <2>1, <2>2 DEF CaptureInv
<1>3. CASE \E p \in Proc, s \in Stream : Write(p, s)
  <2>1. PICK p \in Proc, t \in Stream : Write(p, t)
    BY <1>3
  <2>2. HelperTypeOK'
    BY <2>1 DEF CaptureInv, HelperTypeOK, Write
  <2>3. ~ Closed(t)
    BY <2>1 DEF Write, Closed
  <2>4. ASSUME NEW s \in Stream
        PROVE  Accounted(s)'
    BY <2>1, <2>3 DEF CaptureInv, HelperTypeOK, CaptureTypeOK, Accounted, Closed,
                      Write, captureVars
  <2>5. QED
    BY <1>0, <2>2, <2>4 DEF CaptureInv
<1>4. CASE \E p \in Proc, s \in Stream : Close(p, s)
  <2>1. PICK p \in Proc, t \in Stream : Close(p, t)
    BY <1>4
  <2>2. HelperTypeOK'
    BY <2>1 DEF CaptureInv, HelperTypeOK, Close
  <2>3. ASSUME NEW s \in Stream, Closed(s)
        PROVE  Closed(s)'
    BY <2>1, <2>3 DEF CaptureInv, HelperTypeOK, Close, Closed
  <2>4. \A s \in Stream : Accounted(s)'
    BY <2>1, <2>3 DEF CaptureInv, Accounted, Close, captureVars
  <2>5. QED
    BY <1>0, <2>2, <2>4 DEF CaptureInv
<1>5. CASE \E p \in Proc : Exit(p)
  <2>1. PICK p \in Proc : Exit(p)
    BY <1>5
  <2>2. foreign' \in {"none", "alive", "killed"}
    BY <2>1 DEF CaptureInv, HelperTypeOK, Exit
  <2>3. QED
    BY <2>1, <2>2, CaptureDeaths DEF Exit
<1>6. CASE Recycle
  <2>1. HelperTypeOK'
    BY <1>6 DEF CaptureInv, HelperTypeOK, Recycle
  <2>2. \A s \in Stream : Accounted(s)'
    BY <1>6 DEF CaptureInv, Accounted, Closed, Recycle, captureVars
  <2>3. QED
    BY <1>0, <2>1, <2>2 DEF CaptureInv
<1>7. QED
  BY <1>1, <1>2, <1>3, <1>4, <1>5, <1>6 DEF Environment

\* A read moves a chunk from the pipe to what is kept or to what is dropped.
LEMMA CaptureRead ==
  ASSUME CaptureInv, NEW t \in Stream, Read(t) \/ ReadEof(t)
  PROVE  CaptureInv'
<1> USE HelperAssumption, LimitAssumption
<1>1. CASE Read(t)
  <2>1. HelperTypeOK'
    BY <1>1 DEF CaptureInv, HelperTypeOK, Read, Take
  <2>2. CaptureTypeOK'
    BY <1>1 DEF CaptureInv, CaptureTypeOK, Read, Take
  <2>3. ASSUME NEW s \in Stream
        PROVE  Accounted(s)'
    <3>1. CASE s # t
      BY <1>1, <3>1 DEF CaptureInv, HelperTypeOK, CaptureTypeOK, Accounted, Closed,
                        Read, Take
    <3>2. CASE s = t
      <4>1. /\ reader[t] = "reading" /\ reader' = reader
            /\ written' = written /\ pipe[t] \in Nat /\ pipe[t] > 0
            /\ pipe'[t] = pipe[t] - 1
            /\ kept[t] \in 0..Limit /\ written[t] \in Nat
        BY <1>1 DEF CaptureInv, HelperTypeOK, CaptureTypeOK, Read, Take
      <4>2. kept'[t] = IF kept[t] < Limit THEN kept[t] + 1 ELSE kept[t]
        BY <1>1 DEF CaptureInv, CaptureTypeOK, Read
      <4>3. truncated'[t] = (truncated[t] \/ kept[t] = Limit)
        BY <1>1 DEF CaptureInv, CaptureTypeOK, Read
      <4>4. /\ truncated[t] => kept[t] = Limit /\ written[t] > pipe[t] + Limit
            /\ ~ truncated[t] => written[t] = pipe[t] + kept[t]
        BY DEF CaptureInv, Accounted
      <4>5. CASE kept[t] = Limit
        <5>1. truncated'[t]
          BY <4>3, <4>5, Zenon
        <5>2. kept'[t] = Limit /\ written'[t] > pipe'[t] + Limit
          BY <4>1, <4>2, <4>4, <4>5
        <5>3. QED
          BY <3>2, <4>1, <5>1, <5>2 DEF Accounted
      <4>6. CASE kept[t] < Limit
        <5>1. ~ truncated[t] /\ kept[t] # Limit
          BY <4>1, <4>4, <4>6
        <5>2. ~ truncated'[t]
          BY <4>3, <5>1, Zenon
        <5>3. written'[t] = pipe'[t] + kept'[t]
          BY <4>1, <4>2, <4>4, <4>6, <5>1
        <5>4. QED
          BY <3>2, <4>1, <5>2, <5>3 DEF Accounted
      <4>7. QED
        BY <4>1, <4>5, <4>6
    <3>3. QED
      BY <3>1, <3>2
  <2>4. QED
    BY <2>1, <2>2, <2>3 DEF CaptureInv
<1>2. CASE ReadEof(t)
  <2>1. HelperTypeOK'
    BY <1>2 DEF CaptureInv, HelperTypeOK, ReadEof, helperVars
  <2>2. CaptureTypeOK'
    BY <1>2 DEF CaptureInv, CaptureTypeOK, ReadEof
  <2>3. \A s \in Stream : Accounted(s)'
    BY <1>2 DEF CaptureInv, CaptureTypeOK, Accounted, Closed, ReadEof, helperVars
  <2>4. QED
    BY <2>1, <2>2, <2>3 DEF CaptureInv
<1>3. QED
  BY <1>1, <1>2

\* Two readers at end of file have captured everything.
LEMMA CaptureAtEof ==
  ASSUME CaptureInv, AtEof
  PROVE  Faithful
BY LimitAssumption, HelperAssumption
   DEF CaptureInv, Accounted, AtEof, Faithful, HelperTypeOK, CaptureTypeOK

\* What the helper does, as its caller's promise has it: an empty group stays
\* empty, what was written stays written, and once all the write ends are
\* closed nothing is added to it.
LEMMA HelperWorks ==
  ASSUME CaptureInv, Environment
  PROVE  /\ Group = {} => Group' = {}
         /\ \A s \in Stream : written'[s] >= written[s]
         /\ (\A s \in Stream : Closed(s)) => written' = written
<1> USE HelperAssumption
<1>1. /\ \A s \in Stream : written[s] \in Nat
      /\ proc \in [Proc -> {"unborn", "group", "session", "zombie", "gone"}]
  BY DEF CaptureInv, HelperTypeOK
<1>2. CASE \E p \in Proc, s \in Stream : Write(p, s)
  <2>1. PICK p \in Proc, t \in Stream : Write(p, t)
    BY <1>2
  <2>2. ~ Closed(t) /\ Group' = Group
    BY <2>1 DEF Write, Closed, Group
  <2>3. \A s \in Stream : written'[s] >= written[s]
    BY <1>1, <2>1 DEF Write, CaptureInv, HelperTypeOK
  <2>4. QED
    BY <2>2, <2>3
<1>3. CASE ~ \E p \in Proc, s \in Stream : Write(p, s)
  <2>1. written' = written
    BY <1>3 DEF Environment, Fork, Setsid, Close, Exit, Recycle
  <2>2. \A s \in Stream : written'[s] >= written[s]
    BY <1>1, <2>1
  <2>3. ASSUME \A p \in Proc : proc[p] # "group"
        PROVE  \A p \in Proc : proc'[p] # "group"
    <3>1. CASE \E p \in Proc, d \in Descendant : Fork(p, d)
      BY <1>1, <2>3, <3>1 DEF Fork
    <3>2. CASE \E d \in Descendant : Setsid(d)
      BY <2>3, <3>2 DEF Setsid, Proc
    <3>3. CASE \E p \in Proc, s \in Stream : Close(p, s)
      BY <2>3, <3>3 DEF Close
    <3>4. CASE \E p \in Proc : Exit(p)
      BY <2>3, <3>4 DEF Exit, Die, Dead
    <3>5. CASE Recycle
      BY <2>3, <3>5 DEF Recycle
    <3>6. QED
      BY <1>3, <3>1, <3>2, <3>3, <3>4, <3>5 DEF Environment
  <2>4. Group = {} => Group' = {}
    BY <2>3 DEF Group
  <2>5. QED
    BY <2>1, <2>2, <2>4
<1>4. QED
  BY <1>2, <1>3
==============================================================================
