------------------------- MODULE RuntimeCommandProofs ------------------------
(***************************************************************************)
(* RuntimeCommand for every number of descendants, pipe capacity, output   *)
(* and limit.  The strengthening says who owns the helper's pid: up to the *)
(* reaping the helper itself, so that nobody else can have got it when the *)
(* group is signalled; and that the group is empty from the sweep on.      *)
(***************************************************************************)
EXTENDS RuntimeCommand, CaptureProofs

\* The pid is still the helper's: nobody else can have it.
OwnPid == proc["leader"] \in {"group", "zombie"} /\ foreign = "none"

NoGroup == \A p \in Proc : proc[p] # "group"

Control ==
  /\ at \in {"poll", "sweep", "reap"} => OwnPid
  /\ at \in {"sweep", "reap"} => proc["leader"] = "zombie"
  /\ at \notin {"poll", "sweep"} => NoGroup
  /\ result # "none" \/ reaper # "none" => at = "returned"
  /\ result = "ok" => AtEof
  /\ at = "stderr" => reader["stdout"] = "eof"
  /\ foreign # "killed"

IInv == TypeOK /\ CaptureInv /\ Control

------------------------------------------------------------------------------
LEMMA LeaderIsProc == "leader" \in Proc
BY DEF Proc

LEMMA IInvInit == Init => IInv
<1> SUFFICES ASSUME Init PROVE IInv
  OBVIOUS
<1>1. CaptureInv
  BY CaptureInitially DEF Init
<1>2. TypeOK
  BY <1>1 DEF Init, TypeOK, CaptureInv, Stream
<1>3. Control
  BY LeaderIsProc DEF Init, Control, OwnPid, HelperInit, Stream
<1>4. QED
  BY <1>1, <1>2, <1>3 DEF IInv

\* What the helper does: it never gives its pid away, and an empty group stays
\* empty.
LEMMA HelperKeepsControl ==
  ASSUME IInv, HelperStep
  PROVE  Control'
<1> USE LeaderIsProc, HelperAssumption DEF IInv
<1>0. "leader" \notin Descendant /\ "leader" \in Proc
  OBVIOUS
<1>1. OwnPid => OwnPid'
  <2> SUFFICES ASSUME OwnPid PROVE OwnPid'
    OBVIOUS
  <2>1. CASE \E p \in Proc, d \in Descendant : Fork(p, d)
    BY <1>0, <2>1 DEF OwnPid, Fork, TypeOK, HelperTypeOK
  <2>2. CASE \E d \in Descendant : Setsid(d)
    BY <1>0, <2>2 DEF OwnPid, Setsid, TypeOK, HelperTypeOK
  <2>3. CASE \E p \in Proc, s \in Stream : Write(p, s) \/ Close(p, s)
    BY <2>3 DEF OwnPid, Write, Close
  <2>4. CASE \E p \in Proc : Exit(p)
    BY <1>0, <2>4 DEF OwnPid, Exit, Die, Dead
  <2>5. CASE Recycle
    BY <2>5 DEF OwnPid, Recycle, GroupGone
  <2>6. QED
    BY <2>1, <2>2, <2>3, <2>4, <2>5 DEF HelperStep, Environment
<1>2. proc["leader"] = "zombie" => proc'["leader"] = "zombie"
  BY <1>0 DEF HelperStep, Environment, Fork, Setsid, Write, Close, Exit, Die, Dead,
              Alive, Recycle, TypeOK, HelperTypeOK
<1>3. NoGroup => NoGroup'
  <2> SUFFICES ASSUME NoGroup PROVE NoGroup'
    OBVIOUS
  <2>1. CASE \E p \in Proc, d \in Descendant : Fork(p, d)
    BY <2>1 DEF NoGroup, Fork, TypeOK, HelperTypeOK
  <2>2. CASE \E d \in Descendant : Setsid(d)
    BY <2>2 DEF NoGroup, Setsid, Proc
  <2>3. CASE \E p \in Proc, s \in Stream : Write(p, s) \/ Close(p, s)
    BY <2>3 DEF NoGroup, Write, Close
  <2>4. CASE \E p \in Proc : Exit(p)
    BY <2>4 DEF NoGroup, Exit, Die, Dead
  <2>5. CASE Recycle
    BY <2>5 DEF NoGroup, Recycle
  <2>6. QED
    BY <2>1, <2>2, <2>3, <2>4, <2>5 DEF HelperStep, Environment
<1>4. foreign' # "killed"
  BY DEF Control, HelperStep, Environment, Fork, Setsid, Write, Close, Exit, Recycle
<1>5. QED
  BY <1>1, <1>2, <1>3, <1>4 DEF Control, HelperStep, captureVars, callVars, AtEof

\* A signal empties the group; while the pid is the helper's own it hits nobody
\* else.
LEMMA SignalOwnGroup ==
  ASSUME IInv, OwnPid, signal_process_group
  PROVE  /\ NoGroup'
         /\ foreign' = "none"
         /\ proc'["leader"] = "zombie"
<1>1. NoGroup' /\ proc'["leader"] = "zombie"
  BY LeaderIsProc DEF OwnPid, NoGroup, signal_process_group, Group, Die, Dead
<1>2. foreign' = "none"
  BY DEF OwnPid, signal_process_group
<1>3. QED
  BY <1>1, <1>2

LEMMA IInvStep == IInv /\ [Next]_vars => IInv'
<1> SUFFICES ASSUME IInv, [Next]_vars PROVE IInv'
  OBVIOUS
<1> USE LeaderIsProc DEF IInv
<1>1. CASE HelperStep
  <2>1. CaptureInv'
    BY <1>1, CaptureEnvironment DEF HelperStep
  <2>2. TypeOK'
    BY <1>1, <2>1 DEF TypeOK, CaptureInv, HelperStep, callVars
  <2>3. QED
    BY <1>1, <2>1, <2>2, HelperKeepsControl
<1>2. CASE TimePasses
  <2>1. CaptureInv'
    BY <1>2 DEF CaptureInv, HelperTypeOK, CaptureTypeOK, Accounted, Closed,
                TimePasses, helperVars, captureVars
  <2>2. TypeOK'
    BY <1>2, <2>1 DEF TypeOK, CaptureInv, TimePasses
  <2>3. Control'
    BY <1>2 DEF Control, OwnPid, NoGroup, AtEof, TimePasses, helperVars, captureVars
  <2>4. QED
    BY <2>1, <2>2, <2>3
<1>3. CASE SeeExit
  <2>1. CaptureInv'
    BY <1>3 DEF CaptureInv, HelperTypeOK, CaptureTypeOK, Accounted, Closed,
                SeeExit, helperVars, captureVars
  <2>2. TypeOK'
    BY <1>3, <2>1 DEF TypeOK, CaptureInv, SeeExit
  <2>3. Control'
    BY <1>3 DEF Control, OwnPid, NoGroup, AtEof, SeeExit, helperVars, captureVars
  <2>4. QED
    BY <2>1, <2>2, <2>3
<1>4. CASE Sweep
  <2>1. CaptureInv'
    BY <1>4, CaptureSignal DEF Sweep
  <2>2. TypeOK'
    BY <1>4, <2>1 DEF TypeOK, CaptureInv, Sweep
  <2>3. OwnPid
    BY <1>4 DEF Control, Sweep
  <2>4. NoGroup' /\ foreign' = "none" /\ proc'["leader"] = "zombie"
    BY <1>4, <2>3, SignalOwnGroup DEF Sweep
  <2>5. Control'
    BY <1>4, <2>4 DEF Control, OwnPid, AtEof, Sweep, captureVars
  <2>6. QED
    BY <2>1, <2>2, <2>5
<1>5. CASE Reap
  <2>1. CaptureInv'
    BY <1>5, CaptureReap DEF Reap
  <2>2. TypeOK'
    BY <1>5, <2>1 DEF TypeOK, CaptureInv, Reap, Stream
  <2>3. NoGroup'
    BY <1>5 DEF Control, NoGroup, Reap, ReapLeader
  <2>4. Control'
    BY <1>5, <2>3 DEF Control, AtEof, Reap, ReapLeader, captureVars
  <2>5. QED
    BY <2>1, <2>2, <2>4
<1>6. CASE PollTimesOut \/ PollFails
  <2>1. PICK error \in {"timeout", "error"} : Terminate(error)
    BY <1>6 DEF PollTimesOut, PollFails
  <2>2. CaptureInv'
    BY <2>1, CaptureSignal DEF Terminate
  <2>3. TypeOK'
    BY <2>1, <2>2 DEF TypeOK, CaptureInv, Terminate
  <2>4. OwnPid
    BY <2>1 DEF Control, Terminate
  <2>5. NoGroup' /\ foreign' = "none"
    BY <2>1, <2>4, SignalOwnGroup DEF Terminate
  <2>6. Control'
    BY <2>1, <2>5 DEF Control, AtEof, Terminate, captureVars
  <2>7. QED
    BY <2>2, <2>3, <2>6
<1>7. CASE ReapChild
  <2>1. CaptureInv'
    BY <1>7, CaptureReap DEF ReapChild
  <2>2. TypeOK'
    BY <1>7, <2>1 DEF TypeOK, CaptureInv, ReapChild
  <2>3. NoGroup'
    BY <1>7 DEF Control, NoGroup, ReapChild, ReapLeader
  <2>4. Control'
    BY <1>7, <2>3 DEF Control, AtEof, ReapChild, ReapLeader, captureVars
  <2>5. QED
    BY <2>1, <2>2, <2>4
<1>8. ASSUME NEW s \in Stream, ReaderStep(s)
      PROVE  IInv'
  <2>1. CaptureInv'
    BY <1>8, CaptureRead DEF ReaderStep
  <2>2. TypeOK'
    BY <1>8, <2>1 DEF TypeOK, CaptureInv, ReaderStep, callVars
  <2>3. UNCHANGED <<proc, foreign>>
    BY <1>8 DEF ReaderStep, Read, Take, ReadEof, helperVars
  <2>4. \A t \in Stream : reader[t] = "eof" => reader'[t] = "eof"
    BY <1>8 DEF ReaderStep, Read, Take, ReadEof, TypeOK, CaptureTypeOK
  <2>5. Control'
    BY <1>8, <2>3, <2>4 DEF Control, OwnPid, NoGroup, AtEof, ReaderStep, callVars,
                           Stream
  <2>6. QED
    BY <2>1, <2>2, <2>5
<1>9. ASSUME NEW s \in Stream,
             Receive(s) \/ ReceiveTimesOut(s) \/ ReceiveFails(s)
      PROVE  IInv'
  <2>1. UNCHANGED <<helperVars, captureVars>>
    BY <1>9 DEF Receive, ReceiveTimesOut, ReceiveFails, Abandon
  <2>2. CaptureInv'
    BY <2>1 DEF CaptureInv, HelperTypeOK, CaptureTypeOK, Accounted, Closed,
                helperVars, captureVars
  <2>3. TypeOK'
    BY <1>9, <2>2 DEF TypeOK, CaptureInv, Receive, ReceiveTimesOut,
                         ReceiveFails, Abandon, Stream
  <2>4. Control'
    BY <1>9, <2>1 DEF Control, OwnPid, NoGroup, AtEof, Receive, ReceiveTimesOut,
                     ReceiveFails, Abandon, Stream, helperVars, captureVars
  <2>5. QED
    BY <2>2, <2>3, <2>4
<1>10. CASE UNCHANGED vars
  BY <1>10 DEF vars, helperVars, captureVars, callVars, TypeOK, CaptureInv,
               HelperTypeOK, CaptureTypeOK, Accounted, Closed, Control, OwnPid,
               NoGroup, AtEof
<1>11. QED
  BY <1>1, <1>2, <1>3, <1>4, <1>5, <1>6, <1>7, <1>8, <1>9, <1>10 DEF Next

LEMMA IInvAlways == Spec => []IInv
BY IInvInit, IInvStep, PTL DEF Spec

------------------------------------------------------------------------------
\* The variables of run_runtime's model keep their types.
THEOREM RuntimeTypeOK == Spec => []TypeOK
<1>1. IInv => TypeOK
  BY DEF IInv
<1>2. QED
  BY <1>1, IInvAlways, PTL

\* run_runtime never signals a process group other than its helper's: its poll
\* leaves the zombie (WNOWAIT), so the pid is its own until after the sweep.
THEOREM RuntimeOnlyOwnGroup == Spec => []OnlyOwnGroup
<1>1. IInv => OnlyOwnGroup
  BY DEF IInv, Control, OnlyOwnGroup
<1>2. QED
  BY <1>1, IInvAlways, PTL

\* No member of the helper's group survives a call of run_runtime.
THEOREM RuntimeGroupTerminated == Spec => []GroupTerminated
<1>1. IInv => GroupTerminated
  BY DEF IInv, Control, NoGroup, GroupTerminated
<1>2. QED
  BY <1>1, IInvAlways, PTL

\* The captured output is complete up to the limit, and flagged beyond it.
THEOREM RuntimeFaithfulCapture == Spec => []FaithfulCapture
<1>1. IInv => FaithfulCapture
  BY CaptureAtEof DEF IInv, Control, FaithfulCapture
<1>2. QED
  BY <1>1, IInvAlways, PTL

------------------------------------------------------------------------------
(***************************************************************************)
(* The promise of HelperCall.  A call that fails while it polls empties    *)
(* the group with its answer; every later answer finds it empty, from the  *)
(* sweep on.                                                               *)
(***************************************************************************)

LEMMA CallStarts == Init => Call!Init
<1> SUFFICES ASSUME Init PROVE Call!Init
  OBVIOUS
<1>1. result = "none" /\ written = [s \in Stream |-> 0] /\ proc["leader"] = "group"
  BY LeaderIsProc DEF Init, HelperInit
<1>2. Group \subseteq Proc /\ "leader" \in Group
  BY <1>1, LeaderIsProc DEF Group
<1>3. Group \in (SUBSET Proc) \ {{}}
  BY <1>2
<1>4. QED
  BY <1>1, <1>3 DEF Call!Init

\* A step that gives no answer and adds nothing to an output already given.
LEMMA Working ==
  ASSUME IInv, IInv', result' = result, Group = {} => Group' = {},
         \A s \in Stream : written'[s] >= written[s],
         result = "ok" => UNCHANGED <<written, kept, truncated>>
  PROVE  Call!Work
<1>1. Group' \subseteq Proc
  BY DEF Group
<1>2. written' \in [Stream -> Nat]
  BY HelperAssumption DEF IInv, CaptureInv, HelperTypeOK
<1>3. UNCHANGED (IF result = "ok" THEN {Output} ELSE {})
  <2>1. result = "ok" => Output' = Output
    BY DEF Output
  <2>2. QED
    BY <2>1
<1>4. QED
  BY <1>1, <1>2, <1>3 DEF Call!Work

\* An error is an answer when the step leaves the group empty.
LEMMA Failing ==
  ASSUME result = "none", result' \in {"timeout", "error"}, NoGroup',
         written' = written
  PROVE  Call!Next
<1>1. Group' = {}
  BY DEF NoGroup, Group
<1>2. UNCHANGED (IF result = "ok" THEN {Output} ELSE {})
  OBVIOUS
<1>3. QED
  BY <1>1, <1>2 DEF Call!Return, Call!Next

\* So is the whole output, once both streams were read to their end.
LEMMA Giving ==
  ASSUME IInv, result = "none", result' = "ok", AtEof, NoGroup,
         UNCHANGED <<proc, written, kept, truncated>>
  PROVE  Call!Next
<1>1. /\ CaptureInv
      /\ \A s \in Stream : written[s] \in Nat /\ truncated[s] \in BOOLEAN
  BY DEF IInv, CaptureInv, HelperTypeOK, CaptureTypeOK
<1>2. Faithful
  BY <1>1, CaptureAtEof
<1>3. ASSUME NEW s \in Stream
      PROVE  [kept |-> kept[s], truncated |-> truncated[s]] = Call!Retained(s)
  <2>1. truncated[s] = (written[s] > Limit)
    <3>1. (truncated[s] <=> written[s] > Limit) /\ truncated[s] \in BOOLEAN
      BY <1>1, <1>2 DEF Faithful
    <3>2. (written[s] > Limit) \in BOOLEAN
      BY <1>1, LimitAssumption
    <3>3. QED
      BY <3>1, <3>2
  <2>2. kept[s] = IF written[s] < Limit THEN written[s] ELSE Limit
    BY <1>2 DEF Faithful
  <2>3. QED
    BY <2>1, <2>2, Zenon DEF Call!Retained
<1>4. Output = [s \in Stream |-> Call!Retained(s)]
  BY <1>3, Zenon DEF Output
<1>5. Output' = Output /\ Group' = {}
  BY DEF Output, NoGroup, Group
<1>6. Call!Return
  BY <1>4, <1>5 DEF Call!Return
<1>7. QED
  BY <1>6 DEF Call!Next

LEMMA CallWorks == IInv /\ IInv' /\ Next => Call!Next
<1> SUFFICES ASSUME IInv, IInv', Next PROVE Call!Next
  OBVIOUS
<1>1. /\ CaptureInv /\ TypeOK /\ Control /\ \A s \in Stream : written[s] \in Nat
      /\ Control'
  BY DEF IInv, CaptureInv, HelperTypeOK
<1>2. result = "none" \/ at = "returned"
  BY <1>1 DEF Control
<1>3. CASE HelperStep
  <2>1. Environment /\ UNCHANGED <<captureVars, result>>
    BY <1>3 DEF HelperStep, callVars
  <2>2. result = "ok" => \A s \in Stream : Closed(s)
    BY <1>1 DEF Control, AtEof, CaptureInv, Accounted
  <2>3. QED
    BY <1>1, <2>1, <2>2, HelperWorks, Working DEF captureVars, Call!Next
<1>4. ASSUME UNCHANGED <<written, result>>, result = "ok" => UNCHANGED captureVars,
             Group = {} => Group' = {}
      PROVE  Call!Next
  <2>1. \A s \in Stream : written'[s] >= written[s]
    BY <1>1, <1>4
  <2>2. QED
    BY <1>4, <2>1, Working DEF captureVars, Call!Next
<1>5. ASSUME ReapLeader PROVE written' = written /\ (Group = {} => Group' = {})
  BY <1>5 DEF ReapLeader, Group
<1>6. ASSUME signal_process_group PROVE written' = written /\ Group' = {}
  BY <1>6, LeaderIsProc DEF signal_process_group, Group, Die, Dead
<1>7. CASE TimePasses \/ SeeExit
  BY <1>4, <1>7 DEF TimePasses, SeeExit, helperVars, Group
<1>8. CASE Reap \/ ReapChild
  BY <1>4, <1>5, <1>8 DEF Reap, ReapChild
<1>9. CASE Sweep
  BY <1>4, <1>6, <1>9 DEF Sweep
<1>10. CASE PollTimesOut \/ PollFails
  <2>1. /\ result = "none" /\ result' \in {"timeout", "error"} /\ written' = written
        /\ at' = "returned"
    BY <1>2, <1>6, <1>10 DEF PollTimesOut, PollFails, Terminate
  <2>2. NoGroup'
    BY <1>1, <2>1 DEF Control
  <2>3. QED
    BY <2>1, <2>2, Failing
<1>11. ASSUME NEW s \in Stream, ReaderStep(s)
       PROVE  Call!Next
  <2>1. UNCHANGED <<proc, written, result>>
    BY <1>11 DEF ReaderStep, Read, ReadEof, Take, helperVars, callVars
  <2>2. result # "ok"
    BY <1>1, <1>11 DEF Control, AtEof, ReaderStep, Read, Take, ReadEof
  <2>3. QED
    BY <1>4, <2>1, <2>2 DEF Group
<1>12. ASSUME NEW s \in Stream, Receive(s)
       PROVE  Call!Next
  <2>1. /\ at = s /\ s \in {"stdout", "stderr"} /\ UNCHANGED <<helperVars, captureVars>>
    BY <1>12 DEF Receive, Stream
  <2>2. result = "none" /\ NoGroup
    BY <1>1, <1>2, <2>1 DEF Control
  <2>3. CASE s = "stdout"
    BY <1>4, <1>12, <2>1, <2>3 DEF Receive, helperVars, Group
  <2>4. CASE s # "stdout"
    <3>1. result' = "ok" /\ reader[s] = "eof" /\ s = "stderr"
      BY <1>12, <2>1, <2>4 DEF Receive
    <3>2. AtEof
      BY <1>1, <2>1, <3>1 DEF Control, AtEof, Stream
    <3>3. QED
      BY <2>1, <2>2, <3>1, <3>2, Giving DEF helperVars, captureVars
  <2>5. QED
    BY <2>3, <2>4
<1>13. ASSUME NEW s \in Stream, ReceiveTimesOut(s) \/ ReceiveFails(s)
       PROVE  Call!Next
  <2>1. /\ at \in {"stdout", "stderr"} /\ at' = "returned"
        /\ result' \in {"timeout", "error"} /\ written' = written
    BY <1>13 DEF ReceiveTimesOut, ReceiveFails, Abandon, Stream, helperVars
  <2>2. result = "none" /\ NoGroup'
    BY <1>1, <1>2, <2>1 DEF Control
  <2>3. QED
    BY <2>1, <2>2, Failing
<1>14. QED
  BY <1>3, <1>7, <1>8, <1>9, <1>10, <1>11, <1>12, <1>13 DEF Next

LEMMA CallStutters ==
  ASSUME UNCHANGED vars
  PROVE  UNCHANGED Call!callState
<1>1. UNCHANGED <<proc, written, kept, truncated, result>>
  BY DEF vars, helperVars, captureVars, callVars
<1>2. Group' = Group /\ Output' = Output
  BY <1>1 DEF Group, Output
<1>3. QED
  BY <1>1, <1>2 DEF Call!callState

\* run_runtime keeps the promise of HelperCall: it answers once, leaves nothing
\* of the group behind for good, and what it gives stays the whole output.
THEOREM RuntimeImplementsCall == Spec => ImplementsHelperCall
<1>1. IInv /\ IInv' /\ [Next]_vars => [Call!Next]_(Call!callState)
  BY CallWorks, CallStutters
<1>2. QED
  BY <1>1, IInvAlways, CallStarts, PTL DEF Spec, ImplementsHelperCall, Call!Spec
==============================================================================
