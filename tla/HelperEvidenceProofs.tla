------------------------ MODULE HelperEvidenceProofs -------------------------
(***************************************************************************)
(* BoundedCommand and HelperEvidence for every number of descendants, pipe *)
(* capacity, output and limit.  Once the group was signalled, after the    *)
(* reaping or by an abort, it has no member and gets none: those that left *)
(* it fork outside.  A verdict is given once the call is over; from then   *)
(* on the accounts of the capture cannot change, since both pipes are at   *)
(* their end and nobody can write.  A helper that could not be spawned     *)
(* leaves nothing that could ever run.                                     *)
(***************************************************************************)
EXTENDS HelperEvidence, CaptureProofs

NoGroup == \A p \in Proc : proc[p] # "group"

Control ==
  /\ wait \in {"reaped", "done"} => proc["leader"] = "gone"
  /\ result # "none" \/ wait = "done" => NoGroup
  /\ result # "none" => wait # "reaped"
  /\ result = "ok" => AtEof

IInv == TypeOK /\ CaptureInv /\ Control

------------------------------------------------------------------------------
LEMMA LeaderIsProc == "leader" \in Proc
BY DEF Proc

LEMMA IInvInit == Init => IInv
<1> SUFFICES ASSUME Init PROVE IInv
  OBVIOUS
<1>1. CaptureInv
  BY CaptureInitially DEF Init
<1>2. TypeOK
  BY <1>1 DEF Init, TypeOK, CaptureInv
<1>3. Control
  BY DEF Init, Control
<1>4. QED
  BY <1>1, <1>2, <1>3 DEF IInv

\* An empty group stays empty and a reaped helper stays gone.
LEMMA HelperKeepsControl ==
  ASSUME IInv, HelperStep
  PROVE  Control'
<1> USE LeaderIsProc, HelperAssumption DEF IInv
<1>0. "leader" \notin Descendant /\ "leader" \in Proc
  OBVIOUS
<1>1. proc["leader"] = "gone" => proc'["leader"] = "gone"
  BY <1>0 DEF HelperStep, Environment, Fork, Setsid, Write, Close, Exit, Die, Dead,
              Alive, Recycle, TypeOK, HelperTypeOK
<1>2. NoGroup => NoGroup'
  <2> SUFFICES ASSUME NoGroup PROVE NoGroup'
    OBVIOUS
  <2>1. CASE \E p \in Proc, d \in Descendant : Fork(p, d)
    BY <2>1 DEF NoGroup, Fork, TypeOK, HelperTypeOK
  <2>2. CASE \E d \in Descendant : Setsid(d)
    BY <2>2 DEF NoGroup, Setsid, Proc
  <2>3. CASE \E p \in Proc, s \in Stream : Write(p, s) \/ Close(p, s)
    BY <2>3 DEF NoGroup, Write, Close
  <2>4. CASE \E p \in Proc : Exit(p)
    BY <2>4 DEF NoGroup, Exit, Die, Dead
  <2>5. CASE Recycle
    BY <2>5 DEF NoGroup, Recycle
  <2>6. QED
    BY <2>1, <2>2, <2>3, <2>4, <2>5 DEF HelperStep, Environment
<1>3. QED
  BY <1>1, <1>2 DEF Control, HelperStep, captureVars, callVars, AtEof

\* The signal leaves no member of the group, and a helper that is gone, gone.
LEMMA SignalEmptiesGroup ==
  ASSUME signal_process_group
  PROVE  NoGroup' /\ (proc["leader"] = "gone" => proc'["leader"] = "gone")
BY LeaderIsProc DEF signal_process_group, Group, Die, Dead, NoGroup

LEMMA IInvStep == IInv /\ [Next]_vars => IInv'
<1> SUFFICES ASSUME IInv, [Next]_vars PROVE IInv'
  OBVIOUS
<1> USE LeaderIsProc DEF IInv
<1>1. CASE HelperStep
  <2>1. CaptureInv'
    BY <1>1, CaptureEnvironment DEF HelperStep
  <2>2. TypeOK'
    BY <1>1, <2>1 DEF TypeOK, CaptureInv, HelperStep, callVars
  <2>3. QED
    BY <1>1, <2>1, <2>2, HelperKeepsControl
<1>2. CASE Reap
  <2>1. CaptureInv'
    BY <1>2, CaptureReap DEF Reap
  <2>2. TypeOK'
    BY <1>2, <2>1 DEF TypeOK, CaptureInv, Reap
  <2>3. proc'["leader"] = "gone"
    BY <1>2 DEF Reap, ReapLeader, TypeOK, HelperTypeOK
  <2>4. Control'
    BY <1>2, <2>3 DEF Control, Reap, Running
  <2>5. QED
    BY <2>1, <2>2, <2>4
<1>3. CASE Sweep
  <2>1. CaptureInv'
    BY <1>3, CaptureSignal DEF Sweep
  <2>2. TypeOK'
    BY <1>3, <2>1 DEF TypeOK, CaptureInv, Sweep
  <2>3. Control'
    BY <1>3, SignalEmptiesGroup DEF Control, Sweep
  <2>4. QED
    BY <2>1, <2>2, <2>3
<1>4. CASE Drain
  <2>1. PICK s \in Stream : Read(s) \/ ReadEof(s)
    BY <1>4 DEF Drain
  <2>2. CaptureInv'
    BY <2>1, CaptureRead
  <2>3. TypeOK'
    BY <1>4, <2>2 DEF TypeOK, CaptureInv, Drain, callVars
  <2>4. proc' = proc
    BY <2>1 DEF Read, Take, ReadEof, helperVars
  <2>5. Control'
    BY <1>4, <2>4 DEF Control, NoGroup, Drain, Polling, Running, callVars
  <2>6. QED
    BY <2>2, <2>3, <2>5
<1>5. CASE Finish
  <2>1. CaptureInv'
    BY <1>5 DEF CaptureInv, HelperTypeOK, CaptureTypeOK, Accounted, Closed, Finish,
                helperVars, captureVars
  <2>2. TypeOK'
    BY <1>5, <2>1 DEF TypeOK, CaptureInv, Finish
  <2>3. Control'
    BY <1>5 DEF Control, NoGroup, AtEof, Finish, Captured, helperVars, captureVars
  <2>4. QED
    BY <2>1, <2>2, <2>3
<1>6. CASE Deadline \/ CaptureFails
  <2>1. PICK error \in {"timeout", "io"} : Abort(error)
    BY <1>6 DEF Deadline, CaptureFails
  <2>2. CaptureInv'
    BY <2>1, CaptureSignal DEF Abort
  <2>3. TypeOK'
    BY <2>1, <2>2 DEF TypeOK, CaptureInv, Abort
  <2>4. Control'
    BY <2>1, SignalEmptiesGroup DEF Control, Abort, Polling
  <2>5. QED
    BY <2>2, <2>3, <2>4
<1>7. CASE ReapChild
  <2>1. CaptureInv'
    <3>1. CASE ReapLeader
      BY <1>7, <3>1, CaptureReap DEF ReapChild
    <3>2. CASE UNCHANGED helperVars
      BY <1>7, <3>2 DEF CaptureInv, HelperTypeOK, CaptureTypeOK, Accounted, Closed,
                        ReapChild, helperVars, captureVars
    <3>3. QED
      BY <1>7, <3>1, <3>2 DEF ReapChild
  <2>2. TypeOK'
    BY <1>7, <2>1 DEF TypeOK, CaptureInv, ReapChild
  <2>3. NoGroup => NoGroup'
    <3>1. CASE ReapLeader
      BY <3>1 DEF NoGroup, ReapLeader
    <3>2. CASE UNCHANGED helperVars
      BY <3>2 DEF NoGroup, helperVars
    <3>3. QED
      BY <1>7, <3>1, <3>2 DEF ReapChild
  <2>4. proc["leader"] = "gone" => proc'["leader"] = "gone"
    BY <1>7 DEF ReapChild, ReapLeader, helperVars
  <2>5. Control'
    BY <1>7, <2>3, <2>4 DEF Control, AtEof, ReapChild, captureVars
  <2>6. QED
    BY <2>1, <2>2, <2>5
<1>8. CASE UNCHANGED vars
  BY <1>8 DEF vars, helperVars, captureVars, callVars, TypeOK, CaptureInv,
              HelperTypeOK, CaptureTypeOK, Accounted, Closed, Control, NoGroup, AtEof
<1>9. QED
  BY <1>1, <1>2, <1>3, <1>4, <1>5, <1>6, <1>7, <1>8 DEF Next

LEMMA IInvAlways == Spec => []IInv
BY IInvInit, IInvStep, PTL DEF Spec

------------------------------------------------------------------------------
\* The variables of run_bounded's model keep their types.
THEOREM BoundedTypeOK == Spec => []TypeOK
<1>1. IInv => TypeOK
  BY DEF IInv
<1>2. QED
  BY <1>1, IInvAlways, PTL

\* An output returned by run_bounded is complete up to the limit, and flagged
\* exactly beyond it.
THEOREM BoundedFaithfulCapture == Spec => []FaithfulCapture
<1>1. IInv => FaithfulCapture
  BY CaptureAtEof DEF IInv, Control, FaithfulCapture
<1>2. QED
  BY <1>1, IInvAlways, PTL

\* No member of the helper's group survives a call of run_bounded.
THEOREM BoundedGroupTerminated == Spec => []GroupTerminated
<1>1. IInv => GroupTerminated
  BY DEF IInv, Control, NoGroup, GroupTerminated
<1>2. QED
  BY <1>1, IInvAlways, PTL

\* A pipe that is full has a reader, so run_bounded cannot block its helper.
THEOREM BoundedDrained == Spec => []Drained
<1>1. IInv => Drained
  BY HelperAssumption
     DEF IInv, CaptureInv, CaptureTypeOK, Accounted, Drained
<1>2. QED
  BY <1>1, IInvAlways, PTL

------------------------------------------------------------------------------
\* Nothing runs and nothing ever wrote.
NothingRan ==
  /\ proc["leader"] = "gone"
  /\ \A p \in Proc : ~ Alive(p)
  /\ \A s \in Stream : written[s] = 0

\* What the evidence says was so at the end of the call, and still is.
Justified ==
  /\ SpawnFailed => NothingRan
  /\ evidence.by \in Tool => result = "ok"
  /\ evidence.by \in Tool \ {"tracepath"} => ~ Truncated
  /\ evidence.error_kind = "output_truncated" => result = "ok" /\ Truncated
  /\ evidence.by = "netwhy" /\ evidence.error_kind = "tool_missing" => SpawnFailed

EInv == IInv /\ Justified

------------------------------------------------------------------------------
LEMMA EInvInit == EvidenceInit => EInv
<1> SUFFICES ASSUME EvidenceInit PROVE EInv
  OBVIOUS
<1> USE HelperAssumption, LimitAssumption
<1>1. CASE Init
  <2>1. IInv
    BY <1>1, IInvInit
  <2>2. Justified
    BY <1>1 DEF EvidenceInit, Init, Justified, SpawnFailed, Unknown, Tool
  <2>3. QED
    BY <2>1, <2>2 DEF EInv
<1>2. CASE ~ Init
  <2>0. /\ CaptureInit
        /\ proc = [p \in Proc |-> IF p = "leader" THEN "gone" ELSE "unborn"]
        /\ holds = [p \in Proc |-> {}]
        /\ pipe = [s \in Stream |-> 0] /\ written = [s \in Stream |-> 0]
        /\ foreign = "none" /\ wait = "pending"
        /\ result = "io" /\ reaper = "none"
    BY <1>2 DEF EvidenceInit
  <2>1. HelperTypeOK
    BY <2>0 DEF HelperTypeOK
  <2>2. CaptureTypeOK
    BY <2>0 DEF CaptureInit, CaptureTypeOK
  <2>3. \A s \in Stream : Accounted(s)
    BY <2>0 DEF CaptureInit, Accounted
  <2>4. Control
    BY <2>0, LeaderIsProc DEF Control, NoGroup
  <2>5. IInv
    BY <2>0, <2>1, <2>2, <2>3, <2>4 DEF IInv, TypeOK, CaptureInv
  <2>6. NothingRan
    BY <2>0, LeaderIsProc DEF NothingRan, Alive
  <2>7. Justified
    BY <2>6 DEF EvidenceInit, Justified, Unknown, Tool
  <2>8. QED
    BY <2>5, <2>7 DEF EInv
<1>3. QED
  BY <1>1, <1>2

\* Where nothing runs, nothing starts to.
LEMMA NothingStarts ==
  ASSUME IInv, Next, NothingRan, SpawnFailed
  PROVE  NothingRan'
<1> USE LeaderIsProc, HelperAssumption
<1>1. CASE HelperStep
  <2>1. Recycle
    BY <1>1 DEF HelperStep, Environment, NothingRan, Fork, Setsid, Write, Close,
                Exit, Alive, Proc
  <2>2. QED
    BY <2>1 DEF Recycle, NothingRan, Alive
<1>2. CASE Sweep
  BY <1>2 DEF IInv, Control, SpawnFailed, Sweep
<1>3. ~ (Reap \/ Drain \/ Finish \/ Deadline \/ CaptureFails \/ ReapChild)
  BY DEF SpawnFailed, Reap, Drain, Finish, Deadline, CaptureFails, Abort, ReapChild,
         Polling, Running
<1>4. QED
  BY <1>1, <1>2, <1>3 DEF Next

\* A call that is over stays so, with what it captured.
LEMMA CallStaysOver ==
  ASSUME IInv, Next
  PROVE  /\ result # "none" => result' = result /\ truncated' = truncated
         /\ SpawnFailed => SpawnFailed'
         /\ SpawnFailed' => SpawnFailed
<1>1. CASE HelperStep
  BY <1>1 DEF HelperStep, captureVars, callVars, SpawnFailed
<1>2. CASE Reap
  BY <1>2 DEF Reap, Running, captureVars, SpawnFailed
<1>3. CASE Sweep
  BY <1>3 DEF Sweep, captureVars, SpawnFailed
<1>4. CASE Drain
  BY <1>4 DEF Drain, Polling, Running, callVars, SpawnFailed
<1>5. CASE Finish
  BY <1>5 DEF Finish, Running, captureVars, SpawnFailed
<1>6. CASE Deadline \/ CaptureFails
  BY <1>6 DEF Deadline, CaptureFails, Abort, Polling, Running, captureVars, SpawnFailed
<1>7. CASE ReapChild
  BY <1>7 DEF ReapChild, captureVars, SpawnFailed
<1>8. QED
  BY <1>1, <1>2, <1>3, <1>4, <1>5, <1>6, <1>7 DEF Next

LEMMA EInvStep == EInv /\ [EvidenceNext]_evidenceVars => EInv'
<1> SUFFICES ASSUME EInv, [EvidenceNext]_evidenceVars PROVE EInv'
  OBVIOUS
<1> USE DEF EInv
<1>1. CASE RunBounded
  <2>1. IInv'
    BY <1>1, IInvStep DEF RunBounded
  <2>2. SpawnFailed' => NothingRan'
    BY <1>1, CallStaysOver, NothingStarts DEF RunBounded, Justified
  <2>3. Justified'
    BY <1>1, <2>2, CallStaysOver DEF RunBounded, Justified, Truncated
  <2>4. QED
    BY <2>1, <2>3
<1>2. ASSUME UNCHANGED vars
      PROVE  IInv' /\ (SpawnFailed' <=> SpawnFailed) /\ (NothingRan => NothingRan')
             /\ result' = result /\ (Truncated' <=> Truncated)
  <2>1. IInv'
    BY <1>2, IInvStep
  <2>2. QED
    BY <1>2, <2>1 DEF vars, helperVars, captureVars, callVars, SpawnFailed, NothingRan,
                      Alive, Truncated
<1>3. CASE CommandFails
  BY <1>2, <1>3 DEF CommandFails, Failed, Justified, Tool
<1>4. CASE OutputTruncated
  BY <1>2, <1>4 DEF OutputTruncated, Ended, Failed, Justified, Tool
<1>5. CASE invoke_plugin
  <2>1. CASE evidence' = Failed("plugin", "tool_failed")
    BY <1>2, <1>5, <2>1 DEF invoke_plugin, OutputUsable, Failed, Justified, Tool
  <2>2. CASE \E d \in Document : evidence' = parse_plugin_document(d)
    <3>1. PICK d \in Document : evidence' = parse_plugin_document(d)
      BY <2>2
    <3>2. CASE Valid(d)
      <4>1. evidence'.by = "plugin" /\ evidence'.error_kind = d.error_kind
        BY <3>1, <3>2 DEF parse_plugin_document, Told
      <4>2. d.error_kind # "output_truncated"
        BY DEF Document
      <4>3. QED
        BY <1>2, <1>5, <4>1, <4>2 DEF invoke_plugin, OutputUsable, Ended, Justified, Tool
    <3>3. CASE ~ Valid(d)
      BY <1>2, <1>5, <3>1, <3>3
         DEF parse_plugin_document, invoke_plugin, OutputUsable, Failed, Justified, Tool
    <3>4. QED
      BY <3>2, <3>3
  <2>3. QED
    BY <1>5, <2>1, <2>2 DEF invoke_plugin
<1>6. ASSUME NEW tool \in {"nft", "resolvectl", "nmcli"},
             NEW errors \in SUBSET {"tool_failed", "permission_denied", "parse_error"},
             inspect(tool, errors)
      PROVE  EInv'
  BY <1>2, <1>6 DEF inspect, OutputUsable, Ended, Failed, Told, Justified, Tool
<1>7. CASE inspect_one_mtu
  <2>1. PICK status \in {"warn", "pass"}, kind \in {"parse_error", "probe_failed"} :
          evidence' \in {Failed("tracepath", kind), Told("tracepath", status)}
    BY <1>7 DEF inspect_one_mtu
  <2>2. QED
    BY <1>2, <1>7, <2>1 DEF inspect_one_mtu, Ended, Failed, Told, Justified, Tool
<1>8. CASE UNCHANGED evidenceVars
  BY <1>2, <1>8 DEF evidenceVars, Justified
<1>9. QED
  BY <1>1, <1>3, <1>4, <1>5, <1>6, <1>7, <1>8 DEF EvidenceNext

------------------------------------------------------------------------------
\* What a plugin or a tool reports is taken over only on the whole of what it
\* printed, when nothing of it can print any more; truncated output and
\* missing programs are only reported where they were.
THEOREM EvidenceOnWholeOutput == EvidenceSpec => []VerdictOnWholeOutput
<1>1. EInv => VerdictOnWholeOutput
  <2> SUFFICES ASSUME EInv PROVE VerdictOnWholeOutput
    OBVIOUS
  <2> USE DEF EInv, Justified
  <2>1. ASSUME evidence.by \in Tool
        PROVE  /\ \A s \in Stream : Closed(s)
               /\ \A p \in Proc : proc[p] # "group"
               /\ evidence.by # "tracepath" => \A s \in Stream : written[s] = kept[s]
    <3>1. AtEof /\ NoGroup
      BY <2>1 DEF IInv, Control
    <3>2. \A s \in Stream : Closed(s) /\ pipe[s] = 0
      BY <3>1 DEF IInv, CaptureInv, Accounted, AtEof
    <3>3. ASSUME evidence.by # "tracepath", NEW s \in Stream
          PROVE  written[s] = kept[s]
      <4>1. written[s] = pipe[s] + kept[s]
        BY <2>1, <3>3 DEF IInv, CaptureInv, Accounted, Truncated
      <4>2. kept[s] \in Nat
        BY LimitAssumption DEF IInv, CaptureInv, CaptureTypeOK
      <4>3. QED
        BY <3>2, <4>1, <4>2
    <3>4. QED
      BY <3>1, <3>2, <3>3 DEF NoGroup
  <2>2. ASSUME evidence.error_kind = "output_truncated"
        PROVE  \E s \in Stream : written[s] > Limit
    <3>1. PICK s \in Stream : truncated[s]
      BY <2>2 DEF Truncated
    <3>2. written[s] > pipe[s] + Limit
      BY <3>1 DEF IInv, CaptureInv, Accounted
    <3>3. pipe[s] \in Nat /\ written[s] \in Nat
      BY HelperAssumption DEF IInv, CaptureInv, HelperTypeOK
    <3>4. QED
      BY <3>2, <3>3, LimitAssumption
  <2>3. evidence.by = "netwhy" /\ evidence.error_kind = "tool_missing" =>
          proc["leader"] = "gone" /\ \A s \in Stream : written[s] = 0
    BY DEF NothingRan
  <2>4. QED
    BY <2>1, <2>2, <2>3 DEF VerdictOnWholeOutput
<1>2. QED
  BY <1>1, EInvInit, EInvStep, PTL DEF EvidenceSpec

------------------------------------------------------------------------------
(***************************************************************************)
(* The promise of HelperCall.  Up to the answer and after it the helper    *)
(* works; the answer is given in the step that ends the call, which finds  *)
(* the group empty or empties it.                                          *)
(***************************************************************************)

LEMMA CallStarts == EvidenceInit => Call!Init
<1> SUFFICES ASSUME EvidenceInit PROVE Call!Init
  OBVIOUS
<1>1. CASE Init
  <2>1. result = "none" /\ written = [s \in Stream |-> 0] /\ proc["leader"] = "group"
    BY <1>1, LeaderIsProc DEF Init, HelperInit
  <2>2. Group \in (SUBSET Proc) \ {{}}
    <3>1. Group \subseteq Proc /\ "leader" \in Group
      BY <2>1, LeaderIsProc DEF Group
    <3>2. QED
      BY <3>1
  <2>3. QED
    BY <2>1, <2>2 DEF Call!Init
<1>2. CASE ~ Init
  <2>1. /\ result = "io" /\ written = [s \in Stream |-> 0]
        /\ proc = [p \in Proc |-> IF p = "leader" THEN "gone" ELSE "unborn"]
    BY <1>2 DEF EvidenceInit
  <2>2. Group = {}
    BY <2>1 DEF Group
  <2>3. QED
    BY <2>1, <2>2 DEF Call!Init
<1>3. QED
  BY <1>1, <1>2

\* A step that gives no answer and adds nothing to an output already given.
LEMMA Working ==
  ASSUME IInv, IInv', result' = result, Group = {} => Group' = {},
         \A s \in Stream : written'[s] >= written[s],
         result = "ok" => UNCHANGED <<written, kept, truncated>>
  PROVE  Call!Work
<1>1. Group' \subseteq Proc
  BY DEF Group
<1>2. written' \in [Stream -> Nat]
  BY HelperAssumption DEF IInv, CaptureInv, HelperTypeOK
<1>3. UNCHANGED (IF result = "ok" THEN {Output} ELSE {})
  <2>1. result = "ok" => Output' = Output
    BY DEF Output
  <2>2. QED
    BY <2>1
<1>4. QED
  BY <1>1, <1>2, <1>3 DEF Call!Work

LEMMA CallWorks == IInv /\ IInv' /\ Next => Call!Next
<1> SUFFICES ASSUME IInv, IInv', Next PROVE Call!Next
  OBVIOUS
<1>1. /\ CaptureInv /\ Control /\ \A s \in Stream : written[s] \in Nat
      /\ Control'
  BY DEF IInv, CaptureInv, HelperTypeOK
<1>2. CASE HelperStep
  <2>1. Environment /\ UNCHANGED <<captureVars, result>>
    BY <1>2 DEF HelperStep, callVars
  <2>2. result = "ok" => \A s \in Stream : Closed(s)
    BY <1>1 DEF Control, AtEof, CaptureInv, Accounted
  <2>3. QED
    BY <1>1, <2>1, <2>2, HelperWorks, Working DEF captureVars, Call!Next
<1>3. ASSUME UNCHANGED <<written, result>>, result = "ok" => UNCHANGED captureVars,
             Group = {} => Group' = {}
      PROVE  Call!Next
  <2>1. \A s \in Stream : written'[s] >= written[s]
    BY <1>1, <1>3
  <2>2. QED
    BY <1>3, <2>1, Working DEF captureVars, Call!Next
<1>4. ASSUME ReapLeader PROVE written' = written /\ (Group = {} => Group' = {})
  BY <1>4 DEF ReapLeader, Group
<1>5. CASE Reap
  BY <1>3, <1>4, <1>5 DEF Reap
<1>6. ASSUME signal_process_group PROVE written' = written /\ Group' = {}
  BY <1>6, SignalEmptiesGroup DEF signal_process_group, NoGroup, Group
<1>7. CASE Sweep
  BY <1>3, <1>6, <1>7 DEF Sweep
<1>8. CASE Drain
  <2>1. result = "none" /\ result' = result /\ UNCHANGED <<written, proc>>
    BY <1>8 DEF Drain, Polling, Running, callVars, Read, ReadEof, Take, helperVars
  <2>2. QED
    BY <1>3, <2>1 DEF Group
<1>9. CASE ReapChild
  <2>1. UNCHANGED <<captureVars, result>> /\ (UNCHANGED helperVars \/ ReapLeader)
    BY <1>9 DEF ReapChild
  <2>2. QED
    BY <1>3, <1>4, <2>1 DEF helperVars, Group
<1>10. CASE Finish
  <2>1. /\ result = "none" /\ result' = "ok" /\ UNCHANGED <<proc, written, kept, truncated>>
        /\ AtEof /\ NoGroup
    BY <1>1, <1>10 DEF Finish, Running, Captured, Control, helperVars, captureVars
  <2>2. Faithful
    BY <1>1, <2>1, CaptureAtEof
  <2>3. Output = [s \in Stream |-> Call!Retained(s)]
    <3>1. ASSUME NEW s \in Stream
          PROVE  [kept |-> kept[s], truncated |-> truncated[s]] = Call!Retained(s)
      <4>1. truncated[s] = (written[s] > Limit)
        <5>1. (truncated[s] <=> written[s] > Limit) /\ truncated[s] \in BOOLEAN
          BY <1>1, <2>2 DEF Faithful, CaptureInv, CaptureTypeOK
        <5>2. (written[s] > Limit) \in BOOLEAN
          BY <1>1, LimitAssumption
        <5>3. QED
          BY <5>1, <5>2
      <4>2. kept[s] = IF written[s] < Limit THEN written[s] ELSE Limit
        BY <2>2 DEF Faithful
      <4>3. QED
        BY <4>1, <4>2, Zenon DEF Call!Retained
    <3>2. QED
      BY <3>1, Zenon DEF Output
  <2>4. Output' = Output /\ Group' = {} /\ written' = written
    BY <2>1 DEF Output, NoGroup, Group
  <2>5. Call!Return
    BY <2>1, <2>3, <2>4 DEF Call!Return
  <2>6. QED
    BY <2>5 DEF Call!Next
<1>11. CASE Deadline \/ CaptureFails
  <2>1. result = "none" /\ result' \in {"timeout", "io"} /\ signal_process_group
    BY <1>11 DEF Deadline, CaptureFails, Abort, Polling, Running
  <2>2. Call!Return
    BY <1>6, <2>1 DEF Call!Return
  <2>3. QED
    BY <2>2 DEF Call!Next
<1>12. QED
  BY <1>2, <1>5, <1>7, <1>8, <1>9, <1>10, <1>11 DEF Next

LEMMA CallStutters ==
  ASSUME UNCHANGED vars
  PROVE  UNCHANGED Call!callState
<1>1. UNCHANGED <<proc, written, kept, truncated, result>>
  BY DEF vars, helperVars, captureVars, callVars
<1>2. Group' = Group /\ Output' = Output
  BY <1>1 DEF Group, Output
<1>3. QED
  BY <1>1, <1>2 DEF Call!callState

\* run_bounded, under all its callers, keeps the promise of HelperCall: it
\* answers once, leaves nothing of the group behind for good, and what it gives
\* stays the whole output.
THEOREM EvidenceImplementsCall == EvidenceSpec => ImplementsHelperCall
<1>1. EInv /\ EInv' /\ [EvidenceNext]_evidenceVars => [Call!Next]_(Call!callState)
  <2> SUFFICES ASSUME EInv, EInv', [EvidenceNext]_evidenceVars
               PROVE  Call!Next \/ UNCHANGED Call!callState
    OBVIOUS
  <2>1. CASE RunBounded
    BY <2>1, CallWorks DEF EInv, RunBounded
  <2>2. CASE ~ RunBounded
    <3>1. UNCHANGED vars
      BY <2>2 DEF EvidenceNext, CommandFails, OutputTruncated, OutputUsable, invoke_plugin,
                  inspect, inspect_one_mtu, evidenceVars
    <3>2. QED
      BY <3>1, CallStutters
  <2>3. QED
    BY <2>1, <2>2
<1>2. EvidenceSpec => []EInv
  BY EInvInit, EInvStep, PTL DEF EvidenceSpec
<1>3. QED
  BY <1>1, <1>2, CallStarts, PTL DEF EvidenceSpec, ImplementsHelperCall, Call!Spec
==============================================================================
