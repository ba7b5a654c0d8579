-------------------------- MODULE InvocationProofs ---------------------------
(***************************************************************************)
(* ContainerContext and Invocation for every set of pids, every look of    *)
(* the processes and any number of births.  The first invariant follows    *)
(* the preparation: which files are open by now come from the pinned       *)
(* process, which of its namespaces NetWhy is in by now, and that the pid  *)
(* resolved first is the pid of the pinned and of the verified process.    *)
(* An invocation is a preparation of its context with other steps around   *)
(* it, so that all this holds there.  What an output and an exit code rest *)
(* on is settled before the output is written: which failures spoke JSON   *)
(* follows the raw arguments up to the options and the parsed ones         *)
(* afterwards, and the two must say the same.                              *)
(***************************************************************************)
EXTENDS Invocation, SequenceTheorems, TLAPS

Entering == {"enter_mnt", "enter_root", "enter_net", "running"}
Prepared == {"verify"} \cup Entering

FilesOfPinned ==
  /\ at \in {"mnt", "root", "environ"} \cup Prepared => fds.net = pinned
  /\ at \in {"root", "environ"} \cup Prepared => fds.mnt = pinned
  /\ at \in {"environ"} \cup Prepared => fds.root = pinned
  /\ at \in Prepared => environ \in {pinned, 0}

EnteredSoFar ==
  /\ at \notin {"enter_root", "enter_net", "running", "failed"} => self = Ours
  /\ at = "enter_root" =>
       self = [net |-> 0, mnt |-> MntOf(pinned), root |-> <<MntOf(pinned), "top">>]
  /\ at = "enter_net" =>
       self = [net |-> 0, mnt |-> MntOf(pinned), root |-> RootOf(pinned)]
  /\ at = "running" => self = ContextOf(pinned)

SamePid ==
  /\ selector = "none" => at = "running" /\ pinned = 0
  /\ selector # "none" /\ at \notin {"resolve", "failed"} => pid # 0
  /\ selector # "none" /\ at \notin {"resolve", "directory", "failed"} =>
       pinned \in Process /\ born[pinned].pid = pid
  /\ at \in Entering /\ selector = "container" =>
       verified \in Process /\ born[verified].pid = pid

IInv == TypeOK /\ FilesOfPinned /\ EnteredSoFar /\ SamePid

------------------------------------------------------------------------------
LEMMA IInvInit == Init => IInv
<1> SUFFICES ASSUME Init PROVE IInv
  OBVIOUS
<1> USE ContextAssumption
<1>1. TypeOK
  BY DEF Init, TypeOK, Process, Files, Ours
<1>2. FilesOfPinned /\ EnteredSoFar /\ SamePid
  BY DEF Init, FilesOfPinned, EnteredSoFar, SamePid, Prepared, Entering, Files,
         ContextOf, RootOf, MntOf, NetOf, Ours
<1>3. QED
  BY <1>1, <1>2 DEF IInv

\* Processes are the positions of born, and 0 is none.
LEMMA BornFacts ==
  ASSUME TypeOK
  PROVE  /\ Process = 1..Len(born) /\ Len(born) \in Nat
         /\ 0 \notin Process
         /\ \A i \in Process : born[i] \in [pid : Pid, shape : Shape]
<1>1. born \in Seq([pid : Pid, shape : Shape])
  BY DEF TypeOK
<1>2. /\ Len(born) \in Nat
      /\ born \in [1..Len(born) -> [pid : Pid, shape : Shape]]
      /\ DOMAIN born = 1..Len(born)
  BY <1>1, LenProperties
<1>3. QED
  BY <1>2 DEF Process

\* What is known of a process does not change when others are born.
LEMMA BirthKeeps ==
  ASSUME TypeOK, NEW p \in Pid, NEW shape \in Shape, Birth(p, shape)
  PROVE  /\ born' \in Seq([pid : Pid, shape : Shape])
         /\ Process \subseteq Process'
         /\ alive' \subseteq Process'
         /\ \A i \in Process : born'[i] = born[i]
<1> DEFINE new == [pid |-> p, shape |-> shape]
<1>1. born \in Seq([pid : Pid, shape : Shape]) /\ new \in [pid : Pid, shape : Shape]
  BY DEF TypeOK
<1>2. born' = Append(born, new)
  BY DEF Birth
<1>3. /\ born' \in Seq([pid : Pid, shape : Shape])
      /\ Len(born') = Len(born) + 1
      /\ \A i \in 1..Len(born) : born'[i] = born[i]
  BY <1>1, <1>2, AppendProperties
<1>4. DOMAIN born' = 1..Len(born')
  BY <1>3, LenProperties
<1>5. Process = 1..Len(born) /\ Process' = 1..(Len(born) + 1) /\ Len(born) \in Nat
  BY <1>3, <1>4, BornFacts DEF Process
<1>6. alive \subseteq Process /\ alive' = alive \cup {Len(born) + 1}
  BY DEF Birth, TypeOK
<1>7. Process \subseteq Process' /\ Len(born) + 1 \in Process'
  BY <1>5
<1>8. alive' \subseteq Process'
  BY <1>6, <1>7
<1>9. \A i \in Process : born'[i] = born[i]
  BY <1>3, <1>5
<1>10. QED
  BY <1>3, <1>7, <1>8, <1>9

\* The world moves without NetWhy noticing.
LEMMA WorldKeepsIInv == IInv /\ World => IInv'
<1> SUFFICES ASSUME IInv, World PROVE IInv'
  OBVIOUS
<1>1. /\ born' \in Seq([pid : Pid, shape : Shape])
      /\ Process \subseteq Process'
      /\ alive' \subseteq Process'
      /\ \A i \in Process : born'[i] = born[i]
  <2>1. CASE \E i \in alive : Exit(i)
    BY <2>1 DEF IInv, TypeOK, Exit, Process
  <2>2. CASE \E p \in Pid, s \in Shape : Birth(p, s)
    BY <2>2, BirthKeeps DEF IInv
  <2>3. QED
    BY <2>1, <2>2 DEF World
<1>2. TypeOK'
  BY <1>1 DEF IInv, TypeOK, World
<1>3. FilesOfPinned'
  BY DEF IInv, FilesOfPinned, World
<1>4. \A i \in Process \cup {0} :
        MntOf(i)' = MntOf(i) /\ NetOf(i)' = NetOf(i) /\ RootOf(i)' = RootOf(i)
  BY <1>1 DEF MntOf, NetOf, RootOf
<1>5. EnteredSoFar'
  <2>1. pinned \in Process \cup {0} /\ pinned' = pinned
    BY DEF IInv, TypeOK, World
  <2>2. /\ MntOf(pinned)' = MntOf(pinned)
        /\ NetOf(pinned)' = NetOf(pinned)
        /\ RootOf(pinned)' = RootOf(pinned)
    BY <1>1, <2>1 DEF MntOf, NetOf, RootOf
  <2>3. QED
    BY <2>2 DEF IInv, EnteredSoFar, ContextOf, World, Ours
<1>6. SamePid'
  BY <1>1 DEF IInv, SamePid, World
<1>7. QED
  BY <1>2, <1>3, <1>5, <1>6 DEF IInv

\* Without a need to change the root, the top of the mount namespace that was
\* entered is the root of the pinned process.
LEMMA RootUnchanged ==
  ASSUME IInv, fds.root = pinned, fds.mnt = pinned, ~ root_changed
  PROVE  RootOf(pinned) = <<MntOf(pinned), "top">>
<1>1. CASE pinned = 0
  BY <1>1 DEF RootOf
<1>2. CASE pinned # 0
  <2>1. pinned \in Process /\ born[pinned] \in [pid : Pid, shape : Shape]
    BY <1>2, BornFacts DEF IInv, TypeOK
  <2>2. born[pinned].shape \in AnyShape
    BY <2>1, ContextAssumption
  <2>3. ~ born[pinned].shape.mnt /\ born[pinned].shape.same_inode
    BY <1>2, <2>1, <2>2 DEF root_changed, mount_changed, MntOf, AnyShape
  <2>4. born[pinned].shape.root = "top"
    BY <2>2, <2>3 DEF AnyShape
  <2>5. QED
    BY <1>2, <2>4 DEF RootOf
<1>3. QED
  BY <1>1, <1>2

LEMMA IInvStep == IInv /\ [Next]_vars => IInv'
<1> SUFFICES ASSUME IInv, [Next]_vars PROVE IInv'
  OBVIOUS
<1> USE DEF IInv, Entering, Prepared
<1>1. CASE World
  BY <1>1, WorldKeepsIInv
<1>2. CASE Fail
  <2>1. TypeOK'
    BY <1>2 DEF TypeOK, Fail, worldVars, Process
  <2>2. FilesOfPinned' /\ EnteredSoFar' /\ SamePid'
    BY <1>2 DEF FilesOfPinned, EnteredSoFar, SamePid, Fail, MayFail, Files
  <2>3. QED
    BY <2>1, <2>2
<1>3. CASE Resolve
  <2>1. PICK i \in alive : pid' = born[i].pid
    BY <1>3 DEF Resolve
  <2>2. pid' \in Pid
    BY <2>1, BornFacts DEF TypeOK
  <2>3. TypeOK'
    BY <1>3, <2>2 DEF TypeOK, Resolve, worldVars, Process
  <2>4. FilesOfPinned' /\ EnteredSoFar' /\ SamePid'
    BY <1>3, <2>2, ContextAssumption
       DEF FilesOfPinned, EnteredSoFar, SamePid, Resolve, Ours
  <2>5. QED
    BY <2>3, <2>4
<1>4. CASE OpenDirectory
  <2>1. PICK i \in alive \cup {0} : Runs(i, pid) /\ pinned' = i
    BY <1>4 DEF OpenDirectory
  <2>2. pinned' \in Process /\ born[pinned'].pid = pid
    BY <1>4, <2>1 DEF OpenDirectory, SamePid, Runs, TypeOK
  <2>3. TypeOK'
    <3>1. born' = born /\ alive' = alive /\ Process' = Process
      BY <1>4 DEF OpenDirectory, worldVars, Process
    <3>2. QED
      BY <1>4, <2>2, <3>1 DEF TypeOK, OpenDirectory, Files
  <2>4. FilesOfPinned' /\ EnteredSoFar' /\ SamePid'
    BY <1>4, <2>2 DEF FilesOfPinned, EnteredSoFar, SamePid, OpenDirectory, worldVars,
                      Process, Ours
  <2>5. QED
    BY <2>3, <2>4
<1>5. ASSUME NEW f \in Files, Open(f)
      PROVE  IInv'
  <2>1. TypeOK'
    BY <1>5 DEF TypeOK, Open, After, Files, worldVars, Process
  <2>2. FilesOfPinned'
    BY <1>5 DEF TypeOK, FilesOfPinned, Open, After, Files
  <2>3. EnteredSoFar' /\ SamePid'
    BY <1>5 DEF EnteredSoFar, SamePid, Open, After, Files, worldVars, Process, Ours
  <2>4. QED
    BY <2>1, <2>2, <2>3
<1>6. CASE ReadEnvironment
  <2>1. TypeOK'
    BY <1>6 DEF TypeOK, ReadEnvironment, worldVars, Process
  <2>2. FilesOfPinned'
    BY <1>6 DEF FilesOfPinned, ReadEnvironment
  <2>3. EnteredSoFar' /\ SamePid'
    BY <1>6 DEF EnteredSoFar, SamePid, TypeOK, ReadEnvironment, worldVars, Process, Ours
  <2>4. QED
    BY <2>1, <2>2, <2>3
<1>7. CASE Verify
  <2>1. TypeOK'
    BY <1>7 DEF TypeOK, Verify, worldVars, Process
  <2>2. FilesOfPinned' /\ EnteredSoFar'
    BY <1>7 DEF FilesOfPinned, EnteredSoFar, Verify, worldVars, Ours
  <2>3. SamePid'
    BY <1>7 DEF SamePid, TypeOK, Verify, worldVars, Process
  <2>4. QED
    BY <2>1, <2>2, <2>3
<1>8. CASE EnterMount
  <2>1. self' = [net |-> 0, mnt |-> MntOf(pinned), root |-> <<MntOf(pinned), "top">>]
    <3>1. fds.mnt = pinned /\ self = Ours
      BY <1>8 DEF FilesOfPinned, EnteredSoFar, EnterMount
    <3>2. CASE mount_changed
      BY <1>8, <3>1, <3>2 DEF EnterMount, Ours
    <3>3. CASE ~ mount_changed
      BY <1>8, <3>1, <3>3 DEF EnterMount, mount_changed, Ours
    <3>4. QED
      BY <3>2, <3>3
  <2>2. UNCHANGED MntOf(pinned)
    BY <1>8 DEF EnterMount, worldVars, MntOf
  <2>3. MntOf(pinned) \in Process \cup {0}
    BY DEF TypeOK, MntOf
  <2>4. TypeOK'
    <3>1. born' = born /\ alive' = alive /\ Process' = Process
      BY <1>8 DEF EnterMount, worldVars, Process
    <3>2. self'.net = 0 /\ self'.mnt = MntOf(pinned)
      BY <2>1
    <3>3. QED
      BY <1>8, <2>3, <3>1, <3>2 DEF TypeOK, EnterMount
  <2>5. FilesOfPinned' /\ SamePid'
    BY <1>8 DEF FilesOfPinned, SamePid, EnterMount, worldVars, Process
  <2>6. EnteredSoFar'
    BY <1>8, <2>1, <2>2 DEF EnteredSoFar, EnterMount
  <2>7. QED
    BY <2>4, <2>5, <2>6
<1>9. CASE ChangeRoot
  <2>1. self' = [net |-> 0, mnt |-> MntOf(pinned), root |-> RootOf(pinned)]
    <3>1. /\ fds.mnt = pinned /\ fds.root = pinned
          /\ self = [net |-> 0, mnt |-> MntOf(pinned), root |-> <<MntOf(pinned), "top">>]
      BY <1>9 DEF FilesOfPinned, EnteredSoFar, ChangeRoot
    <3>2. CASE root_changed
      BY <1>9, <3>1, <3>2 DEF ChangeRoot
    <3>3. CASE ~ root_changed
      BY <1>9, <3>1, <3>3, RootUnchanged DEF ChangeRoot
    <3>4. QED
      BY <3>2, <3>3
  <2>2. UNCHANGED <<MntOf(pinned), RootOf(pinned)>>
    BY <1>9 DEF ChangeRoot, worldVars, MntOf, RootOf
  <2>3. MntOf(pinned) \in Process \cup {0}
    BY DEF TypeOK, MntOf
  <2>4. TypeOK'
    BY <1>9, <2>1, <2>3 DEF TypeOK, ChangeRoot, worldVars, Process
  <2>5. FilesOfPinned' /\ SamePid'
    BY <1>9 DEF FilesOfPinned, SamePid, ChangeRoot, worldVars, Process
  <2>6. EnteredSoFar'
    BY <1>9, <2>1, <2>2 DEF EnteredSoFar, ChangeRoot
  <2>7. QED
    BY <2>4, <2>5, <2>6
<1>10. CASE EnterNetwork
  <2>1. self' = ContextOf(pinned)
    <3>1. /\ fds.net = pinned
          /\ self = [net |-> 0, mnt |-> MntOf(pinned), root |-> RootOf(pinned)]
      BY <1>10 DEF FilesOfPinned, EnteredSoFar, EnterNetwork
    <3>2. CASE network_changed
      BY <1>10, <3>1, <3>2 DEF EnterNetwork, ContextOf
    <3>3. CASE ~ network_changed
      BY <1>10, <3>1, <3>3 DEF EnterNetwork, network_changed, ContextOf
    <3>4. QED
      BY <3>2, <3>3
  <2>2. UNCHANGED ContextOf(pinned)
    BY <1>10 DEF EnterNetwork, worldVars, ContextOf, MntOf, NetOf, RootOf
  <2>3. MntOf(pinned) \in Process \cup {0} /\ NetOf(pinned) \in Process \cup {0}
    BY DEF TypeOK, MntOf, NetOf
  <2>4. TypeOK'
    BY <1>10, <2>1, <2>3 DEF TypeOK, EnterNetwork, worldVars, Process, ContextOf
  <2>5. FilesOfPinned' /\ SamePid'
    BY <1>10 DEF FilesOfPinned, SamePid, EnterNetwork, worldVars, Process
  <2>6. EnteredSoFar'
    BY <1>10, <2>1, <2>2 DEF EnteredSoFar, EnterNetwork
  <2>7. QED
    BY <2>4, <2>5, <2>6
<1>11. CASE UNCHANGED vars
  BY <1>11 DEF vars, worldVars, TypeOK, FilesOfPinned, EnteredSoFar, SamePid, Process,
               ContextOf, MntOf, NetOf, RootOf
<1>12. QED
  BY <1>1, <1>2, <1>3, <1>4, <1>5, <1>6, <1>7, <1>8, <1>9, <1>10, <1>11 DEF Next

LEMMA IInvAlways == Spec => []IInv
BY IInvInit, IInvStep, PTL DEF Spec

------------------------------------------------------------------------------
\* The variables of the preparation keep their types.
THEOREM ContextTypeOK == Spec => []TypeOK
<1>1. IInv => TypeOK
  BY DEF IInv
<1>2. QED
  BY <1>1, IInvAlways, PTL

\* NetWhy diagnoses in the context of exactly one process, the one it pinned,
\* however processes exit and pids are given out again meanwhile.
THEOREM ContextOneProcess == Spec => []OneProcess
<1>1. IInv => OneProcess
  BY DEF IInv, FilesOfPinned, EnteredSoFar, OneProcess, Prepared, Entering
<1>2. QED
  BY <1>1, IInvAlways, PTL

\* A restart of the container between the two questions is noticed, unless a
\* pid was given out twice.
THEOREM ContextRestartNoticed == Spec => []RestartNoticed
<1>1. IInv => RestartNoticed
  <2> SUFFICES ASSUME IInv, at = "running", selector = "container", ~ Recycled
               PROVE  pinned = verified /\ pinned # 0
    BY DEF RestartNoticed
  <2>1. /\ pinned \in Process /\ verified \in Process
        /\ born[pinned].pid = born[verified].pid
    BY DEF IInv, SamePid, Entering
  <2>2. pinned = verified
    BY <2>1 DEF Recycled
  <2>3. pinned # 0
    BY <2>1 DEF IInv, TypeOK, Process
  <2>4. QED
    BY <2>2, <2>3
<1>2. QED
  BY <1>1, IInvAlways, PTL

------------------------------------------------------------------------------
Diagnoses == command \in {"diagnose", "report"}

Inputs ==
  /\ command \in {"diagnose", "report", "compare", "completions"}
  /\ flag \in BOOLEAN
  /\ cli_json \in BOOLEAN

Silent == stdout = [doc |-> NoDoc, end |-> "none"] /\ stderr = "none"

Emittable(doc) ==
  /\ doc \in [kind : {"error", "report", "comparison", "completions"},
              json : BOOLEAN, exit_code : {0, 1, 2}, redacted : BOOLEAN]
  /\ doc.kind = "error" <=> doc.exit_code = 2
  /\ WantsJson => doc.json
  /\ doc.kind = "report" => at = "running" /\ (doc.redacted <=> command = "report")

\* OutputMatchesExit, but for the context.
Settled ==
  /\ exit \in {0, 1, 2}
  /\ stdout.end = "written" => exit = stdout.doc.exit_code
  /\ exit # 2 =>
       /\ stdout.doc.kind \notin {"none", "error"}
       /\ stdout.end = "failed" => stdout.doc.kind = "help"
  /\ WantsJson /\ stdout.doc.kind # "help" => stdout.doc.json /\ stderr # "text"
  /\ stdout.end = "none" => stderr = "text"
  /\ stdout.doc.kind = "report" =>
       at = "running" /\ (stdout.doc.redacted <=> command = "report")

Course ==
  /\ phase \in {"parse", "validate", "context", "runtime", "run", "emit", "exited"}
  /\ phase \in {"validate", "context", "runtime"} => Diagnoses
  /\ phase \in {"validate", "context", "runtime", "run"} /\ command # "completions" =>
       (cli_json <=> WantsJson)
  /\ phase = "runtime" \/ (phase = "run" /\ Diagnoses) => at = "running"
  /\ phase # "exited" => Silent
  /\ phase = "emit" => Emittable(pending)
  /\ phase = "exited" => Settled

JInv == Inputs /\ Course

------------------------------------------------------------------------------
\* Every step of an invocation is a step of the preparation or leaves it alone.
THEOREM InvocationPrepares == InvocationSpec => Spec
<1>1. InvocationInit => Init
  BY DEF InvocationInit
<1>2. [InvocationNext]_<<vars, callVars, runVars>> => [Next]_vars
  BY DEF InvocationNext, parse_parser, validate_options, prepare_context, ContextEnds,
         build_runtime, run, run_compare, run_completions, emit_text
<1>3. QED
  BY <1>1, <1>2, PTL DEF InvocationSpec, Spec

LEMMA JInvInit == InvocationInit => JInv
BY DEF InvocationInit, JInv, Inputs, Course, Silent

\* A refusal in JSON is emitted, one in prose settles everything at once.
LEMMA RefusalKeepsCourse ==
  ASSUME Silent, NEW as_json \in BOOLEAN, Refuses(as_json),
         UNCHANGED callVars, as_json <=> WantsJson
  PROVE  Course'
<1>1. CASE as_json
  <2>1. phase' = "emit" /\ pending' = ErrorReport /\ UNCHANGED <<stdout, stderr>>
    BY <1>1 DEF Refuses, Emits
  <2>2. Emittable(ErrorReport)'
    BY DEF Emittable, ErrorReport, Doc
  <2>3. QED
    BY <2>1, <2>2 DEF Course, Silent
<1>2. CASE ~ as_json
  <2>1. /\ phase' = "exited" /\ exit' = 2 /\ stderr' = "text"
        /\ stdout' = [doc |-> NoDoc, end |-> "none"]
    BY <1>2 DEF Refuses, Exits, Silent
  <2>2. ~ WantsJson'
    BY <1>2 DEF WantsJson, callVars
  <2>3. Settled'
    BY <2>1, <2>2 DEF Settled, NoDoc, Doc
  <2>4. QED
    BY <2>1, <2>3 DEF Course
<1>3. QED
  BY <1>1, <1>2

\* A document that may be emitted is, once it is to be.
LEMMA EmissionKeepsCourse ==
  ASSUME Silent, NEW doc, Emits(doc), Emittable(doc), UNCHANGED <<at, callVars>>
  PROVE  Course'
<1>1. phase' = "emit" /\ pending' = doc /\ UNCHANGED <<stdout, stderr>>
  BY DEF Emits
<1>2. Emittable(doc)'
  BY DEF Emittable, WantsJson, callVars
<1>3. QED
  BY <1>1, <1>2 DEF Course, Silent

LEMMA ReportIsEmittable ==
  ASSUME at = "running", NEW json \in BOOLEAN, NEW code \in {0, 1}, NEW redacted \in BOOLEAN,
         WantsJson => json, redacted <=> command = "report"
  PROVE  Emittable(Doc("report", json, code, redacted))
BY DEF Emittable, Doc

LEMMA JInvStep == JInv /\ [InvocationNext]_<<vars, callVars, runVars>> => JInv'
<1> SUFFICES ASSUME JInv, [InvocationNext]_<<vars, callVars, runVars>> PROVE JInv'
  OBVIOUS
<1> USE DEF JInv
<1>1. CASE parse_parser
  <2>0. Silent /\ UNCHANGED callVars
    BY <1>1 DEF Course, parse_parser
  <2>1. CASE Parses
    <3>1. Inputs'
      BY <2>0, <2>1 DEF Inputs, Parses, ParsedJson, callVars
    <3>2. Course'
      BY <1>1, <2>0, <2>1 DEF Inputs, Parses, ParsedJson, Continue, Course, Diagnoses,
                              Silent, WantsJson, callVars
    <3>3. QED
      BY <3>1, <3>2
  <2>2. CASE PrintsHelp
    <3>1. Settled'
      BY <2>2 DEF PrintsHelp, Settled, Exits, Doc
    <3>2. QED
      BY <1>1, <2>2, <3>1 DEF Inputs, Course, PrintsHelp, parse_parser, callVars, Exits
  <2>3. CASE ParseFails
    <3>1. Inputs'
      BY <2>0, <2>3 DEF Inputs, ParseFails, callVars
    <3>2. Course'
      BY <2>0, <2>3, RefusalKeepsCourse
         DEF Inputs, ParseFails, json_requested, WantsJson
    <3>3. QED
      BY <3>1, <3>2
  <2>4. QED
    BY <1>1, <2>1, <2>2, <2>3 DEF parse_parser
<1>2. CASE validate_options
  <2>0. Silent /\ Diagnoses /\ phase = "validate"
    BY <1>2 DEF Course, validate_options
  <2>1. Inputs'
    BY <1>2 DEF Inputs, validate_options, callVars
  <2>2. CASE Continue("context")
    BY <1>2, <2>0, <2>1, <2>2
       DEF Course, validate_options, Inputs, Continue, Silent, WantsJson, ParsedJson,
           callVars, vars, Diagnoses
  <2>3. CASE Refuses(json_requested)
    BY <1>2, <2>0, <2>1, <2>3, RefusalKeepsCourse
       DEF Inputs, validate_options, json_requested, WantsJson, Diagnoses
  <2>4. QED
    BY <1>2, <2>2, <2>3 DEF validate_options
<1>3. CASE prepare_context
  BY <1>3 DEF prepare_context, Inputs, Course, Silent, Diagnoses, WantsJson, callVars, runVars
<1>4. CASE ContextEnds
  <2>0. Silent /\ phase = "context" /\ (cli_json <=> WantsJson)
    BY <1>4 DEF Course, ContextEnds, Diagnoses
  <2>1. Inputs'
    BY <1>4 DEF Inputs, ContextEnds, callVars
  <2>2. CASE at = "running" /\ Continue("runtime")
    BY <1>4, <2>0, <2>1, <2>2
       DEF Course, ContextEnds, Continue, Silent, Diagnoses, WantsJson, callVars, vars
  <2>3. CASE Refuses(cli_json)
    BY <1>4, <2>0, <2>1, <2>3, RefusalKeepsCourse DEF Inputs, ContextEnds
  <2>4. QED
    BY <1>4, <2>2, <2>3 DEF ContextEnds
<1>5. CASE build_runtime
  <2>0. Silent /\ phase = "runtime" /\ (cli_json <=> WantsJson)
    BY <1>5 DEF Course, build_runtime, Diagnoses
  <2>1. Inputs'
    BY <1>5 DEF Inputs, build_runtime, callVars
  <2>2. CASE Continue("run")
    BY <1>5, <2>0, <2>1, <2>2
       DEF Course, build_runtime, Continue, Silent, Diagnoses, WantsJson, callVars, vars
  <2>3. CASE Refuses(cli_json)
    BY <1>5, <2>0, <2>1, <2>3, RefusalKeepsCourse DEF Inputs, build_runtime
  <2>4. QED
    BY <1>5, <2>2, <2>3 DEF build_runtime
<1>6. CASE run
  <2>0. Silent /\ Diagnoses /\ at = "running" /\ (cli_json <=> WantsJson) /\ UNCHANGED <<at, callVars>>
    BY <1>6 DEF Course, run, Diagnoses, vars
  <2>1. Inputs'
    BY <1>6 DEF Inputs, run, callVars
  <2>2. ASSUME NEW code \in {0, 1},
               Emits(Doc("report", command = "report" \/ cli_json, code, command = "report"))
        PROVE  Course'
    <3>1. Emittable(Doc("report", command = "report" \/ cli_json, code, command = "report"))
      <4>1. (command = "report" \/ cli_json) \in BOOLEAN /\ (command = "report") \in BOOLEAN
        OBVIOUS
      <4>2. WantsJson => command = "report" \/ cli_json
        BY <2>0
      <4>3. QED
        BY <2>0, <4>1, <4>2, ReportIsEmittable
    <3>2. QED
      BY <2>0, <2>2, <3>1, EmissionKeepsCourse
  <2>3. CASE Refuses(cli_json)
    BY <2>0, <2>1, <2>3, RefusalKeepsCourse DEF Inputs
  <2>4. QED
    BY <1>6, <2>1, <2>2, <2>3 DEF run
<1>7. CASE run_compare
  <2>0. Silent /\ command = "compare" /\ (cli_json <=> WantsJson) /\ UNCHANGED <<at, callVars>>
    BY <1>7 DEF Course, run_compare, vars
  <2>1. Inputs'
    BY <1>7 DEF Inputs, run_compare, callVars
  <2>2. CASE Emits(Doc("comparison", cli_json, 0, FALSE))
    <3>1. Emittable(Doc("comparison", cli_json, 0, FALSE))
      BY <2>0 DEF Emittable, Doc, Inputs
    <3>2. QED
      BY <2>0, <2>1, <2>2, <3>1, EmissionKeepsCourse
  <2>3. CASE Refuses(cli_json)
    BY <2>0, <2>1, <2>3, RefusalKeepsCourse DEF Inputs
  <2>4. QED
    BY <1>7, <2>2, <2>3 DEF run_compare
<1>8. CASE run_completions
  <2>0. Silent /\ command = "completions" /\ UNCHANGED <<at, callVars>>
    BY <1>8 DEF Course, run_completions, vars
  <2>1. Inputs'
    BY <1>8 DEF Inputs, run_completions, callVars
  <2>2. Emittable(Doc("completions", FALSE, 0, FALSE))
    BY <2>0 DEF Emittable, Doc, WantsJson
  <2>3. QED
    BY <1>8, <2>0, <2>1, <2>2, EmissionKeepsCourse DEF run_completions
<1>9. CASE emit_text
  <2>0. Silent /\ Emittable(pending) /\ UNCHANGED <<at, callVars>>
    BY <1>9 DEF Course, emit_text, vars
  <2>1. Inputs'
    BY <1>9 DEF Inputs, emit_text, callVars
  <2>2. PICK end \in {"written", "broken_pipe", "failed"} :
          /\ stdout' = [doc |-> pending, end |-> end]
          /\ stderr' = IF end # "failed" THEN stderr
                       ELSE IF pending.json THEN "json" ELSE "text"
          /\ Exits(IF end = "failed" THEN 2 ELSE pending.exit_code)
    BY <1>9 DEF emit_text
  <2>3. Settled'
    BY <2>0, <2>2 DEF Settled, Emittable, Silent, Exits, WantsJson, callVars
  <2>4. QED
    BY <2>1, <2>2, <2>3 DEF Course, Exits
<1>10. CASE UNCHANGED <<vars, callVars, runVars>>
  BY <1>10 DEF vars, callVars, runVars, Inputs, Course, Silent, Diagnoses, WantsJson,
               Emittable, Settled
<1>11. QED
  BY <1>1, <1>2, <1>3, <1>4, <1>5, <1>6, <1>7, <1>8, <1>9, <1>10 DEF InvocationNext

LEMMA JInvAlways == InvocationSpec => []JInv
BY JInvInit, JInvStep, PTL DEF InvocationSpec

------------------------------------------------------------------------------
\* Whatever fails, output, channel and exit code of an invocation agree, and a
\* printed diagnosis was made in the one context that was selected.
THEOREM InvocationOutputMatchesExit == InvocationSpec => []OutputMatchesExit
<1>1. IInv /\ JInv => OutputMatchesExit
  <2> SUFFICES ASSUME IInv, JInv, phase = "exited" PROVE OutputMatchesExit
    BY DEF OutputMatchesExit
  <2>1. Settled
    BY DEF JInv, Course
  <2>2. at = "running" => /\ self = ContextOf(pinned)
                          /\ selector = "none" <=> pinned = 0
    BY BornFacts DEF IInv, EnteredSoFar, SamePid
  <2>3. QED
    BY <2>1, <2>2 DEF Settled, OutputMatchesExit
<1>2. InvocationSpec => []IInv
  BY InvocationPrepares, IInvAlways, PTL
<1>3. QED
  BY <1>1, <1>2, JInvAlways, PTL
==============================================================================
