---------------------------- MODULE BoundedCommand ---------------------------
(***************************************************************************)
(* command::run_bounded, and probe::route::run_command, its twin: wait for *)
(* the helper and drain both pipes under one timer.  The three futures of  *)
(* try_join! are polled by one task in any order; between two polls, and   *)
(* between the reaping of the helper and the signal that follows it, the   *)
(* kernel and the helper go on.                                            *)
(***************************************************************************)
EXTENDS Capture

VARIABLES
  wait,    \* wait_for_exit: "pending", "reaped", "done"
  result,  \* what run_bounded returned: "none", "ok", "timeout", "io"
  reaper   \* the task of reap_child: "none", "waiting", "done"

callVars == <<wait, result, reaper>>
vars == <<helperVars, captureVars, callVars>>

Init ==
  /\ HelperInit
  /\ CaptureInit
  /\ wait = "pending"
  /\ result = "none"
  /\ reaper = "none"

HelperStep == Environment /\ UNCHANGED <<captureVars, callVars>>

-----------------------------------------------------------------------------
Running == result = "none"

\* child.wait() completed; the signal follows in the same poll.
Reap ==
  /\ Running
  /\ wait = "pending"
  /\ ReapLeader
  /\ wait' = "reaped"
  /\ UNCHANGED <<captureVars, result, reaper>>

Sweep ==
  /\ wait = "reaped"
  /\ signal_process_group
  /\ wait' = "done"
  /\ UNCHANGED <<captureVars, result, reaper>>

\* The task is between two polls, not inside that of wait_for_exit.
Polling == Running /\ wait # "reaped"

Drain ==
  /\ Polling
  /\ \E s \in Stream : Read(s) \/ ReadEof(s)
  /\ UNCHANGED callVars

Captured == wait = "done" /\ AtEof

Finish ==
  /\ Running
  /\ Captured
  /\ result' = "ok"
  /\ UNCHANGED <<helperVars, captureVars, wait, reaper>>

\* terminate_process_group: the signal to the group also hits the leader, so
\* start_kill adds nothing; a task is left behind to reap it.
Abort(error) ==
  /\ Polling
  /\ ~ Captured
  /\ signal_process_group
  /\ result' = error
  /\ reaper' = "waiting"
  /\ UNCHANGED <<captureVars, wait>>

\* Mutants of Deadline: the signal goes to the helper, not to its group; the
\* timer is around the wait for the helper only.
MutDeadlineKillsHelper ==
  /\ Polling
  /\ ~ Captured
  /\ Die({"leader"} \cap Group)
  /\ result' = "timeout"
  /\ reaper' = "waiting"
  /\ UNCHANGED <<pipe, written, foreign, captureVars, wait>>

MutDeadlineOfWait == wait = "pending" /\ Abort("timeout")

Deadline == Abort("timeout")

\* A read or the wait failed.
CaptureFails == Abort("io")

ReapChild ==
  /\ reaper = "waiting"
  /\ \/ wait = "done" /\ UNCHANGED helperVars
     \/ wait = "pending" /\ ReapLeader
  /\ reaper' = "done"
  /\ UNCHANGED <<captureVars, wait, result>>

Next ==
  \/ HelperStep
  \/ Reap \/ Sweep \/ Drain \/ Finish \/ Deadline \/ CaptureFails \/ ReapChild

\* Nothing is assumed of the helper: it may hang.  The timer fires, and the
\* runtime goes on polling.
Spec ==
  /\ Init
  /\ [][Next]_vars
  /\ WF_vars(Sweep) /\ WF_vars(Deadline) /\ WF_vars(Finish)
  /\ WF_vars(ReapChild)

-----------------------------------------------------------------------------
\* Type invariant.
TypeOK ==
  /\ HelperTypeOK
  /\ CaptureTypeOK
  /\ wait \in {"pending", "reaped", "done"}
  /\ result \in {"none", "ok", "timeout", "io"}
  /\ reaper \in {"none", "waiting", "done"}

\* An output that run_bounded returns is all that was ever written to the
\* pipes up to the limit, and says whether there was more.
FaithfulCapture == result = "ok" => Faithful

\* When the call is over no member of the helper's group is left running,
\* however it ended: with an output, at the deadline, on an error.
GroupTerminated == result # "none" => \A p \in Proc : proc[p] # "group"

\* A helper is never blocked on a pipe that nobody drains, not even when its
\* output is over the limit already.
Drained == \A s \in Stream : Running /\ pipe[s] = Capacity => reader[s] = "reading"

\* Signals go to the helper's group and to nobody else's, as "terminated as a
\* group at the deadline" (docs/design.md:175) has it.
OnlyOwnGroup == foreign # "killed"

\* The deadline bounds the call whatever the helper, its descendants and the
\* pipes they keep open do, and the helper does not stay a zombie.
ReturnsAndReaps == <>(result # "none" /\ proc["leader"] = "gone")

Call == INSTANCE HelperCall WITH
  Process <- Proc,
  Failure <- {"timeout", "io"},
  members <- Group,
  answer  <- result,
  given   <- IF result = "ok" THEN {Output} ELSE {}

\* The call keeps the promise of HelperCall, to the end of the program: one
\* answer, nothing of the group afterwards, and an output nobody adds to.
ImplementsHelperCall == Call!Spec
==============================================================================
