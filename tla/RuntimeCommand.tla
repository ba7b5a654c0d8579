---------------------------- MODULE RuntimeCommand ---------------------------
(***************************************************************************)
(* container_context::run_runtime: before there is an async runtime, a     *)
(* docker or podman command is polled for its exit while two threads drain *)
(* its pipes, and what they read is received within what is left of the    *)
(* timeout.  The exit is observed with WNOWAIT, so that the helper's pid   *)
(* is still its own when its group is signalled.                           *)
(***************************************************************************)
EXTENDS Capture

VARIABLES
  at,      \* where the calling thread is
  late,    \* the operation timeout has elapsed
  result,  \* "none", "ok", "timeout", "error"
  reaper   \* the thread "netwhy-runtime-reaper": "none", "waiting", "done"

callVars == <<at, late, result, reaper>>
vars == <<helperVars, captureVars, callVars>>

Init ==
  /\ HelperInit
  /\ CaptureInit
  /\ at = "poll"
  /\ late = FALSE
  /\ result = "none"
  /\ reaper = "none"

HelperStep == Environment /\ UNCHANGED <<captureVars, callVars>>

\* The reader threads go on whatever the calling thread does.
ReaderStep(s) == (Read(s) \/ ReadEof(s)) /\ UNCHANGED callVars

TimePasses ==
  /\ ~ late
  /\ late' = TRUE
  /\ UNCHANGED <<helperVars, captureVars, at, result, reaper>>

-----------------------------------------------------------------------------
MutSeeExit ==   \* mutant: the poll reaps (try_wait)
  /\ at = "poll"
  /\ ReapLeader
  /\ at' = "sweep"
  /\ UNCHANGED <<captureVars, late, result, reaper>>

\* child_has_exited: the zombie is seen and stays.
SeeExit ==
  /\ at = "poll"
  /\ proc["leader"] = "zombie"
  /\ at' = "sweep"
  /\ UNCHANGED <<helperVars, captureVars, late, result, reaper>>

MutSweep ==   \* mutant: the group is left alone after an exit
  /\ at = "sweep"
  /\ at' = "reap"
  /\ UNCHANGED <<helperVars, captureVars, late, result, reaper>>

Sweep ==
  /\ at = "sweep"
  /\ signal_process_group
  /\ at' = "reap"
  /\ UNCHANGED <<captureVars, late, result, reaper>>

Reap ==
  /\ at = "reap"
  /\ ReapLeader
  /\ at' = "stdout"
  /\ UNCHANGED <<captureVars, late, result, reaper>>

\* terminate_process_group, and a thread that reaps.
Terminate(error) ==
  /\ at = "poll"
  /\ signal_process_group
  /\ at' = "returned"
  /\ result' = error
  /\ reaper' = "waiting"
  /\ UNCHANGED <<captureVars, late>>

\* The helper was alive when it was looked at; it may have exited since.
PollTimesOut == late /\ Terminate("timeout")

PollFails == Terminate("error")

MutReceive(s) ==   \* mutant: over the limit there is nothing to wait for
  /\ at = s
  /\ reader[s] = "eof" \/ truncated[s]
  /\ IF s = "stdout" THEN at' = "stderr" /\ UNCHANGED result
                     ELSE at' = "returned" /\ result' = "ok"
  /\ UNCHANGED <<helperVars, captureVars, late, reaper>>

\* receive_reader: stdout, then stderr.  What is there is taken even if no
\* time is left.
Receive(s) ==
  /\ at = s
  /\ reader[s] = "eof"
  /\ IF s = "stdout" THEN at' = "stderr" /\ UNCHANGED result
                     ELSE at' = "returned" /\ result' = "ok"
  /\ UNCHANGED <<helperVars, captureVars, late, reaper>>

MutReceiveTimesOut(s) ==   \* mutant: recv() instead of recv_timeout()
  FALSE /\ UNCHANGED vars

\* receive_reader ends with an error, and so does the call.
Abandon(s, error) ==
  /\ at = s
  /\ at' = "returned"
  /\ result' = error
  /\ UNCHANGED <<helperVars, captureVars, late, reaper>>

ReceiveTimesOut(s) == late /\ reader[s] # "eof" /\ Abandon(s, "timeout")

\* The reader thread sent an I/O error or stopped.
ReceiveFails(s) == reader[s] # "eof" /\ Abandon(s, "error")

ReapChild ==
  /\ reaper = "waiting"
  /\ ReapLeader
  /\ reaper' = "done"
  /\ UNCHANGED <<captureVars, at, late, result>>

Next ==
  \/ HelperStep \/ TimePasses
  \/ SeeExit \/ Sweep \/ Reap \/ PollTimesOut \/ PollFails \/ ReapChild
  \/ \E s \in Stream :
           ReaderStep(s) \/ Receive(s) \/ ReceiveTimesOut(s) \/ ReceiveFails(s)

\* The calling thread runs on; nothing is assumed of the helper, and the
\* reader threads are not needed to meet the deadline.
Spec ==
  /\ Init
  /\ [][Next]_vars
  /\ WF_vars(TimePasses) /\ WF_vars(SeeExit) /\ WF_vars(Sweep) /\ WF_vars(Reap)
  /\ WF_vars(PollTimesOut) /\ WF_vars(ReapChild)
  /\ \A s \in Stream : WF_vars(Receive(s)) /\ WF_vars(ReceiveTimesOut(s))

-----------------------------------------------------------------------------
\* Type invariant.
TypeOK ==
  /\ HelperTypeOK
  /\ CaptureTypeOK
  /\ at \in Stream \cup {"poll", "sweep", "reap", "returned"}
  /\ late \in BOOLEAN
  /\ result \in {"none", "ok", "timeout", "error"}
  /\ reaper \in {"none", "waiting", "done"}

\* The output that is returned, complete up to the limit, tells if there was
\* more of it.
FaithfulCapture == result = "ok" => Faithful

\* When the call is over no member of the helper's group is left running.
GroupTerminated == result # "none" => \A p \in Proc : proc[p] # "group"

\* The signals go to the helper's group and to nobody else's, because the pid
\* is never given back before the group has been signalled.
OnlyOwnGroup == foreign # "killed"

\* The timeout bounds process execution and output capture, even if something
\* that left the group keeps the pipes open; the helper is reaped.
ReturnsAndReaps == <>(result # "none" /\ proc["leader"] = "gone")

Call == INSTANCE HelperCall WITH
  Process <- Proc,
  Failure <- {"timeout", "error"},
  members <- Group,
  answer  <- result,
  given   <- IF result = "ok" THEN {Output} ELSE {}

\* The call keeps the promise of HelperCall, to the end of the program: one
\* answer, nothing of the group afterwards, and an output nobody adds to.
ImplementsHelperCall == Call!Spec
==============================================================================
