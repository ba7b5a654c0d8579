--------------------------- MODULE HelperProcesses ---------------------------
(***************************************************************************)
(* What the kernel and a helper (ip, nft, tracepath, docker, podman, a     *)
(* plugin, ...) do while NetWhy runs it.  The helper is spawned as the     *)
(* leader of its own process group with a pipe on each output stream.  It  *)
(* may fork, its descendants inherit the pipes and may leave the group     *)
(* (setsid), every process may write, close a stream or exit at any time.  *)
(* The group's id is the leader's pid: it stays reserved while the leader  *)
(* is not reaped or the group has a member, afterwards the kernel may give *)
(* it to a process of somebody else.                                       *)
(***************************************************************************)
EXTENDS Naturals

CONSTANTS
  Descendant,  \* processes the helper may fork
  Capacity,    \* chunks a pipe holds
  MaxOutput    \* chunks the helper writes to a stream at most

ASSUME HelperAssumption ==
  /\ Capacity \in Nat \ {0}
  /\ MaxOutput \in Nat
  /\ "leader" \notin Descendant

Stream == {"stdout", "stderr"}
Proc == Descendant \cup {"leader"}

VARIABLES
  proc,     \* "unborn", "group", "session" (left the group), "zombie", "gone"
  holds,    \* the streams whose write end a process has open
  pipe,     \* chunks in a stream's pipe
  written,  \* ghost: chunks ever written to a stream
  foreign   \* somebody else's group under the id: "none", "alive", "killed"

helperVars == <<proc, holds, pipe, written, foreign>>

Alive(p) == proc[p] \in {"group", "session"}

\* All write ends of a stream are closed.
Closed(s) == \A p \in Proc : s \notin holds[p]

\* The members of the helper's group that run.
Group == {p \in Proc : proc[p] = "group"}

GroupGone == proc["leader"] = "gone" /\ \A p \in Proc : proc[p] # "group"

HelperInit ==
  /\ proc = [p \in Proc |-> IF p = "leader" THEN "group" ELSE "unborn"]
  /\ holds = [p \in Proc |-> IF p = "leader" THEN Stream ELSE {}]
  /\ pipe = [s \in Stream |-> 0]
  /\ written = [s \in Stream |-> 0]
  /\ foreign = "none"

Fork(p, d) ==
  /\ Alive(p)
  /\ proc[d] = "unborn"
  /\ proc' = [proc EXCEPT ![d] = proc[p]]
  /\ holds' = [holds EXCEPT ![d] = holds[p]]
  /\ UNCHANGED <<pipe, written, foreign>>

\* A group leader cannot leave its group.
Setsid(d) ==
  /\ proc[d] = "group"
  /\ proc' = [proc EXCEPT ![d] = "session"]
  /\ UNCHANGED <<holds, pipe, written, foreign>>

Write(p, s) ==
  /\ Alive(p)
  /\ s \in holds[p]
  /\ pipe[s] < Capacity
  /\ written[s] < MaxOutput
  /\ pipe' = [pipe EXCEPT ![s] = @ + 1]
  /\ written' = [written EXCEPT ![s] = @ + 1]
  /\ UNCHANGED <<proc, holds, foreign>>

Close(p, s) ==
  /\ Alive(p)
  /\ s \in holds[p]
  /\ holds' = [holds EXCEPT ![p] = @ \ {s}]
  /\ UNCHANGED <<proc, pipe, written, foreign>>

\* The state of processes that died, and the pipes their death closes.
Dead(p) == IF p = "leader" THEN "zombie" ELSE "gone"

Die(S) ==
  /\ proc' = [p \in Proc |-> IF p \in S THEN Dead(p) ELSE proc[p]]
  /\ holds' = [p \in Proc |-> IF p \in S THEN {} ELSE holds[p]]

Exit(p) ==
  /\ Alive(p)
  /\ Die({p})
  /\ UNCHANGED <<pipe, written, foreign>>

Recycle ==
  /\ GroupGone
  /\ foreign = "none"
  /\ foreign' = "alive"
  /\ UNCHANGED <<proc, holds, pipe, written>>

Environment ==
  \/ \E p \in Proc, d \in Descendant : Fork(p, d)
  \/ \E d \in Descendant : Setsid(d)
  \/ \E p \in Proc, s \in Stream : Write(p, s) \/ Close(p, s)
  \/ \E p \in Proc : Exit(p)
  \/ Recycle

\* killpg(pid, SIGKILL): whoever has the id now.
signal_process_group ==
  /\ Die(Group)
  /\ foreign' = IF foreign = "alive" THEN "killed" ELSE foreign
  /\ UNCHANGED <<pipe, written>>

\* waitpid: the zombie goes.
ReapLeader ==
  /\ proc["leader"] = "zombie"
  /\ proc' = [proc EXCEPT !["leader"] = "gone"]
  /\ UNCHANGED <<holds, pipe, written, foreign>>

HelperTypeOK ==
  /\ proc \in [Proc -> {"unborn", "group", "session", "zombie", "gone"}]
  /\ holds \in [Proc -> SUBSET Stream]
  /\ pipe \in [Stream -> 0..Capacity]
  /\ written \in [Stream -> 0..MaxOutput]
  /\ foreign \in {"none", "alive", "killed"}
==============================================================================
