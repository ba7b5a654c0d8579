--------------------------- MODULE ContainerContext --------------------------
(***************************************************************************)
(* prepare_linux_context: select the execution context of a process or of  *)
(* a container's init, pin it through /proc, ask the runtime once more,    *)
(* and enter the namespaces and the root that differ, all before the async *)
(* runtime exists.  Meanwhile processes exit, pids are given out again and *)
(* the container restarts (external: the kernel and the runtime).          *)
(***************************************************************************)
EXTENDS Naturals, Sequences

CONSTANTS
  Pid,       \* pids that processes get; 0 selects /proc/self
  Shape,     \* what processes may look like
  MaxBorn    \* bound: processes born during the behaviour

(* A process: its pid; whether it is a container's init; whether it has a  *)
(* network and a mount namespace of its own, else it shares NetWhy's;      *)
(* whether its root is the top of its mount namespace or a directory in it *)
(* (chroot), and whether that root has the inode number of NetWhy's root,  *)
(* which is sure only if it is the same directory of the same namespace.   *)
AnyShape ==
  {s \in [init : BOOLEAN, net : BOOLEAN, mnt : BOOLEAN,
          root : {"top", "chroot"}, same_inode : BOOLEAN] :
     ~ s.mnt => s.same_inode = (s.root = "top")}

ASSUME ContextAssumption ==
  /\ Pid \subseteq Nat \ {0}
  /\ Shape \subseteq AnyShape
  /\ MaxBorn \in Nat

Ours == [net |-> 0, mnt |-> 0, root |-> <<0, "top">>]

VARIABLES
  born,      \* the processes in the order of their birth, [pid, shape]
  alive,     \* positions in born of those that have not exited
  selector,  \* "pid", "container", or "none": NetWhy's own context
  at,        \* where prepare_linux_context is
  pid,       \* the pid selected or resolved
  pinned,    \* the process whose /proc directory is open, 0: NetWhy itself
  fds,       \* per context file: the process it was opened from
  environ,   \* the process whose environment was read, 0: unavailable
  verified,  \* ghost: the init that the runtime named the second time
  self       \* NetWhy's own network and mount namespace and root

worldVars == <<born, alive>>
vars == <<born, alive, selector, at, pid, pinned, fds, environ, verified, self>>

Process == DOMAIN born
Files == {"net", "mnt", "root"}

\* What runs under a pid, as /proc/<pid> shows it.
Runs(i, p) == IF p = 0 THEN i = 0 ELSE i \in alive /\ born[i].pid = p

IsInit(i) == i \in alive /\ born[i].shape.init

NetOf(i) == IF i # 0 /\ born[i].shape.net THEN i ELSE 0
MntOf(i) == IF i # 0 /\ born[i].shape.mnt THEN i ELSE 0
RootOf(i) == <<MntOf(i), IF i = 0 THEN "top" ELSE born[i].shape.root>>

ContextOf(i) == [net |-> NetOf(i), mnt |-> MntOf(i), root |-> RootOf(i)]

Init ==
  /\ born = <<>>
  /\ alive = {}
  /\ selector \in {"none", "pid", "container"}
  /\ pid \in IF selector = "pid" THEN Pid ELSE {0}
  /\ at = [none |-> "running", pid |-> "directory", container |-> "resolve"][selector]
  /\ pinned = 0
  /\ fds = [f \in Files |-> 0]
  /\ environ = 0
  /\ verified = 0
  /\ self = Ours

-----------------------------------------------------------------------------
\* The world: pids of the living are distinct, and so is the container's init.
Birth(p, shape) ==
  /\ Len(born) < MaxBorn
  /\ \A i \in alive : born[i].pid # p
  /\ shape.init => \A i \in alive : ~ IsInit(i)
  /\ born' = Append(born, [pid |-> p, shape |-> shape])
  /\ alive' = alive \cup {Len(born) + 1}

Exit(i) ==
  /\ i \in alive
  /\ alive' = alive \ {i}
  /\ UNCHANGED born

World ==
  /\ \/ \E p \in Pid, s \in Shape : Birth(p, s)
     \/ \E i \in alive : Exit(i)
  /\ UNCHANGED <<selector, at, pid, pinned, fds, environ, verified, self>>

-----------------------------------------------------------------------------
MutResolve ==   \* mutant: pid 0 of a stopped container is taken for a pid
  /\ at = "resolve"
  /\ \/ \E i \in alive : IsInit(i) /\ pid' = born[i].pid
     \/ (\A i \in alive : ~ IsInit(i)) /\ pid' = 0
  /\ at' = "directory"
  /\ UNCHANGED <<worldVars, selector, pinned, fds, environ, verified, self>>

\* resolve_container_pid: a local runtime names the init of the container; a
\* stopped container (pid 0), like a remote runtime, is an error.
Resolve ==
  /\ at = "resolve"
  /\ \E i \in alive : IsInit(i) /\ pid' = born[i].pid
  /\ at' = "directory"
  /\ UNCHANGED <<worldVars, selector, pinned, fds, environ, verified, self>>

MutOpenDirectory ==   \* mutant: keeps the pid in place of a descriptor
  /\ at = "directory"
  /\ \E i \in alive \cup {0} : Runs(i, pid)
  /\ pinned' = pid
  /\ at' = "net"
  /\ UNCHANGED <<worldVars, selector, pid, fds, environ, verified, self>>

\* open_process_directory.
OpenDirectory ==
  /\ at = "directory"
  /\ \E i \in alive \cup {0} : Runs(i, pid) /\ pinned' = i
  /\ at' = "net"
  /\ UNCHANGED <<worldVars, selector, pid, fds, environ, verified, self>>

After == [net |-> "mnt", mnt |-> "root", root |-> "environ"]

MutOpen(f) ==   \* mutant: opens /proc/<pid>/... by path
  /\ at = f
  /\ \E i \in alive \cup {0} : Runs(i, pid) /\ fds' = [fds EXCEPT ![f] = i]
  /\ at' = After[f]
  /\ UNCHANGED <<worldVars, selector, pid, pinned, environ, verified, self>>

\* open_context_file: openat in the pinned directory, an error if its process
\* is gone.
Open(f) ==
  /\ at = f
  /\ pinned \in alive \cup {0}
  /\ fds' = [fds EXCEPT ![f] = pinned]
  /\ at' = After[f]
  /\ UNCHANGED <<worldVars, selector, pid, pinned, environ, verified, self>>

\* read_process_environment: failure is recorded and does not end anything.
ReadEnvironment ==
  /\ at = "environ"
  /\ \/ pinned \in alive /\ environ' = pinned
     \/ environ' = 0
  /\ at' = IF selector = "container" THEN "verify" ELSE "enter_mnt"
  /\ UNCHANGED <<worldVars, selector, pid, pinned, fds, verified, self>>

MutVerify ==   \* mutant: the second answer only has to be a running container
  /\ at = "verify"
  /\ \E i \in alive : IsInit(i) /\ verified' = i
  /\ at' = "enter_mnt"
  /\ UNCHANGED <<worldVars, selector, pid, pinned, fds, environ, self>>

\* resolve_container_pid again, and ensure_container_pid_unchanged.
Verify ==
  /\ at = "verify"
  /\ \E i \in alive : IsInit(i) /\ born[i].pid = pid /\ verified' = i
  /\ at' = "enter_mnt"
  /\ UNCHANGED <<worldVars, selector, pid, pinned, fds, environ, self>>

mount_changed == MntOf(fds.mnt) # 0

MutRootChanged ==   \* mutant: compares the inodes only
  fds.root # 0 /\ ~ born[fds.root].shape.same_inode

root_changed ==
  mount_changed \/ (fds.root # 0 /\ ~ born[fds.root].shape.same_inode)

network_changed == NetOf(fds.net) # 0

\* setns into a mount namespace makes its top the root.
EnterMount ==
  /\ at = "enter_mnt"
  /\ self' = IF mount_changed
               THEN [self EXCEPT !.mnt = MntOf(fds.mnt),
                                 !.root = <<MntOf(fds.mnt), "top">>]
               ELSE self
  /\ at' = "enter_root"
  /\ UNCHANGED <<worldVars, selector, pid, pinned, fds, environ, verified>>

ChangeRoot ==
  /\ at = "enter_root"
  /\ self' = IF root_changed THEN [self EXCEPT !.root = RootOf(fds.root)] ELSE self
  /\ at' = "enter_net"
  /\ UNCHANGED <<worldVars, selector, pid, pinned, fds, environ, verified>>

EnterNetwork ==
  /\ at = "enter_net"
  /\ self' = IF network_changed THEN [self EXCEPT !.net = NetOf(fds.net)] ELSE self
  /\ at' = "running"
  /\ UNCHANGED <<worldVars, selector, pid, pinned, fds, environ, verified>>

\* The steps that may fail: the runtime, /proc, and the changes of context that
\* are needed at all.  Whatever was entered by then, the invocation is over.
MayFail ==
  \/ at \in {"resolve", "directory", "verify"} \cup Files
  \/ at = "enter_mnt" /\ mount_changed
  \/ at = "enter_root" /\ root_changed
  \/ at = "enter_net" /\ network_changed

Fail ==
  /\ MayFail
  /\ at' = "failed"
  /\ UNCHANGED <<worldVars, selector, pid, pinned, fds, environ, verified, self>>

Next ==
  \/ World \/ Fail
  \/ Resolve \/ OpenDirectory \/ ReadEnvironment \/ Verify
  \/ \E f \in Files : Open(f)
  \/ EnterMount \/ ChangeRoot \/ EnterNetwork

Spec == Init /\ [][Next]_vars

-----------------------------------------------------------------------------
\* Type invariant.
TypeOK ==
  /\ born \in Seq([pid : Pid, shape : Shape])
  /\ alive \subseteq Process
  /\ selector \in {"none", "pid", "container"}
  /\ at \in Files \cup {"resolve", "directory", "environ", "verify", "enter_mnt",
                        "enter_root", "enter_net", "running", "failed"}
  /\ pid \in Pid \cup {0}
  /\ {pinned, environ, verified} \subseteq Process \cup {0}
  /\ fds \in [Files -> Process \cup {0}]
  /\ self.net \in Process \cup {0} /\ self.mnt \in Process \cup {0}

\* Diagnostics run in the context of one process: NetWhy's namespaces and its
\* root are those of the process it pinned, and so is the environment that
\* proxies are taken from, whatever exits and restarts in between.
OneProcess ==
  at = "running" => self = ContextOf(pinned) /\ environ \in {pinned, 0}

Recycled == \E i, j \in Process : i # j /\ born[i].pid = born[j].pid

\* A container that stops or restarts while its context is prepared is
\* noticed: what is diagnosed is the process the runtime named after it was
\* pinned.  Only a pid that was given out twice can hide a restart.
RestartNoticed ==
  at = "running" /\ selector = "container" /\ ~ Recycled =>
    pinned = verified /\ pinned # 0
==============================================================================
