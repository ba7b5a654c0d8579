-------------------------- MODULE MCContainerContext -------------------------
(***************************************************************************)
(* Two pids and three processes: a pid may be given out twice, a container *)
(* may restart under the other pid or under its own.                       *)
(***************************************************************************)
EXTENDS Invocation

MCPid == {1, 2}

\* An isolated container; one on the host's network whose root happens to have
\* the inode number of NetWhy's; a host process, and a chrooted one.
MCShape ==
  LET shape(init, net, mnt, root, same) ==
        [init |-> init, net |-> net, mnt |-> mnt, root |-> root,
         same_inode |-> same]
  IN {shape(TRUE, TRUE, TRUE, "top", FALSE),
      shape(TRUE, FALSE, TRUE, "chroot", TRUE),
      shape(FALSE, FALSE, FALSE, "top", TRUE),
      shape(FALSE, FALSE, FALSE, "chroot", FALSE)}
==============================================================================
