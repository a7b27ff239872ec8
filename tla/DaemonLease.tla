---------------------------- MODULE DaemonLease ----------------------------
(***************************************************************************)
(* How daemon processes share the pid file and the control socket:         *)
(* daemon/pidfile.rs, start_daemon in cli/commands/daemon.rs, run in       *)
(* daemon/mod.rs and bind in daemon/ipc/server.rs.                         *)
(*                                                                         *)
(* The lease is an flock on the file that was open when it was taken; the  *)
(* path may name another file by then, because a daemon that ends removes  *)
(* the path before the kernel releases its lock.                           *)
(***************************************************************************)
EXTENDS Naturals

CONSTANTS
    Daemons,        \* processes that run `daemon start', again and again
    Inodes,         \* files that the path can come to name
    NoInode, NoDaemon

VARIABLES
    path,           \* the file that daemon.pid names
    lock,           \* the process that holds the flock of each file
    file,           \* the file that each process has open
    socket,         \* the process that bound what daemon.sock names
    pc

vars == <<path, lock, file, socket, pc>>

Labels == {"off", "opened", "checked", "leased", "bind", "serving", "exit", "close"}

TypeOK ==
    /\ path \in Inodes \cup {NoInode}
    /\ lock \in [Inodes -> Daemons \cup {NoDaemon}]
    /\ file \in [Daemons -> Inodes \cup {NoInode}]
    /\ socket \in Daemons \cup {NoDaemon}
    /\ pc \in [Daemons -> Labels]

Init ==
    /\ path = NoInode /\ lock = [i \in Inodes |-> NoDaemon]
    /\ file = [d \in Daemons |-> NoInode] /\ socket = NoDaemon
    /\ pc = [d \in Daemons |-> "off"]

Goto(d, from, to) == pc[d] = from /\ pc' = [pc EXCEPT ![d] = to]

\* A file that no path and no process refers to is gone; its name stands for a new one.
Unused(i) == i # path /\ \A d \in Daemons : file[d] # i

\* The process ends: the kernel closes its file and with it releases the lock.
Ended(d) ==
    /\ pc' = [pc EXCEPT ![d] = "off"]
    /\ file' = [file EXCEPT ![d] = NoInode]
    /\ lock' = [i \in Inodes |-> IF lock[i] = d THEN NoDaemon ELSE lock[i]]

----------------------------------------------------------------------------
\* open with O_CREAT
Open(d) ==
    /\ Goto(d, "off", "opened")
    /\ \E i \in Inodes :
        /\ IF path = NoInode THEN Unused(i) ELSE i = path
        /\ path' = i /\ file' = [file EXCEPT ![d] = i]
    /\ UNCHANGED <<lock, socket>>

\* The link count: a file that was removed since it was opened is refused.
Check(d) ==
    /\ file[d] = path
    /\ Goto(d, "opened", "checked")
    /\ UNCHANGED <<path, lock, file, socket>>

CheckFails(d) ==
    /\ pc[d] = "opened" /\ file[d] # path
    /\ Ended(d) /\ UNCHANGED <<path, socket>>

\* flock with LOCK_NB
Lease(d) ==
    /\ Goto(d, "checked", "leased") /\ lock[file[d]] = NoDaemon
    /\ lock' = [lock EXCEPT ![file[d]] = d]
    /\ UNCHANGED <<path, file, socket>>

AlreadyHeld(d) ==
    /\ pc[d] = "checked" /\ lock[file[d]] # NoDaemon
    /\ Ended(d) /\ UNCHANGED <<path, socket>>

\* bind removes what the path names, then binds; it fails if someone was faster.
RemoveStale(d) ==
    /\ Goto(d, "leased", "bind")
    /\ socket' = NoDaemon
    /\ UNCHANGED <<path, lock, file>>

Bind(d) ==
    /\ socket = NoDaemon
    /\ Goto(d, "bind", "serving")
    /\ socket' = d
    /\ UNCHANGED <<path, lock, file>>

BindFails(d) ==
    /\ socket # NoDaemon
    /\ Goto(d, "bind", "exit")
    /\ UNCHANGED <<path, lock, file, socket>>

\* The end of run removes the socket.
Leave(d) ==
    /\ Goto(d, "serving", "exit")
    /\ socket' = NoDaemon
    /\ UNCHANGED <<path, lock, file>>

\* PidFile::drop removes the path and closes the file afterwards.
RemovePid(d) ==
    /\ Goto(d, "exit", "close")
    /\ path' = NoInode
    /\ UNCHANGED <<lock, file, socket>>

Close(d) == pc[d] = "close" /\ Ended(d) /\ UNCHANGED <<path, socket>>

\* Killed: both paths stay.
Kill(d) == pc[d] # "off" /\ Ended(d) /\ UNCHANGED <<path, socket>>

----------------------------------------------------------------------------
Next ==
    \E d \in Daemons :
        \/ Open(d) \/ Check(d) \/ CheckFails(d) \/ Lease(d) \/ AlreadyHeld(d)
        \/ RemoveStale(d) \/ Bind(d) \/ BindFails(d)
        \/ Leave(d) \/ RemovePid(d) \/ Close(d) \/ Kill(d)

Spec == Init /\ [][Next]_vars

----------------------------------------------------------------------------
Leased == {"leased", "bind", "serving", "exit"}

\* One daemon at a time holds the lease: whoever removes the socket's path and
\* binds it anew, or opens the database as the only daemon, is alone.
OneDaemon ==
    \A d, e \in Daemons : pc[d] \in Leased /\ pc[e] \in Leased => d = e
=============================================================================
