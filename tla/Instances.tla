------------------------------ MODULE Instances ------------------------------
(***************************************************************************)
(* Several csa run on one machine: what they share, and the order in which *)
(* each takes it and gives it back (cmd/csa/main.go:runRun, wgdev.Open,    *)
(* control.Listen).  The control socket is named after the peer-id, the    *)
(* TUN interface after csa.toml, and the nftables tables have one name in  *)
(* the network namespace.                                                  *)
(*                                                                         *)
(* The kernel gives a TUN interface to one process and takes it back when  *)
(* the process ends, however it ends.  The socket's file and the tables    *)
(* outlive a process that is killed.  A step is one system call, or one    *)
(* Apply or Close of a table; every call may fail, and where an error is   *)
(* not looked at the step after it is taken all the same.                  *)
(*                                                                         *)
(* Agent looks at one csa, its tables and its reloads; here a table only   *)
(* has an owner, every csa has both to put up, and nothing is reloaded.    *)
(***************************************************************************)
CONSTANTS Procs,      \* csa run, each started any number of times
          TunOf,      \* the interface each asks for
          SocketOf,   \* the path of its control socket
          TableOf,    \* the tables of its network namespace
          Nobody,     \* no interface, no file, no table
          Dead        \* the owner of what a killed process left

Tuns    == {TunOf[p] : p \in Procs}
Sockets == {SocketOf[p] : p \in Procs}
Kinds   == {"guard", "nat"}
Tables  == {TableOf[p] : p \in Procs} \X Kinds

ASSUME InstancesAssumption ==
  /\ DOMAIN TunOf = Procs /\ DOMAIN SocketOf = Procs /\ DOMAIN TableOf = Procs
  /\ Nobody \notin Procs /\ Dead \notin Procs /\ Nobody # Dead

VARIABLES
  pc,      \* where each process is
  tun,     \* who holds each interface
  table,   \* who put up each table that stands
  file     \* who bound each socket file

vars == <<pc, tun, table, file>>

Init ==
  /\ pc = [p \in Procs |-> "down"]
  /\ tun = [t \in Tuns |-> Nobody]
  /\ table \in [Tables -> {Nobody, Dead}]
  /\ file \in [Sockets -> {Nobody, Dead}]

Goto(p, l) == pc' = [pc EXCEPT ![p] = l]

\* A process that listens on the socket it bound, whatever is at the path.
Listening(p) == pc[p] \in {"chmod", "serve"}

----------------------------------------------------------------------------
\* Mutant of Open: an interface that is in use is joined.
OpenShared(p) ==
  /\ pc[p] = "down"
  /\ tun' = [tun EXCEPT ![TunOf[p]] = p]
  /\ Goto(p, "guard")
  /\ UNCHANGED <<table, file>>

\* wgdev.Open: before the TUN interface is there, nothing is touched.  Where
\* another process holds it csa run ends here.
Open(p) ==
  /\ pc[p] = "down"
  /\ tun[TunOf[p]] = Nobody
  /\ tun' = [tun EXCEPT ![TunOf[p]] = p]
  /\ Goto(p, "guard")
  /\ UNCHANGED <<table, file>>

\* gd.Apply, then nt.Apply: each replaces what stands under its name, or
\* fails and touches nothing.  A start that fails undoes what it had done.
PutUp(p, k) ==
  /\ pc[p] = k
  /\ \/ /\ table' = [table EXCEPT ![<<TableOf[p], k>>] = p]
        /\ Goto(p, IF k = "guard" THEN "nat" ELSE "stat")
     \/ /\ Goto(p, IF k = "guard" THEN "release" ELSE "drop guard")
        /\ UNCHANGED table
  /\ UNCHANGED <<tun, file>>

\* control.Listen: is there a file at the path?  Without the directory there
\* is no socket; a Stat that fails says that there is no file.
Stat(p) ==
  /\ pc[p] = "stat"
  /\ \/ file[SocketOf[p]] # Nobody /\ Goto(p, "dial")
     \/ \E l \in {"bind", "drop nat"} : Goto(p, l)
  /\ UNCHANGED <<tun, table, file>>

\* stale: who listens may answer.  Where nobody did, the file is removed.
Dial(p) ==
  /\ pc[p] = "dial"
  /\ \E answered \in BOOLEAN :
       /\ answered => \E q \in Procs : file[SocketOf[p]] = q /\ Listening(q)
       /\ Goto(p, IF answered THEN "bind" ELSE "remove")
  /\ UNCHANGED <<tun, table, file>>

\* Mutant of Remove: it dials again until the file is gone.
RemoveRetries(p) ==
  /\ pc[p] = "remove"
  /\ \/ file' = [file EXCEPT ![SocketOf[p]] = Nobody] /\ Goto(p, "bind")
     \/ Goto(p, "dial") /\ UNCHANGED file
  /\ UNCHANGED <<tun, table>>

\* os.Remove, whose error nobody looks at.
Remove(p) ==
  /\ pc[p] = "remove"
  /\ file' \in {file, [file EXCEPT ![SocketOf[p]] = Nobody]}
  /\ Goto(p, "bind")
  /\ UNCHANGED <<tun, table>>

\* net.Listen: from here on others connect, and wait to be accepted.  It
\* fails where there is a file, and may fail where there is none.
Bind(p) ==
  /\ pc[p] = "bind"
  /\ \/ /\ file[SocketOf[p]] = Nobody
        /\ file' = [file EXCEPT ![SocketOf[p]] = p]
        /\ Goto(p, "chmod")
     \/ Goto(p, "drop nat") /\ UNCHANGED file
  /\ UNCHANGED <<tun, table>>

\* A socket whose file cannot be made the owner's own is closed again.
Chmod(p) ==
  /\ pc[p] = "chmod"
  /\ \/ Goto(p, "serve") /\ UNCHANGED file
     \/ /\ file' = [file EXCEPT ![SocketOf[p]] = Nobody]
        /\ Goto(p, "drop nat")
  /\ UNCHANGED <<tun, table>>

\* Mutant of CloseSocket: the interface is given back first.
CloseSocketLate(p) ==
  /\ pc[p] = "serve"
  /\ tun' = [tun EXCEPT ![TunOf[p]] = Nobody]
  /\ Goto(p, "drop nat")
  /\ UNCHANGED <<table, file>>

\* waitStop returns.  ctl.Close unlinks the path, whatever is there.
CloseSocket(p) ==
  /\ pc[p] = "serve"
  /\ file' = [file EXCEPT ![SocketOf[p]] = Nobody]
  /\ Goto(p, "drop nat")
  /\ UNCHANGED <<tun, table>>

\* nt.Close, then gd.Close: each deletes the table of its name, leaves it
\* on purpose (Keep), or fails to delete it.
TakeDown(p, k) ==
  /\ pc[p] = IF k = "guard" THEN "drop guard" ELSE "drop nat"
  /\ table' \in {table, [table EXCEPT ![<<TableOf[p], k>>] = Nobody]}
  /\ Goto(p, IF k = "guard" THEN "release" ELSE "drop guard")
  /\ UNCHANGED <<tun, file>>

\* What it leaves behind has no living owner.
Orphaned(p, f) == [x \in DOMAIN f |-> IF f[x] = p THEN Dead ELSE f[x]]

\* The process is gone: the kernel closes its interface and its socket.
Gone(p) ==
  /\ Goto(p, "down")
  /\ tun' = [t \in Tuns |-> IF tun[t] = p THEN Nobody ELSE tun[t]]
  /\ table' = Orphaned(p, table)
  /\ file' = Orphaned(p, file)

\* dev.Close is the last of the deferred calls.
Release(p) == pc[p] = "release" /\ Gone(p)

\* SIGKILL, or a signal before signal.Notify.
Kill(p) == pc[p] # "down" /\ Gone(p)

Starting(p) == \/ \E k \in Kinds : PutUp(p, k)
               \/ Stat(p) \/ Dial(p) \/ Remove(p) \/ Bind(p) \/ Chmod(p)
Ending(p) == (\E k \in Kinds : TakeDown(p, k)) \/ Release(p)

Next == \E p \in Procs :
          Open(p) \/ Starting(p) \/ CloseSocket(p) \/ Ending(p) \/ Kill(p)

Spec == Init /\ [][Next]_vars

\* A process that has begun goes on.  Nobody has to start or stop one.
FairSpec == Spec /\ \A p \in Procs : WF_vars(Starting(p) \/ Ending(p))
----------------------------------------------------------------------------
\* The values every variable keeps.
TypeOK ==
  /\ pc \in [Procs -> {"down", "guard", "nat", "stat", "dial", "remove",
                       "bind", "chmod", "serve", "drop nat", "drop guard",
                       "release"}]
  /\ tun \in [Tuns -> Procs \cup {Nobody}]
  /\ table \in [Tables -> Procs \cup {Nobody, Dead}]
  /\ file \in [Sockets -> Procs \cup {Nobody, Dead}]

(***************************************************************************)
(* Processes that share a socket or the tables share the TUN interface:    *)
(* one configuration directory, started more than once.                    *)
(***************************************************************************)
SameConfig ==
  \A p, q \in Procs :
    SocketOf[p] = SocketOf[q] \/ TableOf[p] = TableOf[q] => TunOf[p] = TunOf[q]

(***************************************************************************)
(* A csa that serves is the one csa status and csa reload reach: the file  *)
(* at its path is the socket it bound, however others start, fail, stop    *)
(* and die around it (control.go:38-78; the removal of a stale file and    *)
(* the unlink of Close act on the path, not on the socket).                *)
(***************************************************************************)
SocketIsServed == \A p \in Procs : Listening(p) => file[SocketOf[p]] = p

(***************************************************************************)
(* A csa has each table it put up until it takes it down itself: another   *)
(* csa that starts, fails to start, stops or dies neither replaces nor     *)
(* deletes one (main.go:172-187 opens the interface first and gives it     *)
(* back last).                                                             *)
(***************************************************************************)
TablesAreHeld ==
  \A p \in Procs, k \in Kinds :
    pc[p] \in {"stat", "dial", "remove", "bind", "chmod", "serve", "drop nat"}
             \cup (IF k = "guard" THEN {"nat", "drop guard"} ELSE {}) =>
      table[<<TableOf[p], k>>] = p

(***************************************************************************)
(* With the interface in hand a start meets, and os.Remove removes, only   *)
(* what a dead csa left: no socket of one that lives is at the path, also  *)
(* where Stat, Dial or Remove failed (control.go:42-49, 59-71).            *)
(***************************************************************************)
OnlyDeadAtPath ==
  \A p \in Procs :
    pc[p] \in {"guard", "nat", "stat", "dial", "remove", "bind"} =>
      file[SocketOf[p]] \in {Nobody, Dead}

(***************************************************************************)
(* Every start and every stop comes to its end: csa serves, or it is gone  *)
(* and its interface with it.                                              *)
(***************************************************************************)
StartsEnd ==
  \A p \in Procs : pc[p] \notin {"down", "serve"} ~>
    pc[p] = "serve" \/ (pc[p] = "down" /\ tun[TunOf[p]] # p)
=============================================================================
