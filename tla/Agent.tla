------------------------------- MODULE Agent -------------------------------
(***************************************************************************)
(* The life of csa run on one machine (cmd/csa/main.go): it starts, serves *)
(* the control socket (internal/control), reloads its configuration and    *)
(* stops; its process may be killed, and the nftables tables it made       *)
(* outlive it.                                                             *)
(*                                                                         *)
(* The main goroutine is one process.  control.serve answers every request *)
(* in a goroutine of its own and nothing serialises them, so every reload  *)
(* in progress is a process too: a client that gives up after its five     *)
(* seconds leaves one behind.  A step is one call that changes shared      *)
(* state: an atomic load or store, one IpcSet, one nft command.            *)
(*                                                                         *)
(* A version is one content of the three configuration files.              *)
(***************************************************************************)
EXTENDS NftTable, FiniteSets

CONSTANTS
  Versions,
  Valid,      \* those config.Load reads and Validate accepts
  Builds,     \* those newSnapshot and policy.New accept
  SelfOf,     \* what cannot change while csa runs: csa.toml and its own peer
  Sense,      \* what config.Diff compares; comments and order are not in it
  WgOf,       \* the peers and keys wg is given
  Wants,      \* the ruleset of each gate
  Handlers,   \* the reloads that can be in progress at once
  NoVersion, NoWg,
  Torn        \* a wg that holds a part of one version and a part of another

Gates == {"guard", "nat"}

ASSUME AgentAssumption ==
  /\ Valid \subseteq Versions /\ Builds \subseteq Versions
  /\ Wants \in [Gates -> [Versions -> Rulesets \cup {NoTable}]]
  /\ NoVersion \notin Versions
  /\ NoTable \notin Rulesets
  /\ \A v \in Versions : WgOf[v] \notin {Torn, NoWg}
  /\ \A v, w \in Versions :
       /\ Sense[v] = Sense[w] =>
            /\ SelfOf[v] = SelfOf[w] /\ WgOf[v] = WgOf[w]
            /\ v \in Builds <=> w \in Builds
            /\ \A g \in Gates : Wants[g][v] = Wants[g][w]
       /\ SelfOf[v] = SelfOf[w] =>
            \A g \in Gates : Wants[g][v] = NoTable <=> Wants[g][w] = NoTable

VARIABLES
  disk,     \* the version the files hold
  main,     \* where runRun is
  live,     \* the configuration csa follows
  wg,       \* what wg holds
  policy,   \* the version of filter.rules
  snap,     \* the version of Device.snap
  objs,     \* the Guard and the NAT
  tables,   \* the kernel's tables
  hd,       \* the reloads in progress
  mixed,    \* errMixed: "no", "soon" while its goroutine sleeps, "sent"
  ended     \* history: how the last process ended

vars == <<disk, main, live, wg, policy, snap, objs, tables, hd, mixed, ended>>
device == <<wg, policy, snap>>
gates == <<objs, tables>>

Idle == [pc |-> "idle", cur |-> NoVersion, old |-> NoVersion, was |-> NoVersion,
         undo |-> FALSE, failed |-> FALSE]

Init ==
  /\ disk \in Versions
  /\ main = "down"
  /\ live = NoVersion
  /\ wg = NoWg /\ policy = NoVersion /\ snap = NoVersion
  /\ objs = [g \in Gates |-> New]
  /\ tables = [g \in Gates |-> NoTable]
  /\ hd = [h \in Handlers |-> Idle]
  /\ mixed = "no"
  /\ ended = "never ran"

----------------------------------------------------------------------------
\* The operator, or a program that places configurations, writes the files.
Edit(v) ==
  /\ v # disk
  /\ disk' = v
  /\ UNCHANGED <<main, live, device, gates, hd, mixed, ended>>

----------------------------------------------------------------------------
(***************************************************************************)
(* runRun.                                                                 *)
(***************************************************************************)

\* The files are read, wg and the TUN interface are set up.  A failure here
\* ends the program with nothing changed.
Open ==
  /\ main = "down"
  /\ disk \in Valid \cap Builds
  /\ main' = "guard"
  /\ live' = disk
  /\ wg' = WgOf[disk] /\ policy' = disk /\ snap' = disk
  /\ ended' = "running"
  /\ UNCHANGED <<disk, gates, hd, mixed>>

\* gd.Apply and nt.Apply; the deferred calls undo what is already done.
StartGate(g) ==
  /\ main = g
  /\ \E r \in Applied(objs[g], tables[g], Wants[g][live]) :
       /\ objs' = [objs EXCEPT ![g] = r.obj]
       /\ tables' = [tables EXCEPT ![g] = r.table]
       /\ main' = CASE g = "guard" /\ r.ok   -> "nat"
                    [] g = "guard" /\ ~ r.ok -> "exit"
                    [] g = "nat" /\ r.ok     -> "listen"
                    [] g = "nat" /\ ~ r.ok   -> "close guard"
       /\ ended' = IF r.ok THEN ended ELSE "failed"
  /\ UNCHANGED <<disk, live, device, hd, mixed>>

\* control.Listen; another process may hold the socket.
Listen ==
  /\ main = "listen"
  /\ \/ main' = "wait" /\ UNCHANGED ended
     \/ main' = "close nat" /\ ended' = "failed"
  /\ UNCHANGED <<disk, live, device, gates, hd, mixed>>

\* waitStop: SIGTERM or SIGINT ...
Stop ==
  /\ main = "wait"
  /\ main' = "close socket"
  /\ ended' = "stopped"
  /\ UNCHANGED <<disk, live, device, gates, hd, mixed>>

\* Mutant of StopMixed: it keeps the tables and waits on.
StopMixedGoesOn ==
  /\ main = "wait"
  /\ mixed = "sent"
  /\ objs' = [g \in Gates |-> Kept(objs[g])]
  /\ UNCHANGED <<disk, main, live, device, tables, hd, mixed, ended>>

\* ... or the reload that could not be undone: both tables are kept.
StopMixed ==
  /\ main = "wait"
  /\ mixed = "sent"
  /\ objs' = [g \in Gates |-> Kept(objs[g])]
  /\ main' = "close socket"
  /\ ended' = "mixed"
  /\ UNCHANGED <<disk, live, device, tables, hd, mixed>>

\* The deferred calls, in their order.  Reloads in progress go on.
CloseSocket ==
  /\ main = "close socket"
  /\ main' = "close nat"
  /\ UNCHANGED <<disk, live, device, gates, hd, mixed, ended>>

CloseGate(g) ==
  /\ main = CASE g = "nat" -> "close nat" [] g = "guard" -> "close guard"
  /\ \E r \in Closed(objs[g], tables[g]) :
       /\ objs' = [objs EXCEPT ![g] = r.obj]
       /\ tables' = [tables EXCEPT ![g] = r.table]
       /\ ended' = IF r.ok THEN ended ELSE "undeleted"
  /\ main' = IF g = "nat" THEN "close guard" ELSE "exit"
  /\ UNCHANGED <<disk, live, device, hd, mixed>>

\* What the process held is gone; the kernel's tables are not.
Gone ==
  /\ main' = "down"
  /\ live' = NoVersion
  /\ wg' = NoWg /\ policy' = NoVersion /\ snap' = NoVersion
  /\ objs' = [g \in Gates |-> New]
  /\ hd' = [h \in Handlers |-> Idle]
  /\ mixed' = "no"
  /\ UNCHANGED <<disk, tables>>

\* dev.Close, and the program ends with every goroutine it still has.
Exit == main = "exit" /\ Gone /\ UNCHANGED ended

\* SIGKILL.
Kill == main # "down" /\ Gone /\ ended' = "killed"

\* SIGTERM before signal.Notify: the default action ends the process.
StopEarly ==
  /\ main \in {"guard", "nat", "listen"}
  /\ Gone
  /\ ended' = "stopped early"

----------------------------------------------------------------------------
(***************************************************************************)
(* reload, back and rollback, in a goroutine of the control socket.  cur   *)
(* is the version it read; old the version in force when it began to apply *)
(* cur, and the one a failure goes back to (undo); was is Device.Reload's. *)
(***************************************************************************)
Serving == main \in {"wait", "close socket"}
Running == main # "down"

Target(h) == IF hd[h].undo THEN hd[h].old ELSE hd[h].cur

At(h, l) == Running /\ hd[h].pc = l
Goto(h, l) == hd' = [hd EXCEPT ![h].pc = l]
Return(h) == hd' = [hd EXCEPT ![h] = Idle]
Quiet(h) == hd[h].pc \in {"idle", "accepted"}

\* Mutant of Fail: a failure while going back starts going back anew.
FailRetries(h, next) ==
  hd' = [hd EXCEPT ![h] = [hd[h] EXCEPT !.undo = TRUE, !.pc = "was"]]

\* An error of a step: going forward it turns the reload back; going back it
\* is noted, and the remaining steps are taken all the same.
Fail(h, next) ==
  hd' = [hd EXCEPT ![h] =
           IF hd[h].undo THEN [hd[h] EXCEPT !.failed = TRUE, !.pc = next]
                         ELSE [hd[h] EXCEPT !.undo = TRUE, !.pc = "was"]]

\* The socket accepts a connection, which may outlive the socket.
Accept(h) ==
  /\ Serving /\ hd[h].pc = "idle"
  /\ Goto(h, "accepted")
  /\ UNCHANGED <<disk, main, live, device, gates, mixed, ended>>

\* The request is read and then the files.  Files that are not valid are
\* refused with nothing changed; without a request in five seconds it ends.
Ask(h) ==
  /\ At(h, "accepted")
  /\ \/ /\ disk \in Valid
        /\ hd' = [hd EXCEPT ![h].pc = "compare", ![h].cur = disk]
     \/ Return(h)
  /\ UNCHANGED <<disk, main, live, device, gates, mixed, ended>>

\* Mutant of Compare: what needs a restart is applied with the rest.
CompareAnySelf(h) ==
  /\ At(h, "compare")
  /\ Goto(h, IF Sense[hd[h].cur] = Sense[live] THEN "answer" ELSE "check")
  /\ UNCHANGED <<disk, main, live, device, gates, mixed, ended>>

\* config.Diff with the configuration in force: nothing to do but to follow
\* the new files, not possible without a restart, or something to apply.
Compare(h) ==
  /\ At(h, "compare")
  /\ LET c == hd[h].cur
     IN  \/ Sense[c] = Sense[live] /\ Goto(h, "answer")
         \/ SelfOf[c] # SelfOf[live] /\ Return(h)
         \/ Sense[c] # Sense[live] /\ SelfOf[c] = SelfOf[live] /\ Goto(h, "check")
  /\ UNCHANGED <<disk, main, live, device, gates, mixed, ended>>

\* gd.Check and nt.Check; then the version in force is read once more.
Check(h) ==
  /\ At(h, "check")
  /\ \/ (\E g \in Gates : MayFailCheck(Wants[g][hd[h].cur])) /\ Return(h)
     \/ hd' = [hd EXCEPT ![h].pc = "was", ![h].old = live]
  /\ UNCHANGED <<disk, main, live, device, gates, mixed, ended>>

\* Device.Reload: what it needs is made before anything is touched.
ReadWas(h) ==
  /\ At(h, "was")
  /\ IF Target(h) \in Builds
     THEN hd' = [hd EXCEPT ![h].pc = "ipc", ![h].was = snap]
     ELSE Fail(h, "guard")
  /\ UNCHANGED <<disk, main, live, device, gates, mixed, ended>>

\* wg is given the difference from was to the target.  Without one it is not
\* called.  A wg that does not hold was may end up with a mixture; so may one
\* whose IpcSet fails on a later line.  What wg holds of a version is taken to
\* be what the version asks for; that a pre-shared key once given stays when the
\* file no longer has it is WgPeers' matter.
IpcSet(h) ==
  /\ At(h, "ipc")
  /\ LET from == WgOf[hd[h].was]
         to   == WgOf[Target(h)]
     IN  \/ from = to /\ Goto(h, "rules") /\ UNCHANGED wg
         \/ /\ from # to
            /\ wg' \in IF wg = from THEN {to} ELSE {to, Torn}
            /\ Goto(h, "rules")
         \/ from # to /\ wg' \in {wg, Torn} /\ Fail(h, "guard")
  /\ UNCHANGED <<disk, main, live, policy, snap, gates, mixed, ended>>

StoreRules(h) ==
  /\ At(h, "rules")
  /\ policy' = Target(h)
  /\ Goto(h, "snap")
  /\ UNCHANGED <<disk, main, live, wg, snap, gates, mixed, ended>>

StoreSnap(h) ==
  /\ At(h, "snap")
  /\ snap' = Target(h)
  /\ Goto(h, "guard")
  /\ UNCHANGED <<disk, main, live, wg, policy, gates, mixed, ended>>

After(g) == IF g = "guard" THEN "nat" ELSE "answer"

\* Mutant of ApplyGate: while going back, a failure is not noted.
ApplyGateForgives(h, g) ==
  /\ At(h, g)
  /\ \E r \in Applied(objs[g], tables[g], Wants[g][Target(h)]) :
       /\ objs' = [objs EXCEPT ![g] = r.obj]
       /\ tables' = [tables EXCEPT ![g] = r.table]
       /\ IF r.ok \/ hd[h].undo THEN Goto(h, After(g)) ELSE Fail(h, After(g))
  /\ UNCHANGED <<disk, main, live, device, mixed, ended>>

\* gd.Apply and nt.Apply of the target.
ApplyGate(h, g) ==
  /\ At(h, g)
  /\ \E r \in Applied(objs[g], tables[g], Wants[g][Target(h)]) :
       /\ objs' = [objs EXCEPT ![g] = r.obj]
       /\ tables' = [tables EXCEPT ![g] = r.table]
       /\ IF r.ok THEN Goto(h, After(g)) ELSE Fail(h, After(g))
  /\ UNCHANGED <<disk, main, live, device, mixed, ended>>

\* The reload is over: applied, undone, or neither.
Answer(h) ==
  /\ At(h, "answer")
  /\ live' = IF hd[h].undo THEN live ELSE hd[h].cur
  /\ mixed' = IF hd[h].failed /\ mixed = "no" THEN "soon" ELSE mixed
  /\ Return(h)
  /\ UNCHANGED <<disk, main, device, gates, ended>>

\* The goroutine that gave the client 300 ms to read the answer.
Signal ==
  /\ mixed = "soon"
  /\ mixed' = "sent"
  /\ UNCHANGED <<disk, main, live, device, gates, hd, ended>>

----------------------------------------------------------------------------
Main == \/ Open \/ Listen \/ CloseSocket \/ Exit
        \/ \E g \in Gates : StartGate(g) \/ CloseGate(g)

Reload(h) == \/ Ask(h) \/ Compare(h) \/ Check(h) \/ ReadWas(h)
             \/ IpcSet(h) \/ StoreRules(h) \/ StoreSnap(h) \/ Answer(h)
             \/ \E g \in Gates : ApplyGate(h, g)

Next == \/ Main \/ Stop \/ StopMixed \/ StopEarly \/ Kill \/ Signal
        \/ \E v \in Versions : Edit(v)
        \/ \E h \in Handlers : Accept(h) \/ Reload(h)

Spec == Init /\ [][Next]_vars

\* What the Go scheduler and nft do in the end: a goroutine that can go on
\* does, and an nft command returns.  Nobody has to start, stop or ask csa.
Proceed == \/ Listen \/ CloseSocket \/ Exit
           \/ \E g \in Gates : StartGate(g) \/ CloseGate(g)

Fairness == /\ WF_vars(Proceed) /\ WF_vars(StopMixed) /\ WF_vars(Signal)
            /\ \A h \in Handlers : WF_vars(Reload(h))

FairSpec == Spec /\ Fairness
----------------------------------------------------------------------------
\* The values every variable keeps.
TypeOK ==
  /\ disk \in Versions
  /\ main \in {"down", "guard", "nat", "listen", "wait", "close socket",
               "close nat", "close guard", "exit"}
  /\ {live, policy, snap} \subseteq
       IF Running THEN Valid \cap Builds ELSE {NoVersion}
  /\ wg \in IF Running THEN {WgOf[v] : v \in Versions} \cup {Torn} ELSE {NoWg}
  /\ objs \in [Gates -> Object]
  /\ tables \in [Gates -> Rulesets \cup {NoTable}]
  /\ hd \in [Handlers ->
       [pc : {"idle", "accepted", "compare", "check", "was", "ipc", "rules",
              "snap", "guard", "nat", "answer"},
        cur : Valid \cup {NoVersion}, old : Versions \cup {NoVersion},
        was : Versions \cup {NoVersion}, undo : BOOLEAN, failed : BOOLEAN]]
  /\ mixed \in {"no", "soon", "sent"}
  /\ ended \in {"never ran", "running", "failed", "stopped", "mixed",
                "undeleted", "killed", "stopped early"}

(***************************************************************************)
(* csa enforces what csa status says it follows (main.go:444-449): while   *)
(* it runs and no reload is in progress, the policy, wg and both tables    *)
(* are those of the configuration in force.  Two things are excused: a wg  *)
(* that an IpcSet failed on, and a table nobody could look for, which      *)
(* status tells (Guard.Unchecked).                                         *)
(***************************************************************************)
StatusIsTrue ==
  main = "wait" /\ mixed = "no" /\ (\A h \in Handlers : Quiet(h)) =>
    /\ Sense[policy] = Sense[live] /\ Sense[snap] = Sense[live]
    /\ wg \in {WgOf[live], Torn}
    /\ \A g \in Gates : \/ tables[g] = Wants[g][live]
                        \/ Wants[g][live] = NoTable /\ objs[g].unchecked

(***************************************************************************)
(* A configured table is never missing from the moment csa serves until it *)
(* is stopped on purpose: not during a reload, not after one that failed   *)
(* half-way, and not while csa stops because it could not undo one         *)
(* (main.go:247-252, guard.go:305-310).                                    *)
(***************************************************************************)
PortsStayClosed ==
  Serving \/ (Running /\ ended = "mixed") =>
    \A g \in Gates : Wants[g][live] # NoTable => tables[g] # NoTable

(***************************************************************************)
(* What cannot change without a restart never does, not even in part: the  *)
(* policy, the snapshot and the configuration in force keep the csa.toml   *)
(* and the identity csa started with (main.go:393-400).                    *)
(***************************************************************************)
SelfStays ==
  [][Running /\ Running' =>
       \A v \in {live', policy', snap'} : SelfOf[v] = SelfOf[live]]_vars

(***************************************************************************)
(* A standing table disappears for two reasons only: a csa whose           *)
(* configuration wants none found it, or the csa that put it up ends, on   *)
(* purpose or because it could not start, and not because it was left      *)
(* half-way.  A failed reload, an end by a signal nobody handles, and a    *)
(* start that has to replace a table left by an earlier csa never open the *)
(* ports in between (main.go:176-187, guard.go:191-239, 312-327).  The     *)
(* second reason includes the start that fails after it replaced the table *)
(* a kept stop had left.                                                   *)
(***************************************************************************)
OpensForCause ==
  [][\A g \in Gates :
       tables[g] # NoTable /\ tables'[g] = NoTable =>
         \/ Wants[g][live] = NoTable
         \/ /\ main = IF g = "nat" THEN "close nat" ELSE "close guard"
            /\ objs[g].on
            /\ ended \in {"stopped", "failed", "undeleted"}]_vars

(***************************************************************************)
(* A reload that could not be undone stops csa (main.go:242-255): from the *)
(* answer that says so it comes, through the 300 ms, the wait and the      *)
(* deferred calls, to its end.                                             *)
(***************************************************************************)
MixedStops == mixed # "no" ~> main = "down"

(***************************************************************************)
(* Every reload comes to its answer, or ends with the process.             *)
(***************************************************************************)
ReloadsReturn == \A h \in Handlers : hd[h].pc # "idle" ~> hd[h].pc = "idle"

----------------------------------------------------------------------------
(***************************************************************************)
(* What the documents say and the code does not do.                        *)
(***************************************************************************)

(***************************************************************************)
(* A reload that reports "went back to the configuration in force"         *)
(* (main.go:471-474) has: wg too.                                          *)
(***************************************************************************)
RevertedIsWhole ==
  \A h \in Handlers :
    Running /\ hd[h].pc = "answer" /\ hd[h].undo /\ ~ hd[h].failed =>
      wg = WgOf[hd[h].old]

(***************************************************************************)
(* When csa stops, the deferred calls delete its tables (main.go:233-236). *)
(***************************************************************************)
StopRemovesTables ==
  main = "down" /\ ended = "stopped" => \A g \in Gates : tables[g] = NoTable

(***************************************************************************)
(* A table outlives the csa that made it in two places only: a stop after  *)
(* a reload that could not be undone, and SIGKILL (design/README.md:441).  *)
(* A delete that nft refused is logged and not counted here.               *)
(***************************************************************************)
LeftInTwoPlaces ==
  [][Running /\ main' = "down" /\ (\E g \in Gates : objs[g].on /\ tables[g] # NoTable) =>
       ended' \in {"mixed", "killed", "undeleted"}]_vars
============================================================================
