----------------------------- MODULE DirectPath -----------------------------
(***************************************************************************)
(* The ways to an app: what the two nftables tables of guard.Ruleset and   *)
(* nat.Ruleset do with connections between machines, some with csa and     *)
(* some without, while csa starts, stops and is killed on them.            *)
(*                                                                         *)
(* A call is one flow an app keeps sending on.  It leaves a machine        *)
(* directly or into the tunnel; the kernel's connection tracking remembers *)
(* which, on both machines, until it forgets, and an answer that comes     *)
(* after that begins a flow anew.  What goes on inside the tunnel is       *)
(* PacketFilter's business: here it carries the permitted calls.  What     *)
(* comes from lo is accepted first of all and is left out.                 *)
(***************************************************************************)
EXTENDS Naturals

CONSTANTS
  Hosts,
  Csa,        \* the machines that run csa and are in peers.toml
  Addressed,  \* those whose entry in it has a real address
  Calls,      \* the flows apps may keep sending on
  Permitted,  \* those the policies of both ends permit
  Services,   \* Services[h]: the ports peers.toml lists for h
  Mode,       \* Mode[h]: guard.mode
  Keep,       \* Keep[h]: <<protocol, port>> of keep-tcp and keep-udp
  Steering,   \* the machines with nat.outgoing = services
  Presenting, \* the machines with nat.incoming = real-ip
  WGPort,
  None

Ways == {"direct", "tunnel"}
Call == [from : Hosts, to : Hosts, sport : Nat, dport : Nat,
         proto : {"tcp", "udp"}, by : {"real", "tunnel"}]

ASSUME PathAssumption ==
  /\ Csa \subseteq Hosts /\ Addressed \cup Steering \cup Presenting \subseteq Csa
  /\ Permitted \subseteq Calls /\ Calls \subseteq Call
  /\ \A c \in Calls : c.from # c.to /\ (c.by = "tunnel" => c.to \in Csa)
  /\ \A c \in Permitted : {c.from, c.to} \subseteq Csa
  /\ \A h \in Csa : Mode[h] \in {"services", "all", "off"}
  /\ \A h \in Csa : Mode[h] # "all" => Keep[h] = {}
  /\ \A h \in Csa : WGPort \notin Services[h]   \* validate.go:304-308

VARIABLES
  phase,   \* how far csa is on each machine
  guard,   \* whether the guard's table is in the kernel
  nat,     \* whether nat's is
  out,     \* what the caller's connection tracking has of a call, or None
  inn,     \* what the called machine's has, of a call by either way
  last     \* the packet sent last: a probe, for the properties

vars == <<phase, guard, nat, out, inn, last>>

Phases == {"down", "open", "guarded", "run", "unrewritten", "unguarded"}
----------------------------------------------------------------------------
(***************************************************************************)
(* The rules.                                                              *)
(***************************************************************************)

\* Mutant of Accepts: established connections are let in in every mode.
AcceptsEstablished(h, way, proto, dport, est) ==
  \/ ~ guard[h] \/ way = "tunnel" \/ est
  \/ proto = "udp" /\ dport = WGPort
  \/ IF Mode[h] = "all" THEN <<proto, dport>> \in Keep[h] ELSE dport \notin Services[h]

\* Mutant of Accepts: in the mode all, the ports of services are opened too.
AcceptsOwnPorts(h, way, proto, dport, est) ==
  \/ ~ guard[h] \/ way = "tunnel"
  \/ proto = "udp" /\ dport = WGPort
  \/ IF Mode[h] = "all" THEN est \/ <<proto, dport>> \in Keep[h] \/ dport \in Services[h]
                        ELSE dport \notin Services[h]

\* The input chain of guard.Ruleset.
Accepts(h, way, proto, dport, est) ==
  \/ ~ guard[h]
  \/ way = "tunnel"
  \/ proto = "udp" /\ dport = WGPort
  \/ IF Mode[h] = "all" THEN est \/ <<proto, dport>> \in Keep[h]
                        ELSE dport \notin Services[h]

\* Mutant of Steers: peers.toml lists no protocol, and only TCP is written.
SteersTCP(c) ==
  /\ nat[c.from] /\ c.from \in Steering /\ c.proto = "tcp"
  /\ c.by = "real" /\ c.to \in Addressed /\ c.dport \in Services[c.to]

\* Mutant of Steers: the table is one that lives and dies with the process.
SteersRunning(c) ==
  /\ nat[c.from] /\ c.from \in Steering /\ phase[c.from] # "down"
  /\ c.by = "real" /\ c.to \in Addressed /\ c.dport \in Services[c.to]

\* The output chain of nat.Ruleset: TCP and UDP, to a real address of a peer
\* and a port of its services.
Steers(c) ==
  /\ nat[c.from] /\ c.from \in Steering
  /\ c.by = "real" /\ c.to \in Addressed /\ c.dport \in Services[c.to]

\* The input chain: to the called app, the source of a connection from the
\* tunnel is the caller's real address.
Presents(c) == nat[c.to] /\ c.to \in Presenting /\ c.from \in Addressed
----------------------------------------------------------------------------
Nothing == [call |-> None, dir |-> "call", way |-> "direct", reached |-> FALSE]

Init ==
  /\ phase = [h \in Csa |-> "down"]
  /\ guard = [h \in Hosts |-> FALSE]
  /\ nat = [h \in Hosts |-> FALSE]
  /\ out = [c \in Calls |-> None]
  /\ inn = [cw \in Calls \X Ways |-> None]
  /\ last = Nothing

Running(h) == h \in Csa /\ phase[h] # "down"

\* What rules do to a packet is decided when the connection is new; from then
\* on tracking does it.
WayOf(c) ==
  IF out[c] # None THEN out[c].way
  ELSE IF c.by = "tunnel" \/ Steers(c) THEN "tunnel" ELSE "direct"

\* Without csa there is no route to a tunnel address.
Leaves(c, w) == w = "tunnel" => Running(c.from)

Carried(c, w) == w = "tunnel" => c \in Permitted /\ Running(c.from) /\ Running(c.to)

\* old: made while the table of nat was missing.
Left(c, w) ==
  IF out[c] # None THEN out ELSE [out EXCEPT ![c] = [way |-> w, old |-> ~ nat[c.from]]]

\* before: history, whether the call had left while the caller's nat was missing.
Entered(c, w) ==
  IF inn[<<c, w>>] # None THEN inn
  ELSE [inn EXCEPT ![<<c, w>>] = [est |-> FALSE, old |-> ~ guard[c.to],
                              before |-> Left(c, w)[c].old,
                              sees |-> IF w = "tunnel" /\ ~ Presents(c) THEN "tunnel" ELSE "real"]]

\* The caller's app sends.
Send(c) ==
  LET w == WayOf(c)
      est == inn[<<c, w>>] # None /\ inn[<<c, w>>].est
      reached == Carried(c, w) /\ Accepts(c.to, w, c.proto, c.dport, est)
  IN  /\ Leaves(c, w)
      /\ out' = Left(c, w)
      /\ inn' = IF reached THEN Entered(c, w) ELSE inn
      /\ last' = [call |-> c, dir |-> "call", way |-> w, reached |-> reached]
      /\ UNCHANGED <<phase, guard, nat>>

\* An answer to a call the caller's tracking has forgotten begins the flow
\* again, by the way it came: the call that follows has no first packet.  One
\* from the tunnel to a call that was steered is of no call the caller knows.
Remind(c, w) ==
  IF out[c] # None \/ (w = "tunnel" /\ c.by = "real") THEN out
  ELSE [out EXCEPT ![c] = [way |-> w, old |-> inn[<<c, w>>].before]]

\* The called app answers on the connection it was reached by, whether the
\* caller still knows it or calls by the other way since.
Answer(c, w) ==
  LET est == out[c] # None /\ out[c].way = w
      reached == Carried(c, w) /\ Accepts(c.from, w, c.proto, c.sport, est)
  IN  /\ inn[<<c, w>>] # None
      /\ w = "tunnel" => Running(c.to)
      /\ inn' = [inn EXCEPT ![<<c, w>>].est = TRUE]
      /\ out' = IF reached THEN Remind(c, w) ELSE out
      /\ last' = [call |-> c, dir |-> "answer", way |-> w, reached |-> reached]
      /\ UNCHANGED <<phase, guard, nat>>

\* Connection tracking forgets a connection that has been silent.
Forget(c) ==
  /\ \/ out[c] # None /\ out' = [out EXCEPT ![c] = None] /\ UNCHANGED inn
     \/ \E w \in Ways : inn[<<c, w>>] # None /\ inn' = [inn EXCEPT ![<<c, w>>] = None] /\ UNCHANGED out
  /\ last' = Nothing
  /\ UNCHANGED <<phase, guard, nat>>
----------------------------------------------------------------------------
(***************************************************************************)
(* csa on one machine: the device is opened, then the guard's table is     *)
(* put up, then nat's; they are taken down in the opposite order.          *)
(***************************************************************************)
Goto(h, from, to) ==
  /\ phase[h] = from
  /\ phase' = [phase EXCEPT ![h] = to]
  /\ last' = Nothing
  /\ UNCHANGED <<out, inn>>

Set(table, h, on) == [table EXCEPT ![h] = on]

Empty(h) == h \notin Steering /\ h \notin Presenting

Step(h) ==
  \/ Goto(h, "down", "open") /\ UNCHANGED <<guard, nat>>
  \/ Goto(h, "open", "guarded") /\ guard' = Set(guard, h, Mode[h] # "off") /\ UNCHANGED nat
  \/ Goto(h, "guarded", "run") /\ nat' = Set(nat, h, ~ Empty(h)) /\ UNCHANGED guard
  \/ Goto(h, "run", "unrewritten") /\ nat' = Set(nat, h, FALSE) /\ UNCHANGED guard
  \/ Goto(h, "unrewritten", "unguarded") /\ guard' = Set(guard, h, FALSE) /\ UNCHANGED nat
  \/ Goto(h, "unguarded", "down") /\ UNCHANGED <<guard, nat>>

\* SIGKILL, or a stop that keeps the tables: what is in the kernel stays.
Kill(h) ==
  /\ phase[h] # "down"
  /\ phase' = [phase EXCEPT ![h] = "down"]
  /\ last' = Nothing
  /\ UNCHANGED <<guard, nat, out, inn>>

Next ==
  \/ \E c \in Calls : Send(c) \/ Forget(c) \/ \E w \in Ways : Answer(c, w)
  \/ \E h \in Csa : Step(h) \/ Kill(h)

Spec == Init /\ [][Next]_vars
----------------------------------------------------------------------------
TypeOK ==
  /\ phase \in [Csa -> Phases]
  /\ guard \in [Hosts -> BOOLEAN] /\ nat \in [Hosts -> BOOLEAN]
  /\ out \in [Calls -> [way : Ways, old : BOOLEAN] \cup {None}]
  /\ inn \in [Calls \X Ways -> [est : BOOLEAN, old : BOOLEAN, before : BOOLEAN, sees : {"real", "tunnel"}] \cup {None}]
  /\ last \in [call : Calls \cup {None}, dir : {"call", "answer"}, way : Ways, reached : BOOLEAN]

ToService(c) == c.to \in Csa /\ c.dport \in Services[c.to]

Called == last.call # None /\ last.dir = "call"

(***************************************************************************)
(* While the guard's table is in place, also that of a csa that was        *)
(* killed, a call reaches a service directly only where guard.go:103-108   *)
(* says so: in the mode all, on a connection made before the table was     *)
(* there, or at a port the operator keeps open.                            *)
(***************************************************************************)
ServicesClosed ==
  LET c == last.call
  IN  Called /\ last.reached /\ last.way = "direct" /\ ToService(c) /\ guard[c.to] =>
        /\ Mode[c.to] = "all"
        /\ inn[<<c, "direct">>].old \/ <<c.proto, c.dport>> \in Keep[c.to]

\* nat's table of the caller is to turn this call.
ToSteer(c) == c.from \in Steering /\ c.to \in Addressed /\ c.dport \in Services[c.to]

(***************************************************************************)
(* While nat's table is in place, a call to a service of a peer that has a *)
(* real address in peers.toml does not leave this machine directly         *)
(* (design/README.md:285, 534), but on a connection made before (:330),    *)
(* be it one that only the service's answers still know: also not while    *)
(* the peer's csa is down and its ports are open.                          *)
(***************************************************************************)
FailsClosed ==
  LET c == last.call
  IN  Called /\ last.way = "direct" /\ nat[c.from] /\ ToSteer(c) => out[c].old

\* Tracking has the call by the direct way, on this machine or that.
KnownDirect(c) ==
  (out[c] # None /\ out[c].way = "direct") \/ inn[<<c, "direct">>] # None

(***************************************************************************)
(* Once both machines have forgotten such a connection, none of them       *)
(* begins it again while nat's table is in place: what csa leaves alone of *)
(* the connections made before (design/README.md:330) ends by itself.      *)
(***************************************************************************)
ForgottenForGood ==
  [][\A c \in Calls : nat[c.from] /\ ToSteer(c) /\ ~ KnownDirect(c) => ~ KnownDirect(c)']_vars
----------------------------------------------------------------------------
(***************************************************************************)
(* What the documents say and the code does not do.                        *)
(***************************************************************************)

(***************************************************************************)
(* The answer on a connection this machine made directly, and still knows, *)
(* comes in, whatever the mode and the port (design/README.md:425).        *)
(***************************************************************************)
AllAnswersPass ==
  LET c == last.call
  IN  /\ c # None /\ last.dir = "answer" /\ last.way = "direct"
      /\ out[c] # None /\ out[c].way = "direct"
      => last.reached

(***************************************************************************)
(* What an app sees of a call through the tunnel is the caller's real      *)
(* address (design/README.md:365).                                         *)
(***************************************************************************)
SeenByRealIP ==
  \A c \in Calls : c.to \in Presenting /\ inn[<<c, "tunnel">>] # None =>
    inn[<<c, "tunnel">>].sees = "real"
=============================================================================
