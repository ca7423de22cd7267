------------------------------- MODULE Config -------------------------------
(***************************************************************************)
(* The configuration (internal/config) and what csa makes of it: the       *)
(* checks of validate.go, the comparison of diff.go, policy.New, and the   *)
(* values main.go and wgdev take out of it for wg and both nftables        *)
(* tables.  The state machine is csa reload seen from the configuration:   *)
(* what the files hold, what csa says it follows, and what it enforces.    *)
(*                                                                         *)
(* Syntax is left out: a value is read, or is Unreadable.  Orders that     *)
(* change no verdict and no rule are left out too.  An address is one of   *)
(* Places, whether it is inside the tunnel or outside.                     *)
(***************************************************************************)
EXTENDS Policy, Sequences, FiniteSets, Functions

CONSTANTS Configs,     \* the contents the three files may have
          V4,          \* the addresses that are IPv4
          TunnelNet,   \* tunnel-cidr
          Apps, Secrets, None,
          Unreadable,  \* what an expires that is no date is
          MaxDay       \* bound: the days that pass

\* What Load makes of a file it can decode.
PeerEntry(p) ==
  /\ p.id \in Peers
  /\ p.addrs \in Seq(Places)
  /\ p.eps \in Seq([at : Places, port : Ports])
  /\ p.svcs \in Seq([app : Apps, port : Ports])

InboundEntry(u) ==
  /\ u.allow \subseteq Peers
  /\ u.cidrs \subseteq SUBSET Places
  /\ u.expires \in Nat \cup {Never, Unreadable}

Decoded(c) ==
  /\ \A p \in Range(c.peers) : PeerEntry(p)
  /\ \A u \in Range(c.inbound) : InboundEntry(u)
  /\ c.outbound \subseteq Peers \X Apps

ASSUME ConfigAssumption ==
  /\ V4 \subseteq Places /\ TunnelNet \subseteq V4
  /\ None \notin Places \cup Secrets
  /\ Unreadable \notin Nat \cup {Never}
  /\ MaxDay \in Nat
  /\ \A c \in Configs : Decoded(c)

VARIABLES
  today,
  files,     \* what the files hold
  live,      \* the configuration csa says it follows
  enforced   \* what was made of it and handed to wg, the filter and nft

vars == <<today, files, live, enforced>>
----------------------------------------------------------------------------
(***************************************************************************)
(* Reading the configuration.  c.self is csa.toml, c.peers, c.inbound and  *)
(* c.outbound the other two files; c.pub and c.psk are read with them, the *)
(* public half of the private key and the secret of each peer, or None.    *)
(***************************************************************************)
Ids(c) == {p.id : p \in Range(c.peers)}

Find(c, id) == CHOOSE p \in Range(c.peers) : p.id = id

Others(c) == {p \in Range(c.peers) : p.id # Self}

\* addresses, or else the addresses of the endpoints.
Listed(p) == IF p.addrs # <<>> THEN p.addrs ELSE [n \in DOMAIN p.eps |-> p.eps[n].at]

\* Of a list the IPv4 addresses, each once, in the order they are written in.
V4Once(all) ==
  LET kept == {n \in DOMAIN all : all[n] \in V4 /\ \A m \in 1..(n - 1) : all[m] # all[n]}
      nth(k) == CHOOSE n \in kept : Cardinality({m \in kept : m < n}) = k - 1
  IN  [k \in 1..Cardinality(kept) |-> all[nth(k)]]

RealIPs(p) == V4Once(Listed(p))

Services(p) == Range(p.svcs)
PortsOf(p) == {s.port : s \in Services(p)}
AppsOf(p) == {s.app : s \in Services(p)}
PortOf(p, app) == (CHOOSE s \in Services(p) : s.app = app).port

FirstEndpoint(p) == IF p.eps = <<>> THEN None ELSE p.eps[1]
----------------------------------------------------------------------------
(***************************************************************************)
(* Validate.                                                               *)
(***************************************************************************)
SelfOK(c) ==
  /\ c.self.mode \in {"services", "all", "off"}
  /\ c.self.mode # "all" => c.self.keep = {}

\* Mutant of ServicesOK: only the names are compared.
ServicesOKByName(p) ==
  \A m, n \in DOMAIN p.svcs : m # n => p.svcs[m].app # p.svcs[n].app

ServicesOK(p) ==
  \A m, n \in DOMAIN p.svcs : m # n => /\ p.svcs[m].app # p.svcs[n].app
                                       /\ p.svcs[m].port # p.svcs[n].port

\* Mutant of DistinctPeers: only what addresses says is compared.
DistinctPeersAsWritten(p, q) ==
  /\ p.id # q.id /\ p.key # q.key /\ p.ip # q.ip
  /\ Range(p.addrs) \cap Range(q.addrs) = {}

DistinctPeers(p, q) ==
  /\ p.id # q.id /\ p.key # q.key /\ p.ip # q.ip
  /\ Range(RealIPs(p)) \cap Range(RealIPs(q)) = {}

\* Mutant of PeerOK: only what addresses says is compared with tunnel-cidr.
PeerOKAsWritten(p) ==
  /\ p.ip \in TunnelNet
  /\ Range(p.addrs) \subseteq V4 \ TunnelNet
  /\ ServicesOK(p)

PeerOK(p) ==
  /\ p.ip \in TunnelNet
  /\ Range(p.addrs) \subseteq V4
  /\ Range(RealIPs(p)) \cap TunnelNet = {}
  /\ ServicesOK(p)

PeersOK(c) ==
  /\ \A m, n \in DOMAIN c.peers : m # n => DistinctPeers(c.peers[m], c.peers[n])
  /\ \A p \in Range(c.peers) : PeerOK(p)
  /\ Self \in Ids(c)
  /\ c.self.port \notin PortsOf(Find(c, Self))
  /\ c.self.incoming = "real-ip" => RealIPs(Find(c, Self)) # <<>>

\* A date is looked at only where there is a range; a rule is refused from
\* the midnight it dies at.
InboundOK(c, u, day) ==
  /\ u.app \in AppsOf(Find(c, Self))
  /\ u.allow \subseteq Ids(c)
  /\ u.cidrs # {} => u.expires \in Nat /\ day < u.expires

PolicyOK(c, day) ==
  /\ \A u \in Range(c.inbound) : InboundOK(c, u, day)
  /\ \A t \in c.outbound : t[1] \in Ids(c) /\ t[2] \in AppsOf(Find(c, t[1]))

KeyPairOK(c) == c.pub = Find(c, Self).key

PSKOK(c) == c.self.required => \A p \in Others(c) : c.psk[p.id] # None

Valid(c, day) ==
  SelfOK(c) /\ PeersOK(c) /\ PolicyOK(c, day) /\ KeyPairOK(c) /\ PSKOK(c)
----------------------------------------------------------------------------
(***************************************************************************)
(* What csa makes of a configuration.                                      *)
(***************************************************************************)

\* Mutant of Builds: policy.New takes a date it cannot read.
BuildsAnyway(c) == TRUE

\* What policy.New refuses and Validate has not.
Builds(c) == \A u \in Range(c.inbound) : u.expires # Unreadable

\* policy.New: by port what is written by app.
NewRule(u) == [peers |-> u.allow, cidrs |-> u.cidrs, expires |-> u.expires]

Compile(c) ==
  LET self == Find(c, Self)
      onPort(p) == {u \in Range(c.inbound) : PortOf(self, u.app) = p}
  IN  [known    |-> Ids(c),
       inbound  |-> [p \in Ports |-> {NewRule(u) : u \in onPort(p)}],
       outbound |-> {<<t[1], PortOf(Find(c, t[1]), t[2])>> : t \in c.outbound}]

PeerByIP(c) == {<<p.ip, p.id>> : p \in Range(c.peers)}

\* The peers csa asks of wg (what a reload leaves of the old ones in wg is
\* WgPeers' question).
WgPeersOf(c) ==
  {[key |-> p.key, ip |-> p.ip, ep |-> FirstEndpoint(p), psk |-> c.psk[p.id]] : p \in Others(c)}

\* newSnapshot's known.
Registered(c) == UNION {Range(p.eps) : p \in Others(c)}

guardConfig(c) ==
  [mode |-> c.self.mode, wgPort |-> c.self.port, keep |-> c.self.keep,
   ports |-> PortsOf(Find(c, Self)), selfIP |-> Find(c, Self).ip]

natConfig(c) ==
  LET reals == RealIPs(Find(c, Self))
  IN  [outgoing |-> c.self.outgoing, incoming |-> c.self.incoming,
       selfIP |-> Find(c, Self).ip,
       selfReal |-> IF reals = <<>> THEN None ELSE reals[1],
       peers |-> {[ip |-> p.ip, reals |-> RealIPs(p), ports |-> PortsOf(p)] : p \in Others(c)}]

\* The output chain of nat.Ruleset: where a connection to dst is turned to.
Steered(n, dst, port) ==
  IF n.outgoing = "off" THEN {}
  ELSE {p.ip : p \in {q \in n.peers : dst \in Range(q.reals) /\ port \in q.ports}}

\* The input chain of nat.Ruleset: what a peer's connections seem to come from.
Presented(n, p) ==
  IF n.incoming = "real-ip" /\ p.reals # <<>> THEN p.reals[1] ELSE p.ip

\* What only a start sets: the TUN interface, the private key, the port wg
\* listens on, and this machine's own tunnel address.
FixedOf(c) == [self |-> c.self, key |-> Find(c, Self).key, ip |-> Find(c, Self).ip]

MadeOf(c) ==
  [rules |-> Compile(c), byIP |-> PeerByIP(c), wg |-> WgPeersOf(c),
   registered |-> Registered(c), guard |-> guardConfig(c), nat |-> natConfig(c)]
----------------------------------------------------------------------------
(***************************************************************************)
(* Diff.                                                                   *)
(***************************************************************************)

\* Mutant of samePeer: addresses were added to the file and not to it.
samePeerButAddrs(a, b) ==
  a.key = b.key /\ a.ip = b.ip /\ a.eps = b.eps /\ a.svcs = b.svcs

samePeer(a, b) ==
  a.key = b.key /\ a.ip = b.ip /\ a.eps = b.eps /\ a.addrs = b.addrs /\ a.svcs = b.svcs

samePolicy(a, b) == a.inbound = b.inbound /\ a.outbound = b.outbound

samePeers(a, b) ==
  Ids(a) = Ids(b) /\ \A id \in Ids(a) : samePeer(Find(a, id), Find(b, id))

Same(a, b) == a.self = b.self /\ samePolicy(a, b) /\ a.psk = b.psk /\ samePeers(a, b)

\* Mutant of NeedsRestart: this machine's own entry is looked at as any other.
NeedsRestartSelfOnly(old, cur) == old.self # cur.self

\* SelfChanged or SelfPeerChanged.
NeedsRestart(old, cur) ==
  LET a == Find(old, Self)  b == Find(cur, Self)
  IN  old.self # cur.self \/ a.key # b.key \/ a.ip # b.ip
----------------------------------------------------------------------------
Init ==
  /\ today = 0
  /\ files \in Configs
  /\ Valid(files, today) /\ Builds(files)
  /\ live = files
  /\ enforced = [made |-> MadeOf(files), fixed |-> FixedOf(files)]

\* The operator, or a program that places configurations, writes the files.
\* Only reloads read them, so one edit between two reloads stands for many.
Edit(c) ==
  /\ files # c
  /\ live \in {files, c}
  /\ files' = c
  /\ UNCHANGED <<today, live, enforced>>

\* Nothing to apply: the new files are followed from now on.
ReloadSame ==
  /\ Valid(files, today)
  /\ Same(live, files)
  /\ live' = files
  /\ UNCHANGED <<today, files, enforced>>

\* All that can change without a restart, or nothing.
ReloadApplies ==
  /\ Valid(files, today)
  /\ ~ Same(live, files)
  /\ ~ NeedsRestart(live, files)
  /\ Builds(files)
  /\ live' = files
  /\ enforced' = [enforced EXCEPT !.made = MadeOf(files)]
  /\ UNCHANGED <<today, files>>

Tick == today < MaxDay /\ today' = today + 1 /\ UNCHANGED <<files, live, enforced>>

Next == ReloadSame \/ ReloadApplies \/ Tick \/ \E c \in Configs : Edit(c)

Spec == Init /\ [][Next]_vars
----------------------------------------------------------------------------
\* files and live are members of Configs, from which Edit takes them.
TypeOK ==
  /\ today \in 0..MaxDay
  /\ enforced.made.rules \in RuleSet

(***************************************************************************)
(* csa enforces the configuration it says it follows, whichever way it     *)
(* came to follow it (main.go:402-406): nothing that Diff does not see     *)
(* makes a difference to wg, the policy or a table, and nothing that only  *)
(* a start sets differs between two configurations a reload goes between.  *)
(***************************************************************************)
FollowsWhatItSays == enforced = [made |-> MadeOf(live), fixed |-> FixedOf(live)]

(***************************************************************************)
(* Compiled by port and address, the policy says what the file says by     *)
(* name (design/README.md:574-584): a peer may call an app if and only if  *)
(* a rule for this very app admits it, and this machine may call the apps  *)
(* outbound names and no other.  No rule that is followed has a date that  *)
(* could not be read, as Validate lets some pass.                          *)
(***************************************************************************)
PolicyByName ==
  LET self == Find(live, Self)
      r == enforced.made.rules
  IN  /\ \A u \in Range(live.inbound) : u.expires # Unreadable
      /\ \A id \in Ids(live) \ {Self}, app \in AppsOf(self), from \in Places \cup {Unknown} :
           Inbound(r, id, PortOf(self, app), from, today) <=>
             \E u \in Range(live.inbound) :
               u.app = app /\ Allows(NewRule(u), id, from, today)
      /\ \A p \in Others(live) : \A app \in AppsOf(p) :
           Outbound(r, p.id, PortOf(p, app)) <=> <<p.id, app>> \in live.outbound

(***************************************************************************)
(* A connection to a machine's real address is turned to the tunnel        *)
(* address of this very machine, and not to two (validate.go:250-253).     *)
(***************************************************************************)
SteeredToItsOwner ==
  \A p \in Others(live), a \in Places, port \in Ports :
    a \in Range(RealIPs(p)) => Steered(enforced.made.nat, a, port) \subseteq {p.ip}

(***************************************************************************)
(* The address an app sees tells the peers apart (design/README.md:306),   *)
(* be it real or, for a peer without one, its tunnel address; and a call   *)
(* to the address seen goes to no other peer.                              *)
(***************************************************************************)
PresentedTellsApart ==
  LET n == enforced.made.nat
  IN  \A p, q \in n.peers : p # q =>
        /\ Presented(n, p) # Presented(n, q)
        /\ \A port \in Ports : q.ip \notin Steered(n, Presented(n, p), port)
----------------------------------------------------------------------------
(***************************************************************************)
(* What the documents say and the code does not do.                        *)
(***************************************************************************)

(***************************************************************************)
(* Validate finds everything that is wrong (validate.go:16-17): of a       *)
(* configuration that passes, csa can make its policy.                     *)
(***************************************************************************)
ValidBuilds == Valid(files, today) => Builds(files)

(***************************************************************************)
(* wg's own packets go to the endpoint of the peer's entry                 *)
(* (design/README.md:359): no rule of csa turns them into the tunnel.      *)
(***************************************************************************)
TunnelNotSteered ==
  \A w \in enforced.made.wg : w.ep # None => Steered(enforced.made.nat, w.ep.at, w.ep.port) = {}
============================================================================
