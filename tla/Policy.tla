------------------------------- MODULE Policy -------------------------------
(***************************************************************************)
(* The verdicts of internal/policy/policy.go: what a rule set says of one  *)
(* packet, and what device.go's stillAllowed says of a remembered flow.    *)
(* There is no state here.                                                 *)
(*                                                                         *)
(* A peer stands for its tunnel IP as well: validation makes the two       *)
(* one-to-one.  A place stands for an outer source address, Unknown for    *)
(* the invalid address the code uses when it has not asked or got no       *)
(* answer; a CIDR is the set of places it contains.  A flow is a record of *)
(* the five values of flowKey.                                             *)
(***************************************************************************)
EXTENDS Integers

CONSTANTS Peers,    \* peer-ids, each with its tunnel IP; Self is one of them
          Self,
          Places,   \* outer source addresses
          Unknown,  \* netip.Addr{}, not one of Places
          Ports,    \* port numbers; NoPort is the 0 of a flow without ports
          NoPort,
          Never     \* the zero time: a rule that does not expire

ASSUME PolicyAssumption ==
  /\ Self \in Peers
  /\ Unknown \notin Places
  /\ Never \notin Nat

Protos == {"tcp", "udp", "icmp"}

Flow == [src : Peers, dst : Peers, sport : Ports \cup {NoPort},
         dport : Ports \cup {NoPort}, proto : Protos]

HasPorts(k) == k.proto \in {"tcp", "udp"}

Reverse(k) == [src |-> k.dst, dst |-> k.src, sport |-> k.dport,
               dport |-> k.sport, proto |-> k.proto]

(***************************************************************************)
(* What a decision reads besides the rules: the date, and where wg last    *)
(* saw each peer.  wg has no peer for this machine itself.                 *)
(***************************************************************************)
Sight == {s \in [today : Nat, at : [Peers -> Places \cup {Unknown}]] :
            s.at[Self] = Unknown}

Rule == [peers : SUBSET Peers, cidrs : SUBSET SUBSET Places,
         expires : Nat \cup {Never}]

\* peerByIP, inbound (no rule for a port that is not open) and outbound.
RuleSet == [known : SUBSET Peers, inbound : [Ports -> SUBSET Rule],
            outbound : SUBSET (Peers \X Ports)]

AllInbound(r) == UNION {r.inbound[p] : p \in Ports}

\* A rule dies at midnight of the day it names.
Dead(u, today) == u.expires # Never /\ today >= u.expires

InAny(cidrs, from) == from # Unknown /\ \E c \in cidrs : from \in c

Allows(u, id, from, today) ==
  /\ u.peers # {} \/ u.cidrs # {}
  /\ ~ Dead(u, today)
  /\ u.peers # {} => id \in u.peers
  /\ u.cidrs # {} => InAny(u.cidrs, from)

NeedsSource(r, port) ==
  port \in Ports /\ \E u \in r.inbound[port] : u.cidrs # {}

NeedsSourceICMP(r) == \E u \in AllInbound(r) : u.cidrs # {}

Inbound(r, src, port, from, today) ==
  /\ src \in r.known
  /\ port \in Ports
  /\ \E u \in r.inbound[port] : Allows(u, src, from, today)

InboundICMP(r, src, from, today) ==
  src \in r.known /\ \E u \in AllInbound(r) : Allows(u, src, from, today)

Outbound(r, dst, port) == <<dst, port>> \in r.outbound

OutboundICMP(r, dst) == \E t \in r.outbound : t[1] = dst

(***************************************************************************)
(* The verdict allowIn asks for.  wg is asked for the outer source only    *)
(* when a rule looks at it, and observedAddr asks only about a peer the    *)
(* rules know.                                                             *)
(***************************************************************************)
InVerdict(r, k, sight) ==
  LET asked == IF HasPorts(k) THEN NeedsSource(r, k.dport) ELSE NeedsSourceICMP(r)
      from  == IF asked /\ k.src \in r.known THEN sight.at[k.src] ELSE Unknown
  IN  IF HasPorts(k) THEN Inbound(r, k.src, k.dport, from, sight.today)
                     ELSE InboundICMP(r, k.src, from, sight.today)

\* The verdict allowOut asks for.
OutVerdict(r, k) ==
  IF HasPorts(k) THEN Outbound(r, k.dst, k.dport) ELSE OutboundICMP(r, k.dst)

\* What the filter decides about a packet: this machine's own packets are
\* read from the TUN interface, a peer's are written to it.
Permits(r, k, sight) ==
  IF k.src = Self THEN OutVerdict(r, k) ELSE InVerdict(r, k, sight)

\* Mutant of StillAllowed: the date is that of the start of the program.
StillAllowedAtStart(r, k, sight) ==
  \/ k.src \in r.known /\ InVerdict(r, k, [sight EXCEPT !.today = 0])
  \/ k.src \notin r.known /\ k.dst \in r.known /\ OutVerdict(r, k)

(***************************************************************************)
(* stillAllowed tells the two directions apart by asking whether the       *)
(* source is a known tunnel IP.  peerByIP holds this machine's own too.    *)
(***************************************************************************)
StillAllowed(r, k, sight) ==
  \/ k.src \in r.known /\ InVerdict(r, k, sight)
  \/ k.src \notin r.known /\ k.dst \in r.known /\ OutVerdict(r, k)
============================================================================
