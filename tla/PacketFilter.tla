---------------------------- MODULE PacketFilter ----------------------------
(***************************************************************************)
(* The filter around the TUN interface (internal/wgdev/filter.go) and the  *)
(* part of Device.Reload that gives it a new policy (device.go).           *)
(*                                                                         *)
(* Packets are handled by one goroutine per source: wireguard-go's reader  *)
(* of the TUN interface calls allowOut for this machine's own packets, and *)
(* the receiver of each peer calls allowIn for that peer's.  A handler     *)
(* loads the rules once, decides, and then takes the lock of one flow      *)
(* table after the other; the reload goroutine stores new rules and then   *)
(* purges the connection table.  Every lock section and every atomic load  *)
(* or store is one step, and the steps of all goroutines interleave.  The  *)
(* clock is read just before each lock, so a caller's reading is current.  *)
(* One Device.Reload runs at a time here, as far as its store and purge;   *)
(* Agent has reloads that overlap.                                         *)
(***************************************************************************)
EXTENDS FlowTable, Policy

CONSTANTS Versions,     \* the configurations a reload may bring
          Compiled,     \* policy.New of each of them
          Sights,       \* what a decision may observe besides the rules
          LogTTL, LogMax, ConnTTL, ConnMax,
          NoKey, NoVersion

ASSUME FilterAssumption ==
  /\ Keys \subseteq Flow
  /\ \A k \in Keys : Reverse(k) \in Keys
  /\ Compiled \in [Versions -> RuleSet]
  /\ Sights \subseteq Sight
  /\ LogTTL \in [Keys -> Nat \ {0}]
  /\ ConnTTL \in [Keys -> Nat \ {0}]
  /\ LogMax \in Nat \ {0}
  /\ ConnMax \in Nat \ {0}
  /\ NoKey \notin Keys
  /\ NoVersion \notin Versions

VARIABLES
  rules,      \* filter.rules: the version the pointer holds
  updater,    \* where Device.Reload is: "idle", or "purge" after the store
  logs,       \* filter.flows
  conns,      \* filter.conns
  sight,      \* the date and the endpoints wg reports
  pc,         \* where the handler of each source is
  pkt,        \* the flow of the packet it handles
  held,       \* the version it loaded
  allow,      \* its decision
  late        \* history: the connections whose last Allow came from a
              \* handler that held rules replaced in the meantime

vars == <<rules, updater, logs, conns, sight, pc, pkt, held, allow, late>>
work == <<pc, pkt, held, allow>>

Init ==
  /\ rules \in Versions
  /\ updater = "idle"
  /\ logs = EmptyTable
  /\ conns = EmptyTable
  /\ sight \in Sights
  /\ pc = [p \in Peers |-> "idle"]
  /\ pkt = [p \in Peers |-> NoKey]
  /\ held = [p \in Peers |-> NoVersion]
  /\ allow = [p \in Peers |-> FALSE]
  /\ late = {}

Goto(p, l) == pc' = [pc EXCEPT ![p] = l]

\* The handler returns: the packet is passed on or dropped.
Done(p) == /\ Goto(p, "idle")
           /\ pkt' = [pkt EXCEPT ![p] = NoKey]
           /\ held' = [held EXCEPT ![p] = NoVersion]
           /\ allow' = [allow EXCEPT ![p] = FALSE]

----------------------------------------------------------------------------
\* A packet of source p arrives; the handler loads the rules pointer.
Load(p) ==
  /\ pc[p] = "idle"
  /\ \E k \in Keys : k.src = p /\ pkt' = [pkt EXCEPT ![p] = k]
  /\ held' = [held EXCEPT ![p] = rules]
  /\ Goto(p, "judge")
  /\ UNCHANGED <<rules, updater, logs, conns, sight, allow, late>>

\* It decides by the rules it loaded and what it observes now.
Judge(p) ==
  /\ pc[p] = "judge"
  /\ LET d == Permits(Compiled[held[p]], pkt[p], sight)
     IN  /\ allow' = [allow EXCEPT ![p] = d]
         /\ Goto(p, IF d THEN "log" ELSE "reply")
  /\ UNCHANGED <<rules, updater, logs, conns, sight, pkt, held, late>>

\* Mutant of PassReply: the connection's time is not looked at.
PassReplyAnyAge(p) ==
  /\ pc[p] = "reply"
  /\ Reverse(pkt[p]) \in DOMAIN conns /\ conns[Reverse(pkt[p])].allowed
  /\ conns' = Touch(conns, Reverse(pkt[p]), 0)
  /\ Done(p)
  /\ UNCHANGED <<rules, updater, logs, sight, late>>

\* Denied, but the answer to a connection let through: it passes.
PassReply(p) ==
  /\ pc[p] = "reply"
  /\ Answers(conns, ConnTTL, Reverse(pkt[p]), 0)
  /\ conns' = Touch(conns, Reverse(pkt[p]), 0)
  /\ Done(p)
  /\ UNCHANGED <<rules, updater, logs, sight, late>>

NoReply(p) ==
  /\ pc[p] = "reply"
  /\ ~ Answers(conns, ConnTTL, Reverse(pkt[p]), 0)
  /\ Goto(p, "log")
  /\ UNCHANGED <<rules, updater, logs, conns, sight, pkt, held, allow, late>>

\* A flow already in the log table: the decision stands, nothing is noted.
LogKnown(p) ==
  /\ pc[p] = "log"
  /\ Seen(logs, LogTTL, pkt[p], 0)
  /\ logs' = Touch(logs, pkt[p], 0)
  /\ Done(p)
  /\ UNCHANGED <<rules, updater, conns, sight, late>>

\* A new flow is logged; one that is allowed goes on to the connections.
LogNew(p) ==
  /\ pc[p] = "log"
  /\ ~ Seen(logs, LogTTL, pkt[p], 0)
  /\ logs' \in FirstOutcomes(logs, LogTTL, LogMax, pkt[p], 0)
  /\ IF allow[p] THEN Goto(p, "admit") /\ UNCHANGED <<pkt, held, allow>>
                 ELSE Done(p)
  /\ UNCHANGED <<rules, updater, conns, sight, late>>

\* Mutant of Admit: the flow of the answers is remembered in its place.
AdmitReversed(p) ==
  /\ pc[p] = "admit"
  /\ conns' \in AllowOutcomes(conns, ConnTTL, ConnMax, Reverse(pkt[p]), 0)
  /\ late' = (late \ {pkt[p]}) \cup (IF held[p] = rules THEN {} ELSE {pkt[p]})
  /\ Done(p)
  /\ UNCHANGED <<rules, updater, logs, sight>>

\* conns.Allow: the answers of this connection will pass from now on.
Admit(p) ==
  /\ pc[p] = "admit"
  /\ conns' \in AllowOutcomes(conns, ConnTTL, ConnMax, pkt[p], 0)
  /\ late' = (late \ {pkt[p]}) \cup (IF held[p] = rules THEN {} ELSE {pkt[p]})
  /\ Done(p)
  /\ UNCHANGED <<rules, updater, logs, sight>>

----------------------------------------------------------------------------
\* Device.Reload stores the new rules ...
Store(v) ==
  /\ updater = "idle"
  /\ rules' = v
  /\ updater' = "purge"
  /\ UNCHANGED <<logs, conns, sight, work, late>>

\* Mutant of Purge: the log table is purged instead of the connections.
PurgeLogs ==
  /\ updater = "purge"
  /\ logs' = Forgotten(logs, {k \in Keys : StillAllowed(Compiled[rules], k, sight)})
  /\ updater' = "idle"
  /\ late' = {}
  /\ UNCHANGED <<rules, conns, sight, work>>

\* What may be observed from now on.
Coming == {s \in Sights : s.today >= sight.today}

\* ... and judges the remembered connections by them, observing anew for each.
Purge ==
  /\ updater = "purge"
  /\ \E kept \in SUBSET DOMAIN conns :
       /\ \A k \in DOMAIN conns : \E s \in Coming :
            k \in kept <=> StillAllowed(Compiled[rules], k, s)
       /\ conns' = Forgotten(conns, kept)
  /\ updater' = "idle"
  /\ late' = {}
  /\ UNCHANGED <<rules, logs, sight, work>>

\* Time passes: entries age, and dates only go forward.
Tick ==
  /\ logs' = Older(logs, LogTTL)
  /\ conns' = Older(conns, ConnTTL)
  /\ sight' \in Coming
  /\ UNCHANGED <<rules, updater, work, late>>

Handle(p) == \/ Load(p) \/ Judge(p) \/ PassReply(p) \/ NoReply(p)
             \/ LogKnown(p) \/ LogNew(p) \/ Admit(p)

Next == \/ \E p \in Peers : Handle(p)
        \/ \E v \in Versions : Store(v)
        \/ Purge
        \/ Tick

Spec == Init /\ [][Next]_vars
----------------------------------------------------------------------------
\* The values every variable keeps.
TypeOK ==
  /\ rules \in Versions
  /\ updater \in {"idle", "purge"}
  /\ IsTable(logs) /\ IsTable(conns)
  /\ sight \in Sights
  /\ pc \in [Peers -> {"idle", "judge", "reply", "log", "admit"}]
  /\ pkt \in [Peers -> Keys \cup {NoKey}]
  /\ held \in [Peers -> Versions \cup {NoVersion}]
  /\ allow \in [Peers -> BOOLEAN]
  /\ late \subseteq Keys
  /\ \A p \in Peers : pc[p] # "idle" =>
       /\ pkt[p] \in Keys /\ pkt[p].src = p
       /\ held[p] \in Versions

(***************************************************************************)
(* Neither table outgrows its limit, however packets of different sources  *)
(* interleave: flow.go's sweep makes room before every write ("기억이       *)
(* 무한히 늘지 않게", flow.go:178).                                         *)
(***************************************************************************)
Bounded == /\ Cardinality(DOMAIN logs) <= LogMax
           /\ Cardinality(DOMAIN conns) <= ConnMax

(***************************************************************************)
(* The connection table holds only connections that were let through: each *)
(* of them is permitted by some version under some observation.  A denied  *)
(* packet, and the answer to a connection, never open a connection of      *)
(* their own (filter.go:116-131, 155-171).                                 *)
(***************************************************************************)
OnlyPermitted ==
  \A k \in DOMAIN conns :
    /\ conns[k].allowed
    /\ \E v \in Versions, s \in Sights : Permits(Compiled[v], k, s)

(***************************************************************************)
(* What validation does not ask of a configuration: no rule names this     *)
(* machine itself, and every packet is this machine's own or meant for it. *)
(* Under it stillAllowed permits no more than the policy does.             *)
(***************************************************************************)
OthersOnly ==
  /\ \A v \in Versions :
       /\ \A u \in AllInbound(Compiled[v]) : Self \notin u.peers
       /\ \A t \in Compiled[v].outbound : t[1] # Self
  /\ \A k \in Keys : Self \in {k.src, k.dst}

(***************************************************************************)
(* Once Reload has returned, a remembered connection the rules in force do *)
(* not permit under any observation can only come from a handler that      *)
(* loaded its rules before the store and ran conns.Allow after it          *)
(* (filter.go:109-127 against device.go:232-239).  No other order of the   *)
(* steps leaves a revoked connection open.                                 *)
(***************************************************************************)
OnlyStragglersSurvive ==
  updater = "idle" =>
    \A k \in DOMAIN conns \ late :
      \E s \in Sights : Permits(Compiled[rules], k, s)

(***************************************************************************)
(* A connection whose answers do not pass, because it was never opened,    *)
(* fell silent for its time, was dropped or was revoked, is opened again   *)
(* only by its own sender through conns.Allow: no answer and no other      *)
(* packet revives it ("그 시간을 쉰 뒤에 서버가 먼저 말을 거는 연결은          *)
(* 막힌다", design/README.md:602).                                          *)
(***************************************************************************)
OnlySenderRevives ==
  [][\A k \in Keys :
       Answers(conns, ConnTTL, k, 0)' /\ ~ Answers(conns, ConnTTL, k, 0)
         => \E p \in Peers : pc[p] = "admit" /\ pkt[p] = k /\ allow[p]]_vars

(***************************************************************************)
(* When Reload returns, every connection it leaves in the table is one the *)
(* new rules permit as things were observed while it judged (device.go:    *)
(* 236-239), whatever handlers did between the store and the purge.        *)
(***************************************************************************)
PurgeRevokes ==
  [][updater = "purge" /\ updater' = "idle" =>
       \A k \in DOMAIN conns' :
         \E s \in Coming : Permits(Compiled[rules], k, s)]_vars

(***************************************************************************)
(* Answers stop passing only for a reason flow.go and Reload name: the     *)
(* connection has been silent for its time, a purge judged it, or a new    *)
(* connection needed the room of a full table.  Neither traffic nor a      *)
(* table that still has room closes a connection.                          *)
(***************************************************************************)
ForgottenForCause ==
  [][\A k \in Keys :
       Answers(conns, ConnTTL, k, 0) /\ ~ Answers(conns, ConnTTL, k, 0)' =>
         \/ conns[k].age + 1 >= ConnTTL[k]
         \/ updater = "purge" /\ updater' = "idle"
         \/ /\ Cardinality(DOMAIN conns) >= ConnMax
            /\ \E p \in Peers : pc[p] = "admit" /\ pc'[p] = "idle"]_vars

(***************************************************************************)
(* The filter implements the promise of Revocation: seen through the       *)
(* connections whose answers pass, every lock section, packet and reload   *)
(* is one of its steps or changes nothing (filter.go:95-131, 133-171;      *)
(* device.go:232-239).                                                     *)
(***************************************************************************)
Answered == {k \in Live(conns, ConnTTL, 0) : conns[k].allowed}
Permitted == [v \in Versions |->
                {k \in Keys : \E s \in Sights : Permits(Compiled[v], k, s)}]

Promise == INSTANCE Revocation WITH
  inForce <- rules,
  settling <- (updater = "purge"),
  open <- Answered,
  stray <- late \cap Answered

KeepsItsPromise == Promise!Spec

----------------------------------------------------------------------------
(***************************************************************************)
(* What the documents say and the code does not do.                        *)
(***************************************************************************)

(***************************************************************************)
(* After a revocation nothing passes either way (design/README.md:600,     *)
(* "이제 둘 다 막힌다"): with no reload and no packet in progress, every      *)
(* connection whose answers pass is one the rules permit.                  *)
(***************************************************************************)
RevokedIsBlocked ==
  updater = "idle" /\ (\A p \in Peers : pc[p] = "idle") =>
    \A k \in DOMAIN conns :
      Answers(conns, ConnTTL, k, 0) =>
        \E s \in Sights : Permits(Compiled[rules], k, s)

(***************************************************************************)
(* Whatever the caller sends opens the connection again at once            *)
(* (design/README.md:602, "부른 쪽이 무엇이든 보내면 그 순간 다시 열린다"):      *)
(* when a packet has passed by the policy, answers to it pass.             *)
(***************************************************************************)
SenderReopens ==
  [][\A p \in Peers :
       pc[p] \in {"log", "admit"} /\ pc'[p] = "idle" /\ allow[p] =>
         Answers(conns', ConnTTL, pkt[p], 0)]_vars

(***************************************************************************)
(* The purge forgets only what is no longer permitted (device.go:236 and   *)
(* 245-249): a connection the new rules permit, however things are         *)
(* observed meanwhile, stays.                                              *)
(***************************************************************************)
PurgeKeepsPermitted ==
  [][updater = "purge" /\ updater' = "idle" =>
       \A k \in DOMAIN conns :
         (\A s \in Coming : Permits(Compiled[rules], k, s)) => k \in DOMAIN conns']_vars
============================================================================
