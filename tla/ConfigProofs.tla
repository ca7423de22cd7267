---------------------------- MODULE ConfigProofs ----------------------------
(***************************************************************************)
(* Theorems about Config for any set of configurations that can be         *)
(* decoded, any machines, addresses, ports and apps, and any days.         *)
(***************************************************************************)
EXTENDS Config, FiniteSetTheorems, TLAPS

----------------------------------------------------------------------------
(***************************************************************************)
(* What Validate has found of a configuration that is followed, on some    *)
(* day, and policy.New after it.                                           *)
(***************************************************************************)
Sane(c) == \E day \in 0 .. MaxDay : Valid(c, day) /\ Builds(c)

\* The rules name machines there are and apps these machines have.
NamesOK(c) ==
  /\ \A u \in Range(c.inbound) : u.app \in AppsOf(Find(c, Self)) /\ u.allow \subseteq Ids(c)
  /\ \A t \in c.outbound : t[1] \in Ids(c) /\ t[2] \in AppsOf(Find(c, t[1]))

LEMMA SaneFacts ==
  ASSUME NEW c, Sane(c)
  PROVE  PeersOK(c) /\ NamesOK(c) /\ Builds(c)
BY DEF Sane, Valid, PolicyOK, InboundOK, NamesOK

LEMMA DecodedFacts ==
  ASSUME NEW c \in Configs
  PROVE  /\ \A p \in Range(c.peers) : PeerEntry(p)
         /\ \A u \in Range(c.inbound) : InboundEntry(u)
         /\ c.outbound \subseteq Peers \X Apps
BY ConfigAssumption DEF Decoded

(***************************************************************************)
(* An id finds its entry: no two entries have one id.                      *)
(***************************************************************************)
LEMMA EntriesDiffer ==
  ASSUME NEW c, PeersOK(c), NEW p \in Range(c.peers), NEW q \in Range(c.peers), p # q
  PROVE  DistinctPeers(p, q)
<1>1. PICK m \in DOMAIN c.peers : c.peers[m] = p
  BY DEF Range
<1>2. PICK n \in DOMAIN c.peers : c.peers[n] = q
  BY DEF Range
<1>3. m # n
  BY <1>1, <1>2
<1> QED BY <1>1, <1>2, <1>3 DEF PeersOK

LEMMA FindFacts ==
  ASSUME NEW c, PeersOK(c)
  PROVE  /\ \A id \in Ids(c) : Find(c, id) \in Range(c.peers) /\ Find(c, id).id = id
         /\ \A p \in Range(c.peers) : p.id \in Ids(c) /\ Find(c, p.id) = p
<1>1. \A id \in Ids(c) : Find(c, id) \in Range(c.peers) /\ Find(c, id).id = id
  BY DEF Ids, Find
<1>2. \A p \in Range(c.peers) : p.id \in Ids(c)
  BY DEF Ids
<1>3. ASSUME NEW p \in Range(c.peers) PROVE Find(c, p.id) = p
  <2>1. Find(c, p.id) \in Range(c.peers) /\ Find(c, p.id).id = p.id
    BY <1>1, <1>2
  <2> QED BY <2>1, EntriesDiffer DEF DistinctPeers
<1> QED BY <1>1, <1>2, <1>3

LEMMA SeqFacts ==
  ASSUME NEW S, NEW s \in Seq(S)
  PROVE  Len(s) \in Nat /\ DOMAIN s = 1 .. Len(s) /\ \A n \in DOMAIN s : s[n] \in S
OBVIOUS

\* A list of real addresses that is not empty has a first one.
LEMMA FirstReal ==
  ASSUME NEW p, PeerEntry(p), RealIPs(p) # <<>>
  PROVE  RealIPs(p)[1] \in Range(RealIPs(p))
<1> DEFINE all == Listed(p)
           kept == {n \in DOMAIN all : all[n] \in V4 /\ \A m \in 1..(n - 1) : all[m] # all[n]}
           nth(k) == CHOOSE n \in kept : Cardinality({m \in kept : m < n}) = k - 1
           N == Cardinality(kept)
<1>1. all \in Seq(Places)
  <2>1. p.addrs \in Seq(Places) /\ p.eps \in Seq([at : Places, port : Ports])
    BY DEF PeerEntry
  <2>2. [n \in DOMAIN p.eps |-> p.eps[n].at] \in Seq(Places)
    <3> DEFINE e == p.eps
    <3>1. Len(e) \in Nat /\ DOMAIN e = 1 .. Len(e) /\ \A n \in 1 .. Len(e) : e[n].at \in Places
      <4> DEFINE S == [at : Places, port : Ports]
      <4>1. e \in Seq(S)
        BY <2>1
      <4>2. \A x \in S : x.at \in Places
        OBVIOUS
      <4> HIDE DEF e, S
      <4> QED BY <4>1, <4>2, SeqFacts
    <3> HIDE DEF e
    <3>2. [n \in DOMAIN e |-> e[n].at] \in Seq(Places)
      BY <3>1
    <3> QED BY <3>2 DEF e
  <2> QED BY <2>1, <2>2 DEF Listed
<1>2. IsFiniteSet(kept)
  <2>1. DOMAIN all = 1 .. Len(all) /\ Len(all) \in Nat
    BY <1>1
  <2>2. IsFiniteSet(1 .. Len(all))
    BY <2>1, FS_Interval
  <2>3. kept \in SUBSET (1 .. Len(all))
    BY <2>1
  <2> QED BY <2>2, <2>3, FS_Subset
<1>3. N \in Nat
  BY <1>2, FS_CardinalityType
<1>4. RealIPs(p) = [k \in 1 .. N |-> all[nth(k)]]
  BY DEF RealIPs, V4Once
<1> HIDE DEF N, all, nth, kept
<1>5. N # 0
  BY <1>4
<1> QED BY <1>3, <1>4, <1>5 DEF Range

\* The real addresses depend on nothing but what is written.
LEMMA RealIPsSame ==
  ASSUME NEW p, NEW q, p.addrs = q.addrs, p.eps = q.eps
  PROVE  RealIPs(p) = RealIPs(q)
<1>1. Listed(p) = Listed(q)
  BY DEF Listed
<1> QED BY <1>1 DEF RealIPs

(***************************************************************************)
(* An app of a machine has one port, and no other app of it has this port. *)
(***************************************************************************)
LEMMA PortFacts ==
  ASSUME NEW p, ServicesOK(p), PeerEntry(p)
  PROVE  /\ \A app \in AppsOf(p) : PortOf(p, app) \in Ports
         /\ \A app, other \in AppsOf(p) : PortOf(p, app) = PortOf(p, other) => app = other
<1>1. ASSUME NEW s \in Services(p), NEW t \in Services(p), s.port = t.port PROVE s = t
  <2>1. PICK m \in DOMAIN p.svcs : p.svcs[m] = s
    BY DEF Services, Range
  <2>2. PICK n \in DOMAIN p.svcs : p.svcs[n] = t
    BY DEF Services, Range
  <2> QED BY <1>1, <2>1, <2>2 DEF ServicesOK
<1>2. ASSUME NEW app \in AppsOf(p)
      PROVE  \E s \in Services(p) : s.app = app /\ PortOf(p, app) = s.port
  BY DEF AppsOf, PortOf
<1>3. \A s \in Services(p) : s.port \in Ports
  <2>1. p.svcs \in Seq([app : Apps, port : Ports])
    BY DEF PeerEntry
  <2>2. \A n \in DOMAIN p.svcs : p.svcs[n] \in [app : Apps, port : Ports]
    BY <2>1, SeqFacts, Zenon
  <2> QED BY <2>2 DEF Services, Range
<1> QED BY <1>1, <1>2, <1>3
----------------------------------------------------------------------------
(***************************************************************************)
(* What Diff calls the same csa makes the same of.                         *)
(***************************************************************************)
LEMMA SameEntries ==
  ASSUME NEW a, NEW b, PeersOK(a), PeersOK(b), samePeers(a, b)
  PROVE  /\ Ids(a) = Ids(b)
         /\ \A p \in Range(a.peers) : \E q \in Range(b.peers) : q.id = p.id /\ samePeer(p, q)
         /\ \A q \in Range(b.peers) : \E p \in Range(a.peers) : p.id = q.id /\ samePeer(p, q)
<1>1. Ids(a) = Ids(b) /\ \A id \in Ids(a) : samePeer(Find(a, id), Find(b, id))
  BY DEF samePeers
<1>2. ASSUME NEW p \in Range(a.peers)
      PROVE  \E q \in Range(b.peers) : q.id = p.id /\ samePeer(p, q)
  <2>1. p.id \in Ids(a) /\ Find(a, p.id) = p
    BY FindFacts
  <2>2. Find(b, p.id) \in Range(b.peers) /\ Find(b, p.id).id = p.id
    BY <1>1, <2>1, FindFacts
  <2> QED BY <1>1, <2>1, <2>2
<1>3. ASSUME NEW q \in Range(b.peers)
      PROVE  \E p \in Range(a.peers) : p.id = q.id /\ samePeer(p, q)
  <2>1. q.id \in Ids(b) /\ Find(b, q.id) = q
    BY FindFacts
  <2>2. Find(a, q.id) \in Range(a.peers) /\ Find(a, q.id).id = q.id
    BY <1>1, <2>1, FindFacts
  <2> QED BY <1>1, <2>1, <2>2
<1> QED BY <1>1, <1>2, <1>3

\* The same of the entries other than csa's own.
LEMMA SameOthers ==
  ASSUME NEW a, NEW b, PeersOK(a), PeersOK(b), samePeers(a, b)
  PROVE  /\ \A p \in Others(a) : \E q \in Others(b) : q.id = p.id /\ samePeer(p, q)
         /\ \A q \in Others(b) : \E p \in Others(a) : p.id = q.id /\ samePeer(p, q)
BY SameEntries DEF Others

LEMMA SamePorts ==
  ASSUME NEW p, NEW q, samePeer(p, q)
  PROVE  /\ \A app : PortOf(p, app) = PortOf(q, app)
         /\ PortsOf(p) = PortsOf(q) /\ AppsOf(p) = AppsOf(q)
         /\ RealIPs(p) = RealIPs(q) /\ FirstEndpoint(p) = FirstEndpoint(q)
         /\ p.ip = q.ip /\ p.key = q.key /\ p.eps = q.eps
<1>1. Services(p) = Services(q)
  BY DEF samePeer, Services
<1>2. RealIPs(p) = RealIPs(q)
  BY RealIPsSame DEF samePeer
<1>3. FirstEndpoint(p) = FirstEndpoint(q)
  BY DEF samePeer, FirstEndpoint
<1>4. p.ip = q.ip /\ p.key = q.key /\ p.eps = q.eps
  BY DEF samePeer
<1> QED BY <1>1, <1>2, <1>3, <1>4 DEF PortOf, PortsOf, AppsOf

LEMMA SameSelf ==
  ASSUME NEW a, NEW b, PeersOK(a), samePeers(a, b)
  PROVE  samePeer(Find(a, Self), Find(b, Self))
BY DEF samePeers, PeersOK

LEMMA SameRules ==
  ASSUME NEW a, NEW b, PeersOK(a), PeersOK(b), NamesOK(a), samePeers(a, b), samePolicy(a, b)
  PROVE  Compile(a) = Compile(b)
<1> DEFINE onPort(c, p) == {u \in Range(c.inbound) : PortOf(Find(c, Self), u.app) = p}
           in(c) == [p \in Ports |-> {NewRule(u) : u \in onPort(c, p)}]
           out(c) == {<<t[1], PortOf(Find(c, t[1]), t[2])>> : t \in c.outbound}
<1>1. Ids(a) = Ids(b) /\ a.inbound = b.inbound /\ a.outbound = b.outbound
  BY DEF samePeers, samePolicy
<1>2. in(a) = in(b)
  <2>1. \A app : PortOf(Find(a, Self), app) = PortOf(Find(b, Self), app)
    BY SameSelf, SamePorts
  <2>2. \A p : onPort(a, p) = onPort(b, p)
    BY <1>1, <2>1
  <2> HIDE DEF onPort
  <2> QED BY <2>2
<1>3. out(a) = out(b)
  <2>1. \A t \in a.outbound : PortOf(Find(a, t[1]), t[2]) = PortOf(Find(b, t[1]), t[2])
    <3> SUFFICES ASSUME NEW t \in a.outbound
                 PROVE  PortOf(Find(a, t[1]), t[2]) = PortOf(Find(b, t[1]), t[2])
      OBVIOUS
    <3>1. t[1] \in Ids(a)
      BY DEF NamesOK
    <3>2. samePeer(Find(a, t[1]), Find(b, t[1]))
      BY <3>1 DEF samePeers
    <3> QED BY <3>2, SamePorts
  <2> QED BY <1>1, <2>1
<1>4. /\ Compile(a) = [known |-> Ids(a), inbound |-> in(a), outbound |-> out(a)]
      /\ Compile(b) = [known |-> Ids(b), inbound |-> in(b), outbound |-> out(b)]
  BY DEF Compile
<1> HIDE DEF in, out
<1> QED BY <1>1, <1>2, <1>3, <1>4

LEMMA SameWg ==
  ASSUME NEW a, NEW b, PeersOK(a), PeersOK(b), samePeers(a, b), a.psk = b.psk
  PROVE  WgPeersOf(a) = WgPeersOf(b) /\ PeerByIP(a) = PeerByIP(b) /\ Registered(a) = Registered(b)
<1> DEFINE told(c, p) == [key |-> p.key, ip |-> p.ip, ep |-> FirstEndpoint(p), psk |-> c.psk[p.id]]
<1>1. ASSUME NEW p, NEW q, p.id = q.id, samePeer(p, q)
      PROVE  told(a, p) = told(b, q) /\ Range(p.eps) = Range(q.eps) /\ <<p.ip, p.id>> = <<q.ip, q.id>>
  BY <1>1, SamePorts
<1> HIDE DEF told
<1>2. /\ WgPeersOf(a) = {told(a, p) : p \in Others(a)}
      /\ WgPeersOf(b) = {told(b, p) : p \in Others(b)}
  BY DEF WgPeersOf, told
<1>3. WgPeersOf(a) = WgPeersOf(b)
  BY <1>1, <1>2, SameOthers
<1>4. PeerByIP(a) = PeerByIP(b)
  BY <1>1, SameEntries DEF PeerByIP
<1>5. {Range(p.eps) : p \in Others(a)} = {Range(p.eps) : p \in Others(b)}
  BY <1>1, SameOthers
<1>6. Registered(a) = Registered(b)
  BY <1>5 DEF Registered
<1> QED BY <1>3, <1>4, <1>6

LEMMA SameTables ==
  ASSUME NEW a, NEW b, PeersOK(a), PeersOK(b), samePeers(a, b), a.self = b.self
  PROVE  guardConfig(a) = guardConfig(b) /\ natConfig(a) = natConfig(b)
<1> DEFINE turned(p) == [ip |-> p.ip, reals |-> RealIPs(p), ports |-> PortsOf(p)]
           turnedOf(c) == {turned(p) : p \in Others(c)}
<1>1. samePeer(Find(a, Self), Find(b, Self))
  BY SameSelf
<1>2. guardConfig(a) = guardConfig(b)
  BY <1>1, SamePorts DEF guardConfig
<1>3. ASSUME NEW p, NEW q, samePeer(p, q) PROVE turned(p) = turned(q)
  BY <1>3, SamePorts
<1> HIDE DEF turned
<1>4. turnedOf(a) = turnedOf(b)
  BY <1>3, SameOthers
<1>5. /\ RealIPs(Find(a, Self)) = RealIPs(Find(b, Self))
      /\ Find(a, Self).ip = Find(b, Self).ip
  BY <1>1, SamePorts
<1> DEFINE shown(s, x, ip, t) ==
             [outgoing |-> s.outgoing, incoming |-> s.incoming, selfIP |-> ip,
              selfReal |-> IF x = <<>> THEN None ELSE x[1], peers |-> t]
<1> HIDE DEF turnedOf
<1>6. /\ natConfig(a) = shown(a.self, RealIPs(Find(a, Self)), Find(a, Self).ip, turnedOf(a))
      /\ natConfig(b) = shown(b.self, RealIPs(Find(b, Self)), Find(b, Self).ip, turnedOf(b))
  BY DEF natConfig, turnedOf, turned
<1> HIDE DEF shown
<1> QED BY <1>2, <1>4, <1>5, <1>6

LEMMA SameMakesSame ==
  ASSUME NEW a, NEW b, PeersOK(a), PeersOK(b), NamesOK(a), Same(a, b)
  PROVE  MadeOf(a) = MadeOf(b) /\ FixedOf(a) = FixedOf(b)
<1>1. samePeers(a, b) /\ samePolicy(a, b) /\ a.self = b.self /\ a.psk = b.psk
  BY DEF Same
<1>2. MadeOf(a) = MadeOf(b)
  BY <1>1, SameRules, SameWg, SameTables DEF MadeOf
<1>3. FixedOf(a) = FixedOf(b)
  BY <1>1, SameSelf, SamePorts DEF FixedOf
<1> QED BY <1>2, <1>3
----------------------------------------------------------------------------
(***************************************************************************)
(* The invariant: what is followed was found sane, and is what is          *)
(* enforced.  Nothing is known of the files.                               *)
(***************************************************************************)
IInv ==
  /\ today \in 0 .. MaxDay
  /\ files \in Configs
  /\ live \in Configs /\ Sane(live)
  /\ FollowsWhatItSays

LEMMA InitIInv == Init => IInv
<1> SUFFICES ASSUME Init PROVE IInv
  OBVIOUS
<1>1. today \in 0 .. MaxDay
  BY ConfigAssumption DEF Init
<1>2. Sane(live)
  BY <1>1 DEF Init, Sane
<1> QED BY <1>1, <1>2 DEF Init, IInv, FollowsWhatItSays

LEMMA NextIInv == IInv /\ [Next]_vars => IInv'
<1> SUFFICES ASSUME IInv, [Next]_vars PROVE IInv'
  OBVIOUS
<1>1. CASE ReloadSame
  <2>1. /\ UNCHANGED <<today, files, enforced>> /\ live' = files
        /\ Valid(files, today) /\ Same(live, files)
    BY <1>1 DEF ReloadSame
  <2>2. PeersOK(live) /\ NamesOK(live) /\ Builds(live) /\ PeersOK(files)
    BY <2>1, SaneFacts DEF IInv, Valid
  <2>3. Builds(files)
    BY <2>1, <2>2 DEF Builds, Same, samePolicy
  <2>4. Sane(live')
    BY <2>1, <2>3 DEF IInv, Sane
  <2>5. MadeOf(live) = MadeOf(files) /\ FixedOf(live) = FixedOf(files)
    BY <2>1, <2>2, SameMakesSame
  <2>6. FollowsWhatItSays'
    <3>1. enforced' = [made |-> MadeOf(live'), fixed |-> FixedOf(live')]
      BY <2>1, <2>5 DEF IInv, FollowsWhatItSays
    <3> QED BY <3>1 DEF FollowsWhatItSays
  <2> QED BY <2>1, <2>4, <2>6 DEF IInv
<1>2. CASE ReloadApplies
  <2>1. /\ UNCHANGED <<today, files>> /\ live' = files
        /\ enforced' = [enforced EXCEPT !.made = MadeOf(files)]
        /\ Valid(files, today) /\ ~ NeedsRestart(live, files) /\ Builds(files)
    BY <1>2 DEF ReloadApplies
  <2>2. Sane(live')
    BY <2>1 DEF IInv, Sane
  <2>3. FixedOf(live) = FixedOf(files)
    BY <2>1 DEF NeedsRestart, FixedOf
  <2>4. FollowsWhatItSays'
    <3>1. enforced' = [made |-> MadeOf(live'), fixed |-> FixedOf(live')]
      BY <2>1, <2>3 DEF IInv, FollowsWhatItSays
    <3> QED BY <3>1 DEF FollowsWhatItSays
  <2> QED BY <2>1, <2>2, <2>4 DEF IInv
<1>3. CASE Tick
  <2>1. UNCHANGED <<files, live, enforced>> /\ today' \in 0 .. MaxDay
    BY <1>3, ConfigAssumption DEF Tick, IInv
  <2> QED BY <2>1 DEF IInv, FollowsWhatItSays
<1>4. ASSUME NEW c \in Configs, Edit(c) PROVE IInv'
  BY <1>4 DEF Edit, IInv, FollowsWhatItSays
<1>5. CASE UNCHANGED vars
  BY <1>5 DEF vars, IInv, FollowsWhatItSays
<1> QED BY <1>1, <1>2, <1>3, <1>4, <1>5 DEF Next

LEMMA IInvAlways == Spec => []IInv
BY InitIInv, NextIInv, PTL DEF Spec

\* What csa enforces is made of a configuration Validate found right.
LEMMA Enforced ==
  ASSUME IInv
  PROVE  /\ PeersOK(live) /\ NamesOK(live) /\ Builds(live)
         /\ \A p \in Range(live.peers) : PeerOK(p) /\ PeerEntry(p)
         /\ enforced.made.rules = Compile(live)
         /\ enforced.made.nat = natConfig(live)
<1>1. PeersOK(live) /\ NamesOK(live) /\ Builds(live)
  BY SaneFacts DEF IInv
<1>2. \A p \in Range(live.peers) : PeerOK(p) /\ PeerEntry(p)
  BY <1>1, DecodedFacts DEF IInv, PeersOK
<1>3. enforced.made = MadeOf(live)
  BY DEF IInv, FollowsWhatItSays
<1> QED BY <1>1, <1>2, <1>3 DEF MadeOf
----------------------------------------------------------------------------
(***************************************************************************)
(* csa enforces the configuration it says it follows, after any number of  *)
(* edits and reloads: what Diff does not see makes no difference to wg,    *)
(* the policy or a table (main.go:402-406, diff.go).                       *)
(***************************************************************************)
THEOREM FollowsAlways == Spec => []FollowsWhatItSays
<1>1. IInv => FollowsWhatItSays
  BY DEF IInv
<1> QED BY <1>1, IInvAlways, PTL

(***************************************************************************)
(* What policy.New makes of the files is a rule set of known machines,     *)
(* ports and dates: no name is left that stands for nothing.               *)
(***************************************************************************)
LEMMA RuleTypes ==
  ASSUME IInv, NEW u \in Range(live.inbound)
  PROVE  NewRule(u) \in Rule
<1>1. InboundEntry(u)
  BY DecodedFacts DEF IInv
<1>2. u.expires # Unreadable
  BY Enforced DEF Builds
<1> QED BY <1>1, <1>2 DEF InboundEntry, NewRule, Rule

THEOREM TypeCorrect == Spec => []TypeOK
<1>1. IInv => TypeOK
  <2> SUFFICES ASSUME IInv PROVE enforced.made.rules \in RuleSet
    BY DEF IInv, TypeOK
  <2> DEFINE in == [p \in Ports |-> {NewRule(u) : u \in {v \in Range(live.inbound) :
                                                    PortOf(Find(live, Self), v.app) = p}}]
             out == {<<t[1], PortOf(Find(live, t[1]), t[2])>> : t \in live.outbound}
  <2>1. Ids(live) \subseteq Peers
    BY Enforced DEF Ids, PeerEntry
  <2>2. in \in [Ports -> SUBSET Rule]
    BY RuleTypes
  <2>3. out \subseteq Peers \X Ports
    <3> SUFFICES ASSUME NEW t \in live.outbound
                 PROVE  t[1] \in Peers /\ PortOf(Find(live, t[1]), t[2]) \in Ports
      OBVIOUS
    <3>1. t[1] \in Ids(live) /\ t[2] \in AppsOf(Find(live, t[1]))
      BY Enforced DEF NamesOK
    <3>2. Find(live, t[1]) \in Range(live.peers)
      BY <3>1, Enforced, FindFacts
    <3>3. ServicesOK(Find(live, t[1])) /\ PeerEntry(Find(live, t[1]))
      BY <3>2, Enforced DEF PeerOK
    <3> QED BY <2>1, <3>1, <3>3, PortFacts
  <2>4. Compile(live) = [known |-> Ids(live), inbound |-> in, outbound |-> out]
    BY DEF Compile
  <2> HIDE DEF in, out
  <2> QED BY <2>1, <2>2, <2>3, <2>4, Enforced DEF RuleSet
<1> QED BY <1>1, IInvAlways, PTL
----------------------------------------------------------------------------
(***************************************************************************)
(* Compiled by port and address, the policy says what the file says by     *)
(* name: no two apps of a machine share a port, no two entries an id.      *)
(***************************************************************************)
LEMMA InboundByName ==
  ASSUME IInv, NEW id \in Ids(live), NEW app \in AppsOf(Find(live, Self)), NEW from
  PROVE  Inbound(enforced.made.rules, id, PortOf(Find(live, Self), app), from, today) <=>
           \E u \in Range(live.inbound) : u.app = app /\ Allows(NewRule(u), id, from, today)
<1> DEFINE self == Find(live, Self)
           port == PortOf(self, app)
           admits(u) == Allows(NewRule(u), id, from, today)
<1>1. Self \in Ids(live)
  BY Enforced DEF PeersOK
<1>2. self \in Range(live.peers)
  BY <1>1, Enforced, FindFacts
<1>3. ServicesOK(self) /\ PeerEntry(self)
  BY <1>2, Enforced DEF PeerOK
<1>4. port \in Ports
  BY <1>3, PortFacts
<1>5. \A u \in Range(live.inbound) : PortOf(self, u.app) = port <=> u.app = app
  <2>1. \A u \in Range(live.inbound) : u.app \in AppsOf(self)
    BY Enforced DEF NamesOK
  <2> QED BY <1>3, <2>1, PortFacts
<1>6. enforced.made.rules.inbound[port]
        = {NewRule(u) : u \in {v \in Range(live.inbound) : PortOf(self, v.app) = port}}
  BY <1>4, Enforced DEF Compile
<1>7. enforced.made.rules.known = Ids(live)
  BY Enforced DEF Compile
<1> HIDE DEF self, port
<1>8. Inbound(enforced.made.rules, id, port, from, today) <=>
        \E u \in Range(live.inbound) : u.app = app /\ admits(u)
  BY <1>4, <1>5, <1>6, <1>7 DEF Inbound
<1> QED BY <1>8 DEF self, port

LEMMA OutboundByName ==
  ASSUME IInv, NEW p \in Range(live.peers), NEW app \in AppsOf(p)
  PROVE  Outbound(enforced.made.rules, p.id, PortOf(p, app)) <=> <<p.id, app>> \in live.outbound
<1> DEFINE call(t) == <<t[1], PortOf(Find(live, t[1]), t[2])>>
<1>1. enforced.made.rules.outbound = {call(t) : t \in live.outbound}
  BY Enforced DEF Compile
<1>2. Find(live, p.id) = p
  BY Enforced, FindFacts
<1>3. ASSUME <<p.id, app>> \in live.outbound
      PROVE  <<p.id, PortOf(p, app)>> \in {call(t) : t \in live.outbound}
  BY <1>2, <1>3
<1>4. ASSUME NEW t \in live.outbound, call(t) = <<p.id, PortOf(p, app)>>
      PROVE  <<p.id, app>> \in live.outbound
  <2>1. t[1] = p.id /\ PortOf(p, t[2]) = PortOf(p, app)
    BY <1>2, <1>4
  <2>2. t[2] \in AppsOf(p)
    BY <1>2, <2>1, Enforced DEF NamesOK
  <2>3. t[2] = app
    BY <2>1, <2>2, Enforced, PortFacts DEF PeerOK
  <2>4. t = <<t[1], t[2]>>
    BY DecodedFacts DEF IInv
  <2> QED BY <2>1, <2>3, <2>4
<1> HIDE DEF call
<1> QED BY <1>1, <1>3, <1>4 DEF Outbound

(***************************************************************************)
(* Of any configuration that is followed the compiled rules say what its   *)
(* rules say by name, and no date among them is one that was not read.     *)
(***************************************************************************)
THEOREM PolicyByNameAlways == Spec => []PolicyByName
<1>1. IInv => PolicyByName
  <2> SUFFICES ASSUME IInv PROVE PolicyByName
    OBVIOUS
  <2>1. \A p \in Others(live) : p \in Range(live.peers)
    BY DEF Others
  <2>2. \A u \in Range(live.inbound) : u.expires # Unreadable
    BY DEF IInv, Sane, Builds
  <2> QED BY <2>1, <2>2, InboundByName, OutboundByName DEF PolicyByName
<1> QED BY <1>1, IInvAlways, PTL
----------------------------------------------------------------------------
(***************************************************************************)
(* The peers of the nat table are the other entries, each with what is its *)
(* own alone: its real addresses, and a tunnel address that is none.       *)
(***************************************************************************)
Turned(p) == [ip |-> p.ip, reals |-> RealIPs(p), ports |-> PortsOf(p)]

LEMMA TurnedApart ==
  ASSUME IInv
  PROVE  /\ enforced.made.nat.peers = {Turned(p) : p \in Others(live)}
         /\ \A p, q \in Others(live) :
              Turned(p) # Turned(q) => /\ p.ip # q.ip
                                       /\ Range(RealIPs(p)) \cap Range(RealIPs(q)) = {}
         /\ \A p, q \in Others(live) : p.ip \notin Range(RealIPs(q))
         /\ \A p \in Others(live) : RealIPs(p) # <<>> => RealIPs(p)[1] \in Range(RealIPs(p))
<1>1. enforced.made.nat.peers = {Turned(p) : p \in Others(live)}
  BY Enforced DEF natConfig, Turned
<1>2. \A p \in Others(live) : p \in Range(live.peers)
  BY DEF Others
<1>3. ASSUME NEW p \in Others(live), NEW q \in Others(live), Turned(p) # Turned(q)
      PROVE  p.ip # q.ip /\ Range(RealIPs(p)) \cap Range(RealIPs(q)) = {}
  <2>1. p # q
    BY <1>3
  <2> QED BY <1>2, <2>1, Enforced, EntriesDiffer DEF DistinctPeers
<1>4. ASSUME NEW p \in Others(live), NEW q \in Others(live)
      PROVE  p.ip \notin Range(RealIPs(q))
  BY <1>2, Enforced DEF PeerOK
<1>5. \A p \in Others(live) : RealIPs(p) # <<>> => RealIPs(p)[1] \in Range(RealIPs(p))
  BY <1>2, Enforced, FirstReal
<1> QED BY <1>1, <1>3, <1>4, <1>5

\* A connection is turned to the tunnel address of a machine that has the
\* address it goes to.
LEMMA SteeredTo ==
  ASSUME IInv, NEW a, NEW port, NEW ip \in Steered(enforced.made.nat, a, port)
  PROVE  \E q \in Others(live) : ip = q.ip /\ a \in Range(RealIPs(q))
BY TurnedApart DEF Steered, Turned

(***************************************************************************)
(* A connection to a machine's real address is turned to this machine, and *)
(* not to two (validate.go:250-253).                                       *)
(***************************************************************************)
THEOREM SteeredToItsOwnerAlways == Spec => []SteeredToItsOwner
<1>1. IInv => SteeredToItsOwner
  <2> SUFFICES ASSUME IInv, NEW p \in Others(live), NEW a \in Range(RealIPs(p)), NEW port,
                      NEW ip \in Steered(enforced.made.nat, a, port)
               PROVE  ip = p.ip
    BY DEF SteeredToItsOwner
  <2>1. PICK q \in Others(live) : ip = q.ip /\ a \in Range(RealIPs(q))
    BY SteeredTo
  <2>2. Turned(p) = Turned(q)
    BY <2>1, TurnedApart
  <2> QED BY <2>1, <2>2 DEF Turned
<1> QED BY <1>1, IInvAlways, PTL

(***************************************************************************)
(* The address an app sees of a peer is no other peer's, and a call to it  *)
(* goes to no other peer (design/README.md:306).                           *)
(***************************************************************************)
THEOREM PresentedTellsApartAlways == Spec => []PresentedTellsApart
<1>1. IInv => PresentedTellsApart
  <2> DEFINE n == enforced.made.nat
  <2> SUFFICES ASSUME IInv, NEW x \in n.peers, NEW y \in n.peers, x # y
               PROVE  /\ Presented(n, x) # Presented(n, y)
                      /\ \A port \in Ports : y.ip \notin Steered(n, Presented(n, x), port)
    BY DEF PresentedTellsApart
  <2>1. PICK p \in Others(live) : x = Turned(p)
    BY TurnedApart
  <2>2. PICK q \in Others(live) : y = Turned(q)
    BY TurnedApart
  <2>3. p.ip # q.ip /\ Range(RealIPs(p)) \cap Range(RealIPs(q)) = {}
    BY <2>1, <2>2, TurnedApart
  <2>4. /\ x.ip = p.ip /\ x.reals = RealIPs(p)
        /\ y.ip = q.ip /\ y.reals = RealIPs(q)
    BY <2>1, <2>2 DEF Turned
  <2> HIDE DEF n
  <2>5. /\ Presented(n, x) \in Range(RealIPs(p)) \/ Presented(n, x) = p.ip
        /\ Presented(n, y) \in Range(RealIPs(q)) \/ Presented(n, y) = q.ip
    BY <2>4, TurnedApart DEF Presented
  <2>6. Presented(n, x) # Presented(n, y)
    BY <2>3, <2>5, TurnedApart
  <2>7. ASSUME NEW port, q.ip \in Steered(n, Presented(n, x), port) PROVE FALSE
    <3>1. PICK r \in Others(live) : q.ip = r.ip /\ Presented(n, x) \in Range(RealIPs(r))
      BY <2>7, SteeredTo DEF n
    <3>2. Presented(n, x) \in Range(RealIPs(p))
      BY <2>5, <3>1, TurnedApart
    <3>3. Turned(p) = Turned(r)
      BY <3>1, <3>2, TurnedApart
    <3>4. p.ip = r.ip
      BY <3>3 DEF Turned
    <3> QED BY <2>3, <3>1, <3>4
  <2> QED BY <2>4, <2>6, <2>7
<1> QED BY <1>1, IInvAlways, PTL
============================================================================
