------------------------- MODULE PacketFilterProofs -------------------------
(***************************************************************************)
(* Theorems about the filter around the TUN interface: about PacketFilter  *)
(* for any set of flows, any policies, any limits and times, and any       *)
(* number of peers, and, from the clamp on, about Packets for any batches, *)
(* rules and limits.                                                       *)
(***************************************************************************)
EXTENDS PacketFilter, Packets,
        FiniteSetTheorems, SequenceTheorems, WellFoundedInduction, TLAPS
----------------------------------------------------------------------------
(***************************************************************************)
(* The operators of FlowTable, for any set of flows, any times and any     *)
(* limit.                                                                  *)
(***************************************************************************)

(***************************************************************************)
(* The empty map newFlows and newConns start from is a table, and it holds *)
(* nothing.                                                                *)
(***************************************************************************)
LEMMA EmptyIsTable == IsTable(EmptyTable) /\ DOMAIN EmptyTable = {}
  BY DEF IsTable, EmptyTable, Entry

(***************************************************************************)
(* What First and Allow leave before they write is a part of the table:    *)
(* sweep adds and alters nothing (flow.go:172-188).                        *)
(***************************************************************************)
LEMMA RoomIsPart ==
  ASSUME NEW t, IsTable(t), NEW ttl, NEW max, NEW now,
         NEW u \in Room(t, ttl, max, now)
  PROVE  /\ IsTable(u)
         /\ DOMAIN u \subseteq DOMAIN t
         /\ \A k \in DOMAIN u : u[k] = t[k]
<1> DEFINE live == Live(t, ttl, now)
<1>1. ASSUME NEW S \in SUBSET live
      PROVE  LET r == Restrict(t, S)
             IN  /\ IsTable(r)
                 /\ DOMAIN r \subseteq DOMAIN t
                 /\ \A k \in DOMAIN r : r[k] = t[k]
  BY <1>1 DEF Restrict, Live, IsTable
<1>2. CASE Cardinality(DOMAIN t) >= max
  <2>1. \E S \in SUBSET live : u = Restrict(t, S)
    BY <1>2 DEF Room, Swept
  <2> QED BY <1>1, <2>1
<1>3. CASE ~ (Cardinality(DOMAIN t) >= max)
  BY <1>3 DEF Room
<1> QED BY <1>2, <1>3

(***************************************************************************)
(* Sweeping a table within its limit leaves room for one more flow: even   *)
(* when nothing has expired, half of it goes, and never nothing            *)
(* (flow.go:179-187).                                                      *)
(***************************************************************************)
LEMMA RoomForOne ==
  ASSUME NEW t, IsTable(t), IsFiniteSet(DOMAIN t), NEW ttl,
         NEW max \in Nat \ {0}, Cardinality(DOMAIN t) <= max, NEW now,
         NEW u \in Room(t, ttl, max, now)
  PROVE  IsFiniteSet(DOMAIN u) /\ Cardinality(DOMAIN u) < max
<1> DEFINE live == Live(t, ttl, now)
           n    == Cardinality(live)
           half == Max({1, n \div 2})
<1>0. Cardinality(DOMAIN t) \in Nat
  BY FS_CardinalityType
<1>1. IsFiniteSet(live) /\ n \in Nat /\ n <= Cardinality(DOMAIN t)
  BY FS_Subset, FS_CardinalityType DEF Live
<1>2. half >= 1 /\ half \in Nat
  <2> HIDE DEF n
  <2>1. n \div 2 \in Nat
    BY <1>1
  <2>2. \E x \in {1, n \div 2} : \A y \in {1, n \div 2} : x >= y
    BY <2>1
  <2> QED BY <2>1, <2>2 DEF Max
<1>3. ASSUME NEW S \in SUBSET live
      PROVE  DOMAIN Restrict(t, S) = S
  BY DEF Restrict
<1>4. CASE ~ (Cardinality(DOMAIN t) >= max)
  BY <1>4, <1>0 DEF Room
<1>5. CASE Cardinality(DOMAIN t) >= max /\ n < max
  <2>1. u = Restrict(t, live)
    BY <1>5 DEF Room, Swept
  <2> QED BY <2>1, <1>1, <1>3, <1>5
<1>6. CASE Cardinality(DOMAIN t) >= max /\ ~ (n < max)
  <2>1. PICK gone \in SUBSET live : u = Restrict(t, live \ gone) /\ Cardinality(gone) = half
    BY <1>6 DEF Room, Swept
  <2>2. DOMAIN u = live \ gone
    BY <2>1, <1>3
  <2>3. live \cap gone = gone
    OBVIOUS
  <2>4. IsFiniteSet(live \ gone) /\ Cardinality(live \ gone) = n - half
    <3> HIDE DEF live
    <3>1. /\ IsFiniteSet(live \ gone)
          /\ Cardinality(live \ gone) = Cardinality(live) - Cardinality(live \cap gone)
      BY <1>1, FS_Difference
    <3> QED BY <3>1, <2>1, <2>3
  <2> HIDE DEF live, n, half
  <2> QED BY <2>2, <2>4, <1>0, <1>1, <1>2
<1> QED BY <1>4, <1>5, <1>6

(***************************************************************************)
(* Writing an entry: the table gains at most the flow that is written.     *)
(***************************************************************************)
LEMMA PutIsTable ==
  ASSUME NEW t, IsTable(t), NEW k \in Keys, NEW e \in Entry
  PROVE  /\ IsTable(Put(t, k, e))
         /\ DOMAIN Put(t, k, e) = DOMAIN t \cup {k}
         /\ Put(t, k, e)[k] = e
         /\ \A j \in DOMAIN t : j # k => Put(t, k, e)[j] = t[j]
  BY DEF Put, IsTable

(***************************************************************************)
(* First and Allow keep a table within its limit.                          *)
(***************************************************************************)
LEMMA WriteIsBounded ==
  ASSUME NEW t, IsTable(t), IsFiniteSet(DOMAIN t), NEW ttl,
         NEW max \in Nat \ {0}, Cardinality(DOMAIN t) <= max, NEW now,
         NEW u \in Room(t, ttl, max, now), NEW k \in Keys, NEW e \in Entry
  PROVE  /\ IsFiniteSet(DOMAIN Put(u, k, e))
         /\ Cardinality(DOMAIN Put(u, k, e)) <= max
<1>1. IsTable(u)
  BY RoomIsPart
<1>2. IsFiniteSet(DOMAIN u) /\ Cardinality(DOMAIN u) < max
  BY RoomForOne
<1>3. Cardinality(DOMAIN u) \in Nat
  BY <1>2, FS_CardinalityType
<1>4. DOMAIN Put(u, k, e) = DOMAIN u \cup {k}
  BY <1>1, PutIsTable
<1>5. /\ IsFiniteSet(DOMAIN u \cup {k})
      /\ Cardinality(DOMAIN u \cup {k}) <= Cardinality(DOMAIN u) + 1
  <2> DEFINE D == DOMAIN u
  <2> HIDE DEF D
  <2>1. /\ IsFiniteSet(D \cup {k})
        /\ Cardinality(D \cup {k}) = IF k \in D THEN Cardinality(D) ELSE Cardinality(D) + 1
    <3>1. IsFiniteSet(D)
      BY <1>2 DEF D
    <3> QED BY <3>1, FS_AddElement
  <2>2. Cardinality(D) \in Nat
    BY <1>3 DEF D
  <2>3. IsFiniteSet(D \cup {k}) /\ Cardinality(D \cup {k}) <= Cardinality(D) + 1
    BY <2>1, <2>2
  <2> QED BY <2>3 DEF D
<1>6. Cardinality(DOMAIN u \cup {k}) \in Nat
  BY <1>5, FS_CardinalityType
<1> QED BY <1>2, <1>3, <1>4, <1>5, <1>6

(***************************************************************************)
(* Renewing, forgetting and ageing keep a table a table; only forgetting   *)
(* changes which flows it holds.                                           *)
(***************************************************************************)
LEMMA TouchIsTable ==
  ASSUME NEW t, IsTable(t), NEW k \in DOMAIN t, NEW now \in Nat
  PROVE  /\ IsTable(Touch(t, k, now))
         /\ DOMAIN Touch(t, k, now) = DOMAIN t
         /\ \A j \in DOMAIN t : Touch(t, k, now)[j].allowed = t[j].allowed
  BY DEF Touch, IsTable, Entry

LEMMA ForgottenIsTable ==
  ASSUME NEW t, IsTable(t), NEW keep
  PROVE  /\ IsTable(Forgotten(t, keep))
         /\ DOMAIN Forgotten(t, keep) \subseteq DOMAIN t
         /\ \A j \in DOMAIN Forgotten(t, keep) :
              /\ Forgotten(t, keep)[j] = t[j]
              /\ t[j].allowed => j \in keep
  BY DEF Forgotten, Restrict, IsTable

LEMMA OlderIsTable ==
  ASSUME NEW t, IsTable(t), NEW cap \in [Keys -> Nat]
  PROVE  /\ IsTable(Older(t, cap))
         /\ DOMAIN Older(t, cap) = DOMAIN t
         /\ \A j \in DOMAIN t : Older(t, cap)[j].allowed = t[j].allowed
  BY DEF Older, IsTable, Entry
----------------------------------------------------------------------------

(***************************************************************************)
(* The inductive invariant.  Besides what is claimed it says what a        *)
(* handler knows at each of its lock sections: at "log" and "admit" its    *)
(* decision still is the verdict of the rules it loaded.                   *)
(***************************************************************************)
Granted(v, k) == \E s \in Sights : Permits(Compiled[v], k, s)

Limits == /\ IsFiniteSet(DOMAIN logs) /\ IsFiniteSet(DOMAIN conns)
          /\ Bounded

Decided ==
  \A p \in Peers :
    /\ pc[p] = "admit" => allow[p]
    /\ pc[p] = "reply" => ~ allow[p]
    /\ pc[p] \in {"log", "admit"} /\ allow[p] => Granted(held[p], pkt[p])

IInv == TypeOK /\ Decided /\ OnlyPermitted /\ Limits

\* newFilter and newFlows give the variables values of their types.
LEMMA TypeInit == Init => TypeOK
  BY FilterAssumption, EmptyIsTable DEF Init, TypeOK

(***************************************************************************)
(* A verdict is a yes or a no.                                             *)
(***************************************************************************)
LEMMA PermitsIsBoolean ==
  ASSUME NEW r, NEW k, NEW s
  PROVE  Permits(r, k, s) \in BOOLEAN
<1>1. OutVerdict(r, k) \in BOOLEAN
  <2>1. \A d, port : Outbound(r, d, port) \in BOOLEAN
    BY DEF Outbound
  <2>2. \A d : OutboundICMP(r, d) \in BOOLEAN
    BY DEF OutboundICMP
  <2> QED BY <2>1, <2>2 DEF OutVerdict
<1>2. \A src, port, from, today : Inbound(r, src, port, from, today) \in BOOLEAN
  BY DEF Inbound
<1>3. \A src, from, today : InboundICMP(r, src, from, today) \in BOOLEAN
  BY DEF InboundICMP
<1>4. InVerdict(r, k, s) \in BOOLEAN
  BY <1>2, <1>3 DEF InVerdict
<1> QED BY <1>1, <1>4 DEF Permits

(***************************************************************************)
(* The lock sections of flow.go, the purge and the passage of time leave   *)
(* tables tables.                                                          *)
(***************************************************************************)
LEMMA TablesStay ==
  ASSUME TypeOK, [Next]_vars
  PROVE  IsTable(logs)' /\ IsTable(conns)'
<1> USE FilterAssumption DEF TypeOK
<1>1. CASE UNCHANGED <<logs, conns>>
  BY <1>1
<1>2. ASSUME NEW p \in Peers, PassReply(p)
      PROVE  IsTable(logs)' /\ IsTable(conns)'
  BY <1>2, TouchIsTable DEF PassReply, Answers, Live
<1>3. ASSUME NEW p \in Peers, LogKnown(p)
      PROVE  IsTable(logs)' /\ IsTable(conns)'
  BY <1>3, TouchIsTable DEF LogKnown, Seen, Live
<1>4. ASSUME NEW p \in Peers, LogNew(p)
      PROVE  IsTable(logs)' /\ IsTable(conns)'
  <2>1. PICK u \in Room(logs, LogTTL, LogMax, 0) :
          logs' = Put(u, pkt[p], [age |-> 0, allowed |-> FALSE])
    BY <1>4 DEF LogNew, FirstOutcomes
  <2>2. pkt[p] \in Keys /\ [age |-> 0, allowed |-> FALSE] \in Entry
    BY <1>4 DEF LogNew, Entry
  <2>3. IsTable(u)
    BY RoomIsPart
  <2> QED BY <1>4, <2>1, <2>2, <2>3, PutIsTable DEF LogNew
<1>5. ASSUME NEW p \in Peers, Admit(p)
      PROVE  IsTable(logs)' /\ IsTable(conns)'
  <2>1. PICK u \in Room(conns, ConnTTL, ConnMax, 0) :
          conns' = Put(u, pkt[p], [age |-> 0, allowed |-> TRUE])
    BY <1>5 DEF Admit, AllowOutcomes
  <2>2. pkt[p] \in Keys /\ [age |-> 0, allowed |-> TRUE] \in Entry
    BY <1>5 DEF Admit, Entry
  <2>3. IsTable(u)
    BY RoomIsPart
  <2> QED BY <1>5, <2>1, <2>2, <2>3, PutIsTable DEF Admit
<1>6. CASE Purge
  BY <1>6, ForgottenIsTable DEF Purge
<1>7. CASE Tick
  BY <1>7, OlderIsTable DEF Tick
<1> QED
  BY <1>1, <1>2, <1>3, <1>4, <1>5, <1>6, <1>7
  DEF Next, Handle, vars, Load, Judge, NoReply, Store

\* Every step keeps the types.
LEMMA TypeStep == TypeOK /\ [Next]_vars => TypeOK'
<1> SUFFICES ASSUME TypeOK, [Next]_vars PROVE TypeOK'
  OBVIOUS
<1> USE FilterAssumption
<1>0. IsTable(logs)' /\ IsTable(conns)'
  BY TablesStay
<1> USE <1>0
<1>1. ASSUME NEW p \in Peers, Load(p) PROVE TypeOK'
  BY <1>1 DEF Load, Goto, TypeOK
<1>2. ASSUME NEW p \in Peers, Judge(p) PROVE TypeOK'
  <2>1. Permits(Compiled[held[p]], pkt[p], sight) \in BOOLEAN
    BY PermitsIsBoolean
  <2> QED BY <1>2, <2>1 DEF Judge, Goto, TypeOK
<1>3. ASSUME NEW p \in Peers, PassReply(p) PROVE TypeOK'
  BY <1>3 DEF PassReply, Done, Goto, TypeOK
<1>4. ASSUME NEW p \in Peers, NoReply(p) PROVE TypeOK'
  BY <1>4 DEF NoReply, Goto, TypeOK
<1>5. ASSUME NEW p \in Peers, LogKnown(p) PROVE TypeOK'
  BY <1>5 DEF LogKnown, Done, Goto, TypeOK
<1>6. ASSUME NEW p \in Peers, LogNew(p) PROVE TypeOK'
  <2>1. CASE allow[p]
    <3>1. /\ pc' = [pc EXCEPT ![p] = "admit"] /\ pc[p] = "log"
          /\ UNCHANGED <<rules, updater, conns, sight, late, pkt, held, allow>>
      BY <1>6, <2>1 DEF LogNew, Goto
    <3> QED BY <3>1 DEF TypeOK
  <2>2. CASE ~ allow[p]
    <3>1. /\ pc' = [pc EXCEPT ![p] = "idle"]
          /\ pkt' = [pkt EXCEPT ![p] = NoKey]
          /\ held' = [held EXCEPT ![p] = NoVersion]
          /\ allow' = [allow EXCEPT ![p] = FALSE]
          /\ UNCHANGED <<rules, updater, conns, sight, late>>
      BY <1>6, <2>2 DEF LogNew, Done, Goto
    <3> QED BY <3>1 DEF TypeOK
  <2> QED BY <2>1, <2>2
<1>7. ASSUME NEW p \in Peers, Admit(p) PROVE TypeOK'
  BY <1>7 DEF Admit, Done, Goto, TypeOK
<1>8. ASSUME NEW v \in Versions, Store(v) PROVE TypeOK'
  BY <1>8 DEF Store, work, TypeOK
<1>9. CASE Purge
  BY <1>9 DEF Purge, work, TypeOK
<1>10. CASE Tick
  BY <1>10 DEF Tick, Coming, work, TypeOK
<1>11. CASE UNCHANGED vars
  BY <1>11 DEF vars, TypeOK
<1> QED
  BY <1>1, <1>2, <1>3, <1>4, <1>5, <1>6, <1>7, <1>8, <1>9, <1>10, <1>11
  DEF Next, Handle

(***************************************************************************)
(* The variables have their types in every reachable state (the goroutines *)
(* of filter.go and device.go).                                            *)
(***************************************************************************)
THEOREM TypeCorrect == Spec => []TypeOK
<1> QED BY TypeInit, TypeStep, PTL DEF Spec

----------------------------------------------------------------------------
\* First leaves the log table within its limit.
LEMMA LogNewWrites ==
  ASSUME TypeOK, Limits, NEW p \in Peers, LogNew(p)
  PROVE  IsFiniteSet(DOMAIN logs') /\ Cardinality(DOMAIN logs') <= LogMax
<1>1. PICK u \in Room(logs, LogTTL, LogMax, 0) :
        logs' = Put(u, pkt[p], [age |-> 0, allowed |-> FALSE])
  BY DEF LogNew, FirstOutcomes
<1>2. pkt[p] \in Keys /\ [age |-> 0, allowed |-> FALSE] \in Entry
  BY DEF LogNew, Entry, TypeOK
<1>3. IsTable(logs) /\ IsFiniteSet(DOMAIN logs) /\ Cardinality(DOMAIN logs) <= LogMax
  BY DEF TypeOK, Limits, Bounded
<1>4. LogMax \in Nat \ {0}
  BY FilterAssumption
<1> QED BY <1>1, <1>2, <1>3, <1>4, WriteIsBounded

(***************************************************************************)
(* Allow leaves the old connections that were not swept, and the packet's, *)
(* within the limit of the connection table.                               *)
(***************************************************************************)
LEMMA AdmitWrites ==
  ASSUME TypeOK, Limits, NEW p \in Peers, Admit(p)
  PROVE  /\ IsFiniteSet(DOMAIN conns') /\ Cardinality(DOMAIN conns') <= ConnMax
         /\ pkt[p] \in Keys
         /\ DOMAIN conns' \subseteq DOMAIN conns \cup {pkt[p]}
         /\ conns'[pkt[p]].allowed
         /\ \A k \in DOMAIN conns' : k # pkt[p] => conns'[k] = conns[k]
<1>1. PICK u \in Room(conns, ConnTTL, ConnMax, 0) :
        conns' = Put(u, pkt[p], [age |-> 0, allowed |-> TRUE])
  BY DEF Admit, AllowOutcomes
<1>2. pkt[p] \in Keys /\ [age |-> 0, allowed |-> TRUE] \in Entry
  BY DEF Admit, Entry, TypeOK
<1>3. IsTable(conns) /\ IsFiniteSet(DOMAIN conns) /\ Cardinality(DOMAIN conns) <= ConnMax
  BY DEF TypeOK, Limits, Bounded
<1>4. ConnMax \in Nat \ {0}
  BY FilterAssumption
<1>5. IsFiniteSet(DOMAIN conns') /\ Cardinality(DOMAIN conns') <= ConnMax
  BY <1>1, <1>2, <1>3, <1>4, WriteIsBounded
<1>6. /\ IsTable(u) /\ DOMAIN u \subseteq DOMAIN conns
      /\ \A k \in DOMAIN u : u[k] = conns[k]
  BY <1>1, <1>3, RoomIsPart
<1> DEFINE e == [age |-> 0, allowed |-> TRUE]
<1>7. /\ DOMAIN conns' = DOMAIN u \cup {pkt[p]}
      /\ conns'[pkt[p]] = e
      /\ \A k \in DOMAIN u : k # pkt[p] => conns'[k] = u[k]
  <2> HIDE DEF e
  <2>1. IsTable(u) /\ pkt[p] \in Keys /\ e \in Entry /\ conns' = Put(u, pkt[p], e)
    BY <1>1, <1>2, <1>6 DEF e
  <2>2. /\ DOMAIN Put(u, pkt[p], e) = DOMAIN u \cup {pkt[p]}
        /\ Put(u, pkt[p], e)[pkt[p]] = e
        /\ \A j \in DOMAIN u : j # pkt[p] => Put(u, pkt[p], e)[j] = u[j]
    BY DEF Put
  <2> QED BY <2>1, <2>2
<1>8. conns'[pkt[p]].allowed
  BY <1>7
<1> QED BY <1>2, <1>5, <1>6, <1>7, <1>8

(***************************************************************************)
(* Every other step leaves the two tables with the flows they had, or with *)
(* fewer.                                                                  *)
(***************************************************************************)
LEMMA OthersAddNothing ==
  ASSUME TypeOK, [Next]_vars, \A p \in Peers : ~ LogNew(p) /\ ~ Admit(p)
  PROVE  /\ DOMAIN logs' \subseteq DOMAIN logs
         /\ DOMAIN conns' \subseteq DOMAIN conns
         /\ \A k \in DOMAIN conns' : conns'[k].allowed = conns[k].allowed
<1> DEFINE Kept == /\ DOMAIN logs' \subseteq DOMAIN logs
                   /\ DOMAIN conns' \subseteq DOMAIN conns
                   /\ \A k \in DOMAIN conns' : conns'[k].allowed = conns[k].allowed
<1>1. CASE UNCHANGED <<logs, conns>>
  BY <1>1
<1>2. ASSUME NEW p \in Peers, PassReply(p) PROVE Kept
  BY <1>2, TouchIsTable DEF PassReply, Answers, Live, TypeOK
<1>3. ASSUME NEW p \in Peers, LogKnown(p) PROVE Kept
  BY <1>3, TouchIsTable DEF LogKnown, Seen, Live, TypeOK
<1>4. CASE Purge
  BY <1>4, ForgottenIsTable DEF Purge, TypeOK
<1>5. CASE Tick
  <2>1. LogTTL \in [Keys -> Nat] /\ ConnTTL \in [Keys -> Nat]
    BY FilterAssumption
  <2> QED BY <1>5, <2>1, OlderIsTable DEF Tick, TypeOK
<1> QED
  BY <1>1, <1>2, <1>3, <1>4, <1>5
  DEF Next, Handle, vars, Load, Judge, NoReply, Store

\* Every step keeps both tables within their limits.
LEMMA LimitsStep == TypeOK /\ Limits /\ [Next]_vars => Limits'
<1> SUFFICES ASSUME TypeOK, Limits, [Next]_vars PROVE Limits'
  OBVIOUS
<1>1. ASSUME NEW p \in Peers, LogNew(p) PROVE Limits'
  BY <1>1, LogNewWrites DEF Limits, Bounded, LogNew
<1>2. ASSUME NEW p \in Peers, Admit(p) PROVE Limits'
  BY <1>2, AdmitWrites DEF Limits, Bounded, Admit
<1>3. CASE \A p \in Peers : ~ LogNew(p) /\ ~ Admit(p)
  <2>1. DOMAIN logs' \in SUBSET DOMAIN logs /\ DOMAIN conns' \in SUBSET DOMAIN conns
    BY <1>3, OthersAddNothing
  <2>2. /\ IsFiniteSet(DOMAIN logs') /\ Cardinality(DOMAIN logs') <= Cardinality(DOMAIN logs)
        /\ Cardinality(DOMAIN logs) \in Nat /\ Cardinality(DOMAIN logs') \in Nat
    BY <2>1, FS_Subset, FS_CardinalityType DEF Limits
  <2>3. /\ IsFiniteSet(DOMAIN conns') /\ Cardinality(DOMAIN conns') <= Cardinality(DOMAIN conns)
        /\ Cardinality(DOMAIN conns) \in Nat /\ Cardinality(DOMAIN conns') \in Nat
    BY <2>1, FS_Subset, FS_CardinalityType DEF Limits
  <2> QED BY <2>2, <2>3, FilterAssumption DEF Limits, Bounded
<1> QED BY <1>1, <1>2, <1>3

\* Both tables start empty.
LEMMA LimitsInit == Init => Limits
<1> SUFFICES ASSUME Init PROVE Limits
  OBVIOUS
<1>1. DOMAIN logs = {} /\ DOMAIN conns = {}
  BY DEF Init, EmptyTable
<1>2. IsFiniteSet({}) /\ Cardinality({}) = 0
  BY FS_EmptySet
<1> QED BY <1>1, <1>2, FilterAssumption DEF Limits, Bounded

(***************************************************************************)
(* However the packets of different sources interleave, neither table of   *)
(* flow.go outgrows its limit.                                             *)
(***************************************************************************)
THEOREM BoundedAlways == Spec => []Bounded
<1>1. Init => TypeOK /\ Limits
  BY TypeInit, LimitsInit
<1>2. TypeOK /\ Limits /\ [Next]_vars => (TypeOK /\ Limits)'
  BY TypeStep, LimitsStep
<1>3. TypeOK /\ Limits => Bounded
  BY DEF Limits
<1> QED BY <1>1, <1>2, <1>3, PTL DEF Spec

----------------------------------------------------------------------------
(***************************************************************************)
(* A handler's decision stays the verdict of the rules it loaded, whatever *)
(* is stored while it runs: only its own steps touch it.                   *)
(***************************************************************************)
LEMMA DecidedStep == TypeOK /\ Decided /\ [Next]_vars => Decided'
<1> SUFFICES ASSUME TypeOK, Decided, [Next]_vars PROVE Decided'
  OBVIOUS
<1>1. ASSUME NEW p \in Peers, Load(p) PROVE Decided'
  BY <1>1 DEF Load, Goto, TypeOK, Decided
<1>2. ASSUME NEW p \in Peers, Judge(p) PROVE Decided'
  <2> DEFINE d == Permits(Compiled[held[p]], pkt[p], sight)
  <2>1. /\ pc' = [pc EXCEPT ![p] = IF d THEN "log" ELSE "reply"]
        /\ allow' = [allow EXCEPT ![p] = d]
        /\ UNCHANGED <<pkt, held>>
    BY <1>2 DEF Judge, Goto
  <2>2. d \in BOOLEAN
    BY PermitsIsBoolean
  <2>3. d => Granted(held[p], pkt[p])
    BY DEF Granted, TypeOK
  <2> HIDE DEF d
  <2> QED BY <2>1, <2>2, <2>3 DEF Decided, TypeOK
<1>3. ASSUME NEW p \in Peers, PassReply(p) PROVE Decided'
  BY <1>3 DEF PassReply, Done, Goto, TypeOK, Decided
<1>4. ASSUME NEW p \in Peers, NoReply(p) PROVE Decided'
  BY <1>4 DEF NoReply, Goto, TypeOK, Decided
<1>5. ASSUME NEW p \in Peers, LogKnown(p) PROVE Decided'
  BY <1>5 DEF LogKnown, Done, Goto, TypeOK, Decided
<1>6. ASSUME NEW p \in Peers, LogNew(p) PROVE Decided'
  BY <1>6 DEF LogNew, Done, Goto, TypeOK, Decided
<1>7. ASSUME NEW p \in Peers, Admit(p) PROVE Decided'
  BY <1>7 DEF Admit, Done, Goto, TypeOK, Decided
<1>8. CASE UNCHANGED work
  BY <1>8 DEF work, Decided
<1> QED
  BY <1>1, <1>2, <1>3, <1>4, <1>5, <1>6, <1>7, <1>8
  DEF Next, Handle, Store, Purge, Tick, vars, work

(***************************************************************************)
(* The connection table only holds connections that were let through, and  *)
(* each was the verdict of some version: allowIn and allowOut call         *)
(* conns.Allow for nothing else, and IsReply and Forget never write one.   *)
(***************************************************************************)
LEMMA PermittedStep ==
  TypeOK /\ Limits /\ Decided /\ OnlyPermitted /\ [Next]_vars => OnlyPermitted'
<1> SUFFICES ASSUME TypeOK, Limits, Decided, OnlyPermitted, [Next]_vars
             PROVE  OnlyPermitted'
  OBVIOUS
<1>0. OnlyPermitted <=>
        \A k \in DOMAIN conns : conns[k].allowed /\ \E v \in Versions : Granted(v, k)
  BY DEF OnlyPermitted, Granted
<1>1. OnlyPermitted' <=>
        \A k \in DOMAIN conns' : conns'[k].allowed /\ \E v \in Versions : Granted(v, k)
  BY DEF OnlyPermitted, Granted
<1>2. ASSUME NEW p \in Peers, Admit(p) PROVE OnlyPermitted'
  <2>1. pc[p] = "admit" /\ held[p] \in Versions
    BY <1>2 DEF Admit, TypeOK
  <2>2. Granted(held[p], pkt[p])
    BY <2>1 DEF Decided
  <2> QED BY <1>0, <1>1, <1>2, <2>1, <2>2, AdmitWrites
<1>3. ASSUME NEW p \in Peers, LogNew(p) PROVE OnlyPermitted'
  BY <1>0, <1>1, <1>3 DEF LogNew
<1>4. CASE \A p \in Peers : ~ LogNew(p) /\ ~ Admit(p)
  <2>1. /\ DOMAIN conns' \subseteq DOMAIN conns
        /\ \A k \in DOMAIN conns' : conns'[k].allowed = conns[k].allowed
    BY <1>4, OthersAddNothing
  <2> QED BY <1>0, <1>1, <2>1
<1> QED BY <1>2, <1>3, <1>4

\* IInv holds at the start and every step keeps it.
LEMMA IInvInductive == (Init => IInv) /\ (IInv /\ [Next]_vars => IInv')
<1>1. Init => Decided /\ OnlyPermitted
  BY DEF Init, Decided, OnlyPermitted, EmptyTable
<1>2. Init => IInv
  BY <1>1, TypeInit, LimitsInit DEF IInv
<1>3. IInv /\ [Next]_vars => IInv'
  BY TypeStep, LimitsStep, DecidedStep, PermittedStep DEF IInv
<1> QED BY <1>2, <1>3

(***************************************************************************)
(* In every reachable state the remembered connections were let through by *)
(* some version of the rules.                                              *)
(***************************************************************************)
THEOREM OnlyPermittedAlways == Spec => []OnlyPermitted
<1>1. IInv => OnlyPermitted
  BY DEF IInv
<1> QED BY <1>1, IInvInductive, PTL DEF Spec

----------------------------------------------------------------------------
(***************************************************************************)
(* A connection whose answers do not pass is opened only by conns.Allow    *)
(* for its own packet: marking another connection, the purge and time      *)
(* passing open nothing.                                                   *)
(***************************************************************************)
THEOREM OnlySenderOpens == Spec => OnlySenderRevives
<1> DEFINE Opened(k) == Answers(conns, ConnTTL, k, 0)' /\ ~ Answers(conns, ConnTTL, k, 0)
           BySender(k) == \E p \in Peers : pc[p] = "admit" /\ pkt[p] = k /\ allow[p]
<1>1. ASSUME IInv, [Next]_vars, NEW k \in Keys, Opened(k) PROVE BySender(k)
  <2>0. TypeOK /\ Limits /\ Decided /\ IsTable(conns) /\ ConnTTL \in [Keys -> Nat \ {0}]
    BY <1>1, FilterAssumption DEF IInv, TypeOK
  <2>1. k \in DOMAIN conns' /\ conns'[k].age < ConnTTL[k] /\ conns'[k].allowed
    BY <1>1, <2>0, TypeStep DEF Answers, Live, TypeOK, IsTable, Entry
  <2>2. ~ (k \in DOMAIN conns /\ conns[k].age < ConnTTL[k] /\ conns[k].allowed)
    BY <1>1, <2>0 DEF Answers, Live, IsTable, Entry
  <2>3. ASSUME NEW p \in Peers, Admit(p) PROVE BySender(k)
    BY <2>0, <2>1, <2>2, <2>3, AdmitWrites DEF Admit, Decided
  <2>4. ASSUME NEW p \in Peers, PassReply(p) PROVE FALSE
    BY <2>0, <2>1, <2>2, <2>4 DEF PassReply, Answers, Live, Touch, IsTable, Entry
  <2>5. CASE Purge
    BY <2>0, <2>1, <2>2, <2>5, ForgottenIsTable DEF Purge
  <2>6. CASE Tick
    BY <2>0, <2>1, <2>2, <2>6 DEF Tick, Older, IsTable, Entry
  <2>7. CASE UNCHANGED conns
    BY <2>1, <2>2, <2>7
  <2> QED
    BY <1>1, <2>3, <2>4, <2>5, <2>6, <2>7
    DEF Next, Handle, vars, Load, Judge, NoReply, LogKnown, LogNew, Store
<1>2. IInv /\ [Next]_vars => [\A k \in Keys : Opened(k) => BySender(k)]_vars
  BY <1>1
<1> QED BY <1>2, IInvInductive, PTL DEF Spec, OnlySenderRevives

(***************************************************************************)
(* While the connection table has room, Allow drops nothing to write down  *)
(* a connection.                                                           *)
(***************************************************************************)
LEMMA RoomLeavesAll ==
  ASSUME NEW t, NEW ttl, NEW max, ~ Cardinality(DOMAIN t) >= max,
         NEW k, NEW e, NEW u \in Room(t, ttl, max, 0)
  PROVE  \A j \in DOMAIN t : j # k => j \in DOMAIN Put(u, k, e) /\ Put(u, k, e)[j] = t[j]
<1>1. u = t
  BY DEF Room
<1> QED BY <1>1 DEF Put

(***************************************************************************)
(* Answers to a connection stop passing only when it has been silent for   *)
(* its time, when a purge judges it, or when another one needs its place   *)
(* in a full table.                                                        *)
(***************************************************************************)
THEOREM ForgottenForCauseAlways == Spec => ForgottenForCause
<1> DEFINE Closes(k) == Answers(conns, ConnTTL, k, 0) /\ ~ Answers(conns, ConnTTL, k, 0)'
           Cause(k) == \/ conns[k].age + 1 >= ConnTTL[k]
                       \/ updater = "purge" /\ updater' = "idle"
                       \/ /\ Cardinality(DOMAIN conns) >= ConnMax
                          /\ \E p \in Peers : pc[p] = "admit" /\ pc'[p] = "idle"
<1>1. ASSUME IInv, [Next]_vars, NEW k \in Keys, Closes(k) PROVE Cause(k)
  <2>0. TypeOK /\ Limits /\ IsTable(conns) /\ ConnTTL \in [Keys -> Nat \ {0}]
    BY <1>1, FilterAssumption DEF IInv, TypeOK
  <2>1. k \in DOMAIN conns /\ conns[k].age < ConnTTL[k] /\ conns[k].allowed
    BY <1>1, <2>0 DEF Answers, Live, IsTable, Entry
  <2>2. ~ (k \in DOMAIN conns' /\ conns'[k].age < ConnTTL[k] /\ conns'[k].allowed)
    BY <1>1, <2>0, TypeStep DEF Answers, Live, TypeOK, IsTable, Entry
  <2>3. ASSUME NEW p \in Peers, Admit(p) PROVE Cause(k)
    <3>1. pc[p] = "admit" /\ pc'[p] = "idle"
      BY <2>0, <2>3 DEF Admit, Done, Goto, TypeOK
    <3>2. CASE Cardinality(DOMAIN conns) >= ConnMax
      BY <3>1, <3>2
    <3>3. CASE ~ Cardinality(DOMAIN conns) >= ConnMax
      <4> DEFINE e == [age |-> 0, allowed |-> TRUE]
      <4>1. PICK u \in Room(conns, ConnTTL, ConnMax, 0) : conns' = Put(u, pkt[p], e)
        BY <2>3 DEF Admit, AllowOutcomes
      <4>2. k # pkt[p]
        <5>1. conns'[pkt[p]] = e /\ pkt[p] \in DOMAIN conns'
          BY <4>1 DEF Put
        <5>2. e.age = 0 /\ e.allowed
          OBVIOUS
        <5> QED BY <2>0, <2>2, <5>1, <5>2
      <4> HIDE DEF e
      <4> QED BY <2>1, <2>2, <3>3, <4>1, <4>2, RoomLeavesAll
    <3> QED BY <3>2, <3>3
  <2>4. ASSUME NEW p \in Peers, PassReply(p) PROVE FALSE
    BY <2>0, <2>1, <2>2, <2>4 DEF PassReply, Answers, Live, Touch, IsTable, Entry
  <2>5. CASE Purge
    BY <2>5 DEF Purge
  <2>6. CASE Tick
    BY <2>0, <2>1, <2>2, <2>6 DEF Tick, Older, IsTable, Entry
  <2>7. CASE UNCHANGED conns
    BY <2>1, <2>2, <2>7
  <2> QED
    BY <1>1, <2>3, <2>4, <2>5, <2>6, <2>7
    DEF Next, Handle, vars, Load, Judge, NoReply, LogKnown, LogNew, Store
<1>2. IInv /\ [Next]_vars => [\A k \in Keys : Closes(k) => Cause(k)]_vars
  BY <1>1
<1> QED BY <1>2, IInvInductive, PTL DEF Spec, ForgottenForCause

----------------------------------------------------------------------------
(***************************************************************************)
(* stillAllowed reads this machine's own connections as a peer's, but it   *)
(* only errs by forgetting: whatever it keeps is permitted.                *)
(***************************************************************************)
LEMMA StillAllowedIsPermitted ==
  ASSUME OthersOnly, NEW v \in Versions, NEW k \in Keys, NEW s \in Sights,
         StillAllowed(Compiled[v], k, s)
  PROVE  Permits(Compiled[v], k, s)
<1> DEFINE r == Compiled[v]
<1>1. k \in Flow /\ s \in Sight /\ r \in RuleSet /\ s.at[Self] = Unknown
  BY FilterAssumption DEF Sight
<1>2. /\ \A u \in AllInbound(r) : Self \notin u.peers
      /\ \A t \in r.outbound : t[1] # Self
      /\ k.src = Self \/ k.dst = Self
  BY DEF OthersOnly
<1>3. StillAllowed(r, k, s)
  OBVIOUS
<1> SUFFICES Permits(r, k, s)
  OBVIOUS
<1> HIDE DEF r
<1>4. \A u \in AllInbound(r) : ~ Allows(u, Self, Unknown, s.today)
  BY <1>2 DEF Allows, InAny
<1>5. CASE k.src \in r.known /\ InVerdict(r, k, s)
  <2>1. CASE k.src # Self
    BY <1>5, <2>1 DEF Permits
  <2>2. CASE k.src = Self
    <3>1. \A port : port \in Ports => r.inbound[port] \subseteq AllInbound(r)
      BY DEF AllInbound
    <3>2. ~ InVerdict(r, k, s)
      BY <1>1, <1>4, <2>2, <3>1 DEF InVerdict, Inbound, InboundICMP
    <3> QED BY <1>5, <3>2
  <2> QED BY <2>1, <2>2
<1>6. CASE k.src \notin r.known /\ k.dst \in r.known /\ OutVerdict(r, k)
  <2>1. k.dst # Self
    BY <1>2, <1>6 DEF OutVerdict, Outbound, OutboundICMP
  <2> QED BY <1>2, <1>6, <2>1 DEF Permits
<1> QED BY <1>3, <1>5, <1>6 DEF StillAllowed

\* What a purge leaves is permitted by the rules in force, as it was observed.
LEMMA PurgeLeavesPermitted ==
  ASSUME OthersOnly, IInv, Purge
  PROVE  \A k \in DOMAIN conns' : \E s \in Coming : Permits(Compiled[rules], k, s)
<1>1. TypeOK /\ IsTable(conns) /\ rules \in Versions /\ Coming \subseteq Sights
  BY DEF IInv, TypeOK, Coming
<1>2. PICK kept \in SUBSET DOMAIN conns :
        /\ \A k \in DOMAIN conns : \E s \in Coming :
             k \in kept <=> StillAllowed(Compiled[rules], k, s)
        /\ conns' = Forgotten(conns, kept)
  BY DEF Purge
<1>3. \A k \in DOMAIN conns' : k \in DOMAIN conns /\ (conns[k].allowed => k \in kept)
  BY <1>1, <1>2, ForgottenIsTable
<1>4. \A k \in DOMAIN conns : conns[k].allowed /\ k \in Keys
  BY <1>1 DEF IInv, OnlyPermitted, IsTable
<1>5. ASSUME NEW k \in DOMAIN conns' PROVE \E s \in Coming : Permits(Compiled[rules], k, s)
  <2>1. k \in kept /\ k \in DOMAIN conns /\ k \in Keys
    BY <1>3, <1>4
  <2>2. PICK s \in Coming : StillAllowed(Compiled[rules], k, s)
    BY <1>2, <2>1
  <2>3. Permits(Compiled[rules], k, s)
    BY <1>1, <2>1, <2>2, StillAllowedIsPermitted
  <2> QED BY <2>3
<1> QED BY <1>5

(***************************************************************************)
(* For configurations that do not name this machine: when Reload returns,  *)
(* it leaves only connections the new rules permit, whatever the handlers  *)
(* did between the store and the purge.                                    *)
(***************************************************************************)
THEOREM PurgeRevokesAlways ==
  ASSUME OthersOnly
  PROVE  Spec => PurgeRevokes
<1> DEFINE A == updater = "purge" /\ updater' = "idle" =>
                  \A k \in DOMAIN conns' : \E s \in Coming : Permits(Compiled[rules], k, s)
<1>1. IInv /\ [Next]_vars => [A]_vars
  <2> SUFFICES ASSUME IInv, [Next]_vars, updater = "purge", updater' = "idle"
               PROVE  \A k \in DOMAIN conns' : \E s \in Coming : Permits(Compiled[rules], k, s)
    OBVIOUS
  <2>1. Purge
    BY DEF Next, Handle, Load, Judge, PassReply, NoReply, LogKnown, LogNew,
           Admit, Store, Tick, vars
  <2> QED BY <2>1, PurgeLeavesPermitted
<1> QED BY <1>1, IInvInductive, PTL DEF Spec, PurgeRevokes

(***************************************************************************)
(* Between a store and its purge nothing is claimed; otherwise every step  *)
(* keeps each connection permitted, or marks it as a late handler's.       *)
(***************************************************************************)
LEMMA StragglersStep ==
  OthersOnly /\ IInv /\ OnlyStragglersSurvive /\ [Next]_vars => OnlyStragglersSurvive'
<1> SUFFICES ASSUME OthersOnly, IInv, OnlyStragglersSurvive, [Next]_vars
             PROVE  OnlyStragglersSurvive'
  OBVIOUS
<1>0. TypeOK /\ Limits /\ Decided
  BY DEF IInv
<1>1. OnlyStragglersSurvive <=>
        (updater = "idle" => \A k \in DOMAIN conns \ late : Granted(rules, k))
  BY DEF OnlyStragglersSurvive, Granted
<1>2. OnlyStragglersSurvive' <=>
        (updater' = "idle" => \A k \in DOMAIN conns' \ late' : Granted(rules', k))
  BY DEF OnlyStragglersSurvive, Granted
<1>3. ASSUME NEW p \in Peers, Admit(p) PROVE OnlyStragglersSurvive'
  <2>1. /\ pc[p] = "admit" /\ UNCHANGED <<rules, updater>>
        /\ late' = (late \ {pkt[p]}) \cup (IF held[p] = rules THEN {} ELSE {pkt[p]})
    BY <1>3 DEF Admit
  <2>2. Granted(held[p], pkt[p])
    BY <1>0, <2>1 DEF Decided
  <2>3. DOMAIN conns' \subseteq DOMAIN conns \cup {pkt[p]}
    BY <1>0, <1>3, AdmitWrites
  <2> QED BY <1>1, <1>2, <2>1, <2>2, <2>3
<1>4. ASSUME NEW p \in Peers, LogNew(p) PROVE OnlyStragglersSurvive'
  BY <1>1, <1>2, <1>4 DEF LogNew
<1>5. ASSUME NEW v \in Versions, Store(v) PROVE OnlyStragglersSurvive'
  BY <1>2, <1>5 DEF Store
<1>6. CASE Purge
  <2>1. rules' = rules /\ Coming \subseteq Sights
    BY <1>6 DEF Purge, Coming
  <2>2. \A k \in DOMAIN conns' : \E s \in Coming : Permits(Compiled[rules], k, s)
    BY <1>6, PurgeLeavesPermitted
  <2> QED BY <1>2, <2>1, <2>2 DEF Granted
<1>7. CASE UNCHANGED <<rules, updater, late>> /\ \A p \in Peers : ~ LogNew(p) /\ ~ Admit(p)
  <2>1. DOMAIN conns' \subseteq DOMAIN conns
    BY <1>0, <1>7, OthersAddNothing
  <2> QED BY <1>1, <1>2, <1>7, <2>1
<1> QED
  BY <1>3, <1>4, <1>5, <1>6, <1>7
  DEF Next, Handle, vars, Load, Judge, PassReply, NoReply, LogKnown, Tick

(***************************************************************************)
(* For configurations that do not name this machine: with no reload in     *)
(* progress, a remembered connection the rules in force never permit was   *)
(* let through by a handler that still held the rules they replaced.       *)
(***************************************************************************)
THEOREM OnlyStragglersAlways ==
  ASSUME OthersOnly
  PROVE  Spec => []OnlyStragglersSurvive
<1>1. Init => OnlyStragglersSurvive
  BY DEF Init, OnlyStragglersSurvive, EmptyTable
<1>2. IInv /\ OnlyStragglersSurvive /\ [Next]_vars => OnlyStragglersSurvive'
  BY StragglersStep
<1> QED BY <1>1, <1>2, IInvInductive, PTL DEF Spec

----------------------------------------------------------------------------
(***************************************************************************)
(* The filter implements Revocation.  IInv and its step lemmas say what    *)
(* every step does to the connection table; here that is read through the  *)
(* connections whose answers pass.                                         *)
(***************************************************************************)
LEMMA AnsweredIs ==
  ASSUME TypeOK
  PROVE  /\ Answered \subseteq Keys
         /\ \A k : k \in Answered <=>
              k \in DOMAIN conns /\ conns[k].age < ConnTTL[k] /\ conns[k].allowed
<1>1. IsTable(conns)
  BY DEF TypeOK
<1> QED BY <1>1 DEF Answered, Live, IsTable, Entry

LEMMA AnsweredIsThen ==
  ASSUME TypeOK'
  PROVE  /\ Answered' \subseteq Keys
         /\ \A k : k \in Answered' <=>
              k \in DOMAIN conns' /\ conns'[k].age < ConnTTL[k] /\ conns'[k].allowed
<1>1. IsTable(conns)'
  BY DEF TypeOK
<1> QED BY <1>1 DEF Answered, Live, IsTable, Entry

\* The same connections pass their answers as IsReply lets through.
LEMMA AnsweredAnswers ==
  ASSUME NEW k
  PROVE  k \in Answered <=> Answers(conns, ConnTTL, k, 0)
BY DEF Answered, Answers, Live

\* A handler that opens its connection does what Open promises.
LEMMA AdmitOpens ==
  ASSUME IInv, TypeOK', NEW p \in Peers, Admit(p)
  PROVE  Promise!Open(pkt[p])
<1> DEFINE k == pkt[p]
<1>1. /\ TypeOK /\ Limits /\ Decided /\ pc[p] = "admit"
      /\ UNCHANGED <<rules, updater>>
      /\ late' = (late \ {k}) \cup (IF held[p] = rules THEN {} ELSE {k})
  BY DEF IInv, Admit
<1>2. /\ k \in Keys /\ k \in DOMAIN conns'
      /\ DOMAIN conns' \subseteq DOMAIN conns \cup {k}
      /\ conns'[k].allowed /\ conns'[k].age = 0
      /\ \A j \in DOMAIN conns' : j # k => conns'[j] = conns[j]
  <2>1. PICK u \in Room(conns, ConnTTL, ConnMax, 0) :
          conns' = Put(u, k, [age |-> 0, allowed |-> TRUE])
    BY DEF Admit, AllowOutcomes
  <2>2. k \in DOMAIN conns' /\ conns'[k].age = 0
    BY <2>1 DEF Put
  <2> QED BY <1>1, <2>2, AdmitWrites
<1>3. 0 < ConnTTL[k]
  BY <1>2, FilterAssumption
<1>4. k \in Answered' /\ Answered' \subseteq Answered \cup {k}
  BY <1>1, <1>2, <1>3, AnsweredIs, AnsweredIsThen
<1>5. held[p] \in Versions /\ k \in Permitted[held[p]]
  BY <1>1, <1>2 DEF Decided, Granted, Permitted, TypeOK
<1> HIDE DEF k
<1>6. CASE held[p] = rules
  <2>1. late' \cap Answered' = ((late \cap Answered) \ {k}) \cap Answered'
    BY <1>1, <1>4, <1>6
  <2> QED BY <1>1, <1>4, <1>5, <1>6, <2>1 DEF Promise!Open, k
<1>7. CASE held[p] # rules
  <2>1. late' \cap Answered' = ((late \cap Answered) \cup {k}) \cap Answered'
    BY <1>1, <1>4, <1>7
  <2>2. k \in UNION {Permitted[v] : v \in Versions}
    BY <1>5
  <2> QED BY <1>1, <1>4, <2>1, <2>2 DEF Promise!Open, k
<1> QED BY <1>6, <1>7

\* What only marks, ages or expires connections closes some or none.
LEMMA FewerCloses ==
  ASSUME Answered' \subseteq Answered, UNCHANGED <<rules, updater, late>>
  PROVE  Promise!Close
BY DEF Promise!Close

\* A purge settles the change.
LEMMA PurgeSettles ==
  ASSUME OthersOnly, IInv, TypeOK', Purge
  PROVE  Promise!Settle
<1>1. /\ TypeOK /\ IsTable(conns) /\ Coming \subseteq Sights /\ rules \in Versions
      /\ updater = "purge" /\ updater' = "idle" /\ late' = {} /\ rules' = rules
  BY DEF IInv, TypeOK, Purge, Coming
<1>2. /\ DOMAIN conns' \subseteq DOMAIN conns
      /\ \A k \in DOMAIN conns' : conns'[k] = conns[k]
  BY <1>1, ForgottenIsTable DEF Purge
<1>3. Answered' \subseteq Answered
  BY <1>1, <1>2, AnsweredIs, AnsweredIsThen
<1>4. \A k \in DOMAIN conns' : \E s \in Coming : Permits(Compiled[rules], k, s)
  BY PurgeLeavesPermitted
<1>5. Answered' \subseteq Permitted[rules]
  BY <1>1, <1>4, AnsweredIsThen DEF Permitted
<1> QED BY <1>1, <1>3, <1>5 DEF Promise!Settle

(***************************************************************************)
(* For configurations that do not name this machine: every behaviour of    *)
(* the filter, seen through the connections whose answers pass, is one     *)
(* Revocation allows.                                                      *)
(***************************************************************************)
THEOREM FilterKeepsItsPromise ==
  ASSUME OthersOnly
  PROVE  Spec => KeepsItsPromise
<1>1. Init => Promise!Init
  BY DEF Init, Promise!Init, Answered, Live, EmptyTable
<1>2. IInv /\ [Next]_vars => [Promise!Next]_(Promise!vars)
  <2> SUFFICES ASSUME IInv, [Next]_vars
               PROVE  [Promise!Next]_(Promise!vars)
    OBVIOUS
  <2>0. TypeOK /\ TypeOK' /\ IsTable(conns) /\ ConnTTL \in [Keys -> Nat \ {0}]
    BY TypeStep, FilterAssumption DEF IInv, TypeOK
  <2>1. ASSUME NEW p \in Peers, Admit(p) PROVE Promise!Next
    BY <2>0, <2>1, AdmitOpens DEF Promise!Next, Admit, TypeOK
  <2>2. ASSUME NEW p \in Peers, PassReply(p) PROVE Promise!Close
    <3>1. \A k \in DOMAIN conns' :
            k \in DOMAIN conns /\ conns'[k].allowed = conns[k].allowed
            /\ (conns'[k] = conns[k] \/ k \in Answered)
      BY <2>0, <2>2, AnsweredAnswers
      DEF PassReply, Answers, Live, Touch, IsTable, Entry
    <3>2. Answered' \subseteq Answered
      BY <2>0, <3>1, AnsweredIs, AnsweredIsThen
    <3> QED BY <2>2, <3>2, FewerCloses DEF PassReply
  <2>3. ASSUME Tick PROVE Promise!Close
    <3>1. \A k \in DOMAIN conns' :
            /\ k \in DOMAIN conns /\ conns'[k].allowed = conns[k].allowed
            /\ conns[k].age <= conns'[k].age
      BY <2>0, <2>3 DEF Tick, Older, IsTable, Entry
    <3>2. Answered' \subseteq Answered
      BY <2>0, <3>1, AnsweredIs, AnsweredIsThen DEF TypeOK, IsTable, Entry
    <3> QED BY <2>3, <3>2, FewerCloses DEF Tick
  <2>4. ASSUME NEW v \in Versions, Store(v) PROVE Promise!Replace(v)
    BY <2>4 DEF Store, Promise!Replace, Answered
  <2>5. ASSUME Purge PROVE Promise!Settle
    BY <2>0, <2>5, PurgeSettles
  <2>6. ASSUME UNCHANGED <<rules, updater, conns, late>>
        PROVE  UNCHANGED Promise!vars
    <3>1. Answered' = Answered
      BY <2>6 DEF Answered, Live
    <3> QED BY <2>6, <3>1 DEF Promise!vars
  <2>7. \/ \E p \in Peers : Admit(p) \/ PassReply(p)
        \/ Tick \/ Purge \/ \E v \in Versions : Store(v)
        \/ UNCHANGED <<rules, updater, conns, late>>
    BY DEF Next, Handle, vars, Load, Judge, NoReply, LogKnown, LogNew
  <2> QED BY <2>1, <2>2, <2>3, <2>4, <2>5, <2>6, <2>7 DEF Promise!Next
<1> QED BY <1>1, <1>2, IInvInductive, PTL DEF Spec, KeepsItsPromise, Promise!Spec
----------------------------------------------------------------------------
(***************************************************************************)
(* The clamp: its sums and its walk, for any options.                      *)
(***************************************************************************)

(***************************************************************************)
(* A set of naturals that is not empty has a least element. What a         *)
(* recursive function computes is proved by it: the least place where it   *)
(* computes something else.                                                *)
(***************************************************************************)
LEMMA LeastOf ==
  ASSUME NEW T, T \subseteq Nat, T # {}
  PROVE  \E x \in T : \A y \in T : x <= y
<1>1. PICK x \in T : \A y \in T : ~ (<<y, x>> \in OpToRel(<, Nat))
  BY WFMin, NatLessThanWellFounded
<1>2. \A y \in T : ~ (y < x)
  BY <1>1 DEF OpToRel
<1> QED BY <1>2

(***************************************************************************)
(* And a greatest one, if it has a bound.                                  *)
(***************************************************************************)
LEMMA GreatestOf ==
  ASSUME NEW T, T \subseteq Nat, T # {}, NEW max \in Nat, \A x \in T : x <= max
  PROVE  \E x \in T : \A y \in T : y <= x
<1> DEFINE U == {max - x : x \in T}
<1>0. PICK t \in T : TRUE
  OBVIOUS
<1>1. U \subseteq Nat /\ max - t \in U
  BY <1>0
<1>2. PICK u \in U : \A v \in U : u <= v
  BY <1>1, LeastOf
<1>3. PICK x \in T : u = max - x
  OBVIOUS
<1>4. \A y \in T : y <= x
  BY <1>2, <1>3
<1> QED BY <1>4

Carried(x) == IF x = 0 THEN 0 ELSE ((x - 1) % 65535) + 1

(***************************************************************************)
(* One round of adding the carry back (mss.go: the loop of fixChecksum)    *)
(* lowers the sum and changes it by a multiple of 65535.                   *)
(***************************************************************************)
LEMMA CarriedBack ==
  ASSUME NEW x \in Nat, x >= 65536
  PROVE  LET y == (x % 65536) + (x \div 65536)
         IN  y \in Nat /\ y < x /\ Carried(y) = Carried(x)
<1> DEFINE q == x \div 65536
           r == x % 65536
<1>1. q \in Nat /\ r \in Nat /\ x = 65536 * q + r /\ q >= 1 /\ r < 65536
  OBVIOUS
<1> HIDE DEF q, r
<1>2. q + r >= 1 /\ q + r < x
  BY <1>1
<1>3. x - 1 = (r + q - 1) + 65535 * q
  BY <1>1
<1>4. (x - 1) % 65535 = (r + q - 1) % 65535
  BY <1>1, <1>2, <1>3
<1>5. Carried(r + q) = Carried(x)
  BY <1>1, <1>2, <1>4 DEF Carried
<1> QED BY <1>1, <1>2, <1>5 DEF q, r

(***************************************************************************)
(* Carries added back until none is left give the sum modulo 65535, and    *)
(* 65535 where that is 0 and the sum is not.                               *)
(***************************************************************************)
LEMMA CarryIs ==
  ASSUME NEW x \in Nat
  PROVE  Carry[x] = Carried(x)
<1> DEFINE Is(f) == f = [y \in Nat |-> IF y < 65536 THEN y ELSE f[(y % 65536) + (y \div 65536)]]
           g == [y \in Nat |-> Carried(y)]
<1>1. Is(g)
  <2>1. ASSUME NEW y \in Nat
        PROVE  Carried(y) = IF y < 65536 THEN y ELSE g[(y % 65536) + (y \div 65536)]
    <3>1. CASE y < 65536
      BY <3>1 DEF Carried
    <3>2. CASE y >= 65536
      BY <3>2, CarriedBack
    <3> QED BY <3>1, <3>2
  <2> QED BY <2>1
<1>2. Is(Carry)
  <2>1. Carry = CHOOSE f : Is(f)
    BY DEF Carry
  <2> HIDE DEF g, Is
  <2> QED BY <1>1, <2>1, Zenon
<1>3. \A y \in Nat : Carry[y] = IF y < 65536 THEN y ELSE Carry[(y % 65536) + (y \div 65536)]
  BY <1>2
<1> DEFINE T == {y \in Nat : Carry[y] # Carried(y)}
<1>4. CASE T = {}
  BY <1>4
<1>5. CASE T # {}
  <2>1. PICK y \in T : \A z \in T : y <= z
    BY <1>5, LeastOf
  <2>2. CASE y < 65536
    BY <1>3, <2>1, <2>2 DEF Carried
  <2>3. CASE y >= 65536
    <3> DEFINE z == (y % 65536) + (y \div 65536)
    <3>1. z \in Nat /\ z < y /\ Carried(z) = Carried(y)
      BY <2>1, <2>3, CarriedBack
    <3>2. Carry[z] = Carried(z)
      BY <2>1, <3>1
    <3> QED BY <1>3, <2>1, <2>3, <3>1, <3>2
  <2> QED BY <2>2, <2>3
<1> QED BY <1>4, <1>5

(***************************************************************************)
(* A sum is carried to 65535, which the receiving TCP accepts, where it is *)
(* a multiple of 65535 other than 0.                                       *)
(***************************************************************************)
LEMMA CarriedToAll ==
  ASSUME NEW x \in Nat
  PROVE  Carry[x] = 65535 <=> x # 0 /\ \E m \in Nat : x = 65535 * m
<1>1. Carry[x] = Carried(x)
  BY CarryIs
<1>2. CASE x = 0
  BY <1>1, <1>2 DEF Carried
<1>3. CASE x # 0
  <2>1. PICK z \in Nat : z = x - 1
    BY <1>3
  <2>2. Carry[x] = (z % 65535) + 1
    BY <1>1, <1>3, <2>1 DEF Carried
  <2>3. ASSUME z % 65535 = 65534 PROVE \E m \in Nat : x = 65535 * m
    <3>1. z = 65535 * (z \div 65535) + 65534 /\ z \div 65535 \in Nat
      BY <2>3
    <3>2. x = 65535 * (z \div 65535 + 1)
      BY <2>1, <3>1
    <3> QED BY <3>1, <3>2
  <2>4. ASSUME NEW m \in Nat, x = 65535 * m PROVE z % 65535 = 65534
    <3>1. m - 1 \in Nat /\ z = 65535 * (m - 1) + 65534
      BY <1>3, <2>1, <2>4
    <3> QED BY <3>1
  <2>5. z % 65535 \in Nat
    BY <2>1
  <2> QED BY <1>3, <2>2, <2>3, <2>4, <2>5
<1> QED BY <1>2, <1>3

(***************************************************************************)
(* What is carried is a word and differs from the sum by a multiple of     *)
(* 65535.                                                                  *)
(***************************************************************************)
LEMMA CarriedApart ==
  ASSUME NEW x \in Nat
  PROVE  Carry[x] \in Word /\ \E m \in Nat : x = 65535 * m + Carry[x]
<1>1. Carry[x] = Carried(x)
  BY CarryIs
<1>2. CASE x = 0
  <2>1. Carry[x] = 0 /\ x = 65535 * 0 + 0
    BY <1>1, <1>2 DEF Carried
  <2> QED BY <1>2, <2>1 DEF Word
<1>3. CASE x # 0
  <2>1. PICK z \in Nat : z = x - 1
    BY <1>3
  <2>2. Carry[x] = (z % 65535) + 1
    BY <1>1, <1>3, <2>1 DEF Carried
  <2>3. z = 65535 * (z \div 65535) + (z % 65535)
    BY <2>1
  <2>4. z \div 65535 \in Nat /\ z % 65535 \in Nat /\ z % 65535 < 65535
    BY <2>1
  <2> HIDE <2>1
  <2>5. x = z + 1
    BY <2>1
  <2>6. x = 65535 * (z \div 65535) + Carry[x]
    BY <2>2, <2>3, <2>4, <2>5
  <2> QED BY <2>2, <2>4, <2>6 DEF Word
<1> QED BY <1>2, <1>3

(***************************************************************************)
(* fixChecksum returns a word, whatever words it is given.                 *)
(***************************************************************************)
LEMMA FixIsWord ==
  ASSUME NEW sum \in Word, NEW old \in Word, NEW cur \in Word
  PROVE  fixChecksum(sum, old, cur) \in Word
<1>1. PICK y : y = Not(sum) + Not(old) + cur
  OBVIOUS
<1>2. y \in Nat
  BY <1>1 DEF Word, Not
<1>3. Carry[y] \in Word
  BY <1>2, CarriedApart
<1> QED BY <1>1, <1>3 DEF fixChecksum, Not, Word

Mended(a, sum, old, cur) ==
  Carry[a + sum] = 65535 => Carry[(a - old + cur) + fixChecksum(sum, old, cur)] = 65535

(***************************************************************************)
(* A checksum that was right is right after one word of the segment, old,  *)
(* has become cur and the checksum has been mended by the two (RFC 1624),  *)
(* at every carry.                                                         *)
(***************************************************************************)
LEMMA FixedVerifies ==
  ASSUME NEW a \in Nat, NEW sum \in Word, NEW old \in Word, NEW cur \in Word, cur # 0,
         old <= a
  PROVE  Mended(a, sum, old, cur)
<1> SUFFICES ASSUME Carry[a + sum] = 65535
             PROVE  Carry[(a - old + cur) + fixChecksum(sum, old, cur)] = 65535
  BY DEF Mended
<1>1. /\ sum \in Nat /\ sum < 65536 /\ old \in Nat /\ old < 65536
      /\ cur \in Nat /\ cur < 65536
  BY DEF Word
<1>2. PICK y : y = Not(sum) + Not(old) + cur
  OBVIOUS
<1>3. y \in Nat /\ y = 131070 - sum - old + cur
  BY <1>1, <1>2 DEF Not
<1>4. PICK k \in Nat : y = 65535 * k + Carry[y] /\ Carry[y] \in Nat /\ Carry[y] < 65536
  <2>1. y \in Nat
    BY <1>3
  <2>2. Carry[y] \in Word /\ \E k \in Nat : y = 65535 * k + Carry[y]
    BY <2>1, CarriedApart
  <2> QED BY <2>2 DEF Word
<1>5. PICK t : t = fixChecksum(sum, old, cur)
  OBVIOUS
<1>6. t = 65535 - Carry[y]
  BY <1>2, <1>5 DEF fixChecksum, Not
<1>7. a + sum \in Nat
  BY <1>1
<1>8. PICK m \in Nat : a + sum = 65535 * m /\ a + sum # 0
  BY <1>7, CarriedToAll
<1>9. PICK x : x = (a - old + cur) + t
  OBVIOUS
<1>10. x \in Nat /\ x # 0
  BY <1>1, <1>4, <1>6, <1>9
<1>11. x = 65535 * (m + k - 1)
  BY <1>1, <1>3, <1>4, <1>6, <1>8, <1>9
<1>12. m + k - 1 \in Nat
  BY <1>10, <1>11
<1>13. Carry[x] = 65535
  <2>1. PICK j \in Nat : j = m + k - 1
    BY <1>12
  <2>2. x = 65535 * j
    BY <1>11, <2>1
  <2> QED BY <1>10, <2>2, CarriedToAll
<1> QED BY <1>5, <1>9, <1>13

(***************************************************************************)
(* The sum of the words is made word by word from the front.               *)
(***************************************************************************)
LEMMA SumWalk ==
  ASSUME NEW o, Len(o) \in Nat
  PROVE  \E f : /\ f[0] = 0
                /\ \A n \in 1..(Len(o) \div 2) : f[n] = f[n - 1] + WordAt(o, 2 * n - 1)
                /\ SumOf(o) = f[Len(o) \div 2]
<1> DEFINE h == Len(o) \div 2
           Is(f, m) == f = [n \in 0..m |-> IF n = 0 THEN 0 ELSE f[n - 1] + WordAt(o, 2 * n - 1)]
           T == {m \in 0..h : ~ \E f : Is(f, m)}
<1>0. h \in Nat
  OBVIOUS
<1>1. T = {}
  <2> SUFFICES ASSUME T # {} PROVE FALSE
    OBVIOUS
  <2>1. T \subseteq Nat
    BY <1>0
  <2> HIDE DEF T, Is
  <2>2. PICK m \in T : \A k \in T : m <= k
    BY <2>1, LeastOf
  <2>3. m \in 0..h /\ ~ \E f : Is(f, m)
    BY DEF T
  <2>4. m # 0
    <3>1. Is([n \in 0..0 |-> 0], 0)
      BY DEF Is
    <3> QED BY <2>3, <3>1
  <2>5. m - 1 \in 0..h /\ m - 1 \notin T
    BY <1>0, <2>2, <2>3, <2>4
  <2>6. PICK f : Is(f, m - 1)
    BY <2>5 DEF T
  <2> DEFINE g == [n \in 0..m |-> IF n = m THEN f[m - 1] + WordAt(o, 2 * m - 1) ELSE f[n]]
  <2>7. ASSUME NEW n \in 0..m
        PROVE  g[n] = IF n = 0 THEN 0 ELSE g[n - 1] + WordAt(o, 2 * n - 1)
    <3>1. CASE n = m
      BY <1>0, <2>3, <2>4, <3>1
    <3>2. CASE n # m
      <4>1. n \in 0..(m - 1)
        BY <1>0, <2>3, <3>2
      <4>2. f[n] = IF n = 0 THEN 0 ELSE f[n - 1] + WordAt(o, 2 * n - 1)
        BY <2>6, <4>1 DEF Is
      <4> QED BY <1>0, <2>3, <3>2, <4>1, <4>2
    <3> QED BY <3>1, <3>2
  <2>8. Is(g, m)
    BY <2>7 DEF Is
  <2> QED BY <2>3, <2>8
<1>2. \E f : Is(f, h)
  BY <1>0, <1>1
<1> DEFINE s == CHOOSE f : Is(f, h)
<1>3. Is(s, h)
  BY <1>2, Zenon
<1>4. SumOf(o) = s[h]
  BY DEF SumOf
<1>5. /\ s[0] = 0
      /\ \A n \in 1..h : s[n] = s[n - 1] + WordAt(o, 2 * n - 1)
  <2> HIDE DEF s, h
  <2> QED BY <1>0, <1>3
<1> HIDE DEF s
<1> QED BY <1>4, <1>5

(***************************************************************************)
(* Two bytes that follow each other are a word.                            *)
(***************************************************************************)
LEMMA WordIs ==
  ASSUME NEW o \in Seq(Byte), NEW i \in Nat \ {0}, i < Len(o)
  PROVE  WordAt(o, i) \in Word
<1>1. i \in 1..Len(o) /\ i + 1 \in 1..Len(o)
  BY LenProperties
<1>2. o[i] \in Byte /\ o[i + 1] \in Byte
  BY <1>1, ElementOfSeq
<1> QED BY <1>2 DEF WordAt, Byte, Word

(***************************************************************************)
(* Where one word of the options changes, so does the sum, by as much.     *)
(***************************************************************************)
LEMMA SumChanges ==
  ASSUME NEW o \in Seq(Byte), NEW u \in Seq(Byte), Len(u) = Len(o),
         NEW w \in 1..(Len(o) \div 2),
         \A n \in 1..(Len(o) \div 2) : n # w => WordAt(u, 2 * n - 1) = WordAt(o, 2 * n - 1)
  PROVE  /\ SumOf(o) \in Nat /\ WordAt(o, 2 * w - 1) <= SumOf(o)
         /\ SumOf(u) = SumOf(o) - WordAt(o, 2 * w - 1) + WordAt(u, 2 * w - 1)
<1>1. PICK h \in Nat : h = Len(o) \div 2
  BY LenProperties
<1>2. \A n \in 1..h : 2 * n - 1 \in Nat \ {0} /\ 2 * n - 1 < Len(o)
  BY <1>1, LenProperties
<1>3. \A n \in 1..h : WordAt(o, 2 * n - 1) \in Nat /\ WordAt(u, 2 * n - 1) \in Nat
  BY <1>2, WordIs DEF Word
<1>4. PICK f : /\ f[0] = 0
               /\ \A n \in 1..h : f[n] = f[n - 1] + WordAt(o, 2 * n - 1)
               /\ SumOf(o) = f[h]
  BY <1>1, LenProperties, SumWalk
<1>5. PICK g : /\ g[0] = 0
               /\ \A n \in 1..h : g[n] = g[n - 1] + WordAt(u, 2 * n - 1)
               /\ SumOf(u) = g[h]
  BY <1>1, LenProperties, SumWalk
<1>6. PICK old : old = WordAt(o, 2 * w - 1)
  OBVIOUS
<1>7. PICK cur : cur = WordAt(u, 2 * w - 1)
  OBVIOUS
<1>8. old \in Nat /\ cur \in Nat /\ w \in 1..h
  BY <1>1, <1>3, <1>6, <1>7
<1> DEFINE Good(n) == /\ f[n] \in Nat
                      /\ n < w => g[n] = f[n]
                      /\ n >= w => g[n] = f[n] - old + cur /\ old <= f[n]
           T == {n \in 0..h : ~ Good(n)}
<1>9. T = {}
  <2> SUFFICES ASSUME T # {} PROVE FALSE
    OBVIOUS
  <2>1. T \subseteq Nat
    OBVIOUS
  <2>2. PICK n \in T : \A m \in T : n <= m
    BY <2>1, LeastOf
  <2>3. n \in 0..h /\ ~ Good(n)
    BY <2>2
  <2>4. n # 0
    BY <1>4, <1>5, <1>8, <2>3
  <2>5. n - 1 \in 0..h /\ n \in 1..h
    BY <2>3, <2>4
  <2>6. Good(n - 1)
    BY <2>2, <2>5
  <2>7. f[n] = f[n - 1] + WordAt(o, 2 * n - 1) /\ g[n] = g[n - 1] + WordAt(u, 2 * n - 1)
    BY <1>4, <1>5, <2>5
  <2>8. WordAt(o, 2 * n - 1) \in Nat /\ WordAt(u, 2 * n - 1) \in Nat
    BY <1>3, <2>5
  <2>9. CASE n = w
    BY <1>6, <1>7, <1>8, <2>3, <2>5, <2>6, <2>7, <2>8, <2>9
  <2>10. CASE n # w
    <3>1. WordAt(u, 2 * n - 1) = WordAt(o, 2 * n - 1)
      BY <1>1, <2>5, <2>10
    <3>2. PICK a \in Nat : a = WordAt(o, 2 * n - 1)
      BY <2>8
    <3>3. f[n] = f[n - 1] + a /\ g[n] = g[n - 1] + a
      BY <2>7, <3>1, <3>2
    <3>4. f[n - 1] \in Nat /\ n \in Int /\ w \in Int
      BY <1>8, <2>5, <2>6
    <3>5. CASE n < w
      <4>1. n - 1 < w /\ g[n - 1] = f[n - 1]
        BY <2>6, <3>4, <3>5
      <4>2. Good(n)
        BY <3>3, <3>4, <3>5, <4>1
      <4> QED BY <2>3, <4>2
    <3>6. CASE n > w
      <4>1. g[n - 1] = f[n - 1] - old + cur /\ old <= f[n - 1]
        BY <2>6, <3>4, <3>6
      <4>2. g[n] = f[n] - old + cur /\ old <= f[n] /\ f[n] \in Nat
        <5>1. PICK x \in Nat : x = f[n - 1]
          BY <3>4
        <5>2. f[n] = x + a /\ g[n] = (x - old + cur) + a /\ old <= x
          BY <3>3, <4>1, <5>1
        <5> QED BY <1>8, <5>2
      <4>3. Good(n)
        BY <3>4, <3>6, <4>2
      <4> QED BY <2>3, <4>3
    <3> QED BY <2>10, <3>4, <3>5, <3>6
  <2> QED BY <2>9, <2>10
<1>10. Good(h)
  BY <1>9
<1> QED BY <1>4, <1>5, <1>6, <1>7, <1>8, <1>10
----------------------------------------------------------------------------
(***************************************************************************)
(* The walk of ClampMSS over the options is a function of where it stands: *)
(* each option leads to a later place.                                     *)
(***************************************************************************)
LEMMA MssWalk ==
  ASSUME NEW o \in Seq(Byte)
  PROVE  \E f : /\ MssFrom(o) = f[1]
                /\ \A i \in 1..(Len(o) + 1) :
                     f[i] = IF i > Len(o) \/ o[i] = 0 THEN NoMss
                            ELSE IF o[i] = 1 THEN f[i + 1]
                            ELSE IF i = Len(o) \/ o[i + 1] < 2 \/ i + o[i + 1] > Len(o) + 1 THEN NoMss
                            ELSE IF o[i] = 2 /\ o[i + 1] = 4 THEN i
                            ELSE f[i + o[i + 1]]
<1> DEFINE Step(f, i) ==
             IF i > Len(o) \/ o[i] = 0 THEN NoMss
             ELSE IF o[i] = 1 THEN f[i + 1]
             ELSE IF i = Len(o) \/ o[i + 1] < 2 \/ i + o[i + 1] > Len(o) + 1 THEN NoMss
             ELSE IF o[i] = 2 /\ o[i + 1] = 4 THEN i
             ELSE f[i + o[i + 1]]
           Is(f, a) == f = [i \in a..(Len(o) + 1) |-> Step(f, i)]
<1>1. PICK l \in Nat : l = Len(o)
  BY LenProperties
<1>2. ASSUME NEW i \in 1..(l + 1), NEW f, NEW g,
             \A j \in (i + 1)..(l + 1) : f[j] = g[j]
      PROVE  Step(f, i) = Step(g, i)
  <2>1. CASE i = l + 1
    BY <1>1, <2>1
  <2>2. CASE i = l
    BY <1>1, <1>2, <2>2
  <2>3. CASE i < l
    <3>1. o[i] \in Nat /\ o[i + 1] \in Nat
      BY <1>1, <2>3, ElementOfSeq DEF Byte
    <3>2. ASSUME ~ (i > Len(o) \/ o[i] = 0), o[i] # 1,
                 ~ (i = Len(o) \/ o[i + 1] < 2 \/ i + o[i + 1] > Len(o) + 1)
          PROVE  f[i + o[i + 1]] = g[i + o[i + 1]]
      BY <1>1, <1>2, <3>1, <3>2
    <3>3. f[i + 1] = g[i + 1]
      BY <1>2, <2>3
    <3> QED BY <3>2, <3>3
  <2> QED BY <2>1, <2>2, <2>3
<1> DEFINE T == {d \in 0..l : ~ \E f : Is(f, l + 1 - d)}
<1>3. T = {}
  <2> SUFFICES ASSUME T # {} PROVE FALSE
    OBVIOUS
  <2>1. T \subseteq Nat
    OBVIOUS
  <2> HIDE DEF T, Is, Step
  <2>2. PICK d \in T : \A e \in T : d <= e
    BY <2>1, LeastOf
  <2>3. d \in 0..l /\ ~ \E f : Is(f, l + 1 - d)
    BY DEF T
  <2>4. d # 0
    <3> DEFINE f == [i \in (l + 1)..(l + 1) |-> NoMss]
    <3>1. \A i \in (l + 1)..(l + 1) : Step(f, i) = NoMss
      BY <1>1 DEF Step
    <3>2. Is(f, l + 1)
      BY <1>1, <3>1 DEF Is
    <3> QED BY <2>3, <3>2
  <2>5. d - 1 \in 0..l /\ d - 1 \notin T
    BY <2>2, <2>3, <2>4
  <2> DEFINE a == l + 1 - d
  <2>6. PICK f : Is(f, a + 1)
    <3>1. \E f : Is(f, l + 1 - (d - 1))
      BY <2>5 DEF T
    <3>2. l + 1 - (d - 1) = a + 1
      BY <2>3
    <3> QED BY <3>1, <3>2
  <2>7. a \in 1..(l + 1)
    BY <2>3, <2>4
  <2> DEFINE g == [i \in a..(l + 1) |-> IF i = a THEN Step(f, a) ELSE f[i]]
  <2>8. \A i \in (a + 1)..(l + 1) : g[i] = f[i]
    BY <2>7
  <2>9. ASSUME NEW i \in a..(l + 1) PROVE g[i] = Step(g, i)
    <3> HIDE DEF a
    <3>0. i \in 1..(l + 1) /\ \A j \in (i + 1)..(l + 1) : f[j] = g[j]
      BY <2>7, <2>8
    <3>1. Step(f, i) = Step(g, i)
      <4> HIDE DEF g
      <4> QED BY <1>2, <3>0
    <3>2. CASE i = a
      BY <3>1, <3>2
    <3>3. CASE i # a
      <4>1. i \in (a + 1)..(l + 1)
        BY <2>7, <3>3
      <4>2. f[i] = Step(f, i)
        BY <1>1, <2>6, <4>1 DEF Is
      <4>3. g[i] = f[i]
        BY <2>8, <4>1
      <4> QED BY <3>1, <4>2, <4>3
    <3> QED BY <3>2, <3>3
  <2>10. Is(g, a)
    <3>1. g = [i \in a..(l + 1) |-> g[i]]
      OBVIOUS
    <3> HIDE DEF g, a
    <3> QED BY <1>1, <2>9, <3>1 DEF Is
  <2> QED BY <2>3, <2>10
<1>4. \E f : Is(f, 1)
  <2> HIDE DEF Is, T
  <2>1. l \in 0..l /\ l \notin T /\ l + 1 - l = 1
    BY <1>3
  <2>2. \E f : Is(f, l + 1 - l)
    BY <2>1 DEF T
  <2> QED BY <2>1, <2>2
<1> DEFINE s == CHOOSE f : Is(f, 1)
<1>5. Is(s, 1)
  <2> HIDE DEF Is
  <2> QED BY <1>4, Zenon
<1>6. MssFrom(o) = s[1]
  BY DEF MssFrom
<1>7. \A i \in 1..(Len(o) + 1) : s[i] = Step(s, i)
  <2> HIDE DEF s, Step
  <2> QED BY <1>5
<1> HIDE DEF s
<1> QED BY <1>6, <1>7

(***************************************************************************)
(* The walk of ClampMSS finds the first MSS there is: before it, it        *)
(* steps from option to option and stops at none.                          *)
(***************************************************************************)
LEMMA WalkFindsFirst ==
  ASSUME NEW o \in Seq(Byte), NEW i \in 1..Len(o), FirstMss(o, i)
  PROVE  MssFrom(o) = i
<1>1. PICK l \in Nat : l = Len(o)
  BY LenProperties
<1>2. \A j \in 1..l : o[j] \in Nat
  BY <1>1, ElementOfSeq DEF Byte
<1>3. PICK f : /\ MssFrom(o) = f[1]
               /\ \A j \in 1..(Len(o) + 1) :
                     f[j] = IF j > Len(o) \/ o[j] = 0 THEN NoMss
                            ELSE IF o[j] = 1 THEN f[j + 1]
                            ELSE IF j = Len(o) \/ o[j + 1] < 2 \/ j + o[j + 1] > Len(o) + 1 THEN NoMss
                            ELSE IF o[j] = 2 /\ o[j + 1] = 4 THEN j
                            ELSE f[j + o[j + 1]]
  BY MssWalk
<1>4. PICK before \in SUBSET (1..(i - 1)) :
        /\ 1 \in before \cup {i}
        /\ \A j \in before :
             /\ WellFormed(o, j)
             /\ j + LengthAt(o, j) \in before \cup {i}
             /\ \A k \in before : k <= j \/ k >= j + LengthAt(o, j)
  BY DEF FirstMss, IsMss, Starts
<1>5. i \in Nat /\ i <= l /\ \A j \in before : j \in 1..l /\ j < i
  BY <1>1
<1>6. \A j \in before : LengthAt(o, j) \in Nat /\ LengthAt(o, j) >= 1
  BY <1>1, <1>2, <1>4, <1>5 DEF WellFormed, LengthAt
\* No MSS stands before the first.
<1>7. ASSUME NEW j \in before, o[j] = 2, LengthAt(o, j) = 4 PROVE FALSE
  <2> DEFINE S == {k \in before : k < j}
  <2>0. \A k \in S : k \in 1..(j - 1)
    BY <1>5
  <2>1. S \in SUBSET (1..(j - 1))
    BY <2>0
  <2>2. 1 \in S \cup {j}
    BY <1>4, <1>5
  <2>3. ASSUME NEW k \in S
        PROVE  /\ WellFormed(o, k)
               /\ k + LengthAt(o, k) \in S \cup {j}
               /\ \A m \in S : m <= k \/ m >= k + LengthAt(o, k)
    <3>0. k \in before /\ k < j
      OBVIOUS
    <3>1. k + LengthAt(o, k) <= j
      BY <1>4, <1>5, <3>0
    <3>2. k + LengthAt(o, k) \in before
      BY <1>4, <1>5, <1>6, <3>0, <3>1
    <3>3. k + LengthAt(o, k) \in S \cup {j}
      <4>1. PICK n : n = k + LengthAt(o, k)
        OBVIOUS
      <4>2. n \in before /\ n \in Nat /\ j \in Nat /\ n <= j
        BY <1>5, <3>1, <3>2, <4>1
      <4>3. n < j \/ n = j
        BY <4>2
      <4> QED BY <4>1, <4>2, <4>3
    <3> QED BY <1>4, <3>0, <3>3
  <2> HIDE DEF S
  <2>4. Starts(o, j)
    BY <2>1, <2>2, <2>3 DEF Starts
  <2>5. IsMss(o, j) /\ j \in 1..(i - 1)
    BY <1>4, <1>7, <2>4 DEF IsMss
  <2> QED BY <2>5 DEF FirstMss
<1>8. ASSUME NEW j \in before PROVE f[j] = f[j + LengthAt(o, j)]
  <2>1. WellFormed(o, j) /\ ~ (o[j] = 2 /\ LengthAt(o, j) = 4)
    BY <1>4, <1>7
  <2>2. j \in 1..(Len(o) + 1) /\ j < l
    BY <1>1, <1>5
  <2>3. CASE o[j] = 1
    BY <1>1, <1>2, <1>3, <2>1, <2>2, <2>3 DEF WellFormed, LengthAt
  <2>4. CASE o[j] # 1
    <3>1. /\ LengthAt(o, j) = o[j + 1] /\ o[j] # 0 /\ o[j + 1] > 1
          /\ j + o[j + 1] <= Len(o) + 1
      BY <1>1, <2>1, <2>2, <2>4 DEF WellFormed, LengthAt
    <3>2. ~ (j = Len(o) \/ o[j + 1] < 2 \/ j + o[j + 1] > Len(o) + 1)
      BY <1>1, <1>2, <2>2, <3>1
    <3> QED BY <1>1, <1>3, <2>1, <2>2, <2>4, <3>1, <3>2
  <2> QED BY <2>3, <2>4
<1> DEFINE T == {j \in before \cup {i} : f[j] = f[1]}
<1>9. T \subseteq Nat /\ 1 \in T /\ \A j \in T : j <= i
  <2>1. \A j \in before \cup {i} : j \in Nat /\ j <= i
    BY <1>5
  <2>2. 1 \in T
    BY <1>4
  <2> QED BY <2>1, <2>2
<1>10. PICK j \in T : \A k \in T : k <= j
  <2> HIDE DEF T
  <2>1. T # {}
    BY <1>9
  <2> QED BY <1>5, <1>9, <2>1, GreatestOf
<1>11. j = i
  <2> SUFFICES ASSUME j # i PROVE FALSE
    OBVIOUS
  <2>1. j \in before /\ f[j] = f[1]
    BY <1>10
  <2>2. j + LengthAt(o, j) \in T
    BY <1>4, <1>8, <2>1
  <2> QED BY <1>5, <1>6, <1>10, <2>1, <2>2
<1>12. f[i] = f[1]
  BY <1>10, <1>11
<1>13. o[i] = 2 /\ WellFormed(o, i) /\ LengthAt(o, i) = 4
  BY DEF FirstMss, IsMss
<1>14. f[i] = i
  <2> HIDE DEF T
  <2>1. i \in 1..l /\ o[i] = 2 /\ i < l /\ o[i + 1] = 4 /\ i + 4 <= l + 1
    BY <1>1, <1>5, <1>13 DEF WellFormed, LengthAt
  <2>2. ~ (i > Len(o) \/ o[i] = 0) /\ o[i] # 1 /\ i \in 1..(Len(o) + 1)
    BY <1>1, <2>1
  <2>3. ~ (i = Len(o) \/ o[i + 1] < 2 \/ i + o[i + 1] > Len(o) + 1)
    BY <1>1, <2>1
  <2> QED BY <1>3, <2>1, <2>2, <2>3
<1> QED BY <1>3, <1>12, <1>14

(***************************************************************************)
(* Where the walk stops at an MSS, that is an option a TCP reads.          *)
(***************************************************************************)
LEMMA WalkFindsMss ==
  ASSUME NEW o \in Seq(Byte), MssFrom(o) # NoMss
  PROVE  /\ MssFrom(o) \in 1..Len(o)
         /\ IsMss(o, MssFrom(o))
<1>1. PICK l \in Nat : l = Len(o)
  BY LenProperties
<1>2. \A j \in 1..l : o[j] \in Nat
  BY <1>1, ElementOfSeq DEF Byte
<1>3. PICK f : /\ MssFrom(o) = f[1]
               /\ \A j \in 1..(Len(o) + 1) :
                     f[j] = IF j > Len(o) \/ o[j] = 0 THEN NoMss
                            ELSE IF o[j] = 1 THEN f[j + 1]
                            ELSE IF j = Len(o) \/ o[j + 1] < 2 \/ j + o[j + 1] > Len(o) + 1 THEN NoMss
                            ELSE IF o[j] = 2 /\ o[j + 1] = 4 THEN j
                            ELSE f[j + o[j + 1]]
  BY MssWalk
<1> DEFINE T == {j \in 1..(l + 1) : Starts(o, j) /\ f[j] = f[1]}
<1>4. 1 \in T
  <2>1. /\ {} \in SUBSET (1..(1 - 1)) /\ 1 \in {} \cup {1}
        /\ \A j \in {} :
             /\ WellFormed(o, j)
             /\ j + LengthAt(o, j) \in {} \cup {1}
             /\ \A k \in {} : k <= j \/ k >= j + LengthAt(o, j)
    OBVIOUS
  <2>2. Starts(o, 1)
    BY <2>1, Zenon DEF Starts
  <2> QED BY <2>2
<1>5. PICK j \in T : \A k \in T : k <= j
  <2>1. T \subseteq Nat /\ T # {} /\ l + 1 \in Nat /\ \A k \in T : k <= l + 1
    BY <1>4
  <2> HIDE DEF T
  <2> QED BY <2>1, GreatestOf
<1>6. j \in 1..(l + 1) /\ Starts(o, j) /\ f[j] = f[1]
  BY <1>5
<1>7. ASSUME WellFormed(o, j), j <= l, f[j] = f[j + LengthAt(o, j)] PROVE FALSE
  <2> DEFINE n == j + LengthAt(o, j)
  <2>1. n \in 1..(l + 1) /\ n > j
    BY <1>1, <1>2, <1>6, <1>7 DEF WellFormed, LengthAt
  <2>2. PICK before \in SUBSET (1..(j - 1)) :
          /\ 1 \in before \cup {j}
          /\ \A k \in before :
               /\ WellFormed(o, k)
               /\ k + LengthAt(o, k) \in before \cup {j}
               /\ \A m \in before : m <= k \/ m >= k + LengthAt(o, k)
    BY <1>6 DEF Starts
  <2> DEFINE S == before \cup {j}
  <2>3. S \in SUBSET (1..(n - 1)) /\ 1 \in S \cup {n} /\ \A k \in S : k <= j
    BY <1>6, <2>1, <2>2
  <2>4. ASSUME NEW k \in S
        PROVE  /\ WellFormed(o, k)
               /\ k + LengthAt(o, k) \in S \cup {n}
               /\ \A m \in S : m <= k \/ m >= k + LengthAt(o, k)
    <3>1. CASE k = j
      BY <1>7, <2>3, <3>1
    <3>2. CASE k # j
      <4>1. k \in before
        BY <3>2
      <4>2. WellFormed(o, k) /\ k + LengthAt(o, k) \in S
        BY <2>2, <4>1
      <4>3. ASSUME NEW m \in S PROVE m <= k \/ m >= k + LengthAt(o, k)
        <5>1. CASE m \in before
          BY <2>2, <4>1, <5>1
        <5>2. CASE m = j
          BY <2>3, <4>2, <5>2
        <5> QED BY <5>1, <5>2
      <4> QED BY <4>2, <4>3
    <3> QED BY <3>1, <3>2
  <2> HIDE DEF S, n
  <2>5. Starts(o, n)
    BY <2>3, <2>4 DEF Starts
  <2>6. n \in T
    BY <1>6, <1>7, <2>1, <2>5 DEF n
  <2> QED BY <1>5, <1>6, <2>1, <2>6
<1>8. f[j] # NoMss
  BY <1>3, <1>6
<1>9. j <= l /\ o[j] # 0
  BY <1>1, <1>3, <1>6, <1>8
<1>10. o[j] # 1
  <2> SUFFICES ASSUME o[j] = 1 PROVE FALSE
    OBVIOUS
  <2>1. WellFormed(o, j) /\ LengthAt(o, j) = 1
    BY <1>1, <1>6, <1>9 DEF WellFormed, LengthAt
  <2>2. f[j] = f[j + 1]
    BY <1>1, <1>3, <1>6, <1>9
  <2> QED BY <1>7, <1>9, <2>1, <2>2
<1>11. j < l /\ o[j + 1] >= 2 /\ j + o[j + 1] <= l + 1
  <2>1. ~ (j = Len(o) \/ o[j + 1] < 2 \/ j + o[j + 1] > Len(o) + 1)
    BY <1>1, <1>3, <1>6, <1>8, <1>9, <1>10
  <2>2. j < l
    BY <1>1, <1>6, <1>9, <2>1
  <2>3. o[j + 1] \in Nat
    BY <1>2, <1>6, <2>2
  <2> QED BY <1>1, <1>6, <2>1, <2>2, <2>3
<1>12. WellFormed(o, j) /\ LengthAt(o, j) = o[j + 1]
  BY <1>1, <1>2, <1>6, <1>9, <1>10, <1>11 DEF WellFormed, LengthAt
<1>13. o[j] = 2 /\ o[j + 1] = 4
  <2> SUFFICES ASSUME ~ (o[j] = 2 /\ o[j + 1] = 4) PROVE FALSE
    OBVIOUS
  <2>1. f[j] = f[j + o[j + 1]]
    BY <1>1, <1>2, <1>3, <1>6, <1>9, <1>10, <1>11
  <2> QED BY <1>7, <1>9, <1>12, <2>1
<1>14. f[j] = j
  BY <1>1, <1>2, <1>3, <1>6, <1>9, <1>11, <1>13
<1>15. IsMss(o, j)
  BY <1>6, <1>12, <1>13 DEF IsMss
<1> QED BY <1>1, <1>3, <1>6, <1>9, <1>14, <1>15

(***************************************************************************)
(* ClampMSS finds an MSS where a TCP that reads the options finds its      *)
(* first, and nowhere else, whatever padding, unknown options or broken    *)
(* lengths there are (mss.go).                                             *)
(***************************************************************************)
LEMMA WalkIsFirst ==
  ASSUME NEW o \in Seq(Byte), NEW i \in 1..Len(o)
  PROVE  MssFrom(o) = i <=> FirstMss(o, i)
<1>1. ASSUME MssFrom(o) = i PROVE FirstMss(o, i)
  <2>1. IsMss(o, i)
    BY <1>1, WalkFindsMss DEF NoMss
  <2>2. ASSUME NEW k \in 1..(i - 1), IsMss(o, k) PROVE FALSE
    <3> DEFINE T == {j \in 1..(i - 1) : IsMss(o, j)}
    <3>1. T \subseteq Nat /\ k \in T
      BY <2>2
    <3>2. PICK j \in T : \A m \in T : j <= m
      <4> HIDE DEF T
      <4> QED BY <3>1, LeastOf
    <3>3. j \in 1..(i - 1) /\ j \in 1..Len(o) /\ IsMss(o, j)
      BY <3>2, LenProperties
    <3>4. FirstMss(o, j)
      <4>1. ASSUME NEW m \in 1..(j - 1), IsMss(o, m) PROVE FALSE
        <5>1. m \in T /\ m < j
          BY <3>3, <4>1
        <5> QED BY <3>2, <3>3, <5>1
      <4> QED BY <3>3, <4>1 DEF FirstMss
    <3>5. MssFrom(o) = j
      BY <3>3, <3>4, WalkFindsFirst
    <3> QED BY <1>1, <3>3, <3>5
  <2> QED BY <2>1, <2>2 DEF FirstMss
<1> QED BY <1>1, WalkFindsFirst
----------------------------------------------------------------------------
(***************************************************************************)
(* An MSS the walk finds lies in the options with its value.               *)
(***************************************************************************)
LEMMA MssIn ==
  ASSUME NEW o \in Seq(Byte), MssFrom(o) # NoMss
  PROVE  /\ MssFrom(o) \in Nat /\ MssFrom(o) >= 1 /\ MssFrom(o) + 3 <= Len(o)
         /\ FirstMss(o, MssFrom(o))
<1>1. PICK i : i = MssFrom(o)
  OBVIOUS
<1>2. i \in 1..Len(o) /\ IsMss(o, i) /\ FirstMss(o, i)
  BY <1>1, WalkFindsMss, WalkIsFirst
<1>3. i + 4 <= Len(o) + 1
  BY <1>2 DEF IsMss, WellFormed
<1> QED BY <1>1, <1>2, <1>3, LenProperties

(***************************************************************************)
(* The two bytes of an MSS decide nothing of where the first one stands.   *)
(***************************************************************************)
LEMMA FirstStays ==
  ASSUME NEW o \in Seq(Byte), NEW i \in 1..Len(o), FirstMss(o, i),
         NEW u \in Seq(Byte), Len(u) = Len(o),
         \A j \in 1..Len(o) : j \notin {i + 2, i + 3} => u[j] = o[j]
  PROVE  FirstMss(u, i)
<1>1. PICK l \in Nat : l = Len(o) /\ l = Len(u)
  BY LenProperties
<1>2. i \in 1..l /\ i + 4 <= l + 1
  BY <1>1 DEF FirstMss, IsMss, WellFormed
<1>3. ASSUME NEW j \in 1..i
      PROVE  /\ u[j] = o[j] /\ LengthAt(u, j) = LengthAt(o, j)
             /\ WellFormed(u, j) <=> WellFormed(o, j)
  <2>1. u[j] = o[j] /\ u[j + 1] = o[j + 1]
    BY <1>1, <1>2
  <2>2. LengthAt(u, j) = LengthAt(o, j)
    BY <1>1, <2>1 DEF LengthAt
  <2> QED BY <1>1, <2>1, <2>2 DEF WellFormed
<1>4. ASSUME NEW j \in 1..i PROVE Starts(u, j) <=> Starts(o, j)
  <2>1. \A before \in SUBSET (1..(j - 1)) : \A k \in before : k \in 1..i
    BY <1>2
  <2>2. \A before \in SUBSET (1..(j - 1)) : \A k \in before :
          LengthAt(u, k) = LengthAt(o, k) /\ (WellFormed(u, k) <=> WellFormed(o, k))
    BY <1>3, <2>1
  <2> QED BY <2>2, Zenon DEF Starts
<1>5. \A j \in 1..i : IsMss(u, j) <=> IsMss(o, j)
  BY <1>3, <1>4 DEF IsMss
<1>6. i \in 1..i /\ \A j \in 1..(i - 1) : j \in 1..i
  BY <1>2
<1> QED BY <1>5, <1>6, Zenon DEF FirstMss

(***************************************************************************)
(* ClampMSS writes two bytes and the checksum and nothing else, and the    *)
(* MSS it has cut is what the walk finds again.                            *)
(***************************************************************************)
LEMMA CutFacts ==
  ASSUME NEW s \in Seg, NEW max \in Word, MssFrom(s.opts) # NoMss
  PROVE  LET i == MssFrom(s.opts)
             t == Cut(s, i, max)
         IN  /\ t \in Seg /\ t.syn = s.syn /\ t.rest = s.rest
             /\ Len(t.opts) = Len(s.opts)
             /\ \A j \in 1..Len(s.opts) : j \notin {i + 2, i + 3} => t.opts[j] = s.opts[j]
             /\ WordAt(t.opts, i + 2) = max
             /\ MssFrom(t.opts) = i
             /\ t.sum = fixChecksum(s.sum, WordAt(s.opts, i + 2), max)
<1>1. PICK i : i = MssFrom(s.opts)
  OBVIOUS
<1>2. PICK o \in Seq(Byte) : o = s.opts
  BY DEF Seg
<1>3. i \in Nat /\ i >= 1 /\ i + 3 <= Len(o) /\ Len(o) \in Nat /\ FirstMss(o, i)
  BY <1>1, <1>2, MssIn, LenProperties
<1>4. PICK hi \in Byte : hi = max \div 256
  <2>1. max \in Nat /\ max < 65536
    BY DEF Word
  <2>2. max \div 256 \in Nat /\ max \div 256 < 256
    BY <2>1
  <2> QED BY <2>2 DEF Byte
<1>5. PICK lo \in Byte : lo = max % 256
  <2>1. max \in Nat
    BY DEF Word
  <2>2. max % 256 \in Nat /\ max % 256 < 256
    BY <2>1
  <2> QED BY <2>2 DEF Byte
<1>6. 256 * hi + lo = max
  <2>1. max \in Nat
    BY DEF Word
  <2> QED BY <2>1, <1>4, <1>5
<1> DEFINE v == [o EXCEPT ![i + 2] = hi]
           u == [v EXCEPT ![i + 3] = lo]
           sum == fixChecksum(s.sum, WordAt(o, i + 2), max)
           t == [s EXCEPT !.opts = u, !.sum = sum]
<1>7. Cut(s, i, max) = t
  <2>1. [o EXCEPT ![i + 2] = hi, ![i + 3] = lo] = u
    OBVIOUS
  <2>2. Cut(s, i, max) = [s EXCEPT !.opts = [o EXCEPT ![i + 2] = hi, ![i + 3] = lo], !.sum = sum]
    BY <1>2, <1>4, <1>5, Zenon DEF Cut
  <2> QED BY <2>1, <2>2, Zenon
<1>8. /\ v \in Seq(Byte) /\ Len(v) = Len(o)
      /\ \A j \in 1..Len(o) : v[j] = IF j = i + 2 THEN hi ELSE o[j]
  <2>1. i + 2 \in 1..Len(o)
    BY <1>3
  <2> QED BY <2>1, ExceptSeq
<1>9. /\ u \in Seq(Byte) /\ Len(u) = Len(o)
      /\ \A j \in 1..Len(o) : u[j] = IF j = i + 3 THEN lo ELSE v[j]
  <2>1. i + 3 \in 1..Len(v)
    BY <1>3, <1>8
  <2> HIDE DEF v
  <2> QED BY <1>8, <2>1, ExceptSeq
<1> HIDE DEF u, v
<1>10. /\ \A j \in 1..Len(o) : j \notin {i + 2, i + 3} => u[j] = o[j]
       /\ u[i + 2] = hi /\ u[i + 3] = lo
  BY <1>3, <1>8, <1>9
<1>11. WordAt(u, i + 2) = max
  BY <1>3, <1>6, <1>10 DEF WordAt
<1>12. FirstMss(u, i) /\ i \in 1..Len(u)
  BY <1>3, <1>9, <1>10, FirstStays
<1>13. MssFrom(u) = i
  BY <1>9, <1>12, WalkIsFirst
<1>14. sum \in Word
  <2>1. WordAt(o, i + 2) \in Word
    BY <1>3, WordIs
  <2>2. s.sum \in Word
    BY DEF Seg
  <2> QED BY <2>1, <2>2, FixIsWord
<1> HIDE DEF sum
<1>15. /\ t \in Seg /\ t.syn = s.syn /\ t.rest = s.rest /\ t.opts = u /\ t.sum = sum
  BY <1>9, <1>14 DEF Seg
<1> HIDE DEF t
<1>16. t.sum = fixChecksum(s.sum, WordAt(s.opts, i + 2), max)
  BY <1>2, <1>15 DEF sum
<1> QED BY <1>1, <1>2, <1>7, <1>9, <1>10, <1>11, <1>13, <1>15, <1>16

(***************************************************************************)
(* A cut of an MSS that lies in one word leaves a checksum that was right  *)
(* right.                                                                  *)
(***************************************************************************)
LEMMA CutVerifies ==
  ASSUME NEW s \in Seg, NEW max \in Word, max # 0, MssFrom(s.opts) # NoMss,
         MssFrom(s.opts) % 2 = 1, Verifies(s)
  PROVE  Verifies(Cut(s, MssFrom(s.opts), max))
<1>1. PICK i : i = MssFrom(s.opts)
  OBVIOUS
<1>2. PICK o \in Seq(Byte) : o = s.opts
  BY DEF Seg
<1>3. i \in Nat /\ i >= 1 /\ i + 3 <= Len(o) /\ Len(o) \in Nat
  BY <1>1, <1>2, MssIn, LenProperties
<1>4. PICK t : t = Cut(s, i, max)
  OBVIOUS
<1>5. /\ t \in Seg /\ t.rest = s.rest /\ Len(t.opts) = Len(o)
      /\ \A j \in 1..Len(o) : j \notin {i + 2, i + 3} => t.opts[j] = o[j]
      /\ WordAt(t.opts, i + 2) = max
      /\ t.sum = fixChecksum(s.sum, WordAt(o, i + 2), max)
  BY <1>1, <1>2, <1>4, CutFacts
<1>6. PICK u \in Seq(Byte) : u = t.opts
  BY <1>5 DEF Seg
<1>7. PICK w \in Nat : i + 2 = 2 * w - 1
  <2>1. i % 2 = 1
    BY <1>1
  <2>2. i = 2 * (i \div 2) + 1 /\ i \div 2 \in Nat
    BY <1>3, <2>1
  <2>3. PICK d \in Nat : i = 2 * d + 1
    BY <2>2
  <2>4. i + 2 = 2 * (d + 2) - 1 /\ d + 2 \in Nat
    BY <2>3
  <2> QED BY <2>4
<1>8. w \in 1..(Len(o) \div 2)
  BY <1>3, <1>7
<1>9. ASSUME NEW n \in 1..(Len(o) \div 2), n # w
      PROVE  WordAt(u, 2 * n - 1) = WordAt(o, 2 * n - 1)
  <2>1. 2 * n - 1 \in 1..Len(o) /\ 2 * n \in 1..Len(o)
    BY <1>3
  <2>2. 2 * n - 1 \notin {i + 2, i + 3} /\ 2 * n \notin {i + 2, i + 3}
    BY <1>3, <1>7, <1>9
  <2>3. u[2 * n - 1] = o[2 * n - 1] /\ u[2 * n] = o[2 * n]
    BY <1>5, <1>6, <2>1, <2>2
  <2> QED BY <2>3 DEF WordAt
<1>10. PICK old : old = WordAt(o, i + 2)
  OBVIOUS
<1>11. /\ SumOf(o) \in Nat /\ old <= SumOf(o)
       /\ SumOf(u) = SumOf(o) - old + max
  BY <1>5, <1>6, <1>7, <1>8, <1>9, <1>10, SumChanges
<1>12. old \in Word
  BY <1>3, <1>10, WordIs
<1>13. PICK a : a = SumOf(o) + s.rest
  OBVIOUS
<1>14. s.sum \in Word /\ s.rest \in Nat /\ old \in Nat /\ max \in Nat
  BY <1>12 DEF Seg, Word
<1>15. a \in Nat /\ old <= a /\ SumOf(u) + t.rest = a - old + max
  <2>1. SumOf(o) \in Nat /\ old \in Nat /\ max \in Nat /\ s.rest \in Nat
    BY <1>11, <1>14
  <2>2. a \in Nat /\ old <= a
    BY <1>11, <1>13, <2>1
  <2>3. SumOf(u) + s.rest = a - old + max
    BY <1>11, <1>13, <2>1
  <2> QED BY <1>5, <2>2, <2>3
<1>16. Carry[a + s.sum] = 65535
  BY <1>2, <1>13 DEF Verifies
<1>17. Carry[(a - old + max) + fixChecksum(s.sum, old, max)] = 65535
  <2>1. Mended(a, s.sum, old, max)
    BY <1>12, <1>14, <1>15, FixedVerifies
  <2> QED BY <1>16, <2>1 DEF Mended
<1>18. Carry[SumOf(t.opts) + t.rest + t.sum] = 65535
  BY <1>5, <1>6, <1>10, <1>15, <1>17
<1> QED BY <1>1, <1>4, <1>18 DEF Verifies

\* What a clamp makes of a segment s: it may lower the value of its first MSS.
Cuts(s, t) ==
  LET i == MssFrom(s.opts)
  IN  /\ t \in Seg /\ t.syn = s.syn /\ t.rest = s.rest /\ Len(t.opts) = Len(s.opts)
      /\ MssFrom(t.opts) = i
      /\ \/ t = s
         \/ /\ s.syn /\ i # NoMss
            /\ WordAt(t.opts, i + 2) < WordAt(s.opts, i + 2)
            /\ \A j \in 1..Len(s.opts) : j \notin {i + 2, i + 3} => t.opts[j] = s.opts[j]
      /\ (i # NoMss => i % 2 = 1) /\ Verifies(s) => Verifies(t)

Announces(s, max) ==
  s.syn /\ MssFrom(s.opts) # NoMss => WordAt(s.opts, MssFrom(s.opts) + 2) <= max

Clamped(s, t, max) == Cuts(s, t) /\ Announces(t, max)

(***************************************************************************)
(* ClampMSS lowers the value of the first MSS or does nothing, and after   *)
(* it the segment announces at most the limit.                             *)
(***************************************************************************)
LEMMA ClampFacts ==
  ASSUME NEW s \in Seg, NEW max \in Word, max # 0
  PROVE  Clamped(s, ClampMSS(s, max), max)
<1>1. PICK i : i = MssFrom(s.opts)
  OBVIOUS
<1>2. CASE ~ s.syn \/ i = NoMss
  <2>1. ClampMSS(s, max) = s
    BY <1>1, <1>2 DEF ClampMSS
  <2> QED BY <1>1, <1>2, <2>1 DEF Clamped, Cuts, Announces
<1>3. CASE s.syn /\ i # NoMss
  <2>1. i \in Nat /\ i + 3 <= Len(s.opts) /\ s.opts \in Seq(Byte) /\ i >= 1
    BY <1>1, <1>3, MssIn DEF Seg
  <2>2. WordAt(s.opts, i + 2) \in Word
    BY <2>1, LenProperties, WordIs
  <2>3. CASE WordAt(s.opts, i + 2) <= max
    <3>1. ClampMSS(s, max) = s
      BY <1>1, <1>3, <2>3 DEF ClampMSS
    <3> QED BY <1>1, <1>3, <2>3, <3>1 DEF Clamped, Cuts, Announces
  <2>4. CASE WordAt(s.opts, i + 2) > max
    <3>1. PICK t : t = Cut(s, i, max)
      OBVIOUS
    <3>2. ClampMSS(s, max) = t
      BY <1>1, <1>3, <2>2, <2>4, <3>1 DEF ClampMSS, Word
    <3>3. /\ t \in Seg /\ t.syn = s.syn /\ t.rest = s.rest
          /\ Len(t.opts) = Len(s.opts)
          /\ \A j \in 1..Len(s.opts) : j \notin {i + 2, i + 3} => t.opts[j] = s.opts[j]
          /\ WordAt(t.opts, i + 2) = max
          /\ MssFrom(t.opts) = i
      BY <1>1, <1>3, <3>1, CutFacts
    <3>4. i % 2 = 1 /\ Verifies(s) => Verifies(t)
      BY <1>1, <1>3, <3>1, CutVerifies
    <3>5. max <= max /\ max < WordAt(s.opts, i + 2)
      BY <2>2, <2>4 DEF Word
    <3> QED BY <1>1, <1>3, <3>2, <3>3, <3>4, <3>5 DEF Clamped, Cuts, Announces
  <2> QED BY <2>2, <2>3, <2>4 DEF Word
<1> QED BY <1>2, <1>3

(***************************************************************************)
(* The clamps of the sender's csa and of the receiver's are together one   *)
(* cut.                                                                    *)
(***************************************************************************)
LEMMA CutTwice ==
  ASSUME NEW s \in Seg, NEW t, NEW u, Cuts(s, t), Cuts(t, u)
  PROVE  Cuts(s, u)
<1>1. PICK i : i = MssFrom(s.opts)
  OBVIOUS
<1>2. /\ t \in Seg /\ t.syn = s.syn /\ t.rest = s.rest /\ Len(t.opts) = Len(s.opts)
      /\ MssFrom(t.opts) = i
      /\ \/ t = s
         \/ /\ s.syn /\ i # NoMss
            /\ WordAt(t.opts, i + 2) < WordAt(s.opts, i + 2)
            /\ \A j \in 1..Len(s.opts) : j \notin {i + 2, i + 3} => t.opts[j] = s.opts[j]
      /\ (i # NoMss => i % 2 = 1) /\ Verifies(s) => Verifies(t)
  BY <1>1 DEF Cuts
<1>3. /\ u \in Seg /\ u.syn = t.syn /\ u.rest = t.rest /\ Len(u.opts) = Len(t.opts)
      /\ MssFrom(u.opts) = i
      /\ \/ u = t
         \/ /\ t.syn /\ i # NoMss
            /\ WordAt(u.opts, i + 2) < WordAt(t.opts, i + 2)
            /\ \A j \in 1..Len(t.opts) : j \notin {i + 2, i + 3} => u.opts[j] = t.opts[j]
      /\ (i # NoMss => i % 2 = 1) /\ Verifies(t) => Verifies(u)
  BY <1>2 DEF Cuts
<1>4. CASE t = s \/ u = t
  BY <1>1, <1>2, <1>3, <1>4 DEF Cuts
<1>5. CASE t # s /\ u # t
  <2>1. \A x \in {s, t, u} : WordAt(x.opts, i + 2) \in Nat
    <3>1. ASSUME NEW x \in {s, t, u} PROVE WordAt(x.opts, i + 2) \in Nat
      <4>1. x.opts \in Seq(Byte) /\ MssFrom(x.opts) = i /\ i # NoMss
        BY <1>1, <1>2, <1>3, <1>5 DEF Seg
      <4>2. i \in Nat /\ i + 3 <= Len(x.opts) /\ Len(x.opts) \in Nat /\ i + 2 \in Nat \ {0}
        BY <4>1, MssIn, LenProperties
      <4>3. i + 2 < Len(x.opts)
        BY <4>2
      <4> QED BY <4>1, <4>2, <4>3, WordIs DEF Word
    <3> QED BY <3>1
  <2>2. WordAt(u.opts, i + 2) < WordAt(s.opts, i + 2)
    BY <1>2, <1>3, <1>5, <2>1
  <2>3. \A j \in 1..Len(s.opts) : j \notin {i + 2, i + 3} => u.opts[j] = s.opts[j]
    BY <1>2, <1>3, <1>5
  <2> QED BY <1>1, <1>2, <1>3, <1>5, <2>2, <2>3 DEF Cuts
<1> QED BY <1>4, <1>5

(***************************************************************************)
(* A second clamp undoes nothing of the first.                             *)
(***************************************************************************)
LEMMA CutAnnounces ==
  ASSUME NEW s \in Seg, NEW t, NEW max \in Word, Cuts(s, t), Announces(s, max)
  PROVE  Announces(t, max)
<1> SUFFICES ASSUME t.syn, MssFrom(t.opts) # NoMss
             PROVE  WordAt(t.opts, MssFrom(t.opts) + 2) <= max
  BY DEF Announces
<1>1. PICK i : i = MssFrom(s.opts)
  OBVIOUS
<1>2. /\ t \in Seg /\ MssFrom(t.opts) = i /\ i # NoMss
      /\ t = s \/ WordAt(t.opts, i + 2) < WordAt(s.opts, i + 2)
      /\ WordAt(s.opts, i + 2) <= max
  BY <1>1 DEF Cuts, Announces
<1>3. \A x \in {s, t} : WordAt(x.opts, i + 2) \in Nat
  <2>1. ASSUME NEW x \in {s, t} PROVE WordAt(x.opts, i + 2) \in Nat
    <3>1. x.opts \in Seq(Byte) /\ MssFrom(x.opts) = i /\ i # NoMss
      BY <1>1, <1>2 DEF Seg
    <3>2. i \in Nat /\ i + 3 <= Len(x.opts) /\ Len(x.opts) \in Nat /\ i + 2 \in Nat \ {0}
      BY <3>1, MssIn, LenProperties
    <3>3. i + 2 < Len(x.opts)
      BY <3>2
    <3> QED BY <3>1, <3>2, <3>3, WordIs DEF Word
  <2> QED BY <2>1
<1> QED BY <1>2, <1>3 DEF Word
----------------------------------------------------------------------------
(***************************************************************************)
(* Lists, and what is picked from them.                                    *)
(***************************************************************************)

(***************************************************************************)
(* The length and the places of a list.                                    *)
(***************************************************************************)
LEMMA ListFacts ==
  ASSUME NEW p, IsList(p)
  PROVE  Len(p) \in Nat /\ DOMAIN p = 1..Len(p)
  BY Zenon DEF IsList

(***************************************************************************)
(* A function on 1..n is a list of length n.                               *)
(***************************************************************************)
LEMMA ListMade ==
  ASSUME NEW p, NEW n \in Nat, DOMAIN p = 1..n, p = [i \in 1..n |-> p[i]]
  PROVE  IsList(p) /\ Len(p) = n
<1>1. p \in Seq({p[i] : i \in 1..n})
  OBVIOUS
<1>2. DOMAIN p = 1..Len(p) /\ Len(p) \in Nat
  BY <1>1, LenProperties
<1>3. Len(p) = n
  BY <1>2
<1> QED BY <1>3, Zenon DEF IsList

(***************************************************************************)
(* Lists are sequences over what they hold.                                *)
(***************************************************************************)
LEMMA ListsAreSeqs ==
  ASSUME NEW p, IsList(p), NEW q, IsList(q)
  PROVE  \E S : p \in Seq(S) /\ q \in Seq(S)
<1> DEFINE S == {p[i] : i \in 1..Len(p)} \cup {q[i] : i \in 1..Len(q)}
<1>1. p \in [1..Len(p) -> S] /\ q \in [1..Len(q) -> S]
  BY DEF IsList
<1>2. p \in Seq(S) /\ q \in Seq(S)
  BY <1>1, ListFacts
<1> QED BY <1>2

(***************************************************************************)
(* Sequences are lists.                                                    *)
(***************************************************************************)
LEMMA SeqIsList ==
  ASSUME NEW S, NEW p \in Seq(S)
  PROVE  IsList(p)
<1>1. Len(p) \in Nat /\ p \in [1..Len(p) -> S]
  BY LenProperties
<1> QED BY <1>1, Zenon DEF IsList

(***************************************************************************)
(* Lists of one length that agree at every place are equal.                *)
(***************************************************************************)
LEMMA SameLists ==
  ASSUME NEW p, IsList(p), NEW q, IsList(q), Len(p) = Len(q),
         \A i \in 1..Len(p) : p[i] = q[i]
  PROVE  p = q
  BY DEF IsList

(***************************************************************************)
(* What stands where in two lists joined.                                  *)
(***************************************************************************)
LEMMA JoinFacts ==
  ASSUME NEW p, IsList(p), NEW q, IsList(q)
  PROVE  /\ IsList(p \o q) /\ Len(p \o q) = Len(p) + Len(q)
         /\ \A i \in 1..Len(p) : (p \o q)[i] = p[i]
         /\ \A i \in (Len(p) + 1)..(Len(p) + Len(q)) : (p \o q)[i] = q[i - Len(p)]
<1>0. PICK S : p \in Seq(S) /\ q \in Seq(S)
  BY ListsAreSeqs
<1>1. /\ p \o q \in Seq(S) /\ Len(p \o q) = Len(p) + Len(q)
      /\ \A i \in 1..(Len(p) + Len(q)) :
           (p \o q)[i] = IF i <= Len(p) THEN p[i] ELSE q[i - Len(p)]
  BY <1>0, ConcatProperties
<1>2. Len(p) \in Nat /\ Len(q) \in Nat
  BY ListFacts
<1>3. IsList(p \o q)
  BY <1>1, SeqIsList, Zenon
<1> QED BY <1>1, <1>2, <1>3

(***************************************************************************)
(* What stands where in a part of a list.                                  *)
(***************************************************************************)
LEMMA PartFacts ==
  ASSUME NEW p, IsList(p), NEW m \in 1..(Len(p) + 1), NEW n \in (m - 1)..Len(p)
  PROVE  /\ IsList(SubSeq(p, m, n)) /\ Len(SubSeq(p, m, n)) = n - m + 1
         /\ \A i \in 1..(n - m + 1) : SubSeq(p, m, n)[i] = p[m + i - 1]
<1>0. PICK S : p \in Seq(S)
  BY ListsAreSeqs
<1>1. Len(p) \in Nat /\ \A i \in m..n : p[i] \in S
  BY <1>0, ListFacts, ElementOfSeq
<1>2. /\ SubSeq(p, m, n) \in Seq(S)
      /\ Len(SubSeq(p, m, n)) = IF m <= n THEN n - m + 1 ELSE 0
      /\ \A i \in 1..(n - m + 1) : SubSeq(p, m, n)[i] = p[m + i - 1]
  BY <1>1, SubSeqProperties
<1>3. IsList(SubSeq(p, m, n))
  BY <1>2, SeqIsList, Zenon
<1> QED BY <1>1, <1>2, <1>3

(***************************************************************************)
(* A packet is read back from the front of its buffer whatever stands      *)
(* behind it.                                                              *)
(***************************************************************************)
LEMMA FrontOfJoin ==
  ASSUME NEW p, IsList(p), NEW q, IsList(q)
  PROVE  SubSeq(p \o q, 1, Len(p)) = p
<1>0. Len(p) \in Nat /\ Len(q) \in Nat
  BY ListFacts
<1>1. /\ IsList(p \o q) /\ Len(p \o q) = Len(p) + Len(q)
      /\ \A i \in 1..Len(p) : (p \o q)[i] = p[i]
  BY JoinFacts
<1>a. 1 \in 1..(Len(p \o q) + 1) /\ Len(p) \in (1 - 1)..Len(p \o q)
  BY <1>0, <1>1
<1>b. /\ IsList(SubSeq(p \o q, 1, Len(p)))
      /\ Len(SubSeq(p \o q, 1, Len(p))) = Len(p) - 1 + 1
      /\ \A i \in 1..(Len(p) - 1 + 1) : SubSeq(p \o q, 1, Len(p))[i] = (p \o q)[1 + i - 1]
  BY <1>a, <1>1, PartFacts, Zenon
<1>2. /\ IsList(SubSeq(p \o q, 1, Len(p)))
      /\ Len(SubSeq(p \o q, 1, Len(p))) = Len(p)
      /\ \A i \in 1..Len(p) : SubSeq(p \o q, 1, Len(p))[i] = (p \o q)[i]
  BY <1>0, <1>b
<1> QED BY <1>1, <1>2, SameLists
----------------------------------------------------------------------------
Rank(ks, k) == Cardinality({m \in ks : m < k})

(***************************************************************************)
(* The places of a finite set are numbered from 0, in their order, and no  *)
(* number is given twice.                                                  *)
(***************************************************************************)
LEMMA RankFacts ==
  ASSUME NEW ks \in SUBSET Nat, IsFiniteSet(ks)
  PROVE  /\ IsFiniteSet(ks) /\ Cardinality(ks) \in Nat
         /\ \A k \in ks : Rank(ks, k) \in 0..(Cardinality(ks) - 1)
         /\ \A k, l \in ks : k < l => Rank(ks, k) < Rank(ks, l)
<1>1. IsFiniteSet(ks) /\ Cardinality(ks) \in Nat
  BY FS_CardinalityType
<1>2. ASSUME NEW k \in ks, NEW T \in SUBSET ks, \A m \in T : m # k,
             \A m \in ks : m < k => m \in T
      PROVE  Rank(ks, k) \in Nat /\ Rank(ks, k) <= Cardinality(T) /\ Cardinality(T) \in Nat
  <2>1. IsFiniteSet(T) /\ Cardinality(T) \in Nat
    BY <1>1, FS_Subset, FS_CardinalityType
  <2>2. {m \in ks : m < k} \in SUBSET T
    BY <1>2
  <2> QED BY <2>1, <2>2, FS_Subset, FS_CardinalityType DEF Rank
<1>3. ASSUME NEW k \in ks PROVE Rank(ks, k) \in 0..(Cardinality(ks) - 1)
  <2> DEFINE T == ks \ {k}
  <2>1. Cardinality(T) = Cardinality(ks) - 1
    BY <1>1, FS_RemoveElement
  <2>2. Rank(ks, k) \in Nat /\ Rank(ks, k) <= Cardinality(T)
    BY <1>2
  <2> QED BY <1>1, <2>1, <2>2
<1>4. ASSUME NEW k \in ks, NEW l \in ks, k < l PROVE Rank(ks, k) < Rank(ks, l)
  <2> DEFINE U == {m \in ks : m < l}
             T == U \ {k}
  <2>1. IsFiniteSet(U) /\ k \in U
    BY <1>1, <1>4, FS_Subset
  <2>2. Cardinality(T) = Cardinality(U) - 1 /\ Cardinality(U) \in Nat
    BY <2>1, FS_RemoveElement, FS_CardinalityType
  <2>3. T \in SUBSET ks /\ (\A m \in T : m # k) /\ (\A m \in ks : m < k => m \in T)
    BY <1>4
  <2>4. Rank(ks, k) \in Nat /\ Rank(ks, k) <= Cardinality(T)
    BY <1>2, <2>3
  <2> QED BY <2>2, <2>4 DEF Rank
<1> QED BY <1>1, <1>3, <1>4

(***************************************************************************)
(* No number below the size of the set is left out.                        *)
(***************************************************************************)
LEMMA RankHits ==
  ASSUME NEW ks \in SUBSET Nat, IsFiniteSet(ks), NEW j \in 1..Cardinality(ks)
  PROVE  \E k \in ks : Rank(ks, k) = j - 1
<1> DEFINE c == Cardinality(ks)
           rank == [k \in ks |-> Rank(ks, k)]
<1>1. /\ IsFiniteSet(ks) /\ c \in Nat
      /\ \A k \in ks : Rank(ks, k) \in 0..(c - 1)
      /\ \A k, l \in ks : k < l => Rank(ks, k) < Rank(ks, l)
  BY RankFacts
<1>2. rank \in [ks -> 0..(c - 1)]
  BY <1>1
<1>3. \A k, l \in ks : rank[k] = rank[l] => k = l
  <2> SUFFICES ASSUME NEW k \in ks, NEW l \in ks, k # l PROVE rank[k] # rank[l]
    OBVIOUS
  <2>1. k < l \/ l < k
    OBVIOUS
  <2> QED BY <1>1, <2>1
<1>4. rank \in Injection(ks, 0..(c - 1))
  BY <1>2, <1>3 DEF Injection, IsInjective
<1>5. IsFiniteSet(0..(c - 1)) /\ Cardinality(0..(c - 1)) = c
  <2>1. 0 \in Int /\ c - 1 \in Int
    BY <1>1
  <2> QED BY <1>1, <2>1, FS_Interval
<1>6. rank \in Surjection(ks, 0..(c - 1))
  BY <1>4, <1>5, FS_Injection
<1>7. \A i \in 0..(c - 1) : \E k \in ks : rank[k] = i
  BY <1>6, Zenon DEF Surjection
<1>8. j - 1 \in 0..(c - 1)
  BY <1>1
<1> QED BY <1>7, <1>8

(***************************************************************************)
(* Of what is picked the element at place k comes after as many as were    *)
(* picked before k.                                                        *)
(***************************************************************************)
LEMMA PickedAt ==
  ASSUME NEW ks \in SUBSET Nat, IsFiniteSet(ks), NEW s, NEW k \in ks
  PROVE  /\ Rank(ks, k) + 1 \in 1..Cardinality(ks)
         /\ Picked(s, ks)[Rank(ks, k) + 1] = s[k]
<1> DEFINE j == Rank(ks, k) + 1
           l == CHOOSE m \in ks : Rank(ks, m) = j - 1
<1>1. /\ Cardinality(ks) \in Nat /\ Rank(ks, k) \in 0..(Cardinality(ks) - 1)
      /\ \A m, m1 \in ks : m < m1 => Rank(ks, m) < Rank(ks, m1)
  BY RankFacts
<1>2. j \in 1..Cardinality(ks) /\ Rank(ks, k) = j - 1
  BY <1>1
<1>3. l \in ks /\ Rank(ks, l) = j - 1
  BY <1>2, Zenon
<1>4. l = k
  <2> HIDE DEF l
  <2>1. k \in Nat /\ l \in Nat
    BY <1>3
  <2>2. k < l \/ l < k \/ l = k
    BY <2>1
  <2> QED BY <1>1, <1>2, <1>3, <2>2
<1>5. Picked(s, ks)[j] = s[l]
  BY <1>2, Zenon DEF Picked, Rank
<1> QED BY <1>2, <1>4, <1>5

(***************************************************************************)
(* What is picked is a list, and each element of it stood at a place that  *)
(* was picked.                                                             *)
(***************************************************************************)
LEMMA PickedIs ==
  ASSUME NEW ks \in SUBSET Nat, IsFiniteSet(ks), NEW s
  PROVE  /\ IsList(Picked(s, ks)) /\ Len(Picked(s, ks)) = Cardinality(ks)
         /\ \A j \in 1..Cardinality(ks) : \E k \in ks :
              Rank(ks, k) + 1 = j /\ Picked(s, ks)[j] = s[k]
<1>1. Cardinality(ks) \in Nat
  BY RankFacts
<1>2. IsList(Picked(s, ks)) /\ Len(Picked(s, ks)) = Cardinality(ks)
  <2>1. DOMAIN Picked(s, ks) = 1..Cardinality(ks)
    BY DEF Picked
  <2>2. Picked(s, ks) = [i \in 1..Cardinality(ks) |-> Picked(s, ks)[i]]
    BY DEF Picked
  <2> QED BY <1>1, <2>1, <2>2, ListMade, Zenon
<1>3. ASSUME NEW j \in 1..Cardinality(ks)
      PROVE  \E k \in ks : Rank(ks, k) + 1 = j /\ Picked(s, ks)[j] = s[k]
  <2>1. PICK k \in ks : Rank(ks, k) = j - 1
    BY RankHits
  <2>2. Rank(ks, k) + 1 = j
    BY <2>1
  <2> QED BY <2>2, PickedAt
<1> QED BY <1>2, <1>3

(***************************************************************************)
(* Picking one more place behind the others puts its element behind the    *)
(* others: one turn of the loop of filter.Read.                            *)
(***************************************************************************)
LEMMA PickedGrows ==
  ASSUME NEW i \in Nat \ {0}, NEW ks \in SUBSET (1..(i - 1)), NEW s
  PROVE  LET ls == ks \cup {i}
         IN  /\ Cardinality(ls) = Cardinality(ks) + 1
             /\ \A j \in 1..Cardinality(ks) : Picked(s, ls)[j] = Picked(s, ks)[j]
             /\ Picked(s, ls)[Cardinality(ks) + 1] = s[i]
<1> DEFINE ls == ks \cup {i}
           c  == Cardinality(ks)
<1>1. /\ ks \in SUBSET Nat /\ ls \in SUBSET Nat
      /\ i \notin ks /\ \A m \in ks : m < i
  OBVIOUS
<1>0. IsFiniteSet(ks)
  <2>1. 1 \in Int /\ i - 1 \in Int
    OBVIOUS
  <2> QED BY <2>1, FS_Interval, FS_Subset
<1>2. IsFiniteSet(ls) /\ c \in Nat
  BY <1>0, FS_AddElement, FS_CardinalityType
<1>3. Cardinality(ls) = c + 1
  BY <1>1, <1>0, FS_AddElement
<1>4. Rank(ls, i) = c
  <2>0. \A m \in ls : m < i <=> m \in ks
    BY <1>1
  <2>1. {m \in ls : m < i} = ks
    BY <2>0
  <2> QED BY <2>1 DEF Rank
<1>5. \A k \in ks : Rank(ls, k) = Rank(ks, k)
  <2> TAKE k \in ks
  <2>1. {m \in ls : m < k} = {m \in ks : m < k}
    BY <1>1
  <2> QED BY <2>1 DEF Rank
<1>6. ASSUME NEW j \in 1..c PROVE Picked(s, ls)[j] = Picked(s, ks)[j]
  <2>1. PICK k \in ks : Rank(ks, k) + 1 = j /\ Picked(s, ks)[j] = s[k]
    BY <1>0, <1>1, PickedIs
  <2>2. Picked(s, ls)[Rank(ls, k) + 1] = s[k]
    BY <1>1, <1>2, PickedAt
  <2> QED BY <1>5, <2>1, <2>2
<1>7. Picked(s, ls)[c + 1] = s[i]
  <2>1. i \in ls
    OBVIOUS
  <2>2. Picked(s, ls)[Rank(ls, i) + 1] = s[i]
    BY <1>1, <1>2, <2>1, PickedAt
  <2> QED BY <1>4, <2>2
<1> QED BY <1>3, <1>6, <1>7
----------------------------------------------------------------------------
(***************************************************************************)
(* The verdict and the clamp on one packet.                                *)
(***************************************************************************)

IPHead == [ip : BOOLEAN, k : Flow, later : BOOLEAN,
         there : (Ports \cup {NoPort}) \X (Ports \cup {NoPort}), seg : Seg]

Packet(p) ==
  /\ IsList(p)
  /\ p # <<>> => /\ p[1] \in IPHead
                 /\ ~ p[1].later => p[1].there = <<p[1].k.sport, p[1].k.dport>>

(***************************************************************************)
(* A list that is not empty has a first element.                           *)
(***************************************************************************)
LEMMA NotEmpty ==
  ASSUME NEW p, IsList(p)
  PROVE  p # <<>> <=> Len(p) >= 1
<1>1. PICK S : p \in Seq(S)
  BY ListsAreSeqs
<1> QED BY <1>1, EmptySeq

(***************************************************************************)
(* The flow Parse reads from the bytes is judged as the flow the packet is *)
(* of: a later fragment has no ports, and no rule and no answer is about   *)
(* none (packet.go:40-45).                                                 *)
(***************************************************************************)
LEMMA VerdictsAgree ==
  ASSUME NEW p, Packet(p)
  PROVE  (allowOut(p) <=> MayLeave(p)) /\ (allowIn(p) <=> MayEnter(p))
<1>1. CASE ~ Parses(p)
  BY <1>1 DEF allowOut, allowIn, MayLeave, MayEnter
<1>2. CASE Parses(p)
  <2> DEFINE h == p[1]
  <2>1. h \in IPHead /\ (~ h.later => h.there = <<h.k.sport, h.k.dport>>)
    BY <1>2 DEF Packet, Parses
  <2>2. h.k \in Flow
    BY <2>1 DEF IPHead
  <2>3. CASE HasPorts(h.k) /\ h.later
    <3> DEFINE k == [h.k EXCEPT !.sport = NoPort, !.dport = NoPort]
    <3>1. Parse(p) = k
      BY <2>3 DEF Parse
    <3>2. k \in Flow /\ k.sport = NoPort /\ k.dport = NoPort /\ HasPorts(k) /\ k.dst \in Peers
      BY <2>2, <2>3 DEF Flow, HasPorts
    <3> HIDE DEF k
    <3>3. k \notin Replies
      BY <3>2, PacketsAssumption
    <3>4. ~ OutVerdict(Outgoing, k)
      <4>1. Outgoing.outbound \subseteq Peers \X Ports /\ NoPort \notin Ports
        BY PacketsAssumption DEF RuleSet
      <4> QED BY <3>2, <4>1 DEF OutVerdict, Outbound
    <3>5. ~ InVerdict(Incoming, k, Seeing)
      BY <3>2, PacketsAssumption DEF InVerdict, Inbound
    <3>6. ~ Opens(p)
      BY <2>3 DEF Opens
    <3> QED BY <3>1, <3>3, <3>4, <3>5, <3>6 DEF allowOut, allowIn, MayLeave, MayEnter
  <2>4. CASE ~ (HasPorts(h.k) /\ h.later)
    <3>1. Parse(p) = h.k
      <4>1. CASE ~ HasPorts(h.k)
        BY <4>1 DEF Parse
      <4>2. CASE HasPorts(h.k) /\ ~ h.later
        <5>1. Parse(p) = [h.k EXCEPT !.sport = h.k.sport, !.dport = h.k.dport]
          <6>1. p[1].there[1] = h.k.sport /\ p[1].there[2] = h.k.dport
            BY <2>1, <4>2
          <6>2. Parse(p) = [p[1].k EXCEPT !.sport = p[1].there[1], !.dport = p[1].there[2]]
            BY <4>2, Zenon DEF Parse
          <6> QED BY <6>1, <6>2, Zenon
        <5>2. [h.k EXCEPT !.sport = h.k.sport, !.dport = h.k.dport] = h.k
          BY <2>2 DEF Flow
        <5> QED BY <5>1, <5>2
      <4> QED BY <2>4, <4>1, <4>2
    <3>2. Opens(p)
      BY <2>4 DEF Opens
    <3> QED BY <1>2, <3>1, <3>2 DEF allowOut, allowIn, MayLeave, MayEnter
  <2> QED BY <2>3, <2>4
<1> QED BY <1>1, <1>2

\* What a clamp makes of a packet p.
Squeezed(p, q, max) ==
  /\ Packet(q) /\ q # <<>> /\ Len(q) = Len(p)
  /\ q[1].ip = p[1].ip /\ q[1].k = p[1].k /\ q[1].later = p[1].later
  /\ q[1].there = p[1].there
  /\ \A n \in 2..Len(p) : q[n] = p[n]
  /\ q[1].seg = IF p[1].k.proto = "tcp" /\ ~ p[1].later
                THEN ClampMSS(p[1].seg, max) ELSE p[1].seg

(***************************************************************************)
(* The clamp changes nothing of a packet but the segment of a TCP packet   *)
(* that has a TCP header.                                                  *)
(***************************************************************************)
LEMMA ClampSqueezes ==
  ASSUME NEW p, Packet(p), p # <<>>, NEW max \in Word, max # 0
  PROVE  Squeezed(p, clamp(p, max), max)
<1>1. p[1] \in IPHead /\ (~ p[1].later => p[1].there = <<p[1].k.sport, p[1].k.dport>>)
  BY DEF Packet
<1>2. Len(p) \in Nat /\ Len(p) >= 1 /\ DOMAIN p = 1..Len(p) /\ IsList(p)
  BY ListFacts, NotEmpty DEF Packet
<1>3. CASE p[1].k.proto = "tcp" /\ ~ p[1].later
  <2> DEFINE g == ClampMSS(p[1].seg, max)
             h == [p[1] EXCEPT !.seg = g]
             q == [p EXCEPT ![1] = h]
  <2>1. clamp(p, max) = q
    BY <1>3 DEF clamp
  <2>2. g \in Seg
    <3>1. p[1].seg \in Seg
      BY <1>1 DEF IPHead
    <3> QED BY <3>1, ClampFacts DEF Clamped, Cuts
  <2> HIDE DEF g
  <2>3. /\ h \in IPHead /\ h.ip = p[1].ip /\ h.k = p[1].k /\ h.later = p[1].later
        /\ h.there = p[1].there /\ h.seg = g
    BY <1>1, <2>2 DEF IPHead
  <2> HIDE DEF h
  <2>4. /\ DOMAIN q = 1..Len(p) /\ q = [n \in 1..Len(p) |-> q[n]]
        /\ q[1] = h /\ \A n \in 2..Len(p) : q[n] = p[n]
    <3>1. q = [n \in 1..Len(p) |-> IF n = 1 THEN h ELSE p[n]]
      BY <1>2
    <3> HIDE DEF q
    <3> QED BY <1>2, <3>1
  <2> HIDE DEF q
  <2>5. IsList(q) /\ Len(q) = Len(p)
    BY <1>2, <2>4, ListMade
  <2>6. q # <<>>
    BY <1>2, <2>5, NotEmpty
  <2>7. Packet(q)
    BY <1>1, <2>3, <2>4, <2>5 DEF Packet
  <2> QED BY <1>3, <2>1, <2>3, <2>4, <2>5, <2>6, <2>7 DEF Squeezed, g
<1>4. CASE ~ (p[1].k.proto = "tcp" /\ ~ p[1].later)
  <2>1. clamp(p, max) = p
    BY <1>4, Zenon DEF clamp
  <2> QED BY <1>4, <2>1 DEF Squeezed
<1> QED BY <1>3, <1>4

(***************************************************************************)
(* A clamped packet is judged as it was before.                            *)
(***************************************************************************)
LEMMA SqueezedFacts ==
  ASSUME NEW p, Packet(p), p # <<>>, NEW q, NEW max, Squeezed(p, q, max)
  PROVE  /\ Bare(q) = Bare(p)
         /\ MayLeave(q) <=> MayLeave(p)
         /\ MayEnter(q) <=> MayEnter(p)
<1>1. IsList(p) /\ IsList(q) /\ q # <<>> /\ Len(p) = Len(q)
  BY DEF Packet, Squeezed
<1>2. Len(p) \in Nat /\ Len(p) >= 1
  BY <1>1, ListFacts, NotEmpty
<1>3. PICK S : p \in Seq(S) /\ q \in Seq(S)
  BY <1>1, ListsAreSeqs
<1>4. Tail(p) = Tail(q)
  <2>1. /\ Tail(p) \in Seq(S) /\ Len(Tail(p)) = Len(p) - 1
        /\ \A n \in 1..Len(Tail(p)) : Tail(p)[n] = p[n + 1]
    BY <1>3, HeadTailProperties
  <2>2. /\ Tail(q) \in Seq(S) /\ Len(Tail(q)) = Len(q) - 1
        /\ \A n \in 1..Len(Tail(q)) : Tail(q)[n] = q[n + 1]
    BY <1>1, <1>3, HeadTailProperties
  <2>3. \A n \in 1..(Len(p) - 1) : p[n + 1] = q[n + 1]
    <3>1. \A n \in 2..Len(p) : q[n] = p[n]
      BY DEF Squeezed
    <3> QED BY <1>2, <3>1
  <2>4. \A n \in 1..Len(Tail(p)) : Tail(p)[n] = Tail(q)[n]
    BY <1>1, <1>2, <2>1, <2>2, <2>3
  <2> QED BY <1>1, <2>1, <2>2, <2>4, SeqEqual
<1>5. Bare(q) = Bare(p)
  BY <1>1, <1>4 DEF Bare, Squeezed
<1>6. q[1].ip = p[1].ip /\ q[1].k = p[1].k /\ q[1].later = p[1].later
  BY DEF Squeezed
<1> QED BY <1>1, <1>5, <1>6 DEF MayLeave, MayEnter, Parses, Opens
----------------------------------------------------------------------------
(***************************************************************************)
(* The loop of filter.Read, by the invariant Looped.                       *)
(***************************************************************************)

Batch(b) == IsList(b) /\ \A i \in 1..Len(b) : Packet(b[i])

Kept(b, i) == {k \in 1..i : MayLeave(b[k])}

Refused(b, i) == {k \in 1..i : b[k] # <<>> /\ ~ MayLeave(b[k])}

Rejection(p) == [src |-> p[1].k.dst, dst |-> p[1].k.src, quote |-> p[1]]

\* The loop of filter.Read when it has judged the first i packets of b: the
\* buffers it has not come to, what it has kept, and what it has told.
Ahead(b, s, i) ==
  /\ DOMAIN s.bufs = 1..Len(b) /\ DOMAIN s.sizes = 1..Len(b)
  /\ \A j \in 1..Len(b) : IsList(s.bufs[j])
  /\ \A j \in 1..Len(b) : j > i =>
       s.bufs[j] = b[j] \o <<Stale, Stale>> /\ s.sizes[j] = Len(b[j])

Moved(b, s, i) ==
  /\ s.kept = Cardinality(Kept(b, i))
  /\ \A n \in 1..s.kept : In(s, n) = clamp(Picked(b, Kept(b, i))[n], SendMax)

Tells(b, ts, i) ==
  /\ IsList(ts) /\ Len(ts) = Cardinality(Refused(b, i))
  /\ \A n \in 1..Len(ts) : ts[n] = Rejection(Picked(b, Refused(b, i))[n])

Looped(b, s, i) ==
  /\ DOMAIN s = {"bufs", "sizes", "kept", "told"}
  /\ Ahead(b, s, i) /\ Moved(b, s, i) /\ Tells(b, s.told, i)

(***************************************************************************)
(* The loop of filter.Read takes its turns one by one (filter.go:43-64).   *)
(***************************************************************************)
LEMMA LoopWalk ==
  ASSUME NEW b, Len(b) \in Nat
  PROVE  \E f : /\ f[0] = Given(b)
                /\ \A i \in 1..Len(b) : f[i] = Turn(f[i - 1], i)
                /\ Filtered(b) = f[Len(b)]
<1> DEFINE h == Len(b)
           Is(f, m) == f = [i \in 0..m |-> IF i = 0 THEN Given(b) ELSE Turn(f[i - 1], i)]
           T == {m \in 0..h : ~ \E f : Is(f, m)}
<1>0. h \in Nat
  OBVIOUS
<1>1. T = {}
  <2> SUFFICES ASSUME T # {} PROVE FALSE
    OBVIOUS
  <2>1. T \subseteq Nat
    BY <1>0
  <2> HIDE DEF T, Is
  <2>2. PICK m \in T : \A k \in T : m <= k
    BY <2>1, LeastOf
  <2>3. m \in 0..h /\ ~ \E f : Is(f, m)
    BY DEF T
  <2>4. m # 0
    <3>1. Is([i \in 0..0 |-> Given(b)], 0)
      BY DEF Is
    <3> QED BY <2>3, <3>1
  <2>5. m - 1 \in 0..h /\ m - 1 \notin T
    BY <1>0, <2>2, <2>3, <2>4
  <2>6. PICK f : Is(f, m - 1)
    BY <2>5 DEF T
  <2> DEFINE g == [i \in 0..m |-> IF i = m THEN Turn(f[m - 1], m) ELSE f[i]]
  <2>7. ASSUME NEW i \in 0..m
        PROVE  g[i] = IF i = 0 THEN Given(b) ELSE Turn(g[i - 1], i)
    <3>1. CASE i = m
      BY <1>0, <2>3, <2>4, <3>1
    <3>2. CASE i # m
      <4>1. i \in 0..(m - 1)
        BY <1>0, <2>3, <3>2
      <4>2. f[i] = IF i = 0 THEN Given(b) ELSE Turn(f[i - 1], i)
        BY <2>6, <4>1 DEF Is
      <4> QED BY <1>0, <2>3, <3>2, <4>1, <4>2
    <3> QED BY <3>1, <3>2
  <2>8. Is(g, m)
    BY <2>7 DEF Is
  <2> QED BY <2>3, <2>8
<1>2. \E f : Is(f, h)
  BY <1>0, <1>1
<1> DEFINE s == CHOOSE f : Is(f, h)
<1>3. Is(s, h)
  <2> HIDE DEF Is
  <2> QED BY <1>2, Zenon
<1>4. Filtered(b) = s[h]
  BY DEF Filtered
<1>5. /\ s[0] = Given(b)
      /\ \A i \in 1..h : s[i] = Turn(s[i - 1], i)
  <2> HIDE DEF s, h
  <2> QED BY <1>0, <1>3
<1> HIDE DEF s
<1> QED BY <1>4, <1>5

(***************************************************************************)
(* A packet copied to the front of a buffer is what is read from it.       *)
(***************************************************************************)
LEMMA OverFacts ==
  ASSUME NEW buf, IsList(buf), NEW p, IsList(p)
  PROVE  IsList(Over(buf, p)) /\ SubSeq(Over(buf, p), 1, Len(p)) = p
<1> DEFINE r == SubSeq(buf, Len(p) + 1, Len(buf))
<1>1. Len(p) \in Nat /\ Len(buf) \in Nat
  BY ListFacts
<1>2. IsList(r)
  <2>1. PICK S : buf \in Seq(S)
    BY ListsAreSeqs
  <2>2. Len(p) + 1 \in Int /\ Len(buf) \in Int /\ \A i \in (Len(p) + 1)..Len(buf) : buf[i] \in S
    BY <1>1, <2>1, ElementOfSeq
  <2>3. r \in Seq(S)
    BY <2>2, SubSeqProperties
  <2> QED BY <2>3, SeqIsList
<1> HIDE DEF r
<1>3. IsList(p \o r) /\ SubSeq(p \o r, 1, Len(p)) = p
  BY <1>2, JoinFacts, FrontOfJoin
<1> QED BY <1>3 DEF Over, r

(***************************************************************************)
(* What is kept and what is refused among the first i packets are finite   *)
(* sets of places.                                                         *)
(***************************************************************************)
LEMMA IndexSets ==
  ASSUME NEW b, NEW i \in Nat
  PROVE  /\ Kept(b, i) \in SUBSET Nat /\ IsFiniteSet(Kept(b, i))
         /\ Refused(b, i) \in SUBSET Nat /\ IsFiniteSet(Refused(b, i))
         /\ Cardinality(Kept(b, i)) \in Nat /\ Cardinality(Kept(b, i)) <= i
         /\ Cardinality(Refused(b, i)) \in Nat
<1>1. IsFiniteSet(1..i) /\ Cardinality(1..i) = i
  <2>1. 1 \in Int /\ i \in Int
    OBVIOUS
  <2> QED BY <2>1, FS_Interval
<1>2. Kept(b, i) \in SUBSET (1..i) /\ Refused(b, i) \in SUBSET (1..i)
  BY DEF Kept, Refused
<1> QED BY <1>1, <1>2, FS_Subset, FS_CardinalityType

(***************************************************************************)
(* The buffers filter.Read is given satisfy the invariant of its loop.     *)
(***************************************************************************)
LEMMA GivenLooped ==
  ASSUME NEW b, Batch(b)
  PROVE  Looped(b, Given(b), 0)
<1>1. Kept(b, 0) = {} /\ Refused(b, 0) = {}
  BY DEF Kept, Refused
<1>2. Cardinality({}) = 0
  BY FS_EmptySet
<1>3. DOMAIN b = 1..Len(b) /\ Len(b) \in Nat
  BY ListFacts DEF Batch
<1> DEFINE s == Given(b)
<1>4. /\ DOMAIN s = {"bufs", "sizes", "kept", "told"}
      /\ s.bufs = [j \in 1..Len(b) |-> b[j] \o <<Stale, Stale>>]
      /\ s.sizes = [j \in 1..Len(b) |-> Len(b[j])]
      /\ s.kept = 0 /\ s.told = <<>>
  BY <1>3 DEF Given
<1>5. IsList(<<>>) /\ Len(<<>>) = 0
  <2>1. <<>> \in Seq({}) /\ Len(<<>>) = 0
    OBVIOUS
  <2> QED BY <2>1, SeqIsList
<1>6. ASSUME NEW j \in 1..Len(b) PROVE IsList(b[j] \o <<Stale, Stale>>)
  <2>1. <<Stale, Stale>> \in Seq({Stale})
    OBVIOUS
  <2>2. IsList(<<Stale, Stale>>) /\ IsList(b[j])
    BY <2>1, SeqIsList DEF Batch, Packet
  <2> QED BY <2>2, JoinFacts
<1> HIDE DEF s
<1>7. Ahead(b, s, 0)
  BY <1>3, <1>4, <1>6 DEF Ahead
<1>8. Moved(b, s, 0)
  <2>1. s.kept = Cardinality(Kept(b, 0))
    BY <1>1, <1>2, <1>4
  <2>2. \A n \in 1..s.kept : FALSE
    BY <1>4
  <2> QED BY <2>1, <2>2, Zenon DEF Moved
<1>9. Tells(b, s.told, 0)
  <2>1. IsList(s.told) /\ Len(s.told) = 0 /\ Cardinality(Refused(b, 0)) = 0
    BY <1>1, <1>2, <1>4, <1>5
  <2>2. \A n \in 1..Len(s.told) : FALSE
    BY <2>1
  <2> QED BY <2>1, <2>2, Zenon DEF Tells
<1>10. Looped(b, s, 0)
  BY <1>4, <1>7, <1>8, <1>9 DEF Looped
<1> QED BY <1>10 DEF s

(***************************************************************************)
(* The loop has not written over a packet it has not come to: its writes   *)
(* are at most at the place it stands at.                                  *)
(***************************************************************************)
LEMMA TurnIn ==
  ASSUME NEW b, Batch(b), NEW i \in 1..Len(b), NEW s, Looped(b, s, i - 1)
  PROVE  In(s, i) = b[i]
<1>1. s.bufs[i] = b[i] \o <<Stale, Stale>> /\ s.sizes[i] = Len(b[i])
  <2>1. i > i - 1
    BY ListFacts DEF Batch
  <2> QED BY <2>1 DEF Looped, Ahead
<1>2. <<Stale, Stale>> \in Seq({Stale})
  OBVIOUS
<1>3. IsList(<<Stale, Stale>>) /\ IsList(b[i])
  BY <1>2, SeqIsList DEF Batch, Packet
<1> QED BY <1>1, <1>3, FrontOfJoin DEF In

(***************************************************************************)
(* A packet that may not leave is left out, and the apps are told of it,   *)
(* if it has a head (filter.go:53-55).                                     *)
(***************************************************************************)
LEMMA RefusedTurn ==
  ASSUME NEW b, Batch(b), NEW i \in 1..Len(b), NEW s, Looped(b, s, i - 1), ~ MayLeave(b[i])
  PROVE  Looped(b, Turn(s, i), i)
<1>1. In(s, i) = b[i]
  BY TurnIn
<1>2. ~ allowOut(b[i])
  BY VerdictsAgree DEF Batch
<1>3. i \in Nat \ {0} /\ i - 1 \in Nat /\ Len(b) \in Nat
  BY ListFacts DEF Batch
<1> DEFINE t == Turn(s, i)
<1>4. /\ DOMAIN t = {"bufs", "sizes", "kept", "told"}
      /\ t.bufs = s.bufs /\ t.sizes = s.sizes /\ t.kept = s.kept
      /\ t.told = s.told \o RejectICMP(b[i])
  BY <1>1, <1>2 DEF Turn, Looped
<1> HIDE DEF t
<1>5. Kept(b, i) = Kept(b, i - 1)
  BY <1>3 DEF Kept
<1>6. \A n : In(t, n) = In(s, n)
  BY <1>4 DEF In
<1>7. Tells(b, t.told, i)
  <2>0. /\ IsList(s.told) /\ Len(s.told) = Cardinality(Refused(b, i - 1))
        /\ \A n \in 1..Len(s.told) : s.told[n] = Rejection(Picked(b, Refused(b, i - 1))[n])
    BY DEF Looped, Tells
  <2>1. CASE b[i] = <<>>
    <3>1. Refused(b, i) = Refused(b, i - 1)
      BY <1>3, <2>1 DEF Refused
    <3>2. t.told = s.told
      <4>1. PICK S : s.told \in Seq(S)
        BY <2>0, ListsAreSeqs
      <4> QED BY <1>4, <2>1, <4>1, ConcatEmptySeq DEF RejectICMP
    <3> QED BY <2>0, <3>1, <3>2 DEF Tells
  <2>2. CASE b[i] # <<>>
    <3> DEFINE r == Rejection(b[i])
               c == Cardinality(Refused(b, i - 1))
    <3>1. Refused(b, i) = Refused(b, i - 1) \cup {i}
      BY <1>3, <2>2 DEF Refused
    <3>2. Refused(b, i - 1) \in SUBSET (1..(i - 1))
      BY DEF Refused
    <3>3. /\ Cardinality(Refused(b, i)) = c + 1
          /\ \A j \in 1..c : Picked(b, Refused(b, i))[j] = Picked(b, Refused(b, i - 1))[j]
          /\ Picked(b, Refused(b, i))[c + 1] = b[i]
      <4> DEFINE ls == Refused(b, i - 1) \cup {i}
      <4>1. /\ Cardinality(ls) = c + 1
            /\ \A j \in 1..c : Picked(b, ls)[j] = Picked(b, Refused(b, i - 1))[j]
            /\ Picked(b, ls)[c + 1] = b[i]
        BY <1>3, <3>2, PickedGrows, Zenon
      <4> HIDE DEF ls
      <4> QED BY <3>1, <4>1 DEF ls
    <3>4. t.told = s.told \o <<r>>
      BY <1>4, <2>2 DEF RejectICMP, Rejection
    <3> HIDE DEF r
    <3>5. IsList(<<r>>) /\ Len(<<r>>) = 1 /\ <<r>>[1] = r
      <4>1. <<r>> \in Seq({r}) /\ Len(<<r>>) = 1 /\ <<r>>[1] = r
        OBVIOUS
      <4> QED BY <4>1, SeqIsList
    <3>6. /\ IsList(t.told) /\ Len(t.told) = c + 1
          /\ \A n \in 1..c : t.told[n] = s.told[n]
          /\ \A n \in (c + 1)..(c + 1) : t.told[n] = <<r>>[n - c]
      <4> DEFINE q == <<r>>
      <4>1. IsList(q) /\ Len(q) = 1
        BY <3>5
      <4> HIDE DEF q
      <4>2. /\ IsList(s.told \o q) /\ Len(s.told \o q) = Len(s.told) + Len(q)
            /\ \A n \in 1..Len(s.told) : (s.told \o q)[n] = s.told[n]
            /\ \A n \in (Len(s.told) + 1)..(Len(s.told) + Len(q)) :
                 (s.told \o q)[n] = q[n - Len(s.told)]
        BY <2>0, <4>1, JoinFacts, Zenon
      <4>3. t.told = s.told \o q
        BY <3>4 DEF q
      <4>4. \A n \in (c + 1)..(c + 1) : t.told[n] = q[n - c]
        BY <2>0, <4>1, <4>2, <4>3
      <4> QED BY <2>0, <4>1, <4>2, <4>3, <4>4 DEF q
    <3>7. c \in Nat
      BY <1>3, IndexSets
    <3>8. t.told[c + 1] = r
      BY <3>5, <3>6, <3>7
    <3>9. ASSUME NEW n \in 1..(c + 1)
          PROVE  t.told[n] = Rejection(Picked(b, Refused(b, i))[n])
      <4>1. CASE n = c + 1
        BY <3>3, <3>8, <4>1 DEF r
      <4>2. CASE n # c + 1
        <5>1. n \in 1..c
          BY <3>7, <4>2
        <5>2. t.told[n] = s.told[n] /\ s.told[n] = Rejection(Picked(b, Refused(b, i - 1))[n])
          BY <2>0, <3>6, <5>1
        <5> QED BY <3>3, <5>1, <5>2
      <4> QED BY <4>1, <4>2
    <3> QED BY <3>3, <3>6, <3>9 DEF Tells
  <2> QED BY <2>1, <2>2
<1>8. Ahead(b, t, i)
  <2>1. \A j \in 1..Len(b) : j > i => j > i - 1
    BY <1>3
  <2> QED BY <1>4, <2>1 DEF Looped, Ahead
<1>9. Moved(b, t, i)
  BY <1>4, <1>5, <1>6 DEF Looped, Moved
<1>10. Looped(b, t, i)
  BY <1>4, <1>7, <1>8, <1>9 DEF Looped
<1> QED BY <1>10 DEF t

(***************************************************************************)
(* A packet that may leave is clamped and moved behind those that were     *)
(* kept, with its length (filter.go:56-62).                                *)
(***************************************************************************)
LEMMA KeptTurn ==
  ASSUME NEW b, Batch(b), NEW i \in 1..Len(b), NEW s, Looped(b, s, i - 1), MayLeave(b[i])
  PROVE  Looped(b, Turn(s, i), i)
<1>1. In(s, i) = b[i] /\ Packet(b[i]) /\ b[i] # <<>>
  BY TurnIn DEF Batch, MayLeave, Parses
<1>2. allowOut(b[i])
  BY VerdictsAgree DEF Batch
<1>3. i \in Nat \ {0} /\ i - 1 \in Nat /\ Len(b) \in Nat /\ i <= Len(b)
  BY ListFacts DEF Batch
<1>4. /\ DOMAIN s = {"bufs", "sizes", "kept", "told"}
      /\ DOMAIN s.bufs = 1..Len(b) /\ DOMAIN s.sizes = 1..Len(b)
      /\ \A j \in 1..Len(b) : IsList(s.bufs[j])
      /\ \A j \in 1..Len(b) : j > i - 1 =>
           s.bufs[j] = b[j] \o <<Stale, Stale>> /\ s.sizes[j] = Len(b[j])
  BY DEF Looped, Ahead
<1>5. PICK c \in Nat : /\ c = Cardinality(Kept(b, i - 1)) /\ s.kept = c /\ c <= i - 1
  <2>1. Cardinality(Kept(b, i - 1)) \in Nat /\ Cardinality(Kept(b, i - 1)) <= i - 1
    BY <1>3, IndexSets
  <2> QED BY <2>1 DEF Looped, Moved
<1>6. PICK p : p = clamp(b[i], SendMax)
  OBVIOUS
<1>7. IsList(p) /\ Len(p) = Len(b[i])
  <2>1. SendMax \in Word /\ SendMax # 0
    BY PacketsAssumption
  <2> QED BY <1>1, <1>6, <2>1, ClampSqueezes DEF Squeezed, Packet
<1> DEFINE k == c + 1
           v == [s.bufs EXCEPT ![i] = Over(@, p)]
           u == [v EXCEPT ![k] = Over(@, p)]
           z == [s.sizes EXCEPT ![k] = s.sizes[i]]
           t == Turn(s, i)
<1>8. /\ DOMAIN t = {"bufs", "sizes", "kept", "told"}
      /\ t.bufs = u /\ t.sizes = z /\ t.kept = k /\ t.told = s.told
  <2>1. t = Keep(s, i)
    BY <1>1, <1>2 DEF Turn
  <2>2. t = [s EXCEPT !.bufs = u, !.sizes = z, !.kept = k]
    BY <1>1, <1>5, <1>6, <2>1, Zenon DEF Keep
  <2> HIDE DEF t, u, z
  <2> QED BY <1>4, <2>2
<1> HIDE DEF t
<1>9. k \in 1..Len(b) /\ i \in 1..Len(b)
  BY <1>3, <1>5
<1>10. /\ DOMAIN v = 1..Len(b)
       /\ \A j \in 1..Len(b) : IsList(v[j]) /\ (j # i => v[j] = s.bufs[j])
  <2>1. IsList(Over(s.bufs[i], p))
    BY <1>4, <1>7, <1>9, OverFacts
  <2> QED BY <1>4, <2>1
<1> HIDE DEF v
<1>11. /\ DOMAIN u = 1..Len(b) /\ u[k] = Over(v[k], p)
       /\ \A j \in 1..Len(b) : IsList(u[j]) /\ (j # k => u[j] = v[j])
  <2>1. IsList(Over(v[k], p))
    BY <1>7, <1>9, <1>10, OverFacts
  <2> QED BY <1>9, <1>10, <2>1
<1>12. DOMAIN z = 1..Len(b) /\ z[k] = Len(p) /\ \A j \in 1..Len(b) : j # k => z[j] = s.sizes[j]
  <2>1. s.sizes[i] = Len(p)
    BY <1>3, <1>4, <1>7
  <2> QED BY <1>4, <1>9, <2>1
<1> HIDE DEF u, z
<1>13. Ahead(b, t, i)
  <2>1. \A j \in 1..Len(b) : j > i => j # i /\ j # k /\ j > i - 1
    BY <1>3, <1>5
  <2> QED BY <1>4, <1>8, <1>10, <1>11, <1>12, <2>1 DEF Ahead
<1>14. /\ Cardinality(Kept(b, i)) = c + 1
       /\ \A j \in 1..c : Picked(b, Kept(b, i))[j] = Picked(b, Kept(b, i - 1))[j]
       /\ Picked(b, Kept(b, i))[c + 1] = b[i]
  <2> DEFINE ls == Kept(b, i - 1) \cup {i}
             d == Cardinality(Kept(b, i - 1))
  <2>1. Kept(b, i) = ls
    BY <1>3 DEF Kept
  <2>2. Kept(b, i - 1) \in SUBSET (1..(i - 1))
    BY DEF Kept
  <2>3. /\ Cardinality(ls) = d + 1
        /\ \A j \in 1..d : Picked(b, ls)[j] = Picked(b, Kept(b, i - 1))[j]
        /\ Picked(b, ls)[d + 1] = b[i]
    BY <1>3, <2>2, PickedGrows, Zenon
  <2> HIDE DEF ls
  <2> QED BY <1>5, <2>1, <2>3
<1>15. In(t, k) = p
  <2>1. SubSeq(Over(v[k], p), 1, Len(p)) = p
    BY <1>7, <1>9, <1>10, OverFacts
  <2> QED BY <1>8, <1>11, <1>12, <2>1 DEF In
<1>16. ASSUME NEW n \in 1..c PROVE In(t, n) = In(s, n)
  <2>1. n \in 1..Len(b) /\ n # i /\ n # k
    BY <1>3, <1>5
  <2>2. t.bufs[n] = s.bufs[n] /\ t.sizes[n] = s.sizes[n]
    BY <1>8, <1>10, <1>11, <1>12, <2>1
  <2> QED BY <2>2 DEF In
<1>17. Moved(b, t, i)
  <2>1. ASSUME NEW n \in 1..k PROVE In(t, n) = clamp(Picked(b, Kept(b, i))[n], SendMax)
    <3>1. CASE n = k
      BY <1>6, <1>14, <1>15, <3>1
    <3>2. CASE n # k
      <4>1. n \in 1..c
        BY <3>2
      <4>2. In(s, n) = clamp(Picked(b, Kept(b, i - 1))[n], SendMax)
        BY <1>5, <4>1 DEF Looped, Moved
      <4> QED BY <1>14, <1>16, <4>1, <4>2
    <3> QED BY <3>1, <3>2
  <2> QED BY <1>8, <1>14, <2>1 DEF Moved
<1>18. Tells(b, t.told, i)
  <2>1. Refused(b, i) = Refused(b, i - 1)
    BY <1>3 DEF Refused
  <2> QED BY <1>8, <2>1 DEF Looped, Tells
<1>19. Looped(b, t, i)
  BY <1>8, <1>13, <1>17, <1>18 DEF Looped
<1> QED BY <1>19 DEF t

(***************************************************************************)
(* The invariant of the loop holds at its end, whatever the batch.         *)
(***************************************************************************)
LEMMA FilteredLooped ==
  ASSUME NEW b, Batch(b)
  PROVE  Looped(b, Filtered(b), Len(b))
<1>1. Len(b) \in Nat
  BY ListFacts DEF Batch
<1>2. PICK f : /\ f[0] = Given(b)
               /\ \A i \in 1..Len(b) : f[i] = Turn(f[i - 1], i)
               /\ Filtered(b) = f[Len(b)]
  BY <1>1, LoopWalk
<1> DEFINE T == {i \in 0..Len(b) : ~ Looped(b, f[i], i)}
<1>3. T = {}
  <2> SUFFICES ASSUME T # {} PROVE FALSE
    OBVIOUS
  <2>1. T \subseteq Nat
    BY <1>1
  <2>2. PICK i \in T : \A j \in T : i <= j
    <3> HIDE DEF T
    <3> QED BY <2>1, LeastOf
  <2>3. i \in 0..Len(b) /\ ~ Looped(b, f[i], i)
    BY <2>2
  <2>4. i # 0
    BY <1>2, <2>3, GivenLooped
  <2>5. i \in 1..Len(b) /\ i - 1 \in 0..Len(b)
    BY <1>1, <2>3, <2>4
  <2>6. Looped(b, f[i - 1], i - 1)
    BY <1>1, <2>2, <2>5
  <2>7. Looped(b, Turn(f[i - 1], i), i)
    BY <2>5, <2>6, KeptTurn, RefusedTurn
  <2> QED BY <1>2, <2>3, <2>5, <2>7
<1>4. Len(b) \in 0..Len(b)
  BY <1>1
<1> QED BY <1>2, <1>3, <1>4
----------------------------------------------------------------------------
(***************************************************************************)
(* Theorems about Packets for any batches, rules, answers and limits.      *)
(***************************************************************************)

\* What wg is handed of a batch b the read gave without an error.
HandedOn(b, ss) ==
  /\ IsList(ss) /\ Len(ss) = Cardinality(Kept(b, Len(b)))
  /\ \A n \in 1..Len(ss) : ss[n] = clamp(Picked(b, Kept(b, Len(b)))[n], SendMax)

BatchInv ==
  /\ batch \in Batches
  /\ at = "app" => ~ erred /\ sent = <<>>
  /\ at # "app" /\ erred => sent = batch
  /\ at # "app" /\ ~ erred => HandedOn(batch, sent) /\ Tells(batch, told, Len(batch))
  /\ \A j \in DOMAIN delivered : \E m \in DOMAIN sent :
       allowIn(sent[m]) /\ delivered[j] = clamp(sent[m], RecvMax)

(***************************************************************************)
(* Batches hold packets, and a head of one was sent by a TCP whose         *)
(* checksum is right.                                                      *)
(***************************************************************************)
LEMMA BatchFacts ==
  ASSUME NEW b \in Batches
  PROVE  /\ Batch(b) /\ DOMAIN b = 1..Len(b) /\ Len(b) \in Nat
         /\ \A i \in 1..Len(b) : b[i] # <<>> => b[i][1].seg \in Seg /\ Verifies(b[i][1].seg)
<1>1. IsList(b) /\ DOMAIN b = 1..Len(b) /\ Len(b) \in Nat
  BY PacketsAssumption, ListFacts
<1>2. ASSUME NEW i \in 1..Len(b)
      PROVE  Packet(b[i]) /\ (b[i] # <<>> => b[i][1].seg \in Seg /\ Verifies(b[i][1].seg))
  <2>1. IsList(b[i])
    BY <1>1, PacketsAssumption
  <2>2. ASSUME b[i] # <<>>
        PROVE  /\ b[i][1] \in IPHead /\ b[i][1].seg \in Seg /\ Verifies(b[i][1].seg)
               /\ ~ b[i][1].later => b[i][1].there = <<b[i][1].k.sport, b[i][1].k.dport>>
    <3>1. /\ b[i][1] \in Heads
          /\ ~ b[i][1].later => b[i][1].there = <<b[i][1].k.sport, b[i][1].k.dport>>
      BY <1>1, <2>2, PacketsAssumption
    <3>2. b[i][1] \in IPHead /\ b[i][1].seg \in Sendable
      BY <3>1 DEF Heads, IPHead, Sendable
    <3> QED BY <3>1, <3>2 DEF Sendable
  <2> QED BY <2>1, <2>2 DEF Packet
<1> QED BY <1>1, <1>2 DEF Batch

(***************************************************************************)
(* The invariant holds at the start.                                       *)
(***************************************************************************)
LEMMA BatchStarts == BatchInit => BatchInv
<1> SUFFICES ASSUME BatchInit PROVE BatchInv
  OBVIOUS
<1>1. DOMAIN delivered = {}
  BY DEF BatchInit
<1> QED BY <1>1 DEF BatchInit, BatchInv

(***************************************************************************)
(* Both limits are words and not 0.                                        *)
(***************************************************************************)
LEMMA MaxFacts == /\ SendMax \in Word /\ SendMax # 0
                  /\ RecvMax \in Word /\ RecvMax # 0
  BY PacketsAssumption

(***************************************************************************)
(* filter.Read hands on what its loop has kept.                            *)
(***************************************************************************)
LEMMA ReadHandsOn ==
  ASSUME BatchInv, Read
  PROVE  HandedOn(batch, sent') /\ Tells(batch, told', Len(batch))
<1>1. Looped(batch, Filtered(batch), Len(batch)) /\ Len(batch) \in Nat
  BY BatchFacts, FilteredLooped DEF BatchInv
<1>2. PICK s : s = Filtered(batch)
  OBVIOUS
<1>3. Moved(batch, s, Len(batch)) /\ Tells(batch, s.told, Len(batch))
  BY <1>1, <1>2 DEF Looped
<1>4. sent' = [j \in 1..s.kept |-> In(s, j)] /\ told' = s.told
  BY <1>2 DEF Read
<1>5. s.kept \in Nat
  BY <1>1, <1>3, IndexSets DEF Moved
<1>6. DOMAIN sent' = 1..s.kept /\ sent' = [j \in 1..s.kept |-> sent'[j]]
  BY <1>4
<1>7. IsList(sent') /\ Len(sent') = s.kept
  BY <1>5, <1>6, ListMade
<1>8. \A n \in 1..s.kept : sent'[n] = In(s, n)
  BY <1>4
<1> QED BY <1>3, <1>4, <1>7, <1>8 DEF HandedOn, Moved

(***************************************************************************)
(* Each packet handed on was sent by an app, and clamped.                  *)
(***************************************************************************)
LEMMA HandedFrom ==
  ASSUME NEW b \in Batches, NEW ss, HandedOn(b, ss), NEW n \in DOMAIN ss
  PROVE  \E i \in 1..Len(b) : /\ MayLeave(b[i]) /\ Packet(b[i]) /\ b[i] # <<>>
                              /\ ss[n] = clamp(b[i], SendMax)
                              /\ Picked(b, Kept(b, Len(b)))[n] = b[i]
<1>1. Batch(b) /\ Len(b) \in Nat
  BY BatchFacts
<1>2. n \in 1..Cardinality(Kept(b, Len(b))) /\ ss[n] = clamp(Picked(b, Kept(b, Len(b)))[n], SendMax)
  BY ListFacts DEF HandedOn
<1>3. PICK i \in Kept(b, Len(b)) : Picked(b, Kept(b, Len(b)))[n] = b[i]
  BY <1>1, <1>2, IndexSets, PickedIs
<1>4. i \in 1..Len(b) /\ MayLeave(b[i])
  BY DEF Kept
<1>5. Packet(b[i]) /\ b[i] # <<>>
  BY <1>1, <1>4 DEF Batch, MayLeave, Parses
<1> QED BY <1>2, <1>3, <1>4, <1>5

(***************************************************************************)
(* wg is handed packets.                                                   *)
(***************************************************************************)
LEMMA SentFacts ==
  ASSUME BatchInv, at # "app"
  PROVE  /\ IsList(sent)
         /\ \A n \in DOMAIN sent : Packet(sent[n])
<1>1. Batch(batch) /\ batch \in Batches /\ DOMAIN batch = 1..Len(batch)
  BY BatchFacts DEF BatchInv
<1>2. CASE erred
  BY <1>1, <1>2 DEF BatchInv, Batch
<1>3. CASE ~ erred
  <2>1. HandedOn(batch, sent)
    BY <1>3 DEF BatchInv
  <2>2. ASSUME NEW n \in DOMAIN sent PROVE Packet(sent[n])
    <3>1. PICK i \in 1..Len(batch) : Packet(batch[i]) /\ batch[i] # <<>> /\ sent[n] = clamp(batch[i], SendMax)
      BY <1>1, <2>1, HandedFrom
    <3> QED BY <3>1, MaxFacts, ClampSqueezes DEF Squeezed
  <2> QED BY <2>1, <2>2 DEF HandedOn
<1> QED BY <1>2, <1>3

(***************************************************************************)
(* Every step keeps the invariant.                                         *)
(***************************************************************************)
LEMMA BatchStep == BatchInv /\ [BatchNext]_batchVars => BatchInv'
<1> SUFFICES ASSUME BatchInv, [BatchNext]_batchVars PROVE BatchInv'
  OBVIOUS
<1>1. CASE Read
  <2>1. HandedOn(batch, sent') /\ Tells(batch, told', Len(batch))
    BY <1>1, ReadHandsOn
  <2>2. at' = "sent" /\ batch' = batch /\ erred' = erred /\ delivered' = delivered /\ at = "app"
    BY <1>1 DEF Read
  <2>3. DOMAIN delivered = {}
    <3>1. DOMAIN sent = {}
      BY <2>2 DEF BatchInv
    <3> QED BY <3>1 DEF BatchInv
  <2>4. ~ erred
    BY <2>2 DEF BatchInv
  <2> QED BY <2>1, <2>2, <2>3, <2>4 DEF BatchInv
<1>2. CASE ReadErred
  <2>1. /\ at' = "sent" /\ batch' = batch /\ erred' = TRUE /\ delivered' = delivered
        /\ sent' = batch /\ at = "app"
    BY <1>2 DEF ReadErred
  <2>2. DOMAIN delivered = {}
    <3>1. DOMAIN sent = {}
      BY <2>1 DEF BatchInv
    <3> QED BY <3>1 DEF BatchInv
  <2> QED BY <2>1, <2>2 DEF BatchInv
<1>3. CASE Write
  <2> DEFINE ks == {j \in DOMAIN sent : allowIn(sent[j])}
             keep == Picked(sent, ks)
  <2>1. /\ at = "sent" /\ at' = "delivered" /\ batch' = batch /\ erred' = erred
        /\ sent' = sent /\ told' = told
        /\ delivered' = [j \in DOMAIN keep |-> clamp(keep[j], RecvMax)]
    BY <1>3 DEF Write
  <2>2. ks \in SUBSET Nat /\ IsFiniteSet(ks)
    <3>1. DOMAIN sent = 1..Len(sent) /\ Len(sent) \in Nat
      BY <2>1, SentFacts, ListFacts
    <3>2. 1 \in Int /\ Len(sent) \in Int
      BY <3>1
    <3>3. ks \in SUBSET (1..Len(sent)) /\ IsFiniteSet(1..Len(sent))
      BY <3>1, <3>2, FS_Interval
    <3> HIDE DEF ks
    <3>4. IsFiniteSet(ks)
      BY <3>3, FS_Subset
    <3> QED BY <3>1, <3>3, <3>4
  <2>3. ASSUME NEW j \in DOMAIN delivered'
        PROVE  \E m \in DOMAIN sent : allowIn(sent[m]) /\ delivered'[j] = clamp(sent[m], RecvMax)
    <3> HIDE DEF ks
    <3>1. j \in 1..Cardinality(ks)
      <4>1. IsList(keep) /\ Len(keep) = Cardinality(ks)
        BY <2>2, PickedIs
      <4>2. j \in DOMAIN keep
        BY <2>1
      <4> QED BY <4>1, <4>2, ListFacts
    <3>2. PICK m \in ks : keep[j] = sent[m]
      BY <2>2, <3>1, PickedIs
    <3>3. delivered'[j] = clamp(keep[j], RecvMax)
      BY <2>1
    <3> QED BY <3>2, <3>3 DEF ks
  <2> HIDE DEF keep
  <2> QED BY <2>1, <2>3 DEF BatchInv
<1>4. CASE UNCHANGED batchVars
  BY <1>4 DEF batchVars, BatchInv
<1> QED BY <1>1, <1>2, <1>3, <1>4 DEF BatchNext

(***************************************************************************)
(* And so it holds in every reachable state.                               *)
(***************************************************************************)
LEMMA BatchInvAlways == BatchSpec => []BatchInv
  BY BatchStarts, BatchStep, PTL DEF BatchSpec
----------------------------------------------------------------------------
(***************************************************************************)
(* The places the properties pick are those the loop has kept and refused. *)
(***************************************************************************)
LEMMA KeptIs ==
  ASSUME NEW b \in Batches
  PROVE  /\ {i \in DOMAIN b : MayLeave(b[i])} = Kept(b, Len(b))
         /\ {i \in DOMAIN b : b[i] # <<>> /\ ~ MayLeave(b[i])} = Refused(b, Len(b))
  BY BatchFacts DEF Kept, Refused

(***************************************************************************)
(* filter.Read hands wg the packets that may leave, each whole, once and   *)
(* in the order the apps sent them, for any batch, any rules and any       *)
(* answers (filter.go:43-64).                                              *)
(***************************************************************************)
THEOREM SentAsJudgedAlways == BatchSpec => []SentAsJudged
<1>1. BatchInv => SentAsJudged
  <2> SUFFICES ASSUME BatchInv, at # "app", ~ erred
               PROVE  LET due == Picked(batch, {i \in DOMAIN batch : MayLeave(batch[i])})
                      IN  [j \in DOMAIN sent |-> Bare(sent[j])] = [j \in DOMAIN due |-> Bare(due[j])]
    BY DEF SentAsJudged
  <2> DEFINE ks == Kept(batch, Len(batch))
             due == Picked(batch, ks)
  <2>1. HandedOn(batch, sent) /\ batch \in Batches
    BY DEF BatchInv
  <2>2. {i \in DOMAIN batch : MayLeave(batch[i])} = ks
    BY <2>1, KeptIs
  <2>3. DOMAIN sent = DOMAIN due
    <3>1. IsList(sent) /\ Len(sent) = Cardinality(ks)
      BY <2>1 DEF HandedOn
    <3>2. IsList(due) /\ Len(due) = Cardinality(ks)
      <4>1. Len(batch) \in Nat
        BY <2>1, BatchFacts
      <4> QED BY <4>1, IndexSets, PickedIs
    <3> HIDE DEF due, ks
    <3> QED BY <3>1, <3>2, ListFacts
  <2>4. ASSUME NEW j \in DOMAIN sent PROVE Bare(sent[j]) = Bare(due[j])
    <3>1. PICK i \in 1..Len(batch) : /\ Packet(batch[i]) /\ batch[i] # <<>>
                                     /\ sent[j] = clamp(batch[i], SendMax) /\ due[j] = batch[i]
      BY <2>1, HandedFrom
    <3>2. Squeezed(batch[i], sent[j], SendMax)
      BY <3>1, MaxFacts, ClampSqueezes
    <3> HIDE DEF due
    <3> QED BY <3>1, <3>2, SqueezedFacts
  <2> HIDE DEF due
  <2>5. [j \in DOMAIN sent |-> Bare(sent[j])] = [j \in DOMAIN due |-> Bare(due[j])]
    BY <2>3, <2>4
  <2> QED BY <2>2, <2>5 DEF due
<1> QED BY <1>1, BatchInvAlways, PTL

(***************************************************************************)
(* Every packet that has a head and does not leave is answered, with its   *)
(* own head, in order, and no other is, although the loop moves packets    *)
(* within the buffers it quotes from (filter.go:53-55, packet.go:52-88).   *)
(***************************************************************************)
THEOREM DeniedAreToldAlways == BatchSpec => []DeniedAreTold
<1>1. BatchInv => DeniedAreTold
  <2> SUFFICES ASSUME BatchInv, at # "app", ~ erred
               PROVE  LET denied == Picked(batch, {i \in DOMAIN batch : batch[i] # <<>> /\ ~ MayLeave(batch[i])})
                      IN  told = [j \in DOMAIN denied |->
                                    [src |-> denied[j][1].k.dst, dst |-> denied[j][1].k.src,
                                     quote |-> denied[j][1]]]
    BY DEF DeniedAreTold
  <2> DEFINE ks == Refused(batch, Len(batch))
             denied == Picked(batch, ks)
  <2>1. Tells(batch, told, Len(batch)) /\ batch \in Batches
    BY DEF BatchInv
  <2>2. {i \in DOMAIN batch : batch[i] # <<>> /\ ~ MayLeave(batch[i])} = ks
    BY <2>1, KeptIs
  <2>3. IsList(denied) /\ Len(denied) = Cardinality(ks)
    <3>1. Len(batch) \in Nat
      BY <2>1, BatchFacts
    <3> QED BY <3>1, IndexSets, PickedIs
  <2>4. told = [n \in 1..Cardinality(ks) |-> told[n]]
        /\ \A n \in 1..Cardinality(ks) : told[n] = Rejection(denied[n])
    BY <2>1, Zenon DEF Tells, IsList
  <2>5. DOMAIN denied = 1..Cardinality(ks)
    <3> HIDE DEF denied, ks
    <3> QED BY <2>3, ListFacts
  <2> HIDE DEF denied, ks
  <2>6. told = [n \in DOMAIN denied |-> Rejection(denied[n])]
    BY <2>4, <2>5
  <2> QED BY <2>2, <2>6, Zenon DEF denied, Rejection
<1> QED BY <1>1, BatchInvAlways, PTL

(***************************************************************************)
(* Each packet delivered is one wg was handed, let in, and clamped.        *)
(***************************************************************************)
LEMMA DeliveredFrom ==
  ASSUME BatchInv, NEW j \in DOMAIN delivered
  PROVE  \E m \in DOMAIN sent :
           /\ at # "app" /\ Packet(sent[m]) /\ sent[m] # <<>> /\ MayEnter(sent[m])
           /\ Squeezed(sent[m], delivered[j], RecvMax)
<1>1. PICK m \in DOMAIN sent : allowIn(sent[m]) /\ delivered[j] = clamp(sent[m], RecvMax)
  BY DEF BatchInv
<1>2. at # "app"
  BY DEF BatchInv
<1>3. Packet(sent[m]) /\ sent[m] # <<>>
  BY <1>1, <1>2, SentFacts DEF allowIn, Parses
<1>4. MayEnter(sent[m])
  BY <1>1, <1>3, VerdictsAgree
<1>5. Squeezed(sent[m], delivered[j], RecvMax)
  BY <1>1, <1>3, MaxFacts, ClampSqueezes
<1> QED BY <1>2, <1>3, <1>4, <1>5

(***************************************************************************)
(* What an app receives was let in by the port its sender called, also     *)
(* when it comes in fragments or the sender judged nothing                 *)
(* (packet.go:40-45, filter.go: Write).                                    *)
(***************************************************************************)
THEOREM DeliveredByOwnPortAlways == BatchSpec => []DeliveredByOwnPort
<1>1. BatchInv => DeliveredByOwnPort
  <2> SUFFICES ASSUME BatchInv, NEW j \in DOMAIN delivered PROVE MayEnter(delivered[j])
    BY DEF DeliveredByOwnPort
  <2> QED BY DeliveredFrom, SqueezedFacts
<1> QED BY <1>1, BatchInvAlways, PTL
----------------------------------------------------------------------------
Clampable(p) == p[1].k.proto = "tcp" /\ ~ p[1].later

(***************************************************************************)
(* The segment of a clamped packet.                                        *)
(***************************************************************************)
LEMMA SqueezedSeg ==
  ASSUME NEW p, Packet(p), p # <<>>, NEW max \in Word, max # 0, NEW q, Squeezed(p, q, max)
  PROVE  /\ Cuts(p[1].seg, q[1].seg) /\ (Clampable(q) <=> Clampable(p))
         /\ Clampable(p) => Announces(q[1].seg, max)
<1>1. p[1].seg \in Seg
  BY DEF Packet, IPHead
<1>2. Clampable(q) <=> Clampable(p)
  BY DEF Squeezed, Clampable
<1>3. CASE Clampable(p)
  <2>1. q[1].seg = ClampMSS(p[1].seg, max)
    BY <1>3 DEF Squeezed, Clampable
  <2> QED BY <1>1, <1>2, <2>1, ClampFacts DEF Clamped
<1>4. CASE ~ Clampable(p)
  <2>1. q[1].seg = p[1].seg
    BY <1>4 DEF Squeezed, Clampable
  <2> QED BY <1>1, <1>2, <1>4, <2>1 DEF Cuts
<1> QED BY <1>3, <1>4

(***************************************************************************)
(* A packet wg was handed, and what its segment was.                       *)
(***************************************************************************)
LEMMA SentSeg ==
  ASSUME BatchInv, at # "app", NEW m \in DOMAIN sent, sent[m] # <<>>
  PROVE  \E i \in DOMAIN batch :
           /\ batch[i] # <<>> /\ Bare(sent[m]) = Bare(batch[i])
           /\ Cuts(batch[i][1].seg, sent[m][1].seg) /\ batch[i][1].seg \in Seg
           /\ Verifies(batch[i][1].seg)
           /\ ~ erred /\ Clampable(sent[m]) => Announces(sent[m][1].seg, SendMax)
<1>1. /\ batch \in Batches /\ DOMAIN batch = 1..Len(batch)
      /\ \A i \in 1..Len(batch) : batch[i] # <<>> => batch[i][1].seg \in Seg /\ Verifies(batch[i][1].seg)
  BY BatchFacts DEF BatchInv
<1>2. CASE erred
  <2>1. sent = batch
    BY <1>2 DEF BatchInv
  <2>2. Cuts(sent[m][1].seg, sent[m][1].seg)
    BY <1>1, <2>1 DEF Cuts
  <2> QED BY <1>1, <1>2, <2>1, <2>2
<1>3. CASE ~ erred
  <2>1. HandedOn(batch, sent)
    BY <1>3 DEF BatchInv
  <2>2. PICK i \in 1..Len(batch) : /\ Packet(batch[i]) /\ batch[i] # <<>>
                                   /\ sent[m] = clamp(batch[i], SendMax)
    BY <1>1, <2>1, HandedFrom
  <2>3. Squeezed(batch[i], sent[m], SendMax)
    BY <2>2, MaxFacts, ClampSqueezes
  <2>4. Bare(sent[m]) = Bare(batch[i])
    BY <2>2, <2>3, SqueezedFacts
  <2>5. /\ Cuts(batch[i][1].seg, sent[m][1].seg)
        /\ Clampable(sent[m]) => Announces(sent[m][1].seg, SendMax)
    BY <2>2, <2>3, MaxFacts, SqueezedSeg
  <2> QED BY <1>1, <2>2, <2>4, <2>5
<1> QED BY <1>2, <1>3

(***************************************************************************)
(* The first MSS of a SYN that is delivered is no more than either tunnel  *)
(* carries, for any options and any limits (mss.go:23, device.go:131).     *)
(***************************************************************************)
THEOREM AnnouncesNoMoreAlways == BatchSpec => []AnnouncesNoMore
<1>1. BatchInv => AnnouncesNoMore
  <2> SUFFICES ASSUME BatchInv, NEW j \in DOMAIN delivered, NEW s \in Segments({delivered[j]}),
                      NEW i \in DOMAIN s.opts, s.syn, FirstMss(s.opts, i)
               PROVE  /\ WordAt(s.opts, i + 2) <= RecvMax
                      /\ erred \/ WordAt(s.opts, i + 2) <= SendMax
    BY DEF AnnouncesNoMore
  <2>1. PICK m \in DOMAIN sent :
          /\ at # "app" /\ Packet(sent[m]) /\ sent[m] # <<>>
          /\ Squeezed(sent[m], delivered[j], RecvMax)
    BY DeliveredFrom
  <2>2. s = delivered[j][1].seg /\ Clampable(delivered[j])
    BY DEF Segments, Clampable
  <2>3. /\ Cuts(sent[m][1].seg, s) /\ Clampable(sent[m]) /\ Announces(s, RecvMax)
    BY <2>1, <2>2, MaxFacts, SqueezedSeg
  <2>4. ~ erred => Announces(sent[m][1].seg, SendMax)
    BY <2>1, <2>3, SentSeg
  <2>5. sent[m][1].seg \in Seg
    BY <2>1 DEF Packet, IPHead
  <2>6. ~ erred => Announces(s, SendMax)
    BY <2>3, <2>4, <2>5, MaxFacts, CutAnnounces
  <2>7. s.opts \in Seq(Byte) /\ i \in 1..Len(s.opts) /\ i # NoMss
    <3>1. s.opts \in Seq(Byte)
      BY <2>3 DEF Cuts, Seg
    <3> QED BY <3>1, LenProperties DEF NoMss
  <2>8. MssFrom(s.opts) = i
    BY <2>7, WalkIsFirst
  <2> QED BY <2>3, <2>6, <2>7, <2>8 DEF Announces
<1> QED BY <1>1, BatchInvAlways, PTL

(***************************************************************************)
(* A packet on its way was sent by an app, and its segment was at most     *)
(* cut.                                                                    *)
(***************************************************************************)
LEMMA PassingFrom ==
  ASSUME BatchInv, NEW p \in Passing, p # <<>>
  PROVE  \E i \in DOMAIN batch :
           /\ batch[i] # <<>> /\ Bare(p) = Bare(batch[i])
           /\ batch[i][1].seg \in Seg /\ Verifies(batch[i][1].seg)
           /\ Cuts(batch[i][1].seg, p[1].seg)
<1>1. CASE \E m \in DOMAIN sent : p = sent[m]
  <2>1. PICK m \in DOMAIN sent : p = sent[m]
    BY <1>1
  <2>2. at # "app"
    BY <2>1 DEF BatchInv
  <2> QED BY <2>1, <2>2, SentSeg
<1>2. CASE \E j \in DOMAIN delivered : p = delivered[j]
  <2>1. PICK j \in DOMAIN delivered : p = delivered[j]
    BY <1>2
  <2>2. PICK m \in DOMAIN sent :
          /\ at # "app" /\ Packet(sent[m]) /\ sent[m] # <<>>
          /\ Squeezed(sent[m], p, RecvMax)
    BY <2>1, DeliveredFrom
  <2>3. PICK i \in DOMAIN batch :
           /\ batch[i] # <<>> /\ Bare(sent[m]) = Bare(batch[i])
           /\ Cuts(batch[i][1].seg, sent[m][1].seg) /\ batch[i][1].seg \in Seg
           /\ Verifies(batch[i][1].seg)
    BY <2>2, SentSeg
  <2>4. Cuts(sent[m][1].seg, p[1].seg) /\ Bare(p) = Bare(sent[m])
    BY <2>2, MaxFacts, SqueezedSeg, SqueezedFacts
  <2>5. Cuts(batch[i][1].seg, p[1].seg)
    BY <2>3, <2>4, CutTwice
  <2> QED BY <2>3, <2>4, <2>5
<1> QED BY <1>1, <1>2 DEF Passing

(***************************************************************************)
(* From app to app nothing of a packet changes but the value of the first  *)
(* MSS of a SYN, and that is lowered (mss.go).                             *)
(***************************************************************************)
THEOREM OnlyLowersMssAlways == BatchSpec => []OnlyLowersMss
<1>1. BatchInv => OnlyLowersMss
  <2> SUFFICES ASSUME BatchInv, NEW p \in Passing \ {<<>>}
               PROVE  \E i \in DOMAIN batch :
                        /\ batch[i] # <<>> /\ Bare(p) = Bare(batch[i])
                        /\ p[1].seg = batch[i][1].seg \/ Lowered(p[1].seg, batch[i][1].seg)
    BY DEF OnlyLowersMss
  <2>1. PICK i \in DOMAIN batch :
           /\ batch[i] # <<>> /\ Bare(p) = Bare(batch[i])
           /\ batch[i][1].seg \in Seg /\ Cuts(batch[i][1].seg, p[1].seg)
    BY PassingFrom
  <2>2. PICK o : o = batch[i][1].seg
    OBVIOUS
  <2>3. PICK s : s = p[1].seg
    OBVIOUS
  <2>4. ASSUME s # o PROVE Lowered(s, o)
    <3>1. PICK k : k = MssFrom(o.opts)
      OBVIOUS
    <3>2. /\ o.syn /\ k # NoMss /\ s.rest = o.rest
          /\ WordAt(s.opts, k + 2) < WordAt(o.opts, k + 2)
          /\ \A j \in 1..Len(o.opts) : j \notin {k + 2, k + 3} => s.opts[j] = o.opts[j]
      BY <2>1, <2>2, <2>3, <2>4, <3>1 DEF Cuts
    <3>3. o.opts \in Seq(Byte)
      BY <2>1, <2>2 DEF Seg
    <3>4. k \in Nat /\ k >= 1 /\ k + 3 <= Len(o.opts) /\ FirstMss(o.opts, k)
      BY <3>1, <3>2, <3>3, MssIn
    <3>5. DOMAIN o.opts = 1..Len(o.opts) /\ Len(o.opts) \in Nat
      BY <3>3, LenProperties
    <3>6. k \in DOMAIN o.opts
      BY <3>4, <3>5
    <3> QED BY <3>2, <3>4, <3>5, <3>6 DEF Lowered
  <2> QED BY <2>1, <2>2, <2>3, <2>4
<1> QED BY <1>1, BatchInvAlways, PTL

(***************************************************************************)
(* A segment whose first MSS stands at an even offset keeps, through both  *)
(* clamps, a checksum the receiving TCP accepts, for any bytes and any     *)
(* carries (mss.go: fixChecksum).                                          *)
(***************************************************************************)
THEOREM ChecksumHoldsAlignedAlways == BatchSpec => []ChecksumHoldsAligned
<1>1. BatchInv => ChecksumHoldsAligned
  <2> SUFFICES ASSUME BatchInv, NEW s \in Segments(Passing),
                      \A i \in DOMAIN s.opts : FirstMss(s.opts, i) => i % 2 = 1
               PROVE  s.sum \in Word /\ Verifies(s)
    BY DEF ChecksumHoldsAligned
  <2>1. PICK p \in Passing : p # <<>> /\ s = p[1].seg
    BY DEF Segments
  <2>2. PICK i \in DOMAIN batch :
           /\ batch[i][1].seg \in Seg /\ Verifies(batch[i][1].seg)
           /\ Cuts(batch[i][1].seg, s)
    BY <2>1, PassingFrom
  <2>3. PICK o : o = batch[i][1].seg
    OBVIOUS
  <2>4. PICK k : k = MssFrom(o.opts)
    OBVIOUS
  <2>5. /\ s \in Seg /\ MssFrom(s.opts) = k
        /\ (k # NoMss => k % 2 = 1) => Verifies(s)
    BY <2>2, <2>3, <2>4 DEF Cuts
  <2>6. ASSUME k # NoMss PROVE k % 2 = 1
    <3>1. s.opts \in Seq(Byte)
      BY <2>5 DEF Seg
    <3>2. k \in Nat /\ k >= 1 /\ k + 3 <= Len(s.opts) /\ FirstMss(s.opts, k)
      BY <2>5, <2>6, <3>1, MssIn
    <3>3. DOMAIN s.opts = 1..Len(s.opts) /\ Len(s.opts) \in Nat
      BY <3>1, LenProperties
    <3> QED BY <3>2, <3>3
  <2> QED BY <2>5, <2>6 DEF Seg
<1> QED BY <1>1, BatchInvAlways, PTL
============================================================================
