------------------------------ MODULE Packets ------------------------------
(***************************************************************************)
(* A batch of packets on its way from the apps of one machine to those of  *)
(* another: filter.Read on the way out, filter.Write on the way in         *)
(* (internal/wgdev/filter.go), with Parse and RejectICMP                   *)
(* (internal/policy/packet.go) and the clamp of module Segment.            *)
(*                                                                         *)
(* filter.Read is given buffers with one packet each and moves those that  *)
(* may leave to the front, in place; behind a packet a buffer holds what   *)
(* it held before.  A packet is a sequence of cells, its head and the rest *)
(* of its bytes; one that is shorter than an IPv4 header has no cell.  The *)
(* verdicts are those of module Policy.  Of the connections let through,   *)
(* which PacketFilter models, there is the set of the flows that pass as   *)
(* answers.                                                                *)
(***************************************************************************)
EXTENDS Segment, Policy, FiniteSets

CONSTANTS
  Batches,   \* what a read of the TUN interface may bring
  Outgoing,  \* the rules of the sender, and
  Incoming,  \* of the receiver
  Seeing,    \* where the receiver's wg sees its peers, and the date
  Replies,   \* the flows that pass as answers, on both machines
  SendMax,   \* filter.maxMSS of the sender's csa, and
  RecvMax,   \* of the receiver's
  Stale      \* a cell of an earlier packet

(***************************************************************************)
(* The head of a packet.  A first fragment has the ports of its flow where *)
(* a later one, or one that is cut, has other bytes: there.  Of a packet   *)
(* that is not IPv4, k.src and k.dst are what stands where IPv4 has the    *)
(* addresses.                                                              *)
(***************************************************************************)
HeadOf(ip, k, later, there, seg) ==
  [ip |-> ip, k |-> k, later |-> later, there |-> there, seg |-> seg]

\* What a TCP may send: its options come in fours, and its checksum is right.
Sendable == {s \in Seg : Len(s.opts) % 4 = 0 /\ Verifies(s)}

Heads == [ip : BOOLEAN, k : Flow, later : BOOLEAN,
          there : (Ports \cup {NoPort}) \X (Ports \cup {NoPort}), seg : Sendable]

IsList(s) == Len(s) \in Nat /\ s = [n \in 1..Len(s) |-> s[n]]

\* No rule is about the port 0, and so no answer comes from it.
ASSUME PacketsAssumption ==
  /\ {SendMax, RecvMax} \subseteq Word \ {0}
  /\ Outgoing \in RuleSet /\ Incoming \in RuleSet
  /\ NoPort \notin Ports
  /\ Replies \subseteq {k \in Flow : HasPorts(k) => k.sport # NoPort}
  /\ \A b \in Batches : IsList(b) /\ \A i \in DOMAIN b : IsList(b[i])
  /\ \A b \in Batches : \A i \in DOMAIN b :
       b[i] # <<>> =>
         /\ b[i][1] \in Heads
         /\ ~ b[i][1].later => b[i][1].there = <<b[i][1].k.sport, b[i][1].k.dport>>
         /\ \A n \in DOMAIN b[i] : b[i][n] # Stale

VARIABLES
  batch,      \* what the apps sent
  at,         \* "app", "sent" or "delivered"
  erred,      \* the read of the TUN interface returned an error as well
  sent,       \* what wg was handed
  told,       \* what was written to the sender's TUN interface
  delivered   \* what was written to the receiver's

batchVars == <<batch, at, erred, sent, told, delivered>>
----------------------------------------------------------------------------
\* Mutant of Parse: the ports of every fragment are read.
ParseAll(p) == [p[1].k EXCEPT !.sport = p[1].there[1], !.dport = p[1].there[2]]

Parses(p) == p # <<>> /\ p[1].ip

\* The flow of a packet that parses.
Parse(p) ==
  IF ~ HasPorts(p[1].k) THEN p[1].k
  ELSE IF p[1].later THEN [p[1].k EXCEPT !.sport = NoPort, !.dport = NoPort]
  ELSE [p[1].k EXCEPT !.sport = p[1].there[1], !.dport = p[1].there[2]]

allowOut(p) ==
  Parses(p) /\ (OutVerdict(Outgoing, Parse(p)) \/ Parse(p) \in Replies)

allowIn(p) ==
  Parses(p) /\ (InVerdict(Incoming, Parse(p), Seeing) \/ Parse(p) \in Replies)

clamp(p, max) ==
  IF p[1].k.proto = "tcp" /\ ~ p[1].later
  THEN [p EXCEPT ![1].seg = ClampMSS(@, max)] ELSE p

\* Of s what stands at the places ks, in the order it stands in.
Picked(s, ks) ==
  [n \in 1..Cardinality(ks) |->
     s[CHOOSE k \in ks : Cardinality({m \in ks : m < k}) = n - 1]]

\* From where the packet was going, back to where it came from; the head is
\* quoted.  What the code quotes are the bytes of an IPv4 header and eight more:
\* where a packet is not IPv4, as many as its first byte says, be they its head
\* or not.
RejectICMP(p) ==
  IF p = <<>> THEN <<>>
  ELSE <<[src |-> p[1].k.dst, dst |-> p[1].k.src, quote |-> p[1]]>>
----------------------------------------------------------------------------
(***************************************************************************)
(* The loop of filter.Read, over s: the buffers, the lengths of the        *)
(* packets in them, how many are kept and what the apps are told.          *)
(***************************************************************************)
Over(buf, p) == p \o SubSeq(buf, Len(p) + 1, Len(buf))

In(s, i) == SubSeq(s.bufs[i], 1, s.sizes[i])

\* Mutant of Keep: the length stays that of the packet that was there.
KeepOldSize(s, i) ==
  LET p  == clamp(In(s, i), SendMax)
      k  == s.kept + 1
      in == [s.bufs EXCEPT ![i] = Over(@, p)]
  IN  [s EXCEPT !.bufs = [in EXCEPT ![k] = Over(@, p)], !.kept = k]

\* The packet is clamped where it is, then moved.
Keep(s, i) ==
  LET p  == clamp(In(s, i), SendMax)
      k  == s.kept + 1
      in == [s.bufs EXCEPT ![i] = Over(@, p)]
  IN  [s EXCEPT !.bufs = [in EXCEPT ![k] = Over(@, p)],
                !.sizes = [@ EXCEPT ![k] = s.sizes[i]], !.kept = k]

Given(b) ==
  [bufs |-> [i \in DOMAIN b |-> b[i] \o <<Stale, Stale>>],
   sizes |-> [i \in DOMAIN b |-> Len(b[i])], kept |-> 0, told |-> <<>>]

\* Mutant of Filtered: the apps are told when the loop is done.
FilteredTellsAfter(b) ==
  LET upto[i \in 0..Len(b)] ==
        IF i = 0 THEN Given(b)
        ELSE IF allowOut(In(upto[i - 1], i)) THEN Keep(upto[i - 1], i) ELSE upto[i - 1]
      s == upto[Len(b)]
      tell[i \in 0..Len(b)] ==
        IF i = 0 THEN <<>>
        ELSE IF allowOut(b[i]) THEN tell[i - 1] ELSE tell[i - 1] \o RejectICMP(In(s, i))
  IN  [s EXCEPT !.told = tell[Len(b)]]

\* One turn of the loop.
Turn(s, i) ==
  IF allowOut(In(s, i)) THEN Keep(s, i)
  ELSE [s EXCEPT !.told = @ \o RejectICMP(In(s, i))]

Filtered(b) ==
  LET upto[i \in 0..Len(b)] == IF i = 0 THEN Given(b) ELSE Turn(upto[i - 1], i)
  IN  upto[Len(b)]
----------------------------------------------------------------------------
BatchInit ==
  /\ batch \in Batches
  /\ at = "app" /\ erred = FALSE
  /\ sent = <<>> /\ told = <<>> /\ delivered = <<>>

Read ==
  /\ at = "app" /\ at' = "sent"
  /\ LET s == Filtered(batch)
     IN  /\ sent' = [j \in 1..s.kept |-> In(s, j)]
         /\ told' = s.told
  /\ UNCHANGED <<batch, erred, delivered>>

\* The TUN interface gives packets and an error (it splits a large segment
\* into more than there are buffers for).  filter.Read returns both.
ReadErred ==
  /\ at = "app" /\ at' = "sent"
  /\ erred' = TRUE
  /\ sent' = batch
  /\ UNCHANGED <<batch, told, delivered>>

\* What wg decrypts; a packet without a byte is skipped.
Write ==
  /\ at = "sent" /\ at' = "delivered"
  /\ LET keep == Picked(sent, {j \in DOMAIN sent : allowIn(sent[j])})
     IN  delivered' = [j \in DOMAIN keep |-> clamp(keep[j], RecvMax)]
  /\ UNCHANGED <<batch, erred, sent, told>>

BatchNext == Read \/ ReadErred \/ Write

BatchSpec == BatchInit /\ [][BatchNext]_batchVars
----------------------------------------------------------------------------
Passing == {sent[j] : j \in DOMAIN sent} \cup {delivered[j] : j \in DOMAIN delivered}

Segments(ps) == {p[1].seg : p \in {q \in ps \ {<<>>} : q[1].k.proto = "tcp" /\ ~ q[1].later}}

\* The verdict by the flow a packet is of, not by what stands in it.
Opens(p) == ~ (HasPorts(p[1].k) /\ p[1].later)

MayLeave(p) ==
  /\ Parses(p) /\ Opens(p)
  /\ OutVerdict(Outgoing, p[1].k) \/ p[1].k \in Replies

MayEnter(p) ==
  /\ Parses(p) /\ Opens(p)
  /\ InVerdict(Incoming, p[1].k, Seeing) \/ p[1].k \in Replies

\* A packet but for its segment.
Bare(p) ==
  IF p = <<>> THEN <<>> ELSE <<p[1].k, p[1].later, p[1].there, Tail(p)>>

(***************************************************************************)
(* wg is handed the packets that may leave, each whole, once and in the    *)
(* order the apps sent them, whatever is denied between them (filter.go:   *)
(* 50-64); no cell of what stood in its buffer before goes with it.        *)
(***************************************************************************)
SentAsJudged ==
  at # "app" /\ ~ erred =>
    LET due == Picked(batch, {i \in DOMAIN batch : MayLeave(batch[i])})
    IN  [j \in DOMAIN sent |-> Bare(sent[j])] = [j \in DOMAIN due |-> Bare(due[j])]

(***************************************************************************)
(* What an app receives was let in by the port its sender called, not by   *)
(* bytes that stand where a first fragment has its ports (packet.go:40-45),*)
(* also when the sender's csa judged nothing.                              *)
(***************************************************************************)
DeliveredByOwnPort == \A j \in DOMAIN delivered : MayEnter(delivered[j])

(***************************************************************************)
(* Every packet that has a head and does not leave is answered, to where   *)
(* it came from, with its own head as the app sent it, in order, and no    *)
(* other is (filter.go:53-55, packet.go:52-88).                            *)
(***************************************************************************)
DeniedAreTold ==
  at # "app" /\ ~ erred =>
    LET denied == Picked(batch, {i \in DOMAIN batch : batch[i] # <<>> /\ ~ MayLeave(batch[i])})
    IN  told = [j \in DOMAIN denied |->
                  [src |-> denied[j][1].k.dst, dst |-> denied[j][1].k.src,
                   quote |-> denied[j][1]]]

(***************************************************************************)
(* The first MSS of a SYN that is delivered is no more than either tunnel  *)
(* carries (design/README.md:692), whatever stands before it: the walk     *)
(* passes over no MSS.  (One that stands twice, of which some TCPs take    *)
(* the last, is cut once; mss.go:70-71.)  Where the read erred the         *)
(* sender's csa does not cut.                                              *)
(***************************************************************************)
AnnouncesNoMore ==
  \A j \in DOMAIN delivered : \A s \in Segments({delivered[j]}) : \A i \in DOMAIN s.opts :
    s.syn /\ FirstMss(s.opts, i) =>
      /\ WordAt(s.opts, i + 2) <= RecvMax
      /\ erred \/ WordAt(s.opts, i + 2) <= SendMax

(***************************************************************************)
(* A csa changes nothing of a packet but the value of the first MSS, and   *)
(* lowers it: no byte of another option, and of no segment but a SYN.      *)
(***************************************************************************)
Lowered(s, o) ==
  \E i \in DOMAIN o.opts :
    /\ o.syn /\ FirstMss(o.opts, i)
    /\ WordAt(s.opts, i + 2) < WordAt(o.opts, i + 2)
    /\ \A j \in DOMAIN o.opts : j \notin {i + 2, i + 3} => s.opts[j] = o.opts[j]
    /\ s.rest = o.rest

OnlyLowersMss ==
  \A p \in Passing \ {<<>>} : \E i \in DOMAIN batch :
    /\ batch[i] # <<>> /\ Bare(p) = Bare(batch[i])
    /\ p[1].seg = batch[i][1].seg \/ Lowered(p[1].seg, batch[i][1].seg)

(***************************************************************************)
(* A segment whose first MSS stands at an even offset keeps a checksum the *)
(* receiving TCP accepts, through both clamps, at every carry.             *)
(***************************************************************************)
ChecksumHoldsAligned ==
  \A s \in Segments(Passing) :
    (\A i \in DOMAIN s.opts : FirstMss(s.opts, i) => i % 2 = 1) => s.sum \in Word /\ Verifies(s)
----------------------------------------------------------------------------
(***************************************************************************)
(* What the documents, comments and tests say and the code does not do.    *)
(***************************************************************************)

(***************************************************************************)
(* After a clamp the checksum is right (mss_test.go:101, 126): also where  *)
(* the MSS stands at an odd offset and lies across two words.              *)
(***************************************************************************)
ChecksumHolds == \A s \in Segments(Passing) : Verifies(s)

(***************************************************************************)
(* A later fragment passes where the rules let the peers talk at all, as   *)
(* an ICMP packet does (design/README.md:383).                             *)
(***************************************************************************)
LaterFragmentsPass ==
  at = "delivered" =>
    \A i \in DOMAIN batch :
      /\ Parses(batch[i]) /\ batch[i][1].later
      /\ OutboundICMP(Outgoing, batch[i][1].k.dst)
      /\ InboundICMP(Incoming, batch[i][1].k.src, Unknown, Seeing.today)
      => \E j \in DOMAIN delivered : Bare(delivered[j]) = Bare(batch[i])

(***************************************************************************)
(* What is read and not in the policy is dropped (filter.go:43).           *)
(***************************************************************************)
OnlyPermittedLeave ==
  \A j \in DOMAIN sent : Parses(sent[j]) => MayLeave(sent[j])

(***************************************************************************)
(* A rejection goes back to whoever sent the packet (packet.go:84).        *)
(***************************************************************************)
ToldIsSender == \A j \in DOMAIN told : told[j].quote.ip
=============================================================================
