--------------------------- MODULE EndpointCache ---------------------------
(***************************************************************************)
(* Where a range rule's outer source comes from: Device.endpointOf, its    *)
(* one-second cache and its lock, asked by the packets of several peers    *)
(* and by the purge of a reload, while peers move, csa is still opening    *)
(* the device, and the reload removes or adds a peer.                      *)
(*                                                                         *)
(* wg (wireguard-go, external) writes the packets of one peer to the TUN   *)
(* interface in one routine, so a peer stands for the routine too.  IpcSet *)
(* holds wg's lock, which IpcGet needs.  One reload runs at a time here;   *)
(* Agent has reloads that overlap.                                         *)
(***************************************************************************)
EXTENDS Integers

CONSTANTS
  Ids,           \* the peers
  Places,
  Sources,       \* the places packets come from
  NoPlace,       \* the empty string
  Registered,    \* Registered[id]: the first endpoint of the peer's entry, or
                 \* NoPlace, for one the entry gives no endpoint
  TTL,           \* endpointTTL
  RemovalWaits,  \* whether IpcSet, removing a peer, waits for the routine
                 \* that is writing this peer's packets
  MaxTime        \* bound: the time that passes

ASSUME CacheAssumption ==
  /\ NoPlace \notin Places /\ Sources \subseteq Places
  /\ Registered \in [Ids -> Places \cup {NoPlace}]
  /\ TTL \in Nat /\ MaxTime \in Nat /\ RemovalWaits \in BOOLEAN
  /\ "nobody" \notin Ids /\ "reload" \notin Ids

Routines == Ids \cup {"reload"}   \* those that ask endpointOf

Never == -(TTL + MaxTime) - 1   \* the zero time, longer ago than any bound here

VARIABLES
  now,
  opened,    \* Open has set out.dev; wg runs before
  pubOf,     \* the peers of the snapshot
  wg,        \* wg's endpoint of each peer, NoPlace where it has none
  left,      \* history: when wg last had a place for a peer; for NoPlace, when
             \* csa last could not have told a place
  cache,     \* d.eps
  holder,    \* the routine that holds d.eps.mu, or "nobody"
  pc, asked, got,   \* of each routine
  reload     \* what the reload in progress does, and to whom

vars == <<now, opened, pubOf, wg, left, cache, holder, pc, asked, got, reload>>

Unknown == [id \in Ids |-> NoPlace]
Idle == [step |-> "idle", id |-> CHOOSE id \in Ids : TRUE]

Init ==
  /\ now = 0
  /\ opened = FALSE
  /\ pubOf \in SUBSET Ids
  /\ wg = [id \in Ids |-> IF id \in pubOf THEN Registered[id] ELSE NoPlace]
  /\ left = [id \in Ids |-> [p \in Places \cup {NoPlace} |-> Never]]
  /\ cache = [at |-> Never, byID |-> Unknown]
  /\ holder = "nobody"
  /\ pc = [r \in Routines |-> "idle"]
  /\ asked = [r \in Routines |-> 0]
  /\ got = [r \in Routines |-> Unknown]
  /\ reload = Idle

\* wg's endpoint of id becomes p.
Turn(id, p) ==
  /\ wg' = [wg EXCEPT ![id] = p]
  /\ left' = [left EXCEPT ![id][wg[id]] = now]

\* All peers are without a place, in what csa can tell now.
Blind == left' = [id \in Ids |-> [left[id] EXCEPT ![NoPlace] = now]]

\* wg has the peer, with or without a place: IpcSet is ahead of the snapshot.
InWg(id) == (id \in pubOf) # (reload.step = "store" /\ reload.id = id)
----------------------------------------------------------------------------
(***************************************************************************)
(* One packet that a range rule judges, or one connection the purge does.  *)
(***************************************************************************)

\* wg has authenticated a packet of id, from p, and writes it.
Receive(id, p) ==
  /\ pc[id] = "idle" /\ InWg(id)
  /\ Turn(id, p)
  /\ pc' = [pc EXCEPT ![id] = "wants"]
  /\ UNCHANGED <<now, opened, pubOf, cache, holder, asked, got, reload>>

\* Mutant of Fresh: an answer is used for one more unit of time.
FreshLonger(t) == t - cache.at <= TTL + 1

Fresh(t) == t - cache.at <= TTL

\* endpointOf, up to the decision to ask wg.
Enter(r) ==
  /\ pc[r] = "wants" /\ holder = "nobody"
  /\ asked' = [asked EXCEPT ![r] = now]
  /\ IF Fresh(now)
     THEN /\ pc' = [pc EXCEPT ![r] = "done"]
          /\ got' = [got EXCEPT ![r] = cache.byID]
          /\ UNCHANGED holder
     ELSE /\ pc' = [pc EXCEPT ![r] = "asks"]
          /\ holder' = r
          /\ UNCHANGED got
  /\ UNCHANGED <<now, opened, pubOf, wg, left, cache, reload>>

\* readEndpoints: nothing while out.dev is not set, else what IpcGet says.
Get(r) ==
  /\ pc[r] = "asks"
  /\ reload.step \notin {"remove", "add"}   \* IpcSet holds wg's lock
  /\ got' = [got EXCEPT ![r] = IF opened THEN wg ELSE Unknown]
  /\ pc' = [pc EXCEPT ![r] = "names"]
  /\ UNCHANGED <<now, opened, pubOf, wg, left, cache, holder, asked, reload>>

\* IpcGet fails, and what readEndpoints returns is empty.
GetFails(r) ==
  /\ pc[r] = "asks" /\ opened
  /\ reload.step \notin {"remove", "add"}
  /\ got' = [got EXCEPT ![r] = Unknown]
  /\ Blind
  /\ pc' = [pc EXCEPT ![r] = "puts"]
  /\ UNCHANGED <<now, opened, pubOf, wg, cache, holder, asked, reload>>

\* ... and of that the peers of the snapshot, loaded after the question.
Name(r) ==
  /\ pc[r] = "names"
  /\ got' = [got EXCEPT ![r] = [q \in Ids |-> IF q \in pubOf THEN @[q] ELSE NoPlace]]
  /\ pc' = [pc EXCEPT ![r] = "puts"]
  /\ UNCHANGED <<now, opened, pubOf, wg, left, cache, holder, asked, reload>>

\* Mutant of Stamp: the answer's own time is written down.
StampAnswer(r) == now

\* The time of the question.
Stamp(r) == asked[r]

\* Mutant of Put: the lock is not given back.
PutKeepsLock(r) ==
  /\ pc[r] = "puts"
  /\ cache' = [at |-> Stamp(r), byID |-> got[r]]
  /\ pc' = [pc EXCEPT ![r] = "done"]
  /\ UNCHANGED <<now, opened, pubOf, wg, left, holder, asked, got, reload>>

Put(r) ==
  /\ pc[r] = "puts"
  /\ cache' = [at |-> Stamp(r), byID |-> got[r]]
  /\ holder' = "nobody"
  /\ pc' = [pc EXCEPT ![r] = "done"]
  /\ UNCHANGED <<now, opened, pubOf, wg, left, asked, got, reload>>

\* The verdict is made: the packet is delivered or not, the connection kept or not.
Deliver(r) ==
  /\ pc[r] = "done"
  /\ pc' = [pc EXCEPT ![r] = "idle"]
  /\ asked' = [asked EXCEPT ![r] = 0]
  /\ got' = [got EXCEPT ![r] = Unknown]
  /\ UNCHANGED <<now, opened, pubOf, wg, left, cache, holder, reload>>
----------------------------------------------------------------------------
(***************************************************************************)
(* Reload: IpcSet with one line of the difference, then the new snapshot,  *)
(* and the purge, which asks endpointOf for the connections it judges.     *)
(***************************************************************************)
Begin(id) ==
  /\ opened /\ reload.step = "idle"
  /\ reload' = [step |-> IF id \in pubOf THEN "remove" ELSE "add", id |-> id]
  /\ UNCHANGED <<now, opened, pubOf, wg, left, cache, holder, pc, asked, got>>

IpcSet ==
  LET id == reload.id
  IN  /\ \/ /\ reload.step = "remove" /\ Turn(id, NoPlace)
            /\ (RemovalWaits => pc[id] = "idle")
         \/ reload.step = "add" /\ Turn(id, Registered[id])
      /\ reload' = [reload EXCEPT !.step = "store"]
      /\ UNCHANGED <<now, opened, pubOf, cache, holder, pc, asked, got>>

StoreSnap ==
  /\ reload.step = "store"
  /\ IF reload.id \in pubOf
     THEN pubOf' = pubOf \ {reload.id} /\ UNCHANGED left
     ELSE /\ pubOf' = pubOf \cup {reload.id}
          /\ left' = [left EXCEPT ![reload.id][NoPlace] = now]
  /\ reload' = [Idle EXCEPT !.step = "purge"]
  /\ UNCHANGED <<now, opened, wg, cache, holder, pc, asked, got>>

\* Forget comes to a connection that a range rule judges.
Judging ==
  /\ reload.step = "purge" /\ pc["reload"] = "idle"
  /\ pc' = [pc EXCEPT !["reload"] = "wants"]
  /\ UNCHANGED <<now, opened, pubOf, wg, left, cache, holder, asked, got, reload>>

Return ==
  /\ reload.step = "purge" /\ pc["reload"] = "idle"
  /\ reload' = Idle
  /\ UNCHANGED <<now, opened, pubOf, wg, left, cache, holder, pc, asked, got>>

Opened ==
  /\ ~ opened /\ opened' = TRUE
  /\ Blind
  /\ UNCHANGED <<now, pubOf, wg, cache, holder, pc, asked, got, reload>>

Tick ==
  /\ now < MaxTime /\ now' = now + 1
  /\ UNCHANGED <<opened, pubOf, wg, left, cache, holder, pc, asked, got, reload>>

Judge(r) == Enter(r) \/ Get(r) \/ GetFails(r) \/ Name(r) \/ Put(r) \/ Deliver(r)

Next ==
  \/ \E r \in Routines : Judge(r)
  \/ \E id \in Ids : Begin(id) \/ \E p \in Sources : Receive(id, p)
  \/ IpcSet \/ StoreSnap \/ Judging \/ Return \/ Opened \/ Tick

\* The scheduler runs every goroutine, and a waiter gets a lock.  What wg still
\* writes of a peer it removes is what was queued before, and the table of
\* connections has an end.
Fairness ==
  /\ \A r \in Routines : SF_vars(Judge(r))
  /\ SF_vars(IpcSet) /\ WF_vars(StoreSnap) /\ SF_vars(Return) /\ WF_vars(Opened)

Spec == Init /\ [][Next]_vars /\ Fairness
----------------------------------------------------------------------------
TypeOK ==
  /\ now \in 0..MaxTime
  /\ opened \in BOOLEAN
  /\ pubOf \subseteq Ids
  /\ wg \in [Ids -> Places \cup {NoPlace}]
  /\ cache.at \in Int /\ cache.byID \in [Ids -> Places \cup {NoPlace}]
  /\ holder \in Routines \cup {"nobody"}
  /\ pc \in [Routines -> {"idle", "wants", "asks", "names", "puts", "done"}]
  /\ \A r \in Routines : holder = r <=> pc[r] \in {"asks", "names", "puts"}
  /\ reload.step \in {"idle", "remove", "add", "store", "purge"}

\* wg had p for id at t, or later.
HadSince(id, p, t) == wg[id] = p \/ left[id][p] >= t

(***************************************************************************)
(* A verdict, on a packet or of the purge, uses a place wg had for the     *)
(* peer within the last second before it asked (design/README.md:590): the *)
(* lock, the order of reading the clock and asking, and the stamp together *)
(* keep this.                                                              *)
(***************************************************************************)
FreshWithin ==
  \A r \in Routines, id \in Ids : pc[r] = "done" /\ got[r][id] # NoPlace =>
    HadSince(id, got[r][id], asked[r] - TTL)

\* At t or later csa was not open, wg had no place for the peer, the snapshot
\* did not have the peer, or IpcGet failed.
LackedSince(id, t) ==
  ~ opened \/ wg[id] = NoPlace \/ id \notin pubOf \/ left[id][NoPlace] >= t

(***************************************************************************)
(* A peer has no place to be measured at, and no range rule lets its       *)
(* packets in, only within a second of a time at which csa could not have  *)
(* told one: before it had opened the device, while a reload brought or    *)
(* took the peer, before the first packet of a peer that is registered     *)
(* without an endpoint, or when IpcGet failed.  What the cache was filled  *)
(* with too early, for whatever peer's sake, costs no peer more than that. *)
(***************************************************************************)
BlindForCause ==
  \A r \in Routines, id \in Ids : pc[r] = "done" /\ got[r][id] = NoPlace =>
    LackedSince(id, asked[r] - TTL)

(***************************************************************************)
(* A reload returns, unless the peer it removes has a packet that waits    *)
(* for wg's lock, or for a packet that does.                               *)
(***************************************************************************)
Crossed ==
  /\ RemovalWaits /\ reload.step = "remove"
  /\ \/ pc[reload.id] = "asks"
     \/ pc[reload.id] = "wants" /\ \E r \in Routines : pc[r] = "asks"

ReloadsReturnUncrossed == reload.step # "idle" ~> reload.step = "idle" \/ Crossed

(***************************************************************************)
(* A reload returns: peers can be exchanged while csa runs                 *)
(* (design/README.md:654).                                                 *)
(***************************************************************************)
ReloadsReturn == reload.step # "idle" ~> reload.step = "idle"

(***************************************************************************)
(* What a range rule measures is a place the peer was observed at          *)
(* (design/README.md:588).                                                 *)
(***************************************************************************)
MeasuresObserved ==
  \A id \in Ids : pc[id] = "done" /\ got[id][id] # NoPlace => got[id][id] \in Sources

(***************************************************************************)
(* A packet of a peer that csa and wg both know, judged while no reload is *)
(* under way, has a place to be measured at: a rule with a range lets in a *)
(* registered peer that comes from the range (design/README.md:582).       *)
(***************************************************************************)
SeenIsKnown ==
  \A id \in Ids : pc[id] = "done" /\ id \in pubOf /\ reload = Idle => got[id][id] # NoPlace
=============================================================================
