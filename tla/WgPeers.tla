------------------------------ MODULE WgPeers ------------------------------
(***************************************************************************)
(* What wg is told about its peers: the whole of them when csa starts      *)
(* (UAPIConfig), the difference when it reloads (UAPIReload), and the      *)
(* stores of the rules and of the snapshot that follow.  A text is a       *)
(* sequence of blocks, one per peer, each a sequence of lines.             *)
(*                                                                         *)
(* wg itself is wireguard-go, which is external: IpcSet takes one line     *)
(* after the other and the packets in between see what is done so far.  A  *)
(* line names a key and changes only what it names; a tunnel address       *)
(* belongs to the key it was given to last.                                *)
(*                                                                         *)
(* Reloads come one at a time here; the module Agent has several at once.  *)
(***************************************************************************)
EXTENDS SequencesExt

CONSTANTS
  Ids, Keys, Addrs, Places, Secrets, None, Absent,
  Entries,   \* bound: the peers a peers.toml may list
  MaxTorn    \* bound: how many configurations are left half-way at once

\* A peer of peers.toml: its key, its tunnel address, the first of its
\* endpoints, and its pre-shared key, which has a file of its own.
Entry == [key : Keys, ip : Addrs, ep : Places \cup {None}, psk : Secrets \cup {None}]

ASSUME WgAssumption ==
  /\ IsFiniteSet(Ids)
  /\ None \notin Places \cup Secrets
  /\ Entries \subseteq Entry
  /\ MaxTorn \in Nat

In(c) == {id \in Ids : c[id] # Absent}

\* Validate: no two peers have one key or one tunnel address.
Configs ==
  {c \in [Ids -> Entries \cup {Absent}] :
     \A i, j \in In(c) : i # j => c[i].key # c[j].key /\ c[i].ip # c[j].ip}

VARIABLES
  wg,     \* wg's peers, by key
  rules,  \* the configuration filter.rules was made from
  snap,   \* the configuration of Device.snap
  job,    \* the reload in progress
  torn    \* history: the configurations of which a failed IpcSet left lines behind

vars == <<wg, rules, snap, job, torn>>

NoPeer == [on |-> FALSE, ips |-> {}, ep |-> None, psk |-> None]
Nobody == [i \in Ids |-> Absent]

\* text[block][line] is the line IpcSet takes next.
Job(pc, c, text) == [pc |-> pc, cur |-> c, text |-> text, block |-> 1, line |-> 1]
Rest == Job("idle", Nobody, <<>>)
----------------------------------------------------------------------------
(***************************************************************************)
(* The lines, and what one does to wg.                                     *)
(***************************************************************************)
Line(k, what, v) == [key |-> k, what |-> what, val |-> v]

Removal(k) == <<Line(k, "remove", None)>>

\* writePSK: without a key nothing is written.
WritePSK(e) == IF e.psk = None THEN <<>> ELSE <<Line(e.key, "psk", e.psk)>>

\* public_key and replace_allowed_ips, then what the peer is given.
Section(e) ==
  <<Line(e.key, "peer", None), Line(e.key, "ip", e.ip)>>
    \o WritePSK(e)
    \o (IF e.ep = None THEN <<>> ELSE <<Line(e.key, "endpoint", e.ep)>>)

Effect(w, l) ==
  CASE l.what = "remove"   -> [w EXCEPT ![l.key] = NoPeer]
    [] l.what = "peer"     -> [w EXCEPT ![l.key].on = TRUE, ![l.key].ips = {}]
    [] l.what = "ip"       -> [k \in Keys |-> [w[k] EXCEPT !.ips =
                                 IF k = l.key THEN @ \cup {l.val} ELSE @ \ {l.val}]]
    [] l.what = "psk"      -> [w EXCEPT ![l.key].psk = l.val]
    [] l.what = "endpoint" -> [w EXCEPT ![l.key].ep = l.val]

Sections(c, ids) == [n \in DOMAIN ids |-> Section(c[ids[n]])]
Removals(ks) == [n \in DOMAIN ks |-> Removal(ks[n])]

\* UAPIConfig replaces all peers.
UAPIConfig(c) == Sections(c, SetToSeq(In(c)))

\* Mutant of Changed: the secrets are not compared.
ChangedButSecret(old, cur) ==
  {i \in In(cur) : i \notin In(old) \/ [old[i] EXCEPT !.psk = cur[i].psk] # cur[i]}

Changed(old, cur) == {i \in In(cur) : old[i] # cur[i]}
Rekeyed(old, cur) == {i \in Changed(old, cur) \cap In(old) : old[i].key # cur[i].key}
Gone(old, cur) == {old[i].key : i \in In(old) \ In(cur)}

\* Mutant of UAPIReload: the additions come before the removals.
UAPIReloadAddsFirst(old, cur) ==
  LET ids == SetToSeq(Rekeyed(old, cur))
      rekeyed == [n \in DOMAIN ids |-> old[ids[n]].key]
  IN  {Sections(cur, SetToSeq(Changed(old, cur))) \o Removals(gone \o rekeyed) :
         gone \in SetToSeqs(Gone(old, cur))}

\* Mutant of UAPIReload: the former key of a peer is left in wg.
UAPIReloadKeepsKeys(old, cur) ==
  {Removals(gone) \o Sections(cur, SetToSeq(Changed(old, cur))) : gone \in SetToSeqs(Gone(old, cur))}

\* Mutant of UAPIReload: every peer is written again.
UAPIReloadAll(old, cur) ==
  {Removals(gone) \o Sections(cur, SetToSeq(In(cur))) : gone \in SetToSeqs(Gone(old, cur))}

(***************************************************************************)
(* UAPIReload: the peers that are gone, in the order of a Go map; then, by *)
(* id, the former keys of those that have another; then those that changed *)
(* in anything wg is told of.                                              *)
(***************************************************************************)
UAPIReload(old, cur) ==
  LET ids == SetToSeq(Rekeyed(old, cur))
      rekeyed == [n \in DOMAIN ids |-> old[ids[n]].key]
  IN  {Removals(gone \o rekeyed) \o Sections(cur, SetToSeq(Changed(old, cur))) :
         gone \in SetToSeqs(Gone(old, cur))}
----------------------------------------------------------------------------
\* Open: the rules and the snapshot are there before wg is told its peers.
Init ==
  /\ snap \in Configs
  /\ rules = snap
  /\ wg = [k \in Keys |-> NoPeer]
  /\ job = Job("open", snap, UAPIConfig(snap))
  /\ torn = {}

\* Device.Reload makes its text from the snapshot; without one wg is not called.
Begin(c) ==
  /\ job.pc = "idle"
  /\ \E text \in UAPIReload(snap, c) :
       job' = Job(IF text = <<>> THEN "rules" ELSE "set", c, text)
  /\ UNCHANGED <<wg, rules, snap, torn>>

\* IpcSet takes the next line.
IpcLine ==
  /\ job.pc \in {"open", "set"}
  /\ job.block <= Len(job.text)
  /\ wg' = Effect(wg, job.text[job.block][job.line])
  /\ job' = IF job.line = Len(job.text[job.block])
              THEN [job EXCEPT !.block = @ + 1, !.line = 1]
              ELSE [job EXCEPT !.line = @ + 1]
  /\ UNCHANGED <<rules, snap, torn>>

\* All lines are taken: a start brings wg up, a reload goes on.
IpcDone ==
  /\ job.block > Len(job.text)
  /\ \/ job.pc = "open" /\ job' = Rest
     \/ job.pc = "set" /\ job' = [job EXCEPT !.pc = "rules"]
  /\ UNCHANGED <<wg, rules, snap, torn>>

\* Mutant of IpcFails: the snapshot is stored whatever IpcSet says.
IpcFailsStores ==
  /\ job.pc = "set"
  /\ job.block <= Len(job.text)
  /\ Cardinality(torn \cup {job.cur}) <= MaxTorn
  /\ job' = [job EXCEPT !.pc = "snap"]
  /\ UNCHANGED <<wg, rules, snap, torn>>

\* IpcSet fails at a line: Reload returns, and what was done stays done.  A
\* start that fails ends the program.
IpcFails ==
  /\ job.pc = "set"
  /\ job.block <= Len(job.text)
  /\ Cardinality(torn \cup {job.cur}) <= MaxTorn
  /\ job' = Rest
  /\ torn' = torn \cup {job.cur}
  /\ UNCHANGED <<wg, rules, snap>>

\* Mutant of StoreRules: the rules stay those of the former configuration.
StoreRulesForgotten ==
  /\ job.pc = "rules"
  /\ job' = [job EXCEPT !.pc = "snap"]
  /\ UNCHANGED <<wg, rules, snap, torn>>

StoreRules ==
  /\ job.pc = "rules"
  /\ rules' = job.cur
  /\ job' = [job EXCEPT !.pc = "snap"]
  /\ UNCHANGED <<wg, snap, torn>>

\* wg has taken every line of job.cur.
StoreSnap ==
  /\ job.pc = "snap"
  /\ snap' = job.cur
  /\ job' = Rest
  /\ torn' = torn \ {job.cur}
  /\ UNCHANGED <<wg, rules>>

\* A peer sends from another place, and wg answers to that place from then on.
\* No packet comes in before wg is up.
Roam(k, p) ==
  /\ job.pc # "open"
  /\ wg[k].on
  /\ wg[k].ep # p
  /\ wg' = [wg EXCEPT ![k].ep = p]
  /\ UNCHANGED <<rules, snap, job, torn>>

Reload == IpcLine \/ IpcDone \/ IpcFails \/ StoreRules \/ StoreSnap

Next == \/ Reload
        \/ \E c \in Configs : Begin(c)
        \/ \E k \in Keys, p \in Places : Roam(k, p)

Spec == Init /\ [][Next]_vars
----------------------------------------------------------------------------
TypeOK ==
  /\ wg \in [Keys -> [on : BOOLEAN, ips : SUBSET Addrs, ep : Places \cup {None},
                      psk : Secrets \cup {None}]]
  /\ {rules, snap} \subseteq Configs
  /\ job.pc \in {"open", "idle", "set", "rules", "snap"}
  /\ job.cur \in Configs
  /\ torn \subseteq Configs

\* The address c assigns to the machine that has the key k.
AddrsOf(c, k) == {c[i].ip : i \in {j \in In(c) : c[j].key = k}}

(***************************************************************************)
(* The differences add up: after any number of reloads that removed,       *)
(* added, re-keyed and swapped peers, wg has the peers of the snapshot and *)
(* no others, each with its one address and with its secret if it has one. *)
(* What a reload that failed half-way has left in wg is gone once its      *)
(* configuration has been brought in after all, whatever came in between.  *)
(***************************************************************************)
PeersInForce ==
  job.pc = "idle" /\ torn = {} =>
    /\ \A k \in Keys : wg[k].on <=> AddrsOf(snap, k) # {}
    /\ \A k \in Keys : wg[k].ips = AddrsOf(snap, k)
    /\ \A i \in In(snap) : snap[i].psk # None => wg[snap[i].key].psk = snap[i].psk

(***************************************************************************)
(* Between any two lines wg accepts an address from one key only, and from *)
(* no key to which neither the configuration in force gives it, nor the    *)
(* one being brought in, nor one whose reload failed half-way.             *)
(***************************************************************************)
OnlyAssigned ==
  \A k \in Keys : \A a \in wg[k].ips :
    /\ \E c \in torn \cup {snap, job.cur} : a \in AddrsOf(c, k)
    /\ \A l \in Keys \ {k} : a \notin wg[l].ips

(***************************************************************************)
(* A packet is judged as another peer only while its address changes hands:*)
(* the key it came from is given the address by the configuration that is  *)
(* being brought in, before its rules are stored, or by one whose reload   *)
(* failed half-way.                                                        *)
(***************************************************************************)
MisjudgedInHandover ==
  \A k \in Keys : \A a \in wg[k].ips : \A i \in In(rules) :
    rules[i].ip = a /\ rules[i].key # k =>
      \E c \in torn \cup (IF job.pc \in {"set", "rules"} THEN {job.cur} ELSE {}) :
        a \in AddrsOf(c, k)

(***************************************************************************)
(* A reload does not touch the peers it does not change, so the places wg  *)
(* has learned for them are not lost (uapi.go:87-89).                      *)
(***************************************************************************)
UnchangedUntouched ==
  [][job.pc = "set" /\ job' # job /\ torn \subseteq {job.cur} =>
       \A i \in In(snap) : snap[i] = job.cur[i] => wg'[snap[i].key] = wg[snap[i].key]]_vars
----------------------------------------------------------------------------
(***************************************************************************)
(* What the comments say and the code does not do.                         *)
(***************************************************************************)

(***************************************************************************)
(* A peer without a secret in its file has none in wg: what is not written *)
(* is zero (uapi.go:58-60).                                                *)
(***************************************************************************)
SecretsInForce ==
  job.pc = "idle" /\ torn = {} => \A i \in In(snap) : wg[snap[i].key].psk = snap[i].psk
============================================================================
