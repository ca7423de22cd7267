# A specification of csa, the Callsignet agent

Callsignet gives every machine a name (its peer-id) and a key, and lets two
machines talk only as their configurations permit. `csa` is the agent on each
machine: it runs wireguard-go in its own process, filters every packet that
enters or leaves the tunnel, and keeps two nftables tables next to it. This
directory holds TLA+ modules of that program, the TLC runs that check them and
the proofs TLAPS checks. Paths such as `internal/wgdev/flow.go` are relative to
the repository's root; `PROJECT.json` maps every definition to its lines.

## The system

| Part | State it keeps | Operations | What makes it correct |
|---|---|---|---|
| Packet filter (`internal/wgdev/filter.go`) | the rules pointer, two flow tables, counters | `allowOut` for packets read from the TUN interface, `allowIn` for packets written to it | nothing passes but what the policy permits and the answers to it; a revoked connection closes |
| Flow tables (`internal/wgdev/flow.go`) | flow → (time of last packet, let through?) | `First`, `Allow`, `IsReply`, `Forget`, `sweep` | bounded; an entry is renewed, expires and is evicted as the times and limits say |
| Policy (`internal/policy`) | rules compiled from the files, read-only | `Inbound`, `Outbound`, their ICMP forms | the verdict of the rules: peers, ranges, dates |
| wg device (`internal/wgdev/device.go`, `uapi.go`) | wg's peers and keys, the snapshot | `Open`, `Reload`, `Close` | wg, policy and snapshot are of one version |
| Endpoint cache, bind (`device.go`, `bind.go`) | last answer of wg (1 s), strange sources | `endpointOf`, `note` | a verdict uses a source wg has authenticated, at most a second old |
| Agent (`cmd/csa/main.go`) | the configuration in force | `runRun`, `waitStop`, `reload`, `back` | it follows one version as a whole, or stops |
| Control socket (`internal/control`) | the listener | `Listen`, `serve`, `Ask`, `Close` | one agent per socket; requests are answered |
| Guard and NAT (`internal/guard`, `internal/nat`) | the object's flags, the kernel's table | `Check`, `Apply`, `Keep`, `Close` | the table is the configured one; it is never missing while it should be there |
| Configuration (`internal/config`) | the secrets, read once | `Load`, `Secrets`, `Validate`, `Diff` | what is checked is what is used, and what is used is what is reported |
| Key files (`cmd/csa/main.go`) | two secrets | `genkey`, `genpsk` through `writeSecret` | a key that is there is never lost, nor read in part |
| Front ends, installer, release tools, experiments | files | | outside the running agent |

How they interact. wireguard-go calls the filter: one goroutine reads the TUN
interface, one goroutine per peer writes to it. They share the rules pointer
(atomic) and the two tables (a mutex each). The control socket starts a
goroutine per request; a `reload` request reads the files, compares them with
the configuration in force, asks nft to try both rulesets, changes wg, stores
the rules, purges the connection table, and replaces both tables. It takes no
lock against another reload or against the main goroutine, which waits for a
signal or for the word that a reload could not be undone, and then runs its
deferred calls. The kernel's tables survive the process.

The hard behaviour is there: packets judged by rules that are replaced under
them; two tables with different times that together decide whether answers
pass; a reload of several steps of which any may fail, and whose undoing may
fail; reloads that overlap each other or the stop; tables and sockets left
behind by a kill and met by the next start; files replaced under their reader;
a batch of packets rearranged in place while it is judged. `PROJECT.json` lists
the hazards line by line.

## Modules

| Module | Models | Kind |
|---|---|---|
| `FlowTable` | `flow.go`: what each operation leaves in a table | operators |
| `Policy` | `policy.go`'s verdicts and `device.go`'s `stillAllowed` | operators |
| `Revocation` | what the filter promises about answers, without saying how | abstract state machine |
| `PacketFilter` | handlers of all sources, the rules pointer, both tables, the reload's store and purge | state machine; extends `FlowTable` and `Policy`, implements `Revocation` |
| `Segment` | `mss.go`: the MSS clamp and the checksum it mends | operators |
| `Packets` | `filter.Read` and `filter.Write` over a batch, `packet.go` | state machine; extends `Segment` and `Policy` |
| `NftTable` | `guard.go` and `nat.go`: what Apply, Close and removeTable leave | operators |
| `Agent` | `main.go`: start, reloads, undoing, stops, kills, restarts; uses `NftTable` | state machine |
| `Instances` | `control.go`, and `runRun` of several csa on one machine | state machine |
| `ConfigFiles` | `config.go`, `secret.go`, `writeSecret`: the files, read while they are written | state machine |
| `WgPeers` | `uapi.go` and `Device.Reload`: the lines wg is told, one by one | state machine |
| `Config` | `internal/config`, `policy.New`, and what main.go takes out of a configuration; edits and reloads | state machine; extends `Policy` |
| `DirectPath` | what `guard.Ruleset` and `nat.Ruleset` let pass and turn, on several machines | state machine |
| `EndpointCache` | `endpointOf` and `readEndpoints`: the one-second cache, its lock, wg's lock | state machine |
| `MCPacketFilter`, `MCPackets`, `MCAgent`, `MCInstances`, `MCConfigFiles`, `MCConfig`, `MCDirectPath`, `MCEndpointCache`, `MCWgPeers` | instances of them | TLC |
| `PacketFilterProofs`, `AgentProofs`, `InstancesProofs`, `ConfigFilesProofs`, `WgPeersProofs`, `ConfigProofs`, `DirectPathProofs`, `EndpointCacheProofs` | lemmas and theorems | TLAPS |

How the modules divide the system. `Agent` holds wg's contents as one value and
its changes as steps that may fail; `WgPeers` looks inside one of these steps.
`Agent` takes from a version what it is told by constants; `Config` says what
these are for a real configuration. `NftTable` says when a table is there;
`DirectPath` says what it does while it is. `PacketFilter` lets the observed
endpoint change at any time; `EndpointCache` says how old it may be.
`PacketFilter` takes a packet to be its flow and looks at what a verdict leaves
behind; `Packets` looks at the bytes and takes the connections let through as
given. `Agent` and `Config` read the files of a version in one step;
`ConfigFiles` takes the reading apart. `Agent` has one csa and its reloads,
`Instances` several and no reloads.

Operators with names like `RoomOneLate` or `PurgeLogs`, marked "Mutant of", are
plausible mistakes. Each property is checked to fail when the mistake is put in
the place of the definition; they are no part of a specification.

### PacketFilter

A handler of source `p` is the program counter `pc[p]`: it loads the rules
(`held`), decides (`allow`), and takes one lock after the other: `IsReply`
(`PassReply`, `NoReply`), `First` (`LogKnown`, `LogNew`), `Allow` (`Admit`).
`Store` and `Purge` are the two steps of `Device.Reload` the handlers can tell
apart. `Tick` is the clock. A peer's id stands for its tunnel IP, so a packet
with source `Self` is one `allowOut` sees; wg's allowed-IPs check keeps a peer
from sending with another's address, which is why a source is one goroutine.

`Purge` judges every remembered connection by an observation of its own
(`Coming`: the place may change between two of them, the date only pass). One
`Device.Reload` runs at a time here; `Agent` has reloads that overlap.

A table entry holds its age instead of a time stamp, so the model needs no
bound on time. An age is capped at its flow's time to live; older ages cannot
be told apart. Go's map order is a choice: `sweep` may drop any half.

`late` is a history variable: the connections whose last `Allow` came from a
handler whose rules had been replaced. It serves `OnlyStragglersSurvive`.

`Revocation` is the same filter as its comments promise it: a set of open
connections, a policy in force, and four steps (open, close, replace the policy,
settle what it no longer permits). `KeepsItsPromise` instantiates it with
`inForce <- rules`, `open <- Answered` (live entries that were let through),
`settling <- (updater = "purge")` and `stray <- late \cap Answered`. Every lock
section of a handler becomes a step of `Revocation` or none: the connections
that survive a `Settle` can only be those a handler with replaced rules opens
after it.

### Packets

The state is a batch on its way: what the apps sent, what wg was handed, what
the sender's apps were told, what the receiver was given. `Filtered` is the loop
of `filter.Read` over the buffers, `Turn` one turn of it, with the move to the
front in place; what a buffer held before stays behind a shorter packet, and
`SentAsJudged` says that none of it gets out. A packet is its head (the values
`Parse` reads, and the bytes where a first fragment has its ports) and the rest
of its cells. `ReadErred` is a read of the TUN interface that returns packets
and an error, which wireguard-go's does (`ErrTooManySegments`); `filter.Read`
then hands both on.

`Segment` has the clamp, byte by byte with bytes of 8 and words of 16 bits; all
other words of the segment count by their sum. `FirstMss` is its reference: the
first MSS among the options, defined without a walk. A TCP that takes the last
of several, as Linux does, finds another where an app's TCP announces two, and
that one no csa cuts.

`RejectICMP` quotes the packet's head. Of a packet that is not IPv4 the code
quotes as many bytes as the low half of its first byte says, and eight, be they
its head or not (packet.go:66-67); this detail is left out.

### Agent

`main` is where `runRun` is, `hd[h]` a reload in progress with its local
variables `cur`, `old` (main.go's) and `was` (Device.Reload's). A version is one
content of the three files; what the code compares or builds from it is given
by constants (`Sense`, `SelfOf`, `WgOf`, `Wants`, `Valid`, `Builds`). wg holds
the content of one version or `Torn`, a mixture. `tables` is the kernel's and
survives `Exit`, `Kill` and `StopEarly`; everything else of the process is gone
then. Every nft command may fail or not be found, at any time. `OpensForCause`
names all the ways a table that stands can go; one of them is a start that
fails after it replaced the table a kept stop had left, which no document
mentions.

A connection is accepted (`Accept`) and asks (`Ask`) in two steps: the socket
may be closed between them, so that a reload can begin while the deferred calls
run, as long as there is a process. wg holds what the version asks for and no
more; that a pre-shared key whose file is gone stays is looked at in `WgPeers`
(`wg_secrets`).

### Instances

A process is where it is in `runRun`; each step is one system call of
`control.Listen` (look at the file, dial it, remove it, bind, chmod), one Apply
or Close of one of the two tables, or the opening and closing of the interface.
Each of them may fail: an Apply, a bind, a chmod or a directory that cannot be
made ends the start, which undoes what it had done; the error of a look or of a
removal nobody sees, and the step after it is taken all the same. The
interface has an owner and goes with the process; the socket's file and the
tables carry the name of who made them, which becomes `Dead` when that process
ends. Nobody but the kernel looks at owners: `Remove` and `CloseSocket` act on
the path. What makes this right is the order: the interface is taken first and
given back last. The premise is `SameConfig`, that who shares a path or a table
also shares the interface.

### ConfigFiles

`disk` is the three files, `goal` the set its deployer puts there, one file
after the other, at once or in place. `job` and `cur` are a start or a reload in
progress: `Decode` reads one file, `ReadPrivate` and `LoadPSK` one secret each.
A file's content is a model value, and `Parses`, `Sense`, `Pub`, `Requires` and
`Coherent` say what csa sees in it; a hash stands for the bytes it is made of.
`run` and `at` are the runs of genkey and genpsk and whose secret is at each
path. There is one reader at a time (`Agent` has reloads that overlap), and
secrets are replaced but not deleted: that wg keeps a secret whose file is
deleted is `wg_secrets`. `SetFails` is a start that fails, a reload that fails
and goes back, or one that cannot be undone and ends csa. A way back gives wg
the old secret again, but where there was none it takes the new one not away;
`SecretsInForce` therefore speaks of the secrets the configuration in force has.

### WgPeers

`job` is a text and how far `IpcSet` is in it: the whole configuration at a
start (`Init` has made it, `IpcLine` takes its lines from no peers on), or the
difference of a reload. A text is a sequence of blocks, one per peer, each a
sequence of lines; a line changes what it names, and packets (`Roam`) come
between two lines of a reload. A start whose `IpcSet` fails ends the program, so
`IpcFails` is a reload's. The order of a Go map is a choice. The differences are
computed from `snap`, which is stored after the rules.

`torn` is a history variable: the configurations of which an `IpcSet` that
failed has left lines in wg. Nothing in the code remembers them (that going back
does not repair wg is `RevertedIsWhole` in `Agent`); one leaves the set when a
later reload brings it in with all its lines. The properties speak of it instead
of giving up at the first failure: `PeersInForce` says that wg is right once
every configuration that was left half-way has been brought in, whatever came in
between; `OnlyAssigned` and `MisjudgedInHandover` say what a half-way wg may do
at most. `MaxTorn` bounds the size of `torn` in the runs.

### Config

An entry is a record of the values its file holds; names and dates are atoms.
`Decoded` is what the decoder vouches for, a list where the type says list.
`files`, `live` and `enforced` are what the files say, what csa says it follows
and what it has made of it. Every configuration one or two edits away from a
base configuration can be written, the invalid ones among them; a reload
applies, finds nothing to do, or refuses and changes nothing.

### DirectPath

A call is one flow an app keeps sending on. Rules of a nat chain are only met by
the first packet of a connection; `out` and `inn` are what the connection
tracking of both machines remembers. `phase` is how far `runRun` or its
deferred calls are; `Kill` leaves the tables. `last` is a probe. Nat's rules turn
calls to the real addresses of peers, so a machine whose entry has none
(`Addressed`) is called directly (nat.go:95). `Answer` asks the caller's
connection tracking whether it knows the connection; where it does not, a packet
that is let in begins the connection again (`Remind`), and so an answer may do
what no call could: keep a connection around the tunnel alive that only one end
remembered. `before` is a history variable, whether the call first left while
its table was missing. Once both ends have forgotten it, no call and no answer
begins it again (`ForgottenForGood`).

### EndpointCache

A peer stands for the goroutine wg writes its packets from. `Enter`, `Get`,
`GetFails`, `Name` and `Put` are the steps of `endpointOf`; `holder` is its
mutex, and a reload between `Begin` and `IpcSet` holds wg's lock. The reload is
one that asks, too: its purge measures the connections a range rule judges
(`Judging`). A peer may be registered with an endpoint or without
(`Registered`); wg has none for the latter until its first packet. `left` is a
history variable: when wg last had each place for a peer, and, for `NoPlace`,
when csa last could not have told one (the device was not open, wg had no place
for the peer, the snapshot did not have it, or IpcGet failed). So
`BlindForCause` grants that the first packet of a peer without an endpoint may
be blind, though wg knows by then where it comes from: another peer's packet
filled the cache before it, and for up to a second more it is blind still. One
reload runs at a time. `RemovalWaits` says
whether wg's removal of a peer waits for the peer's goroutine, as
wireguard-go's does.

## Runs

| Run | Shows |
|---|---|
| `filter_race` | two sources against revoking and restoring reloads, a range, a date and ICMP, tables that overflow, expiry: the invariants and action properties of `PacketFilter` hold, purges judge by what is observed when they run, and the whole implements `Revocation` |
| `packets` | what is sent is what was judged, whole and in order; who is denied is told; what arrives was called by its own port; the clamp cuts what it should, touches nothing else, and keeps the checksum of an aligned MSS |
| `agent_one` | one reload at a time, also one asked for while csa stops, with every failure, kill and restart: `StatusIsTrue`, `PortsStayClosed`, `SelfStays`; and, under fairness, reloads return and one that cannot be undone stops csa; a table goes for a cause (`OpensForCause`) |
| `instances` | two csa of one configuration and one beside them, any of whose calls may fail: the one that serves keeps its socket and both its tables, and starts end |
| `config_files` | the hash csa shows is of the files it follows; the key pair that was checked is in wg; no key is lost, also where starts and reloads fail; and, under fairness, a deployer is answered |
| `wg_peers` | the differences of any sequence of reloads add up, also when what failed half-way is brought in again, in an order that gives no address to two keys or to a stranger, and touch no other peer; a packet is judged by another peer's rules only while its address is handed over |
| `config_follows` | what is enforced is made of what csa says it follows; rules by port and address say what the files say by name, with dates that were read; calls are steered to their owner and peers told apart |
| `path_closed` | services are closed to direct calls, calls fail closed, and what both ends have forgotten of a connection around the tunnel is not begun again, while csa comes, goes and dies on both ends |
| `cache_fresh` | no verdict uses an endpoint older than the cache's time; none is missing but within that time of a moment when csa could not have told it; under fairness a reload returns, unless it removes a peer whose packet waits for it |
| `filter_keep`, `agent_status`, `wg_secrets` | counterexamples to what documents, comments and tests say; see below |

Bounds and why they are enough. `filter_race` has one connection of the peer
and one ping of this machine, with the flows of their answers, because a step
looks at one flow and its reverse, and a second connection is what a full table
evicts; two versions, one that permits both and one that permits nothing, and a
rule that looks at place and date, with three observations, give every change of
verdict; limits of 1 and 2 make both tables overflow; times of one and two ticks
make entries expire in both orders. `filter_keep` has a call besides, and room
for all. `agent_one` has a version for
every kind of difference the code distinguishes (same meaning, other peers,
other `csa.toml` without tables, not buildable, not valid). `wg_peers` has two
ids, keys and addresses, enough to remove, add, re-key and swap, one place and
one secret of which a peer has one or none (`MCEntries`), and one configuration
left half-way at a time (`MaxTorn = 1`); keys and addresses are symmetric, since
nothing chooses one. `config_follows` has three machines, since
every check compares a peer with itself, with one other or with csa's own
entry; every field Diff looks at is changed by some edit, alone and with another
(`Pairs`), and `MaxDay = 1` is the midnight a rule dies at. `path_closed` has
two machines with csa, one for each mode that closes something, and one without;
a call by a peer's name, one from a stranger to a service, one to a port no rule
names. Only the machine that is called by name has a real address in the files
(`Addressed`). `cache_fresh` has two peers that race for the lock, times 0 and 1 and a time to
live of 0 (`TTL`, `MaxTime`), so that an answer is of this very time, which is
fresh, or older and stale; the theorems about the cache hold for every time to
live and every length of time. One peer is registered at a place, the other at
none, and packets come from elsewhere than the file says.
`packets`
has batches of up to three packets of ten kinds: every pair of a kept and a
denied packet with a third before, between or behind them, with the longer and
the shorter first; and single SYNs with every option field of four bytes over
five values and of eight over four: the walk meets every kind of byte at every
offset; limits and sums are chosen so that carries happen and do not.
`instances` has two processes of one configuration, since every step looks at
one path, one interface or one table, and a third that shares nothing. `config_files` has
three sets: one that means the same as the first and one that needs a restart,
another key and a pre-shared key, so that a mixture of them can be valid,
invalid or need a restart; one run of genkey with -f and one of genpsk without.
Nothing else is bounded.

Deadlock is checked everywhere except in `cache_fresh`, where a reload that
removes a peer may really wait for ever (see Findings), and in `packets`, where
a batch is delivered and that is the end.

Fairness, in `agent_one`: weak fairness of the main goroutine's steps, of its
answer to the mixed channel, of the sleeping goroutine and of each reload. The
Go scheduler runs every runnable goroutine in the end, and each step is a call
that returns, nft commands included (the code gives them no time limit), and
`IpcSet` too, which is an assumption on wireguard-go (Findings). Nothing forces
requests, signals, edits, kills or starts. In `instances`, weak fairness of the
steps of each process that starts or ends: they are calls that return. In
`config_files`, of the reader's steps, strong fairness of `Set` among them (wg
and nft do not refuse for ever what they are given again and again), of starting
csa when it is down (its unit restarts it), and of the deployer's last put, its request, its look and its
restart; kills may come, but `DeployerIsAnswered` claims nothing if they never
cease, nor while a secret is missing or half. In `cache_fresh`, weak fairness of
the steps of the start and of a reload's store; strong fairness of a packet's
and the purge's steps, since Go's mutex passes to a waiter that has waited long
enough; strong fairness of the reload's return, since the purge has a table with
an end to go through; and strong fairness of `IpcSet`, which waits for the goroutine of the peer it
removes: wg takes the peer off first and lets that goroutine finish what is
queued, so it cannot be kept busy by new packets. Nothing forces packets, moves,
reloads or the clock.

The type invariants, and the properties `OnlyPermitted` and `OnlyDeadAtPath`, are
proved and no longer run.

## Findings

Each run ends in a counterexample; the trace is the program's.

* `filter_keep`: `stillAllowed` takes this machine's own tunnel IP for a peer's
  and judges its outgoing connections as incoming ones; every reload forgets
  them (device.go:247, design/README.md:598).
* `agent_status`: two overlapping reloads leave one version enforced and the
  other reported (main.go:447).
* `wg_secrets`: a pre-shared key whose file is removed stays in wg (uapi.go:59).

Further disagreements. The modules state these properties too; each
configuration named here ends in a counterexample when TLC is given it. They are
no part of the runs of `PROJECT.json`.

| Configuration | Property | What happens |
|---|---|---|
| `MCFilterRevoked` | `RevokedIsBlocked` | a packet judged before a reload is recorded after its purge, so a revoked connection's answers pass (design/README.md:600). `OnlyStragglersSurvive` shows it is the only way |
| `MCFilterReopen` | `SenderReopens` | a caller whose packets keep its log entry fresh never writes the connection table again; after the answers paused, sending does not reopen (design/README.md:602) |
| `MCAgentReverted` | `RevertedIsWhole` | after an IpcSet that failed half-way, undoing computes an empty difference and reports success (main.go:473) |
| `MCAgentStop` | `StopRemovesTables` | a reload that outlives `waitStop` puts a table up after `Close` deleted it (main.go:234) |
| `MCAgentLeft` | `LeftInTwoPlaces` | SIGTERM before `signal.Notify` leaves the tables (design/README.md:441) |
| `MCConfigBuilds` | `ValidBuilds` | an unreadable date on a rule without a range passes Validate and stops policy.New (validate.go:16) |
| `MCConfigSteered` | `TunnelNotSteered` | an endpoint whose port is also a service port of the peer is turned into the tunnel by the output chain (design/README.md:359) |
| `MCPathAnswers` | `AllAnswersPass` | in the mode services, the answer to a call whose source port is a service port is dropped (design/README.md:425) |
| `MCPathSeen` | `SeenByRealIP` | a connection made between Open and nat.Apply shows the tunnel address for as long as it lives (design/README.md:365) |
| `MCCacheObserved` | `MeasuresObserved` | a packet is measured at the endpoint of the file, because another peer's packet filled the cache (design/README.md:588) |
| `MCCacheSeen` | `SeenIsKnown` | a packet that comes before Open has set `dev` fills the cache with nothing; for a second every peer is nowhere (design/README.md:582) |
| `MCCacheStuck` | `ReloadsReturn` | `IpcSet` holds wg's lock and waits for the goroutine of the peer it removes, which waits in IpcGet for that lock (design/README.md:654). This rests on wireguard-go's `Peer.Stop` waiting, which is external |
| `MCPacketsOdd` | `ChecksumHolds` | after one byte of padding an MSS lies across two words of the sum; the clamp mends the wrong one and the receiver drops the SYN (mss_test.go:102, whose options are all aligned) |
| `MCPacketsErred`, with `LaterFragmentsPass` in the place of its invariant | `LaterFragmentsPass` | a later fragment is judged by port 0 and denied (packet.go:50, filter.go:111, 142), where design/README.md:383 says it passes if any rule admits the peer |
| `MCPacketsErred` | `OnlyPermittedLeave` | packets the TUN interface returns with an error go to wg without a verdict (filter.go:47, against the comment at filter.go:43); `DeliveredByOwnPort` holds, because the receiver judges |
| `MCPacketsErred`, with `ToldIsSender` in the place of its invariant | `ToldIsSender` | an IPv6 packet is answered with an IPv4 rejection between two addresses made of its bytes (packet.go:83-84, against the comment there and design/README.md:409) |
| `MCInstancesBeside` | `TablesAreHeld` | two configurations in one network namespace share the names of the tables, though each has a socket and an interface of its own (control.go:9-10, design/README.md:648) |

Between `IpcSet` and the store of the rules a packet from an address that
changed hands is judged by the rules of its former owner, although the address is
what settles who sent it (uapi.go:44). `MisjudgedInHandover` bounds this: the
address must be one the reload in progress gives to the key the packet came from,
or one that failed half-way did.

Two reloads at once do not take a table away: `PortsStayClosed` is proved for any
number of them.

## Proofs

Each theorem holds for every value of its module's constants that satisfies the
module's assumptions. Most of what these say is types. Besides:
`FilterAssumption`, that a flow's reverse is a flow and that limits and times
are positive; `AgentAssumption`, that versions which mean the same to Diff are
built alike and that those with one csa.toml want the same tables
(`ConfigProofs` proves this of Diff: `SameMakesSame`); `InstancesAssumption`,
`FilesAssumption` and `CacheAssumption`, nothing; `WgAssumption`, that the ids
are finitely many; `ConfigAssumption`, that a configuration is of the types
`toml.Decode` fills (`Decoded`), tunnel-cidr is IPv4, and no date reads as an
unreadable one; `PacketsAssumption`, that the rules are of
the type `policy.New` compiles, that no rule and no answer is about the port 0,
that both limits are 16-bit words and not 0 (`mtu - 40`, device.go:131), that what
stands in a buffer behind its packet is told apart from the packet, and that an
app's TCP sends options in fours and a checksum that is right;
`PathAssumption`, what Validate enforces (`Keep`
belongs to the mode all, validate.go:87; no service has wg's port,
validate.go:304-308) and that a tunnel address and a permitted call belong to
machines with csa.

`PacketFilterProofs` rests on the inductive invariant `IInv`:

* `TypeOK`;
* `Decided`: at `log` and `admit` a handler's decision is the verdict of the
  version it holds, and at `reply` it is a denial. Without it `OnlyPermitted`
  is not inductive: `Admit` would add what nothing vouches for;
* `OnlyPermitted`;
* `Limits`: both tables are finite and within their limits. `Bounded` alone is
  not enough, because the size of an infinite set means nothing.

Its first part has the lemmas on the operators of `FlowTable`, above all
`WriteIsBounded`: whatever half `sweep` drops, a write keeps the table within
its limit. From `IInv` follow `TypeCorrect`, `BoundedAlways`,
`OnlyPermittedAlways` and, as an action property, `OnlySenderOpens`. Two
theorems need the hypothesis `OthersOnly`, that no rule names this machine
itself and that no packet is in transit: `PurgeRevokesAlways`, through the lemma
that under it `stillAllowed` permits no more than the policy, and
`OnlyStragglersAlways`, which strengthens `IInv` by the property itself.
Validation does not enforce `OthersOnly`; it is checked of every instance TLC
runs.

`FilterKeepsItsPromise`, under `OthersOnly` again, is the refinement: each of
the filter's actions is a step of `Revocation` or leaves it alone. Aging and
eviction are `Close` or part of `Open`; what makes `Purge` a `Settle` is
`PurgeRevokesAlways`'s lemma. `ForgottenForCauseAlways` looks at the steps that
write the connection table one by one (`RoomLeavesAll`: while the table has room,
writing down a connection drops no other).

The last part is about `Packets`, for any batches, rules and limits, and goes
from the bytes to the batch.

* The clamp. `CarryIs`: carries added back until none is left leave the sum
  modulo 65535, with 65535 in the place of 0 unless the sum is 0. By it a
  checksum that was right is right after one aligned word has changed
  (`FixedVerifies`, `CutVerifies`), at every carry. `WalkIsFirst`: the walk over
  the options stops at an MSS exactly where `FirstMss` has one, which is defined
  without a walk; one direction is that no option before it is skipped
  (`WalkFindsFirst`), the other that where the walk stands an option starts
  (`WalkFindsMss`). `Cuts` is what a clamp may do to a segment, and two clamps are
  one cut (`CutTwice`).
* One packet. `VerdictsAgree`: the flow `Parse` reads is judged as the flow the
  packet is of, because no rule and no answer is about the port 0.
* The loop. `Looped` is its invariant: the buffers it has not come to are as they
  were given, the first `kept` hold the packets that may leave, clamped and in
  order, and the apps have been told of the others. What carries it is that
  `kept` is less than the place it stands at. Order is counted: a packet's place
  among those picked is the number picked before it (`Rank`, `PickedGrows`).
* The batch. `BatchInv` says where each packet wg was handed, and each one
  delivered, comes from; the six properties follow.

Recursive functions (the sums, the walk, the loop) are reasoned about by the
least place at which a claim fails (`LeastOf`, from the well-foundedness of the
naturals).

`AgentProofs`: all theorems hold for any number of overlapping reloads. The
invariant adds to `TypeOK`: `AllInStep`, what a reload holds at each of its
steps (going back it has a version in force to go back to, and what it applies
has the csa.toml of the version in force); `OneSelf`, that all versions in use
have one csa.toml; `InProcess`, that without a process nothing of it is left;
`Ending`, what `ended` says at each step of an end; and `UpStays`, that an
object that has put a table up still has it. The last is what carries
`PortsStayClosed`: a reload that fails may leave the wrong table, but an Apply
that fails leaves the table that was there. `SelfStays` and `OpensForCause` are
action properties of the same invariant, the latter through `RemovedFacts`: an
Apply deletes a table only when told to want none.

`StatusIsTrueForOne` is about one reload at a time (`Handlers = {h}`), and false
of two. `InPart` says what is in force at each step: of a start, the parts it has
put up (`Started`); of a reload that has applied nothing, all of the version in
force (`Unapplied`); of one that applies, or goes back, the parts of its target
it has been through (`Applies`). Of wg it only says that it holds what `snap`
says or a mixture, and of a table not yet reached nothing, since a way back goes
through all parts again. A way back that fails is not excused by the property
but by `mixed`, which stops csa.

`InstancesProofs`: under `SameConfig`, the invariant says that a process past
`Open` holds its interface (`Held`), so that of those with one interface only
one runs (`OnlyOneRuns`), and that a socket file of a living process is at its
own path, with that process behind it (`FilesAreOwn`); with these, the three
properties are inductive. `OnlyDeadAtPathAlways` says what the interface is good
for: whatever failed before, a start finds at the path, and removes, only what a
dead csa left.

`ConfigFilesProofs`: the invariant says of the reader that its hash is of what it
read (`Loaded`) and that what is about to be set was found valid and needs no
restart (`Checked`); and of the writers that what -f puts at a path is whole
(`Staged`). What a failed reload may leave in wg is only a secret the
configuration in force does not have, which is why `SecretsInForce` survives it.
`ConfirmedIsFollowed` and `KeyNeverLost` are action properties of
the same invariant.

`WgPeersProofs`: the properties say what holds before and after a text; the
invariant says what holds between any two of its lines. `JobInv`: a text `Fits`
the two configurations it leads from and to, that is, it consists of the
removals of the keys that leave and the sections of the entries that changed, it
leaves none out, and every removal comes before every section, whatever the
order of the map; and the job is at one of its lines. `WgInv`, for wg while it
is told (`Underway`): a key no later line names (`~ Awaits`) is as the new
configuration has it (`Final`); the peer of the present section has as much of
it as the lines taken so far give (`Halfway`); every key's addresses are of one
of the two configurations or of one that failed (`LeftTo`); and no two keys share
one. The order of the blocks carries the first: a key may leave one peer and
become another's, and its removal must not come last. The line that gives an
address to a key takes it from all others, which carries the last, also where two
peers swap theirs.

What is claimed after a failure is claimed key by key. A text changes nothing of
a key on which its two configurations `Agree`; so a text that breaks off at any
line leaves in order every key on which what was in force and what was being
brought in agree (`BrokenOff`), and afterwards `Final` is known of the keys that
are `Settled`: on which the configuration in force agrees with every one left
half-way. A text that is taken to its end settles more: the keys it names are as
its configuration says, whatever they were, and a key it does not name is one the
two agree on (`SteadyWithout`: its own configuration is then no longer half-way).
With `torn` empty every key is settled, which is `PeersInForceAlways`. With it
follow `OnlyAssignedAlways`, `MisjudgedInHandoverAlways`,
`UnchangedUntouchedAlways` and `TypeCorrect`, for any ids, keys, addresses and
secrets and any number of failures.

`ConfigProofs`: the invariant `IInv` says that the configuration that is
followed was found valid on some day, and could be built (`Sane`), and that it
is what is enforced; of the files nothing is known. Its heart is
`SameMakesSame`: two valid configurations `Diff` calls the same give the same
rules, the same wg peers, and the same two tables. The validity of both is
needed, because `Diff` compares entries by id (`FindFacts`: an id finds one
entry) and rules name apps of entries (`NamesOK`); that the days differ on which
they were valid does no harm. From `IInv` and the facts Validate establishes
(`EntriesDiffer`, `PortFacts`, `TurnedApart`) follow `FollowsAlways`,
`TypeCorrect`, `PolicyByNameAlways`, `SteeredToItsOwnerAlways` and
`PresentedTellsApartAlways`, for every set of configurations and not only those
two edits away from a base.

`DirectPathProofs`: the invariant adds to the properties that only a machine
with csa, in a mode that closes something, has a guard's table (`TablesByCsa`),
and what connection tracking may remember (`OnlyOldEntered`, `OnlyOldLeft`): a
direct connection to a service was there before the table, or is at a port the
operator keeps. The properties look at the packet sent last; these say why an
earlier one cannot have opened the way for it. Of a connection only its
answers still know, the invariant says that it first left before nat's table was
there. `ForgottenForGood` is an action property of it: a call without a
memory is turned into the tunnel, and an answer needs one.

`EndpointCacheProofs`: the invariant says that no stamp is of the future
(`Past`), that whoever asks wg has the lock (`Locked`), and that the cache and
every answer a packet has are `Known` at their stamp: a place they name is one
wg had then or later, and where they name none, csa could not have told one
then or at some time since (`CacheKnown`, `AnswersKnown`). What keeps this true
when the world moves is common to all steps that move it, a packet, a line of a
reload, the store of the snapshot, the end of `Open` and an IpcGet that fails: whatever they take away
they write down in `left` with the present time (`Records`), and by `Past` no
stamp is later than that (`RecordsKeeps`). `FreshAlways` and
`BlindForCauseAlways` are the two halves with the time to live taken off, for any
number of peers, with endpoints in their entries or without, and any time to
live.

Only model-checked: the liveness properties (`ReloadsReturn`, `MixedStops`,
`StartsEnd`, `DeployerIsAnswered`, `ReloadsReturnUncrossed`), since fairness and ENABLED are out of the
prover's reach. Every invariant and every action property of the runs that pass
is proved. What the counterexample runs refute is refuted by TLC.

## Not modelled

What is left out, and why, is listed by component in `PROJECT.json`. The main
abstractions: a clock reading of the flow tables and the lock after it are one
step; texts, logs and counters are left out, and with them the status report
and the bind's count of strangers, which decide nothing; `safePath` and the
checks of a secret's owner and mode count as one way for it to be refused; the
syntax of the files is a set of contents that parse; wireguard-go, nft, the
kernel and the TCPs are external, modelled by how the code uses them. The
installer, the release tools and the experiments are no part of the running
agent. `MaxTime`, `MaxDay` and the limits of the flow tables are the only bounds
of counters.

## Plan

Built: all modules of the table above; proved: the modules with a `Proofs`
module. In this order next:

1. `FlowClock`: stamps taken before the lock, in the flow tables (flow.go:107),
   and what of the filter's theorems survives them.
2. That the lines of a `WgPeers` text are a refinement of the one step `Agent`
   takes for an `IpcSet`.
3. The list of exposed ports and the bind's map of strangers, should either come
   to decide something.
