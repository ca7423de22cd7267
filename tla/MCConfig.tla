------------------------------ MODULE MCConfig ------------------------------
(***************************************************************************)
(* Instances of Config: a configuration of three machines, and every       *)
(* configuration one or two edits away from it, valid or not.              *)
(***************************************************************************)
EXTENDS Config

CONSTANTS me, bea, cid, s,
          Pairs   \* whether two edits are made, or one

Peer(id, key, ip, eps, addrs, svcs) ==
  [id |-> id, key |-> key, ip |-> ip, eps |-> eps, addrs |-> addrs, svcs |-> svcs]
At(a, port) == <<[at |-> a, port |-> port]>>
App(app, port) == <<[app |-> app, port |-> port]>>
In(app, allow, cidrs, expires) ==
  <<[app |-> app, allow |-> allow, cidrs |-> cidrs, expires |-> expires]>>

MCPorts == {80, 443, 51820}
MCV4 == {"t1", "t2", "t3", "r1", "r2", "r3"}
MCPlaces == MCV4 \cup {"v6"}
MCTunnelNet == {"t1", "t2", "t3"}

Base ==
  [self |-> [mode |-> "services", keep |-> {}, port |-> 51820, required |-> FALSE,
             outgoing |-> "services", incoming |-> "real-ip"],
   pub |-> 1,
   peers |-> <<Peer(me, 1, "t1", At("r1", 51820), <<>>, App("web", 80)),
               Peer(bea, 2, "t2", At("r2", 51820), <<>>, App("db", 443)),
               Peer(cid, 3, "t3", At("v6", 51820), <<>>, <<>>)>>,
   inbound |-> In("web", {bea}, {}, Never),
   outbound |-> {<<bea, "db">>},
   psk |-> [id \in {me, bea, cid} |-> None]]

Edit0(v) == {[v EXCEPT !.self.mode = "all"], [v EXCEPT !.self.keep = {80}],
             [v EXCEPT !.self.port = 443], [v EXCEPT !.self.required = TRUE],
             [v EXCEPT !.self.outgoing = "off"], [v EXCEPT !.self.incoming = "tunnel-ip"],
             [v EXCEPT !.pub = 9], [v EXCEPT !.psk[bea] = s], [v EXCEPT !.psk[cid] = s]}
Edit1(v) == {[v EXCEPT !.peers[1].key = 9], [v EXCEPT !.peers[1].ip = "t3"],
             [v EXCEPT !.peers[1].addrs = <<"r3">>], [v EXCEPT !.peers[1].addrs = <<"v6">>],
             [v EXCEPT !.peers[1].svcs = App("web", 80) \o App("db", 443)],
             [v EXCEPT !.peers[1].svcs = App("web", 80) \o App("db", 80)],
             [v EXCEPT !.peers[1].svcs = App("web", 51820)]}
Edit2(v) == {[v EXCEPT !.peers[2].key = 3], [v EXCEPT !.peers[2].ip = "t1"],
             [v EXCEPT !.peers[2].eps = <<>>], [v EXCEPT !.peers[2].eps = At("r1", 51820)],
             [v EXCEPT !.peers[2].eps = At("r2", 443)],
             [v EXCEPT !.peers[2].eps = At("r2", 51820) \o At("r3", 80)],
             [v EXCEPT !.peers[2].addrs = <<"r3", "r2">>],
             [v EXCEPT !.peers[2].addrs = <<"r1">>],
             [v EXCEPT !.peers[2].svcs = App("web", 443)],
             [v EXCEPT !.peers[2].svcs = App("db", 80) \o App("web", 443)]}
Edit3(v) == {[v EXCEPT !.peers[3].eps = At("t2", 80)],
             [v EXCEPT !.peers[3].addrs = <<"r3">>],
             [v EXCEPT !.peers[3].svcs = App("web", 443)],
             [v EXCEPT !.peers = <<@[2], @[1], @[3]>>],
             [v EXCEPT !.peers = <<@[1], @[2]>>]}
Edit4(v) == {[v EXCEPT !.inbound = <<>>], [v EXCEPT !.inbound = In("db", {cid}, {}, Never)],
             [v EXCEPT !.inbound = @ \o In("db", {cid}, {}, Never)],
             [v EXCEPT !.inbound = In("web", {}, {{"r2", "r3"}}, 1)],
             [v EXCEPT !.inbound = In("web", {bea}, {}, 1)],
             [v EXCEPT !.inbound = In("web", {bea}, {}, Unreadable)],
             [v EXCEPT !.inbound = In("web", {bea}, {{"r2"}}, Never)],
             [v EXCEPT !.outbound = {}], [v EXCEPT !.outbound = @ \cup {<<bea, "web">>}]}

\* The edits of peer entries come first, while the entries are in their place.
Edited(V) == V \cup UNION {Edit1(v) \cup Edit2(v) \cup Edit0(v) \cup Edit4(v) : v \in V}
MCConfigs ==
  LET once == Edited({Base})
  IN  IF Pairs THEN LET twice == Edited(once) IN twice \cup UNION {Edit3(v) : v \in once}
               ELSE once \cup Edit3(Base)
=============================================================================
