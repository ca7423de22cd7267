-------------------------- MODULE MCPacketFilter --------------------------
(***************************************************************************)
(* Small instances of PacketFilter: this machine "me" and a peer "b".      *)
(* "visit" is b's connection to me's service, "call" is me's to b's, and   *)
(* "ping" is me's echo request; each comes with the flow of its answers.   *)
(***************************************************************************)
EXTENDS PacketFilter

CONSTANT Shape   \* which instance: "race" or "silence"

MCPeers == {"me", "b"}
MCSelf == "me"
MCPlaces == {"office", "cafe"}
MCPorts == {80, 5432, 4000}
MCNoPort == 0

Flow5(s, d, sp, dp) ==
  [src |-> s, dst |-> d, sport |-> sp, dport |-> dp,
   proto |-> IF Shape = "silence" THEN "udp" ELSE "tcp"]

call  == Flow5("me", "b", 4000, 5432)
visit == Flow5("b", "me", 4000, 80)
ping  == [src |-> "me", dst |-> "b", sport |-> 0, dport |-> 0, proto |-> "icmp"]

MCKeys ==
  LET opened == IF Shape = "race" THEN {visit, ping} ELSE {call, visit}
  IN  opened \cup {Reverse(k) : k \in opened}

NoOne == [p \in MCPorts |-> {}]

\* b may call from the office only, and until day 1; the port also admits
\* nobody by an empty rule.
Both   == [known |-> MCPeers, outbound |-> {<<"b", 5432>>},
           inbound |-> [NoOne EXCEPT ![80] =
             {[peers |-> {"b"}, cidrs |-> {{"office"}}, expires |-> 1],
              [peers |-> {}, cidrs |-> {}, expires |-> Never]}]]
Closed == [known |-> MCPeers, outbound |-> {}, inbound |-> NoOne]

MCVersions == IF Shape = "race" THEN {"both", "closed"} ELSE {"both"}
MCCompiled == [v \in MCVersions |-> IF v = "both" THEN Both ELSE Closed]

Seen1(day, place) == [today |-> day, at |-> [p \in MCPeers |->
                        IF p = "b" THEN place ELSE "unknown"]]
MCSights == {Seen1(0, "office")} \cup
            IF Shape = "race" THEN {Seen1(0, "cafe"), Seen1(1, "office")} ELSE {}

\* In "silence" a tick is a minute and the flows are UDP: two minutes in the
\* log table, three in the connection table.  The race only needs entries
\* that expire.
MCLogTTL == [k \in MCKeys |-> IF Shape = "silence" THEN 2 ELSE 1]
MCConnTTL == [k \in MCKeys |-> IF Shape = "silence" THEN 3 ELSE 2]

ASSUME OthersOnly

\* Traffic and time alone: nothing is reloaded.
SteadySpec == Init /\ [][(\E p \in Peers : Handle(p)) \/ Tick]_vars
===========================================================================
