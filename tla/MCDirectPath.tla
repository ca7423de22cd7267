---------------------------- MODULE MCDirectPath ----------------------------
(***************************************************************************)
(* An instance of DirectPath: a and b run csa, x does not.  a closes its   *)
(* service only, b closes all ports.                                       *)
(***************************************************************************)
EXTENDS DirectPath

CONSTANT Some   \* which calls

MCHosts == {"a", "b", "x"}
MCCsa == {"a", "b"}
MCServices == [h \in MCCsa |-> IF h = "a" THEN {70} ELSE {80}]
MCMode == [h \in MCCsa |-> IF h = "a" THEN "services" ELSE "all"]
MCKeep == [h \in MCCsa |-> {}]

C(from, to, sport, dport, proto, by) ==
  [from |-> from, to |-> to, sport |-> sport, dport |-> dport, proto |-> proto, by |-> by]

byName == C("b", "a", 4000, 70, "udp", "real")
toB    == C("x", "b", 4000, 80, "tcp", "real")
ssh    == C("b", "x", 4000, 22, "tcp", "real")
inside == C("b", "a", 4000, 70, "tcp", "tunnel")
ntp    == C("a", "x", 70, 123, "udp", "real")

MCCalls == CASE Some = "all" -> {byName, toB, ssh}
             [] Some = "tun" -> {byName, inside}
             [] Some = "ntp" -> {toB, ntp}
MCPermitted == MCCalls \cap {byName, inside}
=============================================================================
