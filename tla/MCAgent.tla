------------------------------ MODULE MCAgent ------------------------------
(***************************************************************************)
(* Small instances of Agent.  "a" and "b" differ in peers, policy and this *)
(* machine's services; "a2" is "a" with another comment; "off" has another *)
(* csa.toml, in which neither gate makes a table; "odd" passes validation  *)
(* and policy.New refuses it; "bad" does not pass.                         *)
(***************************************************************************)
EXTENDS Agent, TLC

MCVersions == {"a", "a2", "b", "off", "odd", "bad"}
MCValid == MCVersions \ {"bad"}
MCBuilds == {"a", "a2", "b", "off"}
MCSense == [v \in MCVersions |-> IF v = "a2" THEN "a" ELSE v]
MCSelfOf == [v \in MCVersions |-> IF v = "off" THEN "other" ELSE "same"]
MCWgOf == [v \in MCVersions |-> IF v = "a2" THEN "a" ELSE v]
MCRulesets == MCVersions
MCNoTable == "no table"
MCWants == [g \in Gates |-> [v \in MCVersions |->
              IF v = "off" THEN MCNoTable ELSE MCWgOf[v]]]

\* One process: what happens after it has ended is left to the other runs.
OneLifeSpec == Init /\ [][Next /\ (main = "down" => ended = "never ran")]_vars

\* Two versions that differ in everything a reload applies.
TwoVersions == {"a", "b"}
TwoOf(f) == [v \in TwoVersions |-> f[v]]
TwoSense == TwoOf(MCSense)
TwoSelfOf == TwoOf(MCSelfOf)
TwoWgOf == TwoOf(MCWgOf)
TwoWants == [g \in Gates |-> TwoOf(MCWants[g])]
\* wg has nothing to do with the tables, and the reloads are alike.
SameWg == [v \in TwoVersions |-> "any"]
Alike == Permutations(Handlers)
============================================================================
