----------------------------- MODULE Revocation -----------------------------
(***************************************************************************)
(* What the packet filter promises about answers, without saying how: the  *)
(* connections whose answers pass, and what a change of the policy does to *)
(* them (the comments of internal/wgdev/filter.go and Device.Reload).      *)
(* PacketFilter implements it: there a decision takes four lock sections,  *)
(* the tables age and overflow, and a change of the policy takes two steps *)
(* between which packets pass.                                             *)
(***************************************************************************)
CONSTANTS Keys,       \* the flows that can open a connection
          Versions,   \* the policies
          Permitted   \* the flows each of them permits under some observation

VARIABLES
  inForce,    \* the policy in force
  settling,   \* it changed, and the connections are yet to be judged by it
  open,       \* the connections whose answers pass
  stray       \* those that were opened under a policy already replaced

vars == <<inForce, settling, open, stray>>

Init ==
  /\ inForce \in Versions
  /\ settling = FALSE
  /\ open = {}
  /\ stray = {}

\* A packet opens its own connection, by the policy in force or by one that
\* was replaced while the packet was handled.  Others may lose their room.
Open(k) ==
  /\ k \in open' /\ open' \subseteq open \cup {k}
  /\ \/ k \in Permitted[inForce] /\ stray' = (stray \ {k}) \cap open'
     \/ /\ k \in UNION {Permitted[v] : v \in Versions}
        /\ stray' = (stray \cup {k}) \cap open'
  /\ UNCHANGED <<inForce, settling>>

\* Connections close: they fell silent.
Close ==
  /\ open' \subseteq open
  /\ stray' = stray \cap open'
  /\ UNCHANGED <<inForce, settling>>

\* The policy changes; one change is settled before the next one is made.
Replace(v) ==
  /\ ~ settling
  /\ inForce' = v
  /\ settling' = TRUE
  /\ UNCHANGED <<open, stray>>

\* What the new policy does not permit is closed.
Settle ==
  /\ settling
  /\ open' \subseteq open \cap Permitted[inForce]
  /\ settling' = FALSE
  /\ stray' = {}
  /\ UNCHANGED inForce

Next == \/ \E k \in Keys : Open(k)
        \/ Close
        \/ \E v \in Versions : Replace(v)
        \/ Settle

Spec == Init /\ [][Next]_vars
=============================================================================
