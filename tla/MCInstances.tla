---------------------------- MODULE MCInstances ----------------------------
(***************************************************************************)
(* Small instances of Instances.  In "twice" two processes of one          *)
(* configuration meet a third of another one, in a namespace of its own,   *)
(* as the integration tests run them.  In "beside" two configurations run  *)
(* in one namespace.                                                       *)
(***************************************************************************)
EXTENDS Instances

CONSTANT Machine   \* which instance: "twice" or "beside"

MCProcs == IF Machine = "twice" THEN {"p", "again", "other"} ELSE {"p", "other"}
Own(p) == IF p = "other" THEN "2" ELSE "1"
MCTunOf == [p \in MCProcs |-> Own(p)]
MCSocketOf == [p \in MCProcs |-> Own(p)]
MCTableOf == [p \in MCProcs |-> IF Machine = "twice" THEN Own(p) ELSE "1"]

ASSUME Machine = "twice" => SameConfig
============================================================================
