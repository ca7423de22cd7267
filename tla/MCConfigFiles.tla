---------------------------- MODULE MCConfigFiles ----------------------------
(***************************************************************************)
(* A small instance of ConfigFiles.  peers.toml comes in three versions:   *)
(* "a", "b" that means the same, and "k" with the public key of the new    *)
(* private key; csa.toml "r" requires a pre-shared key; policy.toml "n"    *)
(* means something else.  Half of csa.toml cannot be parsed, half of       *)
(* policy.toml is a policy.                                                *)
(***************************************************************************)
EXTENDS ConfigFiles

MCContents == {"a", "b", "k", "r", "n", "half"}
MCInPlace == {1, 3}
MCParses == [i \in File |-> IF i = 1 THEN MCContents \ {"half"} ELSE MCContents]
MCSense == [i \in File |-> [c \in MCContents |-> IF c = "b" THEN "a" ELSE c]]
MCPub == [c \in MCContents |-> IF c = "k" THEN "new" ELSE "first"]
MCRequires == {"r"}
MCDeployments == {<<"a", "a", "a">>, <<"a", "b", "a">>, <<"r", "k", "n">>}

\* The policy "n" names a peer that only "k" has.
MCCoherent == {t \in Triples : t[3] = "n" => t[2] = "k"}

MCMakers == {"first", "new", "psk"}
MCKind == [m \in MCMakers |-> IF m \in {"first", "new"} THEN "private" ELSE "psk"]
MCForced == {"new"}
=============================================================================
