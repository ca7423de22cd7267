----------------------------- MODULE MCWgPeers -----------------------------
EXTENDS WgPeers

\* A peer has an endpoint, or a secret, or neither.
MCEntries == {e \in Entry : e.ep = None \/ e.psk = None}

\* No definition chooses a key or an address (SetToSeq orders ids).
Symmetry == Permutations(Keys) \cup Permutations(Addrs)
============================================================================
