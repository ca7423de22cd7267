CONSTANTS
  Ids = {p, q}
  Keys = {k1, k2}
  Addrs = {a1, a2}
  Places = {home}
  Secrets = {s}
  None = None
  Absent = Absent
  Entries <- MCEntries
  MaxTorn = 1
SYMMETRY Symmetry
SPECIFICATION Spec
INVARIANT PeersInForce
INVARIANT OnlyAssigned
INVARIANT MisjudgedInHandover
PROPERTY UnchangedUntouched
