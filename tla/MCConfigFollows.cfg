CONSTANTS
  me = me
  bea = bea
  cid = cid
  s = s
  Pairs = TRUE
  Peers = {me, bea, cid}
  Self = me
  Places <- MCPlaces
  V4 <- MCV4
  TunnelNet <- MCTunnelNet
  Unknown = unknown
  Ports <- MCPorts
  NoPort = 0
  Never = never
  Apps = {"web", "db"}
  Secrets = {s}
  None = none
  Unreadable = unreadable
  MaxDay = 1
  Configs <- MCConfigs
SPECIFICATION Spec
INVARIANTS
  FollowsWhatItSays
  PolicyByName
  SteeredToItsOwner
  PresentedTellsApart
