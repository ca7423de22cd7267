SPECIFICATION Spec
CONSTANTS
  Shape = "race"
  Keys <- MCKeys
  Peers <- MCPeers
  Self <- MCSelf
  Places <- MCPlaces
  Unknown = "unknown"
  Ports <- MCPorts
  NoPort <- MCNoPort
  Never = Never
  Versions <- MCVersions
  Compiled <- MCCompiled
  Sights <- MCSights
  LogTTL <- MCLogTTL
  LogMax = 1
  ConnTTL <- MCConnTTL
  ConnMax = 2
  NoKey = NoKey
  NoVersion = NoVersion
INVARIANT Bounded
INVARIANT OnlyStragglersSurvive
PROPERTY OnlySenderRevives
PROPERTY PurgeRevokes
PROPERTY ForgottenForCause
PROPERTY KeepsItsPromise
