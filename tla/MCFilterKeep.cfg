SPECIFICATION Spec
CONSTANTS
  Shape = "silence"
  Keys <- MCKeys
  Peers <- MCPeers
  Self <- MCSelf
  Places <- MCPlaces
  Unknown = "unknown"
  Ports <- MCPorts
  NoPort <- MCNoPort
  Never = Never
  Versions <- MCVersions
  Compiled <- MCCompiled
  Sights <- MCSights
  LogTTL <- MCLogTTL
  LogMax = 4
  ConnTTL <- MCConnTTL
  ConnMax = 4
  NoKey = NoKey
  NoVersion = NoVersion
PROPERTY PurgeKeepsPermitted
