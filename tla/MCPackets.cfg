SPECIFICATION BatchSpec
CONSTANTS
  Peers <- MCPeers
  Self = "me"
  Places = {"office"}
  Unknown = "unknown"
  Ports <- MCPorts
  NoPort = 0
  Never = Never
  Batches <- MCBatches
  Outgoing <- MCOutgoing
  Incoming <- MCIncoming
  Seeing <- MCSeeing
  Replies <- MCReplies
  SendMax = 1026
  RecvMax = 514
  Stale = Stale
INVARIANT SentAsJudged
INVARIANT DeliveredByOwnPort
INVARIANT DeniedAreTold
INVARIANT AnnouncesNoMore
INVARIANT OnlyLowersMss
INVARIANT ChecksumHoldsAligned
CHECK_DEADLOCK FALSE
