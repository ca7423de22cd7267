SPECIFICATION FairSpec
CONSTANTS
  Contents <- MCContents
  Half = "half"
  InPlace <- MCInPlace
  Parses <- MCParses
  Sense <- MCSense
  Pub <- MCPub
  Requires <- MCRequires
  Coherent <- MCCoherent
  Deployments <- MCDeployments
  Makers <- MCMakers
  Kind <- MCKind
  Forced <- MCForced
  First = "first"
  None = None
  Refused = Refused
INVARIANT KeyPairHolds
INVARIANT SecretsInForce
PROPERTY ConfirmedIsFollowed
PROPERTY KeyNeverLost
PROPERTY DeployerIsAnswered
