SPECIFICATION FairSpec
CONSTANTS
  Versions <- MCVersions
  Valid <- MCValid
  Builds <- MCBuilds
  SelfOf <- MCSelfOf
  Sense <- MCSense
  WgOf <- MCWgOf
  Wants <- MCWants
  Rulesets <- MCRulesets
  NoTable <- MCNoTable
  Handlers = {h1}
  NoVersion = "none"
  NoWg = "no wg"
  Torn = "torn"
INVARIANT StatusIsTrue
INVARIANT PortsStayClosed
PROPERTY SelfStays
PROPERTY MixedStops
PROPERTY ReloadsReturn
PROPERTY OpensForCause
