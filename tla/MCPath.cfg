SPECIFICATION Spec
CONSTANTS
  Some = "all"
  Hosts <- MCHosts
  Csa <- MCCsa
  Addressed = {"a"}
  Calls <- MCCalls
  Permitted <- MCPermitted
  Services <- MCServices
  Mode <- MCMode
  Keep <- MCKeep
  Steering = {"a", "b"}
  Presenting = {"a"}
  WGPort = 51820
  None = none
INVARIANTS
  ServicesClosed
  FailsClosed
 
