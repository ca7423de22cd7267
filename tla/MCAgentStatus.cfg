SPECIFICATION Spec
CONSTANTS
  Versions <- TwoVersions
  Valid <- TwoVersions
  Builds <- TwoVersions
  SelfOf <- TwoSelfOf
  Sense <- TwoSense
  WgOf <- TwoWgOf
  Wants <- TwoWants
  Rulesets <- TwoVersions
  NoTable <- MCNoTable
  Handlers = {h1, h2}
  NoVersion = "none"
  NoWg = "no wg"
  Torn = "torn"
INVARIANT StatusIsTrue
