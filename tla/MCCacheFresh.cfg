SPECIFICATION Spec
CONSTANTS
  a = a
  b = b
  home = home
  away = away
  none = none
  NoPlace = none
  Ids <- MCIds
  Places <- MCPlaces
  Sources <- MCAway
  Registered <- MCRegistered
  TTL = 0
  RemovalWaits = TRUE
  MaxTime = 1
INVARIANT BlindForCause
INVARIANT FreshWithin
PROPERTY ReloadsReturnUncrossed
CHECK_DEADLOCK FALSE
