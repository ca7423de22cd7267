SPECIFICATION FairSpec
CONSTANTS
  Machine = "twice"
  Procs <- MCProcs
  TunOf <- MCTunOf
  SocketOf <- MCSocketOf
  TableOf <- MCTableOf
  Nobody = Nobody
  Dead = Dead
INVARIANT SocketIsServed
INVARIANT TablesAreHeld
PROPERTY StartsEnd
