\* The three steps of a connection, each of which may fail, at every getter.
CONSTANTS
  Kinds <- MCKinds
  Given <- MCGiven
  Ports <- MCPorts
  MaxAttempts = 3
SPECIFICATION FCSpec
INVARIANT ChannelMeansReady
PROPERTIES ConnectsAtomically ConnectEnds
CHECK_DEADLOCK FALSE
