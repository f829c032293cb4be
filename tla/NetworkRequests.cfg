SPECIFICATION Spec
CONSTANTS
  n1 = n1 n2 = n2 n3 = n3
  r1 = r1 r2 = r2 r3 = r3 standard = standard
  None = None Server = Server
  Nodes <- ThreeNodes
  Ip <- DistinctIps
  Reqs = {r1, r2}
  OnLoop = {}
  Kind <- Calls
  Dest <- ToNode
  TypeOf <- OnStandard
  InSwarm = {r1}
  Timed = {}
  Count = 2
  Probes <- TwoProbes
  SwarmId <- TwoSwarms
  Pubkey = 2
  SwarmSpace = 8
  Standard = standard
  PathTypes = {standard}
  SinglePath = FALSE
  PreBuild = TRUE
  MinCache = 1
  PathSize = 1
  MinPaths = 1
  PathThreshold = 2
  SnodeThreshold = 1
  FailureSpace = 2
  RefreshFrom = 1
  InitialCache <- ThreeNodes
  Answers <- AnyLists
  Batches <- Codes
  SizeSpace = 4
  MaxIds = 2
  MaxConns = 3
  MaxFaults = 0
  MaxExpiries = 0
  MaxSuspends = 1
INVARIANTS
  OnePlace
PROPERTIES
  ServiceSpec
CHECK_DEADLOCK FALSE
