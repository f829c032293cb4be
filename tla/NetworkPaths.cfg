SPECIFICATION FairSpec
CONSTANTS
  n1 = n1 n2 = n2 n3 = n3
  r1 = r1 r2 = r2 r3 = r3 standard = standard
  None = None Server = Server
  Nodes <- ThreeNodes
  Ip <- DistinctIps
  Reqs = {r1, r3}
  OnLoop = {r1, r3}
  Kind <- Calls
  Dest <- ToServer
  TypeOf <- OnStandard
  InSwarm = {}
  Timed = {r1}
  Count = 1
  Probes <- OneProbe
  SwarmId <- TwoSwarms
  Pubkey = 2
  SwarmSpace = 8
  Standard = standard
  PathTypes = {standard}
  SinglePath = FALSE
  PreBuild = TRUE
  MinCache = 1
  PathSize = 2
  MinPaths = 1
  PathThreshold = 1
  SnodeThreshold = 1
  FailureSpace = 2
  RefreshFrom = 1
  InitialCache <- ThreeNodes
  Answers <- WholeLists
  Batches <- Codes
  SizeSpace = 4
  MaxIds = 2
  MaxConns = 3
  MaxFaults = 1
  MaxExpiries = 1
  MaxSuspends = 0
INVARIANTS
  TypeOK
  FullPaths
  InFlightTracked
  BuildsScheduled
  QueuedBuildsServed
  AttemptsKnown
PROPERTIES
  TimedCalledBack
CHECK_DEADLOCK FALSE
