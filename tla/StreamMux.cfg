SPECIFICATION FairSpec
CONSTANTS
  Streams = {s1}
  MaxStreams = 1
  ReqMax = 2
  RespMax = 1
  ChanCap = 1
  ChunkCap = 1
  LinkCap = 1
INVARIANTS RequestBodyIntact Accounted
PROPERTIES CompletedWhileUpIsIntact RoundTripsEnd LoopsUnblock AgentLeavesDeadConnection
CHECK_DEADLOCK FALSE
