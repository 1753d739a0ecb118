SPECIFICATION Spec
CONSTANTS
  Streams = {s1}
  MaxStreams = 1
  ReqMax = 1
  RespMax = 1
  ChanCap = 1
  ChunkCap = 1
  LinkCap = 1
PROPERTY ResponseBodyIntact
CHECK_DEADLOCK FALSE
