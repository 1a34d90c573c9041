CONSTANTS
  w1 = w1
  w2 = w2
  p1 = p1
  p2 = p2
  p3 = p3
  ack = ack
  off = off
  Workers = {w1, w2}
  Packets = {p1, p2, p3}
  Shard <- MCShard
  Class <- MCClass
  QueueSize = 2
  FlushMax = 3
SPECIFICATION Spec
INVARIANTS
  AtMostOneStranded
  TwiceOnlyAfterFailure
  WorkerFailureReported
CHECK_DEADLOCK FALSE
