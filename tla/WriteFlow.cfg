\* Two replicas that start late, fall silent, go, and send anything; the channels hold one.
SPECIFICATION Spec
CONSTANTS
  Replicas = {r1, r2}
  MaxWrites = 2
  RingSize = 1
  ChannelSize = 1
  SockCap = 1
  MaxAttempts = 2
INVARIANTS
  SentAsWritten
PROPERTIES
  EndsWithReplicas
  GoneTaskNearsEnd
  WritesReachReplica
CHECK_DEADLOCK FALSE
