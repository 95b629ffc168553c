\* Two paths of one port each: rotation, failover, a hop between two paths,
\* with the timers fair.  No symmetry, for a property of it is about liveness.
CONSTANTS
  PathCount = 2
  PortRange = 0
  Sock = {s1, s2, s3}
  Packet = {d}
  Beat = Beat
  None = None
  TTL = 1
  Life = 1
  Faults = {}
  MaxInFlight = 1
  MaxRestarts = 1
SPECIFICATION FairSpec
INVARIANTS ClientSockCurrent SenderHasSocket
PROPERTY SilentPathDies
