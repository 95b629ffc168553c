\* A host name for a server, ports that cannot be bound, aborts and restarts.
CONSTANTS
  PathCount = 1
  PortRange = 1
  Sock = {s1, s2}
  Packet = {d}
  Beat = Beat
  None = None
  TTL = 1
  Life = 1
  Faults = {"dns", "bind"}
  MaxInFlight = 1
  MaxRestarts = 1
SPECIFICATION Spec
SYMMETRY SockSymmetry
INVARIANTS PortKeys ServerPeerCoherent
PROPERTY TunnelSpec
\* Both processes may have aborted, with no restart left.
CHECK_DEADLOCK FALSE
