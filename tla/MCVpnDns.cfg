\* A host name for a server: the client is up before it has a socket.
CONSTANTS
  PathCount = 1
  PortRange = 1
  Sock = {s1, s2, s3}
  Packet = {d}
  Beat = Beat
  None = None
  TTL = 1
  Life = 1
  Faults = {"dns"}
  MaxInFlight = 1
  MaxRestarts = 0
SPECIFICATION Spec
SYMMETRY SockSymmetry
INVARIANT SenderHasSocket
