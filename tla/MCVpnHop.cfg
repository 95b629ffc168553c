\* One path, two tokens: hopping, deadlines, late datagrams, a restart.
CONSTANTS
  PathCount = 1
  PortRange = 1
  Sock = {s1, s2, s3}
  Packet = {d}
  Beat = Beat
  None = None
  TTL = 1
  Life = 1
  Faults = {}
  MaxInFlight = 2
  MaxRestarts = 1
SPECIFICATION Spec
SYMMETRY SockSymmetry
INVARIANTS TypeOK ClientSockCurrent ServerPeerCoherent KeysMatch AliveCanSend
PROPERTY TunnelSpec
