\* Liveness with a restart: the two sides find each other again.
CONSTANTS
  PathCount = 1
  PortRange = 0
  Sock = {s1, s2, s3}
  Packet = {d}
  Beat = Beat
  None = None
  TTL = 2
  Life = 1
  Faults = {}
  MaxInFlight = 1
  MaxRestarts = 1
SPECIFICATION FairNetSpec
PROPERTY Rejoin
