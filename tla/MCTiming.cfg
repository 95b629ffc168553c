\* The constants just satisfy ClocksAgree, SocketsOutlast and HeardInTime.
CONSTANTS
  Step = 2
  MinBeat = 1
  MaxBeat = 2
  TTL = 5
  Life = 15
  Window = 2
  Behind = 1
  Ahead = 1
  Clocks <- MCClocks
  MaxDelay = 1
  MaxLost = 0
  MaxInFlight = 1
SPECIFICATION Spec
INVARIANTS TypeOK FreshAccepted RepliesHeard
PROPERTIES StaysAlive DetectorSpec
