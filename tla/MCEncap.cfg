\* The receiver has the smaller mtu; lengths round each step of obfuscate,
\* and round the receiver's mtu.
CONSTANTS
  SendMtu = 2048
  RecvMtu = 1024
  Lens = {0, 1, 600, 1023, 1024, 1025, 1150, 1151, 1493, 1494, 1705, 1706, 1918, 1919, 2000, 2047, 2048}
  Shrunk = {1, 1023, 1024, 1025, 2047}
SPECIFICATION Spec
INVARIANTS Fits AllSealed PaddingExpendable
\* The journey of one packet ends.
CHECK_DEADLOCK FALSE
