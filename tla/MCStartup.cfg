\* Two paths; values on both sides of every bound; every pair of servers.
CONSTANTS
  PathMaxCount = 2
  Port = {0, 5, 6}
  Mtu = {0, 1023, 1024, 2052, 2053}
  W = 3
  Size <- MCSize
SPECIFICATION StartupSpec
INVARIANTS TypeOK Usable UserKept SetupTypeOK Bracketed Aligned AllButServer AddressedLast FamiliesRouted Ipv6Routed
PROPERTY Settled
\* vpn_init ends.
CHECK_DEADLOCK FALSE
