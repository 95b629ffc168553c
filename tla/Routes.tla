------------------------------- MODULE Routes -------------------------------
(***************************************************************************)
(* The routes of a client with route=yes: for each server, route           *)
(* (src/src/utils.c) sends every IPv4 address but the server's own into    *)
(* the tunnel, by a set of subnets, and every IPv6 address by one route.   *)
(* The subnets are found by two loops, from the bottom of the address      *)
(* space up to the server and from the top down to it.  "ip route add"     *)
(* refuses a subnet that is already there, and any as long as the device   *)
(* is down; and the host may refuse any command for reasons of its own, a  *)
(* default route it has, IPv6 switched off.  The macro shell then returns  *)
(* from route, and vpn_init only logs it.                                  *)
(***************************************************************************)
EXTENDS Integers, FiniteSets

CONSTANTS
  W,     \* bits of an address; 32 in the code, and its products 64
  Size   \* Size[mask] is 1 << (W - mask), the addresses of a subnet

(* Size by its two rules, from the whole address space to one address.     *)
Halved ==
  /\ W \in Nat \ {0}
  /\ Size \in [0 .. W -> Nat \ {0}]
  /\ Size[W] = 1
  /\ \A m \in 1 .. W : Size[m - 1] = 2 * Size[m]

Address == 0 .. Size[0] - 1
Subnet == [base : Address, mask : 1 .. W]
Addresses(s) == s.base .. s.base + Size[s.mask] - 1

VARIABLES
  count, ipv4, ipv6,  \* of vpn_init, only read: the number of servers, and
                      \* which addresses are configured
  up,      \* host, only read: the device is up
  i,       \* the loop of vpn_init over the servers
  side,    \* what route does: "resolve", "below", "above", "ipv6"; "done"
  ip, start, ip_end, mask,  \* its variables
  table,   \* host: the IPv4 routes through the device
  table6,  \* host: the IPv6 route through the device is there
  before,  \* history: table when the loops of this call began
  refused  \* history: the host refused a command for reasons of its own

locals == <<ip, start, ip_end, mask, before>>

-----------------------------------------------------------------------------
(* vpn_init turns to the next server, whether or not route has failed.     *)
NextServer ==
  /\ i' = i + 1
  /\ side' = IF i < count THEN "resolve" ELSE "done"
  /\ ip' = 0 /\ start' = 0 /\ ip_end' = 0 /\ mask' = 1
  /\ before' = {}

(* ipremote resolves the name, or route returns -1.                        *)
Resolve ==
  /\ side = "resolve" /\ ipv4
  /\ \/ /\ ip' \in Address
        /\ side' = "below"
        /\ before' = table
        /\ UNCHANGED <<i, start, ip_end, mask>>
     \/ NextServer
  /\ UNCHANGED <<table, table6, refused>>

(* No IPv4 address is configured; a client has one address at least.       *)
OnlyIpv6 ==
  /\ side = "resolve" /\ ~ipv4
  /\ side' = "ipv6"
  /\ UNCHANGED <<i, locals, table, table6, refused>>

(* Faulty variants: bounds off by one.                                     *)
BelowReaches == start + Size[mask] - 1 <= ip
AboveShort == (ip_end - Size[mask]) % (Size[0] * Size[0]) > ip

(* The next subnet upwards ends below the server; 64-bit, unsigned.        *)
Below == start + Size[mask] - 1 < ip

(* The next subnet downwards begins above the server.                      *)
Above == (ip_end - Size[mask] + 1) % (Size[0] * Size[0]) > ip

(* "ip route add" of a route that is there or not fails, and route returns.*)
Fail(there) ==
  /\ refused' = (refused \/ (up /\ ~there))
  /\ NextServer
  /\ UNCHANGED <<table, table6>>

(* One "ip route add", and where the loop is then; or route returns.       *)
AddRoute(subnet, nextStart, nextEnd) ==
  \/ /\ up /\ subnet \notin table
     /\ table' = table \cup {subnet}
     /\ start' = nextStart /\ ip_end' = nextEnd
     /\ UNCHANGED <<i, side, ip, mask, before, table6, refused>>
  \/ Fail(subnet \in table)

AddBelow ==
  /\ side = "below" /\ mask <= W
  /\ Below
  /\ AddRoute([base |-> start, mask |-> mask], (start + Size[mask]) % Size[0], ip_end)

AddAbove ==
  /\ side = "above" /\ mask <= W
  /\ Above
  /\ LET low == (ip_end - Size[mask]) % Size[0]
     IN  AddRoute([base |-> (low + 1) % Size[0], mask |-> mask], start, low)

(* No subnet of this size is left: half the size.                          *)
Narrow ==
  /\ mask <= W
  /\ \/ side = "below" /\ ~Below
     \/ side = "above" /\ ~Above
  /\ mask' = mask + 1
  /\ UNCHANGED <<i, side, ip, start, ip_end, before, table, table6, refused>>

(* Faulty variant: one past the last address.                              *)
PastTheTop == Size[0]

(* ~0U *)
Top == Size[0] - 1

Turn ==
  /\ side = "below" /\ mask > W
  /\ side' = "above"
  /\ ip_end' = Top
  /\ mask' = 1
  /\ UNCHANGED <<i, ip, start, before, table, table6, refused>>

(* Both loops have ended.                                                  *)
Return ==
  /\ side = "above" /\ mask > W
  /\ IF ipv6
     THEN side' = "ipv6" /\ UNCHANGED <<i, locals>>
     ELSE NextServer
  /\ UNCHANGED <<table, table6, refused>>

(* ip -6 route add ::/0                                                    *)
AddIpv6 ==
  /\ side = "ipv6"
  /\ \/ /\ up /\ ~table6
        /\ table6' = TRUE
        /\ NextServer
        /\ UNCHANGED <<table, refused>>
     \/ Fail(table6)

Init ==
  /\ i = 1
  /\ side = "resolve"
  /\ ip = 0 /\ start = 0 /\ ip_end = 0 /\ mask = 1
  /\ table = {}
  /\ table6 = FALSE
  /\ before = {}
  /\ refused = FALSE

Next ==
  Resolve \/ OnlyIpv6 \/ AddBelow \/ AddAbove \/ Narrow \/ Turn \/ Return \/ AddIpv6

-----------------------------------------------------------------------------
(* Types of the loop variables.                                            *)
TypeOK ==
  /\ i \in 1 .. count + 1
  /\ side \in {"resolve", "below", "above", "ipv6", "done"}
  /\ ip \in Address /\ start \in Address /\ ip_end \in Address
  /\ mask \in 1 .. W + 1
  /\ table \subseteq Subnet /\ before \subseteq table
  /\ table6 \in BOOLEAN /\ refused \in BOOLEAN

(* The server stays between the two frontiers, so neither wraps round, at  *)
(* address 0 and at the last address as little as between.                 *)
Bracketed ==
  /\ side \in {"below", "above"} => start <= ip
  /\ side = "above" => ip <= ip_end

(* "ip route add" takes only a base whose host bits are 0.                 *)
Aligned == \A s \in table : s.base % Size[s.mask] = 0

(* When the loops have ended, for whichever server, every address but the  *)
(* server's own lies in exactly one of the W subnets they have added.      *)
AllButServer ==
  side = "above" /\ mask > W =>
    LET added == table \ before
    IN  /\ Cardinality(added) = W
        /\ \A a \in Address :
             Cardinality({s \in added : a \in Addresses(s)}) = IF a = ip THEN 0 ELSE 1
=============================================================================
