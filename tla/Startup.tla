------------------------------- MODULE Startup -------------------------------
(***************************************************************************)
(* From the configuration to the host: what Conf accepts, vpn_init         *)
(* (src/src/vpn.c) sets up: the tun device (src/src/tunif.c), its mtu and  *)
(* addresses by ifconfig, and for a client with route=yes the routes of    *)
(* module Routes.  ifconfig ends at the first command that fails, and      *)
(* vpn_init goes on regardless.  What vpn_init does then, NAT for a server *)
(* and the privileges, is in Lifecycle.                                    *)
(***************************************************************************)
EXTENDS Conf

CONSTANTS W, Size   \* bits of an address and sizes of subnets, see Routes

VARIABLES
  step,    \* of vpn_init: "tun", a command of ifconfig, "route"; "done" or
           \* "exit"
  device,  \* host: the commands that took effect
  i, side, ip, start, ip_end, mask, table, table6, before, refused  \* see Routes

routing == <<i, side, ip, start, ip_end, mask, table, table6, before, refused>>
setup == <<step, device, routing>>

(* Faulty variant: the two flags of route in the other order.              *)
FlagsSwapped == <<"address6" \in texts, "address" \in texts>>

(* The arguments ipv4 and ipv6 of route: conf->address[0] and address6[0]. *)
Flags == <<"address" \in texts, "address6" \in texts>>

Rt == INSTANCE Routes WITH
  count <- Len(paths), ipv4 <- Flags[1], ipv6 <- Flags[2], up <- "up" \in device

ASSUME StartupAssumption == Rt!Halved

-----------------------------------------------------------------------------
ReadConf == Next /\ UNCHANGED setup

(* open and TUNSETIFF; if one fails, or crypto_init has, the program ends. *)
TunNew ==
  /\ stage = "accepted" /\ step = "tun"
  /\ step' \in {"up", "exit"}
  /\ UNCHANGED <<vars, device, routing>>

(* The commands of ifconfig, in their order.                               *)
Following == [up |-> "mtu", mtu |-> "address", address |-> "address6", address6 |-> "route"]

(* Faulty variant: a command that fails is passed over.                    *)
FailurePassed == Following[step]

(* shell: ifconfig returns, and vpn_init goes on to the routes.            *)
AfterFailure == "route"

(* A command runs, unless it is for an address that is not configured.     *)
Ifconfig ==
  /\ step \in DOMAIN Following
  /\ \/ /\ step \in Text \ texts
        /\ step' = Following[step]
        /\ UNCHANGED device
     \/ /\ step \notin Text \ texts
        /\ \/ device' = device \cup {step} /\ step' = Following[step]
           \/ UNCHANGED device /\ step' = AfterFailure
  /\ UNCHANGED <<vars, routing>>

Routing == mode = 2 /\ route

SetRoutes ==
  /\ step = "route" /\ Routing
  /\ Rt!Next
  /\ UNCHANGED <<vars, step, device>>

EndRoutes ==
  /\ step = "route"
  /\ Routing => side = "done"
  /\ step' = "done"
  /\ UNCHANGED <<vars, device, routing>>

StartupInit ==
  /\ Init
  /\ step = "tun"
  /\ device = {}
  /\ Rt!Init

StartupNext == ReadConf \/ TunNew \/ Ifconfig \/ SetRoutes \/ EndRoutes

StartupSpec == StartupInit /\ [][StartupNext]_<<vars, setup>>

-----------------------------------------------------------------------------
(* Types of what vpn_init and the loops of route work on.                  *)
SetupTypeOK ==
  /\ step \in DOMAIN Following \cup {"tun", "route", "done", "exit"}
  /\ device \subseteq DOMAIN Following
  /\ Rt!TypeOK

(* The server stays between the two frontiers of route's loops: neither    *)
(* wraps round.                                                            *)
Bracketed == Rt!Bracketed

(* "ip route add" takes only a base whose host bits are 0.                 *)
Aligned == Rt!Aligned

(* A call of route that is not cut short routes every address but its      *)
(* server's, each once.                                                    *)
AllButServer == Rt!AllButServer

(* An address appears on the device, and with it traffic, only when its    *)
(* mtu is the one tun_read has a buffer for, whichever command fails.      *)
AddressedLast == device \cap Text # {} => {"up", "mtu"} \subseteq device

(* Traffic of a family is drawn into the tunnel only if the client was     *)
(* given an address of that family, and route=yes.                         *)
FamiliesRouted ==
  /\ table # {} => Routing /\ "address" \in texts
  /\ table6 => Routing /\ "address6" \in texts

(* IPv6 traffic then is drawn into it, if the device came up and some      *)
(* server's name was resolved, however the IPv4 routes of the other        *)
(* servers ended: a route that is there already costs a server its own     *)
(* routes only.  A refusal for the host's own reasons may cost the IPv6    *)
(* route too.                                                              *)
Ipv6Routed ==
  /\ step = "done" /\ Routing /\ ~refused
  /\ "up" \in device /\ "address6" \in texts
  /\ "address" \in texts => table # {}
  => table6
=============================================================================
