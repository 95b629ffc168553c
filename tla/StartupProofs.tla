--------------------------- MODULE StartupProofs ---------------------------
(***************************************************************************)
(* Proofs about vpn_init, for any configuration file, any width of an      *)
(* address and any commands that fail.                                     *)
(***************************************************************************)
EXTENDS Startup, ConfProofs

RP == INSTANCE RoutesProofs WITH
  count <- Len(paths), ipv4 <- Flags[1], ipv6 <- Flags[2], up <- "up" \in device

(* Nothing of vpn_init happens before the configuration is accepted, and   *)
(* nothing changes the configuration then.                                 *)
AfterConf ==
  /\ step # "tun" => stage = "accepted"
  /\ stage = "accepted" => "address" \in texts \/ "address6" \in texts
  /\ step = "tun" => device = {} /\ table = {} /\ table6 = FALSE /\ side = "resolve"

(* A command of ifconfig runs only after those before it.                  *)
InOrder ==
  /\ step = "mtu" => "up" \in device
  /\ step \in {"address", "address6"} => {"up", "mtu"} \subseteq device
  /\ AddressedLast

(* Where route is, its flags have let it.                                  *)
FlagsHeld ==
  /\ side \in {"below", "above"} => Routing /\ "address" \in texts
  /\ side = "ipv6" => Routing /\ "address6" \in texts
  /\ FamiliesRouted

SetupInv == AfterConf /\ InOrder /\ FlagsHeld

LEMMA Followed ==
  /\ DOMAIN Following = {"up", "mtu", "address", "address6"}
  /\ Following["up"] = "mtu" /\ Following["mtu"] = "address"
  /\ Following["address"] = "address6" /\ Following["address6"] = "route"
BY DEF Following

LEMMA SetupInit == StartupInit => SetupInv
BY DEF StartupInit, Init, Rt!Init, SetupInv, AfterConf, InOrder, FlagsHeld,
       AddressedLast, FamiliesRouted, Text

(* read_conf has ended by the time the first step of vpn_init is done.     *)
LEMMA ReadConfStep == SetupInv /\ ReadConf => SetupInv'
<1> SUFFICES ASSUME SetupInv, ReadConf PROVE SetupInv'
  OBVIOUS
<1>1. stage = "reading"
  BY DEF ReadConf, Next, ServerLine, Malformed, Finish, PortLine, UserLine, ModeLine,
         TextLine, RouteLine, MtuLine
<1>2. step = "tun" /\ UNCHANGED setup
  BY <1>1 DEF ReadConf, SetupInv, AfterConf
<1>3. stage' = "accepted" => "address" \in texts' \/ "address6" \in texts'
  <2>1. CASE Finish
    BY <2>1 DEF Finish, Complete, Reject
  <2>2. CASE ~Finish
    BY <1>1, <2>2 DEF ReadConf, Next, ServerLine, Malformed, PortLine, UserLine, ModeLine,
                 TextLine, RouteLine, MtuLine, Reject, Keep
  <2>. QED  BY <2>1, <2>2
<1>. QED
  BY <1>2, <1>3 DEF SetupInv, AfterConf, InOrder, FlagsHeld, AddressedLast, FamiliesRouted,
                setup, routing

(* The commands of ifconfig.                                               *)
LEMMA IfconfigStep == SetupInv /\ Ifconfig => SetupInv'
<1> SUFFICES ASSUME SetupInv, Ifconfig PROVE SetupInv'
  OBVIOUS
<1>1. step \in {"up", "mtu", "address", "address6"} /\ stage = "accepted"
  BY Followed DEF Ifconfig, SetupInv, AfterConf
<1>2. UNCHANGED <<stage, texts, mode, route, side, table, table6>>
  BY DEF Ifconfig, vars, routing
<1>3. \/ UNCHANGED device /\ step' = "route"
      \/ device' = device \cup {step} /\ step' = Following[step]
      \/ UNCHANGED device /\ step' = Following[step] /\ step \in Text
  BY DEF Ifconfig, AfterFailure
<1>4. step' \in {"mtu", "address", "address6", "route"}
  BY <1>1, <1>3, Followed
<1>5. InOrder'
  <2>1. CASE step = "up"
    BY <1>3, <2>1, Followed DEF SetupInv, InOrder, AddressedLast, Text
  <2>2. CASE step = "mtu"
    BY <1>3, <2>2, Followed DEF SetupInv, InOrder, AddressedLast, Text
  <2>3. CASE step \in {"address", "address6"}
    BY <1>3, <2>3, Followed DEF SetupInv, InOrder, AddressedLast, Text
  <2>. QED  BY <1>1, <2>1, <2>2, <2>3
<1>6. AfterConf'
  BY <1>1, <1>2, <1>4 DEF SetupInv, AfterConf
<1>7. FlagsHeld'
  BY <1>2 DEF SetupInv, FlagsHeld, FamiliesRouted, Routing
<1>. QED  BY <1>5, <1>6, <1>7 DEF SetupInv

(* One step of route.                                                      *)
LEMMA RoutesStep == SetupInv /\ SetRoutes => SetupInv'
<1> SUFFICES ASSUME SetupInv, SetRoutes PROVE SetupInv'
  OBVIOUS
<1>1. step = "route" /\ stage = "accepted" /\ Routing
  BY DEF SetRoutes, SetupInv, AfterConf
<1>2. UNCHANGED <<stage, texts, mode, route, step, device>>
  BY DEF SetRoutes, vars
<1>3. FlagsHeld'
  <2>1. Routing'
    BY <1>1, <1>2 DEF Routing
  <2>2. ASSUME Rt!NextServer PROVE side' \in {"resolve", "done"}
    BY <2>2 DEF Rt!NextServer
  <2>3. CASE Rt!Resolve
    BY <1>1, <1>2, <2>1, <2>2, <2>3
       DEF Rt!Resolve, Flags, SetupInv, FlagsHeld, FamiliesRouted
  <2>4. CASE Rt!OnlyIpv6
    BY <1>1, <1>2, <2>1, <2>4
       DEF Rt!OnlyIpv6, Flags, SetupInv, AfterConf, FlagsHeld, FamiliesRouted
  <2>5. CASE Rt!AddBelow \/ Rt!AddAbove
    <3>1. side \in {"below", "above"} /\ UNCHANGED table6
      BY <2>5 DEF Rt!AddBelow, Rt!AddAbove, Rt!AddRoute, Rt!Fail
    <3>2. side' \in {side, "resolve", "done"}
      BY <2>2, <2>5 DEF Rt!AddBelow, Rt!AddAbove, Rt!AddRoute, Rt!Fail
    <3>. QED  BY <1>2, <2>1, <3>1, <3>2 DEF SetupInv, FlagsHeld, FamiliesRouted
  <2>6. CASE Rt!Narrow
    BY <1>2, <2>1, <2>6 DEF Rt!Narrow, SetupInv, FlagsHeld, FamiliesRouted
  <2>7. CASE Rt!Turn
    BY <1>2, <2>1, <2>7 DEF Rt!Turn, SetupInv, FlagsHeld, FamiliesRouted
  <2>8. CASE Rt!Return
    BY <1>2, <2>1, <2>2, <2>8 DEF Rt!Return, Flags, SetupInv, FlagsHeld, FamiliesRouted
  <2>9. CASE Rt!AddIpv6
    BY <1>2, <2>1, <2>2, <2>9 DEF Rt!AddIpv6, Rt!Fail, SetupInv, FlagsHeld, FamiliesRouted
  <2>. QED
    BY <2>3, <2>4, <2>5, <2>6, <2>7, <2>8, <2>9 DEF SetRoutes, Rt!Next
<1>4. AfterConf' /\ InOrder'
  BY <1>1, <1>2 DEF SetupInv, AfterConf, InOrder, AddressedLast
<1>. QED  BY <1>3, <1>4 DEF SetupInv

LEMMA SetupStep == SetupInv /\ [StartupNext]_<<vars, setup>> => SetupInv'
<1> SUFFICES ASSUME SetupInv, [StartupNext]_<<vars, setup>> PROVE SetupInv'
  OBVIOUS
<1>1. CASE TunNew
  <2>1. step' \in {"up", "exit"} /\ stage = "accepted" /\ UNCHANGED <<vars, device, routing>>
    BY <1>1 DEF TunNew
  <2>. QED
    BY <2>1 DEF SetupInv, AfterConf, InOrder, FlagsHeld, AddressedLast, FamiliesRouted,
                Routing, vars, routing
<1>2. CASE EndRoutes
  <2>1. step = "route" /\ step' = "done" /\ UNCHANGED <<vars, device, routing>>
    BY <1>2 DEF EndRoutes
  <2>. QED
    BY <2>1 DEF SetupInv, AfterConf, InOrder, FlagsHeld, AddressedLast, FamiliesRouted,
                Routing, vars, routing
<1>3. CASE UNCHANGED <<vars, setup>>
  BY <1>3 DEF SetupInv, AfterConf, InOrder, FlagsHeld, AddressedLast, FamiliesRouted,
              Routing, vars, setup, routing
<1>. QED
  BY <1>1, <1>2, <1>3, ReadConfStep, IfconfigStep, RoutesStep DEF StartupNext

(* Whichever command of ifconfig fails, no address is on the device unless *)
(* it is up and has the mtu of the configuration.                          *)
THEOREM MtuFirst == StartupSpec => []AddressedLast
<1>1. SetupInv => AddressedLast
  BY DEF SetupInv, InOrder
<1>. QED  BY <1>1, SetupInit, SetupStep, PTL DEF StartupSpec

(* For addresses of any width and any number of servers, route draws only  *)
(* the families into the tunnel that the configuration has an address of,  *)
(* and none without route=yes.                                             *)
THEOREM OnlyConfigured == StartupSpec => []FamiliesRouted
<1>1. SetupInv => FamiliesRouted
  BY DEF SetupInv, FlagsHeld
<1>. QED  BY <1>1, SetupInit, SetupStep, PTL DEF StartupSpec

-----------------------------------------------------------------------------
(* The lemmas of RoutesProofs are about the routes of Startup.             *)
LEMMA SameRoutes ==
  /\ Rt!Init <=> RP!Init
  /\ Rt!Next <=> RP!Next
  /\ Rt!TypeOK <=> RP!TypeOK
  /\ Rt!Halved <=> RP!Halved
  /\ Rt!AllButServer <=> RP!AllButServer
<1>1. Rt!Init <=> RP!Init
  BY DEF Rt!Init, RP!Init
<1>2. (Rt!TypeOK <=> RP!TypeOK) /\ (Rt!Halved <=> RP!Halved)
  BY DEF Rt!TypeOK, RP!TypeOK, Rt!Halved, RP!Halved, Rt!Address, RP!Address, Rt!Subnet, RP!Subnet
<1>3. Rt!Next <=> RP!Next
  BY DEF Rt!Next, RP!Next, Rt!Resolve, RP!Resolve, Rt!OnlyIpv6, RP!OnlyIpv6,
         Rt!AddBelow, RP!AddBelow, Rt!AddAbove, RP!AddAbove, Rt!Narrow, RP!Narrow,
         Rt!Turn, RP!Turn, Rt!Return, RP!Return, Rt!AddIpv6, RP!AddIpv6,
         Rt!NextServer, RP!NextServer, Rt!AddRoute, RP!AddRoute, Rt!Fail, RP!Fail, Rt!Below, RP!Below,
         Rt!Above, RP!Above, Rt!Top, RP!Top, Rt!locals, RP!locals, Rt!Address, RP!Address
<1>4. Rt!AllButServer <=> RP!AllButServer
  BY DEF Rt!AllButServer, RP!AllButServer, Rt!Address, RP!Address, Rt!Addresses, RP!Addresses,
         Rt!Cardinality, RP!Cardinality
<1>. QED  BY <1>1, <1>2, <1>3, <1>4

(* The routes are as route left them: untouched until ifconfig has ended.  *)
RoutesHeld ==
  /\ step \notin {"route", "done", "exit"} => Rt!Init
  /\ stage = "accepted" => RP!RouteInv
  /\ step = "done" /\ Routing => side = "done"

StepTypes ==
  /\ step \in {"tun", "up", "mtu", "address", "address6", "route", "done", "exit"}
  /\ device \subseteq {"up", "mtu", "address", "address6"}

WholeInv == ReadInv /\ SetupInv /\ StepTypes /\ RoutesHeld

(* An accepted configuration has the servers that the routes are for.      *)
LEMMA GivenHeld == ReadInv /\ stage = "accepted" => RP!Given
<1> SUFFICES ASSUME ReadInv, stage = "accepted" PROVE RP!Given
  OBVIOUS
<1>1. RP!Halved
  BY StartupAssumption, SameRoutes
<1>2. Len(paths) \in Nat \ {0}
  BY ConfAssumption DEF ReadInv, Usable
<1>. QED  BY <1>1, <1>2 DEF RP!Given

LEMMA WholeInit == StartupInit => WholeInv
<1> SUFFICES ASSUME StartupInit PROVE WholeInv
  OBVIOUS
<1>1. ReadInv /\ SetupInv
  BY ReadInit, SetupInit DEF StartupInit
<1>2. stage = "reading" /\ step = "tun" /\ device = {} /\ Rt!Init
  BY DEF StartupInit, Init
<1>. QED  BY <1>1, <1>2 DEF WholeInv, StepTypes, RoutesHeld

(* To Conf, whatever vpn_init does is no step.                             *)
LEMMA ConfSteps == StartupNext => [Next]_vars
BY DEF StartupNext, ReadConf, TunNew, Ifconfig, SetRoutes, EndRoutes

LEMMA TypesStep == SetupInv /\ StepTypes /\ [StartupNext]_<<vars, setup>> => StepTypes'
<1> SUFFICES ASSUME StepTypes, [StartupNext]_<<vars, setup>> PROVE StepTypes'
  OBVIOUS
<1>1. CASE Ifconfig
  <2>1. /\ step \in {"up", "mtu", "address", "address6"}
        /\ step' \in {Following[step], "route"} /\ device' \subseteq device \cup {step}
    BY <1>1, Followed DEF Ifconfig, AfterFailure
  <2>2. Following[step] \in {"mtu", "address", "address6", "route"}
    BY <2>1, Followed
  <2>. QED  BY <2>1, <2>2 DEF StepTypes
<1>2. CASE ReadConf \/ TunNew \/ SetRoutes \/ EndRoutes \/ UNCHANGED <<vars, setup>>
  BY <1>2 DEF StepTypes, ReadConf, TunNew, SetRoutes, EndRoutes, setup
<1>. QED  BY <1>1, <1>2 DEF StartupNext

(* Before the routes there is nothing to keep but their initial values.    *)
LEMMA UntouchedStep ==
  ASSUME ReadInv', Rt!Init, UNCHANGED routing
  PROVE  Rt!Init' /\ (stage' = "accepted" => RP!RouteInv')
<1>1. Rt!Init'
  BY DEF Rt!Init, routing
<1>2. RP!Init'
  BY <1>1, SameRoutes, PTL
<1>3. (RP!Given /\ RP!Init => RP!RouteInv)'
  BY RP!RouteInit, PTL
<1>4. (ReadInv /\ stage = "accepted" => RP!Given)'
  BY GivenHeld, PTL
<1>. QED  BY <1>1, <1>2, <1>3, <1>4

LEMMA RoutesHeldStep ==
  ASSUME WholeInv, [StartupNext]_<<vars, setup>>, ReadInv', SetupInv'
  PROVE  RoutesHeld'
<1>1. CASE ReadConf
  <2>1. stage = "reading" /\ UNCHANGED setup
    BY <1>1 DEF ReadConf, Next, ServerLine, Malformed, Finish, PortLine, UserLine, ModeLine,
           TextLine, RouteLine, MtuLine
  <2>2. step = "tun" /\ step' = "tun" /\ Rt!Init /\ UNCHANGED routing
    BY <2>1 DEF WholeInv, SetupInv, AfterConf, RoutesHeld, setup
  <2>. QED  BY <2>2, UntouchedStep DEF RoutesHeld
<1>2. CASE TunNew \/ Ifconfig
  <2>1. /\ step \in {"tun", "up", "mtu", "address", "address6"}
        /\ step' # "done" /\ UNCHANGED routing
    BY <1>2, Followed DEF TunNew, Ifconfig, AfterFailure
  <2>2. Rt!Init
    BY <2>1 DEF WholeInv, RoutesHeld
  <2>. QED  BY <2>1, <2>2, UntouchedStep DEF RoutesHeld
<1>3. CASE SetRoutes
  <2>1. /\ step = "route" /\ step' = "route" /\ stage = "accepted" /\ stage' = "accepted"
        /\ Rt!Next /\ UNCHANGED <<paths, texts, device>>
    BY <1>3 DEF SetRoutes, vars, WholeInv, SetupInv, AfterConf
  <2>2. RP!Next /\ RP!Given /\ RP!RouteInv
    BY <2>1, SameRoutes, GivenHeld DEF WholeInv, RoutesHeld
  <2>3. RP!Fixed
    BY <2>1 DEF RP!Fixed, Flags
  <2>4. RP!RouteInv'
    BY <2>2, <2>3, RP!RouteNext
  <2>. QED  BY <2>1, <2>4 DEF RoutesHeld
<1>4. CASE EndRoutes
  <2>1. /\ step = "route" /\ step' = "done" /\ (Routing => side = "done")
        /\ UNCHANGED <<vars, device, routing>>
    BY <1>4 DEF EndRoutes
  <2>2. stage = "accepted" /\ RP!RouteInv
    BY <2>1 DEF WholeInv, SetupInv, AfterConf, RoutesHeld
  <2>3. RP!Fixed /\ UNCHANGED <<i, side, table, table6, refused, RP!locals>>
    BY <2>1 DEF RP!Fixed, RP!locals, Flags, vars, routing
  <2>4. RP!RouteInv'
    BY <2>2, <2>3, RP!RouteKept
  <2>5. Routing' => side' = "done"
    BY <2>1 DEF Routing, vars, routing
  <2>. QED  BY <2>1, <2>4, <2>5 DEF RoutesHeld
<1>5. CASE UNCHANGED <<vars, setup>>
  <2>1. RP!Fixed /\ UNCHANGED <<i, side, table, table6, refused, RP!locals>>
    BY <1>5 DEF RP!Fixed, RP!locals, Flags, vars, setup, routing
  <2>2. RP!RouteInv => RP!RouteInv'
    BY <2>1, RP!RouteKept
  <2>3. Rt!Init => Rt!Init'
    BY <1>5 DEF Rt!Init, setup, routing
  <2>4. UNCHANGED <<stage, step, side, mode, route>>
    BY <1>5 DEF vars, setup, routing
  <2>. QED  BY <2>2, <2>3, <2>4 DEF WholeInv, RoutesHeld, Routing
<1>. QED  BY <1>1, <1>2, <1>3, <1>4, <1>5 DEF StartupNext

LEMMA WholeStep == WholeInv /\ [StartupNext]_<<vars, setup>> => WholeInv'
<1> SUFFICES ASSUME WholeInv, [StartupNext]_<<vars, setup>> PROVE WholeInv'
  OBVIOUS
<1>1. ReadInv'
  BY ConfSteps, ReadStep DEF WholeInv, vars
<1>2. SetupInv' /\ StepTypes'
  BY SetupStep, TypesStep DEF WholeInv
<1>3. RoutesHeld'
  BY <1>1, <1>2, RoutesHeldStep
<1>. QED  BY <1>1, <1>2, <1>3 DEF WholeInv

-----------------------------------------------------------------------------
(* vpn_init changes nothing of the configuration it was given: what        *)
(* ConfProofs proves of read_conf and parse_args holds throughout.         *)
THEOREM ConfKept == StartupSpec => Spec
<1>1. StartupInit => Init
  BY DEF StartupInit
<1>2. [StartupNext]_<<vars, setup>> => [Next]_vars
  BY ConfSteps DEF vars
<1>. QED  BY <1>1, <1>2, PTL DEF StartupSpec, Spec

LEMMA Whole == StartupSpec => []WholeInv
BY WholeInit, WholeStep, PTL DEF StartupSpec

(* The types of vpn_init and of the loops of route, for any number of      *)
(* servers and any width of an address.                                    *)
THEOREM SetupTyping == StartupSpec => []SetupTypeOK
<1>1. WholeInv => SetupTypeOK
  <2> SUFFICES ASSUME WholeInv PROVE SetupTypeOK
    OBVIOUS
  <2>1. step \in DOMAIN Following \cup {"tun", "route", "done", "exit"}
    BY Followed DEF WholeInv, StepTypes
  <2>2. device \subseteq DOMAIN Following
    BY Followed DEF WholeInv, StepTypes
  <2>3. CASE stage = "accepted"
    <3>1. RP!TypeOK
      BY <2>3 DEF WholeInv, RoutesHeld, RP!RouteInv
    <3>. QED  BY <2>1, <2>2, <3>1, SameRoutes DEF SetupTypeOK
  <2>4. CASE stage # "accepted"
    <3>1. Rt!Init
      BY <2>4 DEF WholeInv, SetupInv, AfterConf, RoutesHeld
    <3>2. /\ W \in Nat \ {0} /\ Size[0] \in Nat \ {0} /\ Len(paths) \in Nat
      BY StartupAssumption DEF Rt!Halved, WholeInv, ReadInv, TypeOK
    <3>3. 0 \in Rt!Address /\ 1 \in 1 .. W + 1 /\ 1 \in 1 .. Len(paths) + 1
      BY <3>2 DEF Rt!Address
    <3>4. table6 \in BOOLEAN /\ refused \in BOOLEAN /\ table \subseteq Rt!Subnet /\ before \subseteq table
      BY <3>1 DEF Rt!Init
    <3>5. Rt!TypeOK
      BY <3>1, <3>3, <3>4 DEF Rt!TypeOK, Rt!Init
    <3>. QED  BY <2>1, <2>2, <3>5 DEF SetupTypeOK
  <2>. QED  BY <2>1, <2>2, <2>3, <2>4 DEF SetupTypeOK
<1>. QED  BY <1>1, Whole, PTL

(* The loops of route run after the configuration is accepted.             *)
LEMMA LoopsAfterConf ==
  WholeInv => (stage = "accepted" \/ (table = {} /\ side = "resolve"))
BY DEF WholeInv, SetupInv, AfterConf

(* Whatever the server's address, it stays between the frontiers of the    *)
(* two loops, and neither wraps round, in 32 bits as in 4.                 *)
THEOREM ServerBracketed == StartupSpec => []Bracketed
<1>1. WholeInv => Bracketed
  <2> SUFFICES ASSUME WholeInv PROVE Bracketed
    OBVIOUS
  <2>1. CASE stage = "accepted"
    BY <2>1, GivenHeld, RP!RouteBracketed
       DEF WholeInv, RoutesHeld, RP!Bracketed, Rt!Bracketed, Bracketed
  <2>2. CASE side = "resolve"
    BY <2>2 DEF Bracketed, Rt!Bracketed
  <2>. QED  BY <2>1, <2>2, LoopsAfterConf
<1>. QED  BY <1>1, Whole, PTL

(* Every subnet route hands to "ip route add" begins at a multiple of its  *)
(* size.                                                                   *)
THEOREM BasesAligned == StartupSpec => []Aligned
<1>1. WholeInv => Aligned
  <2> SUFFICES ASSUME WholeInv PROVE Aligned
    OBVIOUS
  <2>1. CASE stage = "accepted"
    BY <2>1, GivenHeld, RP!RouteAligned
       DEF WholeInv, RoutesHeld, RP!Aligned, Rt!Aligned, Aligned
  <2>2. CASE table = {}
    BY <2>2 DEF Aligned, Rt!Aligned
  <2>. QED  BY <2>1, <2>2, LoopsAfterConf
<1>. QED  BY <1>1, Whole, PTL

(* When both loops end, every address but the server's is routed, by       *)
(* exactly one of as many subnets as an address has bits.                  *)
THEOREM EveryOtherRouted == StartupSpec => []AllButServer
<1>1. WholeInv => AllButServer
  <2> SUFFICES ASSUME WholeInv PROVE AllButServer
    OBVIOUS
  <2>1. CASE stage = "accepted"
    <3>1. RP!AllButServer
      BY <2>1, GivenHeld, RP!RouteAllButServer DEF WholeInv, RoutesHeld
    <3>. QED  BY <3>1, SameRoutes DEF AllButServer
  <2>2. CASE side = "resolve"
    BY <2>2 DEF AllButServer, Rt!AllButServer
  <2>. QED  BY <2>1, <2>2, LoopsAfterConf
<1>. QED  BY <1>1, Whole, PTL

(* The IPv6 route is there when vpn_init has ended, even if the IPv4       *)
(* routes of some servers were cut short by those of others; what the host *)
(* refuses for other reasons may leave it out.                             *)
THEOREM Ipv6Follows == StartupSpec => []Ipv6Routed
<1>1. WholeInv => Ipv6Routed
  <2> SUFFICES ASSUME WholeInv, step = "done", Routing, ~refused, "up" \in device, "address6" \in texts,
                      "address" \in texts => table # {}
      PROVE  table6
    BY DEF Ipv6Routed
  <2>1. side = "done" /\ RP!RouteInv
    BY DEF WholeInv, RoutesHeld, SetupInv, AfterConf
  <2>. QED  BY <2>1, RP!RouteIpv6 DEF Flags
<1>. QED  BY <1>1, Whole, PTL
=============================================================================
