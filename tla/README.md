# A TLA+ verification of muon

muon is a VPN in C: a client and a server, each with a tun device, exchange
encrypted UDP datagrams. The client changes ("hops") the server port and its own
socket every half second; several servers may be configured as paths of one tunnel.
Everything after startup runs in one thread of cooperative libmill coroutines,
sharing one structure `ctx`. This directory models that program, checks the models
with TLC, and proves theorems about them with TLAPS. Line numbers are of `src/src/`.

## The system

| Component | State | Operations | Hard behaviour | What makes it correct |
|---|---|---|---|---|
| tunnel (`vpn.c`) | `ctx.paths[]`: alive, token, sock, remote, valid_tokens; one coroutine per socket | client_hop starts workers, udp_worker receives until its deadline, heartbeat speaks and runs `alive` down, tun_worker / udp_sender send | interleaving at every yield; lost, late, repeated datagrams; deadlines; restarts of one side; slow name resolution; failing bind | only what was read is written; key, socket and peer of a path fit together; dead paths are found; the two sides find each other again |
| multipath rotation (`udp_sender`) | static `path` | one loop per packet | paths come and go between packets; no path alive | no starvation; drops only when nothing is alive |
| process lifecycle (`main.c`, `utils.c`, `vpn.c`) | `ctx.running`, effective user, the host's iptables | daemonize, signals, vpn_init, nat on/off, runas, vpn_run, vpn_stop | signal at any point, crash, a command that fails midway, a second start | nothing is forwarded unmasked; the administrator's rules outlive muon; a stop stops |
| datagram format (`encapsulate.c`, `crypto.c`, `compress.c`) | a pbuf | compress, pad, encrypt; back | lengths at the edges of mtu and buffers; unequal mtus | what fits arrives with its length |
| configuration (`conf.c`) | `conf_t` | one line at a time, then parse_args' checks | order of lines; bounds; the array of paths | what is accepted meets the others' assumptions |
| client routes (`utils.c` route) | the host's routing table | two loops of `ip route add` per server | unsigned bounds; a second server; a refused command | all addresses but the server's, each once |
| interface setup (`tunif.c` tun_new, `utils.c` ifconfig) | the host's device | four commands | a command that fails midway | no address before the mtu; families routed as configured |
| one-time tokens (`totp.c`) and keepalive (`vpn.c` heartbeat) | a clock on each side, valid_tokens, alive | totp, the window of slots, the random period | clocks that differ, stale windows, late datagrams, lost heartbeats | a fresh token is in the window (but for one gap, see below); a live path is never given up, a dead one is |
| counters, tun read and write, log | - | - | - | not modelled (see below) |

The components interact by calls and shared state only: `main` reads the
configuration, calls `vpn_init` (device, addresses, routes, NAT, privilege) and `vpn_run`, which starts
the coroutines; signal handlers set `ctx.running`. The tunnel calls the datagram
functions with the token of the path. The two processes interact by datagrams.

## Modules

| Module | Models | Composition |
|---|---|---|
| `PathRing` | the ring of paths; `Chosen`, the path a packet goes to | used by the next two and by Vpn |
| `PathSelect` | abstract: the rotation, one packet a step, while paths go up and down | EXTENDS PathRing |
| `PathLoop` | the loop of udp_sender, turn by turn | EXTENDS PathRing, implements PathSelect (`P == INSTANCE PathSelect`) |
| `Tunnel` | abstract: two tun devices; a packet written to one was read from the other | |
| `Vpn` | client, server and network | EXTENDS PathRing, implements Tunnel (`T == INSTANCE Tunnel`) |
| `MCVpn` | symmetry of the client's socket addresses, for TLC | EXTENDS Vpn |
| `Lifecycle` | the process from `main` to exit, repeatedly, on one host | |
| `Encap` | lengths of one packet on its way | |
| `Conf` | read_conf and parse_args | its `Usable` is the assumption on the constants of Vpn and Encap |
| `Routes` | route, for every server in turn | |
| `Startup` | vpn_init from the accepted configuration to the routes: tun_new, ifconfig, route | EXTENDS Conf; composes Routes (`Rt == INSTANCE Routes WITH ...`), whose flags and servers are those Conf accepted |
| `MCStartup` | the sizes of subnets as powers of 2, for TLC | EXTENDS Startup |
| `MCTiming` | two differences of the clocks, for TLC | EXTENDS Timing |
| `Detector` | abstract: a failure detector with a shortest and a longest silence | |
| `Timing` | the clocks of one path: slots, windows, heartbeats, ttl, deadlines, delays | implements Detector once for each side |
| `PathLoopProofs`, `VpnProofs`, `EncapProofs`, `ConfProofs`, `TimingProofs`, `LifecycleProofs` | theorems | EXTENDS the module they are about |
| `RoutesProofs` | lemmas about the loops of route | EXTENDS Routes |
| `StartupProofs` | theorems about Startup | EXTENDS Startup and ConfProofs; uses the lemmas on Startup's routes (`RP == INSTANCE RoutesProofs WITH ...`) |

Definitions called "Faulty variant" are not part of a specification. Each is a
plausible bug; put in the place of the definition that follows it, it breaks the
property `PROJECT.json` lists it with ("mutants").

### Vpn: state and actions

`alive`, `token`, `sock`, `remote` are the fields of `ctx.paths[]` of each process.
`worker` gives for each client socket the udp_worker that owns it: a value other than
None means the socket is open. `port` is the udp_worker of each server port; `valid`
the set held by `valid_tokens`; `cur` the static variable of udp_sender; `hop` where
client_hop's loop stands; `resolving` the workers blocked in ipremote. A server's
"sock" is the offset of the port, a client's is the address its socket is bound to;
a client's "remote" is the offset of the server port.

| Action | Code |
|---|---|
| `Hop` | one turn of client_hop's loop and udp_worker to its first udprecv (or to ipremote), 257-307 |
| `Resolve` | ipremote returns, the rest of a worker's start, 290-307 |
| `WorkerTimeout` | the deadline, udpclose, 342-345, 401 |
| `ServerWorker` | vpn_run starts the worker of the next port, 155-164, 293-307 |
| `ClientRecv`, `ServerRecv` | a valid datagram, 311-400 |
| `Discard` | any other end of a datagram: lost, closed port, token not valid, wrong key |
| `Heartbeat` | one round of heartbeat, 409-446 |
| `TunRead` | tun_read and udp_sender, 230-254, 451-481; its failed assertion ends the process |
| `Restart` | a process ends in whatever way and starts with empty memory |

Abstractions:

- A step is what a coroutine does between two yields. A worker whose server is given
  by address does not yield before udprecv; a host name (`"dns" \in Faults`) does.
- totp is an arbitrary token, and each heartbeat round of the server chooses an
  arbitrary window plus token 0: slot 1 of valid_tokens is never assigned and holds 0.
- Every path has the same number of ports.
- encapsulate and decapsulate are reduced to the key: a datagram is accepted under
  the token it was made with. Module Encap has the rest.
- The system does not give a new socket a port that a datagram in flight or the
  server still names (`Fresh`). A datagram to a closed socket is lost.
- Sending through a socket already freed may use any open socket (`Sources`).
- Time is only the order of steps; the deadline of a socket is counted in hops of its
  path (`Life`; ten in the code), the ttl in heartbeats (`TTL`; five in the code).
  Dividing both clocks this way assumes that client_hop is not overtaken by the
  deadline by more than one hop, which `udp_worker(…, 5 * 1000)` against a period of
  500 ms gives.

### PathLoop

`path` is the static variable of udp_sender and `last` its local one; `Enter` is the arrival of a
packet, `Turn` one turn of the loop. udp_sender does not yield, so paths come and go only outside
of the loop. To PathSelect the static variable is `Resting`: while the loop runs, what the packet
found there; it changes in the turn that ends the loop. Vpn takes that one step for the whole loop.

### Lifecycle

`phase` is the place in `main`; each iptables command is a step of its own, since
signals, crashes and failures come between them. `rules` counts copies of each rule
on the host, and survives the process. `asked` remembers in which phase a stop signal
was handled. A runas that fails, or finds no such user and returns 0, is only logged; so both
outcomes are possible when privilege is dropped and when it is regained for nat(address, 0)
(`BackToRoot`), whose commands a user is then refused. The tables begin with any number of
copies, up to `Foreign`, of any of the six rules (`before`): of those muon adds, from an
earlier muon or the administrator, and of "-s A ! -d A -j MASQUERADE", which muon never adds
and yet deletes first.

### Timing

Vpn has the order of things and Timing their durations. All durations are constants in
one unit, in the code the millisecond; the state holds ages (`hop`, `since`, the
age of a datagram and of the hop its token and its client socket come from), and `Tick`
makes everything one unit older.

| Action | Code |
|---|---|
| `Hop` | client_hop every TOTP_STEP: a new token, a new socket, 257-269 |
| `Heartbeat` | a round of heartbeat, `MinBeat` to `MaxBeat` after the last: the server's window is computed anew, a heartbeat is sent, alive runs down, 406-447 |
| `SendPacket` | udp_sender on a path that is alive, 451-481 |
| `Arrive` | a datagram reaches udp_worker, or the network repeats it: the check against valid_tokens, the learnt address, alive = 5, 311-400 |
| `Stop` | the client ends |
| `Tick` | time passes until the next timer or arrival is due |

`ValidToken` compares slots: the token of a hop is the slot of the client's clock at that
hop, the window the slots around the server's clock at its last round. A round calls totp 39
times (413-424), for the slots 0 to 19 and then -1 to -19 from the current one, and each call
reads the clock (`totp.c:36`). So a slot may begin between two calls. `straddle` is the number
of calls made before it, and the calls from there on count from the new slot (`ReadSlot`). If
it begins among the calls for 0 to 19, the slot between the two halves is in neither (`LeftOut`);
if it begins after the first of them, that is the slot just begun. It stays out until the next
round, 333 to 665 ms later. Two slots with the
same hash only widen the window, and so does element 1 of valid_tokens, which is never
written; a range of 0, where every token is 0, has nothing to check.

Abstractions: one path; a timer is never late (a coroutine that computes for long would
delay all of them); the clocks run at one speed and are never set; the client's clock
is at most `Behind` the server's or `Ahead` of it, and `Clocks` are the differences, and the places
in a slot at which the client starts, that are looked at. The server runs all the time and the client from its start to
`Stop`; the restart of either, with what is remembered, is in Vpn. The network loses heartbeats
as it likes, but more than `MaxLost` in a row set `cut`, after which `StaysAlive`
promises nothing; and so does a datagram turned away for the slot left out. A packet that is lost is one that was not sent.

Three named assumptions say which constants are good; the instance of the run and
the code both satisfy them:

| Assumption | Of the code (500, 333..665, 5, 5000, 19) | For |
|---|---|---|
| `ClocksAgree` | a client's clock up to 8834 ms ahead, or 9000 ms less the delay behind | `FreshAccepted` |
| `SocketsOutlast` | a delay of at most 587 ms | `RepliesHeard` |
| `HeardInTime` | no heartbeat lost and a delay below 667 ms; or one lost, and a delay below 2 ms | `StaysAlive` |

So a single heartbeat lost on a link of ordinary delay may, with the worst periods, take an
idle path down until the next one arrives: four short periods of the one side are 1332 ms,
two long ones of the other 1330 ms. Nothing in the repository promises more. A silent peer is
given up 1332 to 3325 ms after its last datagram (`DetectorSpec`).

### Encap, Conf, Startup, Routes

`Encap` has one action per side of the wire, and nondeterministic padding and
compression; `sealed` is the length the cipher is given. `Conf` has one action per kind
of line; an accepted line is stored, a refused one ends the program. A port line before
any server line writes `conf->paths[-1]`, which in memory is the second half of
`conf->user`: a name that reaches so far is changed ("mixed"). A name of 16 characters or
more is cut to 15 without a word (`Stored`, "cut").

`Startup` begins where `Conf` has accepted. Each command of ifconfig is a step that succeeds or
fails; the macro `shell` returns at the first that fails, and vpn_init goes on to the routes
regardless. `device` is the set of commands that took effect. `Routes` has one action per
iteration of each loop and per command; it only reads the number of servers, the two flags and
whether the device is up. Any command may be refused: because muon has added the route already, because the
device is down, or for a reason of the host's own (a default route it has, IPv6 switched off), which
`refused` remembers. Addresses have `W` bits and the products `2 * W`, as 32 and 64 in
the code. `Size[mask]` stands for `1 << (W - mask)`. It is a constant, and what is assumed of it
(`Halved`) is the two rules by which powers of 2 are defined: 1 for the longest mask, and twice as much for
each bit less. Nothing else has that property; `MCStartup` gives TLC the powers. What vpn_init does after that, for a server instead of the routes, is in `Lifecycle`.

## Runs

| Run | Instance | Shows |
|---|---|---|
| rotation | 5 paths, all subsets alive | the loop implements PathSelect (`SelectSpec`) and ends within a round (`RoundEnds`); `NoStarvation`; `DropOnlyWhenAllDead` |
| hop | 1 path, 2 ports, 3 sockets, 2 datagrams in flight, 1 restart | `ClientSockCurrent`, `ServerPeerCoherent`, `KeysMatch`, `AliveCanSend`, refinement of Tunnel |
| paths | 2 paths, 1 port, 3 sockets, 1 restart, fairness of the coroutines | `SenderHasSocket`, `ClientSockCurrent` with failover; `SilentPathDies` |
| faults | 1 path, 2 ports, 2 sockets, 1 datagram in flight, host names, failing binds, aborts, 1 restart | `ServerPeerCoherent`, `PortKeys` and the refinement survive all of these |
| rejoin | fairness of coroutines and network, 1 port, 1 restart | `Rejoin`; with one port the token is always valid, so this run says nothing of tokens |
| lifecycle | 2 starts, up to one copy of each of the six rules before, failing commands, runas failing either way | `ForwardedMasked`, `ForeignRulesKept`, `StopWhileRunning` |
| lengths | mtu 2048 against 1024; lengths round each step of the padding and round the receiver's mtu | `Fits`, `AllSealed`, `PaddingExpendable` |
| startup | 2 paths, values on both sides of each bound; any command of ifconfig and route is refused; every pair of servers of 3 bits | `Usable`, `Settled`, `UserKept`; `AddressedLast`, `FamiliesRouted`, `Ipv6Routed`; `Bracketed`, `Aligned`, `AllButServer` |
| timing | a slot of 2 ticks, periods of 1 or 2, delays up to 1, the clocks 1 tick apart either way with the client's start where it costs most, every place at which a slot may begin in a round | `FreshAccepted`, `RepliesHeard`, `StaysAlive`, refinement of Detector for both sides |

Bounds. `MaxInFlight` and `MaxRestarts` cap the network and the restarts; two
datagrams are enough for one to overtake the other, and one restart for either side to
meet a peer that remembers it. Three sockets let an old, a current and a new one
coexist, so a hop always finds a free address (`Life` is 1). Two ports distinguish
a right key from a wrong one. `TTL` is 1, so that paths die early
and often, and 2 in `rejoin`. In `timing` the constants stand in the relations of the
three assumptions with almost nothing to spare (a `Window` of 1, or clocks 2 ticks apart either way, break
`FreshAccepted`), and one datagram is under way besides heartbeats. Three bits of address have
servers at both ends, next to them, and inside. Liveness runs use no symmetry. The theorems hold without these bounds.

Fairness. `Fairness` is weak fairness of heartbeat, client_hop, deadlines and the
server's start: each is a timer or a loop of a coroutine, and the scheduler of libmill
runs every coroutine that is ready. Nothing is asked of the tun device, of signals or
of the network for `SilentPathDies`. `Rejoin` needs a network that is not cut for
ever: `NetFairness` says that heartbeats sent again and again get through again
and again, and before the socket they came from is closed; it also asks that no
datagram stays for ever. `StopWhileRunning` needs only that `main` runs on.

### Where the code does otherwise

Three runs show a statement of the repository that the code does not keep:

- `dns`: the assertion of udp_sender (`vpn.c:469`) fails when a packet is read before
  the name of the server is resolved.
- `nat_undone`: "turn off nat" (`vpn.c:179`) deletes the MASQUERADE rule by other words
  than it was added with; the command fails and the remaining rules stay too.
- `stop_honoured`: a stop signal (the unit's `KillSignal=SIGINT`) during vpn_init is
  overwritten by `ctx.running = 1` (`vpn.c:173`).

Four more were met while modelling, and have no run:

- The daemon detaches before initialization (`main.c:53`), not after it (`conf.c:42`).
- Mtus of 2049 to 2052 are accepted (`conf.c:201`) but do not fit the payload buffer:
  with `SendMtu = 2050`, `RoundTrip` of Encap fails.
- A round of heartbeat during which a slot begins may leave the current slot, or one to come, out of
  valid_tokens (`vpn.c:413-418`, `totp.c:36`): a client with an exact clock is then turned away until the next
  round. `FreshAccepted` without its second half fails for this.
- With `route=yes` and several servers, each server's routes cover the other servers
  (`vpn.c:109`): in Routes, a subnet of the first server holds the second.

## Proofs

All eight proof modules are checked to the last leaf; they assume the named assumptions
of the modules they extend, for any value of the constants.

- `PathLoopProofs`: `LoopImplements` is the refinement: the last turn of the loop is PathSelect's
  SendPacket, every other turn a stutter. It rests on `LoopInv`: no path between where the loop began
  and where it stands is alive, so the path it ends on is the nearest alive one. `RoundBounded`
  and `DropsOnlyDead` follow from the same invariant. `Rotation` is proved of PathSelect and
  carried over, by `WaitBound` (`WaitBounded`): the packets a path has waited for plus the steps
  to it never exceed a round. NoStarvation alone is not inductive, for it forgets where
  the static variable is.
- `VpnProofs`: `Typing` is type correctness, strengthened by `Addressed` (a path with a
  socket has a remote address), without which a heartbeat could send to nowhere.
  `Implements` is the refinement: `Sent` (what is in flight was read by the sender's
  side) makes each write a step of Tunnel and each other step a Read or a stutter; it
  holds under all faults. So does `PeerComplete`: `ServerPeerCoherent` is inductive on top of the
  types, since a new worker of the server clears alive before it changes the socket.
  Two more facts hold under all faults, by `FaultInv`, which adds to it that a client path with a
  socket has the token of its remote port beside it (`ClientPaired`): `PortKeysAgree`, that
  a datagram is always under the token of its server port, and `AbortsOnlyWhenDead`, that
  the assertion of udp_sender can fail only while no path is alive. What a failing bind or a late
  name does break is the other half of `KeysMatch`: the socket beside the token may be an
  older worker's, or closed.
  `KeysAgree`, `SocketsCurrent`, `AssertionHolds` and `AliveSends` assume
  `Faults = {}`; they rest on `KeyInv`: the client's path fields belong to an open worker
  younger than its deadline, server replies go where the worker's key is expected,
  and no socket address is given out while a datagram or the server names it.
- `TimingProofs`: `TokensFresh` and `RepliesReach` rest on `AgeInv`, which bounds every age: a
  token is at most a slot and a delay old when it arrives, the peer's address at most that and the
  silence, and the silence grows with each round alive has run down (`Silence`).
  The division into slots enters by `SlotsApart`: instants less than n slots apart lie in
  slots at most n apart. A straddled round took place at the beginning of a slot (`Straddled`), and then
  the last slot of the window is not needed, which is why `ClocksAgree` is strict on that side; `Filled` gives,
  for every other distance of a token's slot, the call of totp that covers it, or shows it is the gap.
  `Detects` is the refinement, for all constants. `NeverGivenUp` rests on
  `LinkInv`: a path that is alive is *sure*, which means that the time left until alive could reach 0
  (`Room`) exceeds what a datagram under way still needs, or what the peer may need to get its next
  heartbeat through (`Slack`); and a client that is alive, or about to hear the server,
  has a server that is alive, without which the server would fall silent.
- `LifecycleProofs`: `NatMasked` and `ForeignSafe`, by `LifeInv`, for any rules there before. `Masked`: while nat(address, 1)
  is under way, each rule it has still to add lags behind MASQUERADE by one. `Kept`: nat(address, 0) gets
  past its first rule only by taking a copy that was there before muon, and each rule still
  to be deleted then has one copy to spare of what `ForeignRulesKept` promises.
- `EncapProofs`: `DatagramFits`, `Sealed`, `PaddingOnly`, `RoundTrips`, by `LengthInv`: the datagram
  holds all of the payload, whose length never exceeds the original. The last two assume
  `SendMtu <= Buf`, the bound read_conf does not enforce.
- `ConfProofs`: `ConfTyping`, `ConfUsable` and `PortsSettled`, by `ReadInv`: all paths but the last
  have a port, so defaults and later port lines touch only the last. `UserNamed` is inductive
  by itself.
- `StartupProofs`: `MtuFirst` and `OnlyConfigured`, by `SetupInv`: nothing of vpn_init happens before
  the configuration is accepted, a command of ifconfig runs only after those before it, and
  route is only where its flags let it be. `ConfKept` is the refinement of Conf: vpn_init leaves the
  configuration alone, so the theorems of ConfProofs hold of Startup too, and an accepted configuration
  has a server, which is what the lemmas about route ask for.
  `SetupTyping`, `ServerBracketed`, `BasesAligned`, `EveryOtherRouted` and `Ipv6Follows` carry `RouteInv` over.
- `RoutesProofs`: `RouteInv`, for addresses of any width. The loops read the server's address from its first binary
  digit to its last: the one from below adds a subnet of each size whose digit is 1 (`Odd`), the one
  from above where it is 0 (`Even`). `Frontier` says how near each loop has come: less than twice the
  size in turn, less than once if a subnet of that size was added, and its base a multiple of that.
  `Digits` says which sizes have been added, `Cover` that their subnets hold what is outside of the
  frontiers, each address once. `Bracketed` is not inductive without `Frontier`: that the loop from
  above never wraps below 0 (`AboveRange`) needs that `ip_end + 1` is a multiple of the size.
  When the sizes are used up the frontiers have met at the server, which is `AllButServer`: W subnets,
  for a digit is either 1 or 0. `SixFollows` has the argument for `Ipv6Routed`: unless the host refuses a command for
  a reason of its own (`refused`), one is refused only for a subnet of an earlier server (by `Cover`), and the
  call that added it went on to the IPv6 route.

The finding `nat_undone` has two sides. Without an administrator's "-s A ! -d A -j MASQUERADE" the first deletion
fails, so rules pile up with every start and none of the administrator's is ever taken. With
one there, nat(address, 0) takes it and goes on to the FORWARD and mss rules, whoever they belong to;
`ForeignRulesKept` is what then remains of the promise.

Only model-checked: liveness (`SilentPathDies`, `Rejoin`, `StopWhileRunning`: fairness
and ENABLED are beyond the prover), and the three statements the code does not keep. Every invariant, action property
and refinement of the passing runs is a theorem. Not shown by either is that `Size` is `1 << (W - mask)` for W = 32; that
the shift obeys the two rules of `Halved` is plain.

## Not modelled

The hash of `totp.c` (a token is arbitrary in Vpn and a slot in Timing); `tun_read`, `tun_write`
and `log.c` (system calls and output without state); `snmp_logger` and `vpn_snmp`: packets, bytes
and rates, which are printed on SIGUSR1 and which nothing else reads (out_bytes counts
datagrams, in_bytes payloads); the branch of decapsulate on flag 0x0002, which no sender
sets; the lengths of texts in the configuration beyond what `UserKept` needs; the macOS
variants; contents of packets and the cryptography itself.

A tun_read that fails ends tun_worker: in Vpn that is a behaviour in which TunRead is
not taken any more, so the safety properties cover it, and no liveness asks for it.

## Plan

Done, in this order: PathRing and PathSelect; Tunnel and Vpn; Lifecycle; Encap; Conf; Routes;
Detector and Timing; Startup; PathLoop; the proofs above. To come:

1. Vpn with a different number of ports per path, and Timing with more than one path.
2. Timing with timers that are late, for which the bounds of `TimingProofs` need one more
   constant.
3. Composition of Startup and Lifecycle, so that the NAT commands of a server follow the
   configuration it accepted.
4. How long the client's socket and token can disagree after a failing bind or a late name: until
   the next hop of that path that binds in time, for which Vpn needs a history of hops.
