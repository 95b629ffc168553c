-------------------------------- MODULE Vpn --------------------------------
(***************************************************************************)
(* The tunnel between a muon client and a muon server (src/src/vpn.c): the *)
(* coroutines of both processes and the UDP network between them.          *)
(*                                                                         *)
(* libmill coroutines are cooperative: a step below is what a coroutine    *)
(* does between two points where it may yield (fdwait, msleep, udprecv     *)
(* with nothing to receive, ipremote of a host name).  encapsulate and     *)
(* decapsulate are abstracted to their key: a datagram encrypted under one *)
(* token is accepted only under the same token (totp hashes it into the    *)
(* key, the HMAC rejects the rest).  A token is also the offset of the     *)
(* server port a datagram is sent to; totp may return any of them.         *)
(***************************************************************************)
EXTENDS PathRing, FiniteSets

CONSTANTS
  PortRange,    \* ctx.paths[].port_range: tokens are 0 .. port_range
  Sock,         \* the addresses the client's sockets may be bound to
  Packet,       \* the IP packets read from a tun device
  Beat,         \* the empty payload of a heartbeat
  None,         \* a NULL socket, an address never set
  TTL,          \* what a valid datagram sets alive to; 5 in the code
  Life,         \* hops before the deadline of a client socket; 5000 / 500
  Faults,       \* "dns": server is a host name; "bind": udplisten may fail
  MaxInFlight,  \* bound: datagrams in the network at once
  MaxRestarts   \* bound: crashes or restarts of the two processes

ASSUME VpnAssumption ==
  /\ PortRange \in Nat
  /\ TTL \in Nat \ {0}
  /\ Life \in Nat \ {0}
  /\ Beat \notin Packet
  /\ Faults \subseteq {"dns", "bind"}
  /\ MaxInFlight \in Nat
  /\ MaxRestarts \in Nat

Role == {"client", "server"}
Peer(r) == IF r = "client" THEN "server" ELSE "client"
Token == 0 .. PortRange

(* A coroutine udp_worker of the client: its arguments, and the hops of    *)
(* its path since its deadline was set.                                    *)
Worker == [path : Path, token : Token, age : 0 .. Life]

ASSUME NoneAssumption == None \notin Sock \cup Int \cup Worker

(* A datagram: its direction, the two ends it runs between (the server's   *)
(* end is a port of a path, the client's a socket), key, and payload.      *)
Datagram == [to : Role, path : Path, port : Token, cs : Sock,
             key : Token, data : Packet \cup {Beat}]

VARIABLES
  alive, token, sock, remote,  \* the fields of ctx.paths[], of each process
  cur,         \* the static variable "path" of udp_sender
  valid,       \* server: the set of tokens in ctx.paths[].valid_tokens
  port,        \* server: the udp_worker of each port
  hop,         \* client: the path client_hop turns to next
  worker,      \* client: the udp_worker that owns each socket
  resolving,   \* client: workers blocked in ipremote
  status,      \* of each process
  net,         \* the datagrams in flight
  read, written,  \* history: packets read from and written to each tun device
  restarts     \* how many times a process has been restarted

ctx == <<alive, token, sock, remote>>
serverOnly == <<valid, port>>
clientOnly == <<hop, worker, resolving>>
tun == <<read, written>>
vars == <<ctx, cur, serverOnly, clientOnly, status, net, tun, restarts>>

-----------------------------------------------------------------------------
(* The sender's view.                                                      *)

Up(r) == {p \in Path : alive[r][p] > 0}

(* The socket with address s is one the client still has open.             *)
Open(s) == worker[s] # None

(* The sockets a client's udpsend through ctx.paths[p].sock may reach: its *)
(* own, or, once udpclose has freed it, any that took the memory.          *)
Sources(p) ==
  IF Open(sock["client"][p]) THEN {sock["client"][p]} ELSE {s \in Sock : Open(s)}

(* What process r may send over path p: from sock, to remote, under token. *)
(* remote and token are whatever the last writer left there.               *)
Outgoing(r, p, d) ==
  IF r = "client"
  THEN {[to |-> "server", path |-> p, port |-> remote[r][p], cs |-> s,
         key |-> token[r][p], data |-> d] : s \in Sources(p)}
  ELSE {[to |-> "client", path |-> p, port |-> sock[r][p], cs |-> remote[r][p],
         key |-> token[r][p], data |-> d]}

(* udpsend never blocks and may lose anything it is given.                 *)
Transmit(ms) ==
  \E kept \in SUBSET ms :
    /\ net' = net \cup kept
    /\ Cardinality(net') <= MaxInFlight

(* The network may deliver a datagram again later.                         *)
Consume(m) == net' \in {net, net \ {m}}

-----------------------------------------------------------------------------
(* The client's sockets.                                                   *)

(* A port the OS may pick for a new socket: one not in use, nor still      *)
(* named by a datagram or by the server.                                   *)
Fresh(s) ==
  /\ ~Open(s)
  /\ \A m \in net : m.cs # s
  /\ \A p \in Path : remote["server"][p] # s

Aged(p) ==
  [s \in Sock |->
     IF worker[s] # None /\ worker[s].path = p /\ worker[s].age < Life
     THEN [worker[s] EXCEPT !.age = @ + 1] ELSE worker[s]]

(* udp_worker(p, t) of the client once ipremote has returned: it sets      *)
(* remote and token first, then binds, then sets sock.                     *)
StartWorker(p, t, age, workers) ==
  /\ remote' = [remote EXCEPT !["client"][p] = t]
  /\ token' = [token EXCEPT !["client"][p] = t]
  /\ \/ \E s \in Sock :
          /\ Fresh(s)
          /\ worker' = [workers EXCEPT ![s] = [path |-> p, token |-> t, age |-> age]]
          /\ sock' = [sock EXCEPT !["client"][p] = s]
     \/ /\ "bind" \in Faults
        /\ worker' = workers
        /\ sock' = sock

(* One turn of client_hop's inner loop: a new udp_worker for path hop.     *)
(* The other coroutines start once the first one has blocked.              *)
Hop ==
  /\ status["client"] # "aborted"
  /\ \E t \in Token :
       IF "dns" \in Faults
       THEN /\ resolving' = resolving \cup {[path |-> hop, token |-> t]}
            /\ worker' = Aged(hop)
            /\ UNCHANGED <<remote, token, sock>>
       ELSE /\ StartWorker(hop, t, 0, Aged(hop))
            /\ UNCHANGED resolving
  /\ hop' = IF hop = PathCount - 1 THEN 0 ELSE hop + 1
  /\ status' = [status EXCEPT !["client"] = "running"]
  /\ UNCHANGED <<alive, cur, serverOnly, net, tun, restarts>>

(* The resolver answers a worker, in any order, and with any part of the   *)
(* time to its deadline gone: the deadline was set before.                 *)
Resolve(w) ==
  /\ w \in resolving
  /\ \E age \in 0 .. Life : StartWorker(w.path, w.token, age, worker)
  /\ resolving' = resolving \ {w}
  /\ UNCHANGED <<alive, cur, serverOnly, hop, status, net, tun, restarts>>

(* Faulty variant: a deadline shorter than the time between two hops.      *)
ExpiredEarly(w) == TRUE

Expired(w) == w.age = Life

(* The deadline of a worker: udprecv times out and the socket is closed;   *)
(* ctx.paths[].sock is left as it is.                                      *)
WorkerTimeout(s) ==
  /\ Open(s)
  /\ Expired(worker[s])
  /\ worker' = [worker EXCEPT ![s] = None]
  /\ UNCHANGED <<ctx, cur, serverOnly, hop, resolving, status, net, tun, restarts>>

-----------------------------------------------------------------------------
(* The server starts: vpn_run starts a udp_worker for each port in turn;   *)
(* the ports already open receive meanwhile.                               *)

(* Faulty variant: a worker that starts leaves alive as it is.             *)
AliveKept(p) == alive

AliveAtStart(p) == [alive EXCEPT !["server"][p] = 0]

ServerWorker(p, j) ==
  /\ status["server"] = "booting"
  /\ port[p][j] = "new"
  /\ \A q \in Path, i \in Token : q < p \/ (q = p /\ i < j) => port[q][i] # "new"
  /\ alive' = AliveAtStart(p)
  /\ \/ /\ port' = [port EXCEPT ![p][j] = "open"]
        /\ sock' = [sock EXCEPT !["server"][p] = j]
     \/ /\ "bind" \in Faults
        /\ port' = [port EXCEPT ![p][j] = "failed"]
        /\ sock' = sock
  /\ status' = IF p = PathCount - 1 /\ j = PortRange
               THEN [status EXCEPT !["server"] = "running"] ELSE status
  /\ UNCHANGED <<token, remote, cur, valid, clientOnly, net, tun, restarts>>

-----------------------------------------------------------------------------
(* The receive loop of udp_worker.                                         *)

(* Faulty variant: heartbeats are written to the tun device too.           *)
AcceptAll(r, p, d) ==
  /\ alive' = [alive EXCEPT ![r][p] = TTL]
  /\ written' = [written EXCEPT ![r] = @ \cup {d}]
  /\ UNCHANGED read

(* What a valid datagram does: renew the path, and write its payload to    *)
(* the tun device unless it is a heartbeat.                                *)
Accept(r, p, d) ==
  /\ alive' = [alive EXCEPT ![r][p] = TTL]
  /\ written' = IF d = Beat THEN written
                            ELSE [written EXCEPT ![r] = @ \cup {d}]
  /\ UNCHANGED read

ClientRecv(m) ==
  /\ m \in net /\ m.to = "client"
  /\ Open(m.cs)
  /\ m.key = worker[m.cs].token
  /\ Accept("client", worker[m.cs].path, m.data)
  /\ Consume(m)
  /\ UNCHANGED <<token, sock, remote, cur, serverOnly, clientOnly, status, restarts>>

(* Faulty variant: the reply goes under the token used before.             *)
LearnAddress(m) ==
  /\ sock' = [sock EXCEPT !["server"][m.path] = m.port]
  /\ remote' = [remote EXCEPT !["server"][m.path] = m.cs]
  /\ UNCHANGED token

(* The server makes the sender its peer on that path: it replies from this *)
(* port, to this address, under this token.                                *)
Learn(m) ==
  /\ sock' = [sock EXCEPT !["server"][m.path] = m.port]
  /\ remote' = [remote EXCEPT !["server"][m.path] = m.cs]
  /\ token' = [token EXCEPT !["server"][m.path] = m.port]

ServerRecv(m) ==
  /\ m \in net /\ m.to = "server"
  /\ port[m.path][m.port] = "open"
  /\ m.port \in valid[m.path]
  /\ m.key = m.port
  /\ Accept("server", m.path, m.data)
  /\ Learn(m)
  /\ Consume(m)
  /\ UNCHANGED <<cur, serverOnly, clientOnly, status, restarts>>

(* The network loses a datagram, or a worker drops it: closed port, token  *)
(* not valid now, wrong key.                                               *)
Discard(m) ==
  /\ m \in net
  /\ net' = net \ {m}
  /\ UNCHANGED <<ctx, cur, serverOnly, clientOnly, status, tun, restarts>>

-----------------------------------------------------------------------------
(* Faulty variant: the client too waits for its peer before it sends.      *)
BeatsWhenUp(r) == {p \in Up(r) : sock[r][p] # None}

(* The paths a round of heartbeat sends on: all of the client's, the       *)
(* server's that are alive, as far as they have a socket.                  *)
Beats(r) == {p \in Path : (r = "client" \/ p \in Up(r)) /\ sock[r][p] # None}

(* Faulty variants: alive run below 0, or never quite down to 0.           *)
DecrementedAlways(n) == n - 1
DecrementedToOne(n) == IF n > 1 THEN n - 1 ELSE n

Decremented(n) == IF n > 0 THEN n - 1 ELSE n

(* heartbeat: one round over all paths, without a yield.  The server       *)
(* computes its tokens anew; slot 1 is never assigned and holds 0 since    *)
(* vpn_init cleared ctx.                                                   *)
Heartbeat(r) ==
  /\ status[r] = "running"
  /\ IF r = "server"
     THEN \E window \in [Path -> SUBSET Token] :
            valid' = [p \in Path |-> window[p] \cup {0}]
     ELSE UNCHANGED valid
  /\ Transmit(UNION {Outgoing(r, p, Beat) : p \in Beats(r)})
  /\ alive' = [alive EXCEPT ![r] = [p \in Path |-> Decremented(alive[r][p])]]
  /\ UNCHANGED <<token, sock, remote, cur, port, clientOnly, status, tun, restarts>>

(* A process gone: its memory is cleared and its sockets are closed.       *)
Reset(r, s) ==
  /\ alive' = [alive EXCEPT ![r] = [p \in Path |-> 0]]
  /\ token' = [token EXCEPT ![r] = [p \in Path |-> 0]]
  /\ sock' = [sock EXCEPT ![r] = [p \in Path |-> None]]
  /\ remote' = [remote EXCEPT ![r] = [p \in Path |-> None]]
  /\ cur' = [cur EXCEPT ![r] = 0]
  /\ status' = [status EXCEPT ![r] = s]
  /\ IF r = "client"
     THEN /\ hop' = 0
          /\ worker' = [x \in Sock |-> None]
          /\ resolving' = {}
          /\ UNCHANGED serverOnly
     ELSE /\ valid' = [p \in Path |-> {0}]
          /\ port' = [p \in Path |-> [j \in Token |-> "new"]]
          /\ UNCHANGED clientOnly

(* tun_worker reads packet d and runs udp_sender: the rotation, the        *)
(* assertion that the path has a socket, the early return on a dead path.  *)
(* When tun_read fails, tun_worker returns and this step never comes again *)
(* (no fairness is asked of it).                                           *)
TunRead(r, d) ==
  /\ status[r] = "running"
  /\ read' = [read EXCEPT ![r] = @ \cup {d}]
  /\ \E q \in Path :
       /\ Chosen(cur[r], q, Up(r))
       /\ IF sock[r][q] = None
          THEN Reset(r, "aborted") /\ UNCHANGED net
          ELSE /\ cur' = [cur EXCEPT ![r] = q]
               /\ IF q \in Up(r) THEN Transmit(Outgoing(r, q, d))
                                ELSE UNCHANGED net
               /\ UNCHANGED <<ctx, serverOnly, clientOnly, status>>
  /\ UNCHANGED <<written, restarts>>

(* Process r stops, for whatever reason, and is started again.             *)
Restart(r) ==
  /\ restarts < MaxRestarts
  /\ restarts' = restarts + 1
  /\ Reset(r, "booting")
  /\ UNCHANGED <<net, tun>>

-----------------------------------------------------------------------------
Init ==
  /\ alive = [r \in Role |-> [p \in Path |-> 0]]
  /\ token = [r \in Role |-> [p \in Path |-> 0]]
  /\ sock = [r \in Role |-> [p \in Path |-> None]]
  /\ remote = [r \in Role |-> [p \in Path |-> None]]
  /\ cur = [r \in Role |-> 0]
  /\ valid = [p \in Path |-> {0}]
  /\ port = [p \in Path |-> [j \in Token |-> "new"]]
  /\ hop = 0
  /\ worker = [s \in Sock |-> None]
  /\ resolving = {}
  /\ status = [r \in Role |-> "booting"]
  /\ net = {}
  /\ read = [r \in Role |-> {}]
  /\ written = [r \in Role |-> {}]
  /\ restarts = 0

Next ==
  \/ Hop
  \/ \E w \in resolving : Resolve(w)
  \/ \E s \in Sock : WorkerTimeout(s)
  \/ \E p \in Path, j \in Token : ServerWorker(p, j)
  \/ \E m \in net : ClientRecv(m) \/ ServerRecv(m) \/ Discard(m)
  \/ \E r \in Role : Heartbeat(r) \/ Restart(r)
  \/ \E r \in Role, d \in Packet : TunRead(r, d)

Spec == Init /\ [][Next]_vars

(* The coroutines run on: the timers of heartbeat, client_hop and the      *)
(* worker deadlines fire, and the server's start finishes.  Nothing is     *)
(* asked of the network or of the tun device.                              *)
Fairness ==
  /\ \A r \in Role : WF_vars(Heartbeat(r))
  /\ WF_vars(Hop)
  /\ \A s \in Sock : WF_vars(WorkerTimeout(s))
  /\ \A p \in Path, j \in Token : WF_vars(ServerWorker(p, j))

FairSpec == Spec /\ Fairness

(* A network that keeps losing and delaying datagrams, but none for ever   *)
(* and not all of them: of the heartbeats sent again and again some reach  *)
(* the server before the client hops, and some replies reach the client    *)
(* before it has closed their socket.                                      *)
NetFairness ==
  /\ WF_vars(\E m \in net : Discard(m))
  /\ \A p \in Path :
     /\ \A r \in Role :
          SF_vars(Heartbeat(r) /\ \E m \in Outgoing(r, p, Beat) : m \in net' /\ Open(m.cs))
     /\ SF_vars(\E m \in net : /\ ServerRecv(m) /\ m \notin net'
                             /\ m.path = p /\ m.cs = sock["client"][p])
     /\ SF_vars(\E m \in net : ClientRecv(m) /\ m \notin net' /\ m.path = p)

FairNetSpec == FairSpec /\ NetFairness

-----------------------------------------------------------------------------
(* Types of the two processes and of the network.                          *)
TypeOK ==
  /\ alive \in [Role -> [Path -> 0 .. TTL]]
  /\ token \in [Role -> [Path -> Token]]
  /\ sock \in [Role -> [Path -> Sock \cup Token \cup {None}]]
  /\ remote \in [Role -> [Path -> Sock \cup Token \cup {None}]]
  /\ \A p \in Path : /\ sock["client"][p] \in Sock \cup {None}
                     /\ sock["server"][p] \in Token \cup {None}
                     /\ remote["client"][p] \in Token \cup {None}
                     /\ remote["server"][p] \in Sock \cup {None}
  /\ cur \in [Role -> Path]
  /\ valid \in [Path -> SUBSET Token]
  /\ port \in [Path -> [Token -> {"new", "open", "failed"}]]
  /\ hop \in Path
  /\ worker \in [Sock -> Worker \cup {None}]
  /\ resolving \subseteq [path : Path, token : Token]
  /\ status \in [Role -> {"booting", "running", "aborted"}]
  /\ net \subseteq Datagram
  /\ read \in [Role -> SUBSET Packet]
  /\ written \in [Role -> SUBSET Packet]
  /\ restarts \in 0 .. MaxRestarts

(* The socket a client path sends from is open and belongs to the worker   *)
(* that set remote and token beside it: client_hop replaces a socket       *)
(* before its worker's deadline closes it.                                 *)
ClientSockCurrent ==
  \A p \in Path : sock["client"][p] # None =>
    /\ Open(sock["client"][p])
    /\ worker[sock["client"][p]].path = p
    /\ worker[sock["client"][p]].token = token["client"][p]
    /\ remote["client"][p] = token["client"][p]

(* A server path that is alive has a complete peer: it replies from an     *)
(* open port, under that port's token, to an address it has heard from.    *)
(* A worker that starts late overwrites sock, so it must clear alive too.  *)
ServerPeerCoherent ==
  \A p \in Path : alive["server"][p] > 0 =>
    /\ sock["server"][p] = token["server"][p]
    /\ port[p][token["server"][p]] = "open"
    /\ remote["server"][p] # None

(* Every datagram in flight is encrypted under the token of the server     *)
(* port at its one end, whatever the faults: remote and token, or sock and *)
(* token, are never read half changed.                                     *)
PortKeys == \A m \in net : m.key = m.port

(* And under the token of the worker that still holds the client's socket  *)
(* at its other end: through hops, late datagrams, roaming and restarts,   *)
(* decapsulate never rejects a datagram for its key.                       *)
KeysMatch ==
  /\ PortKeys
  /\ \A m \in net :
       Open(m.cs) => worker[m.cs].path = m.path /\ worker[m.cs].token = m.key

(* The assertion of udp_sender: whatever path the rotation stops on when a *)
(* packet is read, that path has a socket.                                 *)
SenderHasSocket ==
  \A r \in Role : status[r] = "running" =>
    \A q \in Path : Chosen(cur[r], q, Up(r)) => sock[r][q] # None

(* A path that is alive can send: what the rotation picks has a socket,    *)
(* the client's still open, so a packet past the early return leaves.      *)
AliveCanSend ==
  \A r \in Role : \A p \in Up(r) :
    sock[r][p] # None /\ (r = "client" => Open(sock[r][p]))

(* What comes out of one tun device was read from the other.               *)
T == INSTANCE Tunnel WITH Packet <- Packet, read <- read, written <- written
TunnelSpec == T!Spec

(* The ttl: a path stays alive for ever only if valid datagrams keep       *)
(* arriving on it; when they stop, the heartbeats run alive down to 0 and  *)
(* the rotation leaves the path.                                           *)
Renewed(r, p) ==
  \E m \in net :
    IF r = "client" THEN ClientRecv(m) /\ worker[m.cs].path = p
                    ELSE ServerRecv(m) /\ m.path = p

SilentPathDies ==
  \A r \in Role, p \in Path :
    []<>(alive[r][p] = 0) \/ []<><<Renewed(r, p)>>_vars

(* No handshake and no stored state: whichever side restarts, and however  *)
(* the client hops, the two find each other again.  Again and again the    *)
(* server's peer address is the socket the client sends from, and the      *)
(* client hears from the server.                                           *)
Rejoin ==
  \A p \in Path :
    /\ []<>(alive["server"][p] > 0 /\ remote["server"][p] = sock["client"][p])
    /\ []<>(alive["client"][p] > 0)
=============================================================================
