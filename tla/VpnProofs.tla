----------------------------- MODULE VpnProofs -----------------------------
(***************************************************************************)
(* Proofs about the tunnel, for any number of paths, ports, sockets,       *)
(* packets and restarts, and any bound on the network.                     *)
(***************************************************************************)
EXTENDS Vpn, TLAPS

(* A path that may send has both its ends: remote is set before sock on    *)
(* the client, and the server sets both before it raises alive.            *)
Addressed ==
  \A p \in Path :
    /\ sock["client"][p] # None => remote["client"][p] # None
    /\ alive["server"][p] > 0 => sock["server"][p] # None /\ remote["server"][p] # None

TypeInv == TypeOK /\ Addressed

(* None is none of the values it stands in for.                            *)
LEMMA NoneDistinct ==
  /\ \A s \in Sock : s # None
  /\ \A t \in Token : t # None
  /\ \A w \in Worker : w # None
BY NoneAssumption, VpnAssumption DEF Token

(* Whatever a process sends is a well-formed datagram to its peer.         *)
LEMMA OutgoingType ==
  ASSUME TypeInv, NEW r \in Role, NEW p \in Path, NEW d \in Packet \cup {Beat},
         sock[r][p] # None, r = "client" \/ p \in Up(r)
  PROVE  /\ Outgoing(r, p, d) \subseteq Datagram
         /\ \A m \in Outgoing(r, p, d) : m.to = Peer(r) /\ m.data = d
<1>1. CASE r = "client"
  <2>1. Sources(p) \subseteq Sock
    BY <1>1 DEF Sources, TypeInv, TypeOK
  <2>2. remote[r][p] \in Token /\ token[r][p] \in Token
    BY <1>1 DEF TypeInv, TypeOK, Addressed, Role
  <2>. QED  BY <1>1, <2>1, <2>2 DEF Outgoing, Datagram, Role, Peer
<1>2. CASE r = "server"
  <2>1. alive[r][p] > 0
    BY <1>2 DEF Up
  <2>2. sock[r][p] \in Token /\ remote[r][p] \in Sock /\ token[r][p] \in Token
    BY <1>2, <2>1 DEF TypeInv, TypeOK, Addressed, Role
  <2>. QED  BY <1>2, <2>2 DEF Outgoing, Datagram, Role, Peer
<1>. QED  BY <1>1, <1>2 DEF Role

(* The effect of a restart or an abort on the types.                       *)
LEMMA ResetType ==
  ASSUME TypeInv, NEW r \in Role, NEW s \in {"booting", "aborted"}, Reset(r, s),
         net' \subseteq Datagram, read' \in [Role -> SUBSET Packet],
         written' \in [Role -> SUBSET Packet], restarts' \in 0 .. MaxRestarts
  PROVE  TypeInv'
<1>. USE DEF TypeInv, TypeOK, Addressed, Reset
<1>0. 0 \in Path /\ 0 \in Token /\ 0 \in 0 .. TTL
  BY PathCountAssumption, VpnAssumption DEF Path, Token
<1>1. alive' \in [Role -> [Path -> 0 .. TTL]] /\ token' \in [Role -> [Path -> Token]]
  BY <1>0
<1>2. /\ sock' \in [Role -> [Path -> Sock \cup Token \cup {None}]]
      /\ remote' \in [Role -> [Path -> Sock \cup Token \cup {None}]]
      /\ cur' \in [Role -> Path] /\ hop' \in Path
  BY <1>0 DEF clientOnly
<1>3. status' \in [Role -> {"booting", "running", "aborted"}]
  OBVIOUS
<1>4. \A p \in Path : /\ sock'["client"][p] \in Sock \cup {None}
                      /\ sock'["server"][p] \in Token \cup {None}
                      /\ remote'["client"][p] \in Token \cup {None}
                      /\ remote'["server"][p] \in Sock \cup {None}
  BY DEF Role
<1>5. \A p \in Path :
        /\ sock'["client"][p] # None => remote'["client"][p] # None
        /\ alive'["server"][p] > 0 => sock'["server"][p] # None /\ remote'["server"][p] # None
  BY DEF Role
<1>6. /\ valid' \in [Path -> SUBSET Token]
      /\ port' \in [Path -> [Token -> {"new", "open", "failed"}]]
  BY <1>0 DEF serverOnly
<1>7. /\ worker' \in [Sock -> Worker \cup {None}]
      /\ resolving' \subseteq [path : Path, token : Token]
  BY DEF clientOnly
<1>. QED  BY <1>1, <1>2, <1>3, <1>4, <1>5, <1>6, <1>7

(* Binding a worker keeps the fields of its path well-formed.              *)
LEMMA StartWorkerType ==
  ASSUME TypeInv, NEW p \in Path, NEW t \in Token,
         NEW ws \in [Sock -> Worker \cup {None}], NEW age \in 0 .. Life,
         StartWorker(p, t, age, ws)
  PROVE  /\ remote' \in [Role -> [Path -> Sock \cup Token \cup {None}]]
         /\ token' \in [Role -> [Path -> Token]]
         /\ sock' \in [Role -> [Path -> Sock \cup Token \cup {None}]]
         /\ worker' \in [Sock -> Worker \cup {None}]
         /\ remote'["server"] = remote["server"] /\ sock'["server"] = sock["server"]
         /\ remote'["client"] = [remote["client"] EXCEPT ![p] = t]
         /\ token' = [token EXCEPT !["client"][p] = t]
         /\ \/ sock' = sock
            \/ \E s \in Sock : sock'["client"] = [sock["client"] EXCEPT ![p] = s]
<1>. USE DEF TypeInv, TypeOK
<1>1. "client" \in Role /\ "server" \in Role
  BY DEF Role
<1>2. /\ remote' = [remote EXCEPT !["client"][p] = t]
      /\ token' = [token EXCEPT !["client"][p] = t]
  BY DEF StartWorker
<1>3. CASE worker' = ws /\ sock' = sock
  BY <1>1, <1>2, <1>3
<1>4. ASSUME NEW s \in Sock,
             worker' = [ws EXCEPT ![s] = [path |-> p, token |-> t, age |-> age]],
             sock' = [sock EXCEPT !["client"][p] = s]
      PROVE  /\ worker' \in [Sock -> Worker \cup {None}]
             /\ sock' \in [Role -> [Path -> Sock \cup Token \cup {None}]]
             /\ sock'["client"] = [sock["client"] EXCEPT ![p] = s]
             /\ sock'["server"] = sock["server"]
  <2>1. [path |-> p, token |-> t, age |-> age] \in Worker
    BY VpnAssumption DEF Worker
  <2>. QED  BY <1>1, <1>4, <2>1
<1>5. /\ remote' \in [Role -> [Path -> Sock \cup Token \cup {None}]]
      /\ token' \in [Role -> [Path -> Token]]
      /\ remote'["server"] = remote["server"]
      /\ remote'["client"] = [remote["client"] EXCEPT ![p] = t]
  BY <1>1, <1>2
<1>6. \/ worker' = ws /\ sock' = sock
      \/ \E s \in Sock :
           /\ worker' = [ws EXCEPT ![s] = [path |-> p, token |-> t, age |-> age]]
           /\ sock' = [sock EXCEPT !["client"][p] = s]
  BY DEF StartWorker
<1>. QED  BY <1>2, <1>3, <1>4, <1>5, <1>6

(* One more hop in the life of a worker.                                   *)
LEMMA OlderType ==
  ASSUME NEW w \in Worker, w.age < Life
  PROVE  [w EXCEPT !.age = @ + 1] \in Worker
BY VpnAssumption DEF Worker

(* Ageing the workers of a path.                                           *)
LEMMA AgedType ==
  ASSUME TypeInv, NEW p \in Path
  PROVE  Aged(p) \in [Sock -> Worker \cup {None}]
<1>1. ASSUME NEW s \in Sock, worker[s] # None, worker[s].age < Life
      PROVE  [worker[s] EXCEPT !.age = @ + 1] \in Worker
  BY <1>1, OlderType DEF TypeInv, TypeOK
<1>. QED  BY <1>1 DEF Aged, TypeInv, TypeOK

(* Every step keeps the types, whatever faults may occur.                  *)
LEMMA TypeStep == TypeInv /\ [Next]_vars => TypeInv'
<1> SUFFICES ASSUME TypeInv, [Next]_vars PROVE TypeInv'
  OBVIOUS
<1>. USE DEF TypeInv
<1>0. "client" \in Role /\ "server" \in Role
  BY DEF Role
<1>1. ASSUME NEW p \in Path, NEW t \in Token, NEW ws \in [Sock -> Worker \cup {None}],
             NEW age \in 0 .. Life, StartWorker(p, t, age, ws), resolving' \subseteq [path : Path, token : Token],
             hop' \in Path, status' \in [Role -> {"booting", "running", "aborted"}],
             UNCHANGED <<alive, cur, serverOnly, net, tun, restarts>>
      PROVE  TypeInv'
  <2>1. PICK s \in Sock \cup {None} :
             sock'["client"] \in {sock["client"], [sock["client"] EXCEPT ![p] = s]}
    BY <1>1, StartWorkerType
  <2>2. remote'["client"] = [remote["client"] EXCEPT ![p] = t] /\ t # None
    BY <1>1, StartWorkerType, NoneDistinct
  <2>. HIDE DEF TypeInv
  <2>3. TypeOK'
    <3>1. \A q \in Path : /\ sock'["client"][q] \in Sock \cup {None}
                          /\ remote'["client"][q] \in Token \cup {None}
      BY <2>1, <2>2, <1>0 DEF TypeInv, TypeOK
    <3>. QED  BY <1>1, <3>1, StartWorkerType DEF TypeInv, TypeOK, serverOnly, tun
  <2>4. Addressed'
    <3>1. sock["client"] \in [Path -> Sock \cup Token \cup {None}]
          /\ remote["client"] \in [Path -> Sock \cup Token \cup {None}]
      BY <1>0 DEF TypeInv, TypeOK
    <3>2. \A q \in Path : sock'["client"][q] # None => remote'["client"][q] # None
      BY <2>1, <2>2, <3>1 DEF TypeInv, Addressed
    <3>. QED  BY <1>1, StartWorkerType, <3>2 DEF TypeInv, Addressed
  <2>. QED  BY <2>3, <2>4 DEF TypeInv
<1>2. CASE Hop
  <2>1. hop' \in Path /\ status' \in [Role -> {"booting", "running", "aborted"}]
    <3>1. hop' \in Path
      BY <1>2, PathCountAssumption DEF Hop, TypeOK, Path
    <3>. QED  BY <1>2, <3>1 DEF Hop, TypeOK
  <2>2. PICK t \in Token :
          IF "dns" \in Faults
          THEN /\ resolving' = resolving \cup {[path |-> hop, token |-> t]}
               /\ worker' = Aged(hop)
               /\ UNCHANGED <<remote, token, sock>>
          ELSE /\ StartWorker(hop, t, 0, Aged(hop))
               /\ UNCHANGED resolving
    BY <1>2 DEF Hop
  <2>3. hop \in Path /\ Aged(hop) \in [Sock -> Worker \cup {None}]
    BY AgedType DEF TypeOK
  <2>4. CASE "dns" \in Faults
    BY <1>2, <2>1, <2>2, <2>3, <2>4 DEF Hop, TypeOK, Addressed, serverOnly, tun
  <2>5. CASE "dns" \notin Faults
    <3>1. StartWorker(hop, t, 0, Aged(hop)) /\ resolving' = resolving
      BY <2>2, <2>5
    <3>2. 0 \in 0 .. Life
      BY VpnAssumption
    <3>. QED  BY <1>1, <1>2, <2>1, <2>3, <3>1, <3>2 DEF Hop, TypeOK
  <2>. QED  BY <2>4, <2>5
<1>3. ASSUME NEW w \in resolving, Resolve(w) PROVE TypeInv'
  <2>1. w.path \in Path /\ w.token \in Token
    BY DEF TypeOK
  <2>2. PICK age \in 0 .. Life : StartWorker(w.path, w.token, age, worker)
    BY <1>3 DEF Resolve
  <2>. QED  BY <1>1, <1>3, <2>1, <2>2 DEF Resolve, TypeOK
<1>4. ASSUME NEW s \in Sock, WorkerTimeout(s) PROVE TypeInv'
  BY <1>4 DEF WorkerTimeout, TypeOK, Addressed, ctx, serverOnly, tun
<1>5. ASSUME NEW p \in Path, NEW j \in Token, ServerWorker(p, j) PROVE TypeInv'
  <2>1. alive' \in [Role -> [Path -> 0 .. TTL]] /\ alive'["server"][p] = 0
        /\ \A q \in Path : q # p => alive'["server"][q] = alive["server"][q]
    BY <1>5, <1>0, VpnAssumption DEF ServerWorker, AliveAtStart, TypeOK
  <2>2. /\ sock' \in [Role -> [Path -> Sock \cup Token \cup {None}]]
        /\ sock'["client"] = sock["client"]
        /\ \A q \in Path : q # p => sock'["server"][q] = sock["server"][q]
        /\ sock'["server"][p] \in Token \cup {None}
    <3>1. sock' \in {sock, [sock EXCEPT !["server"][p] = j]}
      BY <1>5 DEF ServerWorker
    <3>2. CASE sock' = sock
      BY <3>2 DEF TypeOK
    <3>3. CASE sock' = [sock EXCEPT !["server"][p] = j]
      BY <3>3, <1>0 DEF TypeOK
    <3>. QED  BY <3>1, <3>2, <3>3
  <2>3. /\ port' \in [Path -> [Token -> {"new", "open", "failed"}]]
        /\ status' \in [Role -> {"booting", "running", "aborted"}]
    <3>1. port' \in {[port EXCEPT ![p][j] = "open"], [port EXCEPT ![p][j] = "failed"]}
      BY <1>5 DEF ServerWorker
    <3>2. status' \in {status, [status EXCEPT !["server"] = "running"]}
      BY <1>5 DEF ServerWorker
    <3>3. [port EXCEPT ![p][j] = "open"] \in [Path -> [Token -> {"new", "open", "failed"}]]
      BY DEF TypeOK
    <3>4. [port EXCEPT ![p][j] = "failed"] \in [Path -> [Token -> {"new", "open", "failed"}]]
      BY DEF TypeOK
    <3>. QED  BY <3>1, <3>2, <3>3, <3>4 DEF TypeOK
  <2>4. TypeOK'
    BY <1>5, <2>1, <2>2, <2>3 DEF ServerWorker, TypeOK, clientOnly, tun
  <2>5. Addressed'
    BY <1>5, <2>1, <2>2 DEF ServerWorker, Addressed
  <2>. QED  BY <2>4, <2>5
<1>6. ASSUME NEW m \in net, ClientRecv(m) PROVE TypeInv'
  <2>1. m.data \in Packet \cup {Beat} /\ worker[m.cs].path \in Path /\ m.cs \in Sock
    BY <1>6 DEF ClientRecv, Open, TypeOK, Datagram, Worker
  <2>2. alive' \in [Role -> [Path -> 0 .. TTL]] /\ alive'["server"] = alive["server"]
    BY <1>6, <2>1, <1>0, VpnAssumption DEF ClientRecv, Accept, TypeOK
  <2>3. read' \in [Role -> SUBSET Packet] /\ written' \in [Role -> SUBSET Packet]
    BY <1>6, <2>1 DEF ClientRecv, Accept, TypeOK
  <2>4. net' \subseteq Datagram
    BY <1>6 DEF ClientRecv, Consume, TypeOK
  <2>. QED  BY <1>6, <2>2, <2>3, <2>4
            DEF ClientRecv, TypeOK, Addressed, serverOnly, clientOnly
<1>7. ASSUME NEW m \in net, ServerRecv(m) PROVE TypeInv'
  <2>1. /\ m.data \in Packet \cup {Beat} /\ m.path \in Path
        /\ m.cs \in Sock /\ m.port \in Token
        /\ m.cs # None /\ m.port # None
    BY <1>7, NoneDistinct DEF TypeOK, Datagram
  <2>2. /\ alive' \in [Role -> [Path -> 0 .. TTL]]
        /\ \A q \in Path : q # m.path => alive'["server"][q] = alive["server"][q]
    BY <1>7, <2>1, <1>0, VpnAssumption DEF ServerRecv, Accept, TypeOK
  <2>3. read' \in [Role -> SUBSET Packet] /\ written' \in [Role -> SUBSET Packet]
    BY <1>7, <2>1 DEF ServerRecv, Accept, TypeOK
  <2>4. net' \subseteq Datagram
    BY <1>7 DEF ServerRecv, Consume, TypeOK
  <2>5. /\ sock' \in [Role -> [Path -> Sock \cup Token \cup {None}]]
        /\ sock'["client"] = sock["client"]
        /\ sock'["server"] = [sock["server"] EXCEPT ![m.path] = m.port]
        /\ remote' \in [Role -> [Path -> Sock \cup Token \cup {None}]]
        /\ remote'["client"] = remote["client"]
        /\ remote'["server"] = [remote["server"] EXCEPT ![m.path] = m.cs]
        /\ token' \in [Role -> [Path -> Token]]
    BY <1>7, <2>1, <1>0 DEF ServerRecv, Learn, TypeOK
  <2>6. TypeOK'
    BY <1>7, <2>1, <2>2, <2>3, <2>4, <2>5 DEF ServerRecv, TypeOK, serverOnly, clientOnly
  <2>7. Addressed'
    <3>1. sock["server"] \in [Path -> Sock \cup Token \cup {None}]
          /\ remote["server"] \in [Path -> Sock \cup Token \cup {None}]
      BY <1>0 DEF TypeOK
    <3>2. ASSUME NEW q \in Path
          PROVE  /\ sock'["server"][q] = IF q = m.path THEN m.port ELSE sock["server"][q]
                 /\ remote'["server"][q] = IF q = m.path THEN m.cs ELSE remote["server"][q]
      BY <2>5, <3>1
    <3>. QED  BY <2>1, <2>2, <2>5, <3>2 DEF Addressed
  <2>. QED  BY <2>6, <2>7
<1>8. ASSUME NEW m \in net, Discard(m) PROVE TypeInv'
  BY <1>8 DEF Discard, TypeOK, Addressed, ctx, serverOnly, clientOnly, tun
<1>9. ASSUME NEW r \in Role, Heartbeat(r) PROVE TypeInv'
  <2>1. alive' = [alive EXCEPT ![r] = [p \in Path |-> Decremented(alive[r][p])]]
    BY <1>9 DEF Heartbeat
  <2>2. \A n \in 0 .. TTL : Decremented(n) \in 0 .. n
    BY VpnAssumption DEF Decremented
  <2>3. /\ alive' \in [Role -> [Path -> 0 .. TTL]]
        /\ \A p \in Path : alive'["server"][p] > 0 => alive["server"][p] > 0
    BY <2>1, <2>2, <1>0, VpnAssumption DEF TypeOK
  <2>4. valid' \in [Path -> SUBSET Token]
    BY <1>9, VpnAssumption DEF Heartbeat, TypeOK, Token
  <2>5. UNION {Outgoing(r, p, Beat) : p \in Beats(r)} \subseteq Datagram
    BY OutgoingType DEF Beats
  <2>6. net' \subseteq Datagram
    BY <1>9, <2>5 DEF Heartbeat, Transmit, TypeOK
  <2>. QED  BY <1>9, <2>3, <2>4, <2>6 DEF Heartbeat, TypeOK, Addressed, clientOnly, tun
<1>10. ASSUME NEW r \in Role, Restart(r) PROVE TypeInv'
  <2>1. restarts' \in 0 .. MaxRestarts
    BY <1>10, VpnAssumption DEF Restart, TypeOK
  <2>. QED  BY <1>10, <2>1, ResetType DEF Restart, TypeOK, tun
<1>11. ASSUME NEW r \in Role, NEW d \in Packet, TunRead(r, d) PROVE TypeInv'
  <2>1. PICK q \in Path :
          /\ Chosen(cur[r], q, Up(r))
          /\ IF sock[r][q] = None
             THEN Reset(r, "aborted") /\ UNCHANGED net
             ELSE /\ cur' = [cur EXCEPT ![r] = q]
                  /\ IF q \in Up(r) THEN Transmit(Outgoing(r, q, d)) ELSE UNCHANGED net
                  /\ UNCHANGED <<ctx, serverOnly, clientOnly, status>>
    BY <1>11 DEF TunRead
  <2>2. /\ read' \in [Role -> SUBSET Packet] /\ written' = written
        /\ restarts' = restarts
    BY <1>11 DEF TunRead, TypeOK
  <2>3. CASE sock[r][q] = None
    BY <2>1, <2>2, <2>3, ResetType DEF TypeOK
  <2>4. CASE sock[r][q] # None
    <3>1. net' \subseteq Datagram
      <4>1. CASE q \in Up(r)
        BY <2>1, <2>4, <4>1, OutgoingType DEF Transmit, TypeOK
      <4>2. CASE q \notin Up(r)
        BY <2>1, <2>4, <4>2 DEF TypeOK
      <4>. QED  BY <4>1, <4>2
    <3>. QED  BY <2>1, <2>2, <2>4, <3>1
              DEF TypeOK, Addressed, ctx, serverOnly, clientOnly
  <2>. QED  BY <2>3, <2>4
<1>12. CASE UNCHANGED vars
  BY <1>12 DEF vars, ctx, serverOnly, clientOnly, tun, TypeOK, Addressed
<1>. QED  BY <1>2, <1>3, <1>4, <1>5, <1>6, <1>7, <1>8, <1>9, <1>10, <1>11, <1>12 DEF Next

LEMMA TypeInit == Init => TypeInv
<1>. SUFFICES ASSUME Init PROVE TypeInv
  OBVIOUS
<1>1. 0 \in Path /\ 0 \in Token /\ 0 \in 0 .. TTL /\ 0 \in 0 .. MaxRestarts
  BY PathCountAssumption, VpnAssumption DEF Path, Token
<1>. QED  BY <1>1 DEF Init, TypeInv, TypeOK, Addressed, Role

(* Type correctness of both processes and of every datagram, whatever      *)
(* faults may occur: nothing is sent from or to an address never set.      *)
THEOREM Typing == Spec => []TypeOK
BY TypeInit, TypeStep, PTL DEF Spec, TypeInv

-----------------------------------------------------------------------------
(* The abstract tunnel.                                                    *)

(* Every payload in flight was read from the tun device of its sender.     *)
Sent == \A m \in net : m.data = Beat \/ m.data \in read[Peer(m.to)]

LEMMA PeerPeer == \A r \in Role : Peer(r) \in Role /\ Peer(Peer(r)) = r
BY DEF Role, Peer

(* A step that takes nothing new into the network or out of a tun device.  *)
LEMMA SentKept ==
  ASSUME TypeInv, Sent, net' \subseteq net, UNCHANGED read
  PROVE  Sent'
BY DEF Sent

LEMMA SentStep == TypeInv /\ Sent /\ [Next]_vars => Sent'
<1> SUFFICES ASSUME TypeInv, Sent, [Next]_vars PROVE Sent'
  OBVIOUS
<1>1. CASE Hop
  BY <1>1, SentKept DEF Hop, tun
<1>2. ASSUME NEW w \in resolving, Resolve(w) PROVE Sent'
  BY <1>2, SentKept DEF Resolve, tun
<1>3. ASSUME NEW s \in Sock, WorkerTimeout(s) PROVE Sent'
  BY <1>3, SentKept DEF WorkerTimeout, tun
<1>4. ASSUME NEW p \in Path, NEW j \in Token, ServerWorker(p, j) PROVE Sent'
  BY <1>4, SentKept DEF ServerWorker, tun
<1>5. ASSUME NEW m \in net, ClientRecv(m) \/ ServerRecv(m) PROVE Sent'
  BY <1>5, SentKept DEF ClientRecv, ServerRecv, Accept, Consume
<1>6. ASSUME NEW m \in net, Discard(m) PROVE Sent'
  BY <1>6, SentKept DEF Discard, tun
<1>7. ASSUME NEW r \in Role, Heartbeat(r) PROVE Sent'
  <2>1. \A m \in UNION {Outgoing(r, p, Beat) : p \in Beats(r)} : m.data = Beat
    BY OutgoingType DEF Beats
  <2>2. \A m \in net' : m \in net \/ m.data = Beat
    BY <1>7, <2>1 DEF Heartbeat, Transmit
  <2>. QED  BY <1>7, <2>2 DEF Heartbeat, tun, Sent
<1>8. ASSUME NEW r \in Role, Restart(r) PROVE Sent'
  BY <1>8, SentKept DEF Restart, tun
<1>9. ASSUME NEW r \in Role, NEW d \in Packet, TunRead(r, d) PROVE Sent'
  <2>1. \A x \in Role : read[x] \subseteq read'[x]
    BY <1>9 DEF TunRead, TypeInv, TypeOK
  <2>2. d \in read'[r]
    BY <1>9 DEF TunRead, TypeInv, TypeOK
  <2>3. ASSUME NEW q \in Path, q \in Up(r), sock[r][q] # None, Transmit(Outgoing(r, q, d)),
               NEW m \in net'
        PROVE  m \in net \/ (m.to = Peer(r) /\ m.data = d)
    BY <2>3, OutgoingType DEF Transmit
  <2>4. \A m \in net' : m \in net \/ (m.to = Peer(r) /\ m.data = d)
    BY <1>9, <2>3 DEF TunRead
  <2>5. \A m \in net : Peer(m.to) \in Role
    BY PeerPeer DEF TypeInv, TypeOK, Datagram
  <2>. QED  BY <2>1, <2>2, <2>4, <2>5, PeerPeer DEF Sent
<1>10. CASE UNCHANGED vars
  BY <1>10, SentKept DEF vars, tun
<1>. QED  BY <1>1, <1>2, <1>3, <1>4, <1>5, <1>6, <1>7, <1>8, <1>9, <1>10 DEF Next

(* muon carries packets as the abstract tunnel does: a packet written to   *)
(* one tun device was read from the other and a heartbeat is never         *)
(* written, through loss, duplication, hops, aborts and restarts.          *)
THEOREM Implements == Spec => TunnelSpec
<1>1. Init => T!Init
  BY DEF Init, T!Init, Role, T!Role
<1>2. Init => Sent
  BY DEF Init, Sent
<1>3. TypeInv /\ Sent /\ [Next]_vars => [T!Next]_<<read, written>>
  <2> SUFFICES ASSUME TypeInv, Sent, [Next]_vars, ~UNCHANGED <<read, written>>
               PROVE  T!Next
    OBVIOUS
  <2>. USE DEF T!Role
  <2>1. ASSUME NEW m \in net, NEW r \in Role, NEW p, m.to = r, Accept(r, p, m.data)
        PROVE  T!Next
    <3>1. m.data # Beat /\ written' = [written EXCEPT ![r] = @ \cup {m.data}] /\ read' = read
      BY <2>1 DEF Accept
    <3>2. m.data \in Packet /\ m.data \in read[Peer(r)]
      BY <2>1, <3>1 DEF Sent, TypeInv, TypeOK, Datagram
    <3>. QED  BY <3>1, <3>2 DEF T!Next, T!Write, T!Peer, Peer, Role
  <2>2. ASSUME NEW r \in Role, NEW d \in Packet, TunRead(r, d) PROVE T!Next
    BY <2>2 DEF TunRead, T!Next, T!Read, Role
  <2>3. ASSUME NEW m \in net, ClientRecv(m) \/ ServerRecv(m) PROVE T!Next
    BY <2>1, <2>3 DEF ClientRecv, ServerRecv, Role
  <2>. QED  BY <2>2, <2>3
            DEF Next, vars, tun, Hop, Resolve, WorkerTimeout, ServerWorker, Discard,
                Heartbeat, Restart
<1>. QED  BY <1>1, <1>2, <1>3, TypeInit, TypeStep, SentStep, PTL DEF Spec, TunnelSpec, T!Spec

-----------------------------------------------------------------------------
(* Keys and sockets, when udplisten does not fail and the servers are      *)
(* given as addresses.  The invariant that is inductive for both sides:    *)

(* client: the current socket of a path belongs to its youngest worker,    *)
(* which no deadline can have reached;                                     *)
ClientCoherent ==
  /\ resolving = {}
  /\ \A p \in Path : sock["client"][p] # None =>
       /\ Open(sock["client"][p])
       /\ worker[sock["client"][p]].path = p
       /\ worker[sock["client"][p]].age = 0
       /\ worker[sock["client"][p]].token = token["client"][p]
       /\ remote["client"][p] = token["client"][p]
  /\ \A s \in Sock : Open(s) => sock["client"][worker[s].path] # None
  /\ \A p \in Path : alive["client"][p] > 0 => sock["client"][p] # None
  /\ status["client"] = "booting" => hop = 0 /\ cur["client"] = 0
  /\ status["client"] = "running" => sock["client"][cur["client"]] # None

(* server: no port is lost, and a running server has started all of them;  *)
ServerBooted ==
  /\ \A p \in Path, j \in Token : port[p][j] \in {"new", "open"}
  /\ \A p \in Path, j \in Token : port[p][j] = "open" => sock["server"][p] # None
  /\ status["server"] = "running" => \A p \in Path, j \in Token : port[p][j] = "open"

(* and the address a live server path replies to is a socket whose worker, *)
(* if it still runs, expects the token the reply is encrypted under.       *)
ReplyExpected ==
  \A p \in Path : alive["server"][p] > 0 /\ Open(remote["server"][p]) =>
    /\ worker[remote["server"][p]].path = p
    /\ worker[remote["server"][p]].token = token["server"][p]

KeyInv == ClientCoherent /\ ServerBooted /\ ServerPeerCoherent /\ ReplyExpected /\ KeysMatch

(* What ageing leaves alone.                                               *)
LEMMA AgedKeeps ==
  ASSUME TypeInv, NEW p \in Path, NEW s \in Sock
  PROVE  /\ Aged(p)[s] = None <=> worker[s] = None
         /\ worker[s] # None => /\ Aged(p)[s].path = worker[s].path
                                /\ Aged(p)[s].token = worker[s].token
                                /\ worker[s].path # p => Aged(p)[s] = worker[s]
<1>1. CASE worker[s] # None /\ worker[s].path = p /\ worker[s].age < Life
  <2>1. worker[s] \in Worker
    BY <1>1 DEF TypeInv, TypeOK
  <2>2. /\ [worker[s] EXCEPT !.age = @ + 1].path = worker[s].path
        /\ [worker[s] EXCEPT !.age = @ + 1].token = worker[s].token
    BY <2>1 DEF Worker
  <2>. QED  BY <1>1, <2>1, <2>2, OlderType, NoneDistinct DEF Aged
<1>2. CASE ~(worker[s] # None /\ worker[s].path = p /\ worker[s].age < Life)
  BY <1>2 DEF Aged
<1>. QED  BY <1>1, <1>2

(* Everything sent is encrypted as the receiving side expects.             *)
LEMMA OutgoingKeys ==
  ASSUME TypeInv, KeyInv, NEW r \in Role, NEW p \in Path, NEW d \in Packet \cup {Beat},
         sock[r][p] # None, r = "client" \/ p \in Up(r),
         NEW m \in Outgoing(r, p, d)
  PROVE  /\ m.key = m.port
         /\ Open(m.cs) => worker[m.cs].path = m.path /\ worker[m.cs].token = m.key
<1>1. CASE r = "client"
  <2>1. m = [to |-> "server", path |-> p, port |-> remote[r][p], cs |-> sock[r][p],
             key |-> token[r][p], data |-> d]
    BY <1>1 DEF Outgoing, Sources, KeyInv, ClientCoherent
  <2>. QED  BY <1>1, <2>1 DEF KeyInv, ClientCoherent
<1>2. CASE r = "server"
  <2>1. m = [to |-> "client", path |-> p, port |-> sock[r][p], cs |-> remote[r][p],
             key |-> token[r][p], data |-> d]
    BY <1>2 DEF Outgoing
  <2>2. alive["server"][p] > 0
    BY <1>2 DEF Up
  <2>. QED  BY <1>2, <2>1, <2>2 DEF KeyInv, ServerPeerCoherent, ReplyExpected
<1>. QED  BY <1>1, <1>2 DEF Role

(* A hop, when nothing fails: one fresh socket, its worker, its path.      *)
LEMMA HopKeys ==
  ASSUME Faults = {}, TypeInv, KeyInv, Hop
  PROVE  KeyInv'
<1>1. PICK t \in Token, s \in Sock :
        /\ remote' = [remote EXCEPT !["client"][hop] = t]
        /\ token' = [token EXCEPT !["client"][hop] = t]
        /\ Fresh(s)
        /\ worker' = [Aged(hop) EXCEPT ![s] = [path |-> hop, token |-> t, age |-> 0]]
        /\ sock' = [sock EXCEPT !["client"][hop] = s]
        /\ resolving' = resolving
  BY DEF Hop, StartWorker
<1>2. /\ hop \in Path /\ s # None /\ "client" \in Role /\ "server" \in Role
      /\ Aged(hop) \in [Sock -> Worker \cup {None}]
  BY NoneDistinct, AgedType DEF TypeInv, TypeOK, Role
<1>3. /\ sock'["server"] = sock["server"] /\ remote'["server"] = remote["server"]
      /\ token'["server"] = token["server"]
      /\ \A q \in Path :
           /\ sock'["client"][q] = IF q = hop THEN s ELSE sock["client"][q]
           /\ remote'["client"][q] = IF q = hop THEN t ELSE remote["client"][q]
           /\ token'["client"][q] = IF q = hop THEN t ELSE token["client"][q]
  BY <1>1, <1>2 DEF TypeInv, TypeOK
<1>4. worker'[s] = [path |-> hop, token |-> t, age |-> 0] /\ worker'[s] # None
  <2>1. [path |-> hop, token |-> t, age |-> 0] \in Worker
    BY <1>2, VpnAssumption DEF Worker
  <2>. QED  BY <1>1, <1>2, <2>1, NoneDistinct
<1>5. ASSUME NEW x \in Sock, x # s
      PROVE  /\ worker'[x] = None <=> worker[x] = None
             /\ worker[x] # None => /\ worker'[x].path = worker[x].path
                                    /\ worker'[x].token = worker[x].token
                                    /\ worker[x].path # hop => worker'[x] = worker[x]
  BY <1>1, <1>2, <1>5, AgedKeeps
<1>6. /\ worker[s] = None
      /\ \A m \in net : m.cs # s
      /\ \A q \in Path : remote["server"][q] # s
  BY <1>1 DEF Fresh, Open
<1>7. ClientCoherent'
  <2>1. resolving' = {}
    BY <1>1 DEF KeyInv, ClientCoherent
  <2>2. ASSUME NEW q \in Path, sock'["client"][q] # None
        PROVE  /\ worker'[sock'["client"][q]] # None
               /\ worker'[sock'["client"][q]].path = q
               /\ worker'[sock'["client"][q]].age = 0
               /\ worker'[sock'["client"][q]].token = token'["client"][q]
               /\ remote'["client"][q] = token'["client"][q]
    <3>1. CASE q = hop
      BY <1>3, <1>4, <3>1
    <3>2. CASE q # hop
      <4>1. sock["client"][q] \in Sock /\ sock["client"][q] # s /\ worker[sock["client"][q]].path = q
        BY <1>3, <1>6, <2>2, <3>2 DEF KeyInv, ClientCoherent, Open, TypeInv, TypeOK
      <4>. QED  BY <1>3, <1>5, <2>2, <3>2, <4>1 DEF KeyInv, ClientCoherent, Open
    <3>. QED  BY <3>1, <3>2
  <2>3. ASSUME NEW x \in Sock, worker'[x] # None
        PROVE  sock'["client"][worker'[x].path] # None
    <3>1. CASE x = s
      BY <1>2, <1>3, <1>4, <3>1
    <3>2. CASE x # s
      <4>1. worker[x] # None /\ worker'[x].path = worker[x].path /\ worker[x].path \in Path
        BY <1>5, <2>3, <3>2 DEF TypeInv, TypeOK, Worker
      <4>. QED  BY <1>2, <1>3, <4>1 DEF KeyInv, ClientCoherent, Open
    <3>. QED  BY <3>1, <3>2
  <2>4. \A q \in Path : alive'["client"][q] > 0 => sock'["client"][q] # None
    BY <1>2, <1>3 DEF Hop, KeyInv, ClientCoherent
  <2>5. /\ status["client"] # "aborted" /\ status'["client"] = "running"
        /\ cur' = cur /\ cur["client"] \in Path
    BY <1>2 DEF Hop, TypeInv, TypeOK
  <2>6. sock'["client"][cur'["client"]] # None
    BY <1>2, <1>3, <2>5 DEF KeyInv, ClientCoherent, TypeInv, TypeOK
  <2>. QED  BY <2>1, <2>2, <2>3, <2>4, <2>5, <2>6 DEF ClientCoherent, Open
<1>8. ServerBooted' /\ ServerPeerCoherent'
  BY <1>2, <1>3 DEF Hop, KeyInv, ServerBooted, ServerPeerCoherent, serverOnly, TypeInv, TypeOK
<1>9. ReplyExpected'
  <2>1. ASSUME NEW q \in Path, alive["server"][q] > 0, worker'[remote["server"][q]] # None
        PROVE  /\ worker'[remote["server"][q]].path = q
               /\ worker'[remote["server"][q]].token = token["server"][q]
    <3>1. remote["server"][q] \in Sock /\ remote["server"][q] # s
      BY <1>6, <2>1 DEF TypeInv, TypeOK, Addressed
    <3>. QED  BY <1>5, <2>1, <3>1 DEF KeyInv, ReplyExpected, Open
  <2>. QED  BY <1>3, <2>1 DEF Hop, ReplyExpected, Open
<1>10. KeysMatch'
  BY <1>5, <1>6 DEF Hop, KeyInv, PortKeys, KeysMatch, Open, TypeInv, TypeOK, Datagram
<1>. QED  BY <1>7, <1>8, <1>9, <1>10 DEF KeyInv

(* A process that stops takes its own half of the invariant with it and    *)
(* leaves the other half true.                                             *)
LEMMA ResetKeys ==
  ASSUME TypeInv, KeyInv, NEW r \in Role, NEW s \in {"booting", "aborted"}, Reset(r, s),
         net' \subseteq net
  PROVE  KeyInv'
<1>0. 0 \in Path /\ "client" \in Role /\ "server" \in Role
  BY PathCountAssumption DEF Path, Role
<1>1. CASE r = "client"
  <2>1. /\ \A p \in Path : alive'["client"][p] = 0 /\ sock'["client"][p] = None
        /\ \A x \in Sock : worker'[x] = None
        /\ resolving' = {} /\ hop' = 0
        /\ status'["client"] = s /\ cur'["client"] = 0
    BY <1>0, <1>1 DEF Reset, TypeInv, TypeOK
  <2>2. /\ alive'["server"] = alive["server"] /\ token'["server"] = token["server"]
        /\ sock'["server"] = sock["server"] /\ remote'["server"] = remote["server"]
        /\ status'["server"] = status["server"]
        /\ port' = port
    BY <1>0, <1>1 DEF Reset, TypeInv, TypeOK, serverOnly
  <2>3. ClientCoherent'
    BY <2>1 DEF ClientCoherent, Open
  <2>4. ServerBooted' /\ ServerPeerCoherent'
    BY <2>2 DEF KeyInv, ServerBooted, ServerPeerCoherent
  <2>5. ReplyExpected'
    <3>1. \A p \in Path : alive'["server"][p] > 0 => worker'[remote'["server"][p]] = None
      BY <2>1, <2>2 DEF TypeInv, TypeOK, Addressed
    <3>. QED  BY <3>1 DEF ReplyExpected, Open
  <2>6. KeysMatch'
    BY <2>1 DEF KeyInv, PortKeys, KeysMatch, Open, TypeInv, TypeOK, Datagram
  <2>. QED  BY <2>3, <2>4, <2>5, <2>6 DEF KeyInv
<1>2. CASE r = "server"
  <2>1. /\ \A p \in Path : alive'["server"][p] = 0
        /\ \A p \in Path, j \in Token : port'[p][j] = "new"
        /\ status'["server"] = s
    BY <1>0, <1>2 DEF Reset, TypeInv, TypeOK
  <2>2. /\ alive'["client"] = alive["client"] /\ token'["client"] = token["client"]
        /\ sock'["client"] = sock["client"] /\ remote'["client"] = remote["client"]
        /\ status'["client"] = status["client"] /\ cur'["client"] = cur["client"]
        /\ hop' = hop /\ worker' = worker /\ resolving' = resolving
    BY <1>0, <1>2 DEF Reset, TypeInv, TypeOK, clientOnly
  <2>3. ClientCoherent'
    BY <2>2 DEF KeyInv, ClientCoherent, Open
  <2>4. ServerBooted' /\ ServerPeerCoherent' /\ ReplyExpected'
    BY <2>1 DEF ServerBooted, ServerPeerCoherent, ReplyExpected
  <2>5. KeysMatch'
    BY <2>2 DEF KeyInv, PortKeys, KeysMatch, Open
  <2>. QED  BY <2>3, <2>4, <2>5 DEF KeyInv
<1>. QED  BY <1>1, <1>2 DEF Role

(* A server worker that starts binds its port and takes the path over.     *)
LEMMA ServerWorkerKeys ==
  ASSUME Faults = {}, TypeInv, KeyInv, NEW p \in Path, NEW j \in Token, ServerWorker(p, j)
  PROVE  KeyInv'
<1>0. "client" \in Role /\ "server" \in Role
  BY DEF Role
<1>1. /\ port' = [port EXCEPT ![p][j] = "open"]
      /\ sock' = [sock EXCEPT !["server"][p] = j]
      /\ alive' = [alive EXCEPT !["server"][p] = 0]
  BY DEF ServerWorker, AliveAtStart
<1>2. /\ sock'["client"] = sock["client"] /\ alive'["client"] = alive["client"]
      /\ \A q \in Path : sock'["server"][q] = IF q = p THEN j ELSE sock["server"][q]
      /\ \A q \in Path : alive'["server"][q] = IF q = p THEN 0 ELSE alive["server"][q]
      /\ \A q \in Path, i \in Token :
           port'[q][i] = IF q = p /\ i = j THEN "open" ELSE port[q][i]
  BY <1>0, <1>1 DEF TypeInv, TypeOK
<1>3. status'["client"] = status["client"]
  BY DEF ServerWorker, TypeInv, TypeOK
<1>4. ClientCoherent'
  BY <1>2, <1>3 DEF ServerWorker, KeyInv, ClientCoherent, Open, clientOnly
<1>5. ServerBooted'
  <2>1. ASSUME NEW q \in Path, NEW i \in Token, port'[q][i] = "open"
        PROVE  sock'["server"][q] # None
    BY <1>2, <2>1, NoneDistinct DEF KeyInv, ServerBooted
  <2>2. ASSUME status'["server"] = "running", NEW q \in Path, NEW i \in Token
        PROVE  port'[q][i] = "open"
    <3>1. p = PathCount - 1 /\ j = PortRange
      BY <2>2 DEF ServerWorker
    <3>2. q < p \/ (q = p /\ i < j) \/ (q = p /\ i = j)
      BY <3>1, PathCountAssumption, VpnAssumption DEF Path, Token
    <3>. QED  BY <3>2, <1>2 DEF ServerWorker, KeyInv, ServerBooted
  <2>3. \A q \in Path, i \in Token : port'[q][i] \in {"new", "open"}
    BY <1>2 DEF KeyInv, ServerBooted
  <2>. QED  BY <2>1, <2>2, <2>3 DEF ServerBooted
<1>6. ServerPeerCoherent'
  <2>1. \A q \in Path : token["server"][q] \in Token
    BY <1>0 DEF TypeInv, TypeOK
  <2>2. token' = token /\ remote' = remote
    BY DEF ServerWorker
  <2>. QED  BY <1>2, <2>1, <2>2 DEF KeyInv, ServerPeerCoherent
<1>7. ReplyExpected' /\ KeysMatch'
  BY <1>2 DEF ServerWorker, KeyInv, ReplyExpected, PortKeys, KeysMatch, Open, clientOnly
<1>. QED  BY <1>4, <1>5, <1>6, <1>7 DEF KeyInv

(* A datagram accepted by the server: its sender's worker expects replies  *)
(* under the token the datagram came under.                                *)
LEMMA ServerRecvKeys ==
  ASSUME TypeInv, KeyInv, NEW m \in net, ServerRecv(m)
  PROVE  KeyInv'
<1>0. /\ "client" \in Role /\ "server" \in Role
      /\ m.path \in Path /\ m.port \in Token /\ m.cs \in Sock
      /\ m.port # None /\ m.cs # None
  BY NoneDistinct DEF Role, TypeInv, TypeOK, Datagram
<1>1. /\ sock'["client"] = sock["client"] /\ remote'["client"] = remote["client"]
      /\ token'["client"] = token["client"] /\ alive'["client"] = alive["client"]
      /\ \A q \in Path :
           /\ sock'["server"][q] = IF q = m.path THEN m.port ELSE sock["server"][q]
           /\ remote'["server"][q] = IF q = m.path THEN m.cs ELSE remote["server"][q]
           /\ token'["server"][q] = IF q = m.path THEN m.port ELSE token["server"][q]
           /\ alive'["server"][q] = IF q = m.path THEN TTL ELSE alive["server"][q]
  BY <1>0 DEF ServerRecv, Learn, Accept, TypeInv, TypeOK
<1>2. UNCHANGED <<cur, port, hop, worker, resolving, status>> /\ net' \subseteq net
  BY DEF ServerRecv, Consume, serverOnly, clientOnly
<1>3. ClientCoherent'
  BY <1>1, <1>2 DEF KeyInv, ClientCoherent, Open
<1>4. ServerBooted'
  BY <1>0, <1>1, <1>2 DEF KeyInv, ServerBooted
<1>5. ServerPeerCoherent'
  BY <1>0, <1>1, <1>2 DEF ServerRecv, KeyInv, ServerPeerCoherent
<1>6. ReplyExpected'
  <2>1. m.key = m.port
    BY DEF ServerRecv
  <2>. QED  BY <1>0, <1>1, <1>2, <2>1 DEF KeyInv, PortKeys, KeysMatch, ReplyExpected, Open
<1>7. KeysMatch'
  BY <1>2 DEF KeyInv, PortKeys, KeysMatch, Open
<1>. QED  BY <1>3, <1>4, <1>5, <1>6, <1>7 DEF KeyInv

LEMMA KeyStep == Faults = {} /\ TypeInv /\ KeyInv /\ [Next]_vars => KeyInv'
<1> SUFFICES ASSUME Faults = {}, TypeInv, KeyInv, [Next]_vars PROVE KeyInv'
  OBVIOUS
<1>0. "client" \in Role /\ "server" \in Role
  BY DEF Role
<1>1. ASSUME UNCHANGED <<ctx, port, cur, hop, worker, resolving, status>>, net' \subseteq net
      PROVE  KeyInv'
  <2>. USE <1>1 DEF ctx
  <2>1. ClientCoherent'
    BY DEF KeyInv, ClientCoherent, Open
  <2>2. ServerBooted' /\ ServerPeerCoherent' /\ ReplyExpected'
    BY DEF KeyInv, ServerBooted, ServerPeerCoherent, ReplyExpected, Open
  <2>3. KeysMatch'
    BY DEF KeyInv, PortKeys, KeysMatch, Open
  <2>. QED  BY <2>1, <2>2, <2>3 DEF KeyInv
<1>2. CASE Hop
  BY <1>2, HopKeys
<1>3. ASSUME NEW w \in resolving, Resolve(w) PROVE KeyInv'
  BY DEF KeyInv, ClientCoherent
<1>4. ASSUME NEW s \in Sock, WorkerTimeout(s) PROVE KeyInv'
  <2>1. worker[s].age = Life /\ worker[s].age # 0
    BY <1>4, VpnAssumption DEF WorkerTimeout, Expired
  <2>2. /\ worker'[s] = None
        /\ \A x \in Sock : x # s => worker'[x] = worker[x]
        /\ UNCHANGED <<ctx, cur, port, hop, resolving, status, net>>
    BY <1>4 DEF WorkerTimeout, TypeInv, TypeOK, serverOnly
  <2>3. \A p \in Path : sock["client"][p] # None => sock["client"][p] # s /\ sock["client"][p] \in Sock
    BY <2>1 DEF KeyInv, ClientCoherent, TypeInv, TypeOK
  <2>4. ClientCoherent'
    BY <2>2, <2>3 DEF KeyInv, ClientCoherent, Open, ctx
  <2>5. ServerBooted' /\ ServerPeerCoherent'
    BY <2>2 DEF KeyInv, ServerBooted, ServerPeerCoherent, ctx
  <2>6. ReplyExpected'
    <3>1. \A p \in Path : alive["server"][p] > 0 => remote["server"][p] \in Sock
      BY DEF TypeInv, TypeOK, Addressed
    <3>. QED  BY <2>2, <3>1 DEF KeyInv, ReplyExpected, Open, ctx
  <2>7. KeysMatch'
    BY <2>2 DEF KeyInv, PortKeys, KeysMatch, Open, TypeInv, TypeOK, Datagram
  <2>. QED  BY <2>4, <2>5, <2>6, <2>7 DEF KeyInv
<1>5. ASSUME NEW p \in Path, NEW j \in Token, ServerWorker(p, j) PROVE KeyInv'
  BY <1>5, ServerWorkerKeys
<1>6. ASSUME NEW m \in net, ClientRecv(m) PROVE KeyInv'
  <2>1. /\ m.cs \in Sock /\ worker[m.cs] # None /\ worker[m.cs].path \in Path
    BY <1>6 DEF ClientRecv, Open, TypeInv, TypeOK, Datagram, Worker
  <2>2. /\ UNCHANGED <<token, sock, remote, cur, port, hop, worker, resolving, status>>
        /\ net' \subseteq net
        /\ alive'["server"] = alive["server"]
        /\ \A p \in Path : p # worker[m.cs].path => alive'["client"][p] = alive["client"][p]
    BY <1>0, <1>6, <2>1
       DEF ClientRecv, Accept, Consume, serverOnly, clientOnly, TypeInv, TypeOK
  <2>3. ClientCoherent'
    BY <2>1, <2>2 DEF KeyInv, ClientCoherent, Open
  <2>4. ServerBooted' /\ ServerPeerCoherent' /\ ReplyExpected' /\ KeysMatch'
    BY <2>2 DEF KeyInv, ServerBooted, ServerPeerCoherent, ReplyExpected, PortKeys, KeysMatch, Open
  <2>. QED  BY <2>3, <2>4 DEF KeyInv
<1>7. ASSUME NEW m \in net, ServerRecv(m) PROVE KeyInv'
  BY <1>7, ServerRecvKeys
<1>8. ASSUME NEW m \in net, Discard(m) PROVE KeyInv'
  BY <1>1, <1>8 DEF Discard, serverOnly, clientOnly
<1>9. ASSUME NEW r \in Role, Heartbeat(r) PROVE KeyInv'
  <2>1. \A x \in Role, p \in Path : alive'[x][p] > 0 => alive[x][p] > 0
    <3>1. \A n \in 0 .. TTL : Decremented(n) > 0 => n > 0
      BY VpnAssumption DEF Decremented
    <3>. QED  BY <1>9, <3>1 DEF Heartbeat, TypeInv, TypeOK
  <2>2. UNCHANGED <<token, sock, remote, cur, port, hop, worker, resolving, status>>
    BY <1>9 DEF Heartbeat, clientOnly
  <2>3. ClientCoherent' /\ ServerBooted' /\ ServerPeerCoherent' /\ ReplyExpected'
    BY <1>0, <2>1, <2>2
       DEF KeyInv, ClientCoherent, ServerBooted, ServerPeerCoherent, ReplyExpected, Open
  <2>4. KeysMatch'
    <3>1. \A m \in UNION {Outgoing(r, p, Beat) : p \in Beats(r)} :
            /\ m.key = m.port
            /\ Open(m.cs) => worker[m.cs].path = m.path /\ worker[m.cs].token = m.key
      BY OutgoingKeys DEF Beats
    <3>. QED  BY <1>9, <2>2, <3>1 DEF Heartbeat, Transmit, KeyInv, PortKeys, KeysMatch, Open
  <2>. QED  BY <2>3, <2>4 DEF KeyInv
<1>10. ASSUME NEW r \in Role, Restart(r) PROVE KeyInv'
  BY <1>10, ResetKeys DEF Restart
<1>11. ASSUME NEW r \in Role, NEW d \in Packet, TunRead(r, d) PROVE KeyInv'
  <2>1. PICK q \in Path :
          /\ Chosen(cur[r], q, Up(r))
          /\ IF sock[r][q] = None
             THEN Reset(r, "aborted") /\ UNCHANGED net
             ELSE /\ cur' = [cur EXCEPT ![r] = q]
                  /\ IF q \in Up(r) THEN Transmit(Outgoing(r, q, d)) ELSE UNCHANGED net
                  /\ UNCHANGED <<ctx, serverOnly, clientOnly, status>>
    BY <1>11 DEF TunRead
  <2>2. CASE sock[r][q] = None
    BY <2>1, <2>2, ResetKeys
  <2>3. CASE sock[r][q] # None
    <3>1. UNCHANGED <<alive, token, sock, remote, port, hop, worker, resolving, status>>
          /\ cur'["client"] = IF r = "client" THEN q ELSE cur["client"]
      BY <1>0, <2>1, <2>3 DEF ctx, serverOnly, clientOnly, TypeInv, TypeOK
    <3>2. status[r] = "running"
      BY <1>11 DEF TunRead
    <3>3. ClientCoherent' /\ ServerBooted' /\ ServerPeerCoherent' /\ ReplyExpected'
      BY <2>3, <3>1, <3>2
         DEF KeyInv, ClientCoherent, ServerBooted, ServerPeerCoherent, ReplyExpected, Open
    <3>4. KeysMatch'
      <4>1. ASSUME NEW m \in net'
            PROVE  m \in net \/ (q \in Up(r) /\ m \in Outgoing(r, q, d))
        BY <2>1, <2>3 DEF Transmit
      <4>. QED  BY <2>3, <3>1, <4>1, OutgoingKeys DEF KeyInv, PortKeys, KeysMatch, Open
    <3>. QED  BY <3>3, <3>4 DEF KeyInv
  <2>. QED  BY <2>2, <2>3
<1>12. CASE UNCHANGED vars
  BY <1>1, <1>12 DEF vars, serverOnly, clientOnly
<1>. QED  BY <1>2, <1>3, <1>4, <1>5, <1>6, <1>7, <1>8, <1>9, <1>10, <1>11, <1>12 DEF Next

LEMMA KeyInit == Init => KeyInv
<1>. SUFFICES ASSUME Init PROVE KeyInv
  OBVIOUS
<1>1. /\ \A r \in Role, p \in Path : alive[r][p] = 0 /\ sock[r][p] = None
      /\ \A s \in Sock : worker[s] = None
      /\ \A p \in Path, j \in Token : port[p][j] = "new"
      /\ \A r \in Role : status[r] = "booting" /\ cur[r] = 0
      /\ net = {} /\ hop = 0 /\ resolving = {}
  BY DEF Init
<1>2. "client" \in Role /\ "server" \in Role
  BY DEF Role
<1>. QED  BY <1>1, <1>2 DEF KeyInv, ClientCoherent, ServerBooted, ServerPeerCoherent,
                            ReplyExpected, PortKeys, KeysMatch, Open

LEMMA KeyInvariant ==
  ASSUME Faults = {} PROVE Spec => [](TypeInv /\ KeyInv)
<1>1. Init => TypeInv /\ KeyInv
  BY TypeInit, KeyInit
<1>2. TypeInv /\ KeyInv /\ [Next]_vars => (TypeInv /\ KeyInv)'
  BY TypeStep, KeyStep
<1>. QED  BY <1>1, <1>2, PTL DEF Spec

(* As long as sockets can be bound and servers are given as addresses, no  *)
(* datagram is ever rejected for its key: sender and receiver agree on the *)
(* token through hops, late and repeated datagrams, roaming and restarts.  *)
THEOREM KeysAgree ==
  ASSUME Faults = {} PROVE Spec => []KeysMatch
<1>1. TypeInv /\ KeyInv => KeysMatch
  BY DEF KeyInv
<1>. QED  BY <1>1, KeyInvariant, PTL

(* Nor does the client ever hold a closed socket in ctx.paths[].sock,      *)
(* however long or short the deadline, as long as a hop comes before it.   *)
THEOREM SocketsCurrent ==
  ASSUME Faults = {} PROVE Spec => []ClientSockCurrent
<1>1. TypeInv /\ KeyInv => ClientSockCurrent
  BY DEF KeyInv, ClientCoherent, ClientSockCurrent
<1>. QED  BY <1>1, KeyInvariant, PTL

(* Nor does the assertion of udp_sender fail: the path on which the        *)
(* rotation stops has a socket, for any number of paths.                   *)
THEOREM AssertionHolds ==
  ASSUME Faults = {} PROVE Spec => []SenderHasSocket
<1>1. TypeInv /\ KeyInv => SenderHasSocket
  <2> SUFFICES ASSUME TypeInv, KeyInv, NEW r \in Role, status[r] = "running",
                      NEW q \in Path, Chosen(cur[r], q, Up(r))
               PROVE  sock[r][q] # None
    BY DEF SenderHasSocket
  <2>1. CASE r = "client"
    <3>1. q \in Up(r) \/ q = cur[r]
      BY DEF Chosen
    <3>. QED  BY <2>1, <3>1 DEF KeyInv, ClientCoherent, Up
  <2>2. CASE r = "server"
    <3>1. 0 \in Token
      BY VpnAssumption DEF Token
    <3>. QED  BY <2>2, <3>1 DEF KeyInv, ServerBooted
  <2>. QED  BY <2>1, <2>2 DEF Role
<1>. QED  BY <1>1, KeyInvariant, PTL

(* Nor is a path in use that cannot send: one that is alive has a socket,  *)
(* and the client's is open.                                               *)
THEOREM AliveSends ==
  ASSUME Faults = {} PROVE Spec => []AliveCanSend
<1>1. TypeInv /\ KeyInv => AliveCanSend
  <2> SUFFICES ASSUME TypeInv, KeyInv, NEW r \in Role, NEW p \in Up(r)
               PROVE  sock[r][p] # None /\ (r = "client" => Open(sock[r][p]))
    BY DEF AliveCanSend
  <2>1. p \in Path /\ alive[r][p] > 0
    BY DEF Up
  <2>2. CASE r = "client"
    BY <2>1, <2>2 DEF KeyInv, ClientCoherent
  <2>3. CASE r = "server"
    BY <2>1, <2>3 DEF TypeInv, Addressed
  <2>. QED  BY <2>2, <2>3 DEF Role
<1>. QED  BY <1>1, KeyInvariant, PTL

-----------------------------------------------------------------------------
(* The server's peer, whatever faults there are.  A step that leaves the   *)
(* server's fields alone, or only runs its paths down, keeps it.           *)
LEMMA PeerKept ==
  ASSUME ServerPeerCoherent,
         \A p \in Path :
           /\ alive'["server"][p] > 0 => alive["server"][p] > 0
           /\ sock'["server"][p] = sock["server"][p]
           /\ token'["server"][p] = token["server"][p]
           /\ remote'["server"][p] = remote["server"][p],
         port' = port
  PROVE  ServerPeerCoherent'
BY DEF ServerPeerCoherent

LEMMA PeerReset ==
  ASSUME TypeInv, ServerPeerCoherent, NEW r \in Role, NEW s, Reset(r, s)
  PROVE  ServerPeerCoherent'
<1>0. "server" \in Role /\ "client" \in Role
  BY DEF Role
<1>1. CASE r = "server"
  <2>1. \A p \in Path : alive'["server"][p] = 0
    BY <1>0, <1>1 DEF Reset, TypeInv, TypeOK
  <2>. QED  BY <2>1 DEF ServerPeerCoherent
<1>2. CASE r = "client"
  <2>1. /\ alive'["server"] = alive["server"] /\ sock'["server"] = sock["server"]
        /\ token'["server"] = token["server"] /\ remote'["server"] = remote["server"]
        /\ port' = port
    BY <1>0, <1>2 DEF Reset, serverOnly, TypeInv, TypeOK
  <2>. QED  BY <2>1, PeerKept
<1>. QED  BY <1>1, <1>2 DEF Role

LEMMA PeerStep == TypeInv /\ ServerPeerCoherent /\ [Next]_vars => ServerPeerCoherent'
<1> SUFFICES ASSUME TypeInv, ServerPeerCoherent, [Next]_vars PROVE ServerPeerCoherent'
  OBVIOUS
<1>0. "server" \in Role /\ "client" \in Role
  BY DEF Role
<1>1. ASSUME UNCHANGED <<ctx, port>> PROVE ServerPeerCoherent'
  BY <1>1, PeerKept DEF ctx
<1>2. ASSUME NEW p \in Path, NEW t \in Token, NEW age, NEW ws, StartWorker(p, t, age, ws),
             UNCHANGED <<alive, port>>
      PROVE  ServerPeerCoherent'
  <2>1. /\ remote'["server"] = remote["server"] /\ token'["server"] = token["server"]
        /\ sock'["server"] = sock["server"]
    BY <1>0, <1>2 DEF StartWorker, TypeInv, TypeOK
  <2>. QED  BY <1>2, <2>1, PeerKept
<1>3. CASE Hop
  <2>1. hop \in Path
    BY DEF TypeInv, TypeOK
  <2>2. PICK t \in Token :
          IF "dns" \in Faults THEN UNCHANGED <<remote, token, sock>>
                              ELSE StartWorker(hop, t, 0, Aged(hop))
    BY <1>3 DEF Hop
  <2>3. UNCHANGED <<alive, port>>
    BY <1>3 DEF Hop, serverOnly
  <2>. QED  BY <1>1, <1>2, <2>1, <2>2, <2>3 DEF ctx
<1>4. ASSUME NEW w \in resolving, Resolve(w) PROVE ServerPeerCoherent'
  <2>1. w.path \in Path /\ w.token \in Token
    BY DEF TypeInv, TypeOK
  <2>2. PICK age \in 0 .. Life : StartWorker(w.path, w.token, age, worker)
    BY <1>4 DEF Resolve
  <2>3. UNCHANGED <<alive, port>>
    BY <1>4 DEF Resolve, serverOnly
  <2>. QED  BY <1>2, <2>1, <2>2, <2>3
<1>5. ASSUME NEW p \in Path, NEW j \in Token, ServerWorker(p, j) PROVE ServerPeerCoherent'
  <2>1. /\ \A q \in Path : alive'["server"][q] = IF q = p THEN 0 ELSE alive["server"][q]
        /\ \A q \in Path : q # p => sock'["server"][q] = sock["server"][q]
        /\ \A q \in Path : q # p => port'[q] = port[q]
        /\ UNCHANGED <<token, remote>>
    BY <1>0, <1>5 DEF ServerWorker, AliveAtStart, TypeInv, TypeOK
  <2>. QED  BY <2>1 DEF ServerPeerCoherent
<1>6. ASSUME NEW m \in net, ClientRecv(m) PROVE ServerPeerCoherent'
  <2>1. /\ alive'["server"] = alive["server"]
        /\ UNCHANGED <<sock, token, remote, port>>
    BY <1>0, <1>6 DEF ClientRecv, Accept, serverOnly, TypeInv, TypeOK
  <2>. QED  BY <2>1, PeerKept
<1>7. ASSUME NEW m \in net, ServerRecv(m) PROVE ServerPeerCoherent'
  <2>1. m.path \in Path /\ m.port \in Token /\ m.cs \in Sock /\ m.cs # None
    BY NoneDistinct DEF TypeInv, TypeOK, Datagram
  <2>2. /\ port' = port /\ port[m.path][m.port] = "open"
        /\ \A q \in Path :
             /\ sock'["server"][q] = IF q = m.path THEN m.port ELSE sock["server"][q]
             /\ remote'["server"][q] = IF q = m.path THEN m.cs ELSE remote["server"][q]
             /\ token'["server"][q] = IF q = m.path THEN m.port ELSE token["server"][q]
             /\ q # m.path => alive'["server"][q] = alive["server"][q]
    BY <1>0, <1>7, <2>1 DEF ServerRecv, Learn, Accept, serverOnly, TypeInv, TypeOK
  <2>. QED  BY <2>1, <2>2 DEF ServerPeerCoherent
<1>8. ASSUME NEW r \in Role, Heartbeat(r) PROVE ServerPeerCoherent'
  <2>1. \A n \in 0 .. TTL : Decremented(n) > 0 => n > 0
    BY VpnAssumption DEF Decremented
  <2>2. \A p \in Path : alive'["server"][p] > 0 => alive["server"][p] > 0
    BY <1>0, <1>8, <2>1 DEF Heartbeat, TypeInv, TypeOK
  <2>. QED  BY <1>8, <2>2, PeerKept DEF Heartbeat
<1>9. ASSUME NEW r \in Role, NEW d \in Packet, TunRead(r, d) PROVE ServerPeerCoherent'
  <2>1. (\E s : Reset(r, s)) \/ UNCHANGED <<ctx, serverOnly>>
    BY <1>9 DEF TunRead
  <2>. QED  BY <1>1, <2>1, PeerReset DEF serverOnly
<1>10. ASSUME NEW r \in Role, Restart(r) PROVE ServerPeerCoherent'
  BY <1>10, PeerReset DEF Restart
<1>11. CASE \/ \E s \in Sock : WorkerTimeout(s)
            \/ \E m \in net : Discard(m)
            \/ UNCHANGED vars
  BY <1>1, <1>11 DEF WorkerTimeout, Discard, vars, serverOnly
<1>. QED  BY <1>3, <1>4, <1>5, <1>6, <1>7, <1>8, <1>9, <1>10, <1>11 DEF Next

(* Under every fault modelled, failing binds and late names included: a    *)
(* server path that is alive replies from an open port under its token, to *)
(* an address it has heard from.                                           *)
THEOREM PeerComplete == Spec => []ServerPeerCoherent
<1>1. Init => ServerPeerCoherent
  BY DEF Init, ServerPeerCoherent, Role
<1>. QED  BY <1>1, TypeInit, TypeStep, PeerStep, PTL DEF Spec

-----------------------------------------------------------------------------
(* The keys, whatever faults there are.  A client path with a socket has   *)
(* the token of its remote port beside it, a worker's path has a socket,   *)
(* and so has a path that hears.                                           *)
ClientPaired ==
  /\ \A p \in Path : sock["client"][p] # None => remote["client"][p] = token["client"][p]
  /\ \A s \in Sock : worker[s] # None => sock["client"][worker[s].path] # None
  /\ \A p \in Path : alive["client"][p] > 0 => sock["client"][p] # None

FaultInv == ServerPeerCoherent /\ ClientPaired /\ PortKeys

(* Ageing neither opens nor moves a worker.                                *)
LEMMA AgedOpen ==
  ASSUME TypeInv, NEW p \in Path, NEW s \in Sock, Aged(p)[s] # None
  PROVE  worker[s] # None /\ Aged(p)[s].path = worker[s].path
<1>1. CASE worker[s] # None /\ worker[s].path = p /\ worker[s].age < Life
  <2>1. worker[s] \in Worker /\ Aged(p)[s] = [worker[s] EXCEPT !.age = @ + 1]
    BY <1>1 DEF Aged, TypeInv, TypeOK
  <2>. QED  BY <1>1, <2>1 DEF Worker
<1>2. CASE ~(worker[s] # None /\ worker[s].path = p /\ worker[s].age < Life)
  <2>1. Aged(p)[s] = worker[s]
    BY <1>2 DEF Aged
  <2>. QED  BY <2>1
<1>. QED  BY <1>1, <1>2

(* Whatever a process sends is under the token of its server port.         *)
LEMMA OutgoingPortKeys ==
  ASSUME TypeInv, FaultInv, NEW r \in Role, NEW p \in Path, NEW d,
         sock[r][p] # None, r = "client" \/ p \in Up(r),
         NEW m \in Outgoing(r, p, d)
  PROVE  m.key = m.port
<1>1. CASE r = "client"
  <2>1. m.key = token["client"][p] /\ m.port = remote["client"][p]
    BY <1>1 DEF Outgoing
  <2>. QED  BY <1>1, <2>1 DEF FaultInv, ClientPaired
<1>2. CASE r = "server"
  <2>1. m.key = token["server"][p] /\ m.port = sock["server"][p]
    BY <1>2 DEF Outgoing
  <2>2. alive["server"][p] > 0
    BY <1>2 DEF Up
  <2>. QED  BY <2>1, <2>2 DEF FaultInv, ServerPeerCoherent
<1>. QED  BY <1>1, <1>2 DEF Role

(* A step that leaves the client's ends alone, or runs its paths down.     *)
LEMMA PairedKept ==
  ASSUME ClientPaired, UNCHANGED worker,
         \A p \in Path :
           /\ alive'["client"][p] > 0 => alive["client"][p] > 0
           /\ sock'["client"][p] = sock["client"][p]
           /\ token'["client"][p] = token["client"][p]
           /\ remote'["client"][p] = remote["client"][p],
         \A s \in Sock : worker[s] # None => worker[s].path \in Path
  PROVE  ClientPaired'
BY DEF ClientPaired

(* A worker that starts, bound or not, at once or after its name resolved. *)
LEMMA PairedStart ==
  ASSUME TypeInv, ClientPaired, NEW p \in Path, NEW t \in Token, NEW age \in 0 .. Life,
         NEW ws \in [Sock -> Worker \cup {None}],
         \A s \in Sock : ws[s] # None => worker[s] # None /\ ws[s].path = worker[s].path,
         StartWorker(p, t, age, ws), alive' = alive
  PROVE  ClientPaired'
<1>0. "client" \in Role
  BY DEF Role
<1>1. \A q \in Path :
        /\ remote'["client"][q] = IF q = p THEN t ELSE remote["client"][q]
        /\ token'["client"][q] = IF q = p THEN t ELSE token["client"][q]
  BY <1>0 DEF StartWorker, TypeInv, TypeOK
<1>2. \A s \in Sock : worker[s] # None => worker[s].path \in Path
  BY DEF TypeInv, TypeOK, Worker
<1>3. CASE worker' = ws /\ sock' = sock
  BY <1>1, <1>2, <1>3 DEF ClientPaired
<1>4. ASSUME NEW s \in Sock,
             worker' = [ws EXCEPT ![s] = [path |-> p, token |-> t, age |-> age]],
             sock' = [sock EXCEPT !["client"][p] = s]
      PROVE  ClientPaired'
  <2>1. \A q \in Path : sock'["client"][q] = IF q = p THEN s ELSE sock["client"][q]
    BY <1>0, <1>4 DEF TypeInv, TypeOK
  <2>2. s # None
    BY NoneDistinct
  <2>3. ASSUME NEW x \in Sock, worker'[x] # None
        PROVE  sock'["client"][worker'[x].path] # None
    <3>1. CASE x = s
      <4>1. worker'[x].path = p
        BY <1>4, <3>1
      <4>. QED  BY <2>1, <2>2, <4>1
    <3>2. CASE x # s
      <4>1. worker'[x] = ws[x]
        BY <1>4, <3>2
      <4>2. worker[x] # None /\ worker'[x].path = worker[x].path /\ worker[x].path \in Path
        BY <1>2, <2>3, <4>1
      <4>. QED  BY <2>1, <2>2, <4>2 DEF ClientPaired
    <3>. QED  BY <3>1, <3>2
  <2>4. \A q \in Path :
          /\ sock'["client"][q] # None => remote'["client"][q] = token'["client"][q]
          /\ alive'["client"][q] > 0 => sock'["client"][q] # None
    BY <1>1, <2>1, <2>2 DEF ClientPaired
  <2>. QED  BY <2>3, <2>4 DEF ClientPaired
<1>. QED  BY <1>3, <1>4 DEF StartWorker

LEMMA PairedReset ==
  ASSUME TypeInv, ClientPaired, NEW r \in Role, NEW s, Reset(r, s)
  PROVE  ClientPaired'
<1>0. "server" \in Role /\ "client" \in Role
  BY DEF Role
<1>1. CASE r = "client"
  <2>1. /\ \A p \in Path : sock'["client"][p] = None /\ alive'["client"][p] = 0
        /\ \A x \in Sock : worker'[x] = None
    BY <1>0, <1>1 DEF Reset, TypeInv, TypeOK
  <2>. QED  BY <2>1 DEF ClientPaired
<1>2. CASE r = "server"
  <2>1. /\ alive'["client"] = alive["client"] /\ sock'["client"] = sock["client"]
        /\ token'["client"] = token["client"] /\ remote'["client"] = remote["client"]
        /\ worker' = worker
    BY <1>0, <1>2 DEF Reset, clientOnly, TypeInv, TypeOK
  <2>. QED  BY <2>1 DEF ClientPaired
<1>. QED  BY <1>1, <1>2 DEF Role

LEMMA PairedStep == TypeInv /\ ClientPaired /\ [Next]_vars => ClientPaired'
<1> SUFFICES ASSUME TypeInv, ClientPaired, [Next]_vars PROVE ClientPaired'
  OBVIOUS
<1>0. "server" \in Role /\ "client" \in Role
  BY DEF Role
<1>1. \A s \in Sock : worker[s] # None => worker[s].path \in Path
  BY DEF TypeInv, TypeOK, Worker
<1>2. CASE UNCHANGED <<ctx, worker>>
  BY <1>1, <1>2, PairedKept DEF ctx
<1>3. CASE Hop
  <2>1. hop \in Path /\ Aged(hop) \in [Sock -> Worker \cup {None}] /\ 0 \in 0 .. Life
    BY AgedType, VpnAssumption DEF TypeInv, TypeOK
  <2>2. PICK t \in Token :
          IF "dns" \in Faults THEN worker' = Aged(hop) /\ UNCHANGED <<remote, token, sock>>
                              ELSE StartWorker(hop, t, 0, Aged(hop))
    BY <1>3 DEF Hop
  <2>3. alive' = alive
    BY <1>3 DEF Hop
  <2>4. \A s \in Sock : Aged(hop)[s] # None =>
          worker[s] # None /\ Aged(hop)[s].path = worker[s].path
    BY <2>1, AgedOpen
  <2>5. CASE "dns" \in Faults
    BY <1>1, <2>2, <2>3, <2>4, <2>5 DEF ClientPaired
  <2>6. CASE "dns" \notin Faults
    BY <2>1, <2>2, <2>3, <2>4, <2>6, PairedStart
  <2>. QED  BY <2>5, <2>6
<1>4. ASSUME NEW w \in resolving, Resolve(w) PROVE ClientPaired'
  <2>1. w.path \in Path /\ w.token \in Token /\ worker \in [Sock -> Worker \cup {None}]
    BY DEF TypeInv, TypeOK
  <2>2. PICK age \in 0 .. Life : StartWorker(w.path, w.token, age, worker)
    BY <1>4 DEF Resolve
  <2>3. alive' = alive
    BY <1>4 DEF Resolve
  <2>. QED  BY <2>1, <2>2, <2>3, PairedStart
<1>5. ASSUME NEW s \in Sock, WorkerTimeout(s) PROVE ClientPaired'
  <2>1. /\ UNCHANGED ctx
        /\ \A x \in Sock : worker'[x] # None => worker'[x] = worker[x]
    BY <1>5 DEF WorkerTimeout, TypeInv, TypeOK
  <2>. QED  BY <1>1, <2>1 DEF ClientPaired, ctx
<1>6. ASSUME NEW p \in Path, NEW j \in Token, ServerWorker(p, j) PROVE ClientPaired'
  <2>1. /\ alive'["client"] = alive["client"] /\ sock'["client"] = sock["client"]
        /\ UNCHANGED <<token, remote, worker>>
    BY <1>0, <1>6 DEF ServerWorker, AliveAtStart, clientOnly, TypeInv, TypeOK
  <2>. QED  BY <1>1, <2>1, PairedKept
<1>7. ASSUME NEW m \in net, ClientRecv(m) PROVE ClientPaired'
  <2>1. m.cs \in Sock /\ worker[m.cs] # None /\ worker[m.cs].path \in Path
    BY <1>1, <1>7 DEF ClientRecv, Open, TypeInv, TypeOK, Datagram
  <2>2. /\ \A p \in Path : p # worker[m.cs].path => alive'["client"][p] = alive["client"][p]
        /\ UNCHANGED <<token, sock, remote, worker>>
    BY <1>0, <1>7, <2>1 DEF ClientRecv, Accept, clientOnly, TypeInv, TypeOK
  <2>. QED  BY <2>1, <2>2 DEF ClientPaired
<1>8. ASSUME NEW m \in net, ServerRecv(m) PROVE ClientPaired'
  <2>1. /\ alive'["client"] = alive["client"] /\ sock'["client"] = sock["client"]
        /\ token'["client"] = token["client"] /\ remote'["client"] = remote["client"]
        /\ worker' = worker
    BY <1>0, <1>8 DEF ServerRecv, Learn, Accept, clientOnly, TypeInv, TypeOK
  <2>. QED  BY <1>1, <2>1, PairedKept
<1>9. ASSUME NEW r \in Role, Heartbeat(r) PROVE ClientPaired'
  <2>1. \A n \in 0 .. TTL : Decremented(n) > 0 => n > 0
    BY VpnAssumption DEF Decremented
  <2>2. \A p \in Path : alive'["client"][p] > 0 => alive["client"][p] > 0
    BY <1>0, <1>9, <2>1 DEF Heartbeat, TypeInv, TypeOK
  <2>. QED  BY <1>1, <1>9, <2>2, PairedKept DEF Heartbeat, clientOnly
<1>10. ASSUME NEW r \in Role, NEW d \in Packet, TunRead(r, d) PROVE ClientPaired'
  <2>1. (\E s : Reset(r, s)) \/ UNCHANGED <<ctx, worker>>
    BY <1>10 DEF TunRead, clientOnly
  <2>. QED  BY <1>2, <2>1, PairedReset
<1>11. ASSUME NEW r \in Role, Restart(r) PROVE ClientPaired'
  BY <1>11, PairedReset DEF Restart
<1>12. CASE (\E m \in net : Discard(m)) \/ UNCHANGED vars
  BY <1>2, <1>12 DEF Discard, vars, clientOnly
<1>. QED  BY <1>3, <1>4, <1>5, <1>6, <1>7, <1>8, <1>9, <1>10, <1>11, <1>12 DEF Next

(* Only a round of heartbeats and a packet read add to the network.        *)
LEMMA PortKeysStep == TypeInv /\ FaultInv /\ [Next]_vars => PortKeys'
<1> SUFFICES ASSUME TypeInv, FaultInv, [Next]_vars PROVE PortKeys'
  OBVIOUS
<1>1. CASE net' \subseteq net
  BY <1>1 DEF FaultInv, PortKeys
<1>2. ASSUME NEW r \in Role, Heartbeat(r) PROVE PortKeys'
  <2>1. \A m \in UNION {Outgoing(r, p, Beat) : p \in Beats(r)} : m.key = m.port
    BY OutgoingPortKeys DEF Beats
  <2>. QED  BY <1>2, <2>1 DEF Heartbeat, Transmit, FaultInv, PortKeys
<1>3. ASSUME NEW r \in Role, NEW d \in Packet, TunRead(r, d) PROVE PortKeys'
  <2>1. PICK q \in Path :
          IF sock[r][q] = None THEN UNCHANGED net
          ELSE IF q \in Up(r) THEN Transmit(Outgoing(r, q, d)) ELSE UNCHANGED net
    BY <1>3 DEF TunRead
  <2>2. CASE sock[r][q] = None \/ q \notin Up(r)
    BY <1>1, <2>1, <2>2
  <2>3. CASE sock[r][q] # None /\ q \in Up(r)
    <3>1. \A m \in Outgoing(r, q, d) : m.key = m.port
      BY <2>3, OutgoingPortKeys
    <3>. QED  BY <2>1, <2>3, <3>1 DEF Transmit, FaultInv, PortKeys
  <2>. QED  BY <2>2, <2>3
<1>4. ASSUME NEW m \in net, ClientRecv(m) \/ ServerRecv(m) \/ Discard(m) PROVE PortKeys'
  <2>1. net' \subseteq net
    BY <1>4 DEF ClientRecv, ServerRecv, Discard, Consume
  <2>. QED  BY <1>1, <2>1
<1>5. CASE \/ Hop
           \/ \E w \in resolving : Resolve(w)
           \/ \E s \in Sock : WorkerTimeout(s)
           \/ \E p \in Path, j \in Token : ServerWorker(p, j)
           \/ \E r \in Role : Restart(r)
           \/ UNCHANGED vars
  <2>1. net' = net
    BY <1>5 DEF Hop, Resolve, WorkerTimeout, ServerWorker, Restart, vars
  <2>. QED  BY <1>1, <2>1
<1>. QED  BY <1>2, <1>3, <1>4, <1>5 DEF Next

LEMMA FaultInit == Init => FaultInv
<1>. SUFFICES ASSUME Init PROVE FaultInv
  OBVIOUS
<1>1. /\ \A r \in Role, p \in Path : alive[r][p] = 0 /\ sock[r][p] = None
      /\ \A s \in Sock : worker[s] = None
      /\ net = {}
  BY DEF Init
<1>. QED  BY <1>1 DEF FaultInv, ServerPeerCoherent, ClientPaired, PortKeys, Role

LEMMA FaultInvariant == Spec => [](TypeInv /\ FaultInv)
<1>1. TypeInv /\ FaultInv /\ [Next]_vars => FaultInv'
  BY PeerStep, PairedStep, PortKeysStep DEF FaultInv
<1>. QED  BY <1>1, TypeInit, TypeStep, FaultInit, PTL DEF Spec

(* Under every fault modelled, even with a socket the client has closed    *)
(* and still sends through: what is in flight is under the token of the    *)
(* server port it runs to or from, so the server never rejects a datagram  *)
(* of its client for the key, nor replies under a token it has left.       *)
THEOREM PortKeysAgree == Spec => []PortKeys
<1>1. TypeInv /\ FaultInv => PortKeys
  BY DEF FaultInv
<1>. QED  BY <1>1, FaultInvariant, PTL

(* The assertion of udp_sender can fail only while every path is dead: as  *)
(* long as one is alive, the path the rotation stops on has a socket.      *)
AssertedWhileUp ==
  \A r \in Role, q \in Path : Up(r) # {} /\ Chosen(cur[r], q, Up(r)) => sock[r][q] # None

(* Under every fault modelled: binds that fail and names that resolve late *)
(* abort a process only before it has heard from its peer, or after every  *)
(* path has gone silent.                                                   *)
THEOREM AbortsOnlyWhenDead == Spec => []AssertedWhileUp
<1>1. TypeInv /\ FaultInv => AssertedWhileUp
  <2> SUFFICES ASSUME TypeInv, FaultInv, NEW r \in Role, NEW q \in Path,
                      Up(r) # {}, Chosen(cur[r], q, Up(r))
               PROVE  sock[r][q] # None
    BY DEF AssertedWhileUp
  <2>1. q \in Up(r)
    BY DEF Chosen
  <2>2. alive[r][q] > 0
    BY <2>1 DEF Up
  <2>. QED  BY <2>2 DEF TypeInv, Addressed, FaultInv, ClientPaired, Role
<1>. QED  BY <1>1, FaultInvariant, PTL
=============================================================================
