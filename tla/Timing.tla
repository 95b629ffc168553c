------------------------------- MODULE Timing -------------------------------
(***************************************************************************)
(* The clocks of the tunnel (src/src/vpn.c, src/src/totp.c): the slots of  *)
(* totp on two clocks that differ, the window of tokens the server         *)
(* accepts, the random period of heartbeat, the ttl of a path, and the     *)
(* deadline of the client's sockets, over a network that loses, delays and *)
(* repeats datagrams.  One path, and a range of ports that is not 0.       *)
(*                                                                         *)
(* All durations are in one unit, in the code the millisecond.  Instants   *)
(* are kept as ages, which grow with each Tick; no timer is ever late, and *)
(* what is due at an instant happens in any order.                         *)
(***************************************************************************)
EXTENDS Integers, FiniteSets

CONSTANTS
  Step,          \* TOTP_STEP, 500: the length of a slot and between two hops
  MinBeat, MaxBeat,  \* between two rounds of heartbeat: 333 .. 665
  TTL,           \* alive after a valid datagram, 5
  Life,          \* the timeout of a client's socket, 5000
  Window,        \* slots accepted on each side of the current one, 19
  Behind, Ahead, \* the client's clock is at most so far behind the server's,
                 \* or so far ahead of it
  Clocks,        \* when the client starts: the server's clock, modulo Step,
                 \* and how far the client's is ahead of it
  MaxDelay,      \* the longest a datagram is under way
  MaxLost,       \* heartbeats lost in a row before the path counts as cut
  MaxInFlight    \* bound: datagrams in the network when a packet is sent

ASSUME TimingAssumption ==
  /\ {Step, MinBeat, TTL} \subseteq Nat \ {0}
  /\ {MaxBeat, Life, Window, Behind, Ahead, MaxDelay, MaxLost, MaxInFlight} \subseteq Nat
  /\ MinBeat <= MaxBeat
  /\ Clocks \subseteq [phase : 0 .. Step - 1, skew : -Behind .. Ahead]

Role == {"client", "server"}
Peer(r) == IF r = "client" THEN "server" ELSE "client"

VARIABLES
  phase,    \* the server's clock, modulo Step
  skew,     \* the client's clock less the server's
  running,  \* the client runs; the server always does
  hop,      \* client: since client_hop last started a worker
  since,    \* of each process: since its last round of heartbeat
  straddle, \* server: how many of the calls of totp in that round, for the
            \* current and later slots, were made before a slot began among
            \* them; 0 if none began
  alive,    \* of each process: ctx.paths[].alive
  peer,     \* server: since the hop that opened the socket it replies to,
            \* while it is alive and replies
  net,      \* datagrams: receiver, time under way, time since the hop that
            \* gave the token and opened the client's socket
  quiet,    \* history: since the last valid datagram, while alive
  lost,     \* history: heartbeats to each process lost in a row
  cut       \* history: more than MaxLost were lost in a row, or a datagram
            \* fell into the gap that a straddled round may leave

clocks == <<phase, skew, running>>
history == <<lost, cut>>
vars == <<clocks, hop, since, straddle, alive, peer, net, quiet, history>>

-----------------------------------------------------------------------------
(* totp: the slot of an instant on the server's clock, up to a constant.   *)
Slot(t) == t \div Step

(* The slot the client's token is of.                                      *)
TokenSlot(age) == Slot(phase - age + skew)

(* heartbeat fills valid_tokens by 2 * Window + 1 calls of totp, for the   *)
(* slots 0 .. Window from the current one and then -1 .. -Window (POOL is  *)
(* 2 * Window + 2; element 1 stays 0).                                     *)
Calls == 0 .. 2 * Window
Offset(n) == IF n <= Window THEN n ELSE Window - n

(* Each call reads the clock anew, so that a slot may begin between two of *)
(* a round: the choices for straddle in a round at instant t.  (A slot     *)
(* that begins later leaves the tokens of the same slots as one that       *)
(* begins after the last call for the current or a later slot.)            *)
Astride(t) == IF t % Step = 0 THEN 0 .. Window + 1 ELSE {0}

(* The slot that was the current one for call n of the server's last round.*)
ReadSlot(n) == Slot(phase - since["server"]) - (IF n < straddle THEN 1 ELSE 0)

(* Faulty variant: the loops fill one element of valid_tokens less each.   *)
ValidTokenShort(age) ==
  \E n \in Calls \ {Window, 2 * Window} : TokenSlot(age) = ReadSlot(n) + Offset(n)

(* A token is in valid_tokens.                                             *)
ValidToken(age) == \E n \in Calls : TokenSlot(age) = ReadSlot(n) + Offset(n)

(* The gap: the slot between those of the last call before the slot began  *)
(* and of the first call after it.                                         *)
LeftOut(age) ==
  straddle \in 1 .. Window /\ TokenSlot(age) = ReadSlot(straddle) + straddle - 1

(* udp_worker of the client still receives on the socket of that hop.      *)
Open(age) == running /\ age < Life

Datagram(to, h) == [to |-> to, age |-> 0, hop |-> h]
Older(m) == [to |-> m.to, age |-> m.age + 1, hop |-> m.hop + 1]

(* The token and the sockets of what process r sends now.                  *)
HopOf(r) == IF r = "client" THEN hop ELSE peer

-----------------------------------------------------------------------------
(* client_hop: a new token and a new socket.                               *)
Hop ==
  /\ running /\ hop = Step
  /\ hop' = 0
  /\ UNCHANGED <<clocks, since, straddle, alive, peer, net, quiet, history>>

(* A heartbeat is sent; the network takes it or loses it.                  *)
SendBeat(r) ==
  LET to == Peer(r)
  IN  \/ /\ net' = net \cup {Datagram(to, HopOf(r))}
         /\ lost' = [lost EXCEPT ![to] = 0]
         /\ UNCHANGED cut
      \/ /\ net' = net
         /\ IF lost[to] < MaxLost
            THEN lost' = [lost EXCEPT ![to] = @ + 1] /\ UNCHANGED cut
            ELSE cut' = TRUE /\ UNCHANGED lost

(* Faulty variants: never quite down to 0; below it.                       *)
DecrementedToOne(n) == IF n > 1 THEN n - 1 ELSE n
DecrementedBelow(n) == n - 1

Decremented(n) == IF n > 0 THEN n - 1 ELSE n

(* One round of heartbeat; the server's tokens are computed by it too.     *)
Heartbeat(r) ==
  /\ r = "client" => running
  /\ since[r] >= MinBeat
  /\ since' = [since EXCEPT ![r] = 0]
  /\ straddle' \in IF r = "server" THEN Astride(phase) ELSE {straddle}
  /\ IF r = "client" \/ alive[r] > 0
     THEN SendBeat(r)
     ELSE UNCHANGED <<net, history>>
  /\ alive' = [alive EXCEPT ![r] = Decremented(@)]
  /\ quiet' = IF alive'[r] = 0 THEN [quiet EXCEPT ![r] = 0] ELSE quiet
  /\ peer' = IF alive'["server"] = 0 THEN 0 ELSE peer
  /\ UNCHANGED <<clocks, hop>>

(* udp_sender: a packet goes out over a path that is alive.                *)
SendPacket(r) ==
  /\ r = "client" => running
  /\ alive[r] > 0
  /\ Cardinality(net) < MaxInFlight
  /\ net' = net \cup {Datagram(Peer(r), HopOf(r))}
  /\ UNCHANGED <<clocks, hop, since, straddle, alive, peer, quiet, history>>

(* Faulty variant: the server stays with the address it heard first.       *)
LearnedOnce(m) == IF alive["server"] > 0 THEN peer ELSE m.hop

(* The server replies to where the datagram came from.                     *)
Learned(m) == m.hop

(* What udp_worker drops: a token not valid now, a socket already closed.  *)
Receives(m) == IF m.to = "server" THEN ValidToken(m.hop) ELSE Open(m.hop)

(* A datagram arrives, perhaps not for the last time.                      *)
Arrive(m) ==
  /\ m \in net
  /\ net' \in {net, net \ {m}}
  /\ IF Receives(m)
     THEN /\ alive' = [alive EXCEPT ![m.to] = TTL]
          /\ quiet' = [quiet EXCEPT ![m.to] = 0]
          /\ peer' = IF m.to = "server" THEN Learned(m) ELSE peer
     ELSE UNCHANGED <<alive, quiet, peer>>
  /\ cut' = (cut \/ (m.to = "server" /\ ~Receives(m) /\ LeftOut(m.hop)))
  /\ UNCHANGED <<clocks, hop, since, straddle, lost>>

(* The client ends; its sockets, its timers and what it knew are gone.     *)
Stop ==
  /\ running
  /\ running' = FALSE
  /\ hop' = 0
  /\ since' = [since EXCEPT !["client"] = 0]
  /\ alive' = [alive EXCEPT !["client"] = 0]
  /\ quiet' = [quiet EXCEPT !["client"] = 0]
  /\ UNCHANGED <<phase, skew, straddle, peer, net, history>>

(* Time passes, for what runs, until the next timer or arrival is due.     *)
Runs(r) == r = "server" \/ running

Tick ==
  /\ running => hop < Step
  /\ \A r \in Role : Runs(r) => since[r] < MaxBeat
  /\ \A m \in net : m.age < MaxDelay
  /\ phase' = (phase + 1) % Step
  /\ hop' = IF running THEN hop + 1 ELSE hop
  /\ since' = [r \in Role |-> IF Runs(r) THEN since[r] + 1 ELSE since[r]]
  /\ quiet' = [r \in Role |-> IF Runs(r) /\ alive[r] > 0 THEN quiet[r] + 1 ELSE quiet[r]]
  /\ peer' = IF alive["server"] > 0 THEN peer + 1 ELSE peer
  /\ net' = {Older(m) : m \in net}
  /\ UNCHANGED <<skew, running, straddle, alive, history>>

(* The client has just started, the server at some time before it.         *)
Init ==
  /\ \E c \in Clocks : phase = c.phase /\ skew = c.skew
  /\ running = TRUE
  /\ hop = 0
  /\ \E age \in 0 .. MaxBeat :
       /\ since = [r \in Role |-> IF r = "client" THEN MaxBeat ELSE age]
       /\ straddle \in Astride(phase - age)
  /\ alive = [r \in Role |-> 0]
  /\ peer = 0
  /\ net = {}
  /\ quiet = [r \in Role |-> 0]
  /\ lost = [r \in Role |-> 0]
  /\ cut = FALSE

Next ==
  \/ Hop \/ Stop \/ Tick
  \/ \E r \in Role : Heartbeat(r) \/ SendPacket(r)
  \/ \E m \in net : Arrive(m)

Spec == Init /\ [][Next]_vars

-----------------------------------------------------------------------------
(* What the constants must satisfy for the properties below; the constants *)
(* of the code do.                                                         *)
ClocksAgree ==
  Step + MaxDelay + Behind <= Window * Step /\ MaxBeat + Ahead < Window * Step
SocketsOutlast == Step + 2 * MaxDelay + TTL * MaxBeat < Life
HeardInTime == (MaxLost + 1) * MaxBeat + MaxDelay < (TTL - 1) * MinBeat

(* Types of the clocks, the processes and the network.                     *)
TypeOK ==
  /\ phase \in 0 .. Step - 1
  /\ skew \in -Behind .. Ahead
  /\ running \in BOOLEAN
  /\ hop \in 0 .. Step
  /\ since \in [Role -> 0 .. MaxBeat]
  /\ straddle \in 0 .. Window + 1
  /\ alive \in [Role -> 0 .. TTL]
  /\ peer \in Nat
  /\ net \subseteq [to : Role, age : 0 .. MaxDelay, hop : Nat]
  /\ quiet \in [Role -> Nat]
  /\ lost \in [Role -> 0 .. MaxLost]
  /\ cut \in BOOLEAN

(* However old the client's token, however long the datagram was under way *)
(* and however long ago the server computed valid_tokens, the server turns *)
(* a datagram of its client away in one case only: a slot began while the  *)
(* slots from the current one on were computed, and the token is of the    *)
(* one slot that then fell between two calls of totp.                      *)
FreshAccepted ==
  \A m \in net : m.to = "server" => ValidToken(m.hop) \/ LeftOut(m.hop)

(* The server may reply for a whole ttl to a socket the client has hopped  *)
(* away from, and the network deliver late; the client's old workers live  *)
(* long enough (5 * 1000 against 500) to receive all of it.                *)
RepliesHeard ==
  running => \A m \in net : m.to = "client" => Open(m.hop)

(* While the client runs, no more than MaxLost heartbeats are lost in a    *)
(* row and no datagram falls into the gap of a straddled round, no side    *)
(* ever gives up a path that is alive: not for the random periods, the     *)
(* delays, the hops, or the age of the tokens.                             *)
StaysAlive ==
  [][\A r \in Role : alive[r] > 0 /\ running' /\ ~cut' => alive'[r] > 0]_vars

(* alive as a failure detector: a dead peer is noticed within TTL rounds   *)
(* of heartbeat, a live one not doubted before TTL - 1 of the shortest.    *)
Earliest == (TTL - 1) * MinBeat
Latest == TTL * MaxBeat
ClientDetector == INSTANCE Detector WITH
  on <- running, trusted <- alive["client"] > 0, quiet <- quiet["client"]
ServerDetector == INSTANCE Detector WITH
  on <- TRUE, trusted <- alive["server"] > 0, quiet <- quiet["server"]
DetectorSpec == ClientDetector!Spec /\ ServerDetector!Spec
=============================================================================
