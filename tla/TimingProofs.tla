---------------------------- MODULE TimingProofs ----------------------------
(***************************************************************************)
(* Proofs about the clocks of the tunnel: for which periods, delays and    *)
(* differences of the clocks the properties of Timing hold.                *)
(***************************************************************************)
EXTENDS Timing, TLAPS

LEMMA Roles ==
  /\ "client" \in Role /\ "server" \in Role /\ "client" # "server"
  /\ \A r \in Role : r = "client" \/ r = "server"
  /\ \A r \in Role : Peer(r) \in Role /\ Peer(r) # r
BY DEF Role, Peer

LEMMA Positive ==
  /\ Step \in Nat /\ Step > 0
  /\ MinBeat \in Nat /\ MinBeat > 0
  /\ TTL \in Nat /\ TTL > 0
  /\ MaxBeat \in Nat /\ Life \in Nat /\ Window \in Nat
  /\ Behind \in Nat /\ Ahead \in Nat
  /\ MaxDelay \in Nat /\ MaxLost \in Nat /\ MaxInFlight \in Nat
  /\ MinBeat <= MaxBeat
BY TimingAssumption

(* What a step does to the network: it sends, delivers or ages.            *)
LEMMA DatagramType ==
  ASSUME TypeOK, NEW r \in Role
  PROVE  Datagram(Peer(r), HopOf(r)) \in [to : Role, age : 0 .. MaxDelay, hop : Nat]
BY Positive, Roles DEF TypeOK, Datagram, HopOf

LEMMA SendBeatType ==
  ASSUME TypeOK, NEW r \in Role, SendBeat(r)
  PROVE  /\ net' \subseteq [to : Role, age : 0 .. MaxDelay, hop : Nat]
         /\ lost' \in [Role -> 0 .. MaxLost]
         /\ cut' \in BOOLEAN
<1>1. Peer(r) \in Role
  BY Roles
<1>2. CASE /\ net' = net \cup {Datagram(Peer(r), HopOf(r))}
           /\ lost' = [lost EXCEPT ![Peer(r)] = 0] /\ UNCHANGED cut
  <2>1. net' \subseteq [to : Role, age : 0 .. MaxDelay, hop : Nat]
    BY <1>2, DatagramType DEF TypeOK
  <2>. QED  BY <1>1, <1>2, <2>1, Positive DEF TypeOK
<1>3. CASE /\ net' = net
           /\ IF lost[Peer(r)] < MaxLost
              THEN lost' = [lost EXCEPT ![Peer(r)] = @ + 1] /\ UNCHANGED cut
              ELSE cut' = TRUE /\ UNCHANGED lost
  <2>1. net' \subseteq [to : Role, age : 0 .. MaxDelay, hop : Nat]
    BY <1>3 DEF TypeOK
  <2>2. lost[Peer(r)] \in 0 .. MaxLost
    BY <1>1 DEF TypeOK
  <2>3. lost' \in [Role -> 0 .. MaxLost]
    BY <1>1, <1>3, <2>2, Positive DEF TypeOK
  <2>4. cut' \in BOOLEAN
    BY <1>3 DEF TypeOK
  <2>. QED  BY <2>1, <2>3, <2>4
<1>. QED  BY <1>2, <1>3 DEF SendBeat

LEMMA TypeStep == TypeOK /\ [Next]_vars => TypeOK'
<1> SUFFICES ASSUME TypeOK, [Next]_vars PROVE TypeOK'
  OBVIOUS
<1>. USE Positive, Roles
<1>1. CASE Hop
  BY <1>1 DEF Hop, TypeOK, clocks, history
<1>2. CASE Stop
  <2>1. running' \in BOOLEAN
    BY <1>2 DEF Stop
  <2>2. since' \in [Role -> 0 .. MaxBeat] /\ hop' \in 0 .. Step
    BY <1>2 DEF Stop, TypeOK
  <2>3. alive' \in [Role -> 0 .. TTL] /\ quiet' \in [Role -> Nat]
    BY <1>2 DEF Stop, TypeOK
  <2>. QED  BY <1>2, <2>1, <2>2, <2>3 DEF Stop, TypeOK, history
<1>3. CASE Tick
  <2>1. phase' \in 0 .. Step - 1
    <3>1. phase' = (phase + 1) % Step
      BY <1>3 DEF Tick
    <3>2. phase + 1 \in Int
      BY DEF TypeOK
    <3>. QED  BY <3>1, <3>2
  <2>2. hop' \in 0 .. Step
    <3>1. (running => hop < Step) /\ hop' = IF running THEN hop + 1 ELSE hop
      BY <1>3 DEF Tick
    <3>2. hop \in 0 .. Step
      BY DEF TypeOK
    <3>3. CASE running
      BY <3>1, <3>2, <3>3
    <3>4. CASE ~running
      BY <3>1, <3>2, <3>4
    <3>. QED  BY <3>3, <3>4
  <2>3. since' \in [Role -> 0 .. MaxBeat]
    <3>1. since' = [r \in Role |-> IF Runs(r) THEN since[r] + 1 ELSE since[r]]
      BY <1>3 DEF Tick
    <3>2. ASSUME NEW r \in Role
          PROVE  (IF Runs(r) THEN since[r] + 1 ELSE since[r]) \in 0 .. MaxBeat
      <4>1. since[r] \in 0 .. MaxBeat /\ (Runs(r) => since[r] < MaxBeat)
        BY <1>3 DEF Tick, TypeOK
      <4>2. CASE Runs(r)
        BY <4>1, <4>2
      <4>3. CASE ~Runs(r)
        BY <4>1, <4>3
      <4>. QED  BY <4>2, <4>3
    <3>. QED  BY <3>1, <3>2
  <2>4. quiet' \in [Role -> Nat]
    <3>1. quiet' = [r \in Role |-> IF Runs(r) /\ alive[r] > 0
                                    THEN quiet[r] + 1 ELSE quiet[r]]
      BY <1>3 DEF Tick
    <3>2. \A r \in Role : quiet[r] \in Nat
      BY DEF TypeOK
    <3>. QED  BY <3>1, <3>2
  <2>5. net' \subseteq [to : Role, age : 0 .. MaxDelay, hop : Nat]
    <3>1. net' = {Older(m) : m \in net}
      BY <1>3 DEF Tick
    <3>2. ASSUME NEW m \in net
          PROVE  Older(m) \in [to : Role, age : 0 .. MaxDelay, hop : Nat]
      <4>1. m \in [to : Role, age : 0 .. MaxDelay, hop : Nat]
        BY DEF TypeOK
      <4>2. m.age < MaxDelay
        BY <1>3 DEF Tick
      <4>. QED  BY <4>1, <4>2 DEF Older
    <3>. QED  BY <3>1, <3>2
  <2>6. peer' \in Nat
    <3>1. peer' = IF alive["server"] > 0 THEN peer + 1 ELSE peer
      BY <1>3 DEF Tick
    <3>. QED  BY <3>1 DEF TypeOK
  <2>. QED  BY <1>3, <2>1, <2>2, <2>3, <2>4, <2>5, <2>6 DEF Tick, TypeOK, history
<1>4. ASSUME NEW r \in Role, Heartbeat(r) PROVE TypeOK'
  <2>1. /\ net' \subseteq [to : Role, age : 0 .. MaxDelay, hop : Nat]
        /\ lost' \in [Role -> 0 .. MaxLost]
        /\ cut' \in BOOLEAN
    BY <1>4, SendBeatType DEF Heartbeat, TypeOK, history
  <2>2. since' \in [Role -> 0 .. MaxBeat]
    BY <1>4 DEF Heartbeat, TypeOK
  <2>3. alive[r] \in 0 .. TTL /\ Decremented(alive[r]) \in 0 .. TTL
    BY DEF TypeOK, Decremented
  <2>4. alive' \in [Role -> 0 .. TTL]
    BY <1>4, <2>3 DEF Heartbeat, TypeOK
  <2>5. quiet' \in [Role -> Nat]
    BY <1>4 DEF Heartbeat, TypeOK
  <2>6. straddle' \in 0 .. Window + 1
    BY <1>4 DEF Heartbeat, TypeOK, Astride
  <2>7. peer' \in Nat
    BY <1>4 DEF Heartbeat, TypeOK
  <2>. QED  BY <1>4, <2>1, <2>2, <2>4, <2>5, <2>6, <2>7 DEF Heartbeat, TypeOK, clocks
<1>5. ASSUME NEW r \in Role, SendPacket(r) PROVE TypeOK'
  BY <1>5, DatagramType DEF SendPacket, TypeOK, clocks, history
<1>6. ASSUME NEW m \in net, Arrive(m) PROVE TypeOK'
  <2>1. m \in [to : Role, age : 0 .. MaxDelay, hop : Nat]
    BY DEF TypeOK
  <2>2. alive' \in [Role -> 0 .. TTL] /\ quiet' \in [Role -> Nat]
    BY <1>6, <2>1 DEF Arrive, TypeOK
  <2>3. peer' \in Nat
    BY <1>6, <2>1 DEF Arrive, TypeOK, Learned
  <2>4. net' \subseteq [to : Role, age : 0 .. MaxDelay, hop : Nat]
    BY <1>6 DEF Arrive, TypeOK
  <2>5. cut' \in BOOLEAN
    BY <1>6 DEF Arrive
  <2>. QED  BY <1>6, <2>2, <2>3, <2>4, <2>5 DEF Arrive, TypeOK, clocks
<1>7. CASE UNCHANGED vars
  BY <1>7 DEF vars, TypeOK, clocks, history
<1>. QED  BY <1>1, <1>2, <1>3, <1>4, <1>5, <1>6, <1>7 DEF Next

LEMMA TypeInit == Init => TypeOK
<1> SUFFICES ASSUME Init PROVE TypeOK
  OBVIOUS
<1>1. since \in [Role -> 0 .. MaxBeat]
  BY Positive, Roles DEF Init
<1>2. running \in BOOLEAN /\ cut \in BOOLEAN
  BY DEF Init
<1>3. hop \in 0 .. Step /\ alive \in [Role -> 0 .. TTL] /\ quiet \in [Role -> Nat]
  BY Positive DEF Init
<1>4. lost \in [Role -> 0 .. MaxLost]
  BY Positive DEF Init
<1>5. straddle \in 0 .. Window + 1
  BY Positive DEF Init, Astride
<1>6. phase \in 0 .. Step - 1 /\ skew \in -Behind .. Ahead
  <2>1. PICK c \in Clocks : phase = c.phase /\ skew = c.skew
    BY DEF Init
  <2>. QED  BY <2>1, TimingAssumption
<1>. QED  BY <1>1, <1>2, <1>3, <1>4, <1>5, <1>6 DEF Init, TypeOK

(* Types of the clocks, the two processes and the network, in Spec.        *)
THEOREM Types == Spec => []TypeOK
BY TypeInit, TypeStep, PTL DEF Spec

-----------------------------------------------------------------------------
(* Floors and products of integers.                                        *)
LEMMA DivBounds ==
  ASSUME NEW x \in Int, NEW s \in Nat, s > 0
  PROVE  x \div s \in Int /\ (x \div s) * s <= x /\ x < (x \div s) * s + s
OBVIOUS

LEMMA Cancel ==
  ASSUME NEW a \in Int, NEW b \in Int, NEW s \in Nat, s > 0, a * s < b * s
  PROVE  a < b
OBVIOUS

LEMMA Product ==
  ASSUME NEW a \in Int, NEW b \in Int, NEW s \in Nat
  PROVE  /\ a * s \in Int
         /\ (a + 1) * s = a * s + s /\ (a - 1) * s = a * s - s
         /\ a <= b => a * s <= b * s
OBVIOUS

(* Instants no more than w slots apart are in slots no more than w apart.  *)
LEMMA SlotsApart ==
  ASSUME NEW x \in Int, NEW y \in Int, NEW s \in Nat, NEW w \in Nat,
         s > 0, x - y <= w * s
  PROVE  x \div s - y \div s <= w
<1>1. PICK a \in Int : a = x \div s /\ a * s <= x
  BY DivBounds
<1>2. PICK b \in Int : b = y \div s /\ y < b * s + s
  BY DivBounds
<1>3. a * s < (b + 1 + w) * s
  BY <1>1, <1>2
<1>4. a < b + 1 + w
  BY <1>3, Cancel
<1>. QED  BY <1>1, <1>2, <1>4

-----------------------------------------------------------------------------
(* The ages the constants bound.  A token on its way to the server is from *)
(* the hop at the time it was sent.                                        *)
TokenAge ==
  \A m \in net : m.to = "server" => m.hop <= Step + m.age

(* The silence of a path that is alive, between the rounds of heartbeat    *)
(* that have run alive down since: none is longer than MaxBeat, and all    *)
(* but the first are as long as MinBeat.                                   *)
Silence ==
  \A r \in Role :
    /\ alive[r] = 0 => quiet[r] = 0
    /\ alive[r] > 0 /\ Runs(r) =>
         /\ quiet[r] <= (TTL - alive[r]) * MaxBeat + since[r]
         /\ alive[r] < TTL => quiet[r] >= (TTL - 1 - alive[r]) * MinBeat + since[r]

(* The socket the server replies to was current when the silence began,    *)
(* but for the delay; and so are the replies under way.                    *)
PeerAge ==
  alive["server"] > 0 => peer <= Step + MaxDelay + quiet["server"]
ReplyAge ==
  \A m \in net : m.to = "client" =>
    m.hop <= Step + MaxDelay + TTL * MaxBeat + m.age

(* A client that has ended trusts nothing.                                 *)
Gone == ~running => alive["client"] = 0

(* A round of the server that was straddled took place as a slot began.    *)
Straddled ==
  straddle > 0 => \E q \in Int : phase - since["server"] = q * Step

AgeInv ==
  TypeOK /\ TokenAge /\ Silence /\ PeerAge /\ ReplyAge /\ Gone /\ Straddled

(* While a path of the server is alive the silence is at most a ttl.       *)
LEMMA SilenceOfServer ==
  ASSUME AgeInv, alive["server"] > 0
  PROVE  quiet["server"] <= TTL * MaxBeat
<1>1. /\ alive["server"] \in 0 .. TTL /\ since["server"] \in 0 .. MaxBeat
      /\ quiet["server"] \in Nat
  BY Roles DEF AgeInv, TypeOK
<1>2. quiet["server"] <= (TTL - alive["server"]) * MaxBeat + since["server"]
  BY Roles DEF AgeInv, Silence, Runs
<1>3. (TTL - alive["server"]) * MaxBeat <= (TTL - 1) * MaxBeat
  BY <1>1, Product, Positive
<1>. QED  BY <1>1, <1>2, <1>3, Product, Positive

(* What is sent, by a heartbeat or for a packet, has the ages required.    *)
LEMMA SentAges ==
  ASSUME AgeInv, NEW r \in Role, r = "server" => alive[r] > 0,
         NEW m, m = Datagram(Peer(r), HopOf(r))
  PROVE  /\ m.to = "server" => m.hop <= Step + m.age
         /\ m.to = "client" => m.hop <= Step + MaxDelay + TTL * MaxBeat + m.age
<1>1. m.to = Peer(r) /\ m.age = 0 /\ m.hop = HopOf(r)
  BY DEF Datagram
<1>2. CASE r = "client"
  <2>1. m.to = "server" /\ m.hop = hop /\ hop \in 0 .. Step
    BY <1>1, <1>2 DEF Peer, HopOf, AgeInv, TypeOK
  <2>. QED  BY <1>1, <2>1, Positive
<1>3. CASE r = "server"
  <2>1. m.to = "client" /\ m.hop = peer /\ peer \in Nat
    BY <1>1, <1>3 DEF Peer, HopOf, AgeInv, TypeOK
  <2>2. peer <= Step + MaxDelay + quiet["server"]
    BY <1>3 DEF AgeInv, PeerAge
  <2>3. quiet["server"] <= TTL * MaxBeat /\ quiet["server"] \in Nat
    BY <1>3, SilenceOfServer, Roles DEF AgeInv, TypeOK
  <2>4. TTL * MaxBeat \in Int
    BY Positive
  <2>. QED  BY <1>1, <2>1, <2>2, <2>3, <2>4, Positive
<1>. QED  BY <1>2, <1>3, Roles

LEMMA NetAges ==
  ASSUME AgeInv, NEW r \in Role, r = "server" => alive[r] > 0,
         net' \subseteq net \cup {Datagram(Peer(r), HopOf(r))}
  PROVE  TokenAge' /\ ReplyAge'
<1>1. ASSUME NEW m \in net'
      PROVE  /\ m.to = "server" => m.hop <= Step + m.age
             /\ m.to = "client" => m.hop <= Step + MaxDelay + TTL * MaxBeat + m.age
  <2>1. CASE m \in net
    BY <2>1 DEF AgeInv, TokenAge, ReplyAge
  <2>2. CASE m = Datagram(Peer(r), HopOf(r))
    BY <2>2, SentAges
  <2>. QED  BY <2>1, <2>2
<1>. QED  BY <1>1 DEF TokenAge, ReplyAge

LEMMA TickAges ==
  ASSUME AgeInv, Tick PROVE TokenAge' /\ ReplyAge'
<1>1. net' = {Older(m) : m \in net}
  BY DEF Tick
<1>2. ASSUME NEW m \in net
      PROVE  /\ Older(m).to = "server" => Older(m).hop <= Step + Older(m).age
             /\ Older(m).to = "client" =>
                  Older(m).hop <= Step + MaxDelay + TTL * MaxBeat + Older(m).age
  <2>1. m.age \in Nat /\ m.hop \in Nat /\ TTL * MaxBeat \in Int
    BY Positive DEF AgeInv, TypeOK
  <2>2. Older(m).to = m.to /\ Older(m).hop = m.hop + 1 /\ Older(m).age = m.age + 1
    BY DEF Older
  <2>3. /\ m.to = "server" => m.hop <= Step + m.age
        /\ m.to = "client" => m.hop <= Step + MaxDelay + TTL * MaxBeat + m.age
    BY DEF AgeInv, TokenAge, ReplyAge
  <2>. QED  BY <2>1, <2>2, <2>3, Positive
<1>. QED  BY <1>1, <1>2 DEF TokenAge, ReplyAge

(* The silence of process r, at each step that touches it.                 *)
LEMMA SilenceBeat ==
  ASSUME AgeInv, NEW r \in Role, Heartbeat(r) PROVE Silence'
<1>. USE Positive, Roles
<1>1. /\ since' = [since EXCEPT ![r] = 0] /\ running' = running
      /\ alive' = [alive EXCEPT ![r] = Decremented(alive[r])]
      /\ quiet' = IF alive'[r] = 0 THEN [quiet EXCEPT ![r] = 0] ELSE quiet
      /\ since[r] >= MinBeat /\ (r = "client" => running)
  BY DEF Heartbeat, clocks
<1>2. /\ alive \in [Role -> 0 .. TTL] /\ since \in [Role -> 0 .. MaxBeat]
      /\ quiet \in [Role -> Nat]
  BY DEF AgeInv, TypeOK
<1>3. Runs(r)
  BY <1>1 DEF Runs
<1>4. /\ alive[r] = 0 => quiet[r] = 0
      /\ alive[r] > 0 => quiet[r] <= (TTL - alive[r]) * MaxBeat + since[r]
      /\ alive[r] > 0 /\ alive[r] < TTL =>
           quiet[r] >= (TTL - 1 - alive[r]) * MinBeat + since[r]
  BY <1>3 DEF AgeInv, Silence
<1>5. /\ alive'[r] = IF alive[r] > 0 THEN alive[r] - 1 ELSE alive[r]
      /\ since'[r] = 0
      /\ quiet'[r] = IF alive'[r] = 0 THEN 0 ELSE quiet[r]
  BY <1>1, <1>2 DEF Decremented
<1>6. ASSUME alive'[r] > 0
      PROVE  /\ quiet'[r] <= (TTL - alive'[r]) * MaxBeat + since'[r]
             /\ quiet'[r] >= (TTL - 1 - alive'[r]) * MinBeat + since'[r]
  <2>1. alive[r] > 1 /\ alive'[r] = alive[r] - 1 /\ quiet'[r] = quiet[r]
    BY <1>2, <1>5, <1>6
  <2>2. (TTL - alive'[r]) * MaxBeat = (TTL - alive[r]) * MaxBeat + MaxBeat
    BY <1>2, <2>1
  <2>3. CASE alive[r] < TTL
    <3>1. (TTL - 1 - alive'[r]) * MinBeat = (TTL - 1 - alive[r]) * MinBeat + MinBeat
      BY <1>2, <2>1
    <3>. QED  BY <1>1, <1>2, <1>4, <1>5, <2>1, <2>2, <2>3, <3>1
  <2>4. CASE alive[r] = TTL
    <3>1. TTL - 1 - alive'[r] = 0
      BY <1>2, <2>1, <2>4
    <3>2. (TTL - 1 - alive'[r]) * MinBeat = 0
      BY <3>1
    <3>3. (TTL - alive[r]) * MaxBeat \in Int /\ quiet[r] \in Int /\ since[r] \in Int
      BY <1>2
    <3>4. quiet[r] <= (TTL - alive[r]) * MaxBeat + since[r] /\ since[r] <= MaxBeat
      BY <1>2, <1>4, <2>1
    <3>5. quiet[r] <= (TTL - alive'[r]) * MaxBeat
      BY <2>2, <3>3, <3>4
    <3>6. quiet'[r] = quiet[r] /\ since'[r] = 0 /\ quiet[r] >= 0
      BY <1>2, <1>5, <2>1
    <3>. QED  BY <2>2, <3>2, <3>3, <3>5, <3>6
  <2>. QED  BY <1>2, <2>3, <2>4
<1>7. ASSUME NEW q \in Role, q # r
      PROVE  alive'[q] = alive[q] /\ quiet'[q] = quiet[q] /\ since'[q] = since[q]
  BY <1>1, <1>2, <1>7
<1>8. ASSUME NEW q \in Role
      PROVE  /\ alive'[q] = 0 => quiet'[q] = 0
             /\ alive'[q] > 0 /\ Runs(q) =>
                  /\ quiet'[q] <= (TTL - alive'[q]) * MaxBeat + since'[q]
                  /\ alive'[q] < TTL =>
                       quiet'[q] >= (TTL - 1 - alive'[q]) * MinBeat + since'[q]
  <2>1. CASE q = r
    BY <1>5, <1>6, <2>1
  <2>2. CASE q # r
    BY <1>7, <2>2 DEF AgeInv, Silence
  <2>. QED  BY <2>1, <2>2
<1>9. \A q \in Role : Runs(q)' <=> Runs(q)
  BY <1>1 DEF Runs
<1>. QED  BY <1>8, <1>9 DEF Silence

LEMMA SilenceTick ==
  ASSUME AgeInv, Tick PROVE Silence'
<1>. USE Positive, Roles
<1>1. /\ alive \in [Role -> 0 .. TTL] /\ since \in [Role -> 0 .. MaxBeat]
      /\ quiet \in [Role -> Nat]
  BY DEF AgeInv, TypeOK
<1>2. /\ alive' = alive /\ running' = running
      /\ since' = [r \in Role |-> IF Runs(r) THEN since[r] + 1 ELSE since[r]]
      /\ quiet' = [r \in Role |-> IF Runs(r) /\ alive[r] > 0
                                  THEN quiet[r] + 1 ELSE quiet[r]]
  BY DEF Tick
<1>3. ASSUME NEW r \in Role
      PROVE  /\ alive[r] = 0 => quiet'[r] = 0
             /\ alive[r] > 0 /\ Runs(r) =>
                  /\ quiet'[r] <= (TTL - alive[r]) * MaxBeat + since'[r]
                  /\ alive[r] < TTL =>
                       quiet'[r] >= (TTL - 1 - alive[r]) * MinBeat + since'[r]
  <2>1. CASE alive[r] = 0
    BY <1>1, <1>2, <2>1 DEF AgeInv, Silence
  <2>2. CASE alive[r] > 0 /\ Runs(r)
    <3>1. since'[r] = since[r] + 1 /\ quiet'[r] = quiet[r] + 1
      BY <1>2, <2>2
    <3>2. /\ quiet[r] <= (TTL - alive[r]) * MaxBeat + since[r]
          /\ alive[r] < TTL => quiet[r] >= (TTL - 1 - alive[r]) * MinBeat + since[r]
      BY <2>2 DEF AgeInv, Silence
    <3>3. /\ (TTL - alive[r]) * MaxBeat \in Int /\ since[r] \in Int
          /\ (TTL - 1 - alive[r]) * MinBeat \in Int /\ quiet[r] \in Int
      <4>1. alive[r] \in Int /\ since[r] \in Int /\ quiet[r] \in Int
        BY <1>1
      <4>. QED  BY <4>1, Product
    <3>4. alive[r] # 0
      BY <1>1, <2>2
    <3>. QED  BY <3>1, <3>2, <3>3, <3>4
  <2>3. CASE alive[r] > 0 /\ ~Runs(r)
    BY <1>1, <2>3
  <2>. QED  BY <1>1, <2>1, <2>2, <2>3
<1>4. \A r \in Role : Runs(r)' <=> Runs(r)
  BY <1>2 DEF Runs
<1>. QED  BY <1>2, <1>3, <1>4 DEF Silence

(* The ages an arriving datagram leaves.                                   *)
LEMMA ArriveAges ==
  ASSUME AgeInv, NEW m \in net, Arrive(m)
  PROVE  TokenAge' /\ Silence' /\ PeerAge' /\ ReplyAge'
<1>. USE Positive, Roles
<1>1. TokenAge' /\ ReplyAge'
  BY DEF Arrive, AgeInv, TokenAge, ReplyAge
<1>2. UNCHANGED <<since, running>>
  BY DEF Arrive, clocks
<1>3. /\ m \in [to : Role, age : 0 .. MaxDelay, hop : Nat]
      /\ alive \in [Role -> 0 .. TTL] /\ quiet \in [Role -> Nat]
      /\ since \in [Role -> 0 .. MaxBeat]
  BY DEF AgeInv, TypeOK
<1>4. CASE Receives(m)
  <2>1. /\ alive' = [alive EXCEPT ![m.to] = TTL]
        /\ quiet' = [quiet EXCEPT ![m.to] = 0]
        /\ peer' = IF m.to = "server" THEN m.hop ELSE peer
    BY <1>4 DEF Arrive, Learned
  <2>2. alive'[m.to] = TTL /\ quiet'[m.to] = 0
    BY <1>3, <2>1
  <2>3. ASSUME NEW r \in Role, r # m.to
        PROVE  alive'[r] = alive[r] /\ quiet'[r] = quiet[r]
    BY <1>3, <2>1, <2>3
  <2>4. (TTL - alive'[m.to]) * MaxBeat + since'[m.to] >= 0
    <3>1. TTL - alive'[m.to] = 0
      BY <2>2
    <3>. QED  BY <1>2, <1>3, <3>1
  <2>5. Silence'
    BY <1>2, <1>3, <2>2, <2>3, <2>4 DEF AgeInv, Silence, Runs
  <2>6. PeerAge'
    <3>1. CASE m.to = "server"
      <4>1. m.hop <= Step + m.age /\ m.age <= MaxDelay /\ m.age \in Nat /\ m.hop \in Nat
        BY <1>3, <3>1 DEF AgeInv, TokenAge
      <4>2. peer' = m.hop /\ quiet'["server"] = 0
        BY <2>1, <2>2, <3>1
      <4>. QED  BY <4>1, <4>2 DEF PeerAge
    <3>2. CASE m.to # "server"
      BY <2>1, <2>3, <3>2 DEF AgeInv, PeerAge
    <3>. QED  BY <3>1, <3>2
  <2>. QED  BY <1>1, <2>5, <2>6
<1>5. CASE ~Receives(m)
  <2>1. UNCHANGED <<alive, quiet, peer>>
    BY <1>5 DEF Arrive
  <2>. QED  BY <1>1, <1>2, <2>1 DEF AgeInv, Silence, PeerAge, Runs
<1>. QED  BY <1>4, <1>5

(* A slot is over after Step, and so the beginnings of slots stay so.      *)
LEMMA Multiple ==
  ASSUME NEW x \in Int, NEW s \in Nat, s > 0
  PROVE  x % s = 0 => \E q \in Int : x = q * s
<1>1. x = (x \div s) * s + (x % s) /\ x \div s \in Int
  OBVIOUS
<1>. QED  BY <1>1

LEMMA StraddledStep == AgeInv /\ [Next]_vars => Straddled'
<1> SUFFICES ASSUME AgeInv, [Next]_vars PROVE Straddled'
  OBVIOUS
<1>. USE Positive, Roles
<1>1. /\ phase \in 0 .. Step - 1 /\ since \in [Role -> 0 .. MaxBeat]
      /\ straddle \in 0 .. Window + 1
  BY DEF AgeInv, TypeOK
<1>2. straddle > 0 => \E q \in Int : phase - since["server"] = q * Step
  BY DEF AgeInv, Straddled
<1>3. CASE Tick
  <2>1. phase' = (phase + 1) % Step /\ since'["server"] = since["server"] + 1
        /\ straddle' = straddle
    BY <1>3 DEF Tick, Runs
  <2>2. SUFFICES ASSUME straddle > 0
                 PROVE  \E q \in Int : phase' - since'["server"] = q * Step
    BY <2>1 DEF Straddled
  <2>3. PICK q \in Int : phase - since["server"] = q * Step
    BY <1>2, <2>2
  <2>4. since["server"] \in Int /\ phase \in Int
    BY <1>1
  <2>5. CASE phase + 1 < Step
    <3>1. phase' = phase + 1
      BY <1>1, <2>1, <2>5
    <3>2. phase' - since'["server"] = q * Step
      BY <2>1, <2>3, <2>4, <3>1
    <3>. QED  BY <3>2
  <2>6. CASE phase + 1 = Step
    <3>1. phase' = 0
      BY <2>1, <2>6
    <3>2. (q - 1) * Step = q * Step - Step /\ q * Step \in Int
      BY Product
    <3>3. phase' - since'["server"] = (q - 1) * Step
      BY <2>1, <2>3, <2>4, <2>6, <3>1, <3>2
    <3>4. q - 1 \in Int
      OBVIOUS
    <3>. QED  BY <3>3, <3>4
  <2>7. phase + 1 < Step \/ phase + 1 = Step
    BY <1>1
  <2>. QED  BY <2>5, <2>6, <2>7
<1>4. ASSUME NEW r \in Role, Heartbeat(r) PROVE Straddled'
  <2>1. /\ phase' = phase /\ since' = [since EXCEPT ![r] = 0]
        /\ straddle' \in IF r = "server" THEN Astride(phase) ELSE {straddle}
    BY <1>4 DEF Heartbeat, clocks
  <2>2. CASE r = "server"
    <3>1. SUFFICES ASSUME straddle' > 0
                   PROVE  \E q \in Int : phase' - since'["server"] = q * Step
      BY DEF Straddled
    <3>2. phase % Step = 0
      BY <2>1, <2>2, <3>1 DEF Astride
    <3>3. phase' - since'["server"] = phase
      BY <1>1, <2>1, <2>2
    <3>4. phase \in Int
      BY <1>1
    <3>5. \E q \in Int : phase = q * Step
      BY <3>2, <3>4, Multiple
    <3>. QED  BY <3>3, <3>5
  <2>3. CASE r # "server"
    <3>1. since'["server"] = since["server"] /\ straddle' = straddle
      BY <1>1, <2>1, <2>3
    <3>. QED  BY <1>2, <2>1, <3>1 DEF Straddled
  <2>. QED  BY <2>2, <2>3
<1>5. CASE Stop
  <2>1. phase' = phase /\ straddle' = straddle /\ since'["server"] = since["server"]
    BY <1>1, <1>5 DEF Stop
  <2>. QED  BY <1>2, <2>1 DEF Straddled
<1>6. CASE \/ Hop \/ UNCHANGED vars
           \/ \E r \in Role : SendPacket(r)
           \/ \E m \in net : Arrive(m)
  <2>1. UNCHANGED <<phase, straddle, since>>
    BY <1>6 DEF Hop, SendPacket, Arrive, vars, clocks
  <2>. QED  BY <1>2, <2>1 DEF Straddled
<1>. QED  BY <1>3, <1>4, <1>5, <1>6 DEF Next

LEMMA GoneStep == AgeInv /\ [Next]_vars => Gone'
<1> SUFFICES ASSUME AgeInv, [Next]_vars, ~running' PROVE alive'["client"] = 0
  BY DEF Gone
<1>. USE Roles
<1>1. /\ alive \in [Role -> 0 .. TTL] /\ \A m \in net : m.to \in Role
      /\ ~running => alive["client"] = 0
  BY DEF AgeInv, TypeOK, Gone
<1>2. CASE Stop
  BY <1>1, <1>2 DEF Stop
<1>3. CASE Hop \/ Tick \/ UNCHANGED vars \/ \E r \in Role : SendPacket(r)
  BY <1>1, <1>3 DEF Hop, Tick, SendPacket, clocks, vars
<1>4. ASSUME NEW r \in Role, Heartbeat(r) PROVE alive'["client"] = 0
  BY <1>1, <1>4 DEF Heartbeat, clocks
<1>5. ASSUME NEW m \in net, Arrive(m) PROVE alive'["client"] = 0
  BY <1>1, <1>5 DEF Arrive, clocks, Receives, Open
<1>. QED  BY <1>2, <1>3, <1>4, <1>5 DEF Next

LEMMA AgeStep == AgeInv /\ [Next]_vars => AgeInv'
<1> SUFFICES ASSUME AgeInv, [Next]_vars PROVE AgeInv'
  OBVIOUS
<1>. USE Positive, Roles
<1>0. TypeOK' /\ Gone' /\ Straddled'
  BY TypeStep, GoneStep, StraddledStep DEF AgeInv
<1>1. CASE Hop
  BY <1>0, <1>1 DEF Hop, AgeInv, TokenAge, Silence, PeerAge, ReplyAge, clocks, Runs
<1>2. CASE Stop
  <2>1. /\ UNCHANGED <<peer, net>>
        /\ since' = [since EXCEPT !["client"] = 0]
        /\ alive' = [alive EXCEPT !["client"] = 0]
        /\ quiet' = [quiet EXCEPT !["client"] = 0]
    BY <1>2 DEF Stop
  <2>2. /\ alive'["client"] = 0 /\ quiet'["client"] = 0
        /\ UNCHANGED <<alive["server"], quiet["server"], since["server"]>>
    BY <2>1 DEF AgeInv, TypeOK
  <2>3. Silence'
    BY <2>2 DEF AgeInv, Silence, Runs
  <2>. QED  BY <1>0, <2>1, <2>2, <2>3 DEF AgeInv, TokenAge, PeerAge, ReplyAge
<1>3. CASE Tick
  <2>1. PeerAge'
    <3>1. /\ peer' = IF alive["server"] > 0 THEN peer + 1 ELSE peer
          /\ quiet'["server"] = IF Runs("server") /\ alive["server"] > 0
                                 THEN quiet["server"] + 1 ELSE quiet["server"]
          /\ alive' = alive
      BY <1>3 DEF Tick
    <3>2. Runs("server") /\ quiet["server"] \in Nat /\ peer \in Nat
      BY DEF Runs, AgeInv, TypeOK
    <3>3. alive["server"] > 0 => peer <= Step + MaxDelay + quiet["server"]
      BY DEF AgeInv, PeerAge
    <3>. QED  BY <3>1, <3>2, <3>3 DEF PeerAge
  <2>. QED  BY <1>0, <1>3, <2>1, TickAges, SilenceTick DEF AgeInv
<1>4. ASSUME NEW r \in Role, Heartbeat(r) PROVE AgeInv'
  <2>1. TokenAge' /\ ReplyAge'
    <3>1. CASE r = "client" \/ alive[r] > 0
      <4>1. net' \subseteq net \cup {Datagram(Peer(r), HopOf(r))}
        BY <1>4, <3>1 DEF Heartbeat, SendBeat
      <4>. QED  BY <3>1, <4>1, NetAges
    <3>2. CASE ~(r = "client" \/ alive[r] > 0)
      <4>1. net' = net
        BY <1>4, <3>2 DEF Heartbeat
      <4>. QED  BY <4>1 DEF AgeInv, TokenAge, ReplyAge
    <3>. QED  BY <3>1, <3>2
  <2>2. PeerAge'
    <3>1. alive'["server"] > 0 =>
            /\ alive["server"] > 0
            /\ peer' = peer /\ quiet'["server"] = quiet["server"]
      BY <1>4 DEF Heartbeat, Decremented, AgeInv, TypeOK
    <3>. QED  BY <3>1 DEF AgeInv, PeerAge
  <2>. QED  BY <1>0, <1>4, <2>1, <2>2, SilenceBeat DEF AgeInv
<1>5. ASSUME NEW r \in Role, SendPacket(r) PROVE AgeInv'
  <2>1. TokenAge' /\ ReplyAge'
    <3>1. net' \subseteq net \cup {Datagram(Peer(r), HopOf(r))} /\ alive[r] > 0
      BY <1>5 DEF SendPacket
    <3>. QED  BY <3>1, NetAges
  <2>. QED  BY <1>0, <1>5, <2>1 DEF SendPacket, AgeInv, Silence, PeerAge, clocks, Runs
<1>6. ASSUME NEW m \in net, Arrive(m) PROVE AgeInv'
  BY <1>0, <1>6, ArriveAges DEF AgeInv
<1>7. CASE UNCHANGED vars
  BY <1>0, <1>7 DEF vars, clocks, AgeInv, TokenAge, Silence, PeerAge, ReplyAge, Runs
<1>. QED  BY <1>1, <1>2, <1>3, <1>4, <1>5, <1>6, <1>7 DEF Next

LEMMA AgeInit == Init => AgeInv
<1> SUFFICES ASSUME Init PROVE AgeInv
  OBVIOUS
<1>1. TypeOK
  BY TypeInit
<1>2. net = {} /\ \A r \in Role : alive[r] = 0 /\ quiet[r] = 0
  BY DEF Init
<1>3. Gone
  BY <1>2, Roles DEF Gone
<1>4. Straddled
  <2>1. SUFFICES ASSUME straddle > 0
                 PROVE  \E q \in Int : phase - since["server"] = q * Step
    BY DEF Straddled
  <2>2. PICK age \in 0 .. MaxBeat :
          /\ since = [r \in Role |-> IF r = "client" THEN MaxBeat ELSE age]
          /\ straddle \in Astride(phase - age)
    BY DEF Init
  <2>3. phase \in Int /\ age \in Int /\ since["server"] = age
    BY <1>1, <2>2, Positive, Roles DEF TypeOK
  <2>4. (phase - age) % Step = 0
    BY <2>1, <2>2 DEF Astride
  <2>5. phase - age \in Int
    BY <2>3
  <2>6. \E q \in Int : phase - age = q * Step
    BY <2>4, <2>5, Multiple, Positive
  <2>. QED  BY <2>3, <2>6
<1>. QED  BY <1>1, <1>2, <1>3, <1>4, Roles DEF AgeInv, TokenAge, Silence, PeerAge, ReplyAge

(* The slots of a round that is not straddled, and of one that is: all     *)
(* from -Window to Window but for the gap and, if straddled, the last.     *)
LEMMA Filled ==
  ASSUME TypeOK, NEW a \in Nat, NEW d \in -Window .. Window,
         TokenSlot(a) = Slot(phase - since["server"]) + d,
         straddle > 0 => d # Window
  PROVE  ValidToken(a) \/ LeftOut(a)
<1>. USE Positive, Roles
<1>. DEFINE R == Slot(phase - since["server"])
<1>1. R \in Int /\ straddle \in 0 .. Window + 1
  BY DEF TypeOK, Slot
<1>2. TokenSlot(a) = R + d
  OBVIOUS
<1>3. /\ \A n : n < straddle => ReadSlot(n) = R - 1
      /\ \A n \in Nat : ~(n < straddle) => ReadSlot(n) = R
  BY <1>1 DEF ReadSlot
<1>. HIDE DEF R
<1>4. CASE straddle <= d
  <2>1. d \in Calls /\ Offset(d) = d /\ d \in Nat /\ ~(d < straddle)
    BY <1>1, <1>4 DEF Calls, Offset
  <2>. QED  BY <1>2, <1>3, <2>1 DEF ValidToken
<1>5. CASE -1 <= d /\ d < straddle - 1
  <2>1. d + 1 \in Calls /\ Offset(d + 1) = d + 1 /\ d + 1 < straddle
    BY <1>1, <1>5 DEF Calls, Offset
  <2>2. ReadSlot(d + 1) = R - 1
    BY <1>3, <2>1
  <2>. QED  BY <1>1, <1>2, <2>1, <2>2 DEF ValidToken
<1>6. CASE 0 <= d /\ d = straddle - 1
  <2>1. straddle \in 1 .. Window
    BY <1>1, <1>6
  <2>2. ReadSlot(straddle) = R
    BY <1>3, <2>1
  <2>. QED  BY <1>1, <1>2, <1>6, <2>1, <2>2 DEF LeftOut
<1>7. CASE d < 0 /\ ~(-1 <= d /\ d < straddle - 1)
  <2>1. /\ Window - d \in Calls /\ Offset(Window - d) = d
        /\ Window - d \in Nat /\ ~(Window - d < straddle)
    BY <1>1, <1>7 DEF Calls, Offset
  <2>. QED  BY <1>2, <1>3, <2>1 DEF ValidToken
<1>. QED  BY <1>1, <1>4, <1>5, <1>6, <1>7

(* The server accepts every datagram of its client but one for the gap a   *)
(* straddled round has left, if the two clocks are no further apart than   *)
(* the window leaves room for: the client's up to 8834 ms ahead, or 9000   *)
(* ms, less the delay of the network, behind.                              *)
THEOREM TokensFresh ==
  ASSUME ClocksAgree PROVE Spec => []FreshAccepted
<1>1. ASSUME AgeInv PROVE FreshAccepted
  <2> SUFFICES ASSUME NEW m \in net, m.to = "server"
               PROVE  ValidToken(m.hop) \/ LeftOut(m.hop)
    BY DEF FreshAccepted
  <2>1. /\ phase \in Int /\ skew \in Int /\ -Behind <= skew /\ skew <= Ahead
        /\ since["server"] \in 0 .. MaxBeat
        /\ m.hop \in Nat /\ m.age \in 0 .. MaxDelay
    BY <1>1, Positive, Roles DEF AgeInv, TypeOK
  <2>2. m.hop <= Step + m.age
    BY <1>1 DEF AgeInv, TokenAge
  <2>. DEFINE x == phase - m.hop + skew
              y == phase - since["server"]
              d == x \div Step - y \div Step
  <2>3. x \in Int /\ y \in Int /\ Window * Step \in Int
    BY <2>1, Positive
  <2>4. x - y < Window * Step /\ y - x <= Window * Step
    BY <2>1, <2>2, <2>3, Positive, ClocksAgree DEF ClocksAgree
  <2>5. straddle > 0 => \E q \in Int : y = q * Step
    BY <1>1 DEF AgeInv, Straddled
  <2>6. TokenSlot(m.hop) = x \div Step /\ Slot(phase - since["server"]) = y \div Step
    BY DEF TokenSlot, Slot
  <2>. HIDE DEF x, y
  <2>7. d <= Window /\ -d <= Window
    <3>1. x \div Step - y \div Step <= Window /\ y \div Step - x \div Step <= Window
      BY <2>3, <2>4, SlotsApart, Positive
    <3>2. x \div Step \in Int /\ y \div Step \in Int
      BY <2>3, DivBounds, Positive
    <3>. QED  BY <3>1, <3>2
  <2>8. x \div Step \in Int /\ y \div Step \in Int /\ d \in -Window .. Window
    <3>1. x \div Step \in Int /\ y \div Step \in Int
      BY <2>3, DivBounds, Positive
    <3>. QED  BY <2>7, <3>1, Positive
  <2>9. straddle > 0 => d # Window
    <3> SUFFICES ASSUME straddle > 0, d = Window PROVE FALSE
      OBVIOUS
    <3>1. PICK q \in Int : y = q * Step
      BY <2>5
    <3>2. PICK b \in Int : b = y \div Step /\ b * Step <= y /\ y < b * Step + Step
      BY <2>3, DivBounds, Positive
    <3>3. q * Step < (b + 1) * Step
      BY <3>1, <3>2, Product, Positive
    <3>4. q < b + 1
      BY <3>3, Cancel, Positive
    <3>5. q * Step <= b * Step
      BY <3>2, <3>4, Product, Positive
    <3>6. b * Step = y
      BY <3>1, <3>2, <3>5, <2>3, Product, Positive
    <3>7. (b + Window) * Step <= x
      <4>1. x \div Step = b + Window
        BY <2>8, <3>2
      <4>. QED  BY <2>3, <4>1, DivBounds, Positive
    <3>8. (b + Window) * Step = b * Step + Window * Step
      BY <3>2, Positive
    <3>. QED  BY <2>3, <2>4, <3>6, <3>7, <3>8
  <2>10. TokenSlot(m.hop) = Slot(phase - since["server"]) + d
    BY <2>6, <2>8
  <2>. HIDE DEF d
  <2>. QED  BY <1>1, <2>1, <2>8, <2>9, <2>10, Filled DEF AgeInv
<1>. QED  BY <1>1, AgeInit, AgeStep, PTL DEF Spec

(* No reply of the server comes too late for the socket it is sent to, if  *)
(* delays stay below half of what the deadline of a socket has left over a *)
(* hop and a ttl: (5000 - 500 - 5 * 665) / 2, or 587 ms.                   *)
THEOREM RepliesReach ==
  ASSUME SocketsOutlast PROVE Spec => []RepliesHeard
<1>1. ASSUME AgeInv PROVE RepliesHeard
  <2> SUFFICES ASSUME running, NEW m \in net, m.to = "client" PROVE Open(m.hop)
    BY DEF RepliesHeard
  <2>1. m.hop \in Nat /\ m.age \in 0 .. MaxDelay
    BY <1>1 DEF AgeInv, TypeOK
  <2>2. m.hop <= Step + MaxDelay + TTL * MaxBeat + m.age /\ TTL * MaxBeat \in Int
    BY <1>1, Positive DEF AgeInv, ReplyAge
  <2>3. m.hop < Life
    BY <2>1, <2>2, Positive, SocketsOutlast DEF SocketsOutlast
  <2>. QED  BY <2>3 DEF Open
<1>. QED  BY <1>1, AgeInit, AgeStep, PTL DEF Spec

-----------------------------------------------------------------------------
(* Each process as a failure detector: what a step does to its trust.      *)
LEMMA DetectorStep ==
  ASSUME AgeInv, [Next]_vars, NEW r \in Role
  PROVE  \/ alive'[r] > 0 /\ quiet'[r] = 0
         \/ /\ alive[r] > 0 /\ quiet[r] >= Earliest
            /\ ~(alive'[r] > 0) /\ quiet'[r] = 0
         \/ /\ alive[r] > 0 /\ alive'[r] > 0
            /\ quiet[r] < Latest /\ quiet'[r] = quiet[r] + 1
         \/ (alive'[r] > 0 <=> alive[r] > 0) /\ quiet'[r] = quiet[r]
         \/ /\ r = "client" /\ running /\ ~running'
            /\ ~(alive'[r] > 0) /\ quiet'[r] = 0
<1>. USE Positive, Roles
<1>0. /\ alive \in [Role -> 0 .. TTL] /\ quiet \in [Role -> Nat]
      /\ since \in [Role -> 0 .. MaxBeat]
  BY DEF AgeInv, TypeOK
<1>1. CASE Hop \/ UNCHANGED vars \/ \E q \in Role : SendPacket(q)
  BY <1>1 DEF Hop, SendPacket, vars
<1>5. CASE Stop
  BY <1>0, <1>5 DEF Stop
<1>2. CASE Tick
  <2>1. /\ alive' = alive
        /\ quiet'[r] = IF Runs(r) /\ alive[r] > 0 THEN quiet[r] + 1 ELSE quiet[r]
        /\ Runs(r) => since[r] < MaxBeat
    BY <1>2 DEF Tick
  <2>2. CASE Runs(r) /\ alive[r] > 0
    <3>1. quiet[r] <= (TTL - alive[r]) * MaxBeat + since[r]
      BY <2>2 DEF AgeInv, Silence
    <3>2. /\ (TTL - alive[r]) * MaxBeat <= (TTL - 1) * MaxBeat
          /\ (TTL - 1) * MaxBeat = TTL * MaxBeat - MaxBeat
          /\ (TTL - alive[r]) * MaxBeat \in Int /\ TTL * MaxBeat \in Int
      BY <1>0, <2>2, Product
    <3>3. quiet[r] \in Int /\ since[r] \in Int
      BY <1>0
    <3>4. quiet[r] < TTL * MaxBeat
      BY <2>1, <2>2, <3>1, <3>2, <3>3
    <3>. QED  BY <2>1, <2>2, <3>4 DEF Latest
  <2>. QED  BY <2>1, <2>2
<1>3. ASSUME NEW q \in Role, Heartbeat(q)
      PROVE  \/ /\ alive[r] > 0 /\ quiet[r] >= Earliest
                /\ ~(alive'[r] > 0) /\ quiet'[r] = 0
             \/ (alive'[r] > 0 <=> alive[r] > 0) /\ quiet'[r] = quiet[r]
  <2>1. /\ alive' = [alive EXCEPT ![q] = Decremented(alive[q])]
        /\ quiet' = IF alive'[q] = 0 THEN [quiet EXCEPT ![q] = 0] ELSE quiet
        /\ since[q] >= MinBeat /\ (q = "client" => running)
    BY <1>3 DEF Heartbeat
  <2>2. CASE r # q
    BY <1>0, <2>1, <2>2
  <2>3. CASE r = q /\ alive[q] = 1
    <3>1. alive'[r] = 0 /\ quiet'[r] = 0
      BY <1>0, <2>1, <2>3 DEF Decremented
    <3>2. Runs(r)
      BY <2>1, <2>3 DEF Runs
    <3>3. quiet[r] >= Earliest
      <4>1. CASE TTL = 1
        <5>1. (TTL - 1) * MinBeat = 0
          BY <4>1
        <5>. QED  BY <1>0, <5>1 DEF Earliest
      <4>2. CASE TTL > 1
        <5>1. quiet[r] >= (TTL - 1 - alive[r]) * MinBeat + since[r]
          BY <1>0, <2>3, <3>2, <4>2 DEF AgeInv, Silence
        <5>2. (TTL - 1 - alive[r]) * MinBeat = (TTL - 1) * MinBeat - MinBeat
          BY <2>3
        <5>3. (TTL - 1) * MinBeat \in Int /\ quiet[r] \in Int /\ since[r] \in Int
          BY <1>0
        <5>. QED  BY <2>1, <2>3, <5>1, <5>2, <5>3 DEF Earliest
      <4>. QED  BY <4>1, <4>2
    <3>. QED  BY <2>3, <3>1, <3>3
  <2>4. CASE r = q /\ alive[q] # 1
    <3>1. alive[q] = 0 => quiet[q] = 0
      BY DEF AgeInv, Silence
    <3>. QED  BY <1>0, <2>1, <2>4, <3>1 DEF Decremented
  <2>. QED  BY <2>2, <2>3, <2>4
<1>4. ASSUME NEW m \in net, Arrive(m)
      PROVE  \/ alive'[r] > 0 /\ quiet'[r] = 0
             \/ (alive'[r] > 0 <=> alive[r] > 0) /\ quiet'[r] = quiet[r]
  <2>1. m.to \in Role
    BY DEF AgeInv, TypeOK
  <2>2. CASE Receives(m)
    <3>1. /\ alive' = [alive EXCEPT ![m.to] = TTL]
          /\ quiet' = [quiet EXCEPT ![m.to] = 0]
      BY <1>4, <2>2 DEF Arrive
    <3>. QED  BY <1>0, <2>1, <3>1
  <2>3. CASE ~Receives(m)
    BY <1>4, <2>3 DEF Arrive
  <2>. QED  BY <2>2, <2>3
<1>. QED  BY <1>1, <1>2, <1>3, <1>4, <1>5 DEF Next

(* The ttl of a path is a failure detector of the given bounds: with the   *)
(* numbers of the code, no path is given up in less than 1332 ms without a *)
(* valid datagram, and none is kept for more than 3325 ms.                 *)
THEOREM Detects == Spec => DetectorSpec
<1>1. AgeInv /\ [Next]_vars => [ClientDetector!Next]_(ClientDetector!vars)
  <2> SUFFICES ASSUME AgeInv, [Next]_vars
               PROVE  [ClientDetector!Next]_(ClientDetector!vars)
    OBVIOUS
  <2>1. CASE Stop
    <3>1. running /\ ~running' /\ ~(alive'["client"] > 0) /\ quiet'["client"] = 0
      BY <2>1, Roles DEF Stop, AgeInv, TypeOK
    <3>. QED  BY <3>1 DEF ClientDetector!Next, ClientDetector!End
  <2>2. CASE ~Stop
    <3>1. running' = running
      BY <2>2 DEF Next, Hop, Tick, Heartbeat, SendPacket, Arrive, clocks, vars
    <3>2. alive["client"] > 0 \/ alive'["client"] > 0 => running
      BY <3>1, GoneStep DEF AgeInv, Gone
    <3>. QED  BY <3>1, <3>2, DetectorStep, Roles
           DEF ClientDetector!Next, ClientDetector!vars, ClientDetector!Hear,
               ClientDetector!GiveUp, ClientDetector!Wait
  <2>. QED  BY <2>1, <2>2
<1>2. AgeInv /\ [Next]_vars => [ServerDetector!Next]_(ServerDetector!vars)
  <2> SUFFICES ASSUME AgeInv, [Next]_vars
               PROVE  [ServerDetector!Next]_(ServerDetector!vars)
    OBVIOUS
  <2>. QED  BY DetectorStep, Roles DEF ServerDetector!Next, ServerDetector!vars,
         ServerDetector!Hear, ServerDetector!GiveUp, ServerDetector!Wait
<1>3. Init => ClientDetector!Init /\ ServerDetector!Init
  BY Roles DEF Init, ClientDetector!Init, ServerDetector!Init
<1>. QED  BY <1>1, <1>2, <1>3, AgeInit, AgeStep, PTL
       DEF Spec, DetectorSpec, ClientDetector!Spec, ServerDetector!Spec

-----------------------------------------------------------------------------
(* The time in which process r cannot run alive[r] down to 0, and the time *)
(* until the next heartbeat that is not lost reaches it.                   *)
Room(r) ==
  (IF since[r] < MinBeat THEN MinBeat - since[r] ELSE 0) + (alive[r] - 1) * MinBeat
Slack(r) ==
  (MaxLost - lost[r]) * MaxBeat + MaxBeat - since[Peer(r)] + MaxDelay

(* A path that is alive is renewed in time, by a datagram under way or by  *)
(* a heartbeat still to be sent.                                           *)
Sure(r) ==
  \/ \E m \in net : m.to = r /\ MaxDelay - m.age < Room(r)
  \/ Slack(r) < Room(r)

(* And the server keeps speaking, for it hears the client.                 *)
LinkInv ==
  running /\ ~cut =>
    /\ \A r \in Role : alive[r] > 0 => Sure(r)
    /\ alive["client"] > 0 \/ (\E m \in net : m.to = "client") => alive["server"] > 0

LEMMA Ranges ==
  ASSUME TypeOK, NEW r \in Role
  PROVE  /\ since[r] \in 0 .. MaxBeat /\ alive[r] \in 0 .. TTL /\ lost[r] \in 0 .. MaxLost
         /\ Room(r) \in Int /\ Slack(r) \in Int
         /\ MaxDelay <= Slack(r)
         /\ Slack(r) <= (MaxLost + 1) * MaxBeat + MaxDelay
         /\ (TTL - 1) * MinBeat \in Int /\ (MaxLost + 1) * MaxBeat \in Int
<1>. USE Positive, Roles
<1>1. /\ since[r] \in 0 .. MaxBeat /\ alive[r] \in 0 .. TTL /\ lost[r] \in 0 .. MaxLost
      /\ Peer(r) \in Role /\ since[Peer(r)] \in 0 .. MaxBeat
  BY DEF TypeOK
<1>2. (alive[r] - 1) * MinBeat \in Int /\ (MaxLost - lost[r]) * MaxBeat \in Int
  BY <1>1
<1>3. (TTL - 1) * MinBeat \in Int /\ (MaxLost + 1) * MaxBeat \in Int
  OBVIOUS
<1>4. 0 <= (MaxLost - lost[r]) * MaxBeat
  BY <1>1
<1>5. (MaxLost - lost[r]) * MaxBeat <= MaxLost * MaxBeat
  BY <1>1, Product
<1>6. (MaxLost + 1) * MaxBeat = MaxLost * MaxBeat + MaxBeat /\ MaxLost * MaxBeat \in Int
  BY Product
<1>7. Room(r) \in Int
  BY <1>1, <1>2 DEF Room
<1>8. Slack(r) \in Int /\ MaxDelay <= Slack(r)
      /\ Slack(r) <= (MaxLost + 1) * MaxBeat + MaxDelay
  BY <1>1, <1>2, <1>4, <1>5, <1>6 DEF Slack
<1>. QED  BY <1>1, <1>3, <1>7, <1>8

(* A process that is sure of its path survives its next heartbeat.         *)
LEMMA BeatSurvived ==
  ASSUME TypeOK, NEW r \in Role, Heartbeat(r), alive[r] > 0, Sure(r)
  PROVE  alive'[r] = alive[r] - 1 /\ alive'[r] > 0 /\ Room(r)' = Room(r)
<1>. USE Positive, Roles
<1>1. /\ since[r] \in 0 .. MaxBeat /\ alive[r] \in 0 .. TTL /\ since[r] >= MinBeat
      /\ since' = [since EXCEPT ![r] = 0] /\ since \in [Role -> 0 .. MaxBeat]
      /\ alive' = [alive EXCEPT ![r] = Decremented(alive[r])]
      /\ alive \in [Role -> 0 .. TTL]
  BY Ranges DEF Heartbeat, TypeOK
<1>2. alive'[r] = alive[r] - 1 /\ since'[r] = 0
  BY <1>1 DEF Decremented
<1>3. Room(r) = (alive[r] - 1) * MinBeat
  BY <1>1 DEF Room
<1>4. Room(r) > 0
  <2>1. CASE \E m \in net : m.to = r /\ MaxDelay - m.age < Room(r)
    <3>1. PICK m \in net : MaxDelay - m.age < Room(r)
      BY <2>1
    <3>2. m.age \in 0 .. MaxDelay
      BY DEF TypeOK
    <3>. QED  BY <3>1, <3>2, Ranges
  <2>2. CASE Slack(r) < Room(r)
    BY <2>2, Ranges
  <2>. QED  BY <2>1, <2>2 DEF Sure
<1>5. alive[r] # 1
  <2>. SUFFICES ASSUME alive[r] = 1 PROVE FALSE
    OBVIOUS
  <2>1. (alive[r] - 1) * MinBeat = 0
    OBVIOUS
  <2>. QED  BY <1>3, <1>4, <2>1
<1>6. (alive[r] - 1 - 1) * MinBeat + MinBeat = (alive[r] - 1) * MinBeat
  BY <1>1
<1>7. Room(r)' = MinBeat - 0 + (alive[r] - 1 - 1) * MinBeat
  BY <1>2 DEF Room
<1>8. (alive[r] - 1 - 1) * MinBeat \in Int
  BY <1>1
<1>. QED  BY <1>1, <1>2, <1>3, <1>5, <1>6, <1>7, <1>8

(* A heartbeat of the peer, lost or not, leaves process r sure.            *)
LEMMA BeatHeard ==
  ASSUME TypeOK, TypeOK', NEW r \in Role, Heartbeat(Peer(r)),
         Peer(r) = "client" \/ alive[Peer(r)] > 0,
         Sure(r), ~cut'
  PROVE  Sure(r)'
<1>. USE Positive, Roles
<1>. DEFINE q == Peer(r)
<1>1. q \in Role /\ q # r /\ Peer(q) = r
  BY DEF Peer, Role
<1>2. /\ SendBeat(q)
      /\ since' = [since EXCEPT ![q] = 0]
      /\ alive' = [alive EXCEPT ![q] = Decremented(alive[q])]
  BY DEF Heartbeat
<1>3. since'[r] = since[r] /\ alive'[r] = alive[r] /\ since'[q] = 0
  BY <1>1, <1>2 DEF TypeOK
<1>4. Room(r)' = Room(r)
  BY <1>3 DEF Room
<1>5. ASSUME net' = net \cup {Datagram(r, HopOf(q))} PROVE Sure(r)'
  <2>1. CASE \E m \in net : m.to = r /\ MaxDelay - m.age < Room(r)
    BY <1>4, <1>5, <2>1 DEF Sure
  <2>2. CASE Slack(r) < Room(r)
    <3>1. Datagram(r, HopOf(q)) \in net' /\ Datagram(r, HopOf(q)).to = r
          /\ Datagram(r, HopOf(q)).age = 0
      BY <1>5 DEF Datagram
    <3>2. MaxDelay - 0 < Room(r)
      BY <2>2, Ranges
    <3>. QED  BY <1>4, <3>1, <3>2 DEF Sure
  <2>. QED  BY <2>1, <2>2 DEF Sure
<1>6. ASSUME net' = net, lost[r] < MaxLost, lost' = [lost EXCEPT ![r] = lost[r] + 1]
      PROVE  Sure(r)'
  <2>1. CASE \E m \in net : m.to = r /\ MaxDelay - m.age < Room(r)
    BY <1>4, <1>6, <2>1 DEF Sure
  <2>2. CASE Slack(r) < Room(r)
    <3>1. lost'[r] = lost[r] + 1 /\ lost[r] \in 0 .. MaxLost
      BY <1>6 DEF TypeOK
    <3>2. since[q] \in 0 .. MaxBeat
      BY <1>1 DEF TypeOK
    <3>3. (MaxLost - lost[r]) * MaxBeat = (MaxLost - (lost[r] + 1)) * MaxBeat + MaxBeat
      BY <3>1
    <3>4. (MaxLost - (lost[r] + 1)) * MaxBeat \in Int
      BY <3>1
    <3>5. Slack(r)' <= Slack(r)
      BY <1>3, <3>1, <3>2, <3>3, <3>4 DEF Slack
    <3>6. Slack(r)' \in Int
      BY <1>3, <3>1, <3>4 DEF Slack
    <3>7. Slack(r)' < Room(r)'
      BY <1>4, <2>2, <3>5, <3>6, Ranges
    <3>. QED  BY <3>7 DEF Sure
  <2>. QED  BY <2>1, <2>2 DEF Sure
<1>7. \/ net' = net \cup {Datagram(r, HopOf(q))}
      \/ net' = net /\ lost[r] < MaxLost /\ lost' = [lost EXCEPT ![r] = lost[r] + 1]
  BY <1>1, <1>2 DEF SendBeat
<1>. QED  BY <1>5, <1>6, <1>7

(* A step that touches none of its terms leaves process r sure.            *)
LEMMA SureKept ==
  ASSUME NEW r \in Role, Sure(r), Room(r)' = Room(r), Slack(r)' = Slack(r),
         \A m \in net : m.to = r => m \in net'
  PROVE  Sure(r)'
BY DEF Sure

(* Its own heartbeat does too.                                             *)
LEMMA BeatSent ==
  ASSUME TypeOK, NEW r \in Role, Heartbeat(r), alive[r] > 0, Sure(r)
  PROVE  Sure(r)'
<1>. USE Roles
<1>1. Room(r)' = Room(r)
  BY BeatSurvived
<1>2. since'[Peer(r)] = since[Peer(r)] /\ SendBeat(r)
  BY DEF Heartbeat, TypeOK
<1>3. lost'[r] = lost[r] /\ net \subseteq net'
  BY <1>2 DEF SendBeat, TypeOK
<1>4. Slack(r)' = Slack(r)
  BY <1>2, <1>3 DEF Slack
<1>. QED  BY <1>1, <1>3, <1>4, SureKept

(* Time runs for the datagram or the heartbeat as fast as for the path.    *)
LEMMA SureTick ==
  ASSUME TypeOK, NEW r \in Role, Tick, running, Sure(r)
  PROVE  Sure(r)'
<1>. USE Positive, Roles
<1>1. /\ since[r] \in 0 .. MaxBeat /\ since[Peer(r)] \in 0 .. MaxBeat
      /\ alive[r] \in 0 .. TTL /\ lost[r] \in 0 .. MaxLost
  BY DEF TypeOK
<1>2. /\ since'[r] = since[r] + 1 /\ since'[Peer(r)] = since[Peer(r)] + 1
      /\ alive' = alive /\ lost' = lost /\ net' = {Older(m) : m \in net}
  BY DEF Tick, Runs, history
<1>3. (alive[r] - 1) * MinBeat \in Int /\ (MaxLost - lost[r]) * MaxBeat \in Int
  BY <1>1
<1>4. Room(r)' \in Int /\ Room(r) \in Int /\ Room(r)' >= Room(r) - 1
  BY <1>1, <1>2, <1>3 DEF Room
<1>5. Slack(r)' \in Int /\ Slack(r) \in Int /\ Slack(r)' = Slack(r) - 1
  BY <1>1, <1>2, <1>3 DEF Slack
<1>6. CASE Slack(r) < Room(r)
  BY <1>4, <1>5, <1>6 DEF Sure
<1>7. CASE \E m \in net : m.to = r /\ MaxDelay - m.age < Room(r)
  <2>1. PICK m \in net : m.to = r /\ MaxDelay - m.age < Room(r)
    BY <1>7
  <2>2. m.age \in Nat
    BY DEF TypeOK
  <2>3. Older(m) \in net' /\ Older(m).to = r /\ Older(m).age = m.age + 1
    BY <1>2, <2>1 DEF Older
  <2>4. MaxDelay - (m.age + 1) < Room(r)'
    BY <1>4, <2>1, <2>2
  <2>. QED  BY <2>3, <2>4 DEF Sure
<1>. QED  BY <1>6, <1>7 DEF Sure

(* A path that was just heard of is sure.                                  *)
LEMMA SureHeard ==
  ASSUME HeardInTime, TypeOK', NEW r \in Role, alive'[r] = TTL
  PROVE  Sure(r)'
<1>. USE Positive, Roles
<1>1. /\ since'[r] \in 0 .. MaxBeat /\ (TTL - 1) * MinBeat \in Int
      /\ (MaxLost + 1) * MaxBeat \in Int
  BY DEF TypeOK
<1>2. Room(r)' \in Int /\ Room(r)' >= (TTL - 1) * MinBeat
  BY <1>1 DEF Room
<1>3. Slack(r)' \in Int /\ Slack(r)' <= (MaxLost + 1) * MaxBeat + MaxDelay
  <2>1. /\ Peer(r) \in Role /\ since'[Peer(r)] \in 0 .. MaxBeat
        /\ lost'[r] \in 0 .. MaxLost
    BY DEF TypeOK
  <2>2. /\ (MaxLost - lost'[r]) * MaxBeat <= MaxLost * MaxBeat
        /\ (MaxLost - lost'[r]) * MaxBeat \in Int
    BY <2>1, Product
  <2>3. (MaxLost + 1) * MaxBeat = MaxLost * MaxBeat + MaxBeat /\ MaxLost * MaxBeat \in Int
    BY Product
  <2>. QED  BY <2>1, <2>2, <2>3 DEF Slack
<1>4. Slack(r)' < Room(r)'
  BY <1>1, <1>2, <1>3 DEF HeardInTime
<1>. QED  BY <1>4 DEF Sure

LEMMA LinkStep ==
  ASSUME HeardInTime, TypeOK, TypeOK', FreshAccepted, RepliesHeard, LinkInv, [Next]_vars
  PROVE  LinkInv'
<1> SUFFICES ASSUME running', ~cut'
             PROVE  /\ (\A r \in Role : alive[r] > 0 => Sure(r))'
                    /\ (alive["client"] > 0 \/ (\E m \in net : m.to = "client")
                          => alive["server"] > 0)'
  BY DEF LinkInv
<1>. USE Positive, Roles
<1>0. running /\ ~cut
  <2>1. running
    BY DEF Next, Hop, Stop, Tick, Heartbeat, SendPacket, Arrive, clocks, vars
  <2>2. ~cut
    BY DEF Next, Hop, Stop, Tick, Heartbeat, SendPacket, Arrive, SendBeat, history, vars
  <2>. QED  BY <2>1, <2>2
<1>a. /\ \A r \in Role : alive[r] > 0 => Sure(r)
      /\ alive["client"] > 0 \/ (\E m \in net : m.to = "client") => alive["server"] > 0
  BY <1>0 DEF LinkInv
<1>b. /\ alive \in [Role -> 0 .. TTL]
      /\ \A m \in net : m.to \in Role
  BY DEF TypeOK
<1>1. CASE Hop \/ UNCHANGED vars
  <2>1. UNCHANGED <<alive, since, lost, net>>
    BY <1>1 DEF Hop, vars, history
  <2>. QED  BY <1>a, <2>1 DEF Sure, Room, Slack
<1>2. CASE Stop
  BY <1>2 DEF Stop
<1>3. CASE Tick
  <2>1. alive' = alive /\ net' = {Older(m) : m \in net}
    BY <1>3 DEF Tick
  <2>2. \A r \in Role : alive'[r] > 0 => Sure(r)'
    BY <1>0, <1>3, <1>a, <2>1, SureTick
  <2>3. (\E m \in net' : m.to = "client") => \E m \in net : m.to = "client"
    BY <2>1 DEF Older
  <2>. QED  BY <1>a, <2>1, <2>2, <2>3
<1>4. ASSUME NEW q \in Role, Heartbeat(q)
      PROVE  /\ (\A r \in Role : alive[r] > 0 => Sure(r))'
             /\ (alive["client"] > 0 \/ (\E m \in net : m.to = "client")
                   => alive["server"] > 0)'
  <2>1. alive' = [alive EXCEPT ![q] = Decremented(alive[q])]
    BY <1>4 DEF Heartbeat
  <2>2. alive[q] > 0 => alive'[q] > 0 /\ Sure(q)'
    BY <1>4, <1>a, BeatSurvived, BeatSent
  <2>3. alive'[q] > 0 => alive[q] > 0
    BY <1>b, <2>1 DEF Decremented
  <2>4. ASSUME NEW r \in Role, r # q, alive'[r] > 0 PROVE Sure(r)'
    <3>1. alive[r] > 0 /\ Sure(r) /\ q = Peer(r)
      BY <1>a, <1>b, <2>1, <2>4 DEF Peer
    <3>2. q = "client" \/ alive[q] > 0
      BY <1>a, <2>4, <3>1
    <3>. QED  BY <1>4, <3>1, <3>2, BeatHeard
  <2>5. (\E m \in net' : m.to = "client") =>
          (\E m \in net : m.to = "client") \/ alive["server"] > 0
    <3>1. CASE q = "client" \/ alive[q] > 0
      <4>1. net' \subseteq net \cup {Datagram(Peer(q), HopOf(q))}
        BY <1>4, <3>1 DEF Heartbeat, SendBeat
      <4>2. Datagram(Peer(q), HopOf(q)).to = Peer(q)
        BY DEF Datagram
      <4>3. Peer("client") = "server" /\ (q # "client" => q = "server")
        BY DEF Peer
      <4>. QED  BY <3>1, <4>1, <4>2, <4>3
    <3>2. CASE ~(q = "client" \/ alive[q] > 0)
      BY <1>4, <3>2 DEF Heartbeat
    <3>. QED  BY <3>1, <3>2
  <2>6. alive["server"] > 0 => alive'["server"] > 0
    BY <1>b, <2>1, <2>2
  <2>7. alive'["client"] > 0 => alive["client"] > 0
    BY <1>b, <2>1, <2>3
  <2>8. \A r \in Role : alive'[r] > 0 => Sure(r)'
    BY <2>2, <2>3, <2>4
  <2>. QED  BY <1>a, <2>5, <2>6, <2>7, <2>8
<1>5. ASSUME NEW q \in Role, SendPacket(q)
      PROVE  /\ (\A r \in Role : alive[r] > 0 => Sure(r))'
             /\ (alive["client"] > 0 \/ (\E m \in net : m.to = "client")
                   => alive["server"] > 0)'
  <2>1. /\ UNCHANGED <<alive, since, lost>> /\ alive[q] > 0
        /\ net' = net \cup {Datagram(Peer(q), HopOf(q))}
    BY <1>5 DEF SendPacket, history
  <2>2. \A r \in Role : Room(r)' = Room(r) /\ Slack(r)' = Slack(r)
    BY <2>1 DEF Room, Slack
  <2>3. alive["server"] > 0
    BY <1>a, <2>1
  <2>. QED  BY <1>a, <2>1, <2>2, <2>3, SureKept
<1>6. ASSUME NEW m \in net, Arrive(m)
      PROVE  /\ (\A r \in Role : alive[r] > 0 => Sure(r))'
             /\ (alive["client"] > 0 \/ (\E n \in net : n.to = "client")
                   => alive["server"] > 0)'
  <2>1. m.to \in Role /\ Receives(m)
    <3>1. m.to = "server" => Receives(m)
      BY <1>6 DEF Arrive, Receives, FreshAccepted
    <3>. QED  BY <1>0, <1>b, <3>1 DEF Receives, RepliesHeard
  <2>2. /\ alive' = [alive EXCEPT ![m.to] = TTL]
        /\ UNCHANGED <<since, lost>>
        /\ net' \in {net, net \ {m}}
    BY <1>6, <2>1 DEF Arrive
  <2>3. alive'[m.to] = TTL /\ Sure(m.to)'
    BY <1>b, <2>1, <2>2, SureHeard
  <2>4. ASSUME NEW r \in Role, r # m.to, alive'[r] > 0 PROVE Sure(r)'
    <3>1. alive'[r] = alive[r] /\ \A n \in net : n.to = r => n \in net'
      BY <1>b, <2>2, <2>4
    <3>2. Room(r)' = Room(r) /\ Slack(r)' = Slack(r)
      BY <2>2, <3>1 DEF Room, Slack
    <3>. QED  BY <1>a, <2>4, <3>1, <3>2, SureKept
  <2>5. alive["server"] > 0 => alive'["server"] > 0
    BY <1>b, <2>2
  <2>6. \A r \in Role : alive'[r] > 0 => Sure(r)'
    BY <2>3, <2>4
  <2>7. CASE m.to = "server"
    BY <2>3, <2>6, <2>7
  <2>8. CASE m.to = "client"
    BY <1>a, <2>5, <2>6, <2>8
  <2>. QED  BY <2>1, <2>7, <2>8
<1>. QED  BY <1>1, <1>2, <1>3, <1>4, <1>5, <1>6 DEF Next

(* If the clocks agree, sockets outlast replies, and the heartbeats that   *)
(* may be lost leave time for one more before the ttl has run down, then   *)
(* no side gives up a path that carries them, whatever the periods and     *)
(* delays, as long as none meets the gap of a straddled round.  With the numbers of the code and no loss the delay may be up   *)
(* to 587 ms; after one lost heartbeat less than 2 ms are left.            *)
THEOREM NeverGivenUp ==
  ASSUME ClocksAgree, SocketsOutlast, HeardInTime
  PROVE  Spec => StaysAlive
<1>1. Init => LinkInv
  <2> SUFFICES ASSUME Init PROVE LinkInv
    OBVIOUS
  <2>1. net = {} /\ \A r \in Role : alive[r] = 0
    BY DEF Init
  <2>. QED  BY <2>1, Roles DEF LinkInv
<1>2. TypeOK /\ TypeOK' /\ FreshAccepted /\ RepliesHeard /\ LinkInv /\ [Next]_vars => LinkInv'
  BY LinkStep
<1>3. TypeOK /\ FreshAccepted /\ RepliesHeard /\ LinkInv /\ [Next]_vars =>
        [\A r \in Role : alive[r] > 0 /\ running' /\ ~cut' => alive'[r] > 0]_vars
  <2> SUFFICES ASSUME TypeOK, LinkInv, [Next]_vars,
                      NEW r \in Role, alive[r] > 0, running', ~cut'
               PROVE  alive'[r] > 0
    OBVIOUS
  <2>1. running
    BY DEF Next, Hop, Stop, Tick, Heartbeat, SendPacket, Arrive, clocks, vars
  <2>2. ~cut
    BY DEF Next, Hop, Stop, Tick, Heartbeat, SendPacket, Arrive, SendBeat, history, vars
  <2>3. alive \in [Role -> 0 .. TTL] /\ \A m \in net : m.to \in Role
    BY DEF TypeOK
  <2>4. CASE Hop \/ Stop \/ Tick \/ UNCHANGED vars \/ \E q \in Role : SendPacket(q)
    BY <2>4 DEF Hop, Stop, Tick, SendPacket, vars
  <2>5. ASSUME NEW q \in Role, Heartbeat(q) PROVE alive'[r] > 0
    <3>1. CASE q = r
      BY <2>1, <2>2, <2>5, <3>1, BeatSurvived DEF LinkInv
    <3>2. CASE q # r
      BY <2>3, <2>5, <3>2 DEF Heartbeat
    <3>. QED  BY <3>1, <3>2
  <2>6. ASSUME NEW m \in net, Arrive(m) PROVE alive'[r] > 0
    BY <2>3, <2>6, Positive DEF Arrive
  <2>. QED  BY <2>4, <2>5, <2>6 DEF Next
<1>4. Spec => []FreshAccepted
  BY TokensFresh
<1>5. Spec => []RepliesHeard
  BY RepliesReach
<1>6. Spec => []TypeOK
  BY Types
<1>. QED  BY <1>1, <1>2, <1>3, <1>4, <1>5, <1>6, PTL DEF Spec, StaysAlive
=============================================================================
