--------------------------- MODULE PathLoopProofs ---------------------------
(***************************************************************************)
(* Proofs about the loop of udp_sender, for every number of paths: that it *)
(* implements PathSelect, and through it that it starves no path.          *)
(***************************************************************************)
EXTENDS PathLoop, TLAPS

(* Distances round the ring lie in 1 .. PathCount.                         *)
LEMMA DistRange ==
  ASSUME NEW a \in Path, NEW q \in Path
  PROVE  /\ Dist(a, q) \in 1 .. PathCount
         /\ (Dist(a, q) = PathCount) <=> (q = a)
BY PathCountAssumption DEF Path, Dist

(* Stepping to a path c that is no further than q brings q strictly closer *)
(* unless c is q itself.                                                   *)
LEMMA DistShrinks ==
  ASSUME NEW a \in Path, NEW c \in Path, NEW q \in Path,
         Dist(a, c) <= Dist(a, q), c # q
  PROVE  Dist(c, q) < Dist(a, q)
BY PathCountAssumption DEF Path, Dist

(* The path behind p in the ring.                                          *)
LEMMA SteppedPath ==
  ASSUME NEW p \in Path
  PROVE  /\ Stepped(p) \in Path
         /\ Stepped(p) = IF p = PathCount - 1 THEN 0 ELSE p + 1
<1>1. p + 1 = PathCount => (p + 1) % PathCount = 0
  BY PathCountAssumption
<1>2. p + 1 < PathCount => (p + 1) % PathCount = p + 1
  BY PathCountAssumption DEF Path
<1>. QED  BY <1>1, <1>2, PathCountAssumption DEF Path, Stepped

(* One step away from a, and one step further.                             *)
LEMMA SteppedDist ==
  ASSUME NEW a \in Path, NEW p \in Path
  PROVE  /\ Dist(a, Stepped(a)) = 1
         /\ p # a /\ Stepped(p) # a => Dist(a, Stepped(p)) = Dist(a, p) + 1
         /\ p # a /\ Stepped(p) = a => Dist(a, p) = PathCount - 1
         /\ Stepped(p) # a => Dist(Stepped(p), a) = Dist(p, a) - 1
BY SteppedPath, PathCountAssumption DEF Path, Dist

-----------------------------------------------------------------------------
(* While the loop runs: it has left last, and passed no path that is       *)
(* alive since.                                                            *)
LoopInv ==
  /\ path \in Path /\ last \in Path
  /\ looping \in BOOLEAN
  /\ up \in SUBSET Path
  /\ looping => \A x \in up : path # last => Dist(last, path) < Dist(last, x)

LEMMA LoopInit == Init => LoopInv
<1> SUFFICES ASSUME Init PROVE LoopInv
  OBVIOUS
<1>1. path \in Path /\ last \in Path /\ up \in SUBSET Path
  BY PathCountAssumption DEF Init, Path
<1>2. looping \in BOOLEAN /\ ~looping
  BY DEF Init
<1>. QED  BY <1>1, <1>2 DEF LoopInv

LEMMA TurnStep ==
  ASSUME LoopInv, Turn
  PROVE  /\ path' \in Path /\ path' = Stepped(path)
         /\ looping' \in BOOLEAN
         /\ looping' => \A x \in up : Dist(last, path') < Dist(last, x)
         /\ looping' => path' # last
         /\ ~looping' => Chosen(last, path', up)
<1>1. /\ path \in Path /\ last \in Path /\ up \in SUBSET Path /\ looping
      /\ path' = Stepped(path) /\ last' = last /\ up' = up
      /\ looping' <=> ~(path' \in up \/ path' = last)
  BY DEF LoopInv, Turn, Leave
<1>2. path' \in Path /\ looping' \in BOOLEAN
  BY <1>1, SteppedPath DEF Turn
<1>3. \A x \in up : path' # last => Dist(last, path') <= Dist(last, x)
  <2> SUFFICES ASSUME NEW x \in up, path' # last
               PROVE  Dist(last, path') <= Dist(last, x)
    OBVIOUS
  <2>1. Dist(last, x) \in 1 .. PathCount
    BY <1>1, DistRange
  <2>2. CASE path = last
    BY <1>1, <2>1, <2>2, SteppedDist
  <2>3. CASE path # last
    <3>1. Dist(last, path) < Dist(last, x) /\ Dist(last, path) \in 1 .. PathCount
      BY <1>1, <2>3, DistRange DEF LoopInv
    <3>2. Dist(last, path') = Dist(last, path) + 1
      BY <1>1, <2>3, SteppedDist
    <3>. QED  BY <2>1, <3>1, <3>2
  <2>. QED  BY <2>2, <2>3
<1>4. ASSUME looping', NEW x \in up PROVE Dist(last, path') < Dist(last, x)
  <2>1. path' # last /\ path' # x
    BY <1>1, <1>4
  <2>2. Dist(last, path') <= Dist(last, x)
    BY <1>3, <2>1, <1>4
  <2>3. Dist(last, path') # Dist(last, x)
    BY <1>1, <1>2, <2>1, <1>4, PathCountAssumption DEF Dist, Path
  <2>4. Dist(last, path') \in Int /\ Dist(last, x) \in Int
    BY <1>1, <1>2, DistRange
  <2>. QED  BY <2>2, <2>3, <2>4
<1>5. ASSUME ~looping' PROVE Chosen(last, path', up)
  <2>1. CASE path' # last
    BY <1>1, <1>3, <1>5, <2>1 DEF Chosen
  <2>2. CASE path' = last
    <3>1. \A x \in up : x = last
      <4> SUFFICES ASSUME NEW x \in up, x # last PROVE FALSE
        OBVIOUS
      <4>1. Dist(last, x) \in 1 .. PathCount /\ Dist(last, x) # PathCount
        BY <1>1, DistRange
      <4>2. CASE path = last
        <5>1. Dist(last, last) = 1 /\ Dist(last, last) = PathCount
          BY <1>1, <2>2, <4>2, DistRange, SteppedDist
        <5>. QED  BY <4>1, <5>1
      <4>3. CASE path # last
        <5>1. Dist(last, path) = PathCount - 1 /\ Dist(last, path) < Dist(last, x)
          BY <1>1, <2>2, <4>3, SteppedDist DEF LoopInv
        <5>. QED  BY <4>1, <5>1, PathCountAssumption
      <4>. QED  BY <4>2, <4>3
    <3>. QED  BY <1>1, <2>2, <3>1, DistRange DEF Chosen
  <2>. QED  BY <2>1, <2>2
<1>. QED  BY <1>1, <1>2, <1>4, <1>5

LEMMA LoopStep == LoopInv /\ [Next]_vars => LoopInv'
<1> SUFFICES ASSUME LoopInv, [Next]_vars PROVE LoopInv'
  OBVIOUS
<1>1. CASE Enter
  BY <1>1 DEF Enter, LoopInv
<1>2. CASE Turn
  <2>1. last' = last /\ up' = up
    BY <1>2 DEF Turn
  <2>. QED  BY <1>2, <2>1, TurnStep DEF LoopInv
<1>3. ASSUME NEW q \in Path, PathUp(q) \/ PathDown(q) PROVE LoopInv'
  BY <1>3 DEF PathUp, PathDown, LoopInv
<1>4. CASE UNCHANGED vars
  BY <1>4 DEF vars, LoopInv
<1>. QED  BY <1>1, <1>2, <1>3, <1>4 DEF Next

LEMMA LoopInvariant == Spec => []LoopInv
BY LoopInit, LoopStep, PTL DEF Spec

-----------------------------------------------------------------------------
(* For every number of paths, the loop of udp_sender is one step of        *)
(* PathSelect: the turn it ends with sends the packet, the others stutter. *)
THEOREM LoopImplements == Spec => SelectSpec
<1>1. Init => P!Init
  BY DEF Init, P!Init, Resting, Path, P!Path
<1>2. LoopInv /\ [Next]_vars => [P!Next]_(P!vars)
  <2> SUFFICES ASSUME LoopInv, [Next]_vars PROVE [P!Next]_(P!vars)
    OBVIOUS
  <2>1. CASE Enter
    BY <2>1 DEF Enter, P!vars, Resting
  <2>2. CASE Turn
    <3>1. last' = last /\ up' = up /\ looping /\ Resting = last
      BY <2>2 DEF Turn, Resting
    <3>2. CASE looping'
      BY <2>2, <3>1, <3>2 DEF Turn, P!vars, Resting
    <3>3. CASE ~looping'
      <4>1. path' \in Path /\ Chosen(last, path', up)
        BY <2>2, <3>3, TurnStep
      <4>2. Resting' = path'
        BY <3>3 DEF Resting
      <4>3. wait' = [q \in Path |-> IF q \in up /\ q # path' THEN wait[q] + 1 ELSE 0]
        BY <2>2, <3>3 DEF Turn
      <4>4. P!Chosen(Resting, path', up) /\ path' \in P!Path
        BY <3>1, <4>1 DEF Chosen, Dist, Path, P!Chosen, P!Dist, P!Path
      <4>5. P!SendPacket
        BY <3>1, <4>2, <4>3, <4>4 DEF P!SendPacket, Path, P!Path
      <4>. QED  BY <4>5 DEF P!Next
    <3>. QED  BY <3>2, <3>3
  <2>3. ASSUME NEW q \in Path, PathUp(q) PROVE P!PathUp(q)
    BY <2>3 DEF PathUp, P!PathUp, Resting
  <2>4. ASSUME NEW q \in Path, PathDown(q) PROVE P!PathDown(q)
    BY <2>4 DEF PathDown, P!PathDown, Resting
  <2>5. CASE UNCHANGED vars
    BY <2>5 DEF vars, P!vars, Resting
  <2>. QED  BY <2>1, <2>2, <2>3, <2>4, <2>5 DEF Next, P!Next, Path, P!Path
<1>. QED  BY <1>1, <1>2, LoopInvariant, PTL DEF Spec, P!Spec, SelectSpec

(* For every number of paths, the loop ends after no more than one round.  *)
THEOREM RoundBounded == Spec => RoundEnds
<1>1. LoopInv /\ [Next]_vars =>
        [Turn /\ looping' => Dist(path', last) < Dist(path, last)]_vars
  <2> SUFFICES ASSUME LoopInv, Turn, looping'
               PROVE  Dist(path', last) < Dist(path, last)
    OBVIOUS
  <2>1. path' = Stepped(path) /\ path' # last
    BY TurnStep
  <2>2. path \in Path /\ last \in Path
    BY DEF LoopInv
  <2>3. Dist(path', last) = Dist(path, last) - 1 /\ Dist(path, last) \in Int
    BY <2>1, <2>2, SteppedDist, DistRange
  <2>. QED  BY <2>3
<1>. QED  BY <1>1, LoopInvariant, PTL DEF Spec, RoundEnds

(* For every number of paths, the early return of udp_sender on a dead     *)
(* path is taken only when no path at all is alive.                        *)
THEOREM DropsOnlyDead == Spec => DropOnlyWhenAllDead
<1>1. LoopInv /\ [Next]_vars => [Turn /\ ~looping' => (path' \in up \/ up = {})]_vars
  <2> SUFFICES ASSUME LoopInv, Turn, ~looping' PROVE path' \in up \/ up = {}
    OBVIOUS
  <2>. QED  BY TurnStep DEF Chosen
<1>. QED  BY <1>1, LoopInvariant, PTL DEF Spec, DropOnlyWhenAllDead

-----------------------------------------------------------------------------
(* What PathSelect promises, of the loop's Resting.                        *)
LEMMA SelectPath == P!Path = Path /\ \A a, q : P!Dist(a, q) = Dist(a, q)
BY DEF Path, P!Path, Dist, P!Dist

LEMMA SelectTyping == P!Spec => []P!TypeOK
<1>1. P!Init => P!TypeOK
  BY PathCountAssumption DEF P!Init, P!TypeOK, P!Path
<1>2. P!TypeOK /\ [P!Next]_(P!vars) => P!TypeOK'
  <2> SUFFICES ASSUME P!TypeOK, [P!Next]_(P!vars) PROVE P!TypeOK'
    OBVIOUS
  <2> USE DEF P!TypeOK
  <2>1. CASE P!SendPacket
    BY <2>1 DEF P!SendPacket
  <2>2. ASSUME NEW q \in P!Path, P!PathUp(q) PROVE P!TypeOK'
    BY <2>2 DEF P!PathUp
  <2>3. ASSUME NEW q \in P!Path, P!PathDown(q) PROVE P!TypeOK'
    BY <2>3 DEF P!PathDown
  <2>4. CASE UNCHANGED P!vars
    BY <2>4 DEF P!vars
  <2>. QED  BY <2>1, <2>2, <2>3, <2>4 DEF P!Next
<1>. QED  BY <1>1, <1>2, PTL DEF P!Spec

(* One step keeps every path's wait within what is left of the round.      *)
LEMMA WaitBoundStep == P!TypeOK /\ P!WaitBound /\ [P!Next]_(P!vars) => P!WaitBound'
<1> SUFFICES ASSUME P!TypeOK, P!WaitBound, [P!Next]_(P!vars),
                    NEW x \in Path
             PROVE  wait'[x] + Dist(Resting', x) <= PathCount
  BY SelectPath DEF P!WaitBound
<1>0. /\ wait \in [Path -> Nat] /\ wait[x] \in Nat
      /\ wait[x] + Dist(Resting, x) <= PathCount /\ Resting \in Path
  BY SelectPath DEF P!TypeOK, P!WaitBound
<1>1. CASE P!SendPacket
  <2>1. PICK q \in Path :
          /\ Chosen(Resting, q, up)
          /\ Resting' = q
          /\ wait' = [y \in Path |-> IF y \in up /\ y # q THEN wait[y] + 1 ELSE 0]
    BY <1>1, SelectPath DEF P!SendPacket, P!Chosen, Chosen
  <2>2. CASE x \in up /\ x # q
    <3>1. Dist(Resting, q) <= Dist(Resting, x)
      BY <2>1, <2>2 DEF Chosen
    <3>2. Dist(q, x) < Dist(Resting, x)
      BY <3>1, <2>2, <1>0, DistShrinks
    <3>3. Dist(q, x) \in Nat /\ Dist(Resting, x) \in Nat
      BY <1>0, DistRange
    <3>. QED  BY <3>2, <3>3, <2>1, <2>2, <1>0, PathCountAssumption
  <2>3. CASE ~(x \in up /\ x # q)
    BY <2>1, <2>3, DistRange, PathCountAssumption
  <2>. QED  BY <2>2, <2>3
<1>2. ASSUME NEW q \in Path, P!PathUp(q)
      PROVE  wait'[x] + Dist(Resting', x) <= PathCount
  BY <1>0, <1>2 DEF P!PathUp
<1>3. ASSUME NEW q \in Path, P!PathDown(q)
      PROVE  wait'[x] + Dist(Resting', x) <= PathCount
  <2>1. Resting' = Resting /\ wait'[x] \in {0, wait[x]}
    BY <1>0, <1>3 DEF P!PathDown
  <2>2. Dist(Resting, x) \in 1 .. PathCount
    BY <1>0, DistRange
  <2>. QED  BY <1>0, <2>1, <2>2, PathCountAssumption
<1>4. CASE UNCHANGED P!vars
  BY <1>0, <1>4 DEF P!vars
<1>. QED  BY <1>1, <1>2, <1>3, <1>4, SelectPath DEF P!Next

(* For every number of paths: the packets a path has waited for, with the  *)
(* steps of udp_sender's static variable to it, never exceed one round.    *)
THEOREM WaitBounded == P!Spec => []P!WaitBound
<1>1. P!Init => P!WaitBound
  <2> SUFFICES ASSUME P!Init, NEW x \in Path
               PROVE  wait[x] + Dist(Resting, x) <= PathCount
    BY SelectPath DEF P!WaitBound
  <2>1. Resting \in Path /\ wait[x] = 0
    BY SelectPath, PathCountAssumption DEF P!Init, Path
  <2>. QED  BY <2>1, DistRange, PathCountAssumption
<1>. QED  BY <1>1, WaitBoundStep, SelectTyping, PTL DEF P!Spec

(* For every number of paths, the loop of udp_sender starves no path that  *)
(* stays alive: fewer than PathCount packets pass between two uses of it.  *)
THEOREM Rotation == Spec => []NoStarvation
<1>1. P!TypeOK /\ P!WaitBound => NoStarvation
  <2> SUFFICES ASSUME P!TypeOK, P!WaitBound, NEW x \in Path
               PROVE  wait[x] < PathCount
    BY SelectPath DEF NoStarvation, P!NoStarvation
  <2>1. wait[x] \in Nat /\ Resting \in Path /\ wait[x] + Dist(Resting, x) <= PathCount
    BY SelectPath DEF P!TypeOK, P!WaitBound
  <2>. QED  BY <2>1, DistRange, PathCountAssumption
<1>. QED  BY <1>1, WaitBounded, SelectTyping, LoopImplements, PTL DEF SelectSpec
=============================================================================
