------------------------------ MODULE PathLoop ------------------------------
(***************************************************************************)
(* The loop of udp_sender (src/src/vpn.c) as the code runs it: one turn    *)
(* per step, the static variable "path" itself moving round the ring.      *)
(* udp_sender never yields, so which paths are alive changes only while    *)
(* the loop does not run.  That a packet is sent in one step, to the path  *)
(* that is next in the ring among those alive, is module PathSelect, which *)
(* this one implements.                                                    *)
(***************************************************************************)
EXTENDS PathRing

VARIABLES
  path,     \* the static variable of udp_sender
  last,     \* its local variable
  looping,  \* udp_sender is in its loop
  up,       \* the paths whose alive counter is positive
  wait      \* history: packets sent since q was last used, while q stayed alive

vars == <<path, last, looping, up, wait>>

(* Faulty variant: the step is left out while the path is alive.           *)
StepIfDead(p) == IF p \in up THEN p ELSE (p + 1) % PathCount

(* path = (path + 1) % ctx.path_count                                      *)
Stepped(p) == (p + 1) % PathCount

(* Faulty variants: the loop ends at the next path, alive or not; only at  *)
(* an alive one; one short of the round.                                   *)
LeaveAtOnce(p) == TRUE
LeaveIfAlive(p) == p \in up
LeaveEarly(p) == p \in up \/ Stepped(p) = last

Leave(p) == p \in up \/ p = last

-----------------------------------------------------------------------------
(* A packet has been read from the tun device: last = path.                *)
Enter ==
  /\ ~looping
  /\ looping' = TRUE
  /\ last' = path
  /\ UNCHANGED <<path, up, wait>>

(* One turn of the loop; after the last one the packet goes to the path    *)
(* the loop ends on, or is dropped there.                                  *)
Turn ==
  /\ looping
  /\ path' = Stepped(path)
  /\ looping' = ~Leave(path')
  /\ wait' = IF looping' THEN wait
             ELSE [q \in Path |-> IF q \in up /\ q # path' THEN wait[q] + 1 ELSE 0]
  /\ UNCHANGED <<last, up>>

(* A valid packet renews the ttl of q, or a heartbeat runs it down to 0.   *)
PathUp(q) ==
  /\ ~looping /\ q \notin up
  /\ up' = up \cup {q}
  /\ UNCHANGED <<path, last, looping, wait>>

PathDown(q) ==
  /\ ~looping /\ q \in up
  /\ up' = up \ {q}
  /\ wait' = [wait EXCEPT ![q] = 0]
  /\ UNCHANGED <<path, last, looping>>

Init ==
  /\ path = 0
  /\ last = 0
  /\ looping = FALSE
  /\ up = {}
  /\ wait = [q \in Path |-> 0]

Next ==
  \/ Enter \/ Turn
  \/ \E q \in Path : PathUp(q) \/ PathDown(q)

Spec == Init /\ [][Next]_vars

-----------------------------------------------------------------------------
(* What a packet finds in the static variable, and leaves there.           *)
Resting == IF looping THEN last ELSE path

P == INSTANCE PathSelect WITH path <- Resting

(* The loop serves the paths as PathSelect says: it ends on the alive path *)
(* that is next in the ring, and where it began if no path is alive.       *)
SelectSpec == P!Spec

(* udp_sender's rotation serves every path that stays alive: between two   *)
(* uses of it at most PathCount - 1 packets go to other paths, however the *)
(* other paths come and go meanwhile.                                      *)
NoStarvation == P!NoStarvation

(* udp_sender drops a packet (its early return on alive <= 0) only when no *)
(* path is alive.                                                          *)
DropOnlyWhenAllDead == [][Turn /\ ~looping' => (path' \in up \/ up = {})]_vars

(* The loop ends, after no more than one round: each turn that is not its  *)
(* last brings it closer to where it began.                                *)
RoundEnds == [][Turn /\ looping' => Dist(path', last) < Dist(path, last)]_vars
=============================================================================
