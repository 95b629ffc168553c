----------------------------- MODULE PathSelect -----------------------------
(***************************************************************************)
(* The multipath rotation of udp_sender (src/src/vpn.c).                   *)
(*                                                                         *)
(* udp_sender keeps a static variable "path" and, for every packet read    *)
(* from the tun device, steps it round the ring of configured paths until  *)
(* it meets one that is alive or is back where it began.  The function     *)
(* never yields, so one packet is one step; meanwhile the workers and the  *)
(* heartbeat change which paths are alive between two packets.             *)
(***************************************************************************)
EXTENDS PathRing

VARIABLES
  path,   \* the static variable of udp_sender
  up,     \* the paths whose alive counter is positive
  wait    \* history: packets sent since q was last used, while q stayed alive

vars == <<path, up, wait>>

Init ==
  /\ path = 0
  /\ up = {}
  /\ wait = [q \in Path |-> 0]

(* A tun packet: the loop, then the early return when no path is alive.    *)
SendPacket ==
  \E q \in Path :
    /\ Chosen(path, q, up)
    /\ path' = q
    /\ wait' = [x \in Path |-> IF x \in up /\ x # q THEN wait[x] + 1 ELSE 0]
    /\ UNCHANGED up

(* A valid packet renews the ttl of q, or a heartbeat runs it down to 0.   *)
PathUp(q) ==
  /\ q \notin up
  /\ up' = up \cup {q}
  /\ UNCHANGED <<path, wait>>

PathDown(q) ==
  /\ q \in up
  /\ up' = up \ {q}
  /\ wait' = [wait EXCEPT ![q] = 0]
  /\ UNCHANGED path

Next ==
  \/ SendPacket
  \/ \E q \in Path : PathUp(q) \/ PathDown(q)

Spec == Init /\ [][Next]_vars

-----------------------------------------------------------------------------
(* Types of the rotation's state.                                          *)
TypeOK ==
  /\ path \in Path
  /\ up \in SUBSET Path
  /\ wait \in [Path -> Nat]

(* udp_sender's rotation serves every path that stays alive: between two   *)
(* uses of it at most PathCount - 1 packets go to other paths, however the *)
(* other paths come and go meanwhile.                                      *)
NoStarvation == \A q \in Path : wait[q] < PathCount

(* The inductive strengthening: the packets q has waited for, and the      *)
(* steps that still separate the static variable from q, never add up to   *)
(* more than one round.                                                    *)
WaitBound == \A q \in Path : wait[q] + Dist(path, q) <= PathCount
=============================================================================
