------------------------------ MODULE PathRing ------------------------------
(***************************************************************************)
(* The ring of configured paths and the choice udp_sender makes on it      *)
(* (src/src/vpn.c): used by PathSelect, the rotation on its own, PathLoop, *)
(* its loop, and Vpn, the whole tunnel.                                    *)
(***************************************************************************)
EXTENDS Integers

CONSTANT
  PathCount      \* ctx.path_count; read_conf accepts 1 .. PATH_MAX_COUNT (8)

ASSUME PathCountAssumption == PathCount \in Nat \ {0}

Path == 0 .. PathCount - 1

(***************************************************************************)
(* How many times the loop steps "path" from last before it stands on q:   *)
(* 1 for the next path of the ring, PathCount for last itself.             *)
(***************************************************************************)
Dist(last, q) == IF q > last THEN q - last ELSE q - last + PathCount

(* Faulty variant: the next path of the ring, alive or not.                *)
NextInRing(last, q, alive) == q = (last + 1) % PathCount

(***************************************************************************)
(* The loop of udp_sender leaves on q, when the set of paths with          *)
(* alive > 0 is alive and the static variable holds last: q is the first   *)
(* alive path met, or last again when the round has met none.              *)
(***************************************************************************)
Chosen(last, q, alive) ==
  \/ q \in alive /\ \A x \in alive : Dist(last, q) <= Dist(last, x)
  \/ alive = {} /\ q = last

=============================================================================
