------------------------------ MODULE MCTiming ------------------------------
(***************************************************************************)
(* Timing for TLC: two ticks are a slot, and the clocks are 1 tick apart.  *)
(* A client that is ahead starts with a slot of the server, one that is    *)
(* behind in the middle of a slot: there the ends of the window are met.   *)
(***************************************************************************)
EXTENDS Timing

MCClocks == {[phase |-> 0, skew |-> 1], [phase |-> 1, skew |-> -1]}
=============================================================================
