------------------------------ MODULE MCStartup ------------------------------
(***************************************************************************)
(* Startup for TLC: the sizes of subnets as powers of 2, 1 << (W - mask).  *)
(***************************************************************************)
EXTENDS Startup

MCSize == [m \in 0 .. W |-> 2^(W - m)]
=============================================================================
