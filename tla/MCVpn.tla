------------------------------- MODULE MCVpn -------------------------------
(***************************************************************************)
(* Vpn for TLC: the client's socket addresses are interchangeable.         *)
(***************************************************************************)
EXTENDS Vpn, TLC

SockSymmetry == Permutations(Sock)
=============================================================================
