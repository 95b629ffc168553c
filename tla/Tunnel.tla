------------------------------- MODULE Tunnel -------------------------------
(***************************************************************************)
(* What muon promises of the packets it carries: two tun devices, and a    *)
(* packet written to one of them was read from the other.  Packets may be  *)
(* lost, reordered and written more than once, as UDP may do.              *)
(***************************************************************************)
CONSTANT Packet

Role == {"client", "server"}
Peer(r) == IF r = "client" THEN "server" ELSE "client"

VARIABLES
  read,     \* the packets read from each tun device so far
  written   \* the packets written to each tun device so far

Init ==
  /\ read = [r \in Role |-> {}]
  /\ written = [r \in Role |-> {}]

Read(r, d) ==
  /\ read' = [read EXCEPT ![r] = @ \cup {d}]
  /\ UNCHANGED written

Write(r, d) ==
  /\ d \in read[Peer(r)]
  /\ written' = [written EXCEPT ![r] = @ \cup {d}]
  /\ UNCHANGED read

Next == \E r \in Role, d \in Packet : Read(r, d) \/ Write(r, d)

Spec == Init /\ [][Next]_<<read, written>>
=============================================================================
