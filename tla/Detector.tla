------------------------------ MODULE Detector ------------------------------
(***************************************************************************)
(* What a process promises about one path: it trusts the path from the     *)
(* moment it hears its peer, gives it up only after a silence of Earliest, *)
(* and never trusts it through a silence longer than Latest; until it ends.*)
(***************************************************************************)
EXTENDS Naturals

CONSTANTS
  Earliest,  \* the shortest silence that may end the trust
  Latest     \* the longest silence it may outlast

VARIABLES
  on,       \* the process has not ended
  trusted,  \* packets are sent over the path
  quiet     \* the silence so far, while the path is trusted

vars == <<on, trusted, quiet>>

Hear ==
  /\ on
  /\ trusted' = TRUE /\ quiet' = 0
  /\ UNCHANGED on

GiveUp ==
  /\ on /\ trusted /\ quiet >= Earliest
  /\ trusted' = FALSE /\ quiet' = 0
  /\ UNCHANGED on

Wait ==
  /\ on /\ trusted /\ quiet < Latest
  /\ quiet' = quiet + 1
  /\ UNCHANGED <<on, trusted>>

End ==
  /\ on
  /\ on' = FALSE /\ trusted' = FALSE /\ quiet' = 0

Init == on = TRUE /\ trusted = FALSE /\ quiet = 0

Next == Hear \/ GiveUp \/ Wait \/ End

Spec == Init /\ [][Next]_vars
=============================================================================
