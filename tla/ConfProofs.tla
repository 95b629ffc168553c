----------------------------- MODULE ConfProofs -----------------------------
(***************************************************************************)
(* Proofs about the configuration, for every file: any number of lines in  *)
(* any order, any numbers.                                                 *)
(***************************************************************************)
EXTENDS Conf, TLAPS

(* While the file is read: the paths fit the array and have ranges, all    *)
(* but the last one a range of their own, and the mtu, once set, is within *)
(* its bounds.                                                             *)
ReadInv ==
  /\ TypeOK
  /\ Len(paths) <= PathMaxCount
  /\ \A i \in 1 .. Len(paths) : paths[i].lo <= paths[i].hi
  /\ \A i \in 1 .. Len(paths) - 1 : paths[i].lo # 0
  /\ mtu = 0 \/ mtu \in 1024 .. PayloadMax
  /\ stage = "accepted" => Usable

Ports == [lo : Nat, hi : Nat]

LEMMA ReadInit == Init => ReadInv
<1> SUFFICES ASSUME Init PROVE ReadInv
  OBVIOUS
<1> DEFINE R == [lo : Nat, hi : Nat]
<1>1. paths = <<>> /\ paths \in Seq(R) /\ Len(paths) = 0
  <2>. HIDE DEF R
  <2>. QED  BY DEF Init
<1>2. stage = "reading" /\ mtu = 0
  BY DEF Init
<1>3. paths \in Seq([lo : Nat, hi : Nat])
  BY <1>1
<1>4. mtu \in 0 .. PayloadMax
  BY <1>2 DEF PayloadMax
<1>5. TypeOK
  <2>1. texts \subseteq Text /\ route \in BOOLEAN /\ early \in BOOLEAN /\ args \in BOOLEAN
    BY DEF Init
  <2>2. mode \in {0, 1, 2} /\ user = "none" /\ userLine \in User
    BY DEF Init, User
  <2>. QED  BY <1>2, <1>3, <1>4, <2>1, <2>2 DEF TypeOK
<1>. QED  BY <1>1, <1>2, <1>5, ConfAssumption DEF ReadInv

LEMMA RejectStep ==
  ASSUME ReadInv, Reject,
         UNCHANGED <<args, texts, route>>, userLine' \in User
  PROVE  ReadInv'
BY DEF ReadInv, TypeOK, Reject

LEMMA ServerStep == ReadInv /\ ServerLine => ReadInv'
<1> SUFFICES ASSUME ReadInv, ServerLine PROVE ReadInv'
  OBVIOUS
<1>1. CASE ServerRefused
  BY <1>1, RejectStep DEF ServerLine, ReadInv, TypeOK
<1>2. CASE ~ServerRefused
  <2> DEFINE fresh == [lo |-> 0, hi |-> 0]
  <2>1. /\ paths' = Append(paths, fresh) /\ stage' = stage /\ stage = "reading"
        /\ UNCHANGED <<mode, user, mtu, early, args, texts, route, userLine>>
    BY <1>2 DEF ServerLine, Keep
  <2>2. paths \in Seq(Ports) /\ fresh \in Ports /\ Len(paths) \in Nat
    BY DEF ReadInv, TypeOK, Ports
  <2>3. /\ paths' \in Seq(Ports) /\ Len(paths') = Len(paths) + 1
        /\ \A i \in 1 .. Len(paths) : paths'[i] = paths[i]
        /\ paths'[Len(paths) + 1] = fresh
    BY <2>1, <2>2
  <2>4. Len(paths) < PathMaxCount /\ (Len(paths) # 0 => paths[Len(paths)].lo # 0)
    BY <1>2, <2>2, ConfAssumption DEF ServerRefused
  <2>5. Len(paths') <= PathMaxCount
    BY <2>2, <2>3, <2>4, ConfAssumption
  <2>6. \A i \in 1 .. Len(paths') : paths'[i].lo <= paths'[i].hi
    BY <2>2, <2>3 DEF ReadInv
  <2>7. \A i \in 1 .. Len(paths') - 1 : paths'[i].lo # 0
    BY <2>2, <2>3, <2>4 DEF ReadInv
  <2>. QED  BY <2>1, <2>3, <2>5, <2>6, <2>7 DEF ReadInv, TypeOK, Ports
<1>. QED  BY <1>1, <1>2

LEMMA PortStep ==
  ASSUME NEW lo \in Port, NEW hi \in Port
  PROVE  ReadInv /\ PortLine(lo, hi) => ReadInv'
<1> SUFFICES ASSUME ReadInv, PortLine(lo, hi) PROVE ReadInv'
  OBVIOUS
<1>0. lo \in Nat /\ hi \in Int
  BY ConfAssumption DEF PortLine
<1>1. CASE ~RangeValid(lo, hi)
  BY <1>1, RejectStep DEF PortLine, ReadInv, TypeOK
<1>2. CASE RangeValid(lo, hi) /\ paths = <<>>
  BY <1>2 DEF PortLine, Keep, HasServer, OverUser, ReadInv, TypeOK
<1>3. CASE RangeValid(lo, hi) /\ paths # <<>>
  <2> DEFINE given == [lo |-> lo, hi |-> hi]
  <2>1. /\ paths' = [paths EXCEPT ![Len(paths)] = given]
        /\ stage' = stage /\ stage = "reading" /\ lo <= hi
        /\ UNCHANGED <<mode, user, mtu, args, texts, route, userLine>>
    BY <1>3 DEF PortLine, Keep, HasServer, RangeValid
  <2>0. early' \in BOOLEAN
    BY <1>3 DEF PortLine
  <2>2. paths \in Seq(Ports) /\ given \in Ports /\ Len(paths) \in Nat \ {0}
    BY <1>0, <1>3, <2>1 DEF ReadInv, TypeOK, Ports
  <2>3. /\ paths' \in Seq(Ports) /\ Len(paths') = Len(paths)
        /\ \A i \in 1 .. Len(paths) - 1 : paths'[i] = paths[i]
        /\ paths'[Len(paths)] = given
    BY <2>1, <2>2
  <2>4. \A i \in 1 .. Len(paths') : paths'[i].lo <= paths'[i].hi
    <3> SUFFICES ASSUME NEW i \in 1 .. Len(paths') PROVE paths'[i].lo <= paths'[i].hi
      OBVIOUS
    <3>0. given.lo <= given.hi
      BY <2>1
    <3>1. CASE i = Len(paths)
      <4>. HIDE DEF given
      <4>. QED  BY <2>3, <3>0, <3>1
    <3>2. CASE i # Len(paths)
      <4>1. i \in 1 .. Len(paths) - 1 /\ i \in 1 .. Len(paths)
        BY <2>2, <2>3, <3>2
      <4>. QED  BY <2>3, <4>1 DEF ReadInv
    <3>. QED  BY <3>1, <3>2
  <2>5. \A i \in 1 .. Len(paths') - 1 : paths'[i].lo # 0
    BY <2>2, <2>3 DEF ReadInv
  <2>6. Len(paths') <= PathMaxCount /\ (mtu' = 0 \/ mtu' \in 1024 .. PayloadMax)
    BY <2>1, <2>3 DEF ReadInv
  <2>7. TypeOK'
    <3>1. paths' \in Seq([lo : Nat, hi : Nat])
      BY <2>3 DEF Ports
    <3>2. UNCHANGED <<stage, args, mode, user, texts, route, mtu, userLine>>
      BY <2>1
    <3>. QED  BY <2>0, <3>1, <3>2 DEF ReadInv, TypeOK
  <2>8. stage' = "reading"
    BY <2>1
  <2>. HIDE DEF given
  <2>. QED  BY <2>4, <2>5, <2>6, <2>7, <2>8 DEF ReadInv
<1>. QED  BY <1>1, <1>2, <1>3

LEMMA FinishStep == ReadInv /\ Finish => ReadInv'
<1> SUFFICES ASSUME ReadInv, Finish PROVE ReadInv'
  OBVIOUS
<1>1. CASE ~Complete
  BY <1>1, RejectStep DEF Finish, ReadInv, TypeOK
<1>2. CASE Complete
  <2>1. /\ paths' = [i \in 1 .. Len(paths) |-> Defaulted(paths[i])]
        /\ UNCHANGED <<mode, user, mtu, early, args, texts, route, userLine>>
        /\ paths # <<>> /\ mtu # 0 /\ stage' = "accepted"
    BY <1>2 DEF Finish, Complete
  <2>2. paths \in Seq(Ports) /\ Len(paths) \in Nat \ {0}
    BY <2>1 DEF ReadInv, TypeOK, Ports
  <2>3. \A i \in 1 .. Len(paths) : paths[i] \in Ports /\ paths[i].lo <= paths[i].hi
    BY <2>2 DEF ReadInv
  <2>4. \A i \in 1 .. Len(paths) :
          /\ Defaulted(paths[i]) \in Ports
          /\ Defaulted(paths[i]).lo > 0
          /\ Defaulted(paths[i]).lo <= Defaulted(paths[i]).hi
    BY <2>3 DEF Defaulted, DefaultPort, Ports
  <2>5. /\ paths' \in Seq(Ports) /\ Len(paths') = Len(paths)
        /\ \A i \in 1 .. Len(paths) : paths'[i] = Defaulted(paths[i])
    BY <2>1, <2>2, <2>4
  <2>6. \A i \in 1 .. Len(paths') : paths'[i].lo > 0 /\ paths'[i].lo <= paths'[i].hi
    BY <2>4, <2>5
  <2>7. \A i \in 1 .. Len(paths') - 1 : paths'[i].lo # 0
    BY <2>2, <2>4, <2>5
  <2>8. Usable'
    BY <2>1, <2>2, <2>5, <2>6, ConfAssumption DEF Usable, ReadInv
  <2>9. Len(paths') <= PathMaxCount /\ (mtu' = 0 \/ mtu' \in 1024 .. PayloadMax)
    BY <2>1, <2>5 DEF ReadInv
  <2>10. TypeOK'
    BY <2>1, <2>5 DEF ReadInv, TypeOK, Ports
  <2>. QED  BY <2>6, <2>7, <2>8, <2>9, <2>10 DEF ReadInv
<1>. QED  BY <1>1, <1>2

LEMMA ReadStep == ReadInv /\ [Next]_vars => ReadInv'
<1> SUFFICES ASSUME ReadInv, [Next]_vars PROVE ReadInv'
  OBVIOUS
<1>1. CASE ServerLine
  BY <1>1, ServerStep
<1>2. CASE Malformed
  BY <1>2, RejectStep DEF Malformed, ReadInv, TypeOK
<1>3. CASE Finish
  BY <1>3, FinishStep
<1>4. ASSUME NEW lo \in Port, NEW hi \in Port, PortLine(lo, hi) PROVE ReadInv'
  BY <1>4, PortStep
<1>5. ASSUME NEW u \in User, UserLine(u) PROVE ReadInv'
  BY <1>5 DEF UserLine, Stored, User, ReadInv, TypeOK
<1>6. ASSUME NEW m \in {1, 2}, ModeLine(m) PROVE ReadInv'
  BY <1>6 DEF ModeLine, ReadInv, TypeOK
<1>7. ASSUME NEW field \in Text, NEW empty \in BOOLEAN, TextLine(field, empty)
      PROVE  ReadInv'
  BY <1>7 DEF TextLine, ReadInv, TypeOK
<1>10. ASSUME NEW yes \in BOOLEAN, RouteLine(yes) PROVE ReadInv'
  BY <1>10 DEF RouteLine, ReadInv, TypeOK
<1>8. ASSUME NEW v \in Mtu, MtuLine(v) PROVE ReadInv'
  <2>1. CASE ~MtuValid(v)
    BY <1>8, <2>1, RejectStep DEF MtuLine, ReadInv, TypeOK
  <2>2. CASE MtuValid(v)
    <3>1. v \in 1024 .. PayloadMax /\ v \in 0 .. PayloadMax
      BY <2>2, ConfAssumption DEF MtuValid, PayloadMax
    <3>. QED  BY <1>8, <2>2, <3>1 DEF MtuLine, Keep, ReadInv, TypeOK
  <2>. QED  BY <2>1, <2>2
<1>9. CASE UNCHANGED vars
  BY <1>9 DEF vars, ReadInv, TypeOK, Usable
<1>. QED  BY <1>1, <1>2, <1>3, <1>4, <1>5, <1>6, <1>7, <1>8, <1>9, <1>10 DEF Next

(* Every configuration parse_args accepts meets the assumptions under      *)
(* which the tunnel and the datagrams are proved correct.                  *)
THEOREM ConfUsable == Spec => []Usable
<1>1. ReadInv => Usable
  BY DEF ReadInv, Usable
<1>. QED  BY <1>1, ReadInit, ReadStep, PTL DEF Spec

(* The ports of a path are final once the next server line is read.        *)
LEMMA SettledStep ==
  ReadInv /\ [Next]_vars =>
    \/ \A i \in 1 .. Len(paths) - 1 : i \in DOMAIN paths' /\ paths'[i] = paths[i]
    \/ UNCHANGED vars
<1> DEFINE Same == \A i \in 1 .. Len(paths) - 1 : i \in DOMAIN paths' /\ paths'[i] = paths[i]
<1> SUFFICES ASSUME ReadInv, Next PROVE Same
  OBVIOUS
<1>0. /\ paths \in Seq(Ports) /\ Len(paths) \in Nat
      /\ DOMAIN paths = 1 .. Len(paths)
  BY DEF ReadInv, TypeOK, Ports
<1>1. CASE UNCHANGED paths
  BY <1>0, <1>1
<1>2. CASE ServerLine
  <2>1. UNCHANGED paths \/ paths' = Append(paths, [lo |-> 0, hi |-> 0])
    BY <1>2 DEF ServerLine, Reject
  <2>. QED  BY <1>0, <1>1, <2>1 DEF Ports
<1>3. CASE Finish
  <2>1. UNCHANGED paths \/ paths' = [i \in 1 .. Len(paths) |-> Defaulted(paths[i])]
    BY <1>3 DEF Finish, Reject
  <2>2. \A i \in 1 .. Len(paths) - 1 : Defaulted(paths[i]) = paths[i]
    BY DEF ReadInv, Defaulted
  <2>. QED  BY <1>0, <1>1, <2>1, <2>2
<1>4. ASSUME NEW lo \in Port, NEW hi \in Port, PortLine(lo, hi) PROVE Same
  <2>1. UNCHANGED paths \/ paths' = [paths EXCEPT ![Len(paths)] = [lo |-> lo, hi |-> hi]]
    BY <1>4 DEF PortLine, Reject
  <2>. QED  BY <1>0, <1>1, <2>1
<1>5. CASE UNCHANGED paths \/ Malformed
  BY <1>1, <1>5 DEF Malformed, Reject
<1>6. ASSUME NEW v \in Mtu, MtuLine(v) PROVE Same
  BY <1>1, <1>6 DEF MtuLine, Reject
<1>. QED
  BY <1>1, <1>2, <1>3, <1>4, <1>5, <1>6 DEF Next, UserLine, ModeLine, TextLine, RouteLine

(* No later line, and no default, changes the ports of a path that is      *)
(* followed by another server line.                                        *)
THEOREM PortsSettled == Spec => Settled
BY ReadInit, ReadStep, SettledStep, PTL DEF Spec, Settled

(* The configuration keeps its types, however often a line is repeated.    *)
THEOREM ConfTyping == Spec => []TypeOK
<1>1. ReadInv => TypeOK
  BY DEF ReadInv
<1>. QED  BY <1>1, ReadInit, ReadStep, PTL DEF Spec

(* Only a port line before the first server line, or a name of 16          *)
(* characters and more, can make muon run as another user than the last    *)
(* user line names.                                                        *)
THEOREM UserNamed == Spec => []UserKept
<1>1. Init => UserKept
  BY DEF Init, UserKept
<1>2. UserKept /\ [Next]_vars => UserKept'
  <2> SUFFICES ASSUME UserKept, [Next]_vars PROVE UserKept'
    OBVIOUS
  <2>1. ASSUME NEW lo \in Port, NEW hi \in Port, PortLine(lo, hi) PROVE UserKept'
    <3>1. CASE HasServer \/ ~RangeValid(lo, hi)
      <4>1. early => early'
        BY <2>1 DEF PortLine, Reject
      <4>2. UNCHANGED <<user, userLine>>
        BY <2>1, <3>1 DEF PortLine, Reject
      <4>. QED  BY <4>1, <4>2 DEF UserKept
    <3>2. CASE RangeValid(lo, hi) /\ ~HasServer
      <4>1. early'
        BY <2>1, <3>2 DEF PortLine, HasServer
      <4>. QED  BY <4>1 DEF UserKept
    <3>. QED  BY <3>1, <3>2
  <2>2. ASSUME NEW v \in Mtu, MtuLine(v) PROVE UserKept'
    BY <2>2 DEF MtuLine, Reject, UserKept
  <2>3. ASSUME NEW u \in User, UserLine(u) PROVE UserKept'
    BY <2>3 DEF UserLine, Stored, UserKept
  <2>4. CASE ServerLine \/ Malformed \/ Finish
    BY <2>4 DEF ServerLine, Malformed, Finish, Reject, UserKept
  <2>5. CASE \/ \E m \in {1, 2} : ModeLine(m)
             \/ \E field \in Text, empty \in BOOLEAN : TextLine(field, empty)
             \/ \E yes \in BOOLEAN : RouteLine(yes)
             \/ UNCHANGED vars
    BY <2>5 DEF ModeLine, TextLine, RouteLine, vars, UserKept
  <2>. QED  BY <2>1, <2>2, <2>3, <2>4, <2>5 DEF Next
<1>. QED  BY <1>1, <1>2, PTL DEF Spec
=============================================================================
