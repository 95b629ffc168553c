---------------------------- MODULE EncapProofs ----------------------------
(***************************************************************************)
(* Proofs about the lengths of a packet, for every pair of mtus.           *)
(***************************************************************************)
EXTENDS Encap, TLAPS

(* Padding stays within the mtu.                                           *)
LEMMA PaddingRange ==
  ASSUME NEW len \in 0 .. SendMtu, NEW pad \in Padding(len)
  PROVE  pad \in Nat /\ len + pad <= SendMtu
<1>1. len \in Nat /\ SendMtu \in Nat /\ len <= SendMtu
  BY EncapAssumption DEF PayloadMax
<1>. QED  BY <1>1 DEF Padding

(* The lengths of a datagram under way: what it was made from, and that    *)
(* the datagram holds all of the payload.                                  *)
LengthInv ==
  /\ TypeOK
  /\ Fits
  /\ pbuf.len + Offset <= n
  /\ pbuf.len <= orig
  /\ Nonce + sealed = n

LEMMA LengthInit == Init => LengthInv
BY EncapAssumption DEF Init, LengthInv, TypeOK, Fits, Offset, Nonce, PayloadMax

LEMMA LengthStep == LengthInv /\ [Next]_vars => LengthInv'
<1> SUFFICES ASSUME LengthInv, [Next]_vars PROVE LengthInv'
  OBVIOUS
<1>0. SendMtu \in Nat /\ RecvMtu \in Nat
  BY EncapAssumption DEF PayloadMax
<1>1. ASSUME NEW len \in Lens, NEW c \in Shrunk \cup {0}, Encapsulate(len, c)
      PROVE  LengthInv'
  <2>1. len \in 0 .. SendMtu /\ len \in Nat /\ c \in Nat
    BY EncapAssumption, <1>0 DEF Buf
  <2>2. CASE Compressed(len, c)
    <3>1. /\ pbuf' = [len |-> c, compress |-> TRUE]
          /\ n' = Offset + c /\ sealed' = CryptoLen(c, 0)
          /\ stage' = "wire" /\ orig' = len /\ out' = out
      BY <1>1, <2>2 DEF Encapsulate
    <3>2. c <= len /\ c \in 0 .. SendMtu
      BY <1>0, <2>1, <2>2 DEF Compressed
    <3>. QED  BY <1>0, <2>1, <3>1, <3>2 DEF LengthInv, TypeOK, Fits, Offset, Nonce, CryptoLen
  <2>3. CASE ~Compressed(len, c)
    <3>1. PICK pad \in Padding(len) :
            /\ pbuf' = [len |-> len, compress |-> FALSE]
            /\ n' = Offset + len + pad /\ sealed' = CryptoLen(len, pad)
            /\ stage' = IF pad > 0 /\ len + pad > Buf THEN "failed" ELSE "wire"
      BY <1>1, <2>3 DEF Encapsulate
    <3>2. pad \in Nat /\ len + pad <= SendMtu
      BY <2>1, PaddingRange
    <3>3. orig' = len /\ out' = out
      BY <1>1 DEF Encapsulate
    <3>. QED  BY <1>0, <2>1, <3>1, <3>2, <3>3 DEF LengthInv, TypeOK, Fits, Offset, Nonce, CryptoLen
  <2>. QED  BY <2>2, <2>3
<1>2. CASE Decapsulate
  BY <1>0, <1>2 DEF Decapsulate, LengthInv, TypeOK, Fits
<1>3. CASE UNCHANGED vars
  BY <1>3 DEF vars, LengthInv, TypeOK, Fits
<1>. QED  BY <1>1, <1>2, <1>3 DEF Next

(* For every mtu read_conf accepts, no datagram is longer than a full      *)
(* packet with its header.                                                 *)
THEOREM DatagramFits == Spec => []Fits
<1>1. LengthInv => Fits
  BY DEF LengthInv
<1>. QED  BY <1>1, LengthInit, LengthStep, PTL DEF Spec

(* For every mtu and every packet, all of the datagram behind its nonce is *)
(* enciphered, and nothing else.                                           *)
THEOREM Sealed == Spec => []AllSealed
<1>1. LengthInv => AllSealed
  BY DEF LengthInv, AllSealed
<1>. QED  BY <1>1, LengthInit, LengthStep, PTL DEF Spec

(* Once the mtu is no more than the payload buffer, nothing fails, and     *)
(* what arrives is what was sent, if the receiver takes that length.       *)
Arrives ==
  /\ stage # "failed"
  /\ stage = "done" /\ orig <= RecvMtu => out = orig

LEMMA ArrivesStep ==
  ASSUME SendMtu <= Buf
  PROVE  LengthInv /\ Arrives /\ [Next]_vars => Arrives'
<1> SUFFICES ASSUME LengthInv, Arrives, [Next]_vars PROVE Arrives'
  OBVIOUS
<1>0. SendMtu \in Nat /\ RecvMtu \in Nat
  BY EncapAssumption DEF PayloadMax
<1>1. ASSUME NEW len \in Lens, NEW c \in Shrunk \cup {0}, Encapsulate(len, c)
      PROVE  Arrives'
  <2>1. len \in 0 .. SendMtu /\ len \in Nat
    BY EncapAssumption, <1>0
  <2>2. \A pad \in Padding(len) : ~(pad > 0 /\ len + pad > Buf)
    BY <1>0, <2>1, PaddingRange DEF Buf
  <2>. QED  BY <1>1, <2>2 DEF Encapsulate, Arrives
<1>2. CASE Decapsulate
  <2>1. /\ n \in Nat /\ orig \in Nat /\ orig <= SendMtu /\ pbuf.len \in Nat
        /\ pbuf.len <= orig /\ pbuf.len + Offset <= n
    BY <1>0 DEF LengthInv, TypeOK
  <2>2. ~(pbuf.compress /\ orig > Buf)
    BY <1>0, <2>1 DEF Buf
  <2>3. ASSUME orig <= RecvMtu PROVE Valid
    BY <1>0, <2>1, <2>3 DEF Valid, Arrived, Buf, Offset
  <2>. QED  BY <1>2, <2>2, <2>3 DEF Decapsulate, Arrives
<1>3. CASE UNCHANGED vars
  BY <1>3 DEF vars, Arrives
<1>. QED  BY <1>1, <1>2, <1>3 DEF Next

(* For every mtu up to the size of the payload buffer and every mtu of the *)
(* receiver, packets that fit the receiver arrive whole: what udprecv cuts *)
(* off is padding only.                                                    *)
THEOREM PaddingOnly ==
  ASSUME SendMtu <= Buf PROVE Spec => []PaddingExpendable
<1>1. Init => Arrives
  BY DEF Init, Arrives
<1>2. Arrives => PaddingExpendable
  BY DEF Arrives, PaddingExpendable
<1>. QED  BY <1>1, <1>2, LengthInit, LengthStep, ArrivesStep, PTL DEF Spec

(* And between equal mtus every packet arrives with its length.            *)
THEOREM RoundTrips ==
  ASSUME SendMtu <= Buf, SendMtu <= RecvMtu PROVE Spec => []RoundTrip
<1>1. Init => Arrives
  BY DEF Init, Arrives
<1>2. LengthInv /\ Arrives => RoundTrip
  BY EncapAssumption DEF Arrives, RoundTrip, LengthInv, TypeOK, PayloadMax
<1>. QED  BY <1>1, <1>2, LengthInit, LengthStep, ArrivesStep, PTL DEF Spec
=============================================================================
