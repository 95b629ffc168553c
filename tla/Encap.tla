------------------------------- MODULE Encap -------------------------------
(***************************************************************************)
(* The lengths of a packet on its way from one tun device to the other:    *)
(* encapsulate and decapsulate (src/src/encapsulate.c) with the crypto and *)
(* compression they call, and the two fixed buffers in between.            *)
(*                                                                         *)
(* Contents are left out.  What decides whether a packet arrives is the    *)
(* length of each of its parts: LZ4 may shrink it, random padding grows    *)
(* it, pbuf_t holds 2048 bytes of payload in front of the padding count,   *)
(* the receiver reads no more than its own mtu.  The key is the right one. *)
(***************************************************************************)
EXTENDS Integers

CONSTANTS
  SendMtu,  \* ctx.mtu of the sender; read_conf takes 1024 .. PAYLOAD_MAX
  RecvMtu,  \* ctx.mtu of the receiver
  Lens,     \* lengths of the packets tried: 0 is a heartbeat
  Shrunk    \* lengths LZ4 may compress a packet to

Offset == 20       \* PAYLOAD_OFFSET
Nonce == 8         \* CRYPTO_NONCE_LEN, in front of what is enciphered
Buf == 2048        \* sizeof(pbuf->payload), and the buffers of LZ4
PayloadMax == 2052 \* PAYLOAD_MAX: the count of padding bytes lies behind payload

ASSUME EncapAssumption ==
  /\ SendMtu \in 1024 .. PayloadMax
  /\ RecvMtu \in 1024 .. PayloadMax
  /\ Lens \subseteq 0 .. SendMtu
  /\ Shrunk \subseteq 1 .. Buf

VARIABLES
  stage,  \* "idle" before, "wire" while the datagram is under way, "done"
          \* after; "failed" when an assertion has failed or the padding
          \* has overwritten its own count
  orig,   \* the length read from the tun device
  pbuf,   \* the header fields: len, and whether FLAG_COMPRESS is set
  n,      \* the length given to udpsend
  sealed, \* how many bytes behind the nonce are enciphered
  out     \* what the receiver makes of it: a length, or -1 for a drop

vars == <<stage, orig, pbuf, n, sealed, out>>

-----------------------------------------------------------------------------
(* Faulty variant: a small remainder is padded without a look at mtu.      *)
PaddingUncut(len) ==
  LET max == SendMtu - len
  IN  IF max <= 0 THEN {0}
      ELSE IF max > 897 THEN 0 .. 553
      ELSE IF max > 554 THEN 0 .. 341
      ELSE IF max > 342 THEN 0 .. 210
      ELSE 0 .. 129

(* obfuscate: the numbers of padding bytes it may choose.                  *)
Padding(len) ==
  LET max == SendMtu - len
  IN  IF max <= 0 THEN {0}
      ELSE IF max > 897 THEN 0 .. 553
      ELSE IF max > 554 THEN 0 .. 341
      ELSE IF max > 342 THEN 0 .. 210
      ELSE {pad \in 0 .. 129 : pad <= max}

(* compress keeps what LZ4 made only if it is shorter.                     *)
Compressed(len, c) == c > 0 /\ c < len

(* Faulty variant: the length is looked at after htons has swapped it.     *)
CryptoLenSwapped(len, pad) == Offset - Nonce + (len % 256) * 256 + len \div 256 + pad

(* crypto_encrypt: the header behind the nonce, the payload, the padding.  *)
CryptoLen(len, pad) == Offset - Nonce + len + pad

(* A packet of length len is read and encapsulated; LZ4 makes c bytes of   *)
(* it, or 0 when it would not fit its buffer.                              *)
Encapsulate(len, c) ==
  /\ stage = "idle"
  /\ orig' = len
  /\ out' = out
  /\ IF Compressed(len, c)
     THEN /\ pbuf' = [len |-> c, compress |-> TRUE]
          /\ n' = Offset + c
          /\ sealed' = CryptoLen(c, 0)
          /\ stage' = "wire"
     ELSE \E pad \in Padding(len) :
            /\ pbuf' = [len |-> len, compress |-> FALSE]
            /\ n' = Offset + len + pad
            /\ sealed' = CryptoLen(len, pad)
            /\ stage' = IF pad > 0 /\ len + pad > Buf THEN "failed" ELSE "wire"

(* What is left of the datagram after udprecv.                             *)
Arrived == IF n > RecvMtu + Offset THEN RecvMtu + Offset ELSE n

(* Faulty variant: a datagram the receiver had to cut is dropped whole.    *)
ValidUncut == pbuf.len <= Buf /\ n = Arrived

(* crypto_decrypt: the length must fit the buffer, and every payload byte  *)
(* must have arrived for the checksum to match.                            *)
Valid == pbuf.len <= Buf /\ pbuf.len + Offset <= Arrived

(* decapsulate, and the write to the tun device; decompress asserts that   *)
(* the packet fits its buffer.                                             *)
Decapsulate ==
  /\ stage = "wire"
  /\ IF ~Valid
     THEN stage' = "done" /\ out' = -1
     ELSE IF pbuf.compress /\ orig > Buf
          THEN stage' = "failed" /\ out' = out
          ELSE stage' = "done" /\ out' = orig
  /\ UNCHANGED <<orig, pbuf, n, sealed>>

Init ==
  /\ stage = "idle"
  /\ orig = 0
  /\ pbuf = [len |-> 0, compress |-> FALSE]
  /\ n = Offset
  /\ sealed = Offset - Nonce
  /\ out = 0

Next ==
  \/ \E len \in Lens : \E c \in Shrunk \cup {0} : Encapsulate(len, c)
  \/ Decapsulate

Spec == Init /\ [][Next]_vars

-----------------------------------------------------------------------------
(* Types of the lengths.                                                   *)
TypeOK ==
  /\ stage \in {"idle", "wire", "done", "failed"}
  /\ orig \in 0 .. SendMtu
  /\ pbuf \in [len : 0 .. SendMtu, compress : BOOLEAN]
  /\ n \in Nat
  /\ sealed \in Nat
  /\ out \in -1 .. SendMtu

(* Neither padding nor a failed compression makes a datagram longer than   *)
(* a full packet: what test_encapsulate.c asserts of n.                    *)
Fits == n <= SendMtu + Offset

(* Nothing but the nonce leaves in the clear, and nothing behind the       *)
(* datagram is touched: the extent that crypto_encrypt computes for itself *)
(* is the one encapsulate sends, heartbeats and padding included.          *)
AllSealed == stage # "failed" => Nonce + sealed = n

(* A packet of any length up to the mtu, compressed or not, padded or not, *)
(* arrives with the length it had ("Payload 0~mtu" in encapsulate.h).      *)
RoundTrip == stage # "failed" /\ (stage = "done" => out = orig)

(* A receiver with a smaller mtu loses no packet that fits it: all it cuts *)
(* off is padding.                                                         *)
PaddingExpendable ==
  stage # "failed" /\ (stage = "done" /\ orig <= RecvMtu => out = orig)
=============================================================================
