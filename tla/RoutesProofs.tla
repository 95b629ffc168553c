---------------------------- MODULE RoutesProofs ----------------------------
(***************************************************************************)
(* Lemmas about the loops of route, for addresses of any width and any     *)
(* server: StartupProofs uses them for the whole of vpn_init.              *)
(*                                                                         *)
(* The loops read ip from its first digit in base 2 to its last.  The one  *)
(* from below adds a subnet of each size where the digit is 1, the one     *)
(* from above where it is 0, so together they add one of each size.        *)
(***************************************************************************)
EXTENDS Routes, TLAPS, FiniteSetTheorems

Added == table \ before
Looping == side \in {"below", "above"}

Multiple(a, d) == \E k \in Nat : a = k * d

(* Digit m of ip, 1 for the first.                                         *)
Odd(m) ==
  \E k \in Nat : k * Size[m - 1] + Size[m] <= ip /\ ip < k * Size[m - 1] + Size[m - 1]
Even(m) ==
  \E k \in Nat : k * Size[m - 1] <= ip /\ ip < k * Size[m - 1] + Size[m]

(* The frontier of each loop, before and after a subnet of the size in     *)
(* turn was added.                                                         *)
BelowAt ==
  \/ /\ ip - start < Size[mask - 1] /\ Multiple(start, Size[mask - 1])
     /\ \A s \in Added : s.mask < mask
  \/ /\ mask <= W
     /\ ip - start < Size[mask] /\ Multiple(start, Size[mask])
     /\ \A s \in Added : s.mask <= mask
     /\ \E s \in Added : s.mask = mask

AboveAt ==
  \/ /\ ip_end - ip < Size[mask - 1] /\ Multiple(ip_end + 1, Size[mask - 1])
     /\ \A s \in Added : s.base > ip => s.mask < mask
  \/ /\ mask <= W
     /\ ip_end - ip < Size[mask] /\ Multiple(ip_end + 1, Size[mask])
     /\ \A s \in Added : s.base > ip => s.mask <= mask
     /\ \E s \in Added : s.mask = mask

Frontier ==
  /\ side = "below" => start <= ip /\ BelowAt
  /\ side = "above" => start = ip /\ ip <= ip_end /\ AboveAt

(* One subnet of each size, by the digits.                                 *)
Digits ==
  /\ \A s \in Added : s.base < ip => Odd(s.mask)
  /\ \A s \in Added : s.base >= ip => side = "above" /\ s.base > ip /\ Even(s.mask)
  /\ \A s, t \in Added : s.mask = t.mask => s = t
  /\ \A m \in 1 .. W :
       /\ Odd(m) /\ (side = "above" \/ m < mask) => \E s \in Added : s.mask = m
       /\ Even(m) /\ side = "above" /\ m < mask => \E s \in Added : s.mask = m

(* They cover what is outside of the frontiers, each address once.         *)
Cover ==
  /\ \A s \in Added :
       s.base + Size[s.mask] <= start \/ (side = "above" /\ s.base > ip_end)
  /\ \A a \in Address :
       a < start \/ (side = "above" /\ a > ip_end) => \E s \in Added : a \in Addresses(s)
  /\ \A s, t \in Added : \A a \in Addresses(s) : a \in Addresses(t) => s = t

LoopInv == Looping => Frontier /\ Digits /\ Cover

(* Every base is a multiple of its subnet's size.                          *)
Multiples == \A s \in table : Multiple(s.base, Size[s.mask])

(* Which server's turn it is; the loops begin at 0, with the largest size. *)
Turns ==
  /\ side # "done" => i <= count
  /\ side = "resolve" => start = 0 /\ mask = 1
  /\ Looping => ipv4

(* The first server that has routes gets the IPv6 route as well.           *)
SixFollows ==
  up /\ ~refused =>
    /\ ipv6 /\ before # {} => table6
    /\ side \in {"resolve", "done"} /\ ipv6 /\ table # {} => table6
    /\ side = "done" /\ ~ipv4 => table6

RouteInv == TypeOK /\ LoopInv /\ Multiples /\ Turns /\ SixFollows

(* What the rest of vpn_init leaves alone, and has made sure of.           *)
Fixed == UNCHANGED <<count, ipv4, ipv6, up>>
Given == Halved /\ count \in Nat \ {0}

-----------------------------------------------------------------------------
(* Arithmetic.                                                             *)

(* A multiple of 2s is one of s, and so are its neighbours.                *)
LEMMA Doubled ==
  ASSUME NEW s \in Nat \ {0}, NEW a \in Nat, Multiple(a, 2 * s)
  PROVE  /\ Multiple(a, s) /\ Multiple(a + s, s)
         /\ a > 0 => a >= 2 * s /\ Multiple(a - s, s)
<1>1. PICK k \in Nat : a = k * (2 * s)
  BY DEF Multiple
<1>2. a = (2 * k) * s /\ a + s = (2 * k + 1) * s
  BY <1>1
<1>3. Multiple(a, s) /\ Multiple(a + s, s)
  BY <1>2 DEF Multiple
<1>4. ASSUME a > 0 PROVE a >= 2 * s /\ Multiple(a - s, s)
  <2>1. k # 0
    BY <1>1, <1>4
  <2>2. PICK j \in Nat : k = j + 1
    BY <2>1
  <2>3. a = j * (2 * s) + 2 * s
    BY <1>1, <2>2
  <2>4. j * (2 * s) >= 0 /\ j * (2 * s) \in Nat
    OBVIOUS
  <2>5. a - s = (2 * j + 1) * s
    BY <2>3
  <2>. QED  BY <2>3, <2>4, <2>5 DEF Multiple
<1>. QED  BY <1>3, <1>4

LEMMA Remainder ==
  ASSUME NEW d \in Nat \ {0}, NEW a \in Nat
  PROVE  /\ a < d => a % d = a
         /\ Multiple(a, d) => a % d = 0
<1>1. a < d => a % d = a
  OBVIOUS
<1>2. ASSUME NEW k \in Nat PROVE (k * d) % d = 0
  OBVIOUS
<1>. QED  BY <1>1, <1>2 DEF Multiple

LEMMA Apart ==
  ASSUME NEW d \in Nat, NEW j \in Nat, NEW k \in Nat, j < k
  PROVE  j * d + d <= k * d
<1>1. PICK n \in Nat : k = j + 1 + n
  OBVIOUS
<1>2. k * d = j * d + d + n * d
  BY <1>1
<1>3. n * d \in Nat
  OBVIOUS
<1>. QED  BY <1>2, <1>3

LEMMA Squared == \A n \in Nat \ {0} : n * n \in Nat /\ n <= n * n
OBVIOUS

LEMMA Sizes ==
  ASSUME Halved, NEW m \in 1 .. W
  PROVE  /\ Size[m] \in Nat \ {0} /\ Size[m - 1] = 2 * Size[m]
         /\ m - 1 \in 0 .. W /\ Size[m - 1] \in Nat \ {0}
BY DEF Halved

(* Every digit of ip is one or the other.                                  *)
LEMMA OneDigit ==
  ASSUME Halved, ip \in Nat, NEW m \in 1 .. W
  PROVE  (Odd(m) \/ Even(m)) /\ ~(Odd(m) /\ Even(m))
<1> DEFINE D == Size[m - 1]
           S == Size[m]
<1>1. D \in Nat \ {0} /\ S \in Nat \ {0} /\ D = S + S
  BY Sizes
<1>2. Odd(m) <=> \E k \in Nat : k * D + S <= ip /\ ip < k * D + D
  BY DEF Odd
<1>3. Even(m) <=> \E k \in Nat : k * D <= ip /\ ip < k * D + S
  BY DEF Even
<1> HIDE DEF D, S
<1>4. Odd(m) \/ Even(m)
  <2>1. ip \div D \in Nat
    BY <1>1
  <2>2. ip = (ip \div D) * D + (ip % D) /\ ip % D \in 0 .. D - 1
    BY <1>1
  <2>3. PICK k \in Nat, r \in 0 .. D - 1 : ip = k * D + r
    BY <2>1, <2>2
  <2>4. k * D \in Nat
    BY <1>1
  <2>5. CASE r < S
    <3>1. k * D <= ip /\ ip < k * D + S
      BY <1>1, <2>3, <2>4, <2>5
    <3>. QED  BY <3>1, <1>3
  <2>6. CASE r >= S
    <3>1. k * D + S <= ip /\ ip < k * D + D
      BY <1>1, <2>3, <2>4, <2>6
    <3>. QED  BY <3>1, <1>2
  <2>. QED  BY <1>1, <2>5, <2>6
<1>5. ASSUME Odd(m), Even(m) PROVE FALSE
  <2>1. PICK k \in Nat : k * D + S <= ip /\ ip < k * D + D
    BY <1>2, <1>5
  <2>2. PICK j \in Nat : j * D <= ip /\ ip < j * D + S
    BY <1>3, <1>5
  <2>3. k * D \in Nat /\ j * D \in Nat
    BY <1>1
  <2>4. CASE j < k
    <3>1. j * D + D <= k * D
      BY <1>1, <2>4, Apart
    <3>. QED  BY <1>1, <2>1, <2>2, <2>3, <3>1
  <2>5. CASE k < j
    <3>1. k * D + D <= j * D
      BY <1>1, <2>5, Apart
    <3>. QED  BY <1>1, <2>1, <2>2, <2>3, <3>1
  <2>6. CASE j = k
    BY <1>1, <2>1, <2>2, <2>3, <2>6
  <2>. QED  BY <2>4, <2>5, <2>6
<1>. QED  BY <1>4, <1>5

-----------------------------------------------------------------------------
(* The steps.                                                              *)

LEMMA RouteInit == Given /\ Init => RouteInv
<1> SUFFICES ASSUME Given, Init PROVE RouteInv
  OBVIOUS
<1>1. Size[0] \in Nat \ {0} /\ W \in Nat \ {0} /\ count \in Nat \ {0}
  BY DEF Given, Halved
<1>2. TypeOK
  <2>1. /\ table6 \in BOOLEAN /\ refused \in BOOLEAN
        /\ table \subseteq Subnet /\ before \subseteq table
    BY DEF Init
  <2>2. 0 \in Address /\ 1 \in 1 .. W + 1 /\ 1 \in 1 .. count + 1
    BY <1>1 DEF Address
  <2>. QED  BY <2>1, <2>2 DEF TypeOK, Init
<1>3. ~Looping /\ side = "resolve" /\ table = {} /\ before = {} /\ start = 0 /\ mask = 1 /\ i = 1
  BY DEF Init, Looping
<1>. QED
  BY <1>1, <1>2, <1>3 DEF RouteInv, LoopInv, Multiples, Turns, SixFollows

(* A call of route has ended, having added table6 or no need of it.        *)
LEMMA NextServerStep ==
  ASSUME Given, RouteInv, Fixed, NextServer, side # "done",
         UNCHANGED table, table6' \in BOOLEAN, refused' \in BOOLEAN,
         up /\ ~refused' /\ ipv6 /\ table # {} => table6',
         up /\ ~refused' /\ ~ipv4 => table6'
  PROVE  RouteInv'
<1>1. /\ i' = i + 1 /\ side' = IF i < count THEN "resolve" ELSE "done"
      /\ ip' = 0 /\ start' = 0 /\ ip_end' = 0 /\ mask' = 1 /\ before' = {}
  BY DEF NextServer
<1>2. /\ i \in 1 .. count /\ count \in Nat \ {0} /\ 0 \in Address /\ 1 \in 1 .. W + 1
      /\ table \subseteq Subnet
  BY DEF Given, Halved, RouteInv, TypeOK, Turns, Address
<1>3. UNCHANGED <<count, ipv4, ipv6, up>>
  BY DEF Fixed
<1>4. TypeOK'
  BY <1>1, <1>2, <1>3 DEF TypeOK, Address, Subnet
<1>5. Multiples'
  BY DEF RouteInv, Multiples
<1>6. Turns' /\ LoopInv'
  BY <1>1, <1>2, <1>3 DEF Turns, LoopInv, Looping
<1>7. SixFollows'
  BY <1>1, <1>3 DEF SixFollows
<1>. QED  BY <1>4, <1>5, <1>6, <1>7 DEF RouteInv

LEMMA ResolveStep ==
  ASSUME Given, RouteInv, Fixed, Resolve
  PROVE  RouteInv'
<1>1. side = "resolve" /\ ipv4 /\ UNCHANGED <<table, table6, refused>>
  BY DEF Resolve
<1>2. UNCHANGED <<count, ipv4, ipv6, up>>
  BY DEF Fixed
<1>3. table6 \in BOOLEAN /\ (up /\ ~refused /\ ipv6 /\ table # {} => table6)
  BY <1>1 DEF RouteInv, TypeOK, SixFollows
<1>4. CASE NextServer
  <2>1. table6' \in BOOLEAN
    BY <1>1, <1>3
  <2>2. refused' \in BOOLEAN
    BY <1>1 DEF RouteInv, TypeOK
  <2>. QED  BY <1>1, <1>3, <1>4, <2>1, <2>2, NextServerStep
<1>5. CASE /\ ip' \in Address /\ side' = "below" /\ before' = table
           /\ UNCHANGED <<i, start, ip_end, mask>>
  <2>1. /\ start = 0 /\ mask = 1 /\ i <= count
        /\ Size[0] \in Nat \ {0} /\ W \in Nat \ {0}
    BY <1>1 DEF Given, Halved, RouteInv, Turns
  <2>2. TypeOK'
    BY <1>1, <1>2, <1>5 DEF RouteInv, TypeOK, Address, Subnet
  <2>3. Added' = {}
    BY <1>1, <1>5 DEF Added
  <2>4. Frontier'
    <3>1. ip' \in 0 .. Size[0] - 1 /\ start' = 0 /\ mask' = 1 /\ mask' - 1 = 0
      BY <1>5, <2>1 DEF Address
    <3>2. 0 = 0 * Size[0]
      BY <2>1
    <3>3. Multiple(0, Size[0])
      BY <3>2 DEF Multiple
    <3>4. BelowAt'
      BY <1>5, <2>1, <2>3, <3>1, <3>3 DEF BelowAt, Multiple
    <3>. QED  BY <1>5, <2>1, <3>1, <3>4 DEF Frontier
  <2>5. Digits' /\ Cover'
    <3>1. start' = 0 /\ mask' = 1 /\ side' = "below"
      BY <1>5, <2>1
    <3>2. ~\E m \in 1 .. W : m < 1
      BY <2>1
    <3>3. Digits'
      BY <2>3, <3>1, <3>2 DEF Digits
    <3>4. ~\E a \in Address : a < 0
      BY <2>1 DEF Address
    <3>5. Cover'
      BY <2>3, <3>1, <3>4 DEF Cover, Address
    <3>. QED  BY <3>3, <3>5
  <2>6. Multiples'
    BY <1>1 DEF RouteInv, Multiples
  <2>7. Turns' /\ SixFollows'
    BY <1>1, <1>2, <1>3, <1>5, <2>1 DEF Turns, SixFollows, Looping
  <2>. QED
    BY <2>2, <2>4, <2>5, <2>6, <2>7 DEF RouteInv, LoopInv
<1>. QED  BY <1>4, <1>5 DEF Resolve

LEMMA OnlyIpv6Step ==
  ASSUME Given, RouteInv, Fixed, OnlyIpv6
  PROVE  RouteInv'
<1>1. /\ side = "resolve" /\ ~ipv4 /\ side' = "ipv6"
      /\ UNCHANGED <<i, locals, table, table6, refused>>
  BY DEF OnlyIpv6
<1>2. UNCHANGED <<count, ipv4, ipv6, up, i, ip, start, ip_end, mask, before, table, table6,
                  refused>>
  BY <1>1 DEF Fixed, locals
<1>3. TypeOK'
  BY <1>1, <1>2 DEF RouteInv, TypeOK, Address, Subnet
<1>4. Multiples'
  BY <1>2 DEF RouteInv, Multiples
<1>5. Turns' /\ SixFollows' /\ LoopInv'
  BY <1>1, <1>2 DEF RouteInv, Turns, SixFollows, LoopInv, Looping
<1>. QED  BY <1>3, <1>4, <1>5 DEF RouteInv

(* A command has failed: what was there was added with the first server,   *)
(* or the host refused it.                                                 *)
LEMMA FailStep ==
  ASSUME Given, RouteInv, Fixed, NEW there, Fail(there),
         Looping \/ side = "ipv6",
         there /\ Looping => before # {},
         there /\ side = "ipv6" => table6
  PROVE  RouteInv'
<1>1. NextServer /\ UNCHANGED <<table, table6>> /\ refused' = (refused \/ (up /\ ~there))
  BY DEF Fail
<1>2. side # "done" /\ (Looping => ipv4)
  BY DEF RouteInv, Turns, Looping
<1>3. table6' \in BOOLEAN
  BY <1>1 DEF RouteInv, TypeOK
<1>4. refused' \in BOOLEAN
  BY <1>1 DEF RouteInv, TypeOK
<1>5. up /\ ~refused' => ~refused /\ there
  BY <1>1
<1>6. /\ up /\ ~refused' /\ ipv6 /\ table # {} => table6
      /\ up /\ ~refused' /\ ~ipv4 => table6
  BY <1>2, <1>5 DEF RouteInv, SixFollows
<1>. QED  BY <1>1, <1>2, <1>3, <1>4, <1>6, NextServerStep

LEMMA AddIpv6Step ==
  ASSUME Given, RouteInv, Fixed, AddIpv6
  PROVE  RouteInv'
<1>1. side = "ipv6" /\ ~Looping
  BY DEF AddIpv6, Looping
<1>2. CASE table6' = TRUE /\ NextServer /\ UNCHANGED <<table, refused>>
  <2>1. refused' \in BOOLEAN
    BY <1>2 DEF RouteInv, TypeOK
  <2>. QED  BY <1>1, <1>2, <2>1, NextServerStep
<1>3. CASE Fail(table6)
  <2>1. table6 \in BOOLEAN
    BY DEF RouteInv, TypeOK
  <2>. QED  BY <1>1, <1>3, <2>1, FailStep
<1>. QED  BY <1>2, <1>3 DEF AddIpv6

(* The variables of the loops, and the sizes they work with.               *)
LEMMA Ranges ==
  ASSUME Given, RouteInv, mask <= W
  PROVE  /\ mask \in 1 .. W /\ mask \in Nat
         /\ Size[mask] \in Nat \ {0} /\ Size[mask - 1] = 2 * Size[mask]
         /\ Size[0] \in Nat \ {0}
         /\ start \in Nat /\ ip \in Nat /\ ip_end \in Nat
         /\ start < Size[0] /\ ip < Size[0] /\ ip_end < Size[0]
<1>1. Halved /\ TypeOK
  BY DEF Given, RouteInv
<1>2. W \in Nat \ {0} /\ Size[0] \in Nat \ {0}
  BY <1>1 DEF Halved
<1>3. mask \in 1 .. W
  BY <1>1, <1>2 DEF TypeOK
<1>4. Size[mask] \in Nat \ {0} /\ Size[mask - 1] = 2 * Size[mask]
  BY <1>1, <1>3, Sizes
<1>. QED  BY <1>1, <1>2, <1>3, <1>4 DEF TypeOK, Address

(* When the loop from below adds a subnet, the digit in turn is 1, and no  *)
(* subnet of that size has been added.                                     *)
LEMMA BelowFacts ==
  ASSUME Given, RouteInv, side = "below", mask <= W, Below
  PROVE  /\ start + Size[mask] <= ip /\ ip < start + 2 * Size[mask]
         /\ Multiple(start, 2 * Size[mask])
         /\ \A s \in Added : s.mask < mask
         /\ (start + Size[mask]) % Size[0] = start + Size[mask]
         /\ Odd(mask)
         /\ start \in Address /\ start + Size[mask] \in Address
<1> DEFINE S == Size[mask]
<1>1. /\ mask \in 1 .. W /\ S \in Nat \ {0} /\ Size[mask - 1] = 2 * S
      /\ start \in Nat /\ ip \in Nat /\ Size[0] \in Nat \ {0} /\ ip < Size[0]
  BY Ranges
<1>2. start + S <= ip
  BY <1>1 DEF Below
<1>3. BelowAt
  BY DEF RouteInv, LoopInv, Looping, Frontier
<1>4. /\ ip - start < 2 * S /\ Multiple(start, 2 * S)
      /\ \A s \in Added : s.mask < mask
  BY <1>1, <1>2, <1>3 DEF BelowAt
<1>5. (start + S) % Size[0] = start + S
  <2>1. start + S \in Nat /\ start + S < Size[0]
    BY <1>1, <1>2
  <2>. QED  BY <1>1, <2>1, Remainder
<1>6. Odd(mask)
  <2>1. PICK k \in Nat : start = k * (2 * S)
    BY <1>4 DEF Multiple
  <2>2. k * (2 * S) + S <= ip /\ ip < k * (2 * S) + 2 * S
    BY <1>1, <1>2, <1>4, <2>1
  <2>. QED  BY <1>1, <2>1, <2>2 DEF Odd
<1>7. start \in Address /\ start + S \in Address
  BY <1>1, <1>2 DEF Address
<1>. QED  BY <1>1, <1>2, <1>4, <1>5, <1>6, <1>7

(* Nothing wraps round at the first address either.                        *)
LEMMA AboveRange ==
  ASSUME Given, RouteInv, side = "above", mask <= W
  PROVE  /\ start = ip /\ ip <= ip_end
         /\ ip_end + 1 >= Size[mask] /\ Multiple(ip_end + 1, Size[mask])
         /\ Above <=> ip_end - Size[mask] >= ip
<1> DEFINE S == Size[mask]
<1>1. /\ mask \in 1 .. W /\ S \in Nat \ {0} /\ Size[mask - 1] = 2 * S
      /\ ip_end \in Nat /\ ip \in Nat /\ Size[0] \in Nat \ {0} /\ ip_end < Size[0]
  BY Ranges
<1>2. start = ip /\ ip <= ip_end /\ AboveAt
  BY DEF RouteInv, LoopInv, Looping, Frontier
<1>3. Multiple(ip_end + 1, S)
  BY <1>1, <1>2, Doubled DEF AboveAt
<1>4. ip_end + 1 >= S
  <2>1. PICK k \in Nat : ip_end + 1 = k * S
    BY <1>3 DEF Multiple
  <2>2. k # 0
    BY <1>1, <2>1
  <2>3. PICK j \in Nat : k = j + 1
    BY <2>2
  <2>4. k * S = j * S + S /\ j * S \in Nat
    BY <1>1, <2>3
  <2>. QED  BY <1>1, <2>1, <2>4
<1>5. (ip_end - S + 1) % (Size[0] * Size[0]) = ip_end - S + 1
  <2>1. Size[0] * Size[0] \in Nat /\ Size[0] <= Size[0] * Size[0]
    BY <1>1, Squared
  <2>2. ip_end - S + 1 \in Nat /\ ip_end - S + 1 < Size[0] * Size[0]
    BY <1>1, <1>4, <2>1
  <2>3. Size[0] * Size[0] \in Nat \ {0}
    BY <1>1, <2>1
  <2>. QED  BY <2>2, <2>3, Remainder
<1>6. Above <=> ip_end - S + 1 > ip
  BY <1>5 DEF Above
<1>. QED  BY <1>1, <1>2, <1>3, <1>4, <1>6

(* When the loop from above adds a subnet, the digit is 0.                 *)
LEMMA AboveFacts ==
  ASSUME Given, RouteInv, side = "above", mask <= W, Above
  PROVE  /\ start = ip /\ ip <= ip_end - Size[mask] /\ ip_end - ip < 2 * Size[mask]
         /\ Multiple(ip_end + 1, 2 * Size[mask])
         /\ \A s \in Added : s.base > ip => s.mask < mask
         /\ (ip_end - Size[mask]) % Size[0] = ip_end - Size[mask]
         /\ (ip_end - Size[mask] + 1) % Size[0] = ip_end - Size[mask] + 1
         /\ Even(mask)
         /\ ip_end - Size[mask] \in Address /\ ip_end - Size[mask] + 1 \in Address
<1> DEFINE S == Size[mask]
<1>1. /\ mask \in 1 .. W /\ S \in Nat \ {0} /\ Size[mask - 1] = 2 * S
      /\ ip_end \in Nat /\ ip \in Nat /\ Size[0] \in Nat \ {0} /\ ip_end < Size[0]
  BY Ranges
<1>2. start = ip /\ ip <= ip_end - S
  BY <1>1, AboveRange
<1>3. AboveAt
  BY DEF RouteInv, LoopInv, Looping, Frontier
<1>4. /\ ip_end - ip < 2 * S /\ Multiple(ip_end + 1, 2 * S)
      /\ \A s \in Added : s.base > ip => s.mask < mask
  BY <1>1, <1>2, <1>3 DEF AboveAt
<1>5. /\ ip_end - S \in Nat /\ ip_end - S + 1 \in Nat
      /\ ip_end - S < Size[0] /\ ip_end - S + 1 < Size[0]
  BY <1>1, <1>2
<1>6. (ip_end - S) % Size[0] = ip_end - S /\ (ip_end - S + 1) % Size[0] = ip_end - S + 1
  BY <1>1, <1>5, Remainder
<1>7. Even(mask)
  <2>1. PICK k \in Nat : ip_end + 1 = k * (2 * S)
    BY <1>4 DEF Multiple
  <2>2. k # 0
    BY <1>1, <2>1
  <2>3. PICK j \in Nat : k = j + 1
    BY <2>2
  <2>4. ip_end + 1 = j * (2 * S) + 2 * S /\ j * (2 * S) \in Nat
    <3>1. S \in Nat
      BY <1>1
    <3> HIDE DEF S
    <3>2. (j + 1) * (2 * S) = j * (2 * S) + 2 * S /\ j * (2 * S) \in Nat
      BY <3>1
    <3>. QED  BY <2>1, <2>3, <3>2
  <2>5. j * (2 * S) <= ip /\ ip < j * (2 * S) + S
    BY <1>1, <1>2, <1>4, <2>4
  <2>. QED  BY <1>1, <2>3, <2>5 DEF Even
<1>8. ip_end - S \in Address /\ ip_end - S + 1 \in Address
  BY <1>1, <1>5 DEF Address
<1>. QED  BY <1>2, <1>4, <1>6, <1>7, <1>8

(* A subnet is added.                                                      *)
LEMMA Grown ==
  ASSUME RouteInv, NEW s, s \in Subnet, Multiple(s.base, Size[s.mask]),
         s \notin table, table' = table \cup {s}, before' = before
  PROVE  Added' = Added \cup {s} /\ Multiples' /\ table' \subseteq Subnet
<1>1. Added' = Added \cup {s}
  BY DEF RouteInv, TypeOK, Added
<1>2. Multiples'
  BY DEF RouteInv, Multiples, Multiple
<1>. QED  BY <1>1, <1>2 DEF RouteInv, TypeOK

(* The loop from below adds a subnet.                                      *)
LEMMA BelowGrows ==
  ASSUME Given, RouteInv, Fixed, side = "below", mask <= W, Below,
         NEW s, s = [base |-> start, mask |-> mask], s \notin table,
         table' = table \cup {s}, start' = start + Size[mask], ip_end' = ip_end,
         UNCHANGED <<i, side, ip, mask, before, table6, refused>>
  PROVE  RouteInv'
<1> DEFINE S == Size[mask]
<1>1. /\ mask \in 1 .. W /\ S \in Nat \ {0} /\ Size[mask - 1] = 2 * S
      /\ start \in Nat /\ ip \in Nat /\ Size[0] \in Nat \ {0} /\ ip < Size[0]
  BY Ranges
<1>2. /\ start + S <= ip /\ ip < start + 2 * S
      /\ Multiple(start, 2 * S)
      /\ \A t \in Added : t.mask < mask
      /\ Odd(mask)
      /\ start \in Address /\ start + S \in Address
  BY BelowFacts
<1>3. Multiple(start, S) /\ Multiple(start + S, S)
  BY <1>1, <1>2, Doubled
<1>4. s \in Subnet /\ s.base = start /\ s.mask = mask
  BY <1>1, <1>2 DEF Subnet
<1>5. Added' = Added \cup {s} /\ Multiples' /\ table' \subseteq Subnet
  BY <1>3, <1>4, Grown
<1>6. UNCHANGED <<count, ipv4, ipv6, up>>
  BY DEF Fixed
<1>7. TypeOK'
  <2>1. before' \subseteq table' /\ start' \in Address
    BY <1>2 DEF RouteInv, TypeOK
  <2>. QED  BY <1>5, <1>6, <2>1 DEF RouteInv, TypeOK, Address
<1>8. Turns' /\ SixFollows'
  BY <1>6 DEF RouteInv, Turns, SixFollows, Looping
<1>9. Added \subseteq Subnet
  BY DEF RouteInv, TypeOK, Added
<1>10. Frontier'
  <2>1. ip - (start + S) < S /\ start + S <= ip
    BY <1>1, <1>2
  <2>2. \A t \in Added' : t.mask <= mask
    BY <1>1, <1>2, <1>4, <1>5, <1>9 DEF Subnet
  <2>3. \E t \in Added' : t.mask = mask
    BY <1>4, <1>5
  <2>4. BelowAt'
    BY <1>3, <2>1, <2>2, <2>3 DEF BelowAt, Multiple
  <2>. QED  BY <2>1, <2>4 DEF Frontier
<1>11. Digits /\ Cover
  BY DEF RouteInv, LoopInv, Looping
<1>12. Digits'
  <2>1. \A m \in 1 .. W : (Odd(m)' <=> Odd(m)) /\ (Even(m)' <=> Even(m))
    BY DEF Odd, Even
  <2>2. \A t \in Added' : t.base < ip => Odd(t.mask)
    BY <1>2, <1>4, <1>5, <1>11 DEF Digits
  <2>3. \A t \in Added' : ~(t.base >= ip)
    BY <1>1, <1>2, <1>4, <1>5, <1>9, <1>11 DEF Digits
  <2>4. \A t, u \in Added' : t.mask = u.mask => t = u
    BY <1>1, <1>2, <1>4, <1>5, <1>9, <1>11 DEF Digits, Subnet
  <2>5. \A m \in 1 .. W : Odd(m) /\ m < mask => \E t \in Added' : t.mask = m
    BY <1>5, <1>11 DEF Digits
  <2>6. \A t \in Added' : t.mask \in 1 .. W
    BY <1>4, <1>5, <1>9 DEF Subnet
  <2>7. \A t \in Added' : t.base < ip => Odd(t.mask)'
    BY <2>1, <2>2, <2>6
  <2>8. \A m \in 1 .. W : Odd(m)' /\ m < mask => \E t \in Added' : t.mask = m
    BY <2>1, <2>5
  <2>. QED  BY <2>3, <2>4, <2>7, <2>8 DEF Digits
<1>13. Cover'
  <2>1. \A t \in Added : t.base + Size[t.mask] <= start
    BY <1>11 DEF Cover
  <2>2. \A t \in Added : t.base \in Nat /\ Size[t.mask] \in Nat
    BY <1>1, <1>9, Sizes DEF Given, Subnet, Address
  <2>3. \A t \in Added' : t.base + Size[t.mask] <= start + S
    BY <1>1, <1>4, <1>5, <2>1, <2>2
  <2>4. ASSUME NEW a \in Address, a < start + S PROVE \E t \in Added' : a \in Addresses(t)
    <3>1. a \in Nat
      BY <1>1, <2>4 DEF Address
    <3>2. CASE a < start
      BY <1>5, <1>11, <3>2 DEF Cover
    <3>3. CASE a >= start
      <4>1. a \in start .. start + S - 1
        BY <1>1, <2>4, <3>1, <3>3
      <4>2. a \in Addresses(s)
        BY <1>4, <4>1 DEF Addresses
      <4>. QED  BY <1>5, <4>2
    <3>. QED  BY <1>1, <3>1, <3>2, <3>3
  <2>5. ASSUME NEW t \in Added, NEW a \in Addresses(t) PROVE a \notin Addresses(s)
    BY <1>1, <1>4, <2>1, <2>2, <2>5 DEF Addresses
  <2>6. \A t, u \in Added' : \A a \in Addresses(t) : a \in Addresses(u) => t = u
    BY <1>5, <1>11, <2>5 DEF Cover
  <2>. QED  BY <2>3, <2>4, <2>6 DEF Cover, Address, Addresses
<1>. QED
  BY <1>5, <1>7, <1>8, <1>10, <1>12, <1>13 DEF RouteInv, LoopInv

(* The loop from above adds a subnet.                                      *)
LEMMA AboveGrows ==
  ASSUME Given, RouteInv, Fixed, side = "above", mask <= W, Above,
         NEW s, s = [base |-> ip_end - Size[mask] + 1, mask |-> mask], s \notin table,
         table' = table \cup {s}, start' = start, ip_end' = ip_end - Size[mask],
         UNCHANGED <<i, side, ip, mask, before, table6, refused>>
  PROVE  RouteInv'
<1> DEFINE S == Size[mask]
<1>1. /\ mask \in 1 .. W /\ S \in Nat \ {0} /\ Size[mask - 1] = 2 * S
      /\ ip_end \in Nat /\ ip \in Nat /\ Size[0] \in Nat \ {0} /\ ip_end < Size[0]
  BY Ranges
<1>2. /\ start = ip /\ ip <= ip_end - S /\ ip_end - ip < 2 * S
      /\ Multiple(ip_end + 1, 2 * S)
      /\ \A t \in Added : t.base > ip => t.mask < mask
      /\ Even(mask)
      /\ ip_end - S \in Address /\ ip_end - S + 1 \in Address
  BY AboveFacts
<1>3. Multiple(ip_end - S + 1, S)
  <2>1. Multiple(ip_end + 1 - S, S)
    <3>1. ip_end + 1 \in Nat /\ ip_end + 1 > 0
      BY <1>1
    <3> HIDE DEF S
    <3>. QED  BY <1>1, <1>2, <3>1, Doubled
  <2>2. ip_end + 1 - S = ip_end - S + 1
    BY <1>1
  <2>. QED  BY <2>1, <2>2
<1>4. s \in Subnet /\ s.base = ip_end - S + 1 /\ s.mask = mask
  BY <1>1, <1>2 DEF Subnet
<1>5. Added' = Added \cup {s} /\ Multiples' /\ table' \subseteq Subnet
  BY <1>3, <1>4, Grown
<1>6. UNCHANGED <<count, ipv4, ipv6, up>>
  BY DEF Fixed
<1>7. TypeOK'
  <2>1. before' \subseteq table' /\ ip_end' \in Address
    BY <1>2 DEF RouteInv, TypeOK
  <2>. QED  BY <1>5, <1>6, <2>1 DEF RouteInv, TypeOK, Address
<1>8. Turns' /\ SixFollows'
  BY <1>6 DEF RouteInv, Turns, SixFollows, Looping
<1>9. Added \subseteq Subnet
  BY DEF RouteInv, TypeOK, Added
<1>10. \A t \in Added : t.base \in Nat /\ t.mask \in 1 .. W
  BY <1>1, <1>9 DEF Subnet, Address
<1>11. Frontier'
  <2>1. ip_end - S - ip < S /\ ip <= ip_end - S
    BY <1>1, <1>2
  <2>2. \A t \in Added' : t.base > ip => t.mask <= mask
    BY <1>1, <1>2, <1>4, <1>5, <1>10
  <2>3. \E t \in Added' : t.mask = mask
    BY <1>4, <1>5
  <2>4. AboveAt'
    BY <1>3, <2>1, <2>2, <2>3 DEF AboveAt, Multiple
  <2>. QED  BY <1>2, <2>1, <2>4 DEF Frontier
<1>12. Digits /\ Cover
  BY DEF RouteInv, LoopInv, Looping
<1>13. Digits'
  <2>1. \A m \in 1 .. W : (Odd(m)' <=> Odd(m)) /\ (Even(m)' <=> Even(m))
    BY DEF Odd, Even
  <2>2. s.base > ip
    BY <1>1, <1>2, <1>4
  <2>3. \A t \in Added' : t.base < ip => Odd(t.mask)
    BY <1>1, <1>4, <1>5, <1>12, <2>2 DEF Digits
  <2>4. \A t \in Added' : t.base >= ip => t.base > ip /\ Even(t.mask)
    <3>1. \A t \in Added : t.base >= ip => t.base > ip /\ Even(t.mask)
      BY <1>12 DEF Digits
    <3>. QED  BY <1>2, <1>4, <1>5, <2>2, <3>1
  <2>5. ASSUME NEW t \in Added PROVE t.mask # mask
    <3>1. CASE t.base > ip
      BY <1>1, <1>2, <1>10, <3>1
    <3>2. CASE t.base < ip
      BY <1>1, <1>2, <1>12, <3>2, OneDigit DEF Digits, Given
    <3>3. CASE t.base = ip
      BY <1>1, <1>12, <3>3 DEF Digits
    <3>. QED  BY <1>1, <1>10, <3>1, <3>2, <3>3
  <2>6. \A t, u \in Added' : t.mask = u.mask => t = u
    BY <1>4, <1>5, <1>12, <2>5 DEF Digits
  <2>7. \A m \in 1 .. W :
          /\ Odd(m) => \E t \in Added' : t.mask = m
          /\ Even(m) /\ m < mask => \E t \in Added' : t.mask = m
    BY <1>5, <1>12 DEF Digits
  <2>8. \A t \in Added' : t.mask \in 1 .. W
    BY <1>1, <1>4, <1>5, <1>10
  <2>9. \A t \in Added' : t.base < ip => Odd(t.mask)'
    BY <2>1, <2>3, <2>8
  <2>10. \A t \in Added' : t.base >= ip => t.base > ip /\ Even(t.mask)'
    BY <2>1, <2>4, <2>8
  <2>11. \A m \in 1 .. W :
          /\ Odd(m)' => \E t \in Added' : t.mask = m
          /\ Even(m)' /\ m < mask => \E t \in Added' : t.mask = m
    BY <2>1, <2>7
  <2>. QED  BY <2>6, <2>9, <2>10, <2>11 DEF Digits
<1>14. Cover'
  <2>1. \A t \in Added : t.base + Size[t.mask] <= ip \/ t.base > ip_end
    BY <1>2, <1>12 DEF Cover
  <2>2. \A t \in Added : Size[t.mask] \in Nat
    BY <1>10, Sizes DEF Given
  <2>3. \A t \in Added' : t.base + Size[t.mask] <= start \/ t.base > ip_end - S
    BY <1>1, <1>2, <1>4, <1>5, <1>10, <2>1, <2>2
  <2>4. ASSUME NEW a \in Address, a < start \/ a > ip_end - S
        PROVE  \E t \in Added' : a \in Addresses(t)
    <3>1. a \in Nat
      BY <1>1, <2>4 DEF Address
    <3>2. CASE a < start \/ a > ip_end
      BY <1>5, <1>12, <3>2 DEF Cover
    <3>3. CASE ip_end - S < a /\ a <= ip_end
      <4>1. a \in ip_end - S + 1 .. ip_end - S + 1 + S - 1
        BY <1>1, <3>1, <3>3
      <4>2. a \in Addresses(s)
        BY <1>4, <4>1 DEF Addresses
      <4>. QED  BY <1>5, <4>2
    <3>. QED  BY <1>1, <2>4, <3>1, <3>2, <3>3
  <2>5. ASSUME NEW t \in Added, NEW a \in Addresses(t) PROVE a \notin Addresses(s)
    <3>1. a \in t.base .. t.base + Size[t.mask] - 1
      BY DEF Addresses
    <3>2. Addresses(s) = ip_end - S + 1 .. ip_end - S + 1 + S - 1
      BY <1>4 DEF Addresses
    <3>3. t.base \in Nat /\ Size[t.mask] \in Nat
      BY <1>10, <2>2
    <3>4. a \in Nat /\ t.base <= a /\ a < t.base + Size[t.mask]
      BY <3>1, <3>3
    <3>5. a <= ip - 1 \/ a > ip_end
      BY <1>1, <2>1, <3>3, <3>4
    <3> HIDE DEF S
    <3>. QED  BY <1>1, <1>2, <3>2, <3>4, <3>5
  <2>6. \A t, u \in Added' : \A a \in Addresses(t) : a \in Addresses(u) => t = u
    BY <1>5, <1>12, <2>5 DEF Cover
  <2>. QED  BY <2>3, <2>4, <2>6 DEF Cover, Address, Addresses
<1>. QED
  BY <1>5, <1>7, <1>8, <1>11, <1>13, <1>14 DEF RouteInv, LoopInv

LEMMA AddBelowStep ==
  ASSUME Given, RouteInv, Fixed, AddBelow
  PROVE  RouteInv'
<1> DEFINE s == [base |-> start, mask |-> mask]
<1>1. side = "below" /\ mask <= W /\ Below
  BY DEF AddBelow
<1>2. AddRoute(s, start + Size[mask], ip_end)
  BY <1>1, BelowFacts DEF AddBelow
<1>3. CASE /\ s \notin table /\ table' = table \cup {s}
           /\ start' = start + Size[mask] /\ ip_end' = ip_end
           /\ UNCHANGED <<i, side, ip, mask, before, table6, refused>>
  <2>. HIDE DEF s
  <2>2. s = [base |-> start, mask |-> mask]
    BY DEF s
  <2>. QED  BY <1>1, <1>3, <2>2, BelowGrows
<1>4. CASE Fail(s \in table)
  <2>2. s \notin Added
    <3>1. Size[mask] \in Nat \ {0} /\ start \in Nat
      BY <1>1, Ranges
    <3>2. \A t \in Added : t.base + Size[t.mask] <= start
      BY <1>1 DEF RouteInv, LoopInv, Looping, Cover
    <3>3. s \in Added => s.base + Size[s.mask] <= start
      BY <3>2
    <3>4. s.base = start /\ s.mask = mask
      OBVIOUS
    <3> HIDE DEF s
    <3>. QED  BY <3>1, <3>3, <3>4
  <2>3. Looping /\ side # "ipv6"
    BY <1>1 DEF Looping
  <2>4. s \in table => before # {}
    BY <2>2 DEF Added
  <2>. HIDE DEF s
  <2>. QED  BY <1>4, <2>3, <2>4, FailStep
<1>. QED  BY <1>2, <1>3, <1>4 DEF AddRoute

LEMMA AddAboveStep ==
  ASSUME Given, RouteInv, Fixed, AddAbove
  PROVE  RouteInv'
<1> DEFINE s == [base |-> ip_end - Size[mask] + 1, mask |-> mask]
<1>1. side = "above" /\ mask <= W /\ Above
  BY DEF AddAbove
<1>2. AddRoute(s, start, ip_end - Size[mask])
  BY <1>1, AboveFacts DEF AddAbove
<1>3. CASE /\ s \notin table /\ table' = table \cup {s}
           /\ start' = start /\ ip_end' = ip_end - Size[mask]
           /\ UNCHANGED <<i, side, ip, mask, before, table6, refused>>
  <2>. HIDE DEF s
  <2>2. s = [base |-> ip_end - Size[mask] + 1, mask |-> mask]
    BY DEF s
  <2>. QED  BY <1>1, <1>3, <2>2, AboveGrows
<1>4. CASE Fail(s \in table)
  <2>2. s \notin Added
    <3>1. Size[mask] \in Nat \ {0} /\ ip_end \in Nat /\ ip \in Nat
      BY <1>1, Ranges
    <3>2. start = ip /\ ip <= ip_end - Size[mask]
      BY <1>1, AboveFacts
    <3>3. \A t \in Added : t.base + Size[t.mask] <= start \/ t.base > ip_end
      BY <1>1 DEF RouteInv, LoopInv, Looping, Cover
    <3>4. s \in Added => s.base + Size[s.mask] <= start \/ s.base > ip_end
      BY <3>3
    <3>5. s.base = ip_end - Size[mask] + 1 /\ s.mask = mask
      OBVIOUS
    <3> HIDE DEF s
    <3>. QED  BY <3>1, <3>2, <3>4, <3>5
  <2>3. Looping /\ side # "ipv6"
    BY <1>1 DEF Looping
  <2>4. s \in table => before # {}
    BY <2>2 DEF Added
  <2>. HIDE DEF s
  <2>. QED  BY <1>4, <2>3, <2>4, FailStep
<1>. QED  BY <1>2, <1>3, <1>4 DEF AddRoute

(* Half the size, from below: a digit passed over is 0.                    *)
LEMMA NarrowBelow ==
  ASSUME Given, RouteInv, side = "below", mask <= W, ~Below
  PROVE  /\ ip - start < Size[mask] /\ Multiple(start, Size[mask])
         /\ \A s \in Added : s.mask < mask + 1
         /\ Odd(mask) => \E s \in Added : s.mask = mask
<1> DEFINE S == Size[mask]
<1>1. /\ mask \in 1 .. W /\ mask \in Nat /\ S \in Nat \ {0} /\ Size[mask - 1] = 2 * S
      /\ start \in Nat /\ ip \in Nat
  BY Ranges
<1>2. start <= ip /\ BelowAt
  BY DEF RouteInv, LoopInv, Looping, Frontier
<1>3. ip - start < S
  BY <1>1 DEF Below
<1>4. \A s \in Added : s.mask \in Nat
  BY DEF RouteInv, TypeOK, Added, Subnet
<1>5. \A s \in Added : s.mask < mask + 1
  BY <1>1, <1>2, <1>4 DEF BelowAt
<1>6. Multiple(start, S)
  BY <1>1, <1>2, Doubled DEF BelowAt
<1>7. ASSUME Odd(mask) PROVE \E s \in Added : s.mask = mask
  <2>1. ~Even(mask)
    BY <1>1, <1>7, OneDigit DEF Given
  <2>2. ~Multiple(start, 2 * S)
    <3>1. SUFFICES ASSUME NEW k \in Nat, start = k * (2 * S) PROVE FALSE
      BY DEF Multiple
    <3>. QED  BY <1>1, <1>2, <1>3, <2>1, <3>1 DEF Even
  <2>. QED  BY <1>1, <1>2, <2>2 DEF BelowAt
<1>. QED  BY <1>3, <1>5, <1>6, <1>7

(* And from above: a digit passed over is 1.                               *)
LEMMA NarrowAbove ==
  ASSUME Given, RouteInv, side = "above", mask <= W, ~Above
  PROVE  /\ ip_end - ip < Size[mask] /\ Multiple(ip_end + 1, Size[mask])
         /\ \A s \in Added : s.base > ip => s.mask < mask + 1
         /\ Even(mask) => \E s \in Added : s.mask = mask
<1> DEFINE S == Size[mask]
<1>1. /\ mask \in 1 .. W /\ mask \in Nat /\ S \in Nat \ {0} /\ Size[mask - 1] = 2 * S
      /\ ip_end \in Nat /\ ip \in Nat
  BY Ranges
<1>2. ip <= ip_end /\ Multiple(ip_end + 1, S) /\ ip_end - S < ip
  BY <1>1, AboveRange
<1>3. AboveAt
  BY DEF RouteInv, LoopInv, Looping, Frontier
<1>4. \A s \in Added : s.mask \in Nat
  BY DEF RouteInv, TypeOK, Added, Subnet
<1>5. \A s \in Added : s.base > ip => s.mask < mask + 1
  BY <1>1, <1>3, <1>4 DEF AboveAt
<1>6. ASSUME Even(mask) PROVE \E s \in Added : s.mask = mask
  <2>1. ~Odd(mask)
    BY <1>1, <1>6, OneDigit DEF Given
  <2>2. ~Multiple(ip_end + 1, 2 * S)
    <3>1. SUFFICES ASSUME NEW k \in Nat, ip_end + 1 = k * (2 * S) PROVE FALSE
      BY DEF Multiple
    <3>2. k # 0
      BY <1>1, <3>1
    <3>3. PICK j \in Nat : k = j + 1
      BY <3>2
    <3>4. ip_end + 1 = j * (2 * S) + 2 * S /\ j * (2 * S) \in Nat
      <4>1. S \in Nat
        BY <1>1
      <4> HIDE DEF S
      <4>2. (j + 1) * (2 * S) = j * (2 * S) + 2 * S /\ j * (2 * S) \in Nat
        BY <4>1
      <4>. QED  BY <3>1, <3>3, <4>2
    <3>5. j * (2 * S) + S <= ip /\ ip < j * (2 * S) + 2 * S
      <4> HIDE DEF S
      <4>. QED  BY <1>1, <1>2, <3>4
    <3>. QED  BY <1>1, <2>1, <3>3, <3>5 DEF Odd
  <2>3. /\ mask <= W
        /\ \/ Multiple(ip_end + 1, 2 * S)
           \/ \E s \in Added : s.mask = mask
    BY <1>1, <1>3 DEF AboveAt
  <2>. QED  BY <2>2, <2>3
<1>. QED  BY <1>1, <1>2, <1>5, <1>6

LEMMA NarrowStep ==
  ASSUME Given, RouteInv, Fixed, Narrow
  PROVE  RouteInv'
<1>1. /\ mask <= W /\ Looping
      /\ side = "below" => ~Below
      /\ side = "above" => ~Above
  BY DEF Narrow, Looping
<1>2. mask' = mask + 1 /\ UNCHANGED <<i, side, ip, start, ip_end, before, table, table6, refused>>
  BY DEF Narrow
<1>3. UNCHANGED <<count, ipv4, ipv6, up>>
  BY DEF Fixed
<1>4. mask \in 1 .. W /\ mask + 1 - 1 = mask /\ W \in Nat
  BY <1>1, Ranges DEF Given, Halved
<1>5. TypeOK'
  BY <1>2, <1>3, <1>4 DEF RouteInv, TypeOK, Address, Subnet
<1>6. Added' = Added
  BY <1>2 DEF Added
<1>7. Frontier'
  <2>1. CASE side = "below"
    <3>1. BelowAt'
      BY <1>1, <1>2, <1>4, <1>6, <2>1, NarrowBelow DEF BelowAt, Multiple
    <3>. QED  BY <1>1, <1>2, <2>1, <3>1 DEF RouteInv, LoopInv, Frontier
  <2>2. CASE side = "above"
    <3>1. AboveAt'
      BY <1>1, <1>2, <1>4, <1>6, <2>2, NarrowAbove DEF AboveAt, Multiple
    <3>. QED  BY <1>1, <1>2, <2>2, <3>1 DEF RouteInv, LoopInv, Frontier
  <2>. QED  BY <1>1, <2>1, <2>2 DEF Looping
<1>8. Digits'
  <2>1. \A m \in 1 .. W : (Odd(m)' <=> Odd(m)) /\ (Even(m)' <=> Even(m))
    BY <1>2 DEF Odd, Even
  <2>2. Digits /\ \A s \in Added : s.mask \in 1 .. W
    BY <1>1 DEF RouteInv, LoopInv, TypeOK, Added, Subnet
  <2>3. /\ \A s \in Added' : s.base < ip => Odd(s.mask)'
        /\ \A s \in Added' : s.base >= ip => side = "above" /\ s.base > ip /\ Even(s.mask)'
        /\ \A s, t \in Added' : s.mask = t.mask => s = t
    BY <1>6, <2>1, <2>2 DEF Digits
  <2>4. ASSUME NEW m \in 1 .. W, Odd(m), side = "above" \/ m < mask + 1
        PROVE  \E s \in Added : s.mask = m
    <3>1. CASE side = "above" \/ m < mask
      BY <2>2, <2>4, <3>1 DEF Digits
    <3>2. CASE side # "above" /\ m = mask
      BY <1>1, <2>4, <3>2, NarrowBelow DEF Looping
    <3>. QED  BY <1>4, <2>4, <3>1, <3>2
  <2>5. ASSUME NEW m \in 1 .. W, Even(m), side = "above", m < mask + 1
        PROVE  \E s \in Added : s.mask = m
    <3>1. CASE m < mask
      BY <2>2, <2>5, <3>1 DEF Digits
    <3>2. CASE m = mask
      BY <1>1, <2>5, <3>2, NarrowAbove
    <3>. QED  BY <1>4, <2>5, <3>1, <3>2
  <2>. QED  BY <1>2, <1>6, <2>1, <2>3, <2>4, <2>5 DEF Digits
<1>9. Cover'
  BY <1>1, <1>2, <1>6 DEF RouteInv, LoopInv, Cover, Address, Addresses
<1>10. Multiples' /\ Turns' /\ SixFollows'
  <2>1. Multiples'
    BY <1>2 DEF RouteInv, Multiples
  <2>2. Turns' /\ SixFollows'
    BY <1>1, <1>2, <1>3 DEF RouteInv, Turns, SixFollows, Looping
  <2>. QED  BY <2>1, <2>2
<1>. QED  BY <1>5, <1>7, <1>8, <1>9, <1>10 DEF RouteInv, LoopInv

LEMMA TurnStep ==
  ASSUME Given, RouteInv, Fixed, Turn
  PROVE  RouteInv'
<1>1. /\ side = "below" /\ side' = "above" /\ mask > W /\ mask' = 1 /\ ip_end' = Size[0] - 1
      /\ UNCHANGED <<i, ip, start, before, table, table6, refused>>
  BY DEF Turn, Top
<1>2. UNCHANGED <<count, ipv4, ipv6, up>>
  BY DEF Fixed
<1>3. /\ W \in Nat \ {0} /\ Size[0] \in Nat \ {0} /\ Size[W] = 1
      /\ ip \in 0 .. Size[0] - 1 /\ start \in 0 .. Size[0] - 1 /\ mask = W + 1
  BY <1>1 DEF Given, Halved, RouteInv, TypeOK, Address
<1>4. start = ip
  <2>1. ip - start < 1 /\ start <= ip
    BY <1>1, <1>3 DEF RouteInv, LoopInv, Looping, Frontier, BelowAt
  <2>. QED  BY <1>3, <2>1
<1>5. TypeOK'
  <2>1. Size[0] - 1 \in Address
    BY <1>3 DEF Address
  <2>. QED  BY <1>1, <1>2, <1>3, <2>1 DEF RouteInv, TypeOK, Address, Subnet
<1>6. Added' = Added /\ Added \subseteq Subnet
  BY <1>1 DEF Added, RouteInv, TypeOK
<1>7. Digits /\ Cover
  BY <1>1 DEF RouteInv, LoopInv, Looping
<1>8. \A s \in Added : s.base < ip
  <2>1. \A s \in Added : s.base \in 0 .. Size[0] - 1
    BY <1>6 DEF Subnet, Address
  <2>. QED  BY <1>1, <1>3, <1>7, <2>1 DEF Digits
<1>9. Frontier'
  <2>1. Size[0] - 1 - ip < Size[0] /\ ip <= Size[0] - 1 /\ Size[0] - 1 + 1 = 1 * Size[0]
    BY <1>3
  <2>2. Multiple(Size[0] - 1 + 1, Size[0])
    BY <2>1 DEF Multiple
  <2>3. \A s \in Added : ~(s.base > ip)
    <3>1. \A s \in Added : s.base \in 0 .. Size[0] - 1
      BY <1>6 DEF Subnet, Address
    <3>. QED  BY <1>3, <1>8, <3>1
  <2>4. AboveAt'
    BY <1>1, <1>6, <2>1, <2>2, <2>3 DEF AboveAt, Multiple
  <2>. QED  BY <1>1, <1>4, <2>1, <2>4 DEF Frontier
<1>10. Digits'
  <2>1. \A m \in 1 .. W : (Odd(m)' <=> Odd(m)) /\ (Even(m)' <=> Even(m))
    BY <1>1 DEF Odd, Even
  <2>2. \A s \in Added : s.mask \in 1 .. W /\ s.base \in 0 .. Size[0] - 1
    BY <1>6 DEF Subnet, Address
  <2>3. /\ \A s \in Added' : s.base < ip => Odd(s.mask)'
        /\ \A s \in Added' : ~(s.base >= ip)
        /\ \A s, t \in Added' : s.mask = t.mask => s = t
    BY <1>3, <1>6, <1>7, <1>8, <2>1, <2>2 DEF Digits
  <2>4. \A m \in 1 .. W :
          /\ Odd(m)' => \E s \in Added : s.mask = m
          /\ ~(m < 1)
    BY <1>3, <1>7, <2>1 DEF Digits
  <2>. QED  BY <1>1, <1>6, <2>3, <2>4 DEF Digits
<1>11. Cover'
  <2>1. \A a \in Address : ~(a > Size[0] - 1)
    BY <1>3 DEF Address
  <2>2. \A s \in Added : s.base + Size[s.mask] <= start
    BY <1>1, <1>7 DEF Cover
  <2>3. \A a \in Address : a < start => \E s \in Added : a \in Addresses(s)
    BY <1>7 DEF Cover
  <2>4. \A s, t \in Added : \A a \in Addresses(s) : a \in Addresses(t) => s = t
    BY <1>7 DEF Cover
  <2>. QED  BY <1>1, <1>6, <2>1, <2>2, <2>3, <2>4 DEF Cover, Address, Addresses
<1>12. Multiples' /\ Turns' /\ SixFollows'
  <2>1. Multiples'
    BY <1>1 DEF RouteInv, Multiples
  <2>2. Turns' /\ SixFollows'
    BY <1>1, <1>2 DEF RouteInv, Turns, SixFollows, Looping
  <2>. QED  BY <2>1, <2>2
<1>. QED  BY <1>5, <1>9, <1>10, <1>11, <1>12 DEF RouteInv, LoopInv

LEMMA ReturnStep ==
  ASSUME Given, RouteInv, Fixed, Return
  PROVE  RouteInv'
<1>1. /\ side = "above" /\ UNCHANGED <<table, table6, refused>>
      /\ \/ ipv6 /\ side' = "ipv6" /\ UNCHANGED <<i, ip, start, ip_end, mask, before>>
         \/ ~ipv6 /\ NextServer
  BY DEF Return, locals
<1>2. UNCHANGED <<count, ipv4, ipv6, up>>
  BY DEF Fixed
<1>3. ipv4
  BY <1>1 DEF RouteInv, Turns, Looping
<1>4. CASE ipv6 /\ side' = "ipv6" /\ UNCHANGED <<i, ip, start, ip_end, mask, before>>
  <2>1. TypeOK'
    BY <1>1, <1>2, <1>4 DEF RouteInv, TypeOK, Address, Subnet
  <2>2. Multiples'
    BY <1>1 DEF RouteInv, Multiples
  <2>3. Turns' /\ SixFollows' /\ LoopInv'
    BY <1>1, <1>2, <1>4 DEF RouteInv, Turns, SixFollows, LoopInv, Looping
  <2>. QED  BY <2>1, <2>2, <2>3 DEF RouteInv
<1>5. CASE ~ipv6 /\ NextServer
  <2>1. table6' \in BOOLEAN
    BY <1>1 DEF RouteInv, TypeOK
  <2>2. refused' \in BOOLEAN
    BY <1>1 DEF RouteInv, TypeOK
  <2>3. up /\ ~refused /\ ipv6 /\ table # {} => table6
    BY <1>5
  <2>. QED  BY <1>1, <1>3, <1>5, <2>1, <2>2, <2>3, NextServerStep
<1>. QED  BY <1>1, <1>4, <1>5

LEMMA RouteNext == Given /\ RouteInv /\ Next /\ Fixed => RouteInv'
<1> SUFFICES ASSUME Given, RouteInv, Next, Fixed PROVE RouteInv'
  OBVIOUS
<1>1. CASE Resolve \/ OnlyIpv6 \/ AddIpv6
  BY <1>1, ResolveStep, OnlyIpv6Step, AddIpv6Step
<1>2. CASE AddBelow \/ AddAbove
  BY <1>2, AddBelowStep, AddAboveStep
<1>3. CASE Narrow \/ Turn \/ Return
  BY <1>3, NarrowStep, TurnStep, ReturnStep
<1>. QED  BY <1>1, <1>2, <1>3 DEF Next

(* And any step that has nothing to do with the routes.                    *)
LEMMA RouteKept ==
  RouteInv /\ Fixed /\ UNCHANGED <<i, side, table, table6, refused, locals>> => RouteInv'
<1> SUFFICES ASSUME RouteInv, UNCHANGED <<count, ipv4, ipv6, up>>,
                    UNCHANGED <<i, side, table, table6, refused, ip, start, ip_end, mask, before>>
    PROVE  RouteInv'
  BY DEF Fixed, locals
<1>1. TypeOK'
  BY DEF RouteInv, TypeOK, Address, Subnet
<1>2. Multiples' /\ Turns' /\ SixFollows'
  BY DEF RouteInv, Multiples, Turns, SixFollows, Looping
<1>3. LoopInv'
  BY DEF RouteInv, LoopInv, Looping, Frontier, BelowAt, AboveAt, Digits, Odd, Even, Cover,
         Added, Multiple, Address, Addresses
<1>. QED  BY <1>1, <1>2, <1>3 DEF RouteInv

-----------------------------------------------------------------------------
(* What the invariant gives.                                               *)

LEMMA RouteBracketed == Given /\ RouteInv => Bracketed
<1> SUFFICES ASSUME Given, RouteInv PROVE Bracketed
  OBVIOUS
<1>1. ip \in Nat
  BY DEF Given, Halved, RouteInv, TypeOK, Address
<1>2. Looping => Frontier
  BY DEF RouteInv, LoopInv
<1>. QED  BY <1>1, <1>2 DEF Looping, Frontier, Bracketed

LEMMA RouteAligned == Given /\ RouteInv => Aligned
<1> SUFFICES ASSUME Given, RouteInv, NEW s \in table PROVE s.base % Size[s.mask] = 0
  BY DEF Aligned
<1>1. s \in Subnet /\ Multiple(s.base, Size[s.mask])
  BY DEF RouteInv, TypeOK, Multiples
<1>2. Size[0] \in Nat \ {0} /\ s.base \in Nat /\ s.mask \in 1 .. W
  BY <1>1 DEF Given, Halved, Subnet, Address
<1>3. Size[s.mask] \in Nat \ {0}
  BY <1>2, Sizes DEF Given
<1>. QED  BY <1>1, <1>2, <1>3, Remainder

(* When both loops have ended, the frontiers have met at the server.       *)
LEMMA RouteAllButServer == Given /\ RouteInv => AllButServer
<1> SUFFICES ASSUME Given, RouteInv, side = "above", mask > W
    PROVE  /\ Cardinality(Added) = W
           /\ \A a \in Address :
                Cardinality({s \in Added : a \in Addresses(s)}) = IF a = ip THEN 0 ELSE 1
  BY DEF AllButServer, Added
<1>1. /\ W \in Nat \ {0} /\ Size[0] \in Nat \ {0} /\ Size[W] = 1
      /\ ip \in 0 .. Size[0] - 1 /\ ip_end \in 0 .. Size[0] - 1 /\ mask = W + 1
  BY DEF Given, Halved, RouteInv, TypeOK, Address
<1>2. Digits /\ Cover /\ Added \subseteq Subnet
  BY DEF RouteInv, LoopInv, Looping, TypeOK, Added
<1>3. start = ip /\ ip_end = ip
  <2>1. start = ip /\ ip <= ip_end /\ ip_end - ip < 1
    BY <1>1 DEF RouteInv, LoopInv, Looping, Frontier, AboveAt
  <2>. QED  BY <1>1, <2>1
<1>4. Cardinality(Added) = W
  <2> DEFINE f == [s \in Added |-> s.mask]
  <2>1. f \in [Added -> 1 .. W]
    BY <1>2 DEF Subnet
  <2>2. \A s, t \in Added : f[s] = f[t] => s = t
    BY <1>2 DEF Digits
  <2>3. ASSUME NEW m \in 1 .. W PROVE \E s \in Added : f[s] = m
    <3>1. ip \in Nat /\ m < mask
      BY <1>1
    <3>2. Odd(m) \/ Even(m)
      BY <3>1, OneDigit DEF Given
    <3>. QED  BY <1>2, <3>1, <3>2 DEF Digits
  <2>4. f \in Injection(Added, 1 .. W) /\ f \in Surjection(Added, 1 .. W)
    <3> HIDE DEF f
    <3>. QED  BY <2>1, <2>2, <2>3 DEF Injection, Surjection, IsInjective
  <2>5. IsFiniteSet(1 .. W) /\ Cardinality(1 .. W) = W
    <3>1. 1 \in Int /\ W \in Int /\ ~(1 > W) /\ W - 1 + 1 = W
      BY <1>1
    <3>2. IsFiniteSet(1 .. W) /\ Cardinality(1 .. W) = IF 1 > W THEN 0 ELSE W - 1 + 1
      BY <3>1, FS_Interval
    <3>. QED  BY <3>1, <3>2
  <2>. QED  BY <2>4, <2>5, FS_Injection
<1>5. ASSUME NEW a \in Address
      PROVE  Cardinality({s \in Added : a \in Addresses(s)}) = IF a = ip THEN 0 ELSE 1
  <2>1. a \in Nat
    BY <1>1 DEF Address
  <2>2. CASE a = ip
    <3>1. ASSUME NEW s \in Added, a \in Addresses(s) PROVE FALSE
      <4>1. s.base + Size[s.mask] <= ip \/ s.base > ip
        BY <1>2, <1>3 DEF Cover
      <4>2. s.base \in Nat /\ s.mask \in 1 .. W
        BY <1>1, <1>2 DEF Subnet, Address
      <4>3. Size[s.mask] \in Nat
        BY <4>2, Sizes DEF Given
      <4>4. s.base <= a /\ a < s.base + Size[s.mask]
        BY <2>1, <3>1, <4>2, <4>3 DEF Addresses
      <4>. QED  BY <1>1, <2>2, <4>1, <4>2, <4>3, <4>4
    <3>2. {s \in Added : a \in Addresses(s)} = {}
      BY <3>1
    <3>. QED  BY <2>2, <3>2, FS_EmptySet
  <2>3. CASE a # ip
    <3>1. a < start \/ a > ip_end
      BY <1>1, <1>3, <2>1, <2>3
    <3>2. PICK s \in Added : a \in Addresses(s)
      BY <1>2, <3>1 DEF Cover
    <3>3. \A t \in Added : a \in Addresses(t) => t = s
      BY <1>2, <3>2 DEF Cover
    <3>4. {t \in Added : a \in Addresses(t)} = {s}
      BY <3>2, <3>3
    <3>. QED  BY <2>3, <3>4, FS_Singleton
  <2>. QED  BY <2>2, <2>3
<1>. QED  BY <1>4, <1>5

(* When every server's turn is over, the IPv6 route follows the IPv4 ones. *)
LEMMA RouteIpv6 ==
  RouteInv /\ side = "done" /\ up /\ ~refused /\ ipv6 /\ (ipv4 => table # {}) => table6
BY DEF RouteInv, SixFollows
=============================================================================
