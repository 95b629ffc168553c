-------------------------- MODULE LifecycleProofs --------------------------
(***************************************************************************)
(* Proofs about the life of the process, for any number of starts, any     *)
(* rules already on the host, and commands and runas that may fail.        *)
(***************************************************************************)
EXTENDS Lifecycle, TLAPS

(* Copies of the administrator's masquerade-outside that were deleted.     *)
Taken == before["masquerade-outside"] - rules["masquerade-outside"]

(* Copies of r beyond the administrator's, negative if some are gone.      *)
Surplus(r) == rules[r] - before[r]

(* What nat(address, 0) has still to delete has one copy more than it must *)
(* keep: its first command has raised Taken, and all else hangs on that.   *)
Kept ==
  /\ rules["masquerade-outside"] <= before["masquerade-outside"]
  /\ \A r \in Rule : rules[r] >= before[r] - Taken
  /\ phase = "nat-off" /\ k > 1 =>
       \A n \in k .. 5 : rules[Deleted[n]] >= before[Deleted[n]] - Taken + 1

(* What nat(address, 1) has still to add lags behind MASQUERADE.           *)
Masked ==
  /\ rules["masquerade"] >= before["masquerade"]
  /\ \A r \in Rule : Surplus(r) <= Surplus("masquerade")
  /\ phase = "nat-on" /\ k > 1 =>
       \A n \in k .. 5 : Surplus(Added[n]) <= Surplus("masquerade") - 1

LifeInv == TypeOK /\ Kept /\ Masked

LEMMA RuleNames ==
  /\ \A n \in 1 .. 5 : Added[n] \in Rule /\ Deleted[n] \in Rule
  /\ \A n \in 1 .. 5 : Added[n] # "masquerade-outside" /\ Deleted[n] # "masquerade"
  /\ \A m, n \in 1 .. 5 : m # n => Added[m] # Added[n] /\ Deleted[m] # Deleted[n]
  /\ Added[1] = "masquerade" /\ Deleted[1] = "masquerade-outside"
  /\ "masquerade-outside" \in Rule /\ "masquerade" \in Rule
<1>1. \A n \in 1 .. 5 : n = 1 \/ n = 2 \/ n = 3 \/ n = 4 \/ n = 5
  OBVIOUS
<1>2. \A m, n \in 1 .. 5 : m # n => Added[m] # Added[n]
  BY <1>1 DEF Added
<1>3. \A m, n \in 1 .. 5 : m # n => Deleted[m] # Deleted[n]
  BY <1>1 DEF Deleted
<1>. QED  BY <1>1, <1>2, <1>3 DEF Added, Deleted, Rule

LEMMA LifeInit == Init => LifeInv
<1> SUFFICES ASSUME Init PROVE LifeInv
  OBVIOUS
<1>1. before \in [Rule -> 0 .. Foreign] /\ rules = before
  BY DEF Init
<1>2. before \in [Rule -> Nat] /\ rules \in [Rule -> Nat]
  BY <1>1, LifecycleAssumption
<1>3. TypeOK
  <2>1. conf \in Config
    BY DEF Init
  <2>2. k \in 1 .. 5 /\ running \in {0, 1} /\ starts \in 1 .. MaxStarts
    BY LifecycleAssumption DEF Init
  <2>3. phase \in Phase /\ asked \in Phase \cup {"no", "running"}
    BY DEF Init, Phase
  <2>4. handlers \in BOOLEAN
    BY DEF Init
  <2>5. root \in BOOLEAN
    BY DEF Init
  <2>. QED  BY <1>1, <1>2, <2>1, <2>2, <2>3, <2>4, <2>5 DEF TypeOK
<1>4. phase = "daemonize"
  BY DEF Init
<1>5. Kept
  BY <1>1, <1>2, <1>4, RuleNames DEF Kept, Taken
<1>6. Masked
  BY <1>1, <1>2, <1>4, RuleNames DEF Masked, Surplus
<1>. QED  BY <1>3, <1>5, <1>6 DEF LifeInv

(* Steps that leave the tables alone.                                      *)
LEMMA SameRules ==
  ASSUME Kept, Masked, UNCHANGED <<rules, before>>,
         phase' \in {"nat-on", "nat-off"} => k' = 1 \/ UNCHANGED <<phase, k>>
  PROVE  Kept' /\ Masked'
<1>1. Taken' = Taken /\ \A r \in Rule : Surplus(r)' = Surplus(r)
  BY DEF Taken, Surplus
<1>2. Kept'
  BY <1>1 DEF Kept
<1>3. Masked'
  BY DEF Masked, Surplus
<1>. QED  BY <1>2, <1>3

(* One more copy of Added[k].                                              *)
LEMMA NatOnStep == LifeInv /\ NatOn => LifeInv'
<1> SUFFICES ASSUME LifeInv, NatOn PROVE LifeInv'
  OBVIOUS
<1>1. /\ k \in 1 .. 5 /\ phase = "nat-on"
      /\ rules \in [Rule -> Nat] /\ before \in [Rule -> Nat]
  BY LifecycleAssumption DEF LifeInv, TypeOK, NatOn
<1>2. UNCHANGED <<conf, handlers, running, asked, root, before, starts>>
  BY DEF NatOn
<1>3. k' \in 1 .. 5 /\ phase' \in {"nat-on", "drop"}
  BY <1>1 DEF NatOn
<1>4. CASE rules' = [rules EXCEPT ![Added[k]] = @ + 1]
           /\ (phase' = "nat-on" => k' = k + 1)
  <2>1. Added[k] \in Rule /\ Added[k] # "masquerade-outside"
    BY <1>1, RuleNames
  <2>2. /\ rules' \in [Rule -> Nat]
        /\ rules'[Added[k]] = rules[Added[k]] + 1
        /\ \A r \in Rule : r # Added[k] => rules'[r] = rules[r]
        /\ rules'["masquerade-outside"] = rules["masquerade-outside"]
    BY <1>1, <1>4, <2>1, RuleNames
  <2>3. Kept'
    <3>1. Taken' = Taken /\ Taken \in Int
      BY <1>1, <1>2, <2>2, RuleNames DEF Taken
    <3>2. \A r \in Rule : rules'[r] >= before[r] - Taken
      BY <1>1, <2>2, <3>1 DEF LifeInv, Kept
    <3>. QED  BY <1>2, <1>3, <2>2, <3>1, <3>2 DEF LifeInv, Kept
  <2>4. Masked'
    <3>1. CASE k = 1
      <4>1. rules'["masquerade"] = rules["masquerade"] + 1
            /\ \A r \in Rule : r # "masquerade" => rules'[r] = rules[r]
        BY <2>2, <3>1, RuleNames
      <4>2. \A r \in Rule : r # "masquerade" =>
              rules'[r] - before[r] <= rules'["masquerade"] - before["masquerade"] - 1
        BY <1>1, <4>1, RuleNames DEF LifeInv, Masked, Surplus
      <4>3. \A r \in Rule :
              rules'[r] - before[r] <= rules'["masquerade"] - before["masquerade"]
        BY <1>1, <2>2, <4>2, RuleNames
      <4>4. rules'["masquerade"] >= before["masquerade"]
        BY <1>1, <4>1, RuleNames DEF LifeInv, Masked
      <4>5. phase' = "nat-on" => \A n \in k' .. 5 : Added[n] \in Rule /\ Added[n] # "masquerade"
        BY <1>4, <3>1, RuleNames
      <4>. QED  BY <1>2, <4>2, <4>3, <4>4, <4>5 DEF Masked, Surplus
    <3>2. CASE k > 1
      <4>1. /\ Added[k] # "masquerade" /\ rules'["masquerade"] = rules["masquerade"]
            /\ rules["masquerade"] >= before["masquerade"]
        BY <1>1, <2>2, <3>2, RuleNames DEF LifeInv, Masked
      <4>2. \A n \in k .. 5 :
              rules[Added[n]] - before[Added[n]] <= rules["masquerade"] - before["masquerade"] - 1
        BY <1>1, <3>2 DEF LifeInv, Masked, Surplus
      <4>3. \A r \in Rule :
              rules[r] - before[r] <= rules["masquerade"] - before["masquerade"]
        BY DEF LifeInv, Masked, Surplus
      <4>4. rules[Added[k]] - before[Added[k]] <= rules["masquerade"] - before["masquerade"] - 1
        BY <1>1, <4>2
      <4>5. \A r \in Rule :
              rules'[r] - before[r] <= rules'["masquerade"] - before["masquerade"]
        BY <1>1, <2>1, <2>2, <4>1, <4>3, <4>4, RuleNames
      <4>6. phase' = "nat-on" => \A n \in k' .. 5 :
              rules'[Added[n]] - before[Added[n]] <= rules'["masquerade"] - before["masquerade"] - 1
        <5>1. \A n \in k + 1 .. 5 : n \in k .. 5 /\ n \in 1 .. 5 /\ n # k
          BY <1>1
        <5>2. \A n \in k + 1 .. 5 : rules'[Added[n]] = rules[Added[n]]
          BY <1>1, <2>2, <5>1, RuleNames
        <5>. QED  BY <1>4, <4>1, <4>2, <5>1, <5>2
      <4>. QED  BY <1>2, <4>1, <4>5, <4>6 DEF Masked, Surplus
    <3>. QED  BY <1>1, <3>1, <3>2
  <2>5. TypeOK'
    BY <1>2, <1>3, <2>2 DEF LifeInv, TypeOK, Phase
  <2>. QED  BY <2>3, <2>4, <2>5 DEF LifeInv
<1>5. CASE rules' = rules /\ phase' = "drop"
  <2>1. Kept' /\ Masked'
    BY <1>2, <1>5, SameRules DEF LifeInv
  <2>2. TypeOK'
    BY <1>2, <1>3, <1>5 DEF LifeInv, TypeOK, Phase
  <2>. QED  BY <2>1, <2>2 DEF LifeInv
<1>. QED  BY <1>4, <1>5 DEF NatOn

(* One copy of Deleted[k] less.                                            *)
LEMMA NatOffStep == LifeInv /\ NatOff => LifeInv'
<1> SUFFICES ASSUME LifeInv, NatOff PROVE LifeInv'
  OBVIOUS
<1>1. /\ k \in 1 .. 5 /\ phase = "nat-off"
      /\ rules \in [Rule -> Nat] /\ before \in [Rule -> Nat]
  BY LifecycleAssumption DEF LifeInv, TypeOK, NatOff
<1>2. UNCHANGED <<conf, handlers, running, asked, root, before, starts>>
  BY DEF NatOff
<1>3. k' \in 1 .. 5 /\ phase' \in {"nat-off", "close"}
  BY <1>1 DEF NatOff
<1>4. CASE /\ Deletable(Deleted[k])
           /\ rules' = [rules EXCEPT ![Deleted[k]] = @ - 1]
           /\ phase' = "nat-off" => k' = k + 1
  <2>1. Deleted[k] \in Rule /\ Deleted[k] # "masquerade"
    BY <1>1, RuleNames
  <2>2. /\ rules' \in [Rule -> Nat]
        /\ rules'[Deleted[k]] = rules[Deleted[k]] - 1
        /\ \A r \in Rule : r # Deleted[k] => rules'[r] = rules[r]
        /\ rules'["masquerade"] = rules["masquerade"]
    <3>1. rules[Deleted[k]] > 0
      BY <1>4 DEF Deletable
    <3>2. rules[Deleted[k]] - 1 \in Nat
      BY <1>1, <2>1, <3>1
    <3>. QED  BY <1>1, <1>4, <2>1, <3>2, RuleNames
  <2>3. Masked'
    <3>1. \A r \in Rule : rules'[r] <= rules[r]
      BY <1>1, <2>1, <2>2
    <3>2. \A r \in Rule :
            rules[r] - before[r] <= rules["masquerade"] - before["masquerade"]
      BY DEF LifeInv, Masked, Surplus
    <3>3. \A r \in Rule :
            rules'[r] - before[r] <= rules'["masquerade"] - before["masquerade"]
      BY <1>1, <2>2, <3>1, <3>2, RuleNames
    <3>. QED  BY <1>2, <1>3, <2>2, <3>3 DEF LifeInv, Masked, Surplus
  <2>4. Kept'
    <3>1. CASE k = 1
      <4>1. /\ Deleted[k] = "masquerade-outside"
            /\ rules'["masquerade-outside"] = rules["masquerade-outside"] - 1
        BY <2>2, <3>1, RuleNames
      <4>2. Taken' = Taken + 1 /\ Taken \in Int
        BY <1>1, <1>2, <4>1, RuleNames DEF Taken
      <4>3. \A r \in Rule : r # "masquerade-outside" => rules'[r] >= before[r] - Taken' + 1
        BY <1>1, <2>2, <4>1, <4>2 DEF LifeInv, Kept
      <4>4. \A r \in Rule : rules'[r] >= before[r] - Taken'
        <5>1. rules'["masquerade-outside"] >= before["masquerade-outside"] - Taken'
          BY <1>1, <1>2, <2>2, RuleNames DEF Taken
        <5>2. Taken' \in Int
          BY <4>2
        <5>. QED  BY <1>1, <2>2, <4>3, <5>1, <5>2
      <4>5. phase' = "nat-off" => \A n \in k' .. 5 :
              Deleted[n] \in Rule /\ Deleted[n] # "masquerade-outside"
        BY <1>4, <3>1, <4>1, RuleNames
      <4>6. rules'["masquerade-outside"] <= before["masquerade-outside"]
        BY <1>1, <4>1, RuleNames DEF LifeInv, Kept
      <4>. QED  BY <1>2, <4>3, <4>4, <4>5, <4>6 DEF Kept
    <3>2. CASE k > 1
      <4>1. rules'["masquerade-outside"] = rules["masquerade-outside"]
            /\ rules["masquerade-outside"] <= before["masquerade-outside"]
        BY <1>1, <2>2, <3>2, RuleNames DEF LifeInv, Kept
      <4>2. Taken' = Taken /\ Taken \in Int
        BY <1>1, <1>2, <4>1, RuleNames DEF Taken
      <4>3. /\ \A r \in Rule : rules[r] >= before[r] - Taken
            /\ \A n \in k .. 5 : rules[Deleted[n]] >= before[Deleted[n]] - Taken + 1
        BY <1>1, <3>2 DEF LifeInv, Kept
      <4>4. rules[Deleted[k]] >= before[Deleted[k]] - Taken + 1
        BY <1>1, <4>3
      <4>5. \A r \in Rule : rules'[r] >= before[r] - Taken
        BY <1>1, <2>1, <2>2, <4>2, <4>3, <4>4
      <4>6. phase' = "nat-off" => \A n \in k' .. 5 :
              rules'[Deleted[n]] >= before[Deleted[n]] - Taken + 1
        <5>1. \A n \in k + 1 .. 5 : n \in k .. 5 /\ n \in 1 .. 5 /\ n # k
          BY <1>1
        <5>2. \A n \in k + 1 .. 5 : rules'[Deleted[n]] = rules[Deleted[n]]
          BY <1>1, <2>2, <5>1, RuleNames
        <5>. QED  BY <1>4, <4>3, <5>1, <5>2
      <4>. QED  BY <1>2, <4>1, <4>2, <4>5, <4>6 DEF Kept
    <3>. QED  BY <1>1, <3>1, <3>2
  <2>5. TypeOK'
    BY <1>2, <1>3, <2>2 DEF LifeInv, TypeOK, Phase
  <2>. QED  BY <2>3, <2>4, <2>5 DEF LifeInv
<1>5. CASE rules' = rules /\ phase' = "close"
  <2>1. Kept' /\ Masked'
    BY <1>2, <1>5, SameRules DEF LifeInv
  <2>2. TypeOK'
    BY <1>2, <1>3, <1>5 DEF LifeInv, TypeOK, Phase
  <2>. QED  BY <2>1, <2>2 DEF LifeInv
<1>. QED  BY <1>4, <1>5 DEF NatOff

LEMMA LifeStep == LifeInv /\ [Next]_vars => LifeInv'
<1> SUFFICES ASSUME LifeInv, [Next]_vars PROVE LifeInv'
  OBVIOUS
<1>. USE DEF Goto
<1>1. ASSUME UNCHANGED <<conf, rules, before>>, k' \in {1, k},
             phase' \in Phase,
             phase' \in {"nat-on", "nat-off"} => k' = 1 \/ UNCHANGED <<phase, k>>,
             handlers' \in BOOLEAN, running' \in {0, 1},
             asked' \in Phase \cup {"no", "running"}, starts' \in 1 .. MaxStarts,
             root' \in BOOLEAN
      PROVE  LifeInv'
  <2>1. k' \in 1 .. 5
    BY <1>1 DEF LifeInv, TypeOK
  <2>2. TypeOK'
    BY <1>1, <2>1 DEF LifeInv, TypeOK
  <2>3. Kept' /\ Masked'
    BY <1>1, SameRules DEF LifeInv
  <2>. QED  BY <2>2, <2>3 DEF LifeInv
<1>2. ASSUME UNCHANGED <<conf, k, handlers, running, asked, root, rules, before, starts>>,
             phase' \in Phase \ {"nat-on", "nat-off"}
      PROVE  LifeInv'
  BY <1>1, <1>2 DEF LifeInv, TypeOK
<1>3. CASE Daemonize \/ Detach \/ LoopEnds \/ Close \/ Crash
  BY <1>2, <1>3 DEF Daemonize, Detach, LoopEnds, Close, Crash, Phase
<1>4. CASE InstallHandlers \/ Boot
  <2>1. phase' \in Phase \ {"nat-on", "nat-off"}
    BY <1>4 DEF InstallHandlers, Boot, Phase
  <2>2. handlers' \in BOOLEAN
    BY <1>4 DEF InstallHandlers, Boot, LifeInv, TypeOK
  <2>3. running' \in {0, 1}
    BY <1>4 DEF InstallHandlers, Boot, LifeInv, TypeOK
  <2>. QED  BY <1>1, <1>4, <2>1, <2>2, <2>3 DEF InstallHandlers, Boot, LifeInv, TypeOK
<1>5. CASE VpnInit
  BY <1>1, <1>5 DEF VpnInit, LifeInv, TypeOK, Phase
<1>6. CASE DropPrivilege \/ Regain
  <2>1. root' \in {TRUE, FALSE, root}
    <3>1. CASE conf.user
      BY <1>6, <3>1 DEF DropPrivilege, Regain, BackToRoot
    <3>2. CASE ~conf.user
      BY <1>6, <3>2 DEF DropPrivilege, Regain, BackToRoot
    <3>. QED  BY <3>1, <3>2
  <2>2. root' \in BOOLEAN
    BY <2>1 DEF LifeInv, TypeOK
  <2>3. /\ UNCHANGED <<conf, rules, before, handlers, running, asked, starts>>
        /\ k' \in {1, k} /\ phase' \in Phase
        /\ phase' \in {"nat-on", "nat-off"} => k' = 1
    BY <1>6 DEF DropPrivilege, Regain, Phase
  <2>. QED  BY <1>1, <2>2, <2>3 DEF LifeInv, TypeOK
<1>7. CASE NatOn \/ NatOff
  BY <1>7, NatOnStep, NatOffStep
<1>8. CASE Stop
  <2>1. CASE handlers
    <3>1. running' = 0 /\ UNCHANGED <<conf, k, handlers, root, rules, before, starts, phase>>
      BY <1>8, <2>1 DEF Stop, StopRequested
    <3>2. asked' \in Phase \cup {"no", "running"}
      BY <1>8, <2>1 DEF Stop, LifeInv, TypeOK
    <3>. QED  BY <1>1, <3>1, <3>2 DEF LifeInv, TypeOK
  <2>2. CASE ~handlers
    BY <1>2, <1>8, <2>2 DEF Stop, Phase
  <2>. QED  BY <2>1, <2>2
<1>9. CASE Start
  <2>1. starts' \in 1 .. MaxStarts
    BY <1>9, LifecycleAssumption DEF Start, LifeInv, TypeOK
  <2>. QED  BY <1>1, <1>9, <2>1 DEF Start, Phase
<1>10. CASE UNCHANGED vars
  <2>1. Kept' /\ Masked'
    BY <1>10, SameRules DEF vars, LifeInv
  <2>2. TypeOK'
    BY <1>10 DEF vars, LifeInv, TypeOK
  <2>. QED  BY <2>1, <2>2 DEF LifeInv
<1>. QED
  BY <1>3, <1>4, <1>5, <1>6, <1>7, <1>8, <1>9, <1>10 DEF Next, Main

LEMMA LifeInvariant == Spec => []LifeInv
BY LifeInit, LifeStep, PTL DEF Spec

(* The process and the tables keep their types: no rule is ever deleted    *)
(* more often than it is there.                                            *)
THEOREM LifeTyping == Spec => []TypeOK
<1>1. LifeInv => TypeOK
  BY DEF LifeInv
<1>. QED  BY <1>1, LifeInvariant, PTL

(* However often muon is started, stopped or killed, wherever in nat() and *)
(* whichever command or runas fails, it never leaves a rule that forwards  *)
(* its address without one that masks it.                                  *)
THEOREM NatMasked == Spec => []ForwardedMasked
<1>1. LifeInv => ForwardedMasked
  BY DEF LifeInv, Masked, Surplus, ForwardedMasked
<1>. QED  BY <1>1, LifeInvariant, PTL

(* Whatever the administrator's rules are, and whichever command or runas  *)
(* fails: nat(address, 0) takes one of them at most once for each copy of  *)
(* its first rule that it finds, and none where there is no such copy.     *)
THEOREM ForeignSafe == Spec => []ForeignRulesKept
<1>1. LifeInv => ForeignRulesKept
  BY DEF LifeInv, Kept, Taken, ForeignRulesKept
<1>. QED  BY <1>1, LifeInvariant, PTL
=============================================================================
