----------------------------- MODULE Lifecycle -----------------------------
(***************************************************************************)
(* The life of a muon process: main (src/src/main.c), daemonize, runas and *)
(* nat (src/src/utils.c), vpn_init, vpn_run and vpn_stop (src/src/vpn.c).  *)
(*                                                                         *)
(* What happens to the packets while the process runs is module Vpn; here  *)
(* are the startup and the way out, the signals that may come in between,  *)
(* and what a process leaves behind on the host: its NAT rules survive it. *)
(* A Linux host; parse_args has accepted the configuration.                *)
(***************************************************************************)
EXTENDS Integers, Sequences

CONSTANTS
  Foreign,       \* bound: copies of a rule the administrator put there
  CommandsFail,  \* iptables may fail even if called rightly
  MaxStarts      \* bound: how often the process is started

ASSUME LifecycleAssumption ==
  Foreign \in Nat /\ CommandsFail \in BOOLEAN /\ MaxStarts \in Nat \ {0}

Config == [daemon : BOOLEAN, nat : BOOLEAN, user : BOOLEAN, address : BOOLEAN]

(* Faulty variant: the rules that forward come before the one that masks.  *)
AddedForwardFirst ==
  <<"forward-from", "forward-to", "masquerade", "mss-from", "mss-to">>

(* The iptables rules nat() appends, in order, and those it deletes.  The  *)
(* MASQUERADE rule is deleted by other words than it was added.            *)
Added == <<"masquerade", "forward-from", "forward-to", "mss-from", "mss-to">>

(* Faulty variant: every rule is deleted by the words that added it, but   *)
(* still whether or not this process has added it.                         *)
DeletedAsAdded == Added

Deleted == <<"masquerade-outside", "forward-from", "forward-to", "mss-from", "mss-to">>

Rule == {"masquerade", "masquerade-outside", "forward-from", "forward-to",
         "mss-from", "mss-to"}

VARIABLES
  conf,     \* the configuration of this start
  phase,    \* where main stands
  k,        \* the next iptables command of nat()
  handlers, \* main has installed signal_cb
  running,  \* ctx.running
  asked,    \* history: when a stop signal reached signal_cb
  root,     \* the effective user is root
  rules,    \* host: how many copies of each rule are in the tables
  before,   \* history: rules before muon first started
  starts    \* how many times the process was started

vars == <<conf, phase, k, handlers, running, asked, root, rules, before, starts>>

Phase == {"daemonize", "detach", "signals", "init", "nat-on", "drop", "boot",
          "loop", "regain", "nat-off", "close", "exited", "failed", "killed"}
Gone == {"exited", "failed", "killed"}

(* main moves on and nothing else changes but what the step names.         *)
Goto(from, to) == phase = from /\ phase' = to

-----------------------------------------------------------------------------
(* Startup.                                                                *)

(* daemonize: the fork, which may fail.  The parent writes the pidfile and *)
(* exits with success at once.                                             *)
Daemonize ==
  /\ \/ ~conf.daemon /\ Goto("daemonize", "signals")
     \/ conf.daemon /\ Goto("daemonize", "detach")
     \/ conf.daemon /\ Goto("daemonize", "failed")
  /\ UNCHANGED <<conf, k, handlers, running, asked, root, rules, before, starts>>

(* The child: setsid and freopen of the log file, which may fail.          *)
Detach ==
  /\ Goto("detach", "signals") \/ Goto("detach", "failed")
  /\ UNCHANGED <<conf, k, handlers, running, asked, root, rules, before, starts>>

InstallHandlers ==
  /\ Goto("signals", "init")
  /\ handlers' = TRUE
  /\ UNCHANGED <<conf, k, running, asked, root, rules, before, starts>>

(* vpn_init up to nat(): ctx is cleared; the crypto library and the tun    *)
(* device may fail; ifconfig and route may too, which is only logged.      *)
VpnInit ==
  /\ \/ Goto("init", "failed")
     \/ Goto("init", IF conf.nat /\ conf.address THEN "nat-on" ELSE "drop")
  /\ running' = 0
  /\ k' = 1
  /\ UNCHANGED <<conf, handlers, asked, root, rules, before, starts>>

(* The end of vpn_init: drop root privilege; a failure is only logged.     *)
DropPrivilege ==
  /\ Goto("drop", "boot")
  /\ root' \in IF conf.user THEN {FALSE, root} ELSE {root}
  /\ UNCHANGED <<conf, k, handlers, running, asked, rules, before, starts>>

(* vpn_run starts the coroutines and sets ctx.running.                     *)
Boot ==
  /\ Goto("boot", "loop")
  /\ running' = 1
  /\ UNCHANGED <<conf, k, handlers, asked, root, rules, before, starts>>

-----------------------------------------------------------------------------
(* The iptables commands: the macro shell returns from nat() at the first  *)
(* one that fails.  A command does fail without privilege or an address,   *)
(* and so does deleting a rule that is not there.                          *)

NatOn ==
  /\ phase = "nat-on"
  /\ \/ /\ root
        /\ rules' = [rules EXCEPT ![Added[k]] = @ + 1]
        /\ IF k < 5 THEN k' = k + 1 /\ phase' = phase ELSE k' = 1 /\ phase' = "drop"
     \/ /\ CommandsFail \/ ~root
        /\ k' = 1
        /\ phase' = "drop"
        /\ UNCHANGED rules
  /\ UNCHANGED <<conf, handlers, running, asked, root, before, starts>>

(* Faulty variant: deleting a rule succeeds even if it is not there.       *)
DeletableBlind(r) == root /\ conf.address

Deletable(r) == root /\ conf.address /\ rules[r] > 0

NatOff ==
  /\ phase = "nat-off"
  /\ \/ /\ Deletable(Deleted[k])
        /\ rules' = [rules EXCEPT ![Deleted[k]] = @ - 1]
        /\ IF k < 5 THEN k' = k + 1 /\ phase' = phase ELSE k' = 1 /\ phase' = "close"
     \/ /\ CommandsFail \/ ~Deletable(Deleted[k])
        /\ k' = 1
        /\ phase' = "close"
        /\ UNCHANGED rules
  /\ UNCHANGED <<conf, handlers, running, asked, root, before, starts>>

-----------------------------------------------------------------------------
(* The way out.                                                            *)

(* Faulty variant: a second signal takes back the first.                   *)
StopToggles == running' = 1 - running

(* vpn_stop.                                                               *)
StopRequested == running' = 0

(* A stop signal: the default action before main installs signal_cb, then  *)
(* vpn_stop.                                                               *)
Stop ==
  /\ phase \notin Gone
  /\ IF handlers
     THEN /\ StopRequested
          /\ asked' = IF asked # "no" THEN asked
                      ELSE IF phase = "loop" THEN "running" ELSE phase
          /\ UNCHANGED phase
     ELSE /\ phase' = "killed"
          /\ UNCHANGED <<running, asked>>
  /\ UNCHANGED <<conf, k, handlers, root, rules, before, starts>>

(* The loop of vpn_run looks at ctx.running every 50 ms.                   *)
LoopEnds ==
  /\ running = 0
  /\ Goto("loop", IF conf.nat THEN "regain" ELSE "close")
  /\ UNCHANGED <<conf, k, handlers, running, asked, root, rules, before, starts>>

(* runas("root") may fail, and does nothing at all where getpwnam finds no *)
(* such user: that is only logged, and nat(address, 0) is called anyway.   *)
BackToRoot == root' \in IF conf.user THEN {TRUE, root} ELSE {root}

Regain ==
  /\ Goto("regain", "nat-off")
  /\ BackToRoot
  /\ k' = 1
  /\ UNCHANGED <<conf, handlers, running, asked, rules, before, starts>>

Close ==
  /\ Goto("close", "exited")
  /\ UNCHANGED <<conf, k, handlers, running, asked, root, rules, before, starts>>

(* SIGKILL, a failed assertion, the machine's memory: at any time.         *)
Crash ==
  /\ phase \notin Gone
  /\ phase' = "killed"
  /\ UNCHANGED <<conf, k, handlers, running, asked, root, rules, before, starts>>

(* The administrator, or systemd, starts muon again.                       *)
Start ==
  /\ phase \in Gone
  /\ starts < MaxStarts
  /\ starts' = starts + 1
  /\ phase' = "daemonize"
  /\ k' = 1
  /\ handlers' = FALSE
  /\ running' = 0
  /\ asked' = "no"
  /\ root' = TRUE
  /\ UNCHANGED <<conf, rules, before>>

-----------------------------------------------------------------------------
Init ==
  /\ conf \in Config
  /\ phase = "daemonize"
  /\ k = 1
  /\ handlers = FALSE
  /\ running = 0
  /\ asked = "no"
  /\ root = TRUE
  /\ before \in [Rule -> 0 .. Foreign]
  /\ rules = before
  /\ starts = 1

Main ==
  \/ Daemonize \/ Detach \/ InstallHandlers \/ VpnInit \/ NatOn \/ DropPrivilege
  \/ Boot \/ LoopEnds \/ Regain \/ NatOff \/ Close

Next == Main \/ Stop \/ Crash \/ Start

(* main runs on, and the commands it waits for end; nothing is asked of    *)
(* who sends signals or starts the process.                                *)
Spec == Init /\ [][Next]_vars /\ WF_vars(Main)

-----------------------------------------------------------------------------
(* Types of the process and of the rule tables.                            *)
TypeOK ==
  /\ conf \in Config
  /\ phase \in Phase
  /\ k \in 1 .. 5
  /\ handlers \in BOOLEAN
  /\ running \in {0, 1}
  /\ asked \in Phase \cup {"no", "running"}
  /\ root \in BOOLEAN
  /\ rules \in [Rule -> Nat]
  /\ before \in [Rule -> 0 .. Foreign]
  /\ starts \in 1 .. MaxStarts

(* Whatever fails or is killed half way through nat(), muon never leaves   *)
(* the address forwarded without masking it: no rule has more copies beyond*)
(* the administrator's than MASQUERADE has, which nat() adds first and     *)
(* never deletes.                                                          *)
ForwardedMasked ==
  \A r \in Rule : rules[r] - before[r] <= rules["masquerade"] - before["masquerade"]

(* nat(address, 0) deletes whether or not this process has added: what it  *)
(* first asks for is the administrator's alone, and only together with a   *)
(* copy of that does another of the administrator's rules go.  Without     *)
(* that rule on the host none is ever taken, whichever commands failed.    *)
ForeignRulesKept ==
  LET taken == before["masquerade-outside"] - rules["masquerade-outside"] IN
  \A r \in Rule : rules[r] >= before[r] - taken

(* A stop signal that finds the loop of vpn_run running ends the process.  *)
StopWhileRunning == (asked = "running") ~> (phase \in Gone)

(* Every stop signal that reaches vpn_stop ends the process: what the      *)
(* KillSignal of the systemd unit relies on.                               *)
StopHonoured == (asked # "no") ~> (phase \in Gone)

(* A muon that exits as root has turned NAT off again (the comment "turn   *)
(* off nat" in vpn_run): the tables are as it found them.                  *)
NatUndone == phase = "exited" /\ starts = 1 /\ root => rules = before
=============================================================================
