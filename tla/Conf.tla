-------------------------------- MODULE Conf --------------------------------
(***************************************************************************)
(* Reading the configuration: read_conf, one line of the file per step,    *)
(* and parse_args, which completes and checks what was read (both in       *)
(* src/src/conf.c).                                                        *)
(*                                                                         *)
(* The other modules take their constants from what this one accepts: the  *)
(* number of paths and the port range of each, the mtu, the user; and      *)
(* Startup goes on from it.  The lines tunif, nat and unknown keys store a *)
(* value nothing here depends on and are left out; those which are refused *)
(* for their form are Malformed.                                           *)
(***************************************************************************)
EXTENDS Integers, Sequences

CONSTANTS
  PathMaxCount,  \* PATH_MAX_COUNT, 8
  Port,          \* what atoi may make of a port: 0 if it is no number
  Mtu            \* what atoi may make of an mtu

ASSUME ConfAssumption ==
  PathMaxCount \in Nat \ {0} /\ Port \subseteq Int /\ Mtu \subseteq Int

PayloadMax == 2052   \* PAYLOAD_MAX
DefaultPort == 1205

(* The lines of which only matters whether a text is behind the '='.       *)
Text == {"key", "address", "address6"}

(* Names that fit the first half of conf->user, names that reach into the  *)
(* second, and names of 16 characters and more, which it does not hold.    *)
User == {"none", "short", "long", "overlong"}

VARIABLES
  stage,    \* "reading", then "accepted" or "rejected"
  args,     \* no -d on the command line, or both --pidfile and --logfile
  mode,     \* conf->mode: 0 not set, 1 server, 2 client
  paths,    \* conf->paths: the port range of each server line so far
  user,     \* conf->user; "cut" to 15 characters, "mixed" when bytes of a
            \* port lie over its end
  texts,    \* the fields of Text that are not empty
  route,    \* conf->route
  mtu,      \* conf->mtu, 0 not set
  userLine, \* history: what the last user line said
  early     \* history: a port line came before the first server line

vars == <<stage, args, mode, paths, user, texts, route, mtu, userLine, early>>

-----------------------------------------------------------------------------
Reject == stage' = "rejected" /\ UNCHANGED <<mode, paths, user, mtu, early>>
Keep == stage' = stage

(* Faulty variant: the last server may lack its port.                      *)
ServerRefusedLate == Len(paths) >= PathMaxCount

(* A server line is refused when the array is full, or when the server     *)
(* before it was given no port.                                            *)
ServerRefused ==
  \/ Len(paths) >= PathMaxCount
  \/ Len(paths) # 0 /\ paths[Len(paths)].lo = 0

ServerLine ==
  /\ stage = "reading"
  /\ \/ ServerRefused /\ Reject
     \/ /\ ~ServerRefused /\ Keep
        /\ paths' = Append(paths, [lo |-> 0, hi |-> 0])
        /\ UNCHANGED <<mode, user, mtu, early>>
  /\ UNCHANGED <<args, texts, route, userLine>>

(* Faulty variant: a port range is taken as it is.                         *)
RangeTaken(lo, hi) == TRUE

RangeValid(lo, hi) == lo <= hi

(* conf->paths[-1].port is the second half of conf->user: it changes a     *)
(* name that reaches so far.                                               *)
OverUser == IF user \in {"long", "cut", "mixed"} THEN "mixed" ELSE user

(* Faulty variant: the index of the path is one too low.                   *)
HasTwoServers == Len(paths) > 1

HasServer == paths # <<>>

(* port=lo or port=lo-hi.  The first '-' separates, so lo has no sign.     *)
PortLine(lo, hi) ==
  /\ stage = "reading"
  /\ lo >= 0
  /\ \/ ~RangeValid(lo, hi) /\ Reject
     \/ /\ RangeValid(lo, hi) /\ Keep
        /\ IF HasServer
           THEN /\ paths' = [paths EXCEPT ![Len(paths)] = [lo |-> lo, hi |-> hi]]
                /\ UNCHANGED user
           ELSE user' = OverUser /\ UNCHANGED paths
        /\ early' = (early \/ paths = <<>>)
        /\ UNCHANGED <<mode, mtu>>
  /\ UNCHANGED <<args, texts, route, userLine>>

(* my_strcpy cuts what the field does not hold, without a message.         *)
Stored(u) == IF u = "overlong" THEN "cut" ELSE u

UserLine(u) ==
  /\ stage = "reading"
  /\ user' = Stored(u)
  /\ userLine' = u
  /\ UNCHANGED <<stage, args, mode, paths, texts, route, mtu, early>>

ModeLine(m) ==
  /\ stage = "reading"
  /\ mode' = m
  /\ UNCHANGED <<stage, args, paths, user, texts, route, mtu, userLine, early>>

(* key=, address= and address6=; nothing behind the '=' unsets the field.  *)
TextLine(field, empty) ==
  /\ stage = "reading"
  /\ texts' = IF empty THEN texts \ {field} ELSE texts \cup {field}
  /\ UNCHANGED <<stage, args, mode, paths, user, route, mtu, userLine, early>>

RouteLine(yes) ==
  /\ stage = "reading"
  /\ route' = yes
  /\ UNCHANGED <<stage, args, mode, paths, user, texts, mtu, userLine, early>>

(* Faulty variant: only the lower bound is looked at.                      *)
MtuBigEnough(v) == v >= 1024

MtuValid(v) == v >= 1024 /\ v <= PayloadMax

MtuLine(v) ==
  /\ stage = "reading"
  /\ \/ ~MtuValid(v) /\ Reject
     \/ /\ MtuValid(v) /\ Keep
        /\ mtu' = v
        /\ UNCHANGED <<mode, paths, user, early>>
  /\ UNCHANGED <<args, texts, route, userLine>>

(* No '=', blanks round it, or a value that is none of the words expected. *)
Malformed ==
  /\ stage = "reading"
  /\ Reject
  /\ UNCHANGED <<args, texts, route, userLine>>

-----------------------------------------------------------------------------
Complete ==
  /\ args
  /\ mode # 0
  /\ paths # <<>>
  /\ "key" \in texts
  /\ mtu # 0
  /\ "address" \in texts \/ "address6" \in texts

Defaulted(path) ==
  IF path.lo = 0 THEN [lo |-> DefaultPort, hi |-> DefaultPort] ELSE path

(* The end of the file, and the checks of parse_args.                      *)
Finish ==
  /\ stage = "reading"
  /\ \/ ~Complete /\ Reject
     \/ /\ Complete
        /\ stage' = "accepted"
        /\ paths' = [i \in 1 .. Len(paths) |-> Defaulted(paths[i])]
        /\ UNCHANGED <<mode, user, mtu, early>>
  /\ UNCHANGED <<args, texts, route, userLine>>

Init ==
  /\ stage = "reading"
  /\ args \in BOOLEAN
  /\ mode = 0
  /\ paths = <<>>
  /\ user = "none"
  /\ texts = {}
  /\ route = FALSE
  /\ mtu = 0
  /\ userLine = "none"
  /\ early = FALSE

Next ==
  \/ ServerLine \/ Malformed \/ Finish
  \/ \E lo, hi \in Port : PortLine(lo, hi)
  \/ \E u \in User : UserLine(u)
  \/ \E m \in {1, 2} : ModeLine(m)
  \/ \E field \in Text, empty \in BOOLEAN : TextLine(field, empty)
  \/ \E yes \in BOOLEAN : RouteLine(yes)
  \/ \E v \in Mtu : MtuLine(v)

Spec == Init /\ [][Next]_vars

-----------------------------------------------------------------------------
(* Types of the configuration.                                             *)
TypeOK ==
  /\ stage \in {"reading", "accepted", "rejected"}
  /\ args \in BOOLEAN
  /\ mode \in {0, 1, 2}
  /\ paths \in Seq([lo : Nat, hi : Nat])
  /\ user \in {"none", "short", "long", "cut", "mixed"}
  /\ texts \subseteq Text
  /\ route \in BOOLEAN
  /\ mtu \in 0 .. PayloadMax
  /\ userLine \in User
  /\ early \in BOOLEAN

(* What vpn_init may rely on: whatever the file says and in whatever       *)
(* order, an accepted configuration has a path, no more paths than the     *)
(* array holds, a port range for each that is not negative, and an mtu     *)
(* between the bounds.  These are the assumptions on the constants of Vpn  *)
(* (PathCount, PortRange) and of Encap (the mtus).                         *)
Usable ==
  stage = "accepted" =>
    /\ Len(paths) \in 1 .. PathMaxCount
    /\ \A i \in 1 .. Len(paths) : paths[i].lo > 0 /\ paths[i].lo <= paths[i].hi
    /\ mtu \in 1024 .. PayloadMax

(* Once the next server line is read, the ports of a path are final: no    *)
(* later line, and no default, changes them.                               *)
Settled ==
  [][\A i \in 1 .. Len(paths) - 1 : i \in DOMAIN paths' /\ paths'[i] = paths[i]]_vars

(* muon runs as the user the last user line names, unless a port line      *)
(* came before the first server line or the name has 16 characters or      *)
(* more; no message tells of either.                                       *)
UserKept == user # userLine => early \/ userLine = "overlong"
=============================================================================
