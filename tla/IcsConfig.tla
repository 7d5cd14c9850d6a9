------------------------------ MODULE IcsConfig ------------------------------
(***************************************************************************)
(* src/icsconfig.c and libics/ics.c: administrators change and show the    *)
(* configuration of one ICS device, each from a host of its own.           *)
(*                                                                         *)
(* An invocation makes a connection, then one RPC for each attribute it    *)
(* shows or for the one thing it does.  The device is external: it has an  *)
(* active configuration, the one in flash and the factory's, and stores    *)
(* what it is sent as it is; no program asks for the factory's.            *)
(***************************************************************************)
EXTENDS Integers, Sequences, SequencesExt

CONSTANTS
    Admin,      \* bound: administrators, each runs one command at a time
    bigEndian,  \* those of them whose host is big-endian
    Ip,         \* IPv4 addresses: four bytes, as written
    Name,       \* host names
    MaxRuns     \* bound: commands in all

ASSUME IcsConfigAssumption ==
    /\ bigEndian \subseteq Admin /\ MaxRuns \in Nat
    /\ Ip \subseteq [1 .. 4 -> 0 .. 255]

VARIABLES
    mem,        \* [Area -> [Attr -> what is stored on the device]]
    text,       \* [Area -> [Attr -> the VALUE it was given as]]
    proc,       \* [Admin -> the invocation]
    runs

icsVars == <<mem, text, proc, runs>>

Area == {"active", "flash"}

(* ip-netmask and ip-gateway are like ip-address; gpib-ren-enable like     *)
(* gpib-controller; vxi11-interface and the numbers like hostname.         *)
attrs == <<"enable-dhcp", "ip-address", "hostname", "gpib-controller">>
Attr == {attrs[i] : i \in DOMAIN attrs}
Value == [a \in Attr |-> CASE a = "ip-address" -> Ip
                           [] a = "hostname" -> Name
                           [] OTHER -> {"yes", "no"}]

-----------------------------------------------------------------------------
(***************************************************************************)
(* A 32-bit number is the sequence of its bytes, the highest first.        *)
(***************************************************************************)
_reverse(i) == Reverse(i)

(* s_addr has the bytes of the address in the order of the memory.         *)
Loaded(p, bytes) == IF p \in bigEndian THEN bytes ELSE Reverse(bytes)
htonl(p, i) == IF p \in bigEndian THEN i ELSE Reverse(i)

NetworkOrder(p, str) == htonl(p, Loaded(p, str))           \* mutants of _str2ip
HostOrder(p, str) == Loaded(p, str)
_str2ip(p, str) == htonl(p, _reverse(Loaded(p, str)))
_ip2str(p, ip) == Loaded(p, _reverse(htonl(p, ip)))

(* The VALUE of set, as it goes over the wire: enable-dhcp is kept as its  *)
(* opposite, static IP mode.                                               *)
Encode(p, a, value) ==
    CASE a = "ip-address" -> _str2ip(p, value)
      [] a = "enable-dhcp" -> IF value = "yes" THEN 0 ELSE 1
      [] a = "gpib-controller" -> IF value = "yes" THEN 1 ELSE 0
      [] OTHER -> value

(* What get and list print.                                                *)
SameSense(p, a, raw) ==                                    \* mutant of Decode
    CASE a = "ip-address" -> _ip2str(p, raw)
      [] a = "hostname" -> raw
      [] OTHER -> IF raw = 0 THEN "no" ELSE "yes"
Decode(p, a, raw) ==
    CASE a = "ip-address" -> _ip2str(p, raw)
      [] a = "enable-dhcp" -> IF raw = 0 THEN "yes" ELSE "no"
      [] a = "gpib-controller" -> IF raw = 0 THEN "no" ELSE "yes"
      [] OTHER -> raw

-----------------------------------------------------------------------------
(* An invocation: its command, what of it is still to do, whether it still *)
(* has its connection, and what it printed last.                           *)
NoProc == [cmd |-> "none", todo |-> <<>>, value |-> "none", conn |-> FALSE,
           said |-> "nothing", shown |-> "none"]

IcsInit ==
    /\ \E dhcp, ctl \in {"yes", "no"}, ip \in Ip, name \in Name :
        text = [area \in Area |->
                  [a \in Attr |-> CASE a = "enable-dhcp" -> dhcp [] a = "ip-address" -> ip
                                     [] a = "hostname" -> name [] OTHER -> ctl]]
    /\ \E p \in Admin :
        mem = [area \in Area |-> [a \in Attr |-> Encode(p, a, text[area][a])]]
    /\ proc = [p \in Admin |-> NoProc]
    /\ runs = 0

(* The arguments are understood and ics_init connects; its failure and a   *)
(* usage error leave nothing behind.                                       *)
Starts(p, cmd, todo, value) ==
    /\ proc[p].todo = <<>> /\ runs < MaxRuns
    /\ runs' = runs + 1
    /\ proc' = [proc EXCEPT ![p] = [cmd |-> cmd, todo |-> todo, value |-> value,
                                    conn |-> TRUE, said |-> "nothing", shown |-> "none"]]
    /\ UNCHANGED <<mem, text>>

_list(p) == Starts(p, "get", attrs, "none")
_get(p, a) == Starts(p, "get", <<a>>, "none")
_set(p, a, value) == Starts(p, "set", <<a>>, value)

(* The procedure each of the other commands calls.  factory calls reload's,*)
(* and none calls ics_reload_factory.                                      *)
CommitReloads ==                                           \* mutant of Procedure
    [reload |-> "reload_config", factory |-> "reload_config",
     commit |-> "reload_config", reboot |-> "reboot"]
Procedure ==
    [reload |-> "reload_config", factory |-> "reload_config",
     commit |-> "commit_config", reboot |-> "reboot"]

_run(p, cmd) == Starts(p, cmd, <<Procedure[cmd]>>, "none")

(* The next request of an invocation.                                      *)
Asks(p, cmd) == proc[p].cmd = cmd /\ proc[p].todo # <<>>

Prints(p, said) == [proc EXCEPT ![p].todo = Tail(@), ![p].said = said]

(* Reading an attribute.                                                   *)
ics_get(p) ==
    /\ Asks(p, "get") /\ proc[p].conn
    /\ LET a == Head(proc[p].todo) IN
        proc' = [Prints(p, "get") EXCEPT ![p].shown = Decode(p, a, mem["active"][a])]
    /\ UNCHANGED <<mem, text, runs>>

(* What the caller makes of r: NULL is ICS_ERROR_CLNT.                     *)
NullIsDone(answered, done) == done                         \* mutant of Report
Report(answered, done) == IF answered THEN done ELSE "rpc error"

(* Writing one; the answer may be lost.                                    *)
ics_set(p) ==
    /\ Asks(p, "set") /\ proc[p].conn
    /\ LET a == Head(proc[p].todo)  v == proc[p].value IN
        /\ mem' = [mem EXCEPT !["active"][a] = Encode(p, a, v)]
        /\ text' = [text EXCEPT !["active"][a] = v]
    /\ \E answered \in BOOLEAN : proc' = Prints(p, Report(answered, "set"))
    /\ UNCHANGED runs

Copy(from, to) ==
    /\ mem' = [mem EXCEPT ![to] = mem[from]]
    /\ text' = [text EXCEPT ![to] = text[from]]

ics_reload_config(p) ==
    /\ proc[p].conn /\ proc[p].todo = <<"reload_config">>
    /\ Copy("flash", "active")
    /\ \E answered \in BOOLEAN : proc' = Prints(p, Report(answered, proc[p].cmd))
    /\ UNCHANGED runs

ics_commit_config(p) ==
    /\ proc[p].conn /\ proc[p].todo = <<"commit_config">>
    /\ Copy("active", "flash")
    /\ \E answered \in BOOLEAN : proc' = Prints(p, Report(answered, proc[p].cmd))
    /\ UNCHANGED runs

(* Every connection goes, the caller's once it was answered.               *)
ics_reboot(p) ==
    /\ proc[p].conn /\ proc[p].todo = <<"reboot">>
    /\ Copy("flash", "active")
    /\ \E answered \in BOOLEAN :
        proc' = [q \in Admin |-> [Prints(p, Report(answered, "reboot"))[q] EXCEPT !.conn = FALSE]]
    /\ UNCHANGED runs

(* The device says no.                                                     *)
DeviceRefuses(p) ==
    /\ proc[p].conn /\ proc[p].todo # <<>>
    /\ proc' = Prints(p, "ics error")
    /\ UNCHANGED <<mem, text, runs>>

(* The request is lost, or the connection is gone.                         *)
Unanswered(p) ==
    /\ proc[p].todo # <<>>
    /\ proc' = Prints(p, Report(FALSE, proc[p].cmd))
    /\ UNCHANGED <<mem, text, runs>>

Over == runs = MaxRuns /\ (\A p \in Admin : proc[p].todo = <<>>) /\ UNCHANGED icsVars

IcsNext ==
    \/ \E p \in Admin :
        \/ _list(p)
        \/ \E a \in Attr : _get(p, a) \/ \E v \in Value[a] : _set(p, a, v)
        \/ \E cmd \in DOMAIN Procedure : _run(p, cmd)
        \/ ics_get(p) \/ ics_set(p) \/ ics_reload_config(p)
        \/ ics_commit_config(p) \/ ics_reboot(p)
        \/ DeviceRefuses(p) \/ Unanswered(p)
    \/ Over

IcsSpec == IcsInit /\ [][IcsNext]_icsVars

-----------------------------------------------------------------------------
Errors == {"rpc error", "ics error"}

(* A request of p ends, and not with an error message.                     *)
Succeeds(p) ==
    /\ proc[p].todo # <<>> /\ proc'[p].todo = Tail(proc[p].todo)
    /\ proc'[p].said \notin Errors

(* get and list show what the attribute was last set to, reloaded or       *)
(* rebooted to, by whomever and from whatever kind of host: the numbers on *)
(* the wire do not depend on the byte order of the host, and each sense    *)
(* that is turned around for set is turned back for get.                   *)
ShownIsActive ==
    [][\A p \in Admin : Succeeds(p) /\ proc[p].cmd = "get" =>
         proc'[p].shown = text["active"][Head(proc[p].todo)]]_icsVars

(* What set, reload, commit and reboot report as done the device did, and  *)
(* did then: a lost answer is never taken for one.  A success of factory   *)
(* is one of reload and leaves the flash alone, although its message says  *)
(* that the flash was reloaded with factory defaults.                      *)
SuccessIsTrue ==
    [][\A p \in Admin : Succeeds(p) =>
         CASE proc[p].cmd = "set" ->
                text'["active"][Head(proc[p].todo)] = proc[p].value
           [] proc[p].cmd = "commit" -> text'["flash"] = text["active"]
           [] proc[p].cmd \in {"reload", "factory", "reboot"} ->
                text'["active"] = text["flash"] /\ text'["flash"] = text["flash"]
           [] OTHER -> TRUE]_icsVars
=============================================================================
