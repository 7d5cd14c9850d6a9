------------------------------- MODULE InstInit ------------------------------
(***************************************************************************)
(* libinst/inst.c: from an address to an open instrument and back, for     *)
(* several programs that may name the same serial line.  An address is     *)
(* known by what the scanners of inst_init find in it (Fields):            *)
(*   board, pad, sad   the numbers of board:pad,sad, None where missing    *)
(*   dev, colon        the name before the colon, and whether there is one *)
(*   sfx               what sscanf gets from the flags behind the colon    *)
(* VXI-11 links are those of Vxi11Device, here they open or fail.          *)
(***************************************************************************)
EXTENDS Integers, Sequences, FiniteSets

CONSTANTS
    Proc,       \* programs
    Fields,     \* addresses, and what is found in each
    CharDev,    \* character devices
    Tty,        \* those that are terminals
    None,       \* a number that is not there
    NoDev, NoProc

ASSUME InstInitAssumption ==
    /\ Tty \subseteq CharDev /\ NoDev \notin CharDev
    /\ NoProc \notin Proc /\ None \notin Nat
    /\ \A a \in DOMAIN Fields :              \* numbers, or a name and what is behind it
        LET f == Fields[a] IN f.pad # None => f.dev = NoDev /\ ~f.colon

VARIABLES
    gd,         \* [Proc -> the instrument the program has, or NoInst]
    opening,    \* [Proc -> where _init_serial is: "no", "lock", "set"]
    open,       \* [Proc -> instruments the program has open]
    locker,     \* [Tty -> who has the lock]
    tio         \* [Tty -> terminal settings]

instVars == <<gd, opening, open, locker, tio>>

Inst(contype, board, pad, sad, dev) ==
    [contype |-> contype, board |-> board, pad |-> pad, sad |-> sad, dev |-> dev]
NoInst == Inst("none", 0, 0, 0, NoDev)

(* linux-gpib wants a secondary address as 0x60 + sad, and 0 for none.     *)
Gpib(board, pad, sad) == Inst("GPIB", board, pad, sad, NoDev)
Serial(dev) == Inst("SERIAL", 0, 0, 0, dev)
Vxi(dev) == Inst("VXI11", 0, 0, 0, dev)

-----------------------------------------------------------------------------
(***************************************************************************)
(* inst_init: the tests in the order of the code.  The first is not part   *)
(* of the chain: board:pad,sad passes the second as well.                  *)
(***************************************************************************)
BoardPad(f) == f.board # None /\ f.pad # None
PadSad(f) == f.board = None /\ f.pad # None /\ f.sad # None
NumberFirst(f) == f.board = None /\ f.dev = NoDev          \* mutant of OnlyNumber
OnlyNumber(f) == f.board = None /\ f.sad = None /\ f.dev = NoDev
Number(n) == IF n = None THEN 0 ELSE n                     \* strtoul

BoardPadSad(f) ==
    IF BoardPad(f) /\ f.sad # None THEN <<Gpib(f.board, f.pad, 96 + f.sad)>> ELSE <<>>

Secondary(f) == <<Gpib(0, f.pad, 96 + f.sad)>>

Chain(f) ==
    CASE BoardPad(f) -> <<Gpib(f.board, f.pad, 0)>>
      [] ~BoardPad(f) /\ OnlyNumber(f) -> <<Gpib(0, Number(f.pad), 0)>>
      [] ~BoardPad(f) /\ ~OnlyNumber(f) /\ PadSad(f) -> Secondary(f)
      [] f.dev \in CharDev -> <<Serial(f.dev)>>
      [] f.dev \notin CharDev /\ f.colon /\ Len(f.sfx) # 1 -> <<Vxi(f.dev)>>
      [] OTHER -> <<>>          \* host:port is not supported, the rest unknown

Opens(a) == BoardPadSad(Fields[a]) \o Chain(Fields[a])

NewInst(p, inst) == gd' = [gd EXCEPT ![p] = inst]

(* _init_gpib and _init_vxi, each of which may fail; what the last one     *)
(* made is returned.                                                       *)
inst_init(p, a) ==
    /\ Opens(a) = <<>> \/ \A i \in DOMAIN Opens(a) : Opens(a)[i].contype # "SERIAL"
    /\ \E ok \in [DOMAIN Opens(a) -> BOOLEAN] :
        /\ open' = [open EXCEPT ![p] = {Opens(a)[i] : i \in {j \in DOMAIN ok : ok[j]}}]
        /\ NewInst(p, IF Opens(a) # <<>> /\ ok[Len(Opens(a))]
                      THEN Opens(a)[Len(Opens(a))] ELSE NoInst)
    /\ UNCHANGED <<opening, locker, tio>>

(***************************************************************************)
(* _init_serial: open, lock, then read the settings, change and set them.  *)
(***************************************************************************)
IsSerial(a) == Fields[a].board = None /\ Fields[a].pad = None /\ Fields[a].dev \in CharDev

open_serial(p, a) ==
    /\ IsSerial(a) /\ opening[p] = "no"
    /\ Fields[a].dev \in Tty
    /\ open' = [open EXCEPT ![p] = {Serial(Fields[a].dev)}]
    /\ opening' = [opening EXCEPT ![p] = "lock"]
    /\ UNCHANGED <<gd, locker, tio>>

Unlocked(dev) == TRUE                                      \* mutant of MayLock
MayLock(dev) == locker[dev] = NoProc

lock_serial(p, a) ==
    /\ opening[p] = "lock" /\ MayLock(Fields[a].dev)
    /\ locker' = [locker EXCEPT ![Fields[a].dev] = p]
    /\ opening' = [opening EXCEPT ![p] = "set"]
    /\ UNCHANGED <<gd, open, tio>>

(* What sscanf did not match stays as the defaults have it.                *)
Default == <<9600, 8, "N", 1, "N">>
Flags(sfx) == [i \in 1 .. 5 |-> IF i <= Len(sfx) THEN sfx[i] ELSE Default[i]]
baudmap == {300, 1200, 2400, 4800, 9600, 19200, 38400, 57600, 115200, 230400, 460800}
Valid(f) ==
    /\ f[1] \in baudmap /\ f[2] \in {7, 8} /\ f[3] \in {"N", "E", "O"}
    /\ f[4] \in {1, 2} /\ f[5] \in {"N", "X", "H"}

(* Neither kind of flow control turns the other off.                       *)
Settings(t, f) ==
    [line |-> SubSeq(f, 1, 4),
     xonxoff |-> f[5] = "X" \/ (f[5] = "H" /\ t.xonxoff),
     rtscts |-> f[5] = "H" \/ (f[5] = "X" /\ t.rtscts),
     canon |-> FALSE]

set_serial(p, a) ==
    LET dev == Fields[a].dev  f == Flags(Fields[a].sfx) IN
    /\ opening[p] = "set" /\ Valid(f)
    /\ tio' = [tio EXCEPT ![dev] = Settings(@, f)]
    /\ NewInst(p, Serial(dev))
    /\ opening' = [opening EXCEPT ![p] = "no"]
    /\ UNCHANGED <<open, locker>>

(* close gives the lock back, whoever has it open.                         *)
Unlock(p) == locker' = [dev \in Tty |-> IF locker[dev] = p THEN NoProc ELSE locker[dev]]

serial_fails(p, a) ==
    /\ \/ IsSerial(a) /\ opening[p] = "no"       \* cannot be opened, or is no terminal
       \/ opening[p] = "lock" /\ locker[Fields[a].dev] # NoProc
       \/ opening[p] = "set"                    \* the flags, tcgetattr or tcsetattr
    /\ open' = [open EXCEPT ![p] = {}]
    /\ opening' = [opening EXCEPT ![p] = "no"]
    /\ Unlock(p)
    /\ UNCHANGED <<gd, tio>>

-----------------------------------------------------------------------------
(* A serial line becomes canonical; termChrSet and REOS of the others are  *)
(* seen by the instrument's driver only.                                   *)
_canon_serial(dev) == [tio EXCEPT ![dev].canon = TRUE]
inst_set_reos(p) ==
    /\ tio' = IF gd[p].contype = "SERIAL" THEN _canon_serial(gd[p].dev) ELSE tio
    /\ UNCHANGED <<gd, opening, open, locker>>

(* What the program closes, and what the kernel closes when it ends: not   *)
(* the link that a VXI-11 server keeps.                                    *)
Kept(p, inst) == {i \in open[p] : i.contype = "VXI11"}     \* mutant of Closed
Closed(p, inst) == open[p] \ {inst}

Forget(p) ==
    /\ NewInst(p, NoInst)
    /\ opening' = [opening EXCEPT ![p] = "no"]
    /\ Unlock(p)
    /\ UNCHANGED tio

inst_fini(p) ==
    /\ open' = [open EXCEPT ![p] = {i \in Closed(p, gd[p]) : i.contype = "VXI11"}]
    /\ Forget(p)

Dies(p) ==
    /\ open' = [open EXCEPT ![p] = {i \in @ : i.contype = "VXI11"}]
    /\ Forget(p)

Init ==
    /\ gd = [p \in Proc |-> NoInst]
    /\ opening = [p \in Proc |-> "no"]
    /\ open = [p \in Proc |-> {}]
    /\ locker = [dev \in Tty |-> NoProc]
    /\ tio \in [Tty -> {Settings([xonxoff |-> FALSE, rtscts |-> FALSE], Default)}]

=============================================================================
