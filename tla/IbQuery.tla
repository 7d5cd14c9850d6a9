------------------------------- MODULE IbQuery -------------------------------
(***************************************************************************)
(* src/ibquery.c: programs that look an instrument up, open it and send it *)
(* what their command line or their shell says.  Composes ConfigFile and   *)
(* InstInit.                                                               *)
(***************************************************************************)
EXTENDS ConfigFile, InstInit, SequencesExt

CONSTANTS
    Files,      \* what may be in the three configuration files
    Name,       \* instruments a user may name
    Argv,       \* commands given as arguments, <<>> for the shell
    Typed,      \* lines typed to the shell
    Asking,     \* words that end with a question mark
    MaxLines    \* bound: lines typed to one shell

ASSUME IbQueryAssumption ==                 \* the files name addresses of Fields
    /\ \A files \in Files : \A i \in 1 .. 3 :  \* lines of text, and NULL is no table
        /\ \/ i = 1 /\ files[i] = Unset
           \/ /\ \/ files[i] = NoFile
                 \/ files[i] \in Seq([kind : STRING, name : STRING, value : STRING])
              /\ files[i] # Unset /\ ini_parse(files[i]).db # NULL
        /\ Good(files[i]) => \A name \in Name :
            (\E j \in DOMAIN files[i] : Sets(files[i], j, name))
                => Means(files[i], name).addr \in DOMAIN Fields
    /\ Argv \cup Typed \subseteq Seq(STRING)

VARIABLES
    at,         \* [Proc -> "exited", "open", "ready", "args", "shell"]
    code,       \* [Proc -> exit code, 128 if killed]
    cfi,        \* [Proc -> the entry of the instrument]
    conf,       \* [Proc -> what it was looked up in, until it is opened]
    argv,       \* [Proc -> arguments from optind on]
    buf,        \* [Proc -> the line in the shell's buffer]
    typed,      \* [Proc -> lines typed so far]
    todo,       \* [Proc -> messages the command in progress still sends]
    owed,       \* [Proc -> messages the user asked for whose turn has not come]
    odd,        \* [Proc -> one was sent that was not asked for]
    lost,       \* [Proc -> one was lost in its turn, the program going on]
    eof         \* [Proc -> the end of the shell's input was passed]

lineVars == <<argv, buf, typed>>
turnVars == <<todo, owed, odd>>
logVars == <<turnVars, lost, eof>>
procVars == <<at, code, cfi, conf>>
vars == <<procVars, lineVars, logVars, instVars>>

Set(v, p, x) == [v EXCEPT ![p] = x]
NoConf == [files |-> <<NoFile, NoFile, NoFile>>, name |-> ""]

Exit(p, n) ==
    /\ at' = Set(at, p, "exited")
    /\ code' = Set(code, p, n)
    /\ cfi' = Set(cfi, p, New)
    /\ conf' = Set(conf, p, NoConf)
    /\ argv' = Set(argv, p, <<>>) /\ buf' = Set(buf, p, <<>>) /\ typed' = Set(typed, p, 0)
    /\ todo' = Set(todo, p, <<>>)
    /\ IF n = 0 THEN UNCHANGED <<owed, odd, lost, eof>>
       ELSE /\ owed' = Set(owed, p, <<>>) /\ odd' = Set(odd, p, FALSE)
            /\ lost' = Set(lost, p, FALSE) /\ eof' = Set(eof, p, FALSE)

-----------------------------------------------------------------------------
(***************************************************************************)
(* main, until there is an instrument.  A run starts with no messages owed.*)
(***************************************************************************)
IbInit ==
    /\ Init
    /\ at = [p \in Proc |-> "exited"] /\ code = [p \in Proc |-> 0]
    /\ cfi = [p \in Proc |-> New] /\ conf = [p \in Proc |-> NoConf]
    /\ argv = [p \in Proc |-> <<>>] /\ buf = [p \in Proc |-> <<>>]
    /\ typed = [p \in Proc |-> 0] /\ todo = [p \in Proc |-> <<>>]
    /\ owed = [p \in Proc |-> <<>>] /\ odd = [p \in Proc |-> FALSE]
    /\ lost = [p \in Proc |-> FALSE] /\ eof = [p \in Proc |-> FALSE]

main(p, files, name) ==
    LET cf == cf_create_default(files[1], files[2], files[3]) IN
    /\ at[p] = "exited"
    /\ cf # NULL /\ Configured(cf, name)
    /\ at' = Set(at, p, "open")
    /\ code' = Set(code, p, 0)
    /\ cfi' = Set(cfi, p, cf_lookup(cf, name))
    /\ conf' = Set(conf, p, [files |-> files, name |-> name])
    /\ owed' = Set(owed, p, <<>>) /\ odd' = Set(odd, p, FALSE)
    /\ lost' = Set(lost, p, FALSE) /\ eof' = Set(eof, p, FALSE)
    /\ open' = Set(open, p, {})
    /\ UNCHANGED <<lineVars, todo, gd, opening, locker, tio>>

not_configured(p, files, name) ==
    LET cf == cf_create_default(files[1], files[2], files[3]) IN
    /\ at[p] = "exited"
    /\ cf = NULL \/ (cf # NULL /\ ~Configured(cf, name))
    /\ Exit(p, 1)
    /\ UNCHANGED instVars

(* inst_init, in one step or in those of a serial line; then the flag.     *)
main_opens(p) ==
    /\ at[p] = "open"
    /\ \/ opening[p] = "no" /\ inst_init(p, cfi[p].addr)
       \/ open_serial(p, cfi[p].addr) \/ lock_serial(p, cfi[p].addr)
       \/ set_serial(p, cfi[p].addr)
    /\ \/ /\ opening'[p] # "no"
          /\ UNCHANGED <<procVars, lineVars, logVars>>
       \/ /\ opening'[p] = "no" /\ gd'[p] # NoInst
          /\ at' = Set(at, p, "ready") /\ conf' = Set(conf, p, NoConf)
          /\ UNCHANGED <<code, cfi, lineVars, logVars>>
       \/ /\ opening'[p] = "no" /\ gd'[p] = NoInst
          /\ Exit(p, 1)

main_opens_fails(p) ==
    /\ at[p] = "open"
    /\ serial_fails(p, cfi[p].addr)
    /\ Exit(p, 1)

-----------------------------------------------------------------------------
(***************************************************************************)
(* command: the messages a command stands for, and how many words it takes.*)
(***************************************************************************)
TakesArg == {"query", "write", "delay", "status"}
Query(text) == <<<<"write", text>>, <<"read", "">>>>

Messages(word, arg) ==
    CASE word = "local" -> <<<<"loc", "">>>>
      [] word = "clear" -> <<<<"clr", "">>>>
      [] word \in {"read", "?"} -> <<<<"read", "">>>>
      [] word = "query" -> Query(arg)
      [] word = "write" -> <<<<"write", arg>>>>
      [] word = "status" -> <<<<"rsp", "">>>>
      [] word \in {"delay", "help"} -> <<>>
      [] OTHER -> IF word \in Asking THEN Query(word) ELSE <<<<"write", word>>>>

CountOne(word) == 1                                        \* mutant of Count
Count(word) == IF word \in TakesArg THEN 2 ELSE 1

Complete(av) == av[1] \in TakesArg => Len(av) >= 2
Sends(av) == IF ~Complete(av) THEN <<>>                    \* says what is missing
             ELSE Messages(av[1], IF av[1] \in TakesArg THEN av[2] ELSE "")

command(p, av) ==
    /\ todo[p] = <<>>
    /\ av[1] = "status" => ~Complete(av)
    /\ todo' = Set(todo, p, Sends(av))

(* status parses optarg, which getopt_long left NULL, not its argument.    *)
status_killed(p) ==
    /\ todo[p] = <<>>
    /\ \/ at[p] = "args" /\ Len(argv[p]) >= 2 /\ argv[p][1] = "status"
       \/ /\ at[p] = "shell" /\ typed[p] < MaxLines
          /\ \E line \in Typed : Len(line) >= 2 /\ line[1] = "status"
    /\ Exit(p, 128)
    /\ Dies(p)

(* A message has its turn.                                                 *)
Turn(p) ==
    /\ todo[p] # <<>>
    /\ todo' = Set(todo, p, Tail(todo[p]))
    /\ IF owed[p] # <<>> /\ Head(owed[p]) = Head(todo[p])
       THEN owed' = Set(owed, p, Tail(owed[p])) /\ odd' = odd
       ELSE odd' = Set(odd, p, TRUE) /\ owed' = owed

(* One message: inst_wrtstr, inst_rdstr, inst_loc, inst_clr.               *)
message(p) == Turn(p) /\ UNCHANGED <<procVars, lineVars, lost, eof, instVars>>

(* What the two return: as much as was transferred before an error, never  *)
(* less than 0, so that a write to a serial line never fails for the       *)
(* program; a read of nothing does.  local and clear do nothing there.  A  *)
(* VXI-11 local or clear that fails leaves the link.                       *)
write_all(len) == 0 .. len
read_all(len) == 0 .. len

CanFail(p, m) ==
    gd[p].contype = "SERIAL" =>
        \/ m[1] = "read" /\ \E count \in read_all(1) : count <= 0
        \/ m[1] = "write" /\ \E count \in write_all(1) : count < 0

(* A write of which the line took only a part, or nothing, and which the   *)
(* program takes for done.                                                 *)
message_lost(p) ==
    /\ Turn(p) /\ Head(todo[p])[1] = "write"
    /\ gd[p].contype = "SERIAL" /\ ~CanFail(p, Head(todo[p]))
    /\ lost' = Set(lost, p, TRUE)
    /\ UNCHANGED <<procVars, lineVars, eof, instVars>>

message_fails(p) ==
    /\ todo[p] # <<>> /\ CanFail(p, Head(todo[p]))
    /\ IF gd[p].contype = "VXI11" /\ Head(todo[p])[1] \in {"loc", "clr"}
       THEN Dies(p) ELSE inst_fini(p)
    /\ Exit(p, 1)

-----------------------------------------------------------------------------
(***************************************************************************)
(* What the user asked for: a word is an argument if the one before it is  *)
(* a command that takes one and no argument itself.                        *)
(***************************************************************************)
IsArg(av) == LET arg[i \in 0 .. Len(av)] == i > 1 /\ ~arg[i - 1] /\ av[i - 1] \in TakesArg
             IN arg
Asked(av) ==
    FlattenSeq([i \in 1 .. Len(av) |->
        CASE IsArg(av)[i] -> <<>>
          [] ~IsArg(av)[i] /\ av[i] \notin TakesArg -> Messages(av[i], "")
          [] ~IsArg(av)[i] /\ av[i] \in TakesArg /\ i < Len(av) -> Messages(av[i], av[i + 1])
          [] OTHER -> <<>>])

(* reos is set; the arguments say what to do, or the shell.                *)
Proceeds(p, av) ==
    /\ at[p] = "ready"
    /\ argv' = Set(argv, p, av)
    /\ owed' = Set(owed, p, Asked(av))
    /\ at' = Set(at, p, IF av = <<>> THEN "shell" ELSE "args")
    /\ IF cfi[p].reos THEN inst_set_reos(p) ELSE UNCHANGED instVars
    /\ UNCHANGED <<code, cfi, conf, buf, typed, todo, odd, lost, eof>>

ArgsLeft(p) == at[p] = "args" /\ argv[p] # <<>> /\ todo[p] = <<>>

next_argument(p) ==
    /\ ArgsLeft(p)
    /\ command(p, argv[p])
    /\ argv' = Set(argv, p, SubSeq(argv[p], Count(argv[p][1]) + 1, Len(argv[p])))
    /\ UNCHANGED <<procVars, buf, typed, owed, odd, lost, eof, instVars>>

(* The shell looks at the first command of a line.                         *)
Prompts(p) == at[p] = "shell" /\ todo[p] = <<>>
Quits(line) == line # <<>> /\ line[1] \in {"quit", "exit"}

xreadline(p, line) ==
    /\ Prompts(p) /\ typed[p] < MaxLines /\ ~Quits(line)
    /\ line # <<>> => command(p, line)
    /\ line = <<>> => UNCHANGED todo
    /\ buf' = Set(buf, p, line)
    /\ typed' = Set(typed, p, typed[p] + 1)
    /\ owed' = Set(owed, p, owed[p] \o
                   (IF line = <<>> THEN <<>>
                    ELSE Asked(SubSeq(line, 1, IF line[1] \in TakesArg /\ Len(line) > 1
                                               THEN 2 ELSE 1))))
    /\ UNCHANGED <<procVars, argv, odd, lost, eof, instVars>>

(* xreadline returned NULL, which nobody looks at: buf is as it was, and   *)
(* its command is carried out once more, and again, until a message fails; *)
(* with nothing in buf the program prompts for ever.  On a terminal more   *)
(* lines may come.                                                         *)
at_eof(p) ==
    /\ Prompts(p) /\ buf[p] # <<>>
    /\ command(p, buf[p])
    /\ eof' = Set(eof, p, TRUE) /\ owed' = Set(owed, p, <<>>)
    /\ UNCHANGED <<procVars, lineVars, odd, lost, instVars>>

main_ends(p) ==
    /\ \/ at[p] = "args" /\ argv[p] = <<>> /\ todo[p] = <<>>
       \/ Prompts(p) /\ \E line \in Typed : Quits(line)
    /\ inst_fini(p)
    /\ Exit(p, 0)

(* cf_list, without a name, changes nothing.                               *)
Program(p) ==
    \/ \E files \in Files, name \in Name : main(p, files, name) \/ not_configured(p, files, name)
    \/ main_opens(p) \/ main_opens_fails(p)
    \/ \E av \in Argv : Proceeds(p, av)
    \/ \E line \in Typed : xreadline(p, line)
    \/ next_argument(p) \/ at_eof(p) \/ status_killed(p)
    \/ message(p) \/ message_lost(p) \/ message_fails(p) \/ main_ends(p)

Next == \E p \in Proc : Program(p)
Spec == IbInit /\ [][Next]_vars

-----------------------------------------------------------------------------
(* man/gpib-utils.conf.5.in: if GPIB_UTILS_CONF names a good file, or is   *)
(* not set, the address and flags a program uses are what that file, or    *)
(* else the first good one of the other two, says of the instrument,       *)
(* however its lines are ordered, repeated or continued.  If it is set and *)
(* its file is not good nothing is said here: the manual has no other file *)
(* used then, and the code tries them.                                     *)
LookupRight ==
    \A p \in Proc : at[p] = "open" =>
        LET files == conf[p].files IN
        files[1] = Unset \/ Good(files[1]) =>
            \E i \in 1 .. 3 :
                /\ Good(files[i]) /\ \A j \in 1 .. i - 1 : ~Good(files[j])
                /\ cfi[p] = Means(files[i], conf[p].name)

(* man/gpib-utils.conf.5.in, ADDRESS FORMAT.                               *)
Documented(f) ==
    CASE f.pad # None -> Gpib(Number(f.board), f.pad, IF f.sad = None THEN 0 ELSE 96 + f.sad)
      [] f.pad = None /\ f.dev \in CharDev -> Serial(f.dev)
      [] OTHER -> Vxi(f.dev)

(* inst_init opens the instrument that the address names.                  *)
OpensWhatItNames ==
    \A p \in Proc : gd[p] # NoInst =>
        gd[p] = Documented(Fields[cfi[p].addr])

(* An address board:pad,sad is opened twice (OpensWhatItNames), and the    *)
(* handle of the first time is forgotten.                                  *)
Forgotten(f) ==
    IF f.board # None /\ f.pad # None /\ f.sad # None
    THEN {Gpib(f.board, f.pad, 96 + f.sad)} ELSE {}

(* It opens what the address names for every other form of address.  The   *)
(* empty one of a section without an address is none, and taken for the    *)
(* number 0.                                                               *)
OpensAsNamed ==
    \A p \in Proc : gd[p] # NoInst =>
        LET f == Fields[cfi[p].addr] IN
        Forgotten(f) = {} /\ ~(f.pad = None /\ f.dev = NoDev) => gd[p] = Documented(f)

(* A program has open what it uses, beside it at most the one handle that  *)
(* inst_init forgets, and nothing once it has ended well.                  *)
Accounted ==
    \A p \in Proc :
        /\ gd[p] # NoInst =>
            /\ gd[p] \in open[p]
            /\ open[p] \subseteq {gd[p]} \cup Forgotten(Fields[cfi[p].addr])
        /\ at[p] = "exited" /\ code[p] = 0 => open[p] = {}

(* Two programs on one serial line: only one uses it, and the settings are *)
(* its own for as long as it does, flow control left on by others excepted.*)
OwnSettings ==
    \A p \in Proc : gd[p].contype = "SERIAL" =>
        LET f == Flags(Fields[cfi[p].addr].sfx)  t == tio[gd[p].dev] IN
        /\ \A q \in Proc \ {p} : gd[q] # gd[p]
        /\ t.line = SubSeq(f, 1, 4)
        /\ f[5] = "X" => t.xonxoff
        /\ f[5] = "H" => t.rtscts
        /\ f[5] = "N" => ~t.xonxoff /\ ~t.rtscts
        /\ at[p] \in {"args", "shell"} => (t.canon <=> cfi[p].reos)

(* man/ibquery.1.in: "performs actions in the order they appear on the     *)
(* command line or as entered into a command prompt": until a shell's      *)
(* input ends, no message goes out that was not asked for, and each when   *)
(* it has its turn; and if no write to a serial line was lost, which the   *)
(* program does not notice, all of them were sent when it ends with 0.     *)
CommandsAsGiven ==
    \A p \in Proc : ~eof[p] =>
        /\ ~odd[p]
        /\ at[p] = "exited" /\ code[p] = 0 /\ ~lost[p] => owed[p] = <<>>
=============================================================================
