----------------------------- MODULE ConfigFile ------------------------------
(***************************************************************************)
(* libinst/configfile.c and libini/ini.c: from the lines of up to three    *)
(* files to the address and flags of a named instrument.                   *)
(*                                                                         *)
(* A line is [kind, name, value]: "section" with its name; "attr", name    *)
(* and value; "indented", a value alone after white space; "garbled", with *)
(* a bracket or an equals sign missing.  Comments are left out.            *)
(***************************************************************************)
EXTENDS Integers, Sequences, FiniteSets

CONSTANTS
    NoFile,     \* a file that cannot be opened
    Unset,      \* in place of a file: GPIB_UTILS_CONF is not set
    NULL        \* no table

New == [addr |-> "", reos |-> FALSE]

(* The attributes the reader knows; the rest of these are only shown.      *)
Known == {"address", "flags", "manufacturer", "model", "idn"}

(* parse_cb: the entry is made at the first attribute of a section, a      *)
(* repeated attribute overwrites.                                          *)
Entry(db, section) == IF section \in DOMAIN db THEN db[section] ELSE New
Put(db, section, cfi) ==
    [n \in DOMAIN db \cup {section} |-> IF n = section THEN cfi ELSE db[n]]

Accepts(name, value) == name \in Known /\ (name = "flags" => value \in {"", "reos"})
PutFirst(db, section, name, value) ==                      \* mutant of parse_cb
    CASE section \in DOMAIN db -> db
      [] section \notin DOMAIN db /\ name = "address" -> Put(db, section, [New EXCEPT !.addr = value])
      [] OTHER -> Put(db, section, New)
parse_cb(db, section, name, value) ==
    Put(db, section, CASE name = "address" -> [Entry(db, section) EXCEPT !.addr = value]
                       [] name = "flags" -> [Entry(db, section) EXCEPT !.reos = @ \/ value = "reos"]
                       [] OTHER -> Entry(db, section))

(***************************************************************************)
(* ini_parse_file: the lines in order.  An indented line goes on with the  *)
(* attribute before it, if the section has one; the first error is kept    *)
(* and reading goes on.                                                    *)
(***************************************************************************)
Begun == [section |-> "", prev |-> "", db |-> [n \in {} |-> New], error |-> FALSE]

Handle(ini, name, value) ==
    [ini EXCEPT !.prev = name,
                !.db = parse_cb(@, ini.section, name, value),
                !.error = @ \/ ~Accepts(name, value)]

ReadLine(ini, line) ==
    CASE line.kind = "section" -> [ini EXCEPT !.section = line.name, !.prev = ""]
      [] line.kind = "attr" -> Handle(ini, line.name, line.value)
      [] line.kind = "indented" /\ ini.prev # "" -> Handle(ini, ini.prev, line.value)
      [] OTHER -> [ini EXCEPT !.error = TRUE]

ini_parse_file(file) ==
    LET read[i \in 0 .. Len(file)] ==
            IF i = 0 THEN Begun ELSE ReadLine(read[i - 1], file[i])
    IN read[Len(file)]

(* A file that cannot be opened is an error as well.                       *)
ini_parse(file) ==
    IF file = NoFile THEN [Begun EXCEPT !.error = TRUE] ELSE ini_parse_file(file)

cf_create(file) == LET ini == ini_parse(file) IN IF ini.error THEN NULL ELSE ini.db

(* The first of the three that can be read and has no error: the others    *)
(* are tried also if the variable is set and its file is not good.         *)
cf_create_default(env, home, sys) ==
    LET tables == <<IF env = Unset THEN NULL ELSE cf_create(env), cf_create(home), cf_create(sys)>>
        good == {i \in 1 .. 3 : tables[i] # NULL}
    IN IF good = {} THEN NULL ELSE tables[CHOOSE i \in good : \A j \in good : i <= j]

Configured(cf, name) == name \in DOMAIN cf
cf_lookup(cf, name) == cf[name]

-----------------------------------------------------------------------------
(***************************************************************************)
(* What a file means, without reading it line by line.                     *)
(***************************************************************************)
SectionAt(file, i) ==
    LET heads == {j \in 1 .. i : file[j].kind = "section"}
    IN IF heads = {} THEN 0 ELSE CHOOSE j \in heads : \A k \in heads : k <= j

(* The line whose attribute line i sets or goes on with, 0 if there is none.*)
AttrAt(file, i) ==
    LET attrs == {j \in SectionAt(file, i) + 1 .. i : file[j].kind = "attr"}
    IN IF attrs = {} THEN 0 ELSE CHOOSE j \in attrs : \A k \in attrs : k <= j

Sets(file, i, name) ==
    /\ file[i].kind \in {"attr", "indented"} /\ AttrAt(file, i) # 0
    /\ IF SectionAt(file, i) = 0 THEN name = "" ELSE file[SectionAt(file, i)].name = name
Good(file) ==
    file \notin {NoFile, Unset} /\ \A i \in DOMAIN file :
        \/ file[i].kind = "section"
        \/ /\ file[i].kind \in {"attr", "indented"} /\ AttrAt(file, i) # 0
           /\ Accepts(file[AttrAt(file, i)].name, file[i].value)

Lines(file, name, attr) ==
    {i \in DOMAIN file : Sets(file, i, name) /\ file[AttrAt(file, i)].name = attr}
Means(file, name) ==
    LET a == Lines(file, name, "address") IN
    [addr |-> IF a = {} THEN "" ELSE file[CHOOSE i \in a : \A j \in a : j <= i].value,
     reos |-> \E i \in Lines(file, name, "flags") : file[i].value = "reos"]
=============================================================================
