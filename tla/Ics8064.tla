------------------------------- MODULE Ics8064 -------------------------------
(***************************************************************************)
(* src/ics8064.c: programs that open and close the relays of one ICS 8064, *)
(* each with a VXI-11 link of its own and none with a lock.  In radio mode *)
(* a relay is closed with two messages: open all, close this one.          *)
(*                                                                         *)
(* The device is external.  It takes one message at a time, of whichever   *)
(* program; keeps an error until ESR is read; shows it in the status byte  *)
(* once *ESE has told it to; and can lose power.                           *)
(***************************************************************************)
EXTENDS Integers, Sequences, FiniteSets, SequencesExt

CONSTANTS
    Proc,       \* programs, each run again and again
    List        \* relay lists users may type

ASSUME Ics8064Assumption ==
    List \subseteq Seq(Nat) \ {<<>>} /\ IsFiniteSet(Proc) /\ Proc # {}

VARIABLES
    radio,      \* programs started with --radio
    exit_val,
    at,         \* where a program is: "exited", "options", "send", "poll", "esr"
    todo,       \* messages the option in progress still sends
    owed,       \* what it was asked to open and close and has not yet
    closed,     \* the relays that are closed
    esr, ese,   \* the device has an error; *ESE lets it into the status byte
    swept       \* all relays were opened at some time

progVars == <<radio, exit_val, at, todo, owed>>
deviceVars == <<closed, esr, ese, swept>>
vars == <<progVars, deviceVars>>

Relay == 1 .. 16
Named == Relay \cap UNION {ToSet(list) : list \in List}

Init ==
    /\ radio \in SUBSET Proc
    /\ exit_val = [p \in Proc |-> 0]
    /\ at = [p \in Proc |-> "exited"]
    /\ todo = [p \in Proc |-> <<>>]
    /\ owed = [p \in Proc |-> {}]
    /\ closed \in SUBSET Named
    /\ esr = FALSE /\ ese \in BOOLEAN /\ swept = FALSE

-----------------------------------------------------------------------------
(***************************************************************************)
(* What an option or a shell command sends.                                *)
(***************************************************************************)
Msg(what, r) == [what |-> what, r |-> r]

(* A radio button for every relay of the list, the last one stays.         *)
RadioList(list) ==                                         \* mutant of RadioButtons
    <<Msg("OPEN:ALL", 0)>> \o [i \in DOMAIN list |-> Msg("CLOSE", list[i])]
RadioButtons(list) ==
    [k \in 1 .. 2 * Len(list) |->
        IF k % 2 = 1 THEN Msg("OPEN:ALL", 0) ELSE Msg("CLOSE", list[k \div 2])]

_close_relays(p, list) ==
    IF p \in radio THEN RadioButtons(list) ELSE [i \in DOMAIN list |-> Msg("CLOSE", list[i])]
_open_relays(list) == [i \in DOMAIN list |-> Msg("OPEN", list[i])]

ValidTarget(n) == n >= 1 /\ n <= 16
_validate_targets(list) == \A i \in DOMAIN list : ValidTarget(list[i])

-----------------------------------------------------------------------------
(***************************************************************************)
(* The program: options in any order; the shell has some of them.          *)
(***************************************************************************)
main(p) ==
    /\ at[p] = "exited"
    /\ at' = [at EXCEPT ![p] = "options"]
    /\ exit_val' = [exit_val EXCEPT ![p] = 0]
    /\ owed' = [owed EXCEPT ![p] = {}]
    /\ UNCHANGED <<radio, todo, deviceVars>>

Command(p, messages) ==
    /\ at[p] = "options"
    /\ at' = [at EXCEPT ![p] = "send"]
    /\ todo' = [todo EXCEPT ![p] = messages]
    /\ UNCHANGED <<radio, exit_val, deviceVars>>

Refused == <<"LIST", 0>>

Moves(p, what, list) == Command(p, IF what = "OPEN" THEN _open_relays(list)
                                                    ELSE _close_relays(p, list))

(* --open and --close, open and close of the shell.                        *)
open_close(p, what, list) ==
    /\ _validate_targets(list)
    /\ Moves(p, what, list)
    /\ owed' = [owed EXCEPT ![p] = @ \cup {<<what, list[i]>> : i \in DOMAIN list}]

(* A list with a number that is no relay: nothing of it is sent.  Only an  *)
(* option sets exit_val, the shell asks again.                             *)
Forgotten(p) == UNCHANGED exit_val                         \* mutant of Refuse
Refuse(p) == exit_val' = [exit_val EXCEPT ![p] = 1]

targets_refused(p, list, inShell) ==
    /\ at[p] = "options"
    /\ ~_validate_targets(list)
    /\ \/ ~inShell /\ Refuse(p) /\ owed' = [owed EXCEPT ![p] = @ \cup {Refused}]
       \/ inShell /\ UNCHANGED <<exit_val, owed>>
    /\ UNCHANGED <<radio, at, todo, deviceVars>>

_clear(p) ==
    /\ Command(p, <<Msg("CLR", 0), Msg("*RST", 0), Msg("*ESE", 0)>>)
    /\ UNCHANGED owed

(* _get_idn, _query_relays, _query_digital, _selftest: ask, read; inst_loc *)
(* has nothing to send or read, but is polled after as well.               *)
query(p) == Command(p, <<Msg("ASK", 0), Msg("READ", 0)>>) /\ UNCHANGED owed
inst_loc(p) == Command(p, <<Msg("LOC", 0)>>) /\ UNCHANGED owed

inst_fini(p) ==
    /\ at[p] = "options"
    /\ at' = [at EXCEPT ![p] = "exited"]
    /\ UNCHANGED <<radio, exit_val, todo, owed, deviceVars>>

-----------------------------------------------------------------------------
(***************************************************************************)
(* The operation in progress: a message, then a poll.                      *)
(***************************************************************************)
Execute(m) ==
    /\ CASE m.what = "OPEN" -> closed' = closed \ {m.r}
         [] m.what = "CLOSE" -> closed' = closed \cup {m.r}
         [] m.what \in {"OPEN:ALL", "*RST"} -> closed' = {}
         [] OTHER -> closed' = closed
    /\ ese' = (ese \/ m.what = "*ESE")
    /\ swept' = (swept \/ m.what = "OPEN:ALL")
    /\ esr' = esr

Exit1(p) ==
    /\ at' = [at EXCEPT ![p] = "exited"]
    /\ exit_val' = [exit_val EXCEPT ![p] = 1]
    /\ todo' = [todo EXCEPT ![p] = <<>>]
    /\ owed' = [owed EXCEPT ![p] = {}]                     \* it did say so

inst_wrt(p) ==
    /\ at[p] = "send"
    /\ Execute(Head(todo[p]))
    /\ owed' = [owed EXCEPT ![p] = @ \ {<<Head(todo[p]).what, Head(todo[p]).r>>}]
    /\ at' = [at EXCEPT ![p] = "poll"]
    /\ todo' = [todo EXCEPT ![p] = Tail(@)]
    /\ UNCHANGED <<radio, exit_val>>

(* The RPC fails, before or after the device has done it: exit (1).        *)
inst_wrt_fails(p) ==
    /\ at[p] = "send"
    /\ Execute(Head(todo[p])) \/ UNCHANGED deviceVars
    /\ Exit1(p)
    /\ UNCHANGED radio

_serial_poll(p) ==
    /\ at[p] = "poll"
    /\ \/ /\ esr /\ ese
          /\ at' = [at EXCEPT ![p] = "esr"]
       \/ /\ ~(esr /\ ese) /\ todo[p] # <<>>
          /\ at' = [at EXCEPT ![p] = "send"]
       \/ /\ ~(esr /\ ese) /\ todo[p] = <<>>
          /\ at' = [at EXCEPT ![p] = "options"]
    /\ UNCHANGED <<radio, exit_val, todo, owed, deviceVars>>

inst_rsp_fails(p) ==
    /\ at[p] = "poll"
    /\ Exit1(p)
    /\ UNCHANGED <<radio, deviceVars>>

(* The callback writes *ESR without a question mark, which is an error of  *)
(* its own and has no answer.  The read times out, or gets an answer that  *)
(* was left; both are exit (1), and the error stays.                       *)
_interpret_status(p) ==
    /\ at[p] = "esr"
    /\ esr' = TRUE
    /\ Exit1(p)
    /\ UNCHANGED <<radio, closed, ese, swept>>

-----------------------------------------------------------------------------
(* The device finds its flash corrupt, or a query of one program is broken *)
(* off by another's.                                                       *)
Fault == esr' = TRUE /\ UNCHANGED <<progVars, closed, ese, swept>>

PowerCycle ==
    /\ closed' = {} /\ esr' = FALSE /\ ese' = FALSE
    /\ UNCHANGED <<progVars, swept>>

Program(p) ==
    \/ main(p)
    \/ \E list \in List :
        \/ \E what \in {"OPEN", "CLOSE"} : open_close(p, what, list)
        \/ \E inShell \in BOOLEAN : targets_refused(p, list, inShell)
    \/ _clear(p) \/ query(p) \/ inst_loc(p) \/ inst_fini(p)
    \/ inst_wrt(p) \/ inst_wrt_fails(p) \/ _serial_poll(p) \/ inst_rsp_fails(p)
    \/ _interpret_status(p)

Next == (\E p \in Proc : Program(p)) \/ Fault \/ PowerCycle

Spec == Init /\ [][Next]_vars

-----------------------------------------------------------------------------
(* man/ics8064.1.in: radio mode is "max of one relay closed".  Alone, a    *)
(* program keeps that from its first button on, whatever list it is given  *)
(* and wherever it ends.  Several programs do not exclude each other       *)
(* between the two messages, and can leave one relay closed each, no more. *)
RadioBound ==
    radio = Proc /\ swept => Cardinality(closed) <= Cardinality(Proc)

(* A program that ends with 0 has sent the device all that its options     *)
(* asked for, and no list was refused on the way.                          *)
ExitIsTrue ==
    \A p \in Proc : at[p] = "exited" /\ exit_val[p] = 0 => owed[p] = {}
=============================================================================
