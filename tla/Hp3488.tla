------------------------------- MODULE Hp3488 -------------------------------
(***************************************************************************)
(* src/hp3488.c on top of libinst/inst.c: every inst_* operation is I/O    *)
(* followed by a serial poll, whose status bytes go to the program's       *)
(* callback _interpret_status; for an error the callback does I/O of its   *)
(* own.  Without -C the program finds out which cards are installed, and   *)
(* for that closes two relays and counts on the logic error a missing one  *)
(* gives (lerr_flag).                                                      *)
(*                                                                         *)
(* The HP 3488A is external: it executes a command after it was written,   *)
(* is not READY before, and raises its errors by then.  Its front panel    *)
(* SRQ key can be pressed at any time; a GPIB board then polls by itself   *)
(* and keeps the byte (autopoll) until ibrsp asks for it.                  *)
(***************************************************************************)
EXTENDS Integers, Sequences, FiniteSets

CONSTANTS
    NSlots,     \* bound: slots of the chassis, 5 in the program
    Card,       \* models that may be installed, 0 for an empty slot
    Config,     \* bound: what -C may say of the slots
    Channel,    \* channel numbers told apart
    Con,        \* kinds of connection: "GPIB", "VXI11", "SERIAL"
    MaxCmds,    \* bound: options after the probe
    MaxPress    \* bound: presses of the front panel key

ASSUME Hp3488Assumption ==
    /\ NSlots \in Nat \ {0} /\ MaxCmds \in Nat /\ MaxPress \in Nat
    /\ Card \subseteq {0, 44470, 44471, 44476, 44477}
    /\ Channel \subseteq 0 .. 9 /\ {4, 9} \subseteq Channel
    /\ Config \subseteq [1 .. NSlots -> Card]
    /\ Con \subseteq {"GPIB", "VXI11", "SERIAL"}

VARIABLES
    con, card,              \* connection and installed cards
    pc,                     \* where the program is
    slot, lerr_flag, err4, err9, slot_config,
    how,                    \* where slot_config is from: "none", "config", "probe"
    phase,                  \* where the inst_* operation in progress is
    cmd, next,              \* what it writes, and where the program goes on
    sf_level, status, more, err,
    busy,                   \* the command the instrument executes
    errreg,                 \* its error register
    closed,                 \* its closed relays
    queue, pressed,         \* status bytes the board holds; the key's status bit
    kept, cmds, presses,    \* relays others or the user closed; counters of the bounds
    testFailed, passed      \* of the last self test: the truth, and what was printed

hostVars == <<slot, lerr_flag, err4, err9, slot_config, how>>
opVars == <<phase, cmd, next, sf_level, status, more, err>>
instrVars == <<busy, errreg, closed, queue, pressed, testFailed>>
bookVars == <<kept, cmds, presses, passed>>
vars == <<con, card, pc, hostVars, opVars, instrVars, bookVars>>

Slots == 1 .. NSlots
Relay == Slots \X Channel

(* CTYPE does not tell 44476 and 44477 from 44471.                         *)
Reported(model) == IF model \in {44476, 44477} THEN 44471 ELSE model

(* The channels of a card (man/hp3488.1.in), and those modeltab lists.     *)
Has(model) == CASE model = 0 -> {}
                [] model \in {44470, 44471} -> Channel
                [] model = 44476 -> Channel \cap 0 .. 2
                [] model = 44477 -> Channel \cap 0 .. 6
Listed(model) == IF model = 44476 THEN Channel \cap 0 .. 3 ELSE Has(model)

Installed(r) == r[2] \in Has(card[r[1]])
valid_targets == {r \in Relay : r[2] \in Listed(slot_config[r[1]])}

NoRelay == <<0, 0>>
Cmd(what, s, ch) == [what |-> what, on |-> <<s, ch>>]
NoCmd == [what |-> "none", on |-> NoRelay]

Init ==
    /\ con \in Con /\ card \in [Slots -> Card]
    /\ pc = "main" /\ slot = 1 /\ lerr_flag = 1 /\ err4 = 0 /\ err9 = 0
    /\ slot_config = [s \in Slots |-> 0] /\ how = "none"
    /\ phase = "idle" /\ cmd = NoCmd /\ next = "main"
    /\ sf_level = 0 /\ status = {} /\ more = FALSE /\ err = 0
    /\ busy = NoCmd /\ errreg = {} /\ queue = <<>> /\ pressed = FALSE
    /\ closed \in SUBSET {r \in Relay : Installed(r)}     \* relays are latching
    /\ kept = closed /\ cmds = 0 /\ presses = 0
    /\ testFailed = FALSE /\ passed = FALSE

-----------------------------------------------------------------------------
(***************************************************************************)
(* inst.c: the operation in progress.                                      *)
(***************************************************************************)
Start(c, then) ==
    /\ phase = "idle"
    /\ phase' = "io" /\ cmd' = c /\ next' = then
    /\ UNCHANGED <<sf_level, status, more, err>>

Ended == {"exited", "killed"}

(* What was local to the operation is gone.                                *)
OutOfScope ==
    /\ phase' = "idle" /\ cmd' = NoCmd /\ next' = "main"
    /\ status' = {} /\ more' = FALSE /\ err' = 0

(* inst_fini and exit, or exit alone.                                      *)
Exit == pc' = "exited" /\ OutOfScope

(* sf_fun is NULL on a serial line, and no poll is made inside another.    *)
Polls(level) == level = 1 /\ con # "SERIAL"

Back == pc' = next /\ OutOfScope

(* A read, inst_loc, and inst_clr on a serial line give it nothing to do.  *)
IsCommand ==
    /\ cmd.what \notin {"READ", "LOC"}
    /\ ~(cmd.what = "CLEAR" /\ con = "SERIAL")

(* The I/O succeeds, and _serial_poll begins; the instrument takes nothing *)
(* while it is busy.                                                       *)
Io ==
    /\ phase = "io" /\ busy = NoCmd
    /\ busy' = IF IsCommand THEN cmd ELSE busy
    /\ IF Polls(sf_level + 1)
       THEN /\ phase' = "rsp" /\ sf_level' = sf_level + 1
            /\ UNCHANGED <<pc, cmd, next, status, more, err>>
       ELSE Back /\ UNCHANGED sf_level
    /\ UNCHANGED <<con, card, hostVars, errreg, closed, queue, pressed, testFailed,
                   bookVars>>

(* Any I/O can time out or fail; all of these exits are immediate.         *)
IoFails ==
    /\ phase \in {"io", "rsp", "errwrt", "errrd"}
    /\ Exit
    /\ UNCHANGED <<con, card, hostVars, sf_level, instrVars, bookVars>>

Current == (IF busy = NoCmd THEN {"READY"} ELSE {})
           \cup (IF errreg # {} THEN {"ERROR"} ELSE {})
           \cup (IF pressed THEN {"BUTTON", "RQS"} ELSE {})

(* _interpret_status up to the error register.                             *)
FirstErr(st) == IF st \cap {"BUTTON", "RQS"} # {} THEN 1 ELSE 0

(* Its last lines: what is not an error may still be not ready.            *)
ReadyOrNot(e, st) == e                                     \* mutants of NotReady
NeverReady(e, st) == IF e = 0 THEN -1 ELSE e
NotReady(e, st) == IF e = 0 /\ "READY" \notin st THEN -1 ELSE e

inst_rsp ==
    /\ phase = "rsp"
    /\ IF queue # <<>>
       THEN status' = Head(queue) /\ queue' = Tail(queue) /\ UNCHANGED pressed
       ELSE status' = Current /\ pressed' = FALSE /\ UNCHANGED queue
    /\ more' = (queue' # <<>>)
    /\ IF "ERROR" \in status'
       THEN phase' = "errwrt" /\ UNCHANGED err
       ELSE phase' = "judge" /\ err' = NotReady(FirstErr(status'), status')
    /\ UNCHANGED <<con, card, pc, hostVars, cmd, next, sf_level, busy, errreg, closed,
                   testFailed, bookVars>>

(* _check_error: write ERROR, read the register; both end in _serial_poll, *)
(* which the level keeps from polling.                                     *)
check_error_write ==
    /\ phase = "errwrt"
    /\ IF Polls(sf_level + 1)
       THEN phase' = "rsp" /\ sf_level' = sf_level + 1
       ELSE phase' = "errrd" /\ UNCHANGED sf_level
    /\ UNCHANGED <<con, card, pc, hostVars, cmd, next, status, more, err, instrVars,
                   bookVars>>

(* The instrument takes commands in order: it answers ERROR once it is     *)
(* done.  The first logic error after lerr_flag was cleared is forgiven.   *)
Forgiven == errreg = {"LOGIC"}                             \* mutant of Tolerated
Tolerated == errreg \subseteq {"LOGIC"} /\ lerr_flag = 0
NotNoted == lerr_flag                                      \* mutant of Noted
Noted == IF "LOGIC" \in errreg THEN 1 ELSE lerr_flag

check_error_read ==
    /\ phase = "errrd" /\ busy = NoCmd
    /\ errreg' = {}
    /\ lerr_flag' = Noted
    /\ err' = NotReady(IF errreg = {} \/ Tolerated THEN 0 ELSE 1, status)
    /\ phase' = "judge"
    /\ UNCHANGED <<con, card, pc, slot, err4, err9, slot_config, how, cmd, next, sf_level,
                   status, more, busy, closed, queue, pressed, testFailed, bookVars>>

(* The rest of _serial_poll: fatal, once more, or back to the program.     *)
serial_poll ==
    /\ phase = "judge"
    /\ \/ err = 1 /\ Exit /\ UNCHANGED sf_level
       \/ /\ err # 1 /\ (more \/ err = -1) /\ phase' = "rsp"
          /\ UNCHANGED <<pc, cmd, next, sf_level, status, more, err>>
       \/ err = 0 /\ ~more /\ Back /\ sf_level' = sf_level - 1
    /\ UNCHANGED <<con, card, hostVars, instrVars, bookVars>>

-----------------------------------------------------------------------------
(***************************************************************************)
(* hp3488.c: the options, and the probe of the installed cards.            *)
(***************************************************************************)
At(label) == pc = label /\ phase = "idle"
Untouched == UNCHANGED <<con, card, instrVars, bookVars>>

(* -C with five known models: no probe.                                    *)
parse_model_config(models) ==
    /\ At("main")
    /\ slot_config' = models /\ how' = "config" /\ pc' = "cmd"
    /\ UNCHANGED <<slot, lerr_flag, err4, err9, opVars>> /\ Untouched

(* -C twice, or with too few or unknown models: goto done, where inst_fini *)
(* reads the magic of a NULL instrument.                                   *)
config_refused ==
    /\ At("main")
    /\ pc' = "killed"
    /\ UNCHANGED <<hostVars, opVars>> /\ Untouched

inst_init_fails ==
    /\ At("main") /\ Exit
    /\ UNCHANGED <<hostVars, sf_level>> /\ Untouched

probe_model_config ==
    /\ At("main")
    /\ pc' = "ctype" /\ how' = "probe"
    /\ UNCHANGED <<slot, lerr_flag, err4, err9, slot_config, opVars>> /\ Untouched

(* No option that needs to know the cards: neither -C nor the probe.       *)
no_targets_needed ==
    /\ At("main")
    /\ pc' = "cmd"
    /\ UNCHANGED <<hostVars, opVars>> /\ Untouched

(* _ctype, the commands of _disambiguate_ctype before and after, and those *)
(* that end an option: the identity, an answer that is read.               *)
NoReset == [ctype |-> <<"CTYPE", "answer">>, answer |-> <<"READ", "model">>,
            doff |-> <<"DOFF", "close4">>,
            creset |-> <<"DON", "found">>,                 \* mutant of Script
            id |-> <<"ID?", "read">>, read |-> <<"READ", "cmd">>]
Script == [ctype |-> <<"CTYPE", "answer">>, answer |-> <<"READ", "model">>,
           doff |-> <<"DOFF", "close4">>,
           creset |-> <<"CRESET", "don">>, don |-> <<"DON", "found">>,
           id |-> <<"ID?", "read">>, read |-> <<"READ", "cmd">>]

probe_command ==
    /\ pc \in DOMAIN Script
    /\ Start(Cmd(Script[pc][1], slot, 0), Script[pc][2])
    /\ UNCHANGED <<pc, hostVars>> /\ Untouched

Advance(model) ==
    /\ slot_config' = [slot_config EXCEPT ![slot] = model]
    /\ IF slot = NSlots THEN pc' = "cmd" /\ UNCHANGED slot
                        ELSE pc' = "ctype" /\ slot' = slot + 1

ctype_answered ==
    /\ At("model")
    /\ IF Reported(card[slot]) = 44471
       THEN pc' = "doff" /\ UNCHANGED <<slot, slot_config>>
       ELSE Advance(Reported(card[slot]))
    /\ UNCHANGED <<lerr_flag, err4, err9, how, opVars>> /\ Untouched

close4 ==
    /\ At("close4")
    /\ lerr_flag' = 0
    /\ Start(Cmd("CLOSE", slot, 4), "close9")
    /\ UNCHANGED <<pc, slot, err4, err9, slot_config, how>> /\ Untouched

close9 ==
    /\ At("close9")
    /\ err4' = lerr_flag
    /\ lerr_flag' = 0
    /\ Start(Cmd("CLOSE", slot, 9), "closed")
    /\ UNCHANGED <<pc, slot, err9, slot_config, how>> /\ Untouched

LeftAtZero == lerr_flag                                    \* mutant of Strict
Strict == 1

(* 04 missing and 09 there: no such card, and exit(1).                     *)
disambiguate_ctype ==
    /\ At("closed")
    /\ err9' = lerr_flag
    /\ lerr_flag' = Strict
    /\ pc' = IF err4 = 1 /\ err9' = 0 THEN "exited" ELSE "creset"
    /\ UNCHANGED <<slot, err4, slot_config, how, opVars>> /\ Untouched

ctype_found ==
    /\ At("found")
    /\ Advance(CASE err4 = 1 /\ err9 = 1 -> 44476
                 [] err4 = 0 /\ err9 = 1 -> 44477
                 [] err4 = 0 /\ err9 = 0 -> 44471)
    /\ UNCHANGED <<lerr_flag, err4, err9, how, opVars>> /\ Untouched

-----------------------------------------------------------------------------
(* The options of the second pass, in any order.                           *)
Option(c, then) ==
    /\ At("cmd") /\ cmds < MaxCmds /\ cmds' = cmds + 1
    /\ Start(c, then)
    /\ UNCHANGED <<con, card, pc, hostVars, instrVars, presses>>

(* _close_targets and _open_targets send what valid_targets contains.      *)
close_target(r) ==
    /\ r \in valid_targets
    /\ Option([what |-> "CLOSE", on |-> r], "cmd")
    /\ kept' = kept \cup {r} /\ UNCHANGED passed

open_target(r) ==
    /\ r \in valid_targets
    /\ Option([what |-> "OPEN", on |-> r], "cmd")
    /\ UNCHANGED <<kept, passed>>

test == Option(Cmd("TEST", 0, 0), "tested") /\ passed' = FALSE /\ UNCHANGED kept

test_passed ==
    /\ At("tested")
    /\ passed' = TRUE /\ pc' = "cmd"
    /\ UNCHANGED <<con, card, hostVars, opVars, instrVars, kept, cmds, presses>>

(* _clear goes on with the identity: another instrument's is exit(1).      *)
clear == Option(Cmd("CLEAR", 0, 0), "id") /\ UNCHANGED <<kept, passed>>

get_idn == Option(Cmd("ID?", 0, 0), "read") /\ UNCHANGED <<kept, passed>>

query_caddr(r) ==
    /\ r \in valid_targets
    /\ Option([what |-> "VIEW", on |-> r], "read")
    /\ UNCHANGED <<kept, passed>>

inst_loc == Option(Cmd("LOC", 0, 0), "cmd") /\ UNCHANGED <<kept, passed>>

done ==
    /\ At("cmd") /\ Exit
    /\ UNCHANGED <<hostVars, sf_level>> /\ Untouched

-----------------------------------------------------------------------------
(***************************************************************************)
(* The instrument and its user.                                            *)
(***************************************************************************)
Moves(r, set) == IF Installed(r) THEN closed' = set /\ errreg' = errreg
                                 ELSE errreg' = errreg \cup {"LOGIC"} /\ closed' = closed

Execute ==
    /\ busy # NoCmd
    /\ busy' = NoCmd
    /\ \/ busy.what = "CLOSE" /\ Moves(busy.on, closed \cup {busy.on}) /\ UNCHANGED testFailed
       \/ busy.what = "OPEN" /\ Moves(busy.on, closed \ {busy.on}) /\ UNCHANGED testFailed
       \/ /\ busy.what \in {"CRESET", "CLEAR"}
          /\ closed' = {r \in closed : busy.what = "CRESET" /\ r[1] # busy.on[1]}
          /\ UNCHANGED <<errreg, testFailed>>
       \/ /\ busy.what = "TEST"
          /\ \E e \in {{}, {"LOGIC"}, {"POWER"}} :
              errreg' = errreg \cup e /\ testFailed' = (e # {})
          /\ UNCHANGED closed
       \/ /\ busy.what \in {"CTYPE", "DOFF", "DON", "ID?", "VIEW"}
          /\ UNCHANGED <<errreg, closed, testFailed>>
    /\ UNCHANGED <<con, card, pc, hostVars, opVars, queue, pressed, bookVars>>

(* The SRQ key: a GPIB board keeps the byte, a gateway's answer shows it.  *)
Press ==
    /\ presses < MaxPress /\ presses' = presses + 1
    /\ IF con = "GPIB"
       THEN queue' = Append(queue, Current \cup {"BUTTON", "RQS"}) /\ UNCHANGED pressed
       ELSE pressed' = TRUE /\ UNCHANGED queue
    /\ UNCHANGED <<con, card, pc, hostVars, opVars, busy, errreg, closed, testFailed, kept,
                   cmds, passed>>

Over == pc \in Ended /\ UNCHANGED vars

-----------------------------------------------------------------------------
Inst == Io \/ IoFails \/ inst_rsp \/ check_error_write \/ check_error_read \/ serial_poll

Program ==
    \/ \E models \in Config : parse_model_config(models)
    \/ config_refused \/ inst_init_fails \/ probe_model_config
    \/ probe_command \/ ctype_answered \/ close4 \/ close9 \/ disambiguate_ctype \/ ctype_found
    \/ no_targets_needed
    \/ \E r \in Relay : close_target(r) \/ open_target(r) \/ query_caddr(r)
    \/ test \/ test_passed \/ clear \/ get_idn \/ inst_loc \/ done

Next == Inst \/ Program \/ Execute \/ Press \/ Over

Spec == Init /\ [][Next]_vars

(* The program runs, and the instrument executes what it was sent.         *)
FairSpec == Spec /\ WF_vars(Inst \/ Program) /\ WF_vars(Execute)

-----------------------------------------------------------------------------
Idle == phase = "idle" /\ pc \notin Ended

(* The probe names the card that is there, whatever polls come early, are  *)
(* retried or find a byte the board kept.                                  *)
ProbeIsRight ==
    how = "probe" /\ pc = "cmd" => slot_config = card

(* When an operation returns, its errors have been read: none is left to   *)
(* be blamed on a later one.                                               *)
ErrorsNotLost == Idle /\ con # "SERIAL" => errreg = {} /\ busy = NoCmd

(* hp3488.c:619: a self test that was reported as passed did not fail.     *)
SelfTestHonest == passed /\ con # "SERIAL" => ~testFailed

(* A logic error is forgiven only to the two CLOSE of the probe.           *)
StrictOutsideProbe ==
    [][phase = "errrd" /\ phase' = "judge" /\ "LOGIC" \in errreg /\ err' # 1 => next \in {"close9", "closed"}]_vars

(* Once the probe is over no relay is closed that was not so before, or by *)
(* order of the user.                                                      *)
ProbeLeavesNoTrace == how = "probe" /\ pc = "cmd" => closed \subseteq kept

(* Every operation returns or ends the program.                            *)
OperationEnds == phase # "idle" ~> phase = "idle"
=============================================================================
