---------------------------- MODULE Hp3488Proofs ----------------------------
(***************************************************************************)
(* Proofs about Hp3488 for a chassis of any number of slots, any cards,    *)
(* and any number of options and of presses of the front panel key.        *)
(*                                                                         *)
(* HpInv has a part for each thing that takes several steps: an operation  *)
(* of inst.c that polls until the instrument is done and its errors are    *)
(* read (Polling), lerr_flag and what it tells of the two CLOSE (Flag,     *)
(* Closing and Finding), the relays they close (Traces), and the self test *)
(* (Testing).                                                              *)
(***************************************************************************)
EXTENDS Hp3488, SequenceTheorems, TLAPS

ProbeLabels == {"ctype", "answer", "model", "doff", "close4", "close9", "closed", "creset",
                "don", "found"}
OptionLabels == {"cmd", "id", "read", "tested"}

Models == {0, 44470, 44471, 44476, 44477}

(* A status byte a board keeps is one of the key.                          *)
Keyed == {st \in SUBSET {"READY", "ERROR", "BUTTON", "RQS"} : "BUTTON" \in st}

HpType ==
    /\ con \in {"GPIB", "VXI11", "SERIAL"} /\ card \in [Slots -> Card]
    /\ pc \in {"main"} \cup ProbeLabels \cup OptionLabels \cup Ended
    /\ slot \in Slots /\ lerr_flag \in {0, 1} /\ err4 \in {0, 1} /\ err9 \in {0, 1}
    /\ slot_config \in [Slots -> Models] /\ how \in {"none", "config", "probe"}
    /\ phase \in {"idle", "io", "rsp", "errwrt", "errrd", "judge"}
    /\ closed \in SUBSET Relay /\ kept \in SUBSET Relay
    /\ cmd.what = "CLOSE" => cmd.on \in Relay
    /\ busy.what = "CLOSE" => busy.on \in Relay

(* What a board keeps are bytes of the key.                                *)
Queued == queue \in Seq(Keyed)

(* The operation in progress is the one that starts where the program is.  *)
Pending ==
    phase # "idle" =>
        \/ /\ pc \in DOMAIN Script
           /\ cmd = Cmd(Script[pc][1], slot, 0) /\ next = Script[pc][2]
        \/ pc = "close4" /\ cmd = Cmd("CLOSE", slot, 4) /\ next = "close9"
        \/ pc = "close9" /\ cmd = Cmd("CLOSE", slot, 9) /\ next = "closed"
        \/ /\ pc = "cmd" /\ cmd.what = "TEST" /\ next = "tested"
        \/ /\ pc = "cmd" /\ cmd.what \in {"CLOSE", "OPEN", "CLEAR", "ID?", "VIEW", "LOC"}
           /\ next \in {"cmd", "id", "read"}
           /\ cmd.what = "CLOSE" => cmd.on \in kept

InPoll == phase \in {"rsp", "errwrt", "errrd", "judge"}

(* It returns when the instrument is done and has no error to tell.        *)
Polling ==
    /\ con = "SERIAL" => ~InPoll
    /\ con # "SERIAL" =>
        /\ ~InPoll /\ pc \notin Ended => busy = NoCmd /\ errreg = {} /\ sf_level = 0
        /\ InPoll => sf_level = 1 /\ busy \in {NoCmd, cmd}
        /\ phase = "judge" /\ err = 0 => busy = NoCmd /\ errreg = {}

(* lerr_flag is 0 from a CLOSE of the probe until it is looked at.         *)
Flag ==
    /\ lerr_flag = 0 =>
        \/ phase # "idle" /\ pc \in {"close4", "close9"}
        \/ phase = "idle" /\ pc \in {"close9", "closed"} \cup Ended
    /\ pc \in {"creset", "don", "found"} => ~(err4 = 1 /\ err9 = 0)

Tells(flag, ch) == flag = 1 <=> ~Installed(<<slot, ch>>)

(* What a CLOSE of the probe left in the error register, and in lerr_flag. *)
CloseSays ==
    /\ Installed(cmd.on) => errreg = {} /\ lerr_flag = 0
    /\ ~Installed(cmd.on) => \/ "LOGIC" \in errreg /\ lerr_flag = 0
                             \/ errreg = {} /\ lerr_flag = 1

Closing ==
    con # "SERIAL" =>
        /\ pc \in {"close4", "close9"} /\ phase = "io" => lerr_flag = 0
        /\ pc \in {"close4", "close9"} /\ InPoll =>
            IF busy = NoCmd THEN CloseSays ELSE errreg = {} /\ lerr_flag = 0
        /\ pc = "close9" /\ phase = "idle" => Tells(lerr_flag, 4)
        /\ pc = "close9" /\ phase # "idle" => Tells(err4, 4)
        /\ pc = "closed" => Tells(err4, 4) /\ Tells(lerr_flag, 9)
        /\ pc \in {"creset", "don", "found"} => Tells(err4, 4) /\ Tells(err9, 9)
        /\ pc \in {"doff", "close4", "close9", "closed", "creset", "don", "found"} =>
            Reported(card[slot]) = 44471

(* What the probe has found so far is right.                               *)
Finding ==
    con # "SERIAL" =>
        /\ pc = "main" => slot = 1 /\ how = "none"
        /\ pc \in ProbeLabels => \A s \in Slots : s < slot => slot_config[s] = card[s]
        /\ pc \in OptionLabels /\ how = "probe" => slot_config = card

(* The relays of the slot under test may be closed until CRESET is done.   *)
Traces ==
    con # "SERIAL" /\ pc \notin Ended =>
        /\ pc \in {"close4", "close9", "closed", "creset"} =>
            \A r \in closed : r \in kept \/ r[1] = slot
        /\ \/ pc \notin {"close4", "close9", "closed", "creset"}
           \/ pc = "creset" /\ InPoll /\ busy = NoCmd
           => closed \subseteq kept

Testing ==
    con # "SERIAL" =>
        /\ passed => ~testFailed
        /\ pc = "tested" => ~testFailed
        /\ phase # "idle" /\ cmd.what = "TEST" => ~passed
        /\ busy.what = "TEST" => ~passed
        /\ InPoll /\ cmd.what = "TEST" /\ busy = NoCmd /\ testFailed =>
            errreg # {} \/ (phase = "judge" /\ err = 1)

HpInv == HpType /\ Queued /\ Pending /\ Polling /\ Flag /\ Closing /\ Finding /\ Traces /\ Testing
-----------------------------------------------------------------------------
(* What the operators of the cards say.                                    *)
LEMMA Cards ==
    /\ Slots \subseteq Nat /\ 1 \in Slots
    /\ Card \subseteq Models /\ Config \subseteq [Slots -> Models]
    /\ \A m \in Models : Has(m) \subseteq Channel /\ Listed(m) \subseteq Channel
    /\ \A m \in Models : Reported(m) \in Models
<1>1. Card \subseteq Models /\ Slots \subseteq Nat /\ 1 \in Slots
  BY Hp3488Assumption DEF Slots, Models
<1>2. ASSUME NEW c \in Config PROVE c \in [Slots -> Models]
  <2>1. c \in [Slots -> Card]
    BY Hp3488Assumption DEF Slots
  <2>2. QED
    BY <1>1, <2>1
<1>3. \A m \in Models : Has(m) \subseteq Channel /\ Listed(m) \subseteq Channel
  BY DEF Has, Listed, Models
<1>4. \A m \in Models : Reported(m) \in Models
  BY DEF Reported, Models
<1>5. QED
  BY <1>1, <1>2, <1>3, <1>4

(* The next slot, or the options after the last.                           *)
LEMMA Advances ==
  ASSUME HpType, NEW m \in Models, Advance(m)
  PROVE  /\ slot_config' = [slot_config EXCEPT ![slot] = m]
         /\ slot_config' \in [Slots -> Models] /\ slot' \in Slots
         /\ \/ slot = NSlots /\ pc' = "cmd" /\ slot' = slot
            \/ slot # NSlots /\ pc' = "ctype" /\ slot' = slot + 1
  BY Hp3488Assumption DEF HpType, Advance, Slots

(* The initial states satisfy the invariant.                               *)
LEMMA InitHp == Init => HpInv
<1> SUFFICES ASSUME Init PROVE HpInv
  OBVIOUS
<1>1. HpType /\ Queued
  BY Cards, Hp3488Assumption DEF Init, HpType, Queued, Slots, Relay, Ended, Models, NoCmd, Cmd
<1>2. Pending /\ Polling /\ Flag
  BY DEF Init, Pending, Polling, Flag, InPoll, Ended
<1>3. Closing /\ Finding
  BY Cards DEF Init, Closing, Finding, InPoll, ProbeLabels, OptionLabels, Slots
<1>4. Traces /\ Testing
  BY DEF Init, Traces, Testing, InPoll, NoCmd, Cmd
<1>5. QED
  BY <1>1, <1>2, <1>3, <1>4 DEF HpInv
-----------------------------------------------------------------------------
(* The options of the second pass that use the instrument.                 *)
AnOption ==
    \/ \E r \in Relay : close_target(r) \/ open_target(r) \/ query_caddr(r)
    \/ test \/ clear \/ get_idn \/ inst_loc

(* Each starts one operation.                                              *)
LEMMA Options ==
  ASSUME HpType, AnOption
  PROVE  /\ pc = "cmd" /\ phase = "idle" /\ pc' = pc /\ phase' = "io"
         /\ UNCHANGED <<con, card, hostVars, sf_level, status, more, err, instrVars>>
         /\ \/ cmd'.what = "TEST" /\ next' = "tested" /\ passed' = FALSE
            \/ /\ cmd'.what \in {"CLOSE", "OPEN", "CLEAR", "ID?", "VIEW", "LOC"}
               /\ next' \in {"cmd", "id", "read"}
               /\ passed' = passed
         /\ cmd'.what = "CLOSE" => cmd'.on \in Relay /\ cmd'.on \in kept'
         /\ kept \subseteq kept' /\ kept' \subseteq Relay
<1> USE DEF Option, Start, At, hostVars, instrVars
<1>1. ASSUME NEW r \in Relay, close_target(r)
      PROVE  cmd' = [what |-> "CLOSE", on |-> r] /\ kept' = kept \cup {r} /\ passed' = passed
             /\ next' = "cmd"
  BY <1>1 DEF close_target
<1>2. ASSUME NEW r \in Relay, open_target(r)
      PROVE  cmd' = [what |-> "OPEN", on |-> r] /\ kept' = kept /\ passed' = passed
             /\ next' = "cmd"
  BY <1>2 DEF open_target
<1>3. ASSUME NEW r \in Relay, query_caddr(r)
      PROVE  cmd' = [what |-> "VIEW", on |-> r] /\ kept' = kept /\ passed' = passed
             /\ next' = "read"
  BY <1>3 DEF query_caddr
<1>4. CASE \E r \in Relay : close_target(r) \/ open_target(r) \/ query_caddr(r)
  <2>1. PICK r \in Relay : close_target(r) \/ open_target(r) \/ query_caddr(r)
    BY <1>4
  <2>2. CASE close_target(r)
    BY <2>2, <1>1 DEF close_target, HpType
  <2>3. CASE open_target(r)
    BY <2>3, <1>2 DEF open_target, HpType
  <2>4. CASE query_caddr(r)
    BY <2>4, <1>3 DEF query_caddr, HpType
  <2>5. QED
    BY <2>1, <2>2, <2>3, <2>4
<1>5. CASE test
  BY <1>5 DEF test, Cmd, HpType
<1>6. CASE clear
  BY <1>6 DEF clear, Cmd, HpType
<1>7. CASE get_idn
  BY <1>7 DEF get_idn, Cmd, HpType
<1>8. CASE inst_loc
  BY <1>8 DEF inst_loc, Cmd, HpType
<1>9. QED
  BY <1>4, <1>5, <1>6, <1>7, <1>8 DEF AnOption
-----------------------------------------------------------------------------
(* What an instrument's step does to the relays and the error register.    *)
LEMMA Executes ==
  ASSUME Execute
  PROVE  /\ busy # NoCmd /\ busy' = NoCmd
         /\ UNCHANGED <<con, card, pc, hostVars, opVars, queue, pressed, bookVars>>
         /\ busy.what # "TEST" => testFailed' = testFailed
         /\ busy.what = "TEST" => closed' = closed /\ (testFailed' => errreg' # {})
         /\ errreg # {} => errreg' # {}
         /\ busy.what = "CLOSE" /\ Installed(busy.on) =>
                closed' = closed \cup {busy.on} /\ errreg' = errreg
         /\ busy.what = "CLOSE" /\ ~Installed(busy.on) =>
                closed' = closed /\ errreg' = errreg \cup {"LOGIC"}
         /\ busy.what = "CRESET" => closed' = {r \in closed : r[1] # busy.on[1]}
         /\ busy.what # "CLOSE" => closed' \subseteq closed
  BY DEF Execute, Moves

(* Every step keeps the types.                                             *)
LEMMA TypeStep ==
  ASSUME HpInv, Next PROVE HpType'
<1> USE Cards DEF HpInv, HpType, Slots
<1>1. CASE Io
  <2>1. pc' \in {"main"} \cup ProbeLabels \cup OptionLabels \cup Ended
    BY <1>1 DEF Io, Back, OutOfScope, Pending, Script, ProbeLabels, OptionLabels, Ended
  <2>2. /\ cmd'.what = "CLOSE" => cmd'.on \in Relay
        /\ busy'.what = "CLOSE" => busy'.on \in Relay
    BY <1>1 DEF Io, Back, OutOfScope, NoCmd, Cmd
  <2>3. phase' \in {"idle", "io", "rsp", "errwrt", "errrd", "judge"}
    BY <1>1 DEF Io, Back, OutOfScope
  <2>4. QED
    BY <1>1, <2>1, <2>2, <2>3 DEF Io, hostVars, bookVars
<1>2. CASE IoFails
  BY <1>2 DEF IoFails, Exit, OutOfScope, NoCmd, Cmd, Ended, hostVars, instrVars, bookVars
<1>3. CASE inst_rsp
  BY <1>3 DEF inst_rsp, hostVars, bookVars
<1>4. CASE check_error_write
  BY <1>4 DEF check_error_write, hostVars, instrVars, bookVars
<1>5. CASE check_error_read
  BY <1>5 DEF check_error_read, Noted, bookVars
<1>6. CASE serial_poll
  BY <1>6 DEF serial_poll, Exit, Back, OutOfScope, NoCmd, Cmd, Pending, Script, ProbeLabels,
              OptionLabels, Ended, hostVars, instrVars, bookVars
<1>7. ASSUME NEW models \in Config, parse_model_config(models) PROVE HpType'
  BY <1>7 DEF parse_model_config, Untouched, OptionLabels, opVars, instrVars, bookVars
<1>8. CASE config_refused
  BY <1>8 DEF config_refused, Untouched, hostVars, opVars, instrVars, bookVars, Ended
<1>9. CASE inst_init_fails
  BY <1>9 DEF inst_init_fails, Exit, OutOfScope, Untouched, NoCmd, Cmd, Ended, hostVars,
              instrVars, bookVars
<1>10. CASE probe_model_config
  BY <1>10 DEF probe_model_config, Untouched, ProbeLabels, opVars, instrVars, bookVars
<1>11. CASE probe_command
  BY <1>11 DEF probe_command, Start, Script, Cmd, Untouched, hostVars, instrVars, bookVars
<1>12. CASE ctype_answered
  <2>1. CASE Reported(card[slot]) = 44471
    BY <1>12, <2>1 DEF ctype_answered, Untouched, ProbeLabels, opVars, instrVars, bookVars
  <2>2. CASE Reported(card[slot]) # 44471
    <3>1. Reported(card[slot]) \in Models /\ Advance(Reported(card[slot]))
      BY <1>12, <2>2 DEF ctype_answered
    <3>2. slot_config' \in [Slots -> Models] /\ slot' \in Slots /\ pc' \in {"cmd", "ctype"}
      BY <3>1, Advances
    <3>3. QED
      BY <1>12, <3>2 DEF ctype_answered, Untouched, ProbeLabels, OptionLabels, opVars,
                         instrVars, bookVars
  <2>3. QED
    BY <2>1, <2>2
<1>13. CASE close4
  BY <1>13, Hp3488Assumption DEF close4, Start, Cmd, Relay, Untouched, instrVars, bookVars
<1>14. CASE close9
  BY <1>14, Hp3488Assumption DEF close9, Start, Cmd, Relay, Untouched, instrVars, bookVars
<1>15. CASE disambiguate_ctype
  BY <1>15 DEF disambiguate_ctype, Strict, Untouched, ProbeLabels, Ended, opVars, instrVars,
               bookVars
<1>16. CASE ctype_found
  <2>1. PICK m \in {44471, 44476, 44477} : Advance(m)
    BY <1>16 DEF ctype_found, At, Flag
  <2>2. m \in Models
    BY DEF Models
  <2>3. slot_config' \in [Slots -> Models] /\ slot' \in Slots /\ pc' \in {"cmd", "ctype"}
    BY <2>1, <2>2, Advances
  <2>4. QED
    BY <1>16, <2>3 DEF ctype_found, Untouched, ProbeLabels, OptionLabels, opVars, instrVars,
                       bookVars
<1>17. CASE no_targets_needed
  BY <1>17 DEF no_targets_needed, Untouched, OptionLabels, hostVars, opVars, instrVars, bookVars
<1>18. CASE AnOption
  BY <1>18, Options DEF hostVars, instrVars
<1>19. CASE test_passed
  BY <1>19 DEF test_passed, OptionLabels, hostVars, opVars, instrVars
<1>20. CASE done
  BY <1>20 DEF done, Exit, OutOfScope, NoCmd, Cmd, Untouched, Ended, hostVars, instrVars,
               bookVars
<1>21. CASE Execute
  BY <1>21, Executes DEF NoCmd, Cmd, hostVars, opVars, bookVars
<1>22. CASE Press
  BY <1>22 DEF Press, hostVars, opVars
<1>23. CASE Over
  BY <1>23 DEF Over, vars, hostVars, opVars, instrVars, bookVars
<1>24. QED
  BY <1>1, <1>2, <1>3, <1>4, <1>5, <1>6, <1>7, <1>8, <1>9, <1>10, <1>11, <1>12, <1>13, <1>14,
     <1>15, <1>16, <1>17, <1>18, <1>19, <1>20, <1>21, <1>22, <1>23
     DEF Next, Inst, Program, AnOption

(* A poll for a byte the board kept is fatal; one for the instrument's own *)
(* says that all is well only when it is done and has no error.            *)
LEMMA PollSays ==
  ASSUME Queued, inst_rsp
  PROVE  /\ phase = "rsp" /\ phase' \in {"errwrt", "judge"}
         /\ UNCHANGED <<con, card, pc, hostVars, cmd, next, sf_level, busy, errreg, closed,
                        testFailed, bookVars>>
         /\ phase' = "judge" /\ err' # 1 => errreg = {}
         /\ phase' = "judge" /\ err' = 0 => busy = NoCmd
         /\ Queued'
<1>1. CASE queue # <<>>
  <2>1. Head(queue) \in Keyed /\ Tail(queue) \in Seq(Keyed)
    BY <1>1, HeadTailProperties DEF Queued
  <2>2. "BUTTON" \in status' /\ queue' = Tail(queue)
    BY <1>1, <2>1 DEF inst_rsp, Keyed
  <2>3. FirstErr(status') = 1
    BY <2>2 DEF FirstErr
  <2>4. phase' = "judge" => err' = 1
    BY <2>3 DEF inst_rsp, NotReady
  <2>5. QED
    BY <2>1, <2>2, <2>4 DEF inst_rsp, Queued, hostVars, bookVars
<1>2. CASE queue = <<>>
  <2>1. status' = Current /\ queue' = queue
    BY <1>2 DEF inst_rsp
  <2>2. "ERROR" \notin status' => errreg = {}
    BY <2>1 DEF Current
  <2>3. "READY" \in status' => busy = NoCmd
    BY <2>1 DEF Current
  <2>4. phase' = "judge" => "ERROR" \notin status' /\ (err' = 0 => "READY" \in status')
    BY DEF inst_rsp, NotReady
  <2>5. QED
    BY <2>1, <2>2, <2>3, <2>4 DEF inst_rsp, Queued, hostVars, bookVars
<1>3. QED
  BY <1>1, <1>2

(* Only a poll and the key change what the board keeps.                    *)
LEMMA QueueStep ==
  ASSUME Queued, Next PROVE Queued'
<1>1. CASE inst_rsp
  BY <1>1, PollSays
<1>2. CASE Press
  <2>1. Current \cup {"BUTTON", "RQS"} \in Keyed
    BY DEF Current, Keyed
  <2>2. Append(queue, Current \cup {"BUTTON", "RQS"}) \in Seq(Keyed)
    BY <2>1 DEF Queued
  <2>3. queue' = queue \/ queue' = Append(queue, Current \cup {"BUTTON", "RQS"})
    BY <1>2 DEF Press
  <2>4. QED
    BY <2>2, <2>3 DEF Queued
<1>3. CASE ~inst_rsp /\ ~Press
  <2>1. CASE Io \/ IoFails \/ check_error_write \/ check_error_read \/ serial_poll
    BY <2>1 DEF Queued, Io, IoFails, check_error_write, check_error_read, serial_poll, instrVars
  <2>2. CASE Program
    <3>1. CASE \/ \E models \in Config : parse_model_config(models)
               \/ \E r \in Relay : close_target(r) \/ open_target(r) \/ query_caddr(r)
      BY <3>1 DEF Queued, parse_model_config, close_target, open_target, query_caddr, Option,
                  Untouched, instrVars
    <3>2. CASE \/ config_refused \/ inst_init_fails \/ probe_model_config \/ probe_command
               \/ ctype_answered \/ close4 \/ close9
      BY <3>2 DEF Queued, config_refused, inst_init_fails, probe_model_config, probe_command,
                  ctype_answered, close4, close9, Untouched, instrVars
    <3>3. CASE \/ disambiguate_ctype \/ ctype_found \/ no_targets_needed \/ test
               \/ test_passed \/ clear \/ get_idn \/ inst_loc \/ done
      BY <3>3 DEF Queued, disambiguate_ctype, ctype_found, no_targets_needed, test, test_passed,
                  clear, get_idn, inst_loc, done, Option, Untouched, instrVars
    <3>4. QED
      BY <2>2, <3>1, <3>2, <3>3 DEF Program
  <2>3. CASE Execute \/ Over
    BY <2>3 DEF Queued, Execute, Over, vars, instrVars
  <2>4. QED
    BY <1>3, <2>1, <2>2, <2>3 DEF Next, Inst
<1>4. QED
  BY <1>1, <1>2, <1>3
(* The operation in progress stays the one that was started.               *)
LEMMA PendingStep ==
  ASSUME HpInv, Next PROVE Pending'
<1> USE DEF HpInv, Pending, Script, Cmd
<1>1. CASE Io
  BY <1>1 DEF Io, Back, OutOfScope, hostVars, opVars, instrVars, bookVars
<1>2. CASE IoFails
  BY <1>2 DEF IoFails, Exit, OutOfScope, hostVars, opVars, instrVars, bookVars
<1>3. CASE inst_rsp
  BY <1>3 DEF inst_rsp, hostVars, opVars, instrVars, bookVars
<1>4. CASE check_error_write
  BY <1>4 DEF check_error_write, hostVars, opVars, instrVars, bookVars
<1>5. CASE check_error_read
  BY <1>5 DEF check_error_read, Noted, hostVars, opVars, instrVars, bookVars
<1>6. CASE serial_poll
  BY <1>6 DEF serial_poll, Exit, Back, OutOfScope, hostVars, opVars, instrVars,
           bookVars
<1>7. ASSUME NEW models \in Config, parse_model_config(models) PROVE Pending'
  BY <1>7 DEF parse_model_config, At, Untouched, hostVars, opVars, instrVars,
           bookVars
<1>8. CASE config_refused
  BY <1>8 DEF config_refused, At, Untouched, hostVars, opVars, instrVars, bookVars
<1>9. CASE inst_init_fails
  BY <1>9 DEF inst_init_fails, At, Exit, OutOfScope, Untouched, hostVars, opVars,
           instrVars, bookVars
<1>10. CASE probe_model_config
  BY <1>10 DEF probe_model_config, At, Untouched, hostVars, opVars, instrVars,
           bookVars
<1>11. CASE probe_command
  BY <1>11 DEF probe_command, Start, Untouched, hostVars, opVars, instrVars,
           bookVars
<1>12. CASE ctype_answered
  BY <1>12 DEF ctype_answered, At, Advance, Untouched, hostVars, opVars,
           instrVars, bookVars
<1>13. CASE close4
  BY <1>13 DEF close4, At, Start, Untouched, hostVars, opVars, instrVars, bookVars
<1>14. CASE close9
  BY <1>14 DEF close9, At, Start, Untouched, hostVars, opVars, instrVars, bookVars
<1>15. CASE disambiguate_ctype
  BY <1>15 DEF disambiguate_ctype, At, Strict, Untouched, hostVars, opVars,
           instrVars, bookVars
<1>16. CASE ctype_found
  BY <1>16 DEF ctype_found, At, Advance, Untouched, hostVars, opVars, instrVars,
           bookVars
<1>17. CASE no_targets_needed
  BY <1>17 DEF no_targets_needed, At, Untouched, hostVars, opVars, instrVars,
           bookVars
<1>18. CASE AnOption
  BY <1>18, Options DEF hostVars, instrVars
<1>19. CASE test_passed
  BY <1>19 DEF test_passed, At, hostVars, opVars, instrVars, bookVars
<1>20. CASE done
  BY <1>20 DEF done, At, Exit, OutOfScope, Untouched, hostVars, opVars, instrVars,
           bookVars
<1>21. CASE Execute
  BY <1>21, Executes DEF hostVars, opVars, bookVars
<1>22. CASE Press
  BY <1>22 DEF Press, hostVars, opVars, instrVars, bookVars
<1>23. CASE Over
  BY <1>23 DEF Over, vars, hostVars, opVars, instrVars, bookVars
<1>24. QED
  BY <1>1, <1>2, <1>3, <1>4, <1>5, <1>6, <1>7, <1>8, <1>9, <1>10, <1>11, <1>12, <1>13,
     <1>14, <1>15, <1>16, <1>17, <1>18, <1>19, <1>20, <1>21, <1>22, <1>23
     DEF Next, Inst, Program, AnOption

(* No operation returns before its instrument is done and its errors are   *)
(* read.                                                                   *)
LEMMA PollingStep ==
  ASSUME HpInv, Next PROVE Polling'
<1> USE DEF HpInv, Polling, InPoll, Ended, NoCmd, Cmd
<1>1. CASE Io
  BY <1>1 DEF Io, Back, OutOfScope, hostVars, opVars, instrVars, bookVars, Polls,
           Pending, Script
<1>2. CASE IoFails
  BY <1>2 DEF IoFails, Exit, OutOfScope, hostVars, opVars, instrVars, bookVars,
           Polls, Pending, Script
<1>3. CASE inst_rsp
  BY <1>3, PollSays DEF bookVars
<1>4. CASE check_error_write
  BY <1>4 DEF check_error_write, hostVars, opVars, instrVars, bookVars, Polls,
           Pending, Script
<1>5. CASE check_error_read
  BY <1>5 DEF check_error_read, Noted, hostVars, opVars, instrVars, bookVars,
           Polls, Pending, Script
<1>6. CASE serial_poll
  BY <1>6 DEF serial_poll, Exit, Back, OutOfScope, hostVars, opVars, instrVars,
           bookVars, Polls, Pending, Script
<1>7. ASSUME NEW models \in Config, parse_model_config(models) PROVE Polling'
  BY <1>7 DEF parse_model_config, At, Untouched, hostVars, opVars, instrVars,
           bookVars, Polls, Pending, Script
<1>8. CASE config_refused
  BY <1>8 DEF config_refused, At, Untouched, hostVars, opVars, instrVars,
           bookVars, Polls, Pending, Script
<1>9. CASE inst_init_fails
  BY <1>9 DEF inst_init_fails, At, Exit, OutOfScope, Untouched, hostVars, opVars,
           instrVars, bookVars, Polls, Pending, Script
<1>10. CASE probe_model_config
  BY <1>10 DEF probe_model_config, At, Untouched, hostVars, opVars, instrVars,
           bookVars, Polls, Pending, Script
<1>11. CASE probe_command
  BY <1>11 DEF probe_command, Start, Untouched, hostVars, opVars, instrVars,
           bookVars, Polls, Pending, Script
<1>12. CASE ctype_answered
  BY <1>12 DEF ctype_answered, At, Advance, Untouched, hostVars, opVars,
           instrVars, bookVars, Polls, Pending, Script
<1>13. CASE close4
  BY <1>13 DEF close4, At, Start, Untouched, hostVars, opVars, instrVars,
           bookVars, Polls, Pending, Script
<1>14. CASE close9
  BY <1>14 DEF close9, At, Start, Untouched, hostVars, opVars, instrVars,
           bookVars, Polls, Pending, Script
<1>15. CASE disambiguate_ctype
  BY <1>15 DEF disambiguate_ctype, At, Strict, Untouched, hostVars, opVars,
           instrVars, bookVars, Polls, Pending, Script
<1>16. CASE ctype_found
  BY <1>16 DEF ctype_found, At, Advance, Untouched, hostVars, opVars, instrVars,
           bookVars, Polls, Pending, Script
<1>17. CASE no_targets_needed
  BY <1>17 DEF no_targets_needed, At, Untouched, hostVars, opVars, instrVars,
           bookVars, Polls, Pending, Script
<1>18. CASE AnOption
  BY <1>18, Options DEF hostVars, instrVars
<1>19. CASE test_passed
  BY <1>19 DEF test_passed, At, hostVars, opVars, instrVars, bookVars, Polls,
           Pending, Script
<1>20. CASE done
  BY <1>20 DEF done, At, Exit, OutOfScope, Untouched, hostVars, opVars, instrVars,
           bookVars, Polls, Pending, Script
<1>21. CASE Execute
  BY <1>21, Executes DEF hostVars, opVars, bookVars
<1>22. CASE Press
  BY <1>22 DEF Press, hostVars, opVars, instrVars, bookVars, Polls, Pending,
           Script
<1>23. CASE Over
  BY <1>23 DEF Over, vars, hostVars, opVars, instrVars, bookVars, Polls, Pending,
           Script
<1>24. QED
  BY <1>1, <1>2, <1>3, <1>4, <1>5, <1>6, <1>7, <1>8, <1>9, <1>10, <1>11, <1>12, <1>13,
     <1>14, <1>15, <1>16, <1>17, <1>18, <1>19, <1>20, <1>21, <1>22, <1>23
     DEF Next, Inst, Program, AnOption

(* lerr_flag is 0 for the two CLOSE only.                                  *)
LEMMA FlagStep ==
  ASSUME HpInv, Next PROVE Flag'
<1> USE DEF HpInv, Flag, Ended
<1>1. CASE Io
  BY <1>1 DEF Io, Back, OutOfScope, hostVars, opVars, instrVars, bookVars,
           Pending, Script
<1>2. CASE IoFails
  BY <1>2 DEF IoFails, Exit, OutOfScope, hostVars, opVars, instrVars, bookVars,
           Pending, Script
<1>3. CASE inst_rsp
  BY <1>3 DEF inst_rsp, hostVars, opVars, instrVars, bookVars, Pending, Script
<1>4. CASE check_error_write
  BY <1>4 DEF check_error_write, hostVars, opVars, instrVars, bookVars, Pending,
           Script
<1>5. CASE check_error_read
  BY <1>5 DEF check_error_read, Noted, hostVars, opVars, instrVars, bookVars,
           Pending, Script
<1>6. CASE serial_poll
  BY <1>6 DEF serial_poll, Exit, Back, OutOfScope, hostVars, opVars, instrVars,
           bookVars, Pending, Script
<1>7. ASSUME NEW models \in Config, parse_model_config(models) PROVE Flag'
  BY <1>7 DEF parse_model_config, At, Untouched, hostVars, opVars, instrVars,
           bookVars, Pending, Script
<1>8. CASE config_refused
  BY <1>8 DEF config_refused, At, Untouched, hostVars, opVars, instrVars,
           bookVars, Pending, Script
<1>9. CASE inst_init_fails
  BY <1>9 DEF inst_init_fails, At, Exit, OutOfScope, Untouched, hostVars, opVars,
           instrVars, bookVars, Pending, Script
<1>10. CASE probe_model_config
  BY <1>10 DEF probe_model_config, At, Untouched, hostVars, opVars, instrVars,
           bookVars, Pending, Script
<1>11. CASE probe_command
  BY <1>11 DEF probe_command, Start, Untouched, hostVars, opVars, instrVars,
           bookVars, Pending, Script
<1>12. CASE ctype_answered
  BY <1>12 DEF ctype_answered, At, Advance, Untouched, hostVars, opVars,
           instrVars, bookVars, Pending, Script
<1>13. CASE close4
  BY <1>13 DEF close4, At, Start, Untouched, hostVars, opVars, instrVars,
           bookVars, Pending, Script
<1>14. CASE close9
  BY <1>14 DEF close9, At, Start, Untouched, hostVars, opVars, instrVars,
           bookVars, Pending, Script
<1>15. CASE disambiguate_ctype
  BY <1>15 DEF disambiguate_ctype, At, Strict, Untouched, hostVars, opVars,
           instrVars, bookVars, Pending, Script
<1>16. CASE ctype_found
  BY <1>16 DEF ctype_found, At, Advance, Untouched, hostVars, opVars, instrVars,
           bookVars, Pending, Script
<1>17. CASE no_targets_needed
  BY <1>17 DEF no_targets_needed, At, Untouched, hostVars, opVars, instrVars,
           bookVars, Pending, Script
<1>18. CASE AnOption
  BY <1>18, Options DEF hostVars, instrVars
<1>19. CASE test_passed
  BY <1>19 DEF test_passed, At, hostVars, opVars, instrVars, bookVars, Pending,
           Script
<1>20. CASE done
  BY <1>20 DEF done, At, Exit, OutOfScope, Untouched, hostVars, opVars, instrVars,
           bookVars, Pending, Script
<1>21. CASE Execute
  BY <1>21, Executes DEF hostVars, opVars, bookVars
<1>22. CASE Press
  BY <1>22 DEF Press, hostVars, opVars, instrVars, bookVars, Pending, Script
<1>23. CASE Over
  BY <1>23 DEF Over, vars, hostVars, opVars, instrVars, bookVars, Pending, Script
<1>24. QED
  BY <1>1, <1>2, <1>3, <1>4, <1>5, <1>6, <1>7, <1>8, <1>9, <1>10, <1>11, <1>12, <1>13,
     <1>14, <1>15, <1>16, <1>17, <1>18, <1>19, <1>20, <1>21, <1>22, <1>23
     DEF Next, Inst, Program, AnOption

(* What the two CLOSE tell is about the card in the slot.                  *)
LEMMA ClosingStep ==
  ASSUME HpInv, Next PROVE Closing'
<1> USE DEF HpInv, Closing, InPoll, Tells, CloseSays, Installed
<1>1. CASE Io
  <2>1. CASE con = "SERIAL"
    BY <1>1, <2>1 DEF Io
  <2>2. CASE con # "SERIAL"
    <3>1. sf_level = 0 /\ phase = "io" /\ busy = NoCmd /\ errreg = {}
      BY <1>1, <2>2 DEF Io, Polling, Pending, Script, Ended
    <3>2. /\ phase' = "rsp" /\ busy' \in {NoCmd, cmd} /\ pc' = pc /\ cmd' = cmd
          /\ UNCHANGED <<con, card, hostVars, errreg>>
      BY <1>1, <2>2, <3>1 DEF Io, Polls, instrVars
    <3>3. pc \in {"close4", "close9"} => busy' # NoCmd
      BY <1>1, <3>1 DEF Io, IsCommand, Pending, Script, Cmd, NoCmd
    <3>4. QED
      BY <3>1, <3>2, <3>3 DEF hostVars
  <2>3. QED
    BY <2>1, <2>2
<1>2. CASE IoFails
  BY <1>2 DEF IoFails, Exit, OutOfScope, hostVars, opVars, instrVars, bookVars,
           Polling, NoCmd, Cmd, Pending, Script, ProbeLabels, OptionLabels
<1>3. CASE inst_rsp
  BY <1>3, PollSays DEF bookVars, hostVars, Pending, Script, Cmd, NoCmd
<1>4. CASE check_error_write
  BY <1>4 DEF check_error_write, hostVars, opVars, instrVars, bookVars, Polling,
           NoCmd, Cmd, Pending, Script, ProbeLabels, OptionLabels
<1>5. CASE check_error_read
  BY <1>5 DEF check_error_read, Noted, hostVars, opVars, instrVars, bookVars,
           Polling, NoCmd, Cmd, Pending, Script, ProbeLabels, OptionLabels
<1>6. CASE serial_poll
  BY <1>6 DEF serial_poll, Exit, Back, OutOfScope, hostVars, opVars, instrVars,
           bookVars, Polling, NoCmd, Cmd, Pending, Script, ProbeLabels,
           OptionLabels
<1>7. ASSUME NEW models \in Config, parse_model_config(models) PROVE Closing'
  BY <1>7 DEF parse_model_config, At, Untouched, hostVars, opVars, instrVars,
           bookVars, Polling, NoCmd, Cmd, Pending, Script, ProbeLabels,
           OptionLabels
<1>8. CASE config_refused
  BY <1>8 DEF config_refused, At, Untouched, hostVars, opVars, instrVars,
           bookVars, Polling, NoCmd, Cmd, Pending, Script, ProbeLabels,
           OptionLabels
<1>9. CASE inst_init_fails
  BY <1>9 DEF inst_init_fails, At, Exit, OutOfScope, Untouched, hostVars, opVars,
           instrVars, bookVars, Polling, NoCmd, Cmd, Pending, Script, ProbeLabels,
           OptionLabels
<1>10. CASE probe_model_config
  BY <1>10 DEF probe_model_config, At, Untouched, hostVars, opVars, instrVars,
           bookVars, Polling, NoCmd, Cmd, Pending, Script, ProbeLabels,
           OptionLabels
<1>11. CASE probe_command
  BY <1>11 DEF probe_command, Start, Untouched, hostVars, opVars, instrVars,
           bookVars, Polling, NoCmd, Cmd, Pending, Script, ProbeLabels,
           OptionLabels
<1>12. CASE ctype_answered
  BY <1>12 DEF ctype_answered, At, Advance, Untouched, hostVars, opVars,
           instrVars, bookVars, Polling, NoCmd, Cmd, Pending, Script, ProbeLabels,
           OptionLabels
<1>13. CASE close4
  BY <1>13 DEF close4, At, Start, Untouched, hostVars, opVars, instrVars,
           bookVars, Polling, NoCmd, Cmd, Pending, Script, ProbeLabels,
           OptionLabels
<1>14. CASE close9
  BY <1>14 DEF close9, At, Start, Untouched, hostVars, opVars, instrVars,
           bookVars, Polling, NoCmd, Cmd, Pending, Script, ProbeLabels,
           OptionLabels
<1>15. CASE disambiguate_ctype
  BY <1>15 DEF disambiguate_ctype, At, Strict, Untouched, hostVars, opVars,
           instrVars, bookVars, Polling, NoCmd, Cmd, Pending, Script, ProbeLabels,
           OptionLabels
<1>16. CASE ctype_found
  BY <1>16 DEF ctype_found, At, Advance, Untouched, hostVars, opVars, instrVars,
           bookVars, Polling, NoCmd, Cmd, Pending, Script, ProbeLabels,
           OptionLabels
<1>17. CASE no_targets_needed
  BY <1>17 DEF no_targets_needed, At, Untouched, hostVars, opVars, instrVars,
           bookVars, Polling, NoCmd, Cmd, Pending, Script, ProbeLabels,
           OptionLabels
<1>18. CASE AnOption
  BY <1>18, Options DEF hostVars, instrVars
<1>19. CASE test_passed
  BY <1>19 DEF test_passed, At, hostVars, opVars, instrVars, bookVars, Polling,
           NoCmd, Cmd, Pending, Script, ProbeLabels, OptionLabels
<1>20. CASE done
  BY <1>20 DEF done, At, Exit, OutOfScope, Untouched, hostVars, opVars, instrVars,
           bookVars, Polling, NoCmd, Cmd, Pending, Script, ProbeLabels,
           OptionLabels
<1>21. CASE Execute
  BY <1>21, Executes DEF hostVars, opVars, bookVars, Polling, Pending, Script, Cmd
<1>22. CASE Press
  BY <1>22 DEF Press, hostVars, opVars, instrVars, bookVars, Polling, NoCmd, Cmd,
           Pending, Script, ProbeLabels, OptionLabels
<1>23. CASE Over
  BY <1>23 DEF Over, vars, hostVars, opVars, instrVars, bookVars, Polling, NoCmd,
           Cmd, Pending, Script, ProbeLabels, OptionLabels
<1> HIDE DEF HpInv, Closing, InPoll, Tells, CloseSays, Installed
<1>24. QED
  BY <1>1, <1>2, <1>3, <1>4, <1>5, <1>6, <1>7, <1>8, <1>9, <1>10, <1>11, <1>12, <1>13,
     <1>14, <1>15, <1>16, <1>17, <1>18, <1>19, <1>20, <1>21, <1>22, <1>23
     DEF Next, Inst, Program, AnOption

(* The two CLOSE tell the cards apart that CTYPE does not.                 *)
LEMMA CardTold ==
  ASSUME HpType, Reported(card[slot]) = 44471, Tells(err4, 4), Tells(err9, 9)
  PROVE  /\ err4 = 1 /\ err9 = 1 => card[slot] = 44476
         /\ err4 = 0 /\ err9 = 1 => card[slot] = 44477
         /\ err4 = 0 /\ err9 = 0 => card[slot] = 44471
<1>1. card[slot] \in {44471, 44476, 44477}
  BY DEF HpType, Reported, Models
<1>2. 4 \in Channel /\ 9 \in Channel
  BY Hp3488Assumption
<1>3. card[slot] = 44471 => err4 # 1 /\ err9 # 1
  BY <1>2 DEF Tells, Installed, Has
<1>4. card[slot] = 44476 => err4 = 1 /\ err9 = 1
  BY <1>2 DEF Tells, Installed, Has
<1>5. card[slot] = 44477 => err4 # 1 /\ err9 = 1
  BY <1>2 DEF Tells, Installed, Has
<1>6. QED
  BY <1>1, <1>3, <1>4, <1>5

(* One more card is known, or all are.                                     *)
LEMMA OneMore ==
  ASSUME HpType, HpType', card' = card, pc \in ProbeLabels, Advance(card[slot]),
         \A s \in Slots : s < slot => slot_config[s] = card[s]
  PROVE  /\ pc' \in ProbeLabels => \A s \in Slots : s < slot' => slot_config'[s] = card'[s]
         /\ pc' \in OptionLabels => slot_config' = card'
         /\ pc' # "main"
<1>1. card[slot] \in Models /\ Slots \subseteq Nat
  BY Cards DEF HpType
<1>2. /\ slot_config' = [slot_config EXCEPT ![slot] = card[slot]]
      /\ \/ slot = NSlots /\ pc' = "cmd" /\ slot' = slot
         \/ slot # NSlots /\ pc' = "ctype" /\ slot' = slot + 1
  BY <1>1, Advances
<1>3. \A s \in Slots : s <= slot => slot_config'[s] = card[s]
  BY <1>1, <1>2 DEF HpType
<1>4. CASE pc' = "cmd"
  <2>1. \A s \in Slots : slot_config'[s] = card[s]
    BY <1>2, <1>3, <1>4, Hp3488Assumption DEF Slots
  <2>2. slot_config' \in [Slots -> Models] /\ card \in [Slots -> Card]
    BY DEF HpType
  <2>3. slot_config' = card
    BY <2>1, <2>2
  <2>4. QED
    BY <1>4, <2>3 DEF ProbeLabels
<1>5. CASE pc' = "ctype"
  BY <1>1, <1>2, <1>3, <1>5 DEF OptionLabels, HpType
<1>6. QED
  BY <1>2, <1>4, <1>5
(* What the probe has found so far stays right.                            *)
LEMMA FindingStep ==
  ASSUME HpInv, Next PROVE Finding'
<1> USE DEF HpInv, Finding, ProbeLabels, OptionLabels
<1>1. CASE Io
  BY <1>1 DEF Io, Back, OutOfScope, hostVars, opVars, instrVars, bookVars,
           Pending, Script
<1>2. CASE IoFails
  BY <1>2 DEF IoFails, Exit, OutOfScope, hostVars, opVars, instrVars, bookVars,
           Pending, Script
<1>3. CASE inst_rsp
  BY <1>3 DEF inst_rsp, hostVars, opVars, instrVars, bookVars, Pending, Script
<1>4. CASE check_error_write
  BY <1>4 DEF check_error_write, hostVars, opVars, instrVars, bookVars, Pending,
           Script
<1>5. CASE check_error_read
  BY <1>5 DEF check_error_read, Noted, hostVars, opVars, instrVars, bookVars,
           Pending, Script
<1>6. CASE serial_poll
  BY <1>6 DEF serial_poll, Exit, Back, OutOfScope, hostVars, opVars, instrVars,
           bookVars, Pending, Script
<1>7. ASSUME NEW models \in Config, parse_model_config(models) PROVE Finding'
  BY <1>7 DEF parse_model_config, At, Untouched, hostVars, opVars, instrVars,
           bookVars, Pending, Script
<1>8. CASE config_refused
  BY <1>8 DEF config_refused, At, Untouched, hostVars, opVars, instrVars,
           bookVars, Pending, Script
<1>9. CASE inst_init_fails
  BY <1>9 DEF inst_init_fails, At, Exit, OutOfScope, Untouched, hostVars, opVars,
           instrVars, bookVars, Pending, Script
<1>10. CASE probe_model_config
  BY <1>10 DEF probe_model_config, At, Untouched, hostVars, Slots
<1>11. CASE probe_command
  BY <1>11 DEF probe_command, Start, Untouched, hostVars, opVars, instrVars,
           bookVars, Pending, Script
<1>12. CASE ctype_answered
  <2>1. CASE con = "SERIAL"
    BY <1>12, <2>1 DEF ctype_answered, Untouched
  <2>2. CASE con # "SERIAL" /\ Reported(card[slot]) = 44471
    BY <1>12, <2>2 DEF ctype_answered, At, Untouched
  <2>3. CASE con # "SERIAL" /\ Reported(card[slot]) # 44471
    <3>1. Reported(card[slot]) = card[slot]
      BY <2>3 DEF Reported
    <3>2. /\ Advance(card[slot]) /\ pc = "model" /\ card' = card
          /\ \A s \in Slots : s < slot => slot_config[s] = card[s]
      BY <1>12, <2>3, <3>1 DEF ctype_answered, At, Untouched
    <3>3. HpType'
      BY TypeStep
    <3>4. QED
      BY <3>2, <3>3, OneMore
  <2>4. QED
    BY <2>1, <2>2, <2>3
<1>13. CASE close4
  BY <1>13 DEF close4, At, Start, Untouched, hostVars, opVars, instrVars,
           bookVars, Pending, Script
<1>14. CASE close9
  BY <1>14 DEF close9, At, Start, Untouched, hostVars, opVars, instrVars,
           bookVars, Pending, Script
<1>15. CASE disambiguate_ctype
  BY <1>15 DEF disambiguate_ctype, At, Strict, Untouched, hostVars, opVars,
           instrVars, bookVars, Pending, Script
<1>16. CASE ctype_found
  <2>1. CASE con = "SERIAL"
    BY <1>16, <2>1 DEF ctype_found, Untouched
  <2>2. CASE con # "SERIAL"
    <3>1. /\ pc = "found" /\ card' = card /\ err4 \in {0, 1} /\ err9 \in {0, 1}
          /\ \A s \in Slots : s < slot => slot_config[s] = card[s]
      BY <1>16, <2>2 DEF ctype_found, At, Untouched, HpType
    <3>2. Tells(err4, 4) /\ Tells(err9, 9) /\ Reported(card[slot]) = 44471
      BY <2>2, <3>1 DEF Closing
    <3>3. ~(err4 = 1 /\ err9 = 0)
      BY <3>1 DEF Flag
    <3>4. Advance(card[slot])
      BY <1>16, <3>1, <3>2, <3>3, CardTold DEF ctype_found
    <3>5. HpType'
      BY TypeStep
    <3>6. QED
      BY <3>1, <3>4, <3>5, OneMore
  <2>3. QED
    BY <2>1, <2>2
<1>17. CASE no_targets_needed
  BY <1>17 DEF no_targets_needed, At, Untouched, hostVars, opVars, instrVars,
           bookVars, Pending, Script
<1>18. CASE AnOption
  BY <1>18, Options DEF hostVars, instrVars
<1>19. CASE test_passed
  BY <1>19 DEF test_passed, At, hostVars, opVars, instrVars, bookVars, Pending,
           Script
<1>20. CASE done
  BY <1>20 DEF done, At, Exit, OutOfScope, Untouched, hostVars, opVars, instrVars,
           bookVars, Pending, Script
<1>21. CASE Execute
  BY <1>21, Executes DEF hostVars, opVars, bookVars
<1>22. CASE Press
  BY <1>22 DEF Press, hostVars, opVars, instrVars, bookVars, Pending, Script
<1>23. CASE Over
  BY <1>23 DEF Over, vars, hostVars, opVars, instrVars, bookVars, Pending, Script
<1>24. QED
  BY <1>1, <1>2, <1>3, <1>4, <1>5, <1>6, <1>7, <1>8, <1>9, <1>10, <1>11, <1>12, <1>13,
     <1>14, <1>15, <1>16, <1>17, <1>18, <1>19, <1>20, <1>21, <1>22, <1>23
     DEF Next, Inst, Program, AnOption

(* The relays of the probe are closed until CRESET is done.                *)
LEMMA TracesStep ==
  ASSUME HpInv, Next PROVE Traces'
<1> USE DEF HpInv, Traces, InPoll, Ended
<1>1. CASE Io
  <2>1. CASE con = "SERIAL"
    BY <1>1, <2>1 DEF Io
  <2>2. CASE con # "SERIAL"
    <3>1. sf_level = 0 /\ phase = "io" /\ busy = NoCmd /\ errreg = {}
      BY <1>1, <2>2 DEF Io, Polling, Pending, Script, Ended
    <3>2. /\ phase' = "rsp" /\ busy' \in {NoCmd, cmd} /\ pc' = pc /\ cmd' = cmd
          /\ UNCHANGED <<con, card, hostVars, errreg, closed, kept, passed, testFailed>>
      BY <1>1, <2>2, <3>1 DEF Io, Polls, instrVars, bookVars
    <3>3. cmd.what \in {"CRESET", "TEST"} => busy' # NoCmd
      BY <1>1, <3>1 DEF Io, IsCommand, Cmd, NoCmd
    <3>4. QED
      BY <3>1, <3>2, <3>3 DEF hostVars, Pending, Script, Cmd, NoCmd
  <2>3. QED
    BY <2>1, <2>2
<1>2. CASE IoFails
  BY <1>2 DEF IoFails, Exit, OutOfScope, hostVars, opVars, instrVars, bookVars,
           Polling, NoCmd, Cmd, Pending, Script
<1>3. CASE inst_rsp
  BY <1>3, PollSays DEF bookVars, hostVars, NoCmd
<1>4. CASE check_error_write
  BY <1>4 DEF check_error_write, hostVars, opVars, instrVars, bookVars, Polling,
           NoCmd, Cmd, Pending, Script
<1>5. CASE check_error_read
  BY <1>5 DEF check_error_read, Noted, hostVars, opVars, instrVars, bookVars,
           Polling, NoCmd, Cmd, Pending, Script
<1>6. CASE serial_poll
  BY <1>6 DEF serial_poll, Exit, Back, OutOfScope, hostVars, opVars, instrVars,
           bookVars, Polling, NoCmd, Cmd, Pending, Script
<1>7. ASSUME NEW models \in Config, parse_model_config(models) PROVE Traces'
  BY <1>7 DEF parse_model_config, At, Untouched, hostVars, opVars, instrVars,
           bookVars, Polling, NoCmd, Cmd, Pending, Script
<1>8. CASE config_refused
  BY <1>8 DEF config_refused, At, Untouched, hostVars, opVars, instrVars,
           bookVars, Polling, NoCmd, Cmd, Pending, Script
<1>9. CASE inst_init_fails
  BY <1>9 DEF inst_init_fails, At, Exit, OutOfScope, Untouched, hostVars, opVars,
           instrVars, bookVars, Polling, NoCmd, Cmd, Pending, Script
<1>10. CASE probe_model_config
  BY <1>10 DEF probe_model_config, At, Untouched, hostVars, opVars, instrVars,
           bookVars, Polling, NoCmd, Cmd, Pending, Script
<1>11. CASE probe_command
  BY <1>11 DEF probe_command, Start, Untouched, hostVars, opVars, instrVars,
           bookVars, Polling, NoCmd, Cmd, Pending, Script
<1>12. CASE ctype_answered
  BY <1>12 DEF ctype_answered, At, Advance, Untouched, hostVars, opVars,
           instrVars, bookVars, Polling, NoCmd, Cmd, Pending, Script
<1>13. CASE close4
  BY <1>13 DEF close4, At, Start, Untouched, hostVars, opVars, instrVars,
           bookVars, Polling, NoCmd, Cmd, Pending, Script
<1>14. CASE close9
  BY <1>14 DEF close9, At, Start, Untouched, hostVars, opVars, instrVars,
           bookVars, Polling, NoCmd, Cmd, Pending, Script
<1>15. CASE disambiguate_ctype
  BY <1>15 DEF disambiguate_ctype, At, Strict, Untouched, hostVars, opVars,
           instrVars, bookVars, Polling, NoCmd, Cmd, Pending, Script
<1>16. CASE ctype_found
  BY <1>16 DEF ctype_found, At, Advance, Untouched, hostVars, opVars, instrVars,
           bookVars, Polling, NoCmd, Cmd, Pending, Script
<1>17. CASE no_targets_needed
  BY <1>17 DEF no_targets_needed, At, Untouched, hostVars, opVars, instrVars,
           bookVars, Polling, NoCmd, Cmd, Pending, Script
<1>18. CASE AnOption
  BY <1>18, Options DEF hostVars, instrVars
<1>19. CASE test_passed
  BY <1>19 DEF test_passed, At, hostVars, opVars, instrVars, bookVars, Polling,
           NoCmd, Cmd, Pending, Script
<1>20. CASE done
  BY <1>20 DEF done, At, Exit, OutOfScope, Untouched, hostVars, opVars, instrVars,
           bookVars, Polling, NoCmd, Cmd, Pending, Script
<1>21. CASE Execute
  <2>1. CASE con = "SERIAL" \/ pc \in Ended
    BY <1>21, <2>1, Executes
  <2>2. CASE con # "SERIAL" /\ pc \notin Ended
    <3>1. /\ InPoll /\ busy = cmd /\ busy' = NoCmd
          /\ UNCHANGED <<con, phase, pc, slot, kept, cmd>>
      BY <1>21, <2>2, Executes DEF Polling, hostVars, opVars, bookVars
    <3>2. CASE pc \in {"close4", "close9"}
      <4>1. cmd.what = "CLOSE" /\ cmd.on[1] = slot /\ closed' \subseteq closed \cup {cmd.on}
        BY <1>21, <3>1, <3>2, Executes DEF Pending, Script, Cmd
      <4>2. QED
        BY <2>2, <3>1, <3>2, <4>1
    <3>3. CASE pc = "creset"
      <4>1. cmd.what = "CRESET" /\ cmd.on[1] = slot
        BY <3>1, <3>3 DEF Pending, Script, Cmd
      <4>2. closed' = {r \in closed : r[1] # slot}
        BY <1>21, <3>1, <4>1, Executes
      <4>3. QED
        BY <2>2, <3>1, <3>3, <4>2
    <3>4. CASE pc \notin {"close4", "close9", "creset"}
      <4>1. cmd.what = "CLOSE" => cmd.on \in kept
        BY <3>1, <3>4 DEF Pending, Script, Cmd
      <4>2. pc # "closed"
        BY <3>1 DEF Pending, Script
      <4>3. closed' \subseteq kept
        BY <1>21, <2>2, <3>1, <3>4, <4>1, <4>2, Executes
      <4>4. QED
        BY <3>1, <3>4, <4>2, <4>3
    <3>5. QED
      BY <3>2, <3>3, <3>4
  <2>3. QED
    BY <2>1, <2>2
<1>22. CASE Press
  BY <1>22 DEF Press, hostVars, opVars, instrVars, bookVars, Polling, NoCmd, Cmd,
           Pending, Script
<1>23. CASE Over
  BY <1>23 DEF Over, vars, hostVars, opVars, instrVars, bookVars, Polling, NoCmd,
           Cmd, Pending, Script
<1>24. QED
  BY <1>1, <1>2, <1>3, <1>4, <1>5, <1>6, <1>7, <1>8, <1>9, <1>10, <1>11, <1>12, <1>13,
     <1>14, <1>15, <1>16, <1>17, <1>18, <1>19, <1>20, <1>21, <1>22, <1>23
     DEF Next, Inst, Program, AnOption

(* A self test that failed leaves an error, which ends the program.        *)
LEMMA TestingStep ==
  ASSUME HpInv, Next PROVE Testing'
<1> USE DEF HpInv, Testing, InPoll
<1>1. CASE Io
  <2>1. CASE con = "SERIAL"
    BY <1>1, <2>1 DEF Io
  <2>2. CASE con # "SERIAL"
    <3>1. sf_level = 0 /\ phase = "io" /\ busy = NoCmd /\ errreg = {}
      BY <1>1, <2>2 DEF Io, Polling, Pending, Script, Ended
    <3>2. /\ phase' = "rsp" /\ busy' \in {NoCmd, cmd} /\ pc' = pc /\ cmd' = cmd
          /\ UNCHANGED <<con, card, hostVars, errreg, closed, kept, passed, testFailed>>
      BY <1>1, <2>2, <3>1 DEF Io, Polls, instrVars, bookVars
    <3>3. cmd.what \in {"CRESET", "TEST"} => busy' # NoCmd
      BY <1>1, <3>1 DEF Io, IsCommand, Cmd, NoCmd
    <3>4. QED
      BY <3>1, <3>2, <3>3 DEF hostVars, Pending, Script, Cmd, NoCmd
  <2>3. QED
    BY <2>1, <2>2
<1>2. CASE IoFails
  BY <1>2 DEF IoFails, Exit, OutOfScope, hostVars, opVars, instrVars, bookVars,
           Polling, NoCmd, Cmd, Pending, Script, Flag, Tolerated, NotReady, Ended
<1>3. CASE inst_rsp
  BY <1>3, PollSays DEF bookVars, hostVars, Polling
<1>4. CASE check_error_write
  BY <1>4 DEF check_error_write, hostVars, opVars, instrVars, bookVars, Polling,
           NoCmd, Cmd, Pending, Script, Flag, Tolerated, NotReady, Ended
<1>5. CASE check_error_read
  BY <1>5 DEF check_error_read, Noted, hostVars, opVars, instrVars, bookVars,
           Polling, NoCmd, Cmd, Pending, Script, Flag, Tolerated, NotReady, Ended
<1>6. CASE serial_poll
  BY <1>6 DEF serial_poll, Exit, Back, OutOfScope, hostVars, opVars, instrVars,
           bookVars, Polling, NoCmd, Cmd, Pending, Script, Flag, Tolerated,
           NotReady, Ended
<1>7. ASSUME NEW models \in Config, parse_model_config(models) PROVE Testing'
  BY <1>7 DEF parse_model_config, At, Untouched, hostVars, opVars, instrVars,
           bookVars, Polling, NoCmd, Cmd, Pending, Script, Flag, Tolerated,
           NotReady, Ended
<1>8. CASE config_refused
  BY <1>8 DEF config_refused, At, Untouched, hostVars, opVars, instrVars,
           bookVars, Polling, NoCmd, Cmd, Pending, Script, Flag, Tolerated,
           NotReady, Ended
<1>9. CASE inst_init_fails
  BY <1>9 DEF inst_init_fails, At, Exit, OutOfScope, Untouched, hostVars, opVars,
           instrVars, bookVars, Polling, NoCmd, Cmd, Pending, Script, Flag,
           Tolerated, NotReady, Ended
<1>10. CASE probe_model_config
  BY <1>10 DEF probe_model_config, At, Untouched, hostVars, opVars, instrVars,
           bookVars, Polling, NoCmd, Cmd, Pending, Script, Flag, Tolerated,
           NotReady, Ended
<1>11. CASE probe_command
  BY <1>11 DEF probe_command, Start, Untouched, hostVars, opVars, instrVars,
           bookVars, Polling, NoCmd, Cmd, Pending, Script, Flag, Tolerated,
           NotReady, Ended
<1>12. CASE ctype_answered
  BY <1>12 DEF ctype_answered, At, Advance, Untouched, hostVars, opVars,
           instrVars, bookVars, Polling, NoCmd, Cmd, Pending, Script, Flag,
           Tolerated, NotReady, Ended
<1>13. CASE close4
  BY <1>13 DEF close4, At, Start, Untouched, hostVars, opVars, instrVars,
           bookVars, Polling, NoCmd, Cmd, Pending, Script, Flag, Tolerated,
           NotReady, Ended
<1>14. CASE close9
  BY <1>14 DEF close9, At, Start, Untouched, hostVars, opVars, instrVars,
           bookVars, Polling, NoCmd, Cmd, Pending, Script, Flag, Tolerated,
           NotReady, Ended
<1>15. CASE disambiguate_ctype
  BY <1>15 DEF disambiguate_ctype, At, Strict, Untouched, hostVars, opVars,
           instrVars, bookVars, Polling, NoCmd, Cmd, Pending, Script, Flag,
           Tolerated, NotReady, Ended
<1>16. CASE ctype_found
  BY <1>16 DEF ctype_found, At, Advance, Untouched, hostVars, opVars, instrVars,
           bookVars, Polling, NoCmd, Cmd, Pending, Script, Flag, Tolerated,
           NotReady, Ended
<1>17. CASE no_targets_needed
  BY <1>17 DEF no_targets_needed, At, Untouched, hostVars, opVars, instrVars,
           bookVars, Polling, NoCmd, Cmd, Pending, Script, Flag, Tolerated,
           NotReady, Ended
<1>18. CASE AnOption
  BY <1>18, Options DEF hostVars, instrVars
<1>19. CASE test_passed
  BY <1>19 DEF test_passed, At, hostVars, opVars, instrVars, bookVars, Polling,
           NoCmd, Cmd, Pending, Script, Flag, Tolerated, NotReady, Ended
<1>20. CASE done
  BY <1>20 DEF done, At, Exit, OutOfScope, Untouched, hostVars, opVars, instrVars,
           bookVars, Polling, NoCmd, Cmd, Pending, Script, Flag, Tolerated,
           NotReady, Ended
<1>21. CASE Execute
  BY <1>21, Executes DEF hostVars, opVars, bookVars, Polling, Pending, Script, Cmd, NoCmd, Ended
<1>22. CASE Press
  BY <1>22 DEF Press, hostVars, opVars, instrVars, bookVars, Polling, NoCmd, Cmd,
           Pending, Script, Flag, Tolerated, NotReady, Ended
<1>23. CASE Over
  BY <1>23 DEF Over, vars, hostVars, opVars, instrVars, bookVars, Polling, NoCmd,
           Cmd, Pending, Script, Flag, Tolerated, NotReady, Ended
<1>24. QED
  BY <1>1, <1>2, <1>3, <1>4, <1>5, <1>6, <1>7, <1>8, <1>9, <1>10, <1>11, <1>12, <1>13,
     <1>14, <1>15, <1>16, <1>17, <1>18, <1>19, <1>20, <1>21, <1>22, <1>23
     DEF Next, Inst, Program, AnOption
-----------------------------------------------------------------------------
(* HpInv is an invariant, on a serial line too.                            *)
THEOREM HpInvariance == Spec => []HpInv
<1>1. HpInv /\ [Next]_vars => HpInv'
  <2>1. CASE Next
    BY <2>1, TypeStep, QueueStep, PendingStep, PollingStep, FlagStep, ClosingStep, FindingStep,
       TracesStep, TestingStep DEF HpInv
  <2>2. CASE UNCHANGED vars
    BY <2>2 DEF HpInv, HpType, Queued, Pending, InPoll, Polling, Flag, Tells, CloseSays, Closing,
                Finding, Traces, Testing, Installed, vars, hostVars, opVars, instrVars, bookVars
  <2>3. QED
    BY <2>1, <2>2
<1>2. QED
  BY InitHp, <1>1, PTL DEF Spec

(* inst.c: when an inst_* operation returns to hp3488.c, the instrument is *)
(* done and no error is left for a later operation to be blamed for.       *)
THEOREM ErrorsAreRead == Spec => []ErrorsNotLost
<1>1. HpInv => ErrorsNotLost
  BY DEF HpInv, Polling, InPoll, ErrorsNotLost, Idle
<1>2. QED
  BY <1>1, HpInvariance, PTL

(* hp3488.c:619: when the self test is reported as passed, it has passed.  *)
THEOREM SelfTestIsHonest == Spec => []SelfTestHonest
<1>1. HpInv => SelfTestHonest
  BY DEF HpInv, Testing, SelfTestHonest
<1>2. QED
  BY <1>1, HpInvariance, PTL

(* _check_error forgives a logic error to the two CLOSE of the probe only. *)
THEOREM ForgivesTheProbe == Spec => StrictOutsideProbe
<1>1. ASSUME HpInv, Next, phase = "errrd", phase' = "judge", "LOGIC" \in errreg, err' # 1
      PROVE  next \in {"close9", "closed"}
  <2>1. check_error_read
    BY <1>1, Options
       DEF Next, Inst, Program, Io, IoFails, Exit, OutOfScope, inst_rsp, check_error_write,
           serial_poll, parse_model_config, config_refused, inst_init_fails, probe_model_config,
           probe_command, ctype_answered, close4, close9, disambiguate_ctype, ctype_found,
           no_targets_needed, close_target, open_target, query_caddr, test, test_passed, clear,
           get_idn, inst_loc, done, Option, Start, At, Execute, Press, Over, Ended, vars, opVars
  <2>2. Tolerated
    BY <1>1, <2>1 DEF check_error_read, NotReady
  <2>3. pc \in {"close4", "close9"}
    BY <1>1, <2>2 DEF HpInv, Flag, Tolerated
  <2>4. QED
    BY <1>1, <2>3 DEF HpInv, Pending, Script
<1>2. HpInv /\ [Next]_vars =>
      [phase = "errrd" /\ phase' = "judge" /\ "LOGIC" \in errreg /\ err' # 1
          => next \in {"close9", "closed"}]_vars
  BY <1>1
<1>3. QED
  BY <1>2, HpInvariance, PTL DEF Spec, StrictOutsideProbe

(* A line on which no poll is made, and so no error read, tells the probe  *)
(* nothing: what it finds is about the others.                             *)
AlwaysPolls == "SERIAL" \notin Con

(* The connection does not change.                                         *)
LEMMA ConStays == ASSUME AlwaysPolls PROVE Spec => [](con # "SERIAL")
<1>1. Init => con # "SERIAL"
  BY DEF Init, AlwaysPolls
<1>2. [Next]_vars => con' = con
  <2>1. Inst => con' = con
    BY DEF Inst, Io, IoFails, inst_rsp, check_error_write, check_error_read, serial_poll
  <2>2. AnOption => con' = con
    BY DEF AnOption, close_target, open_target, query_caddr, test, clear, get_idn, inst_loc,
           Option
  <2>3. Program => con' = con
    BY <2>2 DEF AnOption, Program, parse_model_config, config_refused, inst_init_fails,
           probe_model_config, probe_command, ctype_answered, close4, close9,
           disambiguate_ctype, ctype_found, no_targets_needed, test_passed, done, Untouched
  <2>4. Execute \/ Press \/ Over \/ UNCHANGED vars => con' = con
    BY DEF Execute, Press, Over, vars
  <2>5. QED
    BY <2>1, <2>3, <2>4 DEF Next
<1>3. con # "SERIAL" /\ [Next]_vars => (con # "SERIAL")'
  BY <1>2
<1>4. QED
  BY <1>1, <1>3, PTL DEF Spec

(* hp3488.c:_probe_model_config names the card that is in each slot.       *)
THEOREM TheProbeIsRight == ASSUME AlwaysPolls PROVE Spec => []ProbeIsRight
<1>1. HpInv /\ con # "SERIAL" => ProbeIsRight
  BY DEF HpInv, Finding, OptionLabels, ProbeIsRight
<1>2. QED
  BY <1>1, HpInvariance, ConStays, PTL

(* On a serial line a command may be executed after its operation returned,*)
(* but before the next is written: so CRESET is done before DON is, and no *)
(* relay of the probe is closed when it goes on to the next slot.          *)
Moving == {"close4", "close9", "closed", "creset"}
Unpolled ==
    con = "SERIAL" /\ pc \notin Ended =>
        /\ busy.what = "CLOSE" => busy.on \in kept \/ (busy.on[1] = slot /\ pc \in Moving)
        /\ busy.what = "CRESET" => busy.on[1] = slot /\ pc = "don"
        /\ \A r \in closed :
            r \in kept \/ (r[1] = slot /\ (pc \in Moving \/ busy.what = "CRESET"))

(* Every step keeps it.                                                    *)
LEMMA UnpolledStep ==
  ASSUME HpInv, Unpolled, [Next]_vars PROVE Unpolled'
<1> SUFFICES ASSUME (con = "SERIAL" /\ pc \notin Ended)' PROVE Unpolled'
  BY DEF Unpolled
<1> USE DEF Unpolled, Moving, Ended
<1>1. CASE Io
  <2>1. con = "SERIAL" /\ pc' = next /\ busy' \in {NoCmd, cmd} /\ busy = NoCmd
        /\ UNCHANGED <<slot, closed, kept>> /\ phase = "io"
    BY <1>1 DEF Io, Back, Polls, hostVars, bookVars
  <2>2. cmd.what = "CRESET" => busy' = cmd
    BY <1>1, <2>1 DEF Io, IsCommand
  <2>3. pc \notin Ended
    BY <2>1 DEF HpInv, Pending, Script
  <2>4. QED
    BY <2>1, <2>2, <2>3 DEF HpInv, Pending, Script, Cmd, NoCmd
<1>2. CASE IoFails
  BY <1>2 DEF IoFails, Exit
<1>3. CASE inst_rsp \/ check_error_write \/ check_error_read
  BY <1>3, PollSays DEF check_error_write, check_error_read, hostVars, instrVars, bookVars, HpInv
<1>4. CASE serial_poll
  BY <1>4 DEF serial_poll, hostVars, instrVars, bookVars, HpInv, Polling, InPoll
<1>5. CASE AnOption
  BY <1>5, Options DEF hostVars, instrVars, HpInv
<1>6. CASE Program /\ ~AnOption
  <2>1. UNCHANGED <<con, busy, closed, kept>> /\ pc \notin Ended
    BY <1>6 DEF AnOption, Program, parse_model_config, config_refused, inst_init_fails,
             probe_model_config, probe_command, ctype_answered, close4, close9,
             disambiguate_ctype, ctype_found, no_targets_needed, test_passed, done, Untouched,
             Start, At, instrVars, bookVars, Script
  <2>2. \/ UNCHANGED <<pc, slot>>
        \/ pc \notin Moving \cup {"don"} 
        \/ pc = "closed" /\ pc' = "creset" /\ slot' = slot
    BY <1>6 DEF AnOption, Program, parse_model_config, config_refused, inst_init_fails,
             probe_model_config, probe_command, ctype_answered, close4, close9,
             disambiguate_ctype, ctype_found, no_targets_needed, test_passed, done, Untouched,
             Start, At, instrVars, bookVars, hostVars, opVars
  <2>3. QED
    BY <2>1, <2>2
<1>7. CASE Execute
  <2>1. UNCHANGED <<con, pc, slot, kept>> /\ busy' = NoCmd
    BY <1>7, Executes DEF hostVars, bookVars
  <2>2. CASE busy.what = "CLOSE"
    <3>1. closed' \subseteq closed \cup {busy.on}
      BY <1>7, <2>2, Executes
    <3>2. QED
      BY <2>1, <2>2, <3>1 DEF NoCmd, Cmd
  <2>3. CASE busy.what = "CRESET"
    <3>1. closed' = {r \in closed : r[1] # slot}
      BY <1>7, <2>1, <2>3, Executes
    <3>2. QED
      BY <2>1, <3>1 DEF NoCmd, Cmd
  <2>4. CASE busy.what \notin {"CLOSE", "CRESET"}
    <3>1. closed' \subseteq closed
      BY <1>7, <2>4, Executes
    <3>2. QED
      BY <2>1, <2>4, <3>1 DEF NoCmd, Cmd
  <2>5. QED
    BY <2>2, <2>3, <2>4
<1>8. CASE Press \/ Over \/ UNCHANGED vars
  BY <1>8 DEF Press, Over, vars, hostVars, opVars, instrVars, bookVars
<1>9. QED
  BY <1>1, <1>2, <1>3, <1>4, <1>5, <1>6, <1>7, <1>8 DEF Next, Inst

(* hp3488.c:_disambiguate_ctype ends with CRESET: no relay the probe       *)
(* closed stays so, on a serial line too.                                  *)
THEOREM LeavesNoTrace == Spec => []ProbeLeavesNoTrace
<1>1. Init => Unpolled
  BY DEF Init, Unpolled, NoCmd, Cmd
<1>2. HpInv /\ Unpolled /\ [Next]_vars => Unpolled'
  BY UnpolledStep
<1>3. HpInv /\ Unpolled => ProbeLeavesNoTrace
  <2>1. CASE con # "SERIAL"
    BY <2>1 DEF HpInv, Traces, Ended, ProbeLeavesNoTrace
  <2>2. CASE con = "SERIAL"
    BY <2>2 DEF Unpolled, Moving, Ended, ProbeLeavesNoTrace
  <2>3. QED
    BY <2>1, <2>2
<1>4. QED
  BY <1>1, <1>2, <1>3, HpInvariance, PTL DEF Spec
=============================================================================
