------------------------------ MODULE Vxi11Io -------------------------------
(***************************************************************************)
(* libvxi11/vxi11_device.c: vxi11_write and vxi11_read on an open handle.  *)
(* Both split a transfer into RPCs, under one lock if the handle's policy  *)
(* asks for it, and both count io_timeout down from RPC to RPC, in an      *)
(* unsigned word.  While an RPC is in progress another thread may call     *)
(* vxi11_abort, and another client of the instrument may use it.           *)
(*                                                                         *)
(* A byte of the caller's buffer is named by its offset in it, a byte of   *)
(* the instrument's answer by its place there.  Time is in units of the    *)
(* smallest io_timeout.                                                    *)
(***************************************************************************)
EXTENDS Integers, Sequences, FiniteSets

CONSTANTS
    MaxLen,       \* bound: the longest transfer the program asks for
    MaxRecvSize,  \* what the server announced for one device_write
    Timeout,      \* the handle's io_timeout
    Slack,        \* how much later than its timeout an answer may come in
    Word,         \* unsigned long holds 0 .. Word - 1
    MaxSpent      \* bound: elapsed time after which no more is counted

ASSUME Vxi11IoAssumption ==
    /\ MaxLen \in Nat \ {0} /\ MaxRecvSize \in Nat \ {0}
    /\ Timeout \in 1 .. Word - 1 /\ Slack \in Nat
    /\ Word \in Nat /\ MaxSpent \in Nat

VARIABLES
    opt,        \* the handle's doLocking, doEndw and termCharSet
    op,         \* the call in progress: "none", "write", "read"
    at,         \* where it is: "idle", "lock", "loop", "rpc", "unlock"
    n,          \* the caller's len
    len,        \* len of the source: what is still to be transferred
    off,        \* buf of the source, as an offset from the caller's buffer
    tmout, res, reason, count,
    endw,       \* VXI11_FLAG_ENDW in flags
    ret,        \* what the last call returned
    got,        \* what the instrument received during this vxi11_write
    msg,        \* the instrument's answer: TRUE where its terminator stands
    sent,       \* how much of it has been sent
    mem,        \* what vxi11_read stored, by offset in the caller's buffer
    holder,     \* who holds the instrument's lock: "none", "us", "other"
    aborted,    \* device_abort reached the server during the RPC in progress
    spent,      \* time the RPCs of this call took together
    late        \* one of them was answered after the timeout it was given

loopVars == <<op, n, len, off, tmout, res, reason, count, endw>>
instVars == <<got, msg, sent, mem>>
timeVars == <<spent, late>>
vars == <<opt, loopVars, at, ret, instVars, holder, aborted, timeVars>>

Reasons == {"END", "CHR", "REQCNT"}
RpcErrors == {"IOERROR", "IOTIMEOUT", "CORE_RPCERR"}

(* Unsigned subtraction.                                                   *)
Minus(a, b) == (a - b) % Word

(* An RPC moves what is left, but not more than the server takes.          *)
Chunk == IF len > MaxRecvSize THEN MaxRecvSize ELSE len

-----------------------------------------------------------------------------
Init ==
    /\ opt \in [doLocking : BOOLEAN, doEndw : BOOLEAN, termCharSet : BOOLEAN]
    /\ op = "none" /\ at = "idle" /\ ret = "SUCCESS"
    /\ n = 0 /\ len = 0 /\ off = 0 /\ tmout = 0 /\ res = "SUCCESS"
    /\ reason = {} /\ count = 0 /\ endw = FALSE
    /\ got = <<>> /\ msg = <<>> /\ sent = 0 /\ mem = <<>>
    /\ holder = "none" /\ aborted = FALSE /\ spent = 0 /\ late = FALSE

(***************************************************************************)
(* The calls.                                                              *)
(***************************************************************************)
Unlocked == "loop"                                         \* mutant of FirstStep
FirstStep == IF opt.doLocking THEN "lock" ELSE "loop"

Begin(fn, m) ==
    /\ at = "idle"
    /\ op' = fn /\ n' = m /\ len' = m /\ off' = 0 /\ tmout' = Timeout
    /\ res' = "SUCCESS" /\ reason' = {} /\ count' = 0 /\ endw' = FALSE
    /\ got' = <<>> /\ sent' = 0 /\ mem' = <<>> /\ spent' = 0 /\ late' = FALSE
    /\ at' = FirstStep
    /\ aborted' = FALSE
    /\ UNCHANGED <<opt, ret, holder>>

vxi11_write(m) == Begin("write", m) /\ msg' = <<>>

(* The instrument has an answer of any length, with terminators anywhere.  *)
vxi11_read(m, answer) == Begin("read", m) /\ msg' = answer

Return(code) == at' = "idle" /\ ret' = code

(* vxi11_lock with the policy on: it waits, and is granted or fails, as it *)
(* does when a failed unlock left this link its lock.  When the RPC fails  *)
(* the server may have granted the lock all the same.                      *)
TakeLock ==
    /\ at = "lock"
    /\ \/ holder = "none" /\ holder' = "us" /\ at' = "loop" /\ UNCHANGED ret
       \/ holder # "none" /\ Return("LOCKED") /\ UNCHANGED holder
       \/ Return("CORE_RPCERR") /\ \/ UNCHANGED holder
                                   \/ holder = "none" /\ holder' = "us"
    /\ UNCHANGED <<opt, loopVars, instVars, aborted, timeVars>>

(* The conditions of the two loops.                                        *)
MoreAfterReason == res = "SUCCESS" /\ len > 0              \* mutants of More
MoreAfterAbort ==
    res \in {"SUCCESS", "ABORT"} /\ len > 0 /\ (op = "read" => reason = {})
MoreAfterError ==
    len > 0 /\ IF op = "read" THEN reason = {} ELSE res = "SUCCESS"
More == res = "SUCCESS" /\ len > 0 /\ (op = "read" => reason = {})

(* flags keep ENDW from the chunk that is not longer than what the server  *)
(* takes.                                                                  *)
EveryChunkEnds == opt.doEndw                               \* mutant of EndFlag
EndFlag == endw \/ (len <= MaxRecvSize /\ opt.doEndw)

(* One more RPC.                                                           *)
SendWrite ==
    /\ at = "loop" /\ op = "write" /\ More
    /\ at' = "rpc"
    /\ endw' = EndFlag
    /\ aborted' = FALSE
    /\ UNCHANGED <<opt, op, n, len, off, tmout, res, reason, count, ret, instVars,
                   holder, timeVars>>

SendRead ==
    /\ at = "loop" /\ op = "read" /\ More
    /\ at' = "rpc"
    /\ aborted' = FALSE
    /\ UNCHANGED <<opt, loopVars, ret, instVars, holder, timeVars>>

(* The loop ends.                                                          *)
LoopDone ==
    /\ at = "loop" /\ ~More
    /\ IF opt.doLocking THEN at' = "unlock" /\ UNCHANGED ret ELSE Return(res)
    /\ UNCHANGED <<opt, loopVars, instVars, holder, aborted, timeVars>>

(* vxi11_unlock; its failure is reported only if nothing failed before.    *)
UnlockUnchecked ==                                         \* mutant of ReleaseLock
    /\ at = "unlock"
    /\ holder' \in {"none", "us"} /\ Return(res)
    /\ UNCHANGED <<opt, loopVars, instVars, aborted, timeVars>>

ReleaseLock ==
    /\ at = "unlock"
    /\ \/ holder' = "none" /\ Return(res)
       \/ Return(IF res = "SUCCESS" THEN "CORE_RPCERR" ELSE res) /\ holder' \in {"none", "us"}
    /\ UNCHANGED <<opt, loopVars, instVars, aborted, timeVars>>

(***************************************************************************)
(* The answers to the RPCs.                                                *)
(***************************************************************************)
(* The RPC took d: tmout shrinks by as much, and 0 is the end of it.       *)
Elapse(d) ==
    /\ tmout' = Minus(tmout, d)
    /\ spent' = IF spent + d > MaxSpent THEN MaxSpent ELSE spent + d
    /\ late' = (late \/ d > tmout)

CountNoFurther(d, left) == Elapse(d) /\ res' = "SUCCESS"   \* mutant of CountDown

CountDown(d, left) ==
    /\ Elapse(d)
    /\ res' = IF left > 0 /\ tmout' <= 0 THEN "IOTIMEOUT" ELSE "SUCCESS"

(* A server answers within the timeout it was given, give or take Slack.   *)
InTime == {d \in 0 .. Timeout + Slack : d <= tmout + Slack}

Offsets(k) ==
    [i \in 1 .. k |-> [who |-> "us", byte |-> off + i - 1, end |-> endw /\ i = Chunk]]

(* The instrument took k bytes; old ICS 8064 firmware says 0 when it took  *)
(* them all.                                                               *)
WriteAnswered(k, said, d) ==
    /\ at = "rpc" /\ op = "write" /\ ~aborted /\ holder # "other"
    /\ k \in 1 .. Chunk /\ (said = k \/ (said = 0 /\ k = Chunk))
    /\ LET size == IF said = 0 THEN Chunk ELSE said IN
        /\ off' = off - size
        /\ len' = len - size
        /\ CountDown(d, len - size)
    /\ got' = got \o Offsets(k)
    /\ at' = "loop"
    /\ UNCHANGED <<opt, op, n, reason, count, endw, ret, msg, sent, mem, holder, aborted>>

(* The bytes the core channel copies to buf.                               *)
StoreAtStart(k) ==                                         \* mutant of Store
    [i \in 1 .. off + k |-> IF i <= k THEN sent + i ELSE mem[i - k]]
Store(k) == [i \in 1 .. off + k |-> IF i <= off THEN mem[i] ELSE sent + i - off]

(* The next k bytes of the answer.  The server gives a reason to stop when *)
(* the answer ends, the terminator was seen or the request is filled; it   *)
(* may also send less for no reason.                                       *)
ReadAnswered(k, d) ==
    /\ at = "rpc" /\ op = "read" /\ ~aborted /\ holder # "other"
    /\ k <= len /\ sent + k <= Len(msg)
    /\ k = 0 => sent = Len(msg)
    /\ LET part == SubSeq(msg, sent + 1, sent + k) IN
        /\ opt.termCharSet => \A i \in 1 .. k - 1 : ~part[i]
        /\ reason' = (IF sent + k = Len(msg) THEN {"END"} ELSE {})
                     \cup (IF opt.termCharSet /\ k > 0 /\ part[k] THEN {"CHR"} ELSE {})
                     \cup (IF k = len THEN {"REQCNT"} ELSE {})
    /\ mem' = Store(k)
    /\ sent' = sent + k
    /\ count' = count + k
    /\ len' = len - k
    /\ off' = off + k
    /\ CountDown(d, len - k)
    /\ at' = "loop"
    /\ UNCHANGED <<opt, op, n, endw, ret, got, msg, holder, aborted>>

(* An answer that is an error still brings data and a reason, which are    *)
(* stored; buf, len and count do not take them in.  Where there is no      *)
(* answer, which is CORE_RPCERR, there is nothing to store.                *)
StoreAnyway(code) ==
    IF op = "read" /\ code # "CORE_RPCERR"
    THEN /\ \E k \in 0 .. len :
              /\ holder = "other" => k = 0
              /\ sent + k <= Len(msg)
              /\ mem' = Store(k) /\ sent' = sent + k
         /\ reason' \in {{}, Reasons}    \* one or none: the loop asks no more
    ELSE UNCHANGED <<reason, sent, mem>>

(* The RPC fails; the instrument may have taken some of the bytes.         *)
RpcFails(code) ==
    /\ at = "rpc"
    /\ \/ code \in RpcErrors
       \/ code = "ABORT" /\ aborted
       \/ code = "LOCKED" /\ holder = "other"
    /\ res' = code
    /\ StoreAnyway(code)
    /\ IF op = "write" /\ holder # "other"
       THEN \E k \in 0 .. Chunk : got' = got \o Offsets(k)
       ELSE UNCHANGED got
    /\ at' = "loop"
    /\ UNCHANGED <<opt, op, n, len, off, tmout, count, endw, ret, msg, holder, aborted,
                   timeVars>>

(***************************************************************************)
(* Another thread, and another client of the instrument.                   *)
(***************************************************************************)
(* device_abort ends the RPC in progress; between two RPCs it ends nothing.*)
(* It may also do nothing: on a handle opened without the abort channel it *)
(* is refused (NOCHAN), and the device_abort may fail or get lost.  The    *)
(* link is there as long as the call is (no LINKINVAL).                    *)
vxi11_abort ==
    /\ at = "rpc" /\ ~aborted
    /\ aborted' \in BOOLEAN
    /\ UNCHANGED <<opt, loopVars, at, ret, instVars, holder, timeVars>>

OtherLocks ==
    /\ holder = "none" /\ holder' = "other"
    /\ UNCHANGED <<opt, loopVars, at, ret, instVars, aborted, timeVars>>

OtherUnlocks ==
    /\ holder = "other" /\ holder' = "none"
    /\ UNCHANGED <<opt, loopVars, at, ret, instVars, aborted, timeVars>>

(* The other client writes to the instrument, unless our lock forbids it.  *)
OtherWrites ==
    /\ holder # "us" /\ op = "write" /\ at \in {"loop", "rpc"}
    /\ \A i \in DOMAIN got : got[i].who = "us"     \* bound: once a call
    /\ got' = Append(got, [who |-> "other", byte |-> 0, end |-> FALSE])
    /\ UNCHANGED <<opt, loopVars, at, ret, msg, sent, mem, holder, aborted, timeVars>>

(* The lock a failed unlock or lock left behind goes with the link.        *)
LinkClosed ==
    /\ at = "idle" /\ holder = "us" /\ holder' = "none"
    /\ UNCHANGED <<opt, loopVars, at, ret, instVars, aborted, timeVars>>

-----------------------------------------------------------------------------
(* Without termCharSet no byte is a terminator.                            *)
Answers == UNION {[1 .. k -> IF opt.termCharSet THEN BOOLEAN ELSE {FALSE}] : k \in 0 .. MaxLen}

CallStep ==
    \/ TakeLock \/ SendWrite \/ SendRead \/ LoopDone \/ ReleaseLock
    \/ \E d \in InTime :
        \/ \E k \in 1 .. MaxLen, said \in 0 .. MaxLen : WriteAnswered(k, said, d)
        \/ \E k \in 0 .. MaxLen : ReadAnswered(k, d)
    \/ \E code \in RpcErrors \cup {"ABORT", "LOCKED"} : RpcFails(code)

Next ==
    \/ \E m \in 1 .. MaxLen :
        vxi11_write(m) \/ \E answer \in Answers : vxi11_read(m, answer)
    \/ CallStep
    \/ vxi11_abort
    \/ OtherLocks \/ OtherUnlocks \/ OtherWrites \/ LinkClosed

Spec == Init /\ [][Next]_vars

(* The calling thread runs, and an RPC is answered or times out.           *)
FairSpec == Spec /\ WF_vars(CallStep)

-----------------------------------------------------------------------------
(* What of got came from this call.                                        *)
OursAt == {i \in DOMAIN got : got[i].who = "us"}
Ours == SelectSeq(got, LAMBDA b : b.who = "us")

(* A write that returned success gave the instrument as many bytes as it   *)
(* was asked to, however the server cut the chunks, and flagged END on the *)
(* last of them and on no other, if the handle's policy says so.  Which    *)
(* bytes they are is BytesInOrder.                                         *)
WroteAsMany ==
    op = "write" /\ at = "idle" /\ ret = "SUCCESS" =>
        /\ Cardinality(OursAt) = n
        /\ \A i \in OursAt : got[i].end <=> (opt.doEndw /\ \A j \in OursAt : j <= i)

(* With doLocking the RPCs of one write reach the instrument without those *)
(* of another client between them, and a call that returned success left   *)
(* no lock behind, although a failed unlock is forgotten when something    *)
(* failed before it.                                                       *)
LockSpansCall ==
    /\ opt.doLocking => \A i \in DOMAIN got : got[i].who = "us"
    /\ at = "idle" /\ ret = "SUCCESS" => holder # "us"

(* vxi11_device.h:59 and :76: no RPC is started once io_timeout is used up.*)
TimesOut == at = "rpc" => spent < Timeout

(* What the code makes of that: once io_timeout is used up no RPC is       *)
(* started, however many there were, unless one of them was answered later *)
(* than it was asked to be.                                                *)
TimesOutUnlessLate == at = "rpc" /\ ~late => spent < Timeout

(* What a read stored is the beginning of the answer, each byte once and   *)
(* in its place, within the caller's buffer, also when it failed half way; *)
(* the bytes it counts are stored.  If it returned success it counts all   *)
(* that is stored, and the buffer is full, or it stopped at the end of the *)
(* answer or, with termCharSet, at its first terminator.                   *)
ReadIsTheAnswer ==
    op = "read" =>
        /\ count <= Len(mem) /\ Len(mem) <= n
        /\ \A i \in DOMAIN mem : mem[i] = i
        /\ at = "idle" /\ ret = "SUCCESS" =>
              /\ Len(mem) = count
              /\ count = n \/ count = Len(msg) \/ (opt.termCharSet /\ msg[count])
              /\ opt.termCharSet => \A i \in 1 .. count - 1 : ~msg[i]

(* An RPC that vxi11_abort interrupted is the last of its call.            *)
AbortEndsCall == [][aborted /\ at = "loop" => at' # "rpc"]_vars

(* Every call returns.                                                     *)
CallReturns == at # "idle" ~> at = "idle"

(* vxi11_device.h:55: write len bytes of buf - those, in their order.      *)
BytesInOrder == \A i \in DOMAIN Ours : Ours[i].byte = i - 1
=============================================================================
