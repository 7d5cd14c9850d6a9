--------------------------- MODULE Vxi11IoProofs ----------------------------
(***************************************************************************)
(* Proofs about Vxi11Io for transfers of any length, chunks of any size,   *)
(* any io_timeout and any width of the word it is counted down in.         *)
(*                                                                         *)
(* IoInv is what the loops of vxi11_write and vxi11_read keep: where the   *)
(* call is tells what the source's variables hold (Progress), what the     *)
(* instrument got (Writing), what the caller's buffer has (Reading), and   *)
(* who holds the lock (Locking).  How long it took (Timing) is apart: it   *)
(* is known as long as no answer came later than it was asked for.         *)
(***************************************************************************)
EXTENDS Vxi11Io, SequenceTheorems, FiniteSetTheorems, TLAPS

Byte == [who : {"us", "other"}, byte : Int, end : BOOLEAN]

IoType ==
    /\ opt \in [doLocking : BOOLEAN, doEndw : BOOLEAN, termCharSet : BOOLEAN]
    /\ op \in {"none", "write", "read"}
    /\ at \in {"idle", "lock", "loop", "rpc", "unlock"}
    /\ n \in Nat /\ len \in Nat /\ off \in Int /\ tmout \in Int
    /\ reason \subseteq {"END", "CHR", "REQCNT"}
    /\ count \in Nat /\ endw \in BOOLEAN
    /\ got \in Seq(Byte) /\ msg \in Seq(BOOLEAN) /\ sent \in Nat
    /\ holder \in {"none", "us", "other"} /\ aborted \in BOOLEAN /\ spent \in Nat
    /\ late \in BOOLEAN

(* Where the call is, and whether it goes on from there.                   *)
Progress ==
    /\ at # "idle" => op # "none"
    /\ at = "rpc" => More
    /\ at = "unlock" => ~More
    /\ at = "idle" /\ ret = "SUCCESS" /\ op # "none" => res = "SUCCESS" /\ ~More
    /\ aborted /\ at # "rpc" => res # "SUCCESS"

Writing ==
    op = "write" =>
        /\ endw => opt.doEndw /\ len <= MaxRecvSize
        /\ at = "rpc" /\ opt.doEndw /\ len <= MaxRecvSize => endw
        /\ res = "SUCCESS" =>
            /\ Cardinality(OursAt) = n - len
            /\ \A i \in OursAt :
                got[i].end <=> (len = 0 /\ opt.doEndw /\ \A j \in OursAt : j <= i)

Reading ==
    op = "read" =>
        /\ off = count /\ count <= sent /\ sent <= Len(msg) /\ sent <= n /\ len = n - count
        /\ mem = [i \in 1 .. sent |-> i]
        /\ res = "SUCCESS" =>
            /\ sent = count
            /\ "END" \in reason => count = Len(msg)
            /\ "REQCNT" \in reason => count = n
            /\ "CHR" \in reason => opt.termCharSet /\ count > 0 /\ msg[count]
            /\ opt.termCharSet =>
                \A i \in 1 .. count : msg[i] => i = count /\ "CHR" \in reason

Locking ==
    /\ opt.doLocking => \A i \in DOMAIN got : got[i].who = "us"
    /\ opt.doLocking /\ at \in {"loop", "rpc", "unlock"} => holder = "us"
    /\ ~opt.doLocking => holder # "us" /\ at # "lock" /\ at # "unlock"
    /\ at = "idle" /\ ret = "SUCCESS" => holder # "us"

IoInv == IoType /\ Progress /\ Writing /\ Reading /\ Locking

(* What is left of io_timeout is never more than it was less what was      *)
(* spent.                                                                  *)
Timing ==
    ~late =>
        /\ tmout \in 0 .. Timeout
        /\ spent <= Timeout - tmout
        /\ at # "idle" /\ res = "SUCCESS" /\ len > 0 => tmout > 0
-----------------------------------------------------------------------------
(* The bytes of one device_write, as the instrument gets them.             *)
LEMMA GotGrows ==
    ASSUME IoType, NEW k \in Nat, got' = got \o Offsets(k)
    PROVE  /\ got' \in Seq(Byte)
           /\ DOMAIN got = 1 .. Len(got) /\ Len(got) \in Nat
           /\ DOMAIN got' = 1 .. Len(got) + k
           /\ \A i \in DOMAIN got : got'[i] = got[i]
           /\ \A i \in 1 .. k : /\ got'[Len(got) + i].who = "us"
                                /\ got'[Len(got) + i].end <=> (endw /\ i = Chunk)
<1>1. got \in Seq(Byte) /\ Len(got) \in Nat /\ DOMAIN got = 1 .. Len(got)
  BY LenProperties DEF IoType
<1>2. Offsets(k) \in [1 .. k -> Byte]
  BY DEF Offsets, Byte, IoType
<1>3. Offsets(k) \in Seq(Byte) /\ Len(Offsets(k)) = k
  BY <1>2
<1>4. /\ got' \in Seq(Byte) /\ Len(got') = Len(got) + k
      /\ \A i \in 1 .. Len(got) + k :
            got'[i] = IF i <= Len(got) THEN got[i] ELSE Offsets(k)[i - Len(got)]
  BY <1>1, <1>3, ConcatProperties
<1>5. DOMAIN got' = 1 .. Len(got) + k
  BY <1>4, LenProperties
<1>6. \A i \in 1 .. k : got'[Len(got) + i] = Offsets(k)[i]
  BY <1>1, <1>4
<1>7. \A i \in 1 .. k : /\ Offsets(k)[i].who = "us"
                        /\ Offsets(k)[i].end <=> (endw /\ i = Chunk)
  BY DEF Offsets
<1>8. QED
  BY <1>1, <1>4, <1>5, <1>6, <1>7

(* They add to those of the call, and to nothing else.                     *)
LEMMA OursGrow ==
    ASSUME IoType, NEW k \in Nat, got' = got \o Offsets(k)
    PROVE  /\ OursAt' = OursAt \cup (Len(got) + 1 .. Len(got) + k)
           /\ OursAt \subseteq 1 .. Len(got)
           /\ Cardinality(OursAt') = Cardinality(OursAt) + k
           /\ Cardinality(OursAt) \in Nat
<1> DEFINE new == Len(got) + 1 .. Len(got) + k
<1>1. OursAt' = OursAt \cup new
  <2>1. \A i \in new : i - Len(got) \in 1 .. k /\ i = Len(got) + (i - Len(got))
    BY GotGrows
  <2>2. \A i \in new : got'[i].who = "us"
    BY <2>1, GotGrows
  <2>3. DOMAIN got' = DOMAIN got \cup new
    BY GotGrows
  <2>4. QED
    BY <2>2, <2>3, GotGrows DEF OursAt
<1>2. OursAt \subseteq 1 .. Len(got) /\ OursAt \cap new = {}
  BY GotGrows DEF OursAt
<1>3. IsFiniteSet(OursAt) /\ Cardinality(OursAt) \in Nat
  <2>1. IsFiniteSet(1 .. Len(got))
    BY GotGrows, FS_Interval
  <2>2. IsFiniteSet(OursAt)
    BY <1>2, <2>1, FS_Subset
  <2>3. QED
    BY <2>2, FS_CardinalityType
<1>4. IsFiniteSet(new) /\ Cardinality(new) = k
  <2>1. /\ Len(got) + 1 \in Int /\ Len(got) + k \in Int
        /\ Len(got) + k - (Len(got) + 1) + 1 = k
        /\ Len(got) + 1 > Len(got) + k => k = 0
    BY GotGrows
  <2>2. QED
    BY <2>1, FS_Interval
<1>5. Cardinality(OursAt \cup new) = Cardinality(OursAt) + Cardinality(new) - Cardinality({})
  <2> HIDE DEF new
  <2>1. Cardinality(OursAt \cup new)
          = Cardinality(OursAt) + Cardinality(new) - Cardinality(OursAt \cap new)
    BY <1>3, <1>4, FS_Union
  <2>2. QED
    BY <1>2, <2>1
<1>6. Cardinality({}) = 0
  BY FS_EmptySet
<1>7. QED
  BY <1>1, <1>2, <1>3, <1>4, <1>5, <1>6

(* An answer is a sequence of marks.                                       *)
LEMMA AnswersType == \A a \in Answers : a \in Seq(BOOLEAN)
<1> DEFINE Marks == IF opt.termCharSet THEN BOOLEAN ELSE {FALSE}
<1>1. SUFFICES ASSUME NEW k \in 0 .. MaxLen, NEW a \in [1 .. k -> Marks]
               PROVE  a \in Seq(BOOLEAN)
  BY DEF Answers
<1>2. Marks \subseteq BOOLEAN
  OBVIOUS
<1>3. k \in Nat
  BY Vxi11IoAssumption
<1>4. \A i \in 1 .. k : a[i] \in BOOLEAN
  BY <1>2
<1>5. a \in [1 .. k -> BOOLEAN]
  BY <1>1, <1>4
<1>6. QED
  BY <1>3, <1>5
(* An answer leaves len, and takes less than was asked for.                *)
LEMMA ChunkType ==
    ASSUME IoType
    PROVE  /\ Chunk \in Nat /\ Chunk <= len /\ Chunk <= MaxRecvSize
           /\ len > 0 => Chunk > 0
           /\ len <= MaxRecvSize => Chunk = len
           /\ len > MaxRecvSize => Chunk < len
  BY Vxi11IoAssumption DEF IoType, Chunk

(* What a subtraction modulo Word leaves is a number.                      *)
LEMMA MinusType ==
    ASSUME NEW a \in Int, NEW b \in Int
    PROVE  Minus(a, b) \in Int
  BY Vxi11IoAssumption DEF Minus

(* What WriteAnswered does, whichever of the two ways the server said it.  *)
LEMMA WriteTook ==
    ASSUME IoType, NEW k \in 1 .. MaxLen, NEW said \in 0 .. MaxLen, NEW d \in InTime,
           WriteAnswered(k, said, d)
    PROVE  /\ at = "rpc" /\ at' = "loop" /\ op = "write" /\ op' = op /\ ~aborted /\ aborted' = aborted
           /\ k <= Chunk /\ len' = len - k /\ len' \in Nat
           /\ off' \in Int /\ tmout' = Minus(tmout, d)
           /\ got' = got \o Offsets(k)
           /\ UNCHANGED <<opt, n, reason, count, endw, ret, msg, sent, mem, holder>>
           /\ holder # "other"
<1>1. k \in 1 .. Chunk /\ (said = k \/ (said = 0 /\ k = Chunk))
  BY DEF WriteAnswered
<1>2. /\ len' = len - (IF said = 0 THEN Chunk ELSE said)
      /\ off' = off - (IF said = 0 THEN Chunk ELSE said)
  BY DEF WriteAnswered
<1>3. len' = len - k /\ off' = off - k
  BY <1>1, <1>2
<1>4. k <= Chunk /\ len' \in Nat /\ off' \in Int
  BY <1>1, <1>3, ChunkType DEF IoType
<1>5. QED
  BY <1>3, <1>4 DEF WriteAnswered, CountDown, Elapse
-----------------------------------------------------------------------------
(* The steps in which no part of the transfer takes part.                  *)
Aside == vxi11_abort \/ OtherLocks \/ OtherUnlocks \/ LinkClosed \/ TakeLock
         \/ SendWrite \/ SendRead \/ LoopDone \/ ReleaseLock

(* They change no counter, no buffer and nothing the instrument has.       *)
LEMMA AsideKeeps ==
    ASSUME Aside
    PROVE  /\ UNCHANGED <<opt, op, n, len, off, tmout, res, reason, count>>
           /\ UNCHANGED <<got, msg, sent, mem, spent, late>>
  BY DEF Aside, vxi11_abort, OtherLocks, OtherUnlocks, LinkClosed, TakeLock, SendWrite,
         SendRead, LoopDone, ReleaseLock, loopVars, instVars, timeVars

(* The types of the loops' variables.                                      *)
LEMMA TypeStep ==
    ASSUME IoType, Next
    PROVE  IoType'
<1>1. ASSUME NEW m \in 1 .. MaxLen, NEW answer \in Answers,
             vxi11_write(m) \/ vxi11_read(m, answer)
      PROVE  IoType'
  <2>1. answer \in Seq(BOOLEAN) /\ <<>> \in Seq(BOOLEAN) /\ <<>> \in Seq(Byte)
    BY Vxi11IoAssumption, AnswersType
  <2>2. msg' \in Seq(BOOLEAN) /\ Begin(op', m) /\ op' \in {"write", "read"}
    BY <1>1, <2>1 DEF vxi11_write, vxi11_read, Begin
  <2>3. got' \in Seq(Byte)
    BY <2>1, <2>2 DEF Begin
  <2>4. /\ opt' = opt /\ holder' = holder /\ n' = m /\ len' = m /\ off' = 0
        /\ tmout' = Timeout /\ reason' = {} /\ count' = 0 /\ endw' = FALSE /\ sent' = 0
        /\ aborted' = FALSE /\ spent' = 0 /\ late' = FALSE /\ at' \in {"lock", "loop"}
    BY <2>2 DEF Begin, FirstStep
  <2>5. Timeout \in Int /\ m \in Nat
    BY Vxi11IoAssumption
  <2>6. op' \in {"none", "write", "read"} /\ msg' \in Seq(BOOLEAN)
    BY <2>2
  <2>7. reason' \subseteq {"END", "CHR", "REQCNT"}
    BY <2>4
  <2>8. n' \in Nat /\ len' \in Nat /\ off' \in Int /\ tmout' \in Int /\ count' \in Nat
        /\ sent' \in Nat /\ spent' \in Nat
    BY <2>4, <2>5
  <2>9. opt' \in [doLocking : BOOLEAN, doEndw : BOOLEAN, termCharSet : BOOLEAN]
    BY <2>4 DEF IoType
  <2>10. /\ holder' \in {"none", "us", "other"} /\ endw' \in BOOLEAN
         /\ aborted' \in BOOLEAN /\ late' \in BOOLEAN
    BY <2>4 DEF IoType
  <2>11. QED
    BY <2>3, <2>4, <2>6, <2>7, <2>8, <2>9, <2>10 DEF IoType
<1>2. CASE Aside
  <2>1. /\ at' \in {"idle", "lock", "loop", "rpc", "unlock"}
        /\ endw' \in BOOLEAN /\ aborted' \in BOOLEAN
        /\ holder' \in {"none", "us", "other"}
    BY <1>2 DEF IoType, Aside, vxi11_abort, OtherLocks, OtherUnlocks, LinkClosed, TakeLock,
                SendWrite, SendRead, LoopDone, ReleaseLock, Return, EndFlag, loopVars
  <2>2. QED
    BY <1>2, <2>1, AsideKeeps DEF IoType
<1>3. ASSUME NEW d \in InTime, NEW k \in 1 .. MaxLen, NEW said \in 0 .. MaxLen,
             WriteAnswered(k, said, d)
      PROVE  IoType'
  <2>1. got' \in Seq(Byte)
    <3>1. got' = got \o Offsets(k)
      BY <1>3, WriteTook
    <3>2. QED
      BY <3>1, GotGrows
  <2>2. tmout' \in Int /\ spent' \in Nat /\ late' \in BOOLEAN
    BY <1>3, WriteTook, MinusType, Vxi11IoAssumption
       DEF WriteAnswered, CountDown, Elapse, InTime, IoType
  <2>3. /\ at' = "loop" /\ op' = op /\ aborted' = aborted /\ len' \in Nat /\ off' \in Int
        /\ UNCHANGED <<opt, n, reason, count, endw, msg, sent, holder>>
    BY <1>3, WriteTook DEF IoType
  <2>4. QED
    BY <2>1, <2>2, <2>3 DEF IoType
<1>4. ASSUME NEW d \in InTime, NEW k \in 0 .. MaxLen, ReadAnswered(k, d)
      PROVE  IoType'
  <2>1. tmout' \in Int /\ spent' \in Nat /\ late' \in BOOLEAN
    BY <1>4, MinusType, Vxi11IoAssumption
       DEF ReadAnswered, CountDown, Elapse, InTime, IoType
  <2>2. reason' \subseteq {"END", "CHR", "REQCNT"}
    BY <1>4 DEF ReadAnswered
  <2>3. /\ k \in Nat /\ k <= len /\ len' = len - k /\ off' = off + k
        /\ count' = count + k /\ sent' = sent + k /\ at' = "loop"
        /\ UNCHANGED <<opt, op, n, endw, ret, got, msg, holder, aborted>>
    BY <1>4 DEF ReadAnswered
  <2>4. QED
    BY <2>1, <2>2, <2>3 DEF IoType
<1>5. ASSUME NEW code, RpcFails(code)
      PROVE  IoType'
  <2>1. got' \in Seq(Byte)
    <3>1. CASE got' = got
      BY <3>1 DEF IoType
    <3>2. CASE \E k \in 0 .. Chunk : got' = got \o Offsets(k)
      BY <3>2, GotGrows, ChunkType
    <3>3. QED
      BY <1>5, <3>1, <3>2 DEF RpcFails
  <2>2. sent' \in Nat /\ reason' \subseteq {"END", "CHR", "REQCNT"}
    <3>1. \A k \in 0 .. len : k \in Nat
      BY DEF IoType
    <3>2. sent' = sent \/ \E k \in 0 .. len : sent' = sent + k
      BY <1>5 DEF RpcFails, StoreAnyway
    <3>3. reason' = reason \/ reason' = {} \/ reason' = Reasons
      BY <1>5 DEF RpcFails, StoreAnyway
    <3>4. sent' \in Nat
      BY <3>1, <3>2 DEF IoType
    <3>5. reason' \subseteq {"END", "CHR", "REQCNT"}
      BY <3>3 DEF IoType, Reasons
    <3>6. QED
      BY <3>4, <3>5
  <2>3. QED
    BY <1>5, <2>1, <2>2 DEF RpcFails, timeVars, IoType
<1>6. CASE OtherWrites
  <2>1. got' \in Seq(Byte)
    <3>1. [who |-> "other", byte |-> 0, end |-> FALSE] \in Byte
      BY DEF Byte
    <3>2. QED
      BY <1>6, <3>1, AppendProperties DEF OtherWrites, IoType
  <2>2. QED
    BY <1>6, <2>1 DEF OtherWrites, loopVars, timeVars, IoType
<1>7. ASSUME NEW m \in 1 .. MaxLen, vxi11_write(m)
      PROVE  IoType'
  <2>1. <<>> \in Answers
    <3>1. <<>> \in [1 .. 0 -> IF opt.termCharSet THEN BOOLEAN ELSE {FALSE}]
      OBVIOUS
    <3>2. 0 \in 0 .. MaxLen
      BY Vxi11IoAssumption
    <3>3. QED
      BY <3>1, <3>2 DEF Answers
  <2>2. QED
    BY <1>1, <1>7, <2>1
<1>8. QED
  BY <1>1, <1>2, <1>3, <1>4, <1>5, <1>6, <1>7 DEF Next, CallStep, Aside

(* Where the call is.                                                      *)
LEMMA ProgressStep ==
    ASSUME IoType, Progress, Next
    PROVE  Progress'
<1>1. ASSUME NEW m \in 1 .. MaxLen, NEW fn \in {"write", "read"}, Begin(fn, m)
      PROVE  Progress'
  BY <1>1 DEF Begin, FirstStep, Progress
<1>2. CASE Aside
  <2>1. UNCHANGED <<opt, op, len, res, reason>> /\ More' = More
    BY <1>2, AsideKeeps DEF More
  <2>2. CASE TakeLock
    BY <2>1, <2>2 DEF Progress, TakeLock, Return
  <2>3. CASE SendWrite \/ SendRead
    BY <2>1, <2>3 DEF Progress, SendWrite, SendRead
  <2>4. CASE LoopDone
    <3>1. More => res = "SUCCESS"
      BY DEF More
    <3>2. QED
      BY <2>1, <2>4, <3>1 DEF Progress, LoopDone, Return
  <2>5. CASE ReleaseLock
    BY <2>1, <2>5 DEF Progress, ReleaseLock, Return
  <2>6. CASE vxi11_abort \/ OtherLocks \/ OtherUnlocks \/ LinkClosed
    BY <2>1, <2>6 DEF Progress, vxi11_abort, OtherLocks, OtherUnlocks, LinkClosed
  <2>7. QED
    BY <1>2, <2>2, <2>3, <2>4, <2>5, <2>6 DEF Aside
<1>3. ASSUME NEW d \in InTime,
             \/ \E k \in 1 .. MaxLen, said \in 0 .. MaxLen : WriteAnswered(k, said, d)
             \/ \E k \in 0 .. MaxLen : ReadAnswered(k, d)
      PROVE  Progress'
  BY <1>3 DEF WriteAnswered, ReadAnswered, Progress
<1>4. ASSUME NEW code \in RpcErrors \cup {"ABORT", "LOCKED"}, RpcFails(code)
      PROVE  Progress'
  BY <1>4 DEF RpcFails, RpcErrors, Progress
<1>5. CASE OtherWrites
  <2>1. More' = More
    BY <1>5 DEF OtherWrites, More, loopVars
  <2>2. QED
    BY <1>5, <2>1 DEF OtherWrites, loopVars, Progress
<1>6. QED
  BY <1>1, <1>2, <1>3, <1>4, <1>5 DEF Next, CallStep, Aside, vxi11_write, vxi11_read
(* Who holds the lock while the RPCs go out.                               *)
LEMMA LockingStep ==
    ASSUME IoType, Locking, Next
    PROVE  Locking'
<1>1. ASSUME NEW m \in 1 .. MaxLen, NEW fn \in {"write", "read"}, Begin(fn, m)
      PROVE  Locking'
  BY <1>1 DEF Begin, FirstStep, Locking
<1>2. CASE Aside
  <2>1. opt' = opt /\ got' = got /\ res' = res
    BY <1>2, AsideKeeps
  <2>2. CASE TakeLock
    BY <2>1, <2>2 DEF Locking, TakeLock, Return
  <2>3. CASE SendWrite \/ SendRead
    BY <2>1, <2>3 DEF Locking, SendWrite, SendRead
  <2>4. CASE LoopDone
    BY <2>1, <2>4 DEF Locking, LoopDone, Return
  <2>5. CASE ReleaseLock
    BY <2>1, <2>5 DEF Locking, ReleaseLock, Return
  <2>6. CASE vxi11_abort
    BY <2>1, <2>6 DEF Locking, vxi11_abort
  <2>7. CASE OtherLocks \/ OtherUnlocks \/ LinkClosed
    BY <2>1, <2>7 DEF Locking, OtherLocks, OtherUnlocks, LinkClosed
  <2>8. QED
    BY <1>2, <2>2, <2>3, <2>4, <2>5, <2>6, <2>7 DEF Aside
<1>3. ASSUME at = "rpc", at' = "loop", opt' = opt, holder' = holder,
             \/ got' = got
             \/ \E k \in Nat : got' = got \o Offsets(k)
      PROVE  Locking'
  <2>1. CASE got' = got
    BY <1>3, <2>1 DEF Locking
  <2>2. ASSUME NEW k \in Nat, got' = got \o Offsets(k), \A i \in DOMAIN got : got[i].who = "us"
        PROVE  \A i \in DOMAIN got' : got'[i].who = "us"
    <3>1. \A i \in DOMAIN got' : i \in DOMAIN got \/ i - Len(got) \in 1 .. k
      BY <2>2, GotGrows
    <3>2. \A i \in 1 .. k : got'[Len(got) + i].who = "us"
      BY <2>2, GotGrows
    <3>3. \A i \in DOMAIN got' : i = Len(got) + (i - Len(got))
      BY <2>2, GotGrows
    <3>4. \A i \in DOMAIN got : got'[i].who = "us"
      BY <2>2, GotGrows
    <3>5. QED
      BY <3>1, <3>2, <3>3, <3>4
  <2>3. QED
    BY <1>3, <2>1, <2>2 DEF Locking
<1>4. ASSUME NEW d \in InTime, NEW k \in 1 .. MaxLen, NEW said \in 0 .. MaxLen,
             WriteAnswered(k, said, d)
      PROVE  Locking'
  <2>1. k \in Nat /\ got' = got \o Offsets(k) /\ at = "rpc" /\ at' = "loop"
        /\ opt' = opt /\ holder' = holder
    BY <1>4, WriteTook
  <2>2. QED
    BY <1>3, <2>1
<1>5. ASSUME NEW d \in InTime, NEW k \in 0 .. MaxLen, ReadAnswered(k, d)
      PROVE  Locking'
  BY <1>3, <1>5 DEF ReadAnswered
<1>6. ASSUME NEW code, RpcFails(code)
      PROVE  Locking'
  <2>1. got' = got \/ \E k \in Nat : got' = got \o Offsets(k)
    <3>1. got' = got \/ \E k \in 0 .. Chunk : got' = got \o Offsets(k)
      BY <1>6 DEF RpcFails
    <3>2. Chunk \in Nat
      BY ChunkType
    <3>3. \A k \in 0 .. Chunk : k \in Nat
      BY <3>2
    <3>4. QED
      BY <3>1, <3>3
  <2>2. QED
    BY <1>3, <1>6, <2>1 DEF RpcFails
<1>7. CASE OtherWrites
  <2>1. ~opt.doLocking /\ opt' = opt /\ at' = at /\ holder' = holder /\ ret' = ret
    BY <1>7 DEF OtherWrites, Locking, IoType
  <2>2. QED
    BY <1>7, <2>1 DEF OtherWrites, Locking
<1>8. QED
  BY <1>1, <1>2, <1>4, <1>5, <1>6, <1>7 DEF Next, CallStep, Aside, vxi11_write, vxi11_read

(* What the instrument got of a write.                                     *)
LEMMA WritingStep ==
    ASSUME IoType, Progress, Writing, Next
    PROVE  Writing'
<1>1. ASSUME NEW m \in 1 .. MaxLen, vxi11_write(m)
      PROVE  Writing'
  <2>1. /\ got' = <<>> /\ n' = m /\ len' = m /\ endw' = FALSE /\ at' \in {"lock", "loop"}
    BY <1>1 DEF vxi11_write, Begin, FirstStep
  <2>2. OursAt' = {}
    BY <2>1 DEF OursAt
  <2>3. m - m = 0
    OBVIOUS
  <2>4. QED
    BY <2>1, <2>2, <2>3, FS_EmptySet DEF Writing
<1>2. ASSUME NEW m \in 1 .. MaxLen, NEW answer, vxi11_read(m, answer)
      PROVE  Writing'
  BY <1>2 DEF vxi11_read, Begin, Writing
<1>3. CASE Aside
  <2>1. UNCHANGED <<opt, op, n, len, res, got>> /\ OursAt' = OursAt
    BY <1>3, AsideKeeps DEF OursAt
  <2>2. CASE SendWrite
    BY <2>1, <2>2 DEF Writing, SendWrite, EndFlag, IoType
  <2>3. CASE SendRead
    BY <2>1, <2>3 DEF Writing, SendRead
  <2>4. CASE ~SendWrite /\ ~SendRead
    <3>1. endw' = endw /\ (at' = "rpc" => at = "rpc")
      BY <1>3, <2>4 DEF Aside, vxi11_abort, OtherLocks, OtherUnlocks, LinkClosed, TakeLock,
                        LoopDone, ReleaseLock, Return, loopVars
    <3>2. QED
      BY <2>1, <3>1 DEF Writing
  <2>5. QED
    BY <2>2, <2>3, <2>4
<1>4. ASSUME NEW d \in InTime, NEW k \in 1 .. MaxLen, NEW said \in 0 .. MaxLen,
             WriteAnswered(k, said, d)
      PROVE  Writing'
  <2>1. /\ op = "write" /\ at = "rpc" /\ at' = "loop" /\ UNCHANGED <<opt, n, endw>>
        /\ k \in Nat /\ k > 0 /\ k <= Chunk /\ len' = len - k
        /\ got' = got \o Offsets(k) /\ op' = op
    BY <1>4, WriteTook
  <2>2. /\ res = "SUCCESS" /\ len > 0
        /\ endw => opt.doEndw /\ len <= MaxRecvSize
        /\ opt.doEndw /\ len <= MaxRecvSize => endw
    BY <2>1 DEF Progress, More, Writing
  <2>3. /\ Cardinality(OursAt) = n - len
        /\ \A i \in OursAt : ~got[i].end
    BY <2>1, <2>2 DEF Writing, IoType
  <2>4. Cardinality(OursAt') = n - len'
    <3>1. Cardinality(OursAt') = Cardinality(OursAt) + k
      BY <2>1, OursGrow
    <3>2. n \in Int /\ len \in Int
      BY DEF IoType
    <3>3. QED
      BY <2>1, <2>3, <3>1, <3>2
  <2>5. ASSUME NEW i \in OursAt'
        PROVE  got'[i].end <=> (len' = 0 /\ opt.doEndw /\ \A j \in OursAt' : j <= i)
    <3>1. i \in OursAt \/ i \in Len(got) + 1 .. Len(got) + k
      BY <2>1, <2>5, OursGrow
    <3>2. /\ Len(got) \in Nat /\ OursAt \subseteq 1 .. Len(got)
          /\ OursAt' = OursAt \cup (Len(got) + 1 .. Len(got) + k)
      BY <2>1, OursGrow, GotGrows
    <3>3. /\ Len(got) \in Nat /\ OursAt \subseteq 1 .. Len(got)
          /\ Len(got) + k \in OursAt'
      BY <2>1, <3>2
    <3>4. CASE i \in OursAt
      <4>1. got'[i] = got[i]
        BY <2>1, <3>4, GotGrows DEF OursAt
      <4>2. ~(Len(got) + k <= i)
        BY <2>1, <3>3, <3>4
      <4>3. QED
        BY <2>3, <3>3, <3>4, <4>1, <4>2
    <3>5. CASE i \in Len(got) + 1 .. Len(got) + k
      <4>1. PICK x \in 1 .. k : i = Len(got) + x
        <5>1. i - Len(got) \in 1 .. k /\ i = Len(got) + (i - Len(got))
          BY <2>1, <3>3, <3>5
        <5>2. QED
          BY <5>1
      <4>2. got'[i].end <=> (endw /\ x = Chunk)
        BY <2>1, <4>1, GotGrows
      <4>3. (endw /\ x = Chunk) <=> (len' = 0 /\ opt.doEndw /\ x = k)
        BY <2>1, <2>2, ChunkType DEF IoType
      <4>4. (\A j \in OursAt' : j <= i) <=> x = k
        <5>1. \A j \in OursAt' : j \in Int /\ j <= Len(got) + k
          BY <2>1, <3>2
        <5>2. QED
          BY <2>1, <3>3, <4>1, <5>1
      <4>5. QED
        BY <4>2, <4>3, <4>4
    <3>6. QED
      BY <3>1, <3>4, <3>5
  <2>6. endw => opt.doEndw /\ len' <= MaxRecvSize
    BY <2>1, <2>2, Vxi11IoAssumption DEF IoType
  <2>7. QED
    BY <2>1, <2>4, <2>5, <2>6 DEF Writing
<1>5. ASSUME NEW d \in InTime, NEW k \in 0 .. MaxLen, ReadAnswered(k, d)
      PROVE  Writing'
  BY <1>5 DEF ReadAnswered, Writing
<1>6. ASSUME NEW code \in RpcErrors \cup {"ABORT", "LOCKED"}, RpcFails(code)
      PROVE  Writing'
  BY <1>6 DEF RpcFails, RpcErrors, Writing
<1>7. CASE OtherWrites
  <2>1. /\ UNCHANGED <<opt, op, n, len, res, endw>> /\ at' = at
        /\ got' = Append(got, [who |-> "other", byte |-> 0, end |-> FALSE])
    BY <1>7 DEF OtherWrites, loopVars
  <2>2. [who |-> "other", byte |-> 0, end |-> FALSE] \in Byte
    BY DEF Byte
  <2>3. /\ DOMAIN got = 1 .. Len(got) /\ Len(got) \in Nat
        /\ \A i \in 1 .. Len(got) : got'[i] = got[i]
        /\ got'[Len(got) + 1].who = "other"
        /\ Len(got') = Len(got) + 1 /\ got' \in Seq(Byte)
    BY <2>1, <2>2, AppendProperties, LenProperties DEF IoType
  <2>4. DOMAIN got' = 1 .. Len(got) + 1
    BY <2>3, LenProperties
  <2>5. OursAt' = OursAt /\ \A i \in OursAt : got'[i] = got[i]
    BY <2>3, <2>4 DEF OursAt
  <2>6. QED
    BY <2>1, <2>5 DEF Writing
<1>8. QED
  BY <1>1, <1>2, <1>3, <1>4, <1>5, <1>6, <1>7 DEF Next, CallStep, Aside
(* What the caller's buffer has of a read, and why it stopped.             *)
LEMMA ReadingStep ==
    ASSUME IoType, Progress, Reading, Next
    PROVE  Reading'
<1>1. ASSUME NEW m \in 1 .. MaxLen, NEW answer \in Answers, vxi11_read(m, answer)
      PROVE  Reading'
  <2>1. /\ mem' = <<>> /\ n' = m /\ len' = m /\ off' = 0 /\ sent' = 0 /\ count' = 0
        /\ reason' = {} /\ msg' = answer
    BY <1>1 DEF vxi11_read, Begin
  <2>2. msg' \in Seq(BOOLEAN)
    BY <2>1, AnswersType
  <2>3. 0 <= Len(msg')
    BY <2>2, LenProperties
  <2>4. <<>> = [i \in 1 .. 0 |-> i]
    OBVIOUS
  <2>5. m - 0 = m
    OBVIOUS
  <2>6. QED
    BY <2>1, <2>3, <2>4, <2>5 DEF Reading
<1>2. ASSUME NEW m \in 1 .. MaxLen, vxi11_write(m)
      PROVE  Reading'
  BY <1>2 DEF vxi11_write, Begin, Reading
<1>3. CASE Aside
  BY <1>3, AsideKeeps DEF Reading
<1>4. ASSUME NEW d \in InTime, NEW k \in 0 .. MaxLen, ReadAnswered(k, d)
      PROVE  Reading'
  <2> DEFINE part == SubSeq(msg, sent + 1, sent + k)
  <2>0. res = "SUCCESS" /\ sent = count
    BY <1>4 DEF ReadAnswered, Progress, More, Reading
  <2>1. /\ op = "read" /\ at = "rpc" /\ k \in Nat /\ k <= len /\ count + k <= Len(msg)
        /\ k = 0 => count = Len(msg)
        /\ UNCHANGED <<opt, op, n, msg>>
        /\ len' = len - k /\ off' = off + k /\ sent' = sent + k /\ count' = count + k
        /\ mem' = Store(k)
    BY <1>4, <2>0 DEF ReadAnswered
  <2>2. /\ off = count /\ sent = count /\ len = n - count /\ reason = {}
        /\ mem = [i \in 1 .. count |-> i] /\ count \in Nat /\ n \in Nat
        /\ opt.termCharSet => \A i \in 1 .. count : ~msg[i]
    BY <2>0, <2>1 DEF Reading, Progress, More, IoType
  <2>3. \A i \in 1 .. k : part[i] = msg[count + i]
    <3>1. msg \in Seq(BOOLEAN) /\ Len(msg) \in Nat
      BY LenProperties DEF IoType
    <3>2. \A i \in sent + 1 .. sent + k : i \in 1 .. Len(msg)
      BY <2>1, <2>2, <3>1
    <3>3. \A i \in sent + 1 .. sent + k : msg[i] \in BOOLEAN
      BY <3>1, <3>2, ElementOfSeq
    <3>4. sent + 1 \in Int /\ sent + k \in Int
      BY <2>1, <2>2
    <3>5. \A i \in 1 .. (sent + k) - (sent + 1) + 1 : part[i] = msg[(sent + 1) + i - 1]
      BY <3>3, <3>4, SubSeqProperties
    <3>6. sent = count /\ count \in Int /\ k \in Int
      BY <2>1, <2>2
    <3>7. (sent + k) - (sent + 1) + 1 = k /\ \A i \in 1 .. k : (sent + 1) + i - 1 = count + i
      BY <3>6
    <3>8. QED
      BY <3>5, <3>7
  <2>4. /\ opt.termCharSet => \A i \in 1 .. k - 1 : ~part[i]
        /\ reason' = (IF sent + k = Len(msg) THEN {"END"} ELSE {})
                     \cup (IF opt.termCharSet /\ k > 0 /\ part[k] THEN {"CHR"} ELSE {})
                     \cup (IF k = len THEN {"REQCNT"} ELSE {})
    BY <1>4 DEF ReadAnswered
  <2>5. mem' = [i \in 1 .. count' |-> i]
    <3>1. Store(k) = [i \in 1 .. count + k |-> IF i <= count THEN mem[i] ELSE i]
      BY <2>1, <2>2 DEF Store
    <3>2. \A i \in 1 .. count + k : (IF i <= count THEN mem[i] ELSE i) = i
      BY <2>1, <2>2
    <3>3. QED
      BY <2>1, <3>1, <3>2
  <2>6. /\ "END" \in reason' => count' = Len(msg)
        /\ "REQCNT" \in reason' => count' = n
        /\ "CHR" \in reason' <=> (opt.termCharSet /\ k > 0 /\ msg[count + k])
    <3> HIDE DEF part
    <3>1. "END" \in reason' => count' = Len(msg)
      BY <2>1, <2>2, <2>4
    <3>2. "REQCNT" \in reason' => count' = n
      <4>1. "REQCNT" \in reason' => k = len
        BY <2>4
      <4>2. QED
        BY <2>1, <2>2, <4>1
    <3>3. k > 0 => part[k] = msg[count + k]
      BY <2>1, <2>3
    <3>4. "CHR" \in reason' <=> (opt.termCharSet /\ k > 0 /\ part[k])
      BY <2>4
    <3>5. QED
      BY <3>1, <3>2, <3>3, <3>4
  <2>7. ASSUME opt.termCharSet, NEW i \in 1 .. count + k, msg[i]
        PROVE  i = count + k /\ "CHR" \in reason'
    <3>1. ~(i <= count)
      BY <2>1, <2>2, <2>7
    <3>2. i - count \in 1 .. k /\ i = count + (i - count)
      BY <2>1, <2>2, <3>1
    <3>3. part[i - count]
      BY <2>3, <2>7, <3>2
    <3>4. ~(i - count \in 1 .. k - 1)
      BY <2>4, <2>7, <3>3
    <3>5. i - count = k /\ k > 0
      BY <2>1, <2>2, <3>2, <3>4
    <3>6. QED
      BY <2>1, <2>2, <2>6, <2>7, <3>2, <3>5
  <2>8. /\ off' = count' /\ sent' = count' /\ len' = n' - count' /\ count' <= Len(msg')
        /\ count' <= sent' /\ sent' <= n' /\ sent' <= Len(msg')
    BY <2>1, <2>2
  <2>9. "CHR" \in reason' => opt'.termCharSet /\ count' > 0 /\ msg'[count']
    BY <2>1, <2>2, <2>6
  <2>10. opt'.termCharSet => \A i \in 1 .. count' : msg'[i] => i = count' /\ "CHR" \in reason'
    BY <2>1, <2>7
  <2>11. mem' = [i \in 1 .. sent' |-> i]
    BY <2>5, <2>8
  <2>12. QED
    BY <2>1, <2>6, <2>8, <2>9, <2>10, <2>11 DEF Reading
<1>5. ASSUME NEW d \in InTime, NEW k \in 1 .. MaxLen, NEW said \in 0 .. MaxLen,
             WriteAnswered(k, said, d)
      PROVE  Reading'
  BY <1>5 DEF WriteAnswered, Reading
<1>6. ASSUME NEW code \in RpcErrors \cup {"ABORT", "LOCKED"}, RpcFails(code)
      PROVE  Reading'
  <2> SUFFICES ASSUME op' = "read"
               PROVE  Reading'
    BY DEF Reading
  <2>1. /\ UNCHANGED <<op, n, len, off, count, msg>> /\ op = "read"
        /\ res' = code /\ res' # "SUCCESS" /\ at = "rpc" /\ StoreAnyway(code)
    BY <1>6 DEF RpcFails, RpcErrors
  <2>2. /\ off = count /\ sent = count /\ len = n - count /\ count <= Len(msg)
        /\ mem = [i \in 1 .. count |-> i] /\ count \in Nat /\ n \in Nat /\ len \in Nat
    BY <2>1 DEF Reading, Progress, More, IoType
  <2>3. CASE UNCHANGED <<sent, mem>>
    BY <2>1, <2>2, <2>3 DEF Reading
  <2>4. ASSUME NEW k \in 0 .. len, sent + k <= Len(msg), mem' = Store(k), sent' = sent + k
        PROVE  Reading'
    <3>1. k \in Nat /\ k <= len /\ sent' = count + k
      BY <2>2, <2>4
    <3>2. Store(k) = [i \in 1 .. count + k |-> IF i <= count THEN mem[i] ELSE i]
      BY <2>2, <3>1 DEF Store
    <3>3. \A i \in 1 .. count + k : (IF i <= count THEN mem[i] ELSE i) = i
      BY <2>2, <3>1
    <3>4. mem' = [i \in 1 .. sent' |-> i]
      BY <2>4, <3>1, <3>2, <3>3
    <3>5. count <= sent' /\ sent' <= Len(msg) /\ sent' <= n
      BY <2>2, <2>4, <3>1
    <3>6. QED
      BY <2>1, <2>2, <3>4, <3>5 DEF Reading
  <2>5. QED
    BY <2>1, <2>3, <2>4 DEF StoreAnyway
<1>7. CASE OtherWrites
  BY <1>7 DEF OtherWrites, loopVars, Reading
<1>8. QED
  BY <1>1, <1>2, <1>3, <1>4, <1>5, <1>6, <1>7 DEF Next, CallStep, Aside

-----------------------------------------------------------------------------
(* The invariant holds at the start.                                       *)
LEMMA InitIo == Init => IoInv
<1> SUFFICES ASSUME Init
             PROVE  IoInv
  OBVIOUS
<1>1. <<>> \in Seq(Byte) /\ <<>> \in Seq(BOOLEAN)
  OBVIOUS
<1>2. IoType
  <2>1. got \in Seq(Byte) /\ msg \in Seq(BOOLEAN)
    BY <1>1 DEF Init
  <2>2. /\ n \in Nat /\ len \in Nat /\ off \in Int /\ tmout \in Int /\ count \in Nat
        /\ sent \in Nat /\ spent \in Nat
    BY DEF Init
  <2>3. /\ opt \in [doLocking : BOOLEAN, doEndw : BOOLEAN, termCharSet : BOOLEAN]
        /\ op \in {"none", "write", "read"} /\ reason \subseteq {"END", "CHR", "REQCNT"}
        /\ at \in {"idle", "lock", "loop", "rpc", "unlock"} /\ endw \in BOOLEAN
        /\ holder \in {"none", "us", "other"} /\ aborted \in BOOLEAN /\ late \in BOOLEAN
    BY DEF Init
  <2>4. QED
    BY <2>1, <2>2, <2>3 DEF IoType
<1>3. Progress /\ Writing /\ Reading /\ Locking
  BY DEF Init, Progress, Writing, Reading, Locking
<1>4. QED
  BY <1>2, <1>3 DEF IoInv

(* Every step keeps the invariant, part by part.                           *)
LEMMA NextIo == IoInv /\ [Next]_vars => IoInv'
<1> SUFFICES ASSUME IoInv, [Next]_vars
             PROVE  IoInv'
  OBVIOUS
<1>1. CASE Next
  BY <1>1, TypeStep, ProgressStep, WritingStep, ReadingStep, LockingStep DEF IoInv
<1>2. CASE UNCHANGED vars
  BY <1>2 DEF IoInv, IoType, Progress, More, Writing, OursAt, Reading, Locking, vars, loopVars,
              instVars, timeVars
<1>3. QED
  BY <1>1, <1>2

(* What the loops keep, whatever the lengths.                              *)
THEOREM IoInvariance == Spec => []IoInv
  BY InitIo, NextIo, PTL DEF Spec

(* A write that returned success gave the instrument as many bytes as it   *)
(* was asked to, with END on the last and on no other, however the server  *)
(* cut the chunks.                                                         *)
THEOREM WritesAsMany == Spec => []WroteAsMany
<1>1. IoInv => WroteAsMany
  <2> SUFFICES ASSUME IoInv, op = "write", at = "idle", ret = "SUCCESS"
               PROVE  /\ Cardinality(OursAt) = n
                      /\ \A i \in OursAt :
                            got[i].end <=> (opt.doEndw /\ \A j \in OursAt : j <= i)
    BY DEF WroteAsMany
  <2>1. res = "SUCCESS" /\ len = 0
    BY DEF IoInv, IoType, Progress, More
  <2>2. Cardinality(OursAt) = n - 0 /\ n - 0 = n
    BY <2>1 DEF IoInv, Writing, IoType
  <2>3. QED
    BY <2>1, <2>2 DEF IoInv, Writing
<1>2. QED
  BY <1>1, IoInvariance, PTL

(* Between the RPCs of one write under doLocking the instrument hears      *)
(* nobody else, and success leaves no lock behind.                         *)
THEOREM LockSpansTheCall == Spec => []LockSpansCall
<1>1. IoInv => LockSpansCall
  BY DEF IoInv, Locking, LockSpansCall
<1>2. QED
  BY <1>1, IoInvariance, PTL

(* What a read stored is the beginning of the answer, and it stopped where *)
(* it was asked to stop.                                                   *)
THEOREM ReadsTheAnswer == Spec => []ReadIsTheAnswer
<1>1. IoInv => ReadIsTheAnswer
  <2> SUFFICES ASSUME IoInv, op = "read"
               PROVE  /\ count <= Len(mem) /\ Len(mem) <= n
                      /\ \A i \in DOMAIN mem : mem[i] = i
                      /\ at = "idle" /\ ret = "SUCCESS" =>
                            /\ Len(mem) = count
                            /\ count = n \/ count = Len(msg) \/ (opt.termCharSet /\ msg[count])
                            /\ opt.termCharSet => \A i \in 1 .. count - 1 : ~msg[i]
    BY DEF ReadIsTheAnswer
  <2>1. /\ mem = [i \in 1 .. sent |-> i] /\ sent \in Nat /\ count <= sent /\ sent <= n
        /\ count \in Nat /\ n \in Nat /\ len \in Nat /\ len = n - count
    BY DEF IoInv, Reading, IoType
  <2>2. /\ Len(mem) = sent /\ count <= Len(mem) /\ Len(mem) <= n
        /\ \A i \in DOMAIN mem : mem[i] = i
    BY <2>1
  <2>3. ASSUME at = "idle", ret = "SUCCESS"
        PROVE  /\ Len(mem) = count
               /\ count = n \/ count = Len(msg) \/ (opt.termCharSet /\ msg[count])
               /\ opt.termCharSet => \A i \in 1 .. count - 1 : ~msg[i]
    <3>1. res = "SUCCESS" /\ (len = 0 \/ reason # {})
      BY <2>1, <2>3 DEF IoInv, Progress, More, IoType
    <3>2. reason # {} => "END" \in reason \/ "CHR" \in reason \/ "REQCNT" \in reason
      BY DEF IoInv, IoType
    <3>3. opt.termCharSet => \A i \in 1 .. count : msg[i] => i = count
      BY <3>1 DEF IoInv, Reading
    <3>4. sent = count
      BY <3>1 DEF IoInv, Reading
    <3>5. QED
      BY <2>1, <2>2, <3>1, <3>2, <3>3, <3>4 DEF IoInv, Reading
  <2>4. QED
    BY <2>2, <2>3
<1>2. QED
  BY <1>1, IoInvariance, PTL

(* After vxi11_abort ended an RPC the call starts no other.                *)
THEOREM AbortsEndCalls == Spec => AbortEndsCall
<1>1. IoInv /\ [Next]_vars => [aborted /\ at = "loop" => at' # "rpc"]_vars
  <2> SUFFICES ASSUME IoInv, Next, aborted, at = "loop"
               PROVE  at' # "rpc"
    BY DEF IoInv
  <2>1. ~More
    BY DEF IoInv, Progress, More
  <2>2. QED
    BY <2>1 DEF Next, CallStep, vxi11_write, vxi11_read, Begin, TakeLock, SendWrite, SendRead,
                LoopDone, ReleaseLock, Return, WriteAnswered, ReadAnswered, RpcFails,
                vxi11_abort, OtherLocks, OtherUnlocks, OtherWrites, LinkClosed
<1>2. QED
  BY <1>1, IoInvariance, PTL DEF Spec, AbortEndsCall

-----------------------------------------------------------------------------
(* The subtraction does not wrap around when an answer came in time.       *)
LEMMA SmallMod ==
    ASSUME NEW a \in Nat, NEW w \in Nat, a < w
    PROVE  a % w = a
  OBVIOUS

(* An answer that came within the timeout it was given leaves what is left *)
(* of io_timeout between 0 and what it was, and 0 ends the call.           *)
LEMMA CountedDown ==
    ASSUME IoType, Timing, NEW d \in InTime, NEW left \in Nat, CountDown(d, left), ~late'
    PROVE  /\ ~late /\ tmout' \in 0 .. Timeout /\ spent' <= Timeout - tmout'
           /\ res' = "SUCCESS" /\ left > 0 => tmout' > 0
<1>0. ~late /\ ~(d > tmout)
  BY DEF CountDown, Elapse
<1>1. d \in Nat /\ d <= tmout /\ tmout <= Timeout /\ Timeout < Word /\ Word \in Nat
      /\ tmout \in Nat /\ Timeout \in Nat /\ spent \in Nat /\ spent <= Timeout - tmout
  BY <1>0, Vxi11IoAssumption DEF InTime, Timing, IoType
<1>2. tmout - d \in Nat /\ tmout - d < Word
  BY <1>1
<1>3. tmout' = tmout - d
  BY <1>1, <1>2, SmallMod DEF CountDown, Elapse, Minus
<1>4. spent' <= spent + d /\ spent' \in Nat
  BY <1>1, Vxi11IoAssumption DEF CountDown, Elapse
<1>5. QED
  BY <1>0, <1>1, <1>3, <1>4 DEF CountDown

(* Every step keeps the account of the time.                               *)
LEMMA TimingStep ==
    ASSUME IoInv, Timing, [Next]_vars
    PROVE  Timing'
<1>1. ASSUME NEW m \in 1 .. MaxLen, NEW fn \in {"write", "read"}, Begin(fn, m)
      PROVE  Timing'
  BY <1>1, Vxi11IoAssumption DEF Begin, Timing
<1>2. CASE Aside
  <2>1. UNCHANGED <<tmout, spent, late, res, len>>
    BY <1>2, AsideKeeps
  <2>2. at' # "idle" => at # "idle"
    BY <1>2 DEF Aside, vxi11_abort, OtherLocks, OtherUnlocks, LinkClosed, TakeLock, SendWrite,
                SendRead, LoopDone, ReleaseLock, Return
  <2>3. QED
    BY <2>1, <2>2 DEF Timing
<1>3. ASSUME NEW d \in InTime, NEW k \in 1 .. MaxLen, NEW said \in 0 .. MaxLen,
             WriteAnswered(k, said, d)
      PROVE  Timing'
  <2>1. CountDown(d, len') /\ len' \in Nat
    <3>1. CountDown(d, len - (IF said = 0 THEN Chunk ELSE said))
          /\ len' = len - (IF said = 0 THEN Chunk ELSE said)
      BY <1>3 DEF WriteAnswered
    <3>2. len' \in Nat
      BY <1>3, WriteTook DEF IoInv
    <3>3. QED
      BY <3>1, <3>2
  <2>2. QED
    BY <2>1, CountedDown DEF IoInv, Timing
<1>4. ASSUME NEW d \in InTime, NEW k \in 0 .. MaxLen, ReadAnswered(k, d)
      PROVE  Timing'
  <2>1. CountDown(d, len - k) /\ len' = len - k /\ len - k \in Nat
    BY <1>4 DEF ReadAnswered, IoInv, IoType
  <2>2. QED
    BY <2>1, CountedDown DEF IoInv, Timing
<1>5. ASSUME NEW code \in RpcErrors \cup {"ABORT", "LOCKED"}, RpcFails(code)
      PROVE  Timing'
  BY <1>5 DEF RpcFails, RpcErrors, timeVars, Timing
<1>6. CASE OtherWrites \/ UNCHANGED vars
  BY <1>6 DEF OtherWrites, vars, loopVars, timeVars, Timing
<1>7. QED
  BY <1>1, <1>2, <1>3, <1>4, <1>5, <1>6 DEF Next, CallStep, Aside, vxi11_write, vxi11_read

(* However much later than asked answers may come, no RPC is started once  *)
(* io_timeout is used up unless one of this call did come late.            *)
THEOREM TimesOutInTime == Spec => []TimesOutUnlessLate
<1>1. Init => Timing
  BY Vxi11IoAssumption DEF Init, Timing
<1>2. IoInv /\ Timing /\ [Next]_vars => Timing'
  BY TimingStep
<1>3. IoInv /\ Timing => TimesOutUnlessLate
  BY Vxi11IoAssumption DEF IoInv, IoType, Progress, More, Timing, TimesOutUnlessLate
<1>4. QED
  BY <1>1, <1>2, <1>3, IoInvariance, PTL DEF Spec
=============================================================================
