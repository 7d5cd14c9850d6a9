------------------------------ MODULE IcsProofs ------------------------------
(***************************************************************************)
(* Proofs about the two programs for ICS devices, which have nothing in    *)
(* common but the maker: Ics8064, then IcsConfig.                          *)
(*                                                                         *)
(* Ics8064, for any number of programs and any relay lists.  ExitIsTrue is *)
(* inductive with PendingIsOwed: what a program owes is what it is still   *)
(* about to send.  RadioBound counts programs instead of relays: since the *)
(* last time all relays were opened, every program has closed at most one, *)
(* and one that has is not about to close another.                         *)
(*                                                                         *)
(* IcsConfig, for any administrators, whatever the byte order of their     *)
(* hosts, any addresses and names, and any number of commands.  What the   *)
(* device stores is what it was told, in a form that does not depend on the*)
(* host it came from (Wire); an invocation has to do what its command stands*)
(* for (Doing).                                                            *)
(***************************************************************************)
EXTENDS Ics8064, IcsConfig, SequenceTheorems, FiniteSetTheorems, TLAPS

Words == {"OPEN", "CLOSE", "OPEN:ALL", "CLR", "*RST", "*ESE", "ASK", "READ", "LOC"}
Message == [what : Words, r : Nat]
Owing == {"OPEN", "CLOSE", "LIST"} \X Nat

TypeOK ==
    /\ radio \subseteq Proc
    /\ exit_val \in [Proc -> {0, 1}]
    /\ at \in [Proc -> {"exited", "options", "send", "poll", "esr"}]
    /\ todo \in [Proc -> Seq(Message)]
    /\ owed \in [Proc -> SUBSET Owing]
    /\ IsFiniteSet(closed)
    /\ swept \in BOOLEAN

(* Where messages are left to send.                                        *)
TodoWhere ==
    \A p \in Proc : /\ at[p] \in {"exited", "options"} => todo[p] = <<>>
                    /\ at[p] = "send" => todo[p] # <<>>

(* What a program that will end with 0 owes is among what it still sends.  *)
PendingIsOwed ==
    \A p \in Proc : exit_val[p] = 0 =>
        \A x \in owed[p] : \E i \in DOMAIN todo[p] : x = <<todo[p][i].what, todo[p][i].r>>

(* A program in radio mode closes a relay right after it opened all.       *)
Closes(messages, i) == messages[i].what = "CLOSE"
ClosesAlone(messages) ==
    \A i \in 2 .. Len(messages) : Closes(messages, i) => messages[i - 1].what = "OPEN:ALL"
RadioTodo == radio = Proc => \A p \in Proc : ClosesAlone(todo[p])

(* There are programs, each of which has closed one relay and is not about *)
(* to close another, that account for all closed relays.                   *)
Armed(p) == todo[p] # <<>> /\ Closes(todo[p], 1)
OneEach ==
    radio = Proc /\ swept => \E D \in SUBSET Proc :
        /\ Cardinality(closed) <= Cardinality(D)
        /\ \A p \in D : ~Armed(p)

IInv == TypeOK /\ TodoWhere /\ PendingIsOwed /\ RadioTodo /\ OneEach

-----------------------------------------------------------------------------
(* What an option sends: messages, at least one; one for every relay of    *)
(* its list; and in radio mode no CLOSE that does not follow OPEN:ALL.     *)
LEMMA RadioButtonsRight ==
    ASSUME NEW list \in List
    PROVE  LET m == RadioButtons(list) IN
           /\ m \in Seq(Message) /\ m # <<>>
           /\ \A i \in DOMAIN list : \E j \in DOMAIN m : m[j] = Msg("CLOSE", list[i])
           /\ ~Closes(m, 1) /\ ClosesAlone(m)
<1> DEFINE m == RadioButtons(list)
<1>1. list \in Seq(Nat) /\ Len(list) \in Nat \ {0} /\ DOMAIN list = 1 .. Len(list)
  BY Ics8064Assumption
<1>2. /\ \A k \in 1 .. 2 * Len(list) : k % 2 # 1 => k \div 2 \in 1 .. Len(list)
      /\ \A k \in 1 .. Len(list) : (2 * k) % 2 # 1 /\ (2 * k) \div 2 = k /\ 2 * k \in 1 .. 2 * Len(list)
      /\ \A k \in 2 .. 2 * Len(list) : k % 2 # 1 => (k - 1) % 2 = 1 /\ k - 1 \in 1 .. 2 * Len(list)
      /\ 1 % 2 = 1
  BY <1>1
<1>3. m \in Seq(Message) /\ Len(m) = 2 * Len(list) /\ DOMAIN m = 1 .. 2 * Len(list)
  BY <1>1, <1>2 DEF RadioButtons, Msg, Message, Words
<1>4. \A k \in 1 .. 2 * Len(list) :
        /\ k % 2 = 1 => m[k].what = "OPEN:ALL"
        /\ k % 2 # 1 => m[k] = Msg("CLOSE", list[k \div 2])
  BY DEF RadioButtons, Msg
<1>5. \A i \in DOMAIN list : m[2 * i] = Msg("CLOSE", list[i])
  BY <1>1, <1>2, <1>4
<1>6. ~Closes(m, 1) /\ ClosesAlone(m)
  BY <1>1, <1>2, <1>3, <1>4 DEF Closes, ClosesAlone
<1> HIDE DEF m
<1>7. m # <<>>
  BY <1>1, <1>3
<1>8. \A i \in DOMAIN list : \E j \in DOMAIN m : m[j] = Msg("CLOSE", list[i])
  BY <1>1, <1>2, <1>3, <1>5
<1>9. QED
  BY <1>3, <1>6, <1>7, <1>8 DEF m

(* ics8064.c:_open_relays and _close_relays: every relay of the list gets  *)
(* a message, and in radio mode a CLOSE comes alone and after OPEN:ALL.    *)
LEMMA RelaysRight ==
    ASSUME NEW p \in Proc, NEW list \in List, NEW what \in {"OPEN", "CLOSE"}
    PROVE  LET m == IF what = "OPEN" THEN _open_relays(list) ELSE _close_relays(p, list) IN
           /\ m \in Seq(Message) /\ m # <<>>
           /\ \A i \in DOMAIN list : \E j \in DOMAIN m : m[j] = Msg(what, list[i])
           /\ p \in radio => ~Closes(m, 1) /\ ClosesAlone(m)
<1>1. list \in Seq(Nat) /\ list # <<>>
  BY Ics8064Assumption
<1> DEFINE one(w) == [i \in DOMAIN list |-> Msg(w, list[i])]
<1>2. ASSUME NEW w \in {"OPEN", "CLOSE"}
      PROVE  /\ one(w) \in Seq(Message) /\ one(w) # <<>>
             /\ DOMAIN one(w) = DOMAIN list
             /\ \A i \in DOMAIN list : one(w)[i] = Msg(w, list[i])
  <2>1. DOMAIN list = 1 .. Len(list) /\ Len(list) \in Nat \ {0}
    BY <1>1
  <2>2. \A i \in 1 .. Len(list) : Msg(w, list[i]) \in Message
    BY <1>1 DEF Msg, Message, Words
  <2>3. one(w) \in Seq(Message) /\ Len(one(w)) = Len(list)
    BY <2>1, <2>2
  <2>4. QED
    BY <2>1, <2>3
<1>3. ~Closes(one("OPEN"), 1) /\ ClosesAlone(one("OPEN"))
  BY <1>1 DEF Closes, ClosesAlone, Msg
<1>4. CASE what = "OPEN"
  BY <1>2, <1>3, <1>4 DEF _open_relays
<1>5. CASE what = "CLOSE" /\ p \in radio
  BY <1>5, RadioButtonsRight DEF _close_relays
<1>6. CASE what = "CLOSE" /\ p \notin radio
  BY <1>2, <1>6 DEF _close_relays
<1>7. QED
  BY <1>4, <1>5, <1>6

-----------------------------------------------------------------------------
(* An option or shell command begins: it owes X, and will send it.         *)
LEMMA CommandStep ==
    ASSUME IInv, NEW p \in Proc, NEW m \in Seq(Message), m # <<>>,
           p \in radio => ~Closes(m, 1) /\ ClosesAlone(m),
           NEW X \in SUBSET Owing,
           \A x \in X : \E j \in DOMAIN m : x = <<m[j].what, m[j].r>>,
           Command(p, m), owed' = [owed EXCEPT ![p] = owed[p] \cup X]
    PROVE  IInv'
<1>0. /\ TypeOK /\ TodoWhere /\ PendingIsOwed /\ RadioTodo /\ OneEach
      /\ todo[p] = <<>> /\ todo'[p] = m
      /\ \A q \in Proc \ {p} : todo'[q] = todo[q] /\ at'[q] = at[q] /\ owed'[q] = owed[q]
      /\ at'[p] = "send" /\ owed'[p] = owed[p] \cup X
  BY DEF IInv, Command, TypeOK, TodoWhere
<1>1. TypeOK'
  BY <1>0 DEF Command, TypeOK, deviceVars
<1>2. TodoWhere'
  BY <1>0 DEF Command, TodoWhere
<1>3. PendingIsOwed'
  <2> SUFFICES ASSUME NEW q \in Proc, exit_val'[q] = 0, NEW x \in owed'[q]
               PROVE  \E i \in DOMAIN todo'[q] : x = <<todo'[q][i].what, todo'[q][i].r>>
    BY DEF PendingIsOwed
  <2>1. CASE q # p
    BY <1>0, <2>1 DEF PendingIsOwed, Command
  <2>2. CASE q = p
    <3>1. owed[p] = {}
      BY <1>0, <2>2 DEF PendingIsOwed, Command
    <3>2. QED
      BY <1>0, <2>2, <3>1
  <2>3. QED
    BY <2>1, <2>2
<1>4. RadioTodo'
  BY <1>0 DEF RadioTodo, Command
<1>5. OneEach'
  <2> SUFFICES ASSUME radio = Proc, swept
               PROVE  \E D \in SUBSET Proc : /\ Cardinality(closed) <= Cardinality(D)
                                             /\ \A q \in D : ~Armed(q)'
    BY DEF OneEach, Command, deviceVars
  <2>1. PICK D \in SUBSET Proc : /\ Cardinality(closed) <= Cardinality(D)
                                 /\ \A q \in D : ~Armed(q)
    BY <1>0 DEF OneEach
  <2>2. \A q \in D : ~Armed(q)'
    BY <1>0, <2>1 DEF Armed
  <2>3. QED
    BY <2>1, <2>2
<1>6. QED
  BY <1>1, <1>2, <1>3, <1>4, <1>5 DEF IInv

(* The device executes the next message of p, which goes on or ends: p has *)
(* closed one more relay and is not about to close another, or it has      *)
(* opened all, or the number of closed relays did not grow.                *)
LEMMA ExecuteStep ==
    ASSUME IInv, NEW p \in Proc, at[p] = "send", Execute(Head(todo[p])),
           radio' = radio, \A q \in Proc \ {p} : todo'[q] = todo[q],
           todo'[p] \in {<<>>, Tail(todo[p])}
    PROVE  IsFiniteSet(closed') /\ swept' \in BOOLEAN /\ OneEach'
<1> DEFINE m == todo[p][1]
<1>0. /\ TypeOK /\ TodoWhere /\ RadioTodo /\ OneEach
      /\ todo[p] \in Seq(Message) /\ todo[p] # <<>> /\ Execute(m) /\ m \in Message
  BY DEF IInv, TypeOK, TodoWhere
<1> HIDE DEF m
<1>1. IsFiniteSet(closed)
  BY <1>0 DEF TypeOK
<1>2. closed' \in {closed, {}, closed \ {m.r}, closed \cup {m.r}}
  BY <1>0 DEF Execute
<1>3. IsFiniteSet(closed')
  BY <1>1, <1>2, FS_AddElement, FS_EmptySet, FS_Subset
<1>4. swept' \in BOOLEAN
  BY <1>0 DEF Execute, TypeOK
<1>5. ASSUME radio = Proc, swept'
      PROVE  \E D \in SUBSET Proc : /\ Cardinality(closed') <= Cardinality(D)
                                    /\ \A q \in D : ~Armed(q)'
  <2>1. CASE closed' = {}
    <3>1. Cardinality(closed') <= Cardinality({})
      BY <2>1, FS_EmptySet
    <3>2. QED
      BY <3>1
  <2>2. CASE closed' # {}
    <3>1. m.what \notin {"OPEN:ALL", "*RST"}
      BY <1>0, <2>2 DEF Execute
    <3>2. swept
      BY <1>0, <1>5, <3>1 DEF Execute, TypeOK
    <3>3. PICK D \in SUBSET Proc : /\ Cardinality(closed) <= Cardinality(D)
                                   /\ \A q \in D : ~Armed(q)
      BY <1>0, <1>5, <3>2 DEF OneEach
    <3>4. ~Armed(p)'
      <4>1. CASE todo'[p] = <<>>
        BY <4>1 DEF Armed
      <4>2. CASE todo'[p] = Tail(todo[p]) /\ todo'[p] # <<>>
        <5>1. 2 \in 2 .. Len(todo[p]) /\ todo'[p][1] = todo[p][2]
          BY <1>0, <4>2
        <5>2. todo[p][2].what # "CLOSE"
          BY <1>0, <1>5, <3>1, <5>1 DEF RadioTodo, ClosesAlone, Closes, m
        <5>3. QED
          BY <5>1, <5>2 DEF Armed, Closes
      <4>3. QED
        BY <4>1, <4>2
    <3>5. IsFiniteSet(D) /\ IsFiniteSet(D \cup {p})
      BY Ics8064Assumption, FS_Subset
    <3>6. \A q \in D \cup {p} : ~Armed(q)'
      BY <3>3, <3>4 DEF Armed
    <3>7. CASE m.what = "CLOSE"
      <4>1. p \notin D
        BY <1>0, <3>3, <3>7 DEF Armed, Closes, m
      <4>2. Cardinality(D \cup {p}) = Cardinality(D) + 1
        BY <3>5, <4>1, FS_AddElement
      <4>3. closed' = closed \cup {m.r}
        BY <1>0, <3>7 DEF Execute
      <4>4. Cardinality(closed') <= Cardinality(closed) + 1
        <5>1. CASE m.r \in closed
          <6>1. closed' = closed
            BY <4>3, <5>1
          <6>2. QED
            BY <1>1, <6>1, FS_CardinalityType
        <5>2. CASE m.r \notin closed
          <6>1. Cardinality(closed \cup {m.r}) = Cardinality(closed) + 1
            BY <1>1, <5>2, FS_AddElement
          <6>2. QED
            BY <1>1, <4>3, <6>1, FS_CardinalityType
        <5>3. QED
          BY <5>1, <5>2
      <4>5. Cardinality(closed') <= Cardinality(D \cup {p})
        BY <1>1, <1>3, <3>3, <3>5, <4>2, <4>4, FS_CardinalityType
      <4>6. QED
        BY <3>6, <4>5
    <3>8. CASE m.what # "CLOSE"
      <4>1. closed' \subseteq closed
        BY <1>0, <3>8 DEF Execute
      <4>2. Cardinality(closed') <= Cardinality(closed)
        BY <1>1, <4>1, FS_Subset
      <4>3. Cardinality(closed') <= Cardinality(D)
        BY <1>1, <1>3, <3>3, <3>5, <4>2, FS_CardinalityType
      <4>4. QED
        BY <3>6, <4>3
    <3>9. QED
      BY <3>7, <3>8
  <2>3. QED
    BY <2>1, <2>2
<1>6. QED
  BY <1>3, <1>4, <1>5 DEF OneEach
(* Nothing is opened or closed, and every program sends what it was going  *)
(* to or nothing.                                                          *)
LEMMA QuietStep ==
    ASSUME IInv, radio' = radio, closed' = closed, swept' = swept,
           \A q \in Proc : todo'[q] \in {todo[q], <<>>}
    PROVE  OneEach'
<1> SUFFICES ASSUME radio = Proc, swept
             PROVE  \E D \in SUBSET Proc : /\ Cardinality(closed) <= Cardinality(D)
                                           /\ \A q \in D : ~Armed(q)'
  BY DEF OneEach
<1>1. PICK D \in SUBSET Proc : /\ Cardinality(closed) <= Cardinality(D)
                               /\ \A q \in D : ~Armed(q)
  BY DEF IInv, OneEach
<1>2. \A q \in D : ~Armed(q)'
  BY <1>1 DEF Armed
<1>3. QED
  BY <1>1, <1>2

(* The program exits with 1, whatever became of its last message.          *)
LEMMA ExitStep ==
    ASSUME IInv, NEW p \in Proc, Exit1(p), radio' = radio,
           IsFiniteSet(closed'), swept' \in BOOLEAN, OneEach'
    PROVE  IInv'
<1>0. /\ TypeOK /\ TodoWhere /\ PendingIsOwed /\ RadioTodo
      /\ \A q \in Proc \ {p} : /\ todo'[q] = todo[q] /\ at'[q] = at[q]
                               /\ owed'[q] = owed[q] /\ exit_val'[q] = exit_val[q]
      /\ at'[p] = "exited" /\ owed'[p] = {} /\ todo'[p] = <<>> /\ exit_val'[p] = 1
  BY DEF IInv, Exit1, TypeOK
<1>1. TypeOK'
  BY <1>0 DEF Exit1, TypeOK
<1>2. TodoWhere'
  BY <1>0 DEF TodoWhere
<1>3. PendingIsOwed'
  BY <1>0 DEF PendingIsOwed
<1>4. RadioTodo'
  BY <1>0 DEF RadioTodo, ClosesAlone
<1>5. QED
  BY <1>1, <1>2, <1>3, <1>4 DEF IInv

(* A message is sent, and the program goes on to poll.                     *)
LEMMA WriteStep ==
    ASSUME IInv, NEW p \in Proc, inst_wrt(p)
    PROVE  IInv'
<1> DEFINE t == todo[p]
<1>0. /\ TypeOK /\ TodoWhere /\ PendingIsOwed /\ RadioTodo
      /\ \A q \in Proc \ {p} : todo'[q] = todo[q] /\ at'[q] = at[q] /\ owed'[q] = owed[q]
      /\ at[p] = "send" /\ at'[p] = "poll" /\ todo'[p] = Tail(t)
      /\ owed'[p] = owed[p] \ {<<Head(t).what, Head(t).r>>}
      /\ exit_val' = exit_val /\ radio' = radio
      /\ t \in Seq(Message) /\ t # <<>>
  BY DEF IInv, inst_wrt, TypeOK, TodoWhere
<1>1. IsFiniteSet(closed') /\ swept' \in BOOLEAN /\ OneEach'
  BY <1>0, ExecuteStep DEF inst_wrt
<1> HIDE DEF t
<1>2. Tail(t) \in Seq(Message) /\ Len(Tail(t)) = Len(t) - 1 /\ Len(t) \in Nat \ {0}
      /\ \A i \in 1 .. Len(t) - 1 : Tail(t)[i] = t[i + 1]
  BY <1>0
<1>3. TypeOK'
  BY <1>0, <1>1, <1>2 DEF TypeOK, inst_wrt
<1>4. TodoWhere'
  BY <1>0 DEF TodoWhere
<1>5. PendingIsOwed'
  <2> SUFFICES ASSUME NEW q \in Proc, exit_val[q] = 0, NEW x \in owed'[q]
               PROVE  \E i \in DOMAIN todo'[q] : x = <<todo'[q][i].what, todo'[q][i].r>>
    BY <1>0 DEF PendingIsOwed
  <2>1. CASE q # p
    <3>1. todo'[q] = todo[q] /\ owed'[q] = owed[q]
      BY <1>0, <2>1
    <3>2. \E i \in DOMAIN todo[q] : x = <<todo[q][i].what, todo[q][i].r>>
      BY <1>0, <3>1 DEF PendingIsOwed
    <3>3. QED
      BY <3>1, <3>2
  <2>2. CASE q = p
    <3>1. x \in owed[p] /\ x # <<Head(t).what, Head(t).r>>
      BY <1>0, <2>2
    <3>2. PICK i \in DOMAIN t : x = <<t[i].what, t[i].r>>
      BY <1>0, <2>2, <3>1 DEF PendingIsOwed, t
    <3>3. i \in 1 .. Len(t) /\ i # 1
      BY <1>0, <3>1, <3>2
    <3>4. i - 1 \in DOMAIN Tail(t) /\ Tail(t)[i - 1] = t[i]
      BY <1>2, <3>3
    <3>5. QED
      BY <1>0, <2>2, <3>2, <3>4
  <2>3. QED
    BY <2>1, <2>2
<1>6. RadioTodo'
  <2> SUFFICES ASSUME radio = Proc, NEW q \in Proc
               PROVE  ClosesAlone(todo'[q])
    BY <1>0 DEF RadioTodo
  <2>1. CASE q # p
    BY <1>0, <2>1 DEF RadioTodo
  <2>2. CASE q = p
    <3> SUFFICES ASSUME NEW i \in 2 .. Len(Tail(t)), Closes(Tail(t), i)
                 PROVE  Tail(t)[i - 1].what = "OPEN:ALL"
      BY <1>0, <2>2 DEF ClosesAlone
    <3>1. i \in Nat /\ i + 1 \in 2 .. Len(t) /\ i \in 1 .. Len(t) - 1 /\ i - 1 \in 1 .. Len(t) - 1
      BY <1>2
    <3>2. Tail(t)[i] = t[i + 1] /\ Tail(t)[i - 1] = t[i] /\ (i + 1) - 1 = i
      BY <1>2, <3>1
    <3>3. t[(i + 1) - 1].what = "OPEN:ALL"
      BY <1>0, <3>1, <3>2 DEF RadioTodo, ClosesAlone, Closes, t
    <3>4. QED
      BY <3>2, <3>3
  <2>3. QED
    BY <2>1, <2>2
<1>7. QED
  BY <1>1, <1>3, <1>4, <1>5, <1>6 DEF IInv

-----------------------------------------------------------------------------
(* The invariant holds at the start: the relays are few.                   *)
LEMMA InitIInv == Init => IInv
<1> SUFFICES ASSUME Init
             PROVE  IInv
  OBVIOUS
<1>1. IsFiniteSet(closed)
  <2>1. 1 \in Int /\ 16 \in Int
    OBVIOUS
  <2>2. IsFiniteSet(1 .. 16)
    BY <2>1, FS_Interval
  <2>3. closed \subseteq 1 .. 16
    BY DEF Init, Named, Relay
  <2>4. QED
    BY <2>2, <2>3, FS_Subset
<1>2. TypeOK
  <2>1. <<>> \in Seq(Message)
    OBVIOUS
  <2>2. todo \in [Proc -> Seq(Message)]
    BY <2>1 DEF Init
  <2>3. owed \in [Proc -> SUBSET Owing]
    BY DEF Init
  <2>4. QED
    BY <1>1, <2>2, <2>3 DEF Init, TypeOK
<1>3. TodoWhere /\ PendingIsOwed /\ RadioTodo /\ OneEach
  BY DEF Init, TodoWhere, PendingIsOwed, RadioTodo, ClosesAlone, OneEach
<1>4. QED
  BY <1>2, <1>3 DEF IInv

(* Every step of a program or of the device keeps it.                      *)
LEMMA StepIInv == IInv /\ [Next]_vars => IInv'
<1> SUFFICES ASSUME IInv, [Next]_vars
             PROVE  IInv'
  OBVIOUS
<1>0. TypeOK /\ TodoWhere /\ PendingIsOwed /\ RadioTodo /\ OneEach
  BY DEF IInv
<1>1. CASE UNCHANGED vars
  BY <1>0, <1>1 DEF vars, progVars, deviceVars, IInv, TypeOK, TodoWhere, PendingIsOwed,
                    RadioTodo, OneEach, Armed
<1>2. CASE Fault
  BY <1>0, <1>2 DEF Fault, progVars, IInv, TypeOK, TodoWhere, PendingIsOwed,
                    RadioTodo, OneEach, Armed
<1>3. CASE PowerCycle
  <2>1. IsFiniteSet(closed') /\ Cardinality(closed') <= Cardinality({})
    BY <1>3, FS_EmptySet DEF PowerCycle
  <2>2. OneEach'
    BY <2>1 DEF OneEach
  <2>3. QED
    BY <1>0, <1>3, <2>1, <2>2 DEF PowerCycle, progVars, IInv, TypeOK, TodoWhere,
                                  PendingIsOwed, RadioTodo
<1>4. ASSUME NEW p \in Proc, main(p)
      PROVE  IInv'
  <2>1. OneEach'
    BY <1>0, <1>4, QuietStep DEF main, deviceVars
  <2>2. TypeOK'
    BY <1>0, <1>4 DEF main, deviceVars, TypeOK
  <2>3. TodoWhere' /\ PendingIsOwed' /\ RadioTodo'
    BY <1>0, <1>4 DEF main, TypeOK, TodoWhere, PendingIsOwed, RadioTodo
  <2>4. QED
    BY <2>1, <2>2, <2>3 DEF IInv
<1>5. ASSUME NEW p \in Proc, NEW list \in List, NEW what \in {"OPEN", "CLOSE"},
             open_close(p, what, list)
      PROVE  IInv'
  <2> DEFINE m == IF what = "OPEN" THEN _open_relays(list) ELSE _close_relays(p, list)
             X == {<<what, list[i]>> : i \in DOMAIN list}
  <2>1. /\ m \in Seq(Message) /\ m # <<>>
        /\ \A i \in DOMAIN list : \E j \in DOMAIN m : m[j] = Msg(what, list[i])
        /\ p \in radio => ~Closes(m, 1) /\ ClosesAlone(m)
    BY RelaysRight
  <2>2. Command(p, m) /\ owed' = [owed EXCEPT ![p] = owed[p] \cup X]
    BY <1>5 DEF open_close, Moves
  <2>3. list \in Seq(Nat)
    BY Ics8064Assumption
  <2>4. X \in SUBSET Owing
    BY <2>3 DEF Owing
  <2> HIDE DEF m
  <2>5. \A x \in X : \E j \in DOMAIN m : x = <<m[j].what, m[j].r>>
    BY <2>1 DEF Msg
  <2> HIDE DEF X
  <2>6. QED
    BY <2>1, <2>2, <2>4, <2>5, CommandStep
<1>6. ASSUME NEW p \in Proc, NEW list \in List, NEW inShell \in BOOLEAN,
             targets_refused(p, list, inShell)
      PROVE  IInv'
  <2>1. OneEach'
    BY <1>0, <1>6, QuietStep DEF targets_refused, deviceVars
  <2>2. TypeOK'
    <3>1. owed' \in [Proc -> SUBSET Owing]
      <4>1. Refused \in Owing
        BY DEF Refused, Owing
      <4>2. \A S \in SUBSET Owing : S \cup {Refused} \in SUBSET Owing
        BY <4>1
      <4>3. QED
        BY <1>0, <1>6, <4>2 DEF targets_refused, TypeOK
    <3>2. exit_val' \in [Proc -> {0, 1}]
      BY <1>0, <1>6 DEF targets_refused, Refuse, TypeOK
    <3>3. QED
      BY <1>0, <1>6, <3>1, <3>2 DEF targets_refused, deviceVars, TypeOK
  <2>3. TodoWhere' /\ RadioTodo'
    BY <1>0, <1>6 DEF targets_refused, TodoWhere, RadioTodo
  <2>4. PendingIsOwed'
    BY <1>0, <1>6 DEF targets_refused, Refuse, TypeOK, PendingIsOwed
  <2>5. QED
    BY <2>1, <2>2, <2>3, <2>4 DEF IInv
<1>7. ASSUME NEW p \in Proc, _clear(p) \/ query(p) \/ inst_loc(p)
      PROVE  IInv'
  <2>1. PICK m \in {<<Msg("CLR", 0), Msg("*RST", 0), Msg("*ESE", 0)>>,
                    <<Msg("ASK", 0), Msg("READ", 0)>>, <<Msg("LOC", 0)>>} :
           Command(p, m) /\ owed' = owed
    BY <1>7 DEF _clear, query, inst_loc
  <2>2. m \in Seq(Message) /\ m # <<>> /\ ~Closes(m, 1) /\ ClosesAlone(m)
    <3>1. \A w \in Words : Msg(w, 0) \in Message /\ Msg(w, 0).what = w
      BY DEF Msg, Message
    <3> DEFINE a == Msg("CLR", 0)    b == Msg("*RST", 0)    c == Msg("*ESE", 0)
               d == Msg("ASK", 0)    e == Msg("READ", 0)    f == Msg("LOC", 0)
    <3>2. /\ {a, b, c, d, e, f} \subseteq Message
          /\ \A x \in {a, b, c, d, e, f} : x.what # "CLOSE"
      BY <3>1 DEF Words
    <3> HIDE DEF a, b, c, d, e, f
    <3>3. CASE m = <<a, b, c>>
      BY <3>2, <3>3 DEF Closes, ClosesAlone
    <3>4. CASE m = <<d, e>>
      BY <3>2, <3>4 DEF Closes, ClosesAlone
    <3>5. CASE m = <<f>>
      BY <3>2, <3>5 DEF Closes, ClosesAlone
    <3>6. QED
      BY <3>3, <3>4, <3>5 DEF a, b, c, d, e, f
  <2>3. owed' = [owed EXCEPT ![p] = owed[p] \cup {}]
    BY <1>0, <2>1 DEF TypeOK
  <2>4. \A x \in {} : \E j \in DOMAIN m : x = <<m[j].what, m[j].r>>
    OBVIOUS
  <2>5. {} \in SUBSET Owing
    OBVIOUS
  <2>6. QED
    BY <2>1, <2>2, <2>3, <2>4, <2>5, CommandStep
<1>8. ASSUME NEW p \in Proc, inst_fini(p)
      PROVE  IInv'
  <2>1. OneEach'
    BY <1>0, <1>8, QuietStep DEF inst_fini, deviceVars
  <2>2. TypeOK'
    BY <1>0, <1>8 DEF inst_fini, deviceVars, TypeOK
  <2>3. TodoWhere' /\ PendingIsOwed' /\ RadioTodo'
    BY <1>0, <1>8 DEF inst_fini, TypeOK, TodoWhere, PendingIsOwed, RadioTodo
  <2>4. QED
    BY <2>1, <2>2, <2>3 DEF IInv
<1>9. ASSUME NEW p \in Proc, inst_wrt_fails(p)
      PROVE  IInv'
  <2>1. todo'[p] = <<>> /\ \A q \in Proc \ {p} : todo'[q] = todo[q]
    BY <1>0, <1>9 DEF inst_wrt_fails, Exit1, TypeOK
  <2>2. CASE Execute(Head(todo[p]))
    <3>1. IsFiniteSet(closed') /\ swept' \in BOOLEAN /\ OneEach'
      BY <1>9, <2>1, <2>2, ExecuteStep DEF inst_wrt_fails
    <3>2. QED
      BY <1>9, <3>1, ExitStep DEF inst_wrt_fails
  <2>3. CASE UNCHANGED deviceVars
    <3>1. OneEach'
      BY <1>9, <2>1, <2>3, QuietStep DEF inst_wrt_fails, deviceVars
    <3>2. QED
      BY <1>0, <1>9, <2>3, <3>1, ExitStep DEF inst_wrt_fails, deviceVars, TypeOK
  <2>4. QED
    BY <1>9, <2>2, <2>3 DEF inst_wrt_fails
<1>10. ASSUME NEW p \in Proc, _serial_poll(p)
       PROVE  IInv'
  <2>1. OneEach'
    BY <1>0, <1>10, QuietStep DEF _serial_poll, deviceVars
  <2>2. TypeOK'
    BY <1>0, <1>10 DEF _serial_poll, deviceVars, TypeOK
  <2>3. TodoWhere'
    BY <1>0, <1>10 DEF _serial_poll, TypeOK, TodoWhere
  <2>4. PendingIsOwed' /\ RadioTodo'
    BY <1>0, <1>10 DEF _serial_poll, PendingIsOwed, RadioTodo
  <2>5. QED
    BY <2>1, <2>2, <2>3, <2>4 DEF IInv
<1>11. ASSUME NEW p \in Proc, inst_rsp_fails(p) \/ _interpret_status(p)
       PROVE  IInv'
  <2>1. /\ Exit1(p) /\ radio' = radio /\ closed' = closed /\ swept' = swept
        /\ \A q \in Proc : todo'[q] \in {todo[q], <<>>}
    BY <1>0, <1>11 DEF inst_rsp_fails, _interpret_status, Exit1, deviceVars, TypeOK
  <2>2. OneEach'
    BY <2>1, QuietStep
  <2>3. QED
    BY <1>0, <2>1, <2>2, ExitStep DEF TypeOK
<1>12. QED
  BY <1>1, <1>2, <1>3, <1>4, <1>5, <1>6, <1>7, <1>8, <1>9, <1>10, <1>11, WriteStep
     DEF Next, Program

-----------------------------------------------------------------------------
(* The invariant, of every behaviour: types, what is owed, what is armed.  *)
THEOREM Invariant == Spec => []IInv
<1>1. QED
  BY InitIInv, StepIInv, PTL DEF Spec

(* A program that ends with 0 has sent all that its options asked for and  *)
(* refused no list, whatever the other programs and the device do.         *)
THEOREM ExitCodesAreTrue == Spec => []ExitIsTrue
<1>1. IInv => ExitIsTrue
  <2> SUFFICES ASSUME IInv, NEW p \in Proc, at[p] = "exited", exit_val[p] = 0
               PROVE  owed[p] = {}
    BY DEF ExitIsTrue
  <2>1. DOMAIN todo[p] = {}
    BY DEF IInv, TodoWhere
  <2>2. QED
    BY <2>1 DEF IInv, PendingIsOwed
<1>2. QED
  BY Invariant, <1>1, PTL

(* Radio mode: n programs that share a device leave no more than n relays  *)
(* closed, and one alone no more than one, as the manual says.             *)
THEOREM RadioModeBound == Spec => []RadioBound
<1>1. IInv => RadioBound
  <2> SUFFICES ASSUME IInv, radio = Proc, swept
               PROVE  Cardinality(closed) <= Cardinality(Proc)
    BY DEF RadioBound
  <2>1. PICK D \in SUBSET Proc : Cardinality(closed) <= Cardinality(D)
    BY DEF IInv, OneEach
  <2>2. IsFiniteSet(Proc) /\ IsFiniteSet(D) /\ Cardinality(D) <= Cardinality(Proc)
    BY Ics8064Assumption, FS_Subset
  <2>3. IsFiniteSet(closed)
    BY DEF IInv, TypeOK
  <2>4. QED
    BY <2>1, <2>2, <2>3, FS_CardinalityType
<1>2. QED
  BY Invariant, <1>1, PTL

-----------------------------------------------------------------------------
(***************************************************************************)
(* IcsConfig.                                                              *)
(***************************************************************************)
Bytes == [1 .. 4 -> 0 .. 255]
Given == Ip \cup Name \cup {"yes", "no"}
Stored == Bytes \cup Name \cup {0, 1}

(* What goes over the wire, from any host.                                 *)
Wire(a, v) ==
    CASE a = "ip-address" -> Reverse(v)
      [] a = "enable-dhcp" -> IF v = "yes" THEN 0 ELSE 1
      [] a = "gpib-controller" -> IF v = "yes" THEN 1 ELSE 0
      [] OTHER -> v

DeviceInv ==
    /\ text \in [Area -> [Attr -> Given]] /\ mem \in [Area -> [Attr -> Stored]]
    /\ \A area \in Area : \A a \in Attr :
        text[area][a] \in Value[a] /\ mem[area][a] = Wire(a, text[area][a])

Commands == {"none", "get", "set", "reload", "factory", "commit", "reboot"}
Said == Commands \cup {"nothing", "rpc error", "ics error"}
Request == Attr \cup {"reload_config", "commit_config", "reboot"}
Invocation == [cmd : Commands, todo : Seq(Request), value : Given \cup {"none"},
               conn : BOOLEAN, said : Said,
               shown : Given \cup {"none"}]

(* What an invocation has still to do.                                     *)
Doing(i) ==
    \/ i.todo = <<>>
    \/ i.cmd = "get" /\ i.todo \in Seq(Attr)
    \/ i.cmd = "set" /\ \E a \in Attr : i.todo = <<a>> /\ i.value \in Value[a]
    \/ i.cmd \in DOMAIN Procedure /\ i.todo = <<Procedure[i.cmd]>>

ProcInv == proc \in [Admin -> Invocation] /\ \A p \in Admin : Doing(proc[p])

IcsInv == DeviceInv /\ ProcInv

-----------------------------------------------------------------------------
(* Four bytes turned around ...                                            *)
LEMMA TurnedAround ==
  ASSUME NEW b \in Bytes
  PROVE  Reverse(b) \in Bytes /\ \A i \in 1 .. 4 : Reverse(b)[i] = b[5 - i]
<1>1. Len(b) = 4
  BY DEF Bytes
<1>2. Reverse(b) = [i \in 1 .. 4 |-> b[(4 - i) + 1]]
  BY <1>1 DEF Reverse
<1>3. QED
  BY <1>2 DEF Bytes

(* ... and around again are as they were.                                  *)
LEMMA Reversed ==
  ASSUME NEW b \in Bytes
  PROVE  Reverse(b) \in Bytes /\ Reverse(Reverse(b)) = b
<1>1. Reverse(b) \in Bytes /\ \A i \in 1 .. 4 : Reverse(b)[i] = b[5 - i]
  BY TurnedAround
<1>2. /\ Reverse(Reverse(b)) \in Bytes
      /\ \A i \in 1 .. 4 : Reverse(Reverse(b))[i] = Reverse(b)[5 - i]
  BY <1>1, TurnedAround
<1>3. \A i \in 1 .. 4 : Reverse(Reverse(b))[i] = b[i]
  BY <1>1, <1>2
<1>4. QED
  BY <1>1, <1>2, <1>3 DEF Bytes

(* The names of the attributes.                                            *)
LEMMA Attributes ==
  /\ Attr = {"enable-dhcp", "ip-address", "hostname", "gpib-controller"}
  /\ attrs \in Seq(Attr)
<1>1. /\ DOMAIN attrs = 1 .. 4 /\ attrs[1] = "enable-dhcp" /\ attrs[2] = "ip-address"
      /\ attrs[3] = "hostname" /\ attrs[4] = "gpib-controller"
  BY DEF attrs
<1>2. Attr = {attrs[1], attrs[2], attrs[3], attrs[4]}
  BY <1>1 DEF Attr
<1>3. Attr = {"enable-dhcp", "ip-address", "hostname", "gpib-controller"}
  BY <1>1, <1>2
<1>4. attrs \in Seq({"enable-dhcp", "ip-address", "hostname", "gpib-controller"})
  BY DEF attrs
<1>5. QED
  BY <1>3, <1>4

(* What may be said of each.                                               *)
LEMMA Values ==
  /\ Value["ip-address"] = Ip /\ Value["hostname"] = Name
  /\ Value["enable-dhcp"] = {"yes", "no"} /\ Value["gpib-controller"] = {"yes", "no"}
  /\ \A a \in Attr : Value[a] \subseteq Given
  BY Attributes DEF Value, Given

(* ics.c and icsconfig.c:_str2ip: set sends the same from any host.        *)
LEMMA SameFromAnyHost ==
  ASSUME NEW p \in Admin, NEW a \in Attr, NEW v \in Value[a]
  PROVE  Encode(p, a, v) = Wire(a, v) /\ Wire(a, v) \in Stored
<1>1. CASE a = "ip-address"
  <2>1. v \in Bytes
    BY <1>1, Values, IcsConfigAssumption DEF Bytes
  <2>2. Reverse(v) \in Bytes /\ Reverse(Reverse(v)) = v
    BY <2>1, Reversed
  <2>3. Encode(p, a, v) = _str2ip(p, v)
    BY <1>1 DEF Encode
  <2>4. _str2ip(p, v) = Reverse(v)
    BY <2>2 DEF _str2ip, htonl, _reverse, Loaded
  <2>5. QED
    BY <1>1, <2>2, <2>3, <2>4 DEF Wire, Stored
<1>2. CASE a # "ip-address"
  BY <1>2, Attributes, Values DEF Encode, Wire, Stored
<1>3. QED
  BY <1>1, <1>2

(* icsconfig.c:_ip2str: get reads on any host what was set.                *)
LEMMA ReadsWhatWasSet ==
  ASSUME NEW p \in Admin, NEW a \in Attr, NEW v \in Value[a]
  PROVE  Decode(p, a, Wire(a, v)) = v
<1>1. CASE a = "ip-address"
  <2>1. v \in Bytes
    BY <1>1, Values, IcsConfigAssumption DEF Bytes
  <2>2. Reverse(Reverse(v)) = v
    BY <2>1, Reversed
  <2>3. Decode(p, a, Wire(a, v)) = _ip2str(p, Reverse(v))
    BY <1>1 DEF Decode, Wire
  <2>4. _ip2str(p, Reverse(v)) = v
    BY <2>2 DEF _ip2str, htonl, _reverse, Loaded
  <2>5. QED
    BY <2>3, <2>4
<1>2. CASE a # "ip-address"
  BY <1>2, Attributes, Values DEF Decode, Wire
<1>3. QED
  BY <1>1, <1>2
-----------------------------------------------------------------------------
(* The initial states satisfy the invariant.                               *)
LEMMA InitIcs == IcsInit => IcsInv
<1> SUFFICES ASSUME IcsInit PROVE IcsInv
  OBVIOUS
<1>1. PICK dhcp \in {"yes", "no"}, ctl \in {"yes", "no"}, ip \in Ip, name \in Name :
        text = [area \in Area |->
                  [a \in Attr |-> CASE a = "enable-dhcp" -> dhcp [] a = "ip-address" -> ip
                                     [] a = "hostname" -> name [] OTHER -> ctl]]
  BY DEF IcsInit
<1>2. /\ text \in [Area -> [Attr -> Given]]
      /\ \A area \in Area : \A a \in Attr : text[area][a] \in Value[a]
  BY <1>1, Attributes, Values DEF Given
<1>3. PICK p \in Admin : mem = [area \in Area |-> [a \in Attr |-> Encode(p, a, text[area][a])]]
  BY DEF IcsInit
<1>4. \A area \in Area : \A a \in Attr :
        Encode(p, a, text[area][a]) = Wire(a, text[area][a]) /\ Wire(a, text[area][a]) \in Stored
  BY <1>2, SameFromAnyHost
<1>5. DeviceInv
  BY <1>2, <1>3, <1>4 DEF DeviceInv
<1>6. NoProc \in Invocation /\ Doing(NoProc)
  <2>1. <<>> \in Seq(Request)
    OBVIOUS
  <2>2. QED
    BY <2>1 DEF NoProc, Invocation, Commands, Said, Doing
<1>7. ProcInv
  BY <1>6 DEF IcsInit, ProcInv
<1>8. QED
  BY <1>5, <1>7 DEF IcsInv

(* What is left of a sequence is shorter.                                  *)
LEMMA TailDiffers ==
  ASSUME NEW S, NEW s \in Seq(S), s # <<>>
  PROVE  Tail(s) # s
<1>1. Len(Tail(s)) = Len(s) - 1 /\ Len(s) \in Nat
  BY HeadTailProperties
<1> DEFINE m == Len(Tail(s))  n == Len(s)
<1>2. m = n - 1 /\ n \in Nat
  BY <1>1
<1> HIDE DEF m, n
<1>3. m # n
  BY <1>2
<1>4. QED
  BY <1>3, Zenon DEF m, n

(* Nothing is left of one request.                                         *)
LEMMA NothingLeft == \A x : Tail(<<x>>) = <<>>
<1> SUFFICES ASSUME NEW x PROVE Tail(<<x>>) = <<>>
  OBVIOUS
<1> DEFINE s == <<x>>  t == Tail(s)
<1>1. s \in Seq({x})
  OBVIOUS
<1>2. Len(s) = 1
  OBVIOUS
<1> HIDE DEF s
<1>3. s # <<>>
  BY <1>1, <1>2, EmptySeq
<1>4. t \in Seq({x}) /\ Len(t) = Len(s) - 1
  BY <1>1, <1>3, HeadTailProperties
<1> HIDE DEF t
<1>5. Len(t) = 0
  BY <1>2, <1>4
<1>6. t = <<>>
  BY <1>4, <1>5, EmptySeq
<1>7. QED
  BY <1>6 DEF s, t

(* An invocation begins with what its command stands for.                  *)
LEMMA StartsWell ==
  ASSUME ProcInv, NEW p \in Admin, NEW cmd \in Commands, NEW reqs \in Seq(Request),
         NEW value \in Given \cup {"none"}, Starts(p, cmd, reqs, value),
         \/ cmd = "get" /\ reqs \in Seq(Attr)
         \/ cmd = "set" /\ \E a \in Attr : reqs = <<a>> /\ value \in Value[a]
         \/ cmd \in DOMAIN Procedure /\ reqs = <<Procedure[cmd]>>
  PROVE  ProcInv' /\ UNCHANGED <<mem, text>> /\ \A q \in Admin : ~Succeeds(q)
<1> DEFINE i == [cmd |-> cmd, todo |-> reqs, value |-> value, conn |-> TRUE,
                 said |-> "nothing", shown |-> "none"]
<1>1. i \in Invocation /\ Doing(i)
  BY DEF Invocation, Doing, Said
<1>2. proc' = [proc EXCEPT ![p] = i] /\ UNCHANGED <<mem, text>> /\ proc[p].todo = <<>>
  BY DEF Starts
<1>3. proc' \in [Admin -> Invocation] /\ \A q \in Admin : Doing(proc'[q])
  BY <1>1, <1>2 DEF ProcInv
<1>4. ASSUME NEW q \in Admin PROVE ~Succeeds(q)
  <2>1. CASE q = p
    BY <1>2, <2>1 DEF Succeeds
  <2>2. CASE q # p
    <3>1. proc'[q] = proc[q] /\ proc[q].todo \in Seq(Request)
      BY <1>2, <2>2 DEF ProcInv, Invocation
    <3>2. proc[q].todo # <<>> => Tail(proc[q].todo) # proc[q].todo
      BY <3>1, TailDiffers
    <3>3. QED
      BY <3>1, <3>2 DEF Succeeds
  <2>3. QED
    BY <2>1, <2>2
<1>5. QED
  BY <1>2, <1>3, <1>4 DEF ProcInv

Goes(p, said, f) ==
    /\ f = [proc EXCEPT ![p] = [proc[p] EXCEPT !.todo = Tail(proc[p].todo), !.said = said]]
    /\ f \in [Admin -> Invocation]
    /\ \A q \in Admin : Doing(f[q])
    /\ f[p].todo = Tail(proc[p].todo) /\ f[p].said = said
    /\ \A q \in Admin \ {p} : f[q] = proc[q]
    /\ \A q \in Admin : proc[q].todo # <<>> => Tail(proc[q].todo) # proc[q].todo

(* A request that ends leaves the rest of what there was to do.            *)
LEMMA PrintsOne ==
  ASSUME ProcInv, NEW p \in Admin, proc[p].todo # <<>>, NEW said \in Said
  PROVE  Goes(p, said, Prints(p, said))
<1> DEFINE i == [proc[p] EXCEPT !.todo = Tail(proc[p].todo), !.said = said]
<1>1. proc[p] \in Invocation /\ proc[p].todo \in Seq(Request) /\ proc \in [Admin -> Invocation]
  BY DEF ProcInv, Invocation
<1>2. Tail(proc[p].todo) \in Seq(Request)
  BY <1>1, HeadTailProperties
<1>3. i \in Invocation /\ i.todo = Tail(proc[p].todo) /\ i.said = said /\ i.cmd = proc[p].cmd
      /\ i.value = proc[p].value
  BY <1>1, <1>2 DEF Invocation
<1>4. Prints(p, said) = [proc EXCEPT ![p] = i]
  BY <1>1 DEF Prints, Invocation
<1>5. Doing(i)
  <2>1. CASE proc[p].cmd = "get" /\ proc[p].todo \in Seq(Attr)
    <3>1. Tail(proc[p].todo) \in Seq(Attr)
      BY <2>1, HeadTailProperties
    <3>2. QED
      BY <1>3, <2>1, <3>1 DEF Doing
  <2>2. CASE \E x : proc[p].todo = <<x>>
    <3>1. Tail(proc[p].todo) = <<>>
      BY <2>2, NothingLeft
    <3>2. QED
      BY <1>3, <3>1 DEF Doing
  <2>3. QED
    BY <2>1, <2>2 DEF ProcInv, Doing
<1>6. \A q \in Admin : proc[q].todo # <<>> => Tail(proc[q].todo) # proc[q].todo
  <2>1. \A q \in Admin : proc[q].todo \in Seq(Request)
    BY DEF ProcInv, Invocation
  <2>2. QED
    BY <2>1, TailDiffers
<1>7. QED
  BY <1>1, <1>3, <1>4, <1>5, <1>6 DEF ProcInv, Goes
-----------------------------------------------------------------------------
(* What is shown, and what is said to be done.                             *)
ShowsIt(p) ==
    Succeeds(p) /\ proc[p].cmd = "get" => proc'[p].shown = text["active"][Head(proc[p].todo)]
DidIt(p) ==
    Succeeds(p) =>
        CASE proc[p].cmd = "set" -> text'["active"][Head(proc[p].todo)] = proc[p].value
          [] proc[p].cmd = "commit" -> text'["flash"] = text["active"]
          [] proc[p].cmd \in {"reload", "factory", "reboot"} ->
               text'["active"] = text["flash"] /\ text'["flash"] = text["flash"]
          [] OTHER -> TRUE

Right == IcsInv' /\ \A p \in Admin : ShowsIt(p) /\ DidIt(p)

(* A request of p that succeeds is the only one.                           *)
LEMMA OnlyOne ==
  ASSUME IcsInv, NEW p \in Admin, proc[p].todo # <<>>,
         NEW said \in Said, proc' = Prints(p, said)
  PROVE  /\ ProcInv' /\ \A q \in Admin \ {p} : ~Succeeds(q)
         /\ said \in Errors => ~Succeeds(p)
<1>1. Goes(p, said, proc')
  BY PrintsOne DEF IcsInv
<1>2. QED
  BY <1>1 DEF Goes, ProcInv, Succeeds

(* A request that is refused or lost is reported as an error.              *)
LEMMA FailsRight ==
  ASSUME IcsInv, NEW p \in Admin, DeviceRefuses(p) \/ Unanswered(p) PROVE Right
<1>1. PICK said \in {"rpc error", "ics error"} : proc' = Prints(p, said)
  BY DEF DeviceRefuses, Unanswered, Report
<1>2. proc[p].todo # <<>> /\ UNCHANGED <<mem, text>>
  BY DEF DeviceRefuses, Unanswered
<1>3. said \in Said /\ said \in Errors
  BY <1>1 DEF Said, Errors
<1>4. ProcInv' /\ \A q \in Admin : ~Succeeds(q)
  BY <1>1, <1>2, <1>3, OnlyOne
<1>5. IcsInv'
  BY <1>2, <1>4 DEF IcsInv, DeviceInv
<1>6. QED
  BY <1>4, <1>5 DEF Right, ShowsIt, DidIt

(* get shows what the attribute was set to.                                *)
LEMMA GetsRight ==
  ASSUME IcsInv, NEW p \in Admin, ics_get(p) PROVE Right
<1> DEFINE a == Head(proc[p].todo)
           v == text["active"][a]
           shown == Decode(p, a, mem["active"][a])
<1>1. proc[p].cmd = "get" /\ proc[p].todo # <<>> /\ UNCHANGED <<mem, text>>
      /\ proc' = [Prints(p, "get") EXCEPT ![p].shown = shown]
  BY DEF ics_get, Asks
<1>2. proc[p].todo \in Seq(Attr) /\ proc[p] \in Invocation
  BY <1>1 DEF IcsInv, ProcInv, Doing, Procedure
<1>3. a \in Attr
  BY <1>1, <1>2, HeadTailProperties
<1>4. v \in Value[a] /\ mem["active"][a] = Wire(a, v) /\ v \in Given
  BY <1>3, Values DEF IcsInv, DeviceInv, Area
<1>5. shown = v
  BY <1>3, <1>4, ReadsWhatWasSet
<1> HIDE DEF a, v, shown
<1> DEFINE f == Prints(p, "get")
<1>6. Goes(p, "get", f)
  BY <1>1, PrintsOne DEF IcsInv, Said, Commands
<1> HIDE DEF f
<1>7. f \in [Admin -> Invocation] /\ Doing(f[p]) /\ proc' = [f EXCEPT ![p].shown = shown]
  BY <1>1, <1>6 DEF Goes, f
<1>8. /\ proc' \in [Admin -> Invocation] /\ proc'[p].shown = v
      /\ \A q \in Admin \ {p} : proc'[q] = f[q]
      /\ proc'[p].cmd = f[p].cmd /\ proc'[p].todo = f[p].todo /\ proc'[p].value = f[p].value
  BY <1>4, <1>5, <1>7 DEF Invocation
<1>9. Doing(proc'[p])
  BY <1>7, <1>8 DEF Doing
<1>10. IcsInv'
  BY <1>1, <1>6, <1>8, <1>9 DEF IcsInv, ProcInv, DeviceInv, Goes
<1>11. \A q \in Admin \ {p} : ~Succeeds(q)
  BY <1>6, <1>8 DEF Succeeds, Goes
<1>12. ShowsIt(p) /\ DidIt(p)
  BY <1>1, <1>8 DEF ShowsIt, DidIt, a, v
<1>13. QED
  BY <1>10, <1>11, <1>12 DEF Right, ShowsIt, DidIt

(* set stores what it was given, in the form get reads.                    *)
LEMMA SetsRight ==
  ASSUME IcsInv, NEW p \in Admin, ics_set(p) PROVE Right
<1> DEFINE a == Head(proc[p].todo)  v == proc[p].value
<1>1. proc[p].cmd = "set" /\ proc[p].todo # <<>>
  BY DEF ics_set, Asks
<1>2. a \in Attr /\ v \in Value[a]
  BY <1>1 DEF IcsInv, ProcInv, Doing, Procedure
<1>3. /\ mem' = [mem EXCEPT !["active"][a] = Encode(p, a, v)]
      /\ text' = [text EXCEPT !["active"][a] = v]
  BY DEF ics_set
<1>4. PICK said \in {"rpc error", "set"} : proc' = Prints(p, said)
  BY DEF ics_set, Report
<1>5. Encode(p, a, v) = Wire(a, v) /\ Wire(a, v) \in Stored /\ v \in Given
  BY <1>2, SameFromAnyHost, Values
<1> HIDE DEF a, v
<1>6. DeviceInv'
  BY <1>2, <1>3, <1>5 DEF IcsInv, DeviceInv, Area
<1>7. said \in Said
  BY <1>4 DEF Said, Commands
<1>8. ProcInv' /\ \A q \in Admin \ {p} : ~Succeeds(q)
  BY <1>1, <1>4, <1>7, OnlyOne
<1>9. text'["active"][a] = v
  BY <1>2, <1>3 DEF IcsInv, DeviceInv, Area
<1>10. ShowsIt(p) /\ DidIt(p)
  BY <1>1, <1>9 DEF ShowsIt, DidIt, a, v
<1>11. QED
  BY <1>6, <1>8, <1>10 DEF Right, IcsInv, ShowsIt, DidIt

(* A copy of one configuration to the other keeps them well formed.        *)
LEMMA CopiesRight ==
  ASSUME DeviceInv, NEW from \in Area, NEW to \in Area, Copy(from, to)
  PROVE  DeviceInv' /\ text'[to] = text[from] /\ text'[from] = text[from]
  BY DEF DeviceInv, Copy

(* What is not an attribute is the procedure of a command.                 *)
LEMMA CalledBy ==
  ASSUME ProcInv, NEW p \in Admin, NEW r, proc[p].todo = <<r>>, r \notin Attr
  PROVE  proc[p].todo # <<>> /\ proc[p].cmd \in DOMAIN Procedure /\ Procedure[proc[p].cmd] = r
<1>1. <<r>> # <<>> /\ Head(<<r>>) = r
  OBVIOUS
<1>2. proc[p].todo \notin Seq(Attr)
  <2>1. proc[p].todo \in Seq(Attr) => Head(proc[p].todo) \in Attr
    BY <1>1, HeadTailProperties
  <2>2. QED
    BY <1>1, <2>1
<1>3. \A x : <<x>> = <<r>> => x = r
  OBVIOUS
<1>4. \A a \in Attr : proc[p].todo # <<a>>
  BY <1>3
<1>5. QED
  BY <1>1, <1>2, <1>3, <1>4 DEF ProcInv, Doing

(* reload and factory load what is in flash.                               *)
LEMMA ReloadsRight ==
  ASSUME IcsInv, NEW p \in Admin, ics_reload_config(p) PROVE Right
<1>1. proc[p].todo = <<"reload_config">> /\ Copy("flash", "active")
  BY DEF ics_reload_config
<1>2. proc[p].cmd \in {"reload", "factory"} /\ proc[p].todo # <<>>
  BY <1>1, Attributes, CalledBy DEF IcsInv, Procedure
<1>3. PICK said \in {"rpc error", proc[p].cmd} : proc' = Prints(p, said)
  BY DEF ics_reload_config, Report
<1>4. DeviceInv' /\ text'["active"] = text["flash"] /\ text'["flash"] = text["flash"]
  BY <1>1, CopiesRight DEF IcsInv, Area
<1>5. said \in Said
  BY <1>2, <1>3 DEF Said, Commands
<1>6. ProcInv' /\ \A q \in Admin \ {p} : ~Succeeds(q)
  BY <1>2, <1>3, <1>5, OnlyOne
<1>7. QED
  BY <1>2, <1>4, <1>6 DEF Right, IcsInv, ShowsIt, DidIt

(* commit writes the flash.                                                *)
LEMMA CommitsRight ==
  ASSUME IcsInv, NEW p \in Admin, ics_commit_config(p) PROVE Right
<1>1. proc[p].todo = <<"commit_config">> /\ Copy("active", "flash")
  BY DEF ics_commit_config
<1>2. proc[p].cmd = "commit" /\ proc[p].todo # <<>>
  BY <1>1, Attributes, CalledBy DEF IcsInv, Procedure
<1>3. PICK said \in {"rpc error", proc[p].cmd} : proc' = Prints(p, said)
  BY DEF ics_commit_config, Report
<1>4. DeviceInv' /\ text'["flash"] = text["active"]
  BY <1>1, CopiesRight DEF IcsInv, Area
<1>5. said \in Said
  BY <1>2, <1>3 DEF Said, Commands
<1>6. ProcInv' /\ \A q \in Admin \ {p} : ~Succeeds(q)
  BY <1>2, <1>3, <1>5, OnlyOne
<1>7. QED
  BY <1>2, <1>4, <1>6 DEF Right, IcsInv, ShowsIt, DidIt

(* reboot loads the flash, and ends every connection.                      *)
LEMMA RebootsRight ==
  ASSUME IcsInv, NEW p \in Admin, ics_reboot(p) PROVE Right
<1>1. proc[p].todo = <<"reboot">> /\ Copy("flash", "active")
  BY DEF ics_reboot
<1>2. proc[p].cmd = "reboot" /\ proc[p].todo # <<>>
  BY <1>1, Attributes, CalledBy DEF IcsInv, Procedure
<1>3. PICK said \in {"rpc error", "reboot"} :
        proc' = [q \in Admin |-> [Prints(p, said)[q] EXCEPT !.conn = FALSE]]
  BY DEF ics_reboot, Report
<1>4. DeviceInv' /\ text'["active"] = text["flash"] /\ text'["flash"] = text["flash"]
  BY <1>1, CopiesRight DEF IcsInv, Area
<1>5. said \in Said
  BY <1>2, <1>3 DEF Said, Commands
<1> DEFINE f == Prints(p, said)
<1>6. Goes(p, said, f) /\ proc' = [q \in Admin |-> [f[q] EXCEPT !.conn = FALSE]]
  BY <1>2, <1>3, <1>5, PrintsOne DEF IcsInv
<1> HIDE DEF f
<1>7. \A q \in Admin :
        /\ proc'[q] \in Invocation /\ proc'[q].todo = f[q].todo
        /\ proc'[q].cmd = f[q].cmd /\ proc'[q].value = f[q].value
  <2>1. ASSUME NEW q \in Admin
        PROVE  f[q] \in Invocation /\ proc'[q] = [f[q] EXCEPT !.conn = FALSE]
    BY <1>6 DEF Goes
  <2>2. \A i \in Invocation :
          LET j == [i EXCEPT !.conn = FALSE]
          IN  j \in Invocation /\ j.todo = i.todo /\ j.cmd = i.cmd /\ j.value = i.value
    BY DEF Invocation
  <2>3. QED
    BY <2>1, <2>2
<1>8. ProcInv'
  <2>1. proc' \in [Admin -> Invocation]
    BY <1>6, <1>7
  <2>2. ASSUME NEW q \in Admin PROVE Doing(proc'[q])
    <3>1. Doing(f[q])
      BY <1>6 DEF Goes
    <3>2. QED
      BY <1>7, <3>1 DEF Doing
  <2>3. QED
    BY <2>1, <2>2 DEF ProcInv, Doing
<1>9. \A q \in Admin \ {p} : ~Succeeds(q)
  BY <1>6, <1>7 DEF Succeeds, Goes
<1>10. QED
  BY <1>2, <1>4, <1>8, <1>9 DEF Right, IcsInv, ShowsIt, DidIt

(* An invocation that begins has said nothing.                             *)
LEMMA BeginsRight ==
  ASSUME IcsInv, NEW p \in Admin,
         \/ _list(p)
         \/ \E a \in Attr : _get(p, a) \/ \E v \in Value[a] : _set(p, a, v)
         \/ \E cmd \in DOMAIN Procedure : _run(p, cmd)
  PROVE  Right
<1>1. ASSUME ProcInv', UNCHANGED <<mem, text>>, \A q \in Admin : ~Succeeds(q) PROVE Right
  BY <1>1 DEF Right, IcsInv, DeviceInv, ShowsIt, DidIt
<1>2. CASE _list(p)
  <2>1. attrs \in Seq(Request)
    BY Attributes DEF Request
  <2>2. QED
    BY <1>1, <1>2, <2>1, Attributes, StartsWell DEF IcsInv, _list, Commands
<1>3. ASSUME NEW a \in Attr, _get(p, a) PROVE Right
  <2>1. <<a>> \in Seq(Request) /\ <<a>> \in Seq(Attr)
    BY DEF Request
  <2>2. QED
    BY <1>1, <1>3, <2>1, StartsWell DEF IcsInv, _get, Commands
<1>4. ASSUME NEW a \in Attr, NEW v \in Value[a], _set(p, a, v) PROVE Right
  <2>1. <<a>> \in Seq(Request) /\ v \in Given
    BY Values DEF Request
  <2>2. QED
    BY <1>1, <1>4, <2>1, StartsWell DEF IcsInv, _set, Commands
<1>5. ASSUME NEW cmd \in DOMAIN Procedure, _run(p, cmd) PROVE Right
  <2>1. cmd \in Commands /\ Procedure[cmd] \in Request
    BY DEF Procedure, Commands, Request
  <2>2. <<Procedure[cmd]>> \in Seq(Request)
    BY <2>1
  <2>3. QED
    BY <1>1, <1>5, <2>1, <2>2, StartsWell DEF IcsInv, _run
<1>6. QED
  BY <1>2, <1>3, <1>4, <1>5

(* Every step keeps the invariant and has what the properties ask.         *)
LEMMA IcsStep ==
  IcsInv /\ [IcsNext]_icsVars => IcsInv' /\ [\A p \in Admin : ShowsIt(p) /\ DidIt(p)]_icsVars
<1>1. ASSUME IcsInv, NEW p \in Admin,
             \/ _list(p)
             \/ \E a \in Attr : _get(p, a) \/ \E v \in Value[a] : _set(p, a, v)
             \/ \E cmd \in DOMAIN Procedure : _run(p, cmd)
             \/ ics_get(p) \/ ics_set(p) \/ ics_reload_config(p)
             \/ ics_commit_config(p) \/ ics_reboot(p)
             \/ DeviceRefuses(p) \/ Unanswered(p)
      PROVE  Right
  BY <1>1, BeginsRight, GetsRight, SetsRight, ReloadsRight, CommitsRight, RebootsRight, FailsRight
<1>2. ASSUME IcsInv, UNCHANGED icsVars PROVE IcsInv'
  BY <1>2 DEF icsVars, IcsInv, DeviceInv, ProcInv
<1>3. QED
  BY <1>1, <1>2 DEF IcsNext, Over, Right

(* IcsInv is an invariant.                                                 *)
THEOREM IcsInvariance == IcsSpec => []IcsInv
<1>1. QED
  BY InitIcs, IcsStep, PTL DEF IcsSpec

(* icsconfig.c: get and list show what the attribute was last given as, by *)
(* whomever and from a host of either byte order.                          *)
THEOREM ShowsTheActive == IcsSpec => ShownIsActive
<1>1. IcsInv /\ [IcsNext]_icsVars =>
        [\A p \in Admin : Succeeds(p) /\ proc[p].cmd = "get" =>
           proc'[p].shown = text["active"][Head(proc[p].todo)]]_icsVars
  BY IcsStep DEF ShowsIt
<1>2. QED
  BY <1>1, IcsInvariance, PTL DEF IcsSpec, ShownIsActive

(* icsconfig.c: what set, reload, commit and reboot report as done the     *)
(* device did, and an answer that is lost is an error; what factory        *)
(* reports as done is a reload.                                            *)
THEOREM ReportsTheTruth == IcsSpec => SuccessIsTrue
<1>1. IcsInv /\ [IcsNext]_icsVars =>
        [\A p \in Admin : Succeeds(p) =>
           CASE proc[p].cmd = "set" ->
                  text'["active"][Head(proc[p].todo)] = proc[p].value
             [] proc[p].cmd = "commit" -> text'["flash"] = text["active"]
             [] proc[p].cmd \in {"reload", "factory", "reboot"} ->
                  text'["active"] = text["flash"] /\ text'["flash"] = text["flash"]
             [] OTHER -> TRUE]_icsVars
  BY IcsStep DEF DidIt
<1>2. QED
  BY <1>1, IcsInvariance, PTL DEF IcsSpec, SuccessIsTrue
=============================================================================
