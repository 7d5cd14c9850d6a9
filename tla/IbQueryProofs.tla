--------------------------- MODULE IbQueryProofs ---------------------------
(***************************************************************************)
(* Proofs about IbQuery for any number of programs, any addresses, any     *)
(* files and anything given to a program or typed.                         *)
(*                                                                         *)
(* The invariant has a part for each program (Stage, Locking, Line, Owns); *)
(* a step of one program keeps those of the others, because what they      *)
(* share, a serial line, is only changed by who has its lock (OnlyOwn).    *)
(* Looked and Saying are two more parts: that a program uses what its      *)
(* configuration says (by FileMeans), and that what it was told and has    *)
(* not sent yet is still to be sent.  What a line of words asks for is a   *)
(* recursive definition; AskedFrom, an induction over the words like that  *)
(* over the lines of a file, says how it follows the program.              *)
(***************************************************************************)
EXTENDS IbQuery, WellFoundedInduction, SequenceTheorems, TLAPS

-----------------------------------------------------------------------------
(* ConfigFile: reading a file line by line gives what the file means, for  *)
(* files of any length and any lines (FileMeans).  ini_parse_file is a     *)
(* recursive function, so that this is an induction over the lines.  The   *)
(* prover cannot instantiate an induction theorem whose hypothesis is an   *)
(* operator; Induction states it of a set, {n \in Nat : what holds of the  *)
(* first n lines}.                                                         *)

(* A set of numbers that is not empty has a least one.                     *)
LEMMA NatMin ==
  ASSUME NEW T \in SUBSET Nat, T # {}
  PROVE  \E x \in T : \A y \in T : ~(y < x)
<1> DEFINE R == {ss \in Nat \X Nat : ss[1] < ss[2]}
<1>1. IsWellFoundedOn(R, Nat)
  <2>1. R = OpToRel(<, Nat)
    BY Zenon DEF OpToRel
  <2>2. QED
    BY Zenon, <2>1, NatLessThanWellFounded
<1>2. \E x \in T : \A y \in T : ~(<<y, x>> \in R)
  <2> HIDE DEF R
  <2>1. QED
    BY <1>1, WFMin
<1>3. QED
  BY <1>2

(* Induction over the numbers, of a set: the hypothesis is that n is in S. *)
LEMMA Induction ==
  ASSUME NEW S, 0 \in S, \A n \in Nat : n \in S => n + 1 \in S
  PROVE  \A n \in Nat : n \in S
<1> DEFINE T == Nat \ S
<1> SUFFICES ASSUME T # {} PROVE FALSE
  OBVIOUS
<1>1. PICK x \in T : \A y \in T : ~(y < x)
  BY NatMin
<1>2. x # 0 /\ x - 1 \in Nat /\ x - 1 < x
  OBVIOUS
<1>3. x - 1 \in S
  BY <1>1, <1>2
<1>4. (x - 1) + 1 \in S /\ (x - 1) + 1 = x
  BY <1>2, <1>3
<1>5. QED
  BY <1>4

(* g is what ini_parse_file has read, line by line, of the first n lines.  *)
Reading(g, file, n) == g = [i \in 0 .. n |-> IF i = 0 THEN Begun ELSE ReadLine(g[i - 1], file[i])]

(* There is such a function, for each number of lines.                     *)
LEMMA Reads ==
  ASSUME NEW file, NEW n \in Nat
  PROVE  \E g : Reading(g, file, n)
<1> DEFINE S == {m \in Nat : \E g : Reading(g, file, m)}
<1>1. 0 \in S
  <2>1. Reading([i \in 0 .. 0 |-> Begun], file, 0)
    BY DEF Reading
  <2>2. QED
    BY <2>1
<1>2. ASSUME NEW m \in Nat, m \in S PROVE m + 1 \in S
  <2>1. PICK g : Reading(g, file, m)
    BY <1>2
  <2> DEFINE h == [i \in 0 .. m + 1 |-> IF i = m + 1 THEN ReadLine(g[m], file[m + 1]) ELSE g[i]]
  <2>2. ASSUME NEW i \in 0 .. m + 1
        PROVE  h[i] = IF i = 0 THEN Begun ELSE ReadLine(h[i - 1], file[i])
    <3>1. CASE i = m + 1
      BY <3>1
    <3>2. CASE i # m + 1
      <4>1. i \in 0 .. m /\ h[i] = g[i] /\ (i # 0 => i - 1 \in 0 .. m + 1 /\ i - 1 # m + 1)
        BY <3>2
      <4>2. i # 0 => h[i - 1] = g[i - 1]
        BY <4>1
      <4>3. g[i] = IF i = 0 THEN Begun ELSE ReadLine(g[i - 1], file[i])
        BY <2>1, <4>1 DEF Reading
      <4> HIDE DEF h
      <4>4. QED
        BY <4>1, <4>2, <4>3
    <3>3. QED
      BY <3>1, <3>2
  <2>3. Reading(h, file, m + 1)
    BY <2>2 DEF Reading
  <2>4. QED
    BY <2>3
<1>3. \A m \in Nat : m \in S
  <2> HIDE DEF S
  <2>1. QED
    BY <1>1, <1>2, Induction
<1>4. QED
  BY <1>3

(* ini_parse_file is its last value.                                       *)
LEMMA Unfold ==
  ASSUME NEW file, Len(file) \in Nat
  PROVE  \E g : Reading(g, file, Len(file)) /\ ini_parse_file(file) = g[Len(file)]
<1> DEFINE read == CHOOSE g : g = [i \in 0 .. Len(file) |->
                                 IF i = 0 THEN Begun ELSE ReadLine(g[i - 1], file[i])]
<1>1. ini_parse_file(file) = read[Len(file)]
  BY DEF ini_parse_file
<1>2. Reading(read, file, Len(file))
  BY Reads DEF Reading
<1>3. QED
  BY <1>1, <1>2

(* Line i makes ini_parse_file fail: there is no attribute it could belong *)
(* to, or parse_cb refuses it.                                             *)
Bad(file, i) ==
    ~ \/ file[i].kind = "section"
      \/ /\ file[i].kind \in {"attr", "indented"} /\ AttrAt(file, i) # 0
         /\ Accepts(file[AttrAt(file, i)].name, file[i].value)

(* The lines among the first n that set attr of the section name.          *)
LinesTo(file, n, name, attr) ==
    {i \in 1 .. n : Sets(file, i, name) /\ file[AttrAt(file, i)].name = attr}

(* What Means says of a file, of its first n lines.                        *)
MeansTo(file, n, name) ==
    LET a == LinesTo(file, n, name, "address") IN
    [addr |-> IF a = {} THEN "" ELSE file[CHOOSE i \in a : \A j \in a : j <= i].value,
     reos |-> \E i \in LinesTo(file, n, name, "flags") : file[i].value = "reos"]

(* The section and the attribute that a line belongs to, from those of the *)
(* line before.                                                            *)
LEMMA HeadsAt ==
  ASSUME NEW file, NEW n \in Nat
  PROVE  /\ SectionAt(file, 0) = 0 /\ AttrAt(file, 0) = 0
         /\ SectionAt(file, n) \in 0 .. n /\ AttrAt(file, n) \in 0 .. n
         /\ SectionAt(file, n + 1) =
                IF file[n + 1].kind = "section" THEN n + 1 ELSE SectionAt(file, n)
         /\ AttrAt(file, n + 1) =
                CASE file[n + 1].kind = "section" -> 0
                  [] file[n + 1].kind = "attr" -> n + 1
                  [] OTHER -> AttrAt(file, n)
<1> DEFINE heads(m) == {j \in 1 .. m : file[j].kind = "section"}
           attrs(m) == {j \in SectionAt(file, m) + 1 .. m : file[j].kind = "attr"}
<1> DEFINE greatest(T) == IF T = {} THEN 0 ELSE CHOOSE j \in T : \A k \in T : k <= j
<1>1. /\ SectionAt(file, 0) = 0 /\ AttrAt(file, 0) = 0
  BY DEF SectionAt, AttrAt
<1>2. \A m : SectionAt(file, m) = greatest(heads(m)) /\ AttrAt(file, m) = greatest(attrs(m))
  BY Zenon DEF SectionAt, AttrAt
<1>3. ASSUME NEW T \in SUBSET (1 .. n), T # {}
      PROVE  (CHOOSE j \in T : \A k \in T : k <= j) \in 1 .. n
  <2>1. \E j \in T : \A k \in T : k <= j
    <3> DEFINE U == {m \in Nat : \E k \in T : m = n - k}
    <3>1. U \in SUBSET Nat /\ U # {}
      <4>1. PICK k \in T : TRUE
        BY <1>3
      <4>2. n - k \in U
        BY <1>3, <4>1
      <4>3. QED
        BY <4>2
    <3>2. PICK x \in U : \A y \in U : ~(y < x)
      BY <3>1, NatMin
    <3>3. PICK j \in T : x = n - j
      BY <3>2
    <3>4. ASSUME NEW k \in T PROVE k <= j
      <4>1. n - k \in U /\ k \in Int /\ j \in Int
        BY <1>3
      <4>2. ~(n - k < x)
        BY <3>2, <4>1
      <4>3. QED
        BY <3>3, <4>1, <4>2
    <3>5. QED
      BY <3>4
  <2>2. QED
    BY <2>1
<1>4. SectionAt(file, n) \in 0 .. n
  <2>1. heads(n) \in SUBSET (1 .. n)
    OBVIOUS
  <2> HIDE DEF heads
  <2>2. QED
    BY <1>3, <1>2, <2>1
<1>5. AttrAt(file, n) \in 0 .. n
  <2>1. attrs(n) \in SUBSET (1 .. n)
    BY <1>4
  <2>2. QED
    <3> HIDE DEF attrs
    <3>1. QED
      BY <1>3, <1>2, <2>1
<1>6. CASE file[n + 1].kind = "section"
  <2>1. n + 1 \in heads(n + 1) /\ \A k \in heads(n + 1) : k <= n + 1
    BY <1>6
  <2>2. \A j \in heads(n + 1) : (\A k \in heads(n + 1) : k <= j) => j = n + 1
    BY <2>1
  <2>3. SectionAt(file, n + 1) = n + 1
    <3>1. heads(n + 1) # {}
      BY <2>1
    <3>2. SectionAt(file, n + 1) = CHOOSE j \in heads(n + 1) : \A k \in heads(n + 1) : k <= j
      BY <3>1 DEF SectionAt
    <3> HIDE DEF heads
    <3>3. QED
      BY <2>1, <2>2, <3>2
  <2>4. AttrAt(file, n + 1) = 0
    BY <2>3 DEF AttrAt
  <2>5. QED
    BY <1>1, <1>4, <1>5, <1>6, <2>3, <2>4
<1>7. CASE file[n + 1].kind # "section"
  <2>1. heads(n + 1) = heads(n)
    BY <1>7
  <2>2. SectionAt(file, n + 1) = SectionAt(file, n)
    <3> HIDE DEF heads, greatest
    <3>1. QED
      BY <1>2, <2>1
  <2>3. CASE file[n + 1].kind = "attr"
    <3>1. n + 1 \in attrs(n + 1) /\ \A k \in attrs(n + 1) : k <= n + 1
      BY <1>4, <2>2, <2>3
    <3>2. \A j \in attrs(n + 1) : (\A k \in attrs(n + 1) : k <= j) => j = n + 1
      BY <1>4, <2>2, <3>1
    <3>3. AttrAt(file, n + 1) = CHOOSE j \in attrs(n + 1) : \A k \in attrs(n + 1) : k <= j
      BY <3>1 DEF AttrAt
    <3>4. AttrAt(file, n + 1) = n + 1
      <4> HIDE DEF attrs
      <4>1. QED
        BY <3>1, <3>2, <3>3
    <3>5. QED
      BY <1>1, <1>4, <1>5, <1>7, <2>2, <2>3, <3>4
  <2>4. CASE file[n + 1].kind # "attr"
    <3>1. attrs(n + 1) = attrs(n)
      BY <1>4, <2>2, <2>4
    <3>2. AttrAt(file, n + 1) = AttrAt(file, n)
      <4> HIDE DEF attrs, greatest
      <4>1. QED
        BY <1>2, <3>1
    <3>3. QED
      BY <1>1, <1>4, <1>5, <1>7, <2>2, <2>4, <3>2
  <2>5. QED
    BY <2>3, <2>4
<1>8. QED
  BY <1>6, <1>7

(* A record of these four fields is what its fields are.                   *)
LEMMA RecordIs ==
  ASSUME NEW x, NEW y, NEW z, NEW w, NEW q,
         DOMAIN q = {"section", "prev", "db", "error"}, q = [i \in DOMAIN q |-> q[i]],
         q.section = x, q.prev = y, q.db = z, q.error = w
  PROVE  q = [section |-> x, prev |-> y, db |-> z, error |-> w]
  OBVIOUS

(* An attribute or its continuation, as an update of the record ...        *)
LEMMA Follows ==
  ASSUME NEW s, NEW p, NEW d, NEW e, NEW name, NEW table, NEW wrong, NEW r, NEW h,
         r = [section |-> s, prev |-> p, db |-> d, error |-> e],
         h = [r EXCEPT !.prev = name, !.db = table, !.error = wrong]
  PROVE  h = [section |-> s, prev |-> name, db |-> table, error |-> wrong]
<1>1. DOMAIN r = {"section", "prev", "db", "error"} /\ r.section = s /\ r.prev = p /\ r.db = d
      /\ r.error = e
  OBVIOUS
<1>2. h = [i \in DOMAIN h |-> h[i]] /\ DOMAIN h = {"section", "prev", "db", "error"}
  BY <1>1, Zenon
<1>3. h.section = s
  BY <1>1
<1>4. h.prev = name
  BY <1>1
<1>5. h.db = table
  BY <1>1
<1>6. h.error = wrong
  BY <1>1
<1>7. QED
  BY <1>2, <1>3, <1>4, <1>5, <1>6, RecordIs

(* ... a section ...                                                       *)
LEMMA Begins ==
  ASSUME NEW s, NEW p, NEW d, NEW e, NEW name, NEW none, NEW r, NEW h,
         r = [section |-> s, prev |-> p, db |-> d, error |-> e],
         h = [r EXCEPT !.section = name, !.prev = none]
  PROVE  h = [section |-> name, prev |-> none, db |-> d, error |-> e]
<1>1. DOMAIN r = {"section", "prev", "db", "error"} /\ r.section = s /\ r.prev = p /\ r.db = d
      /\ r.error = e
  OBVIOUS
<1>2. h = [i \in DOMAIN h |-> h[i]] /\ DOMAIN h = {"section", "prev", "db", "error"}
  BY <1>1, Zenon
<1>3. h.section = name
  BY <1>1
<1>4. h.prev = none
  BY <1>1
<1>5. h.db = d
  BY <1>1
<1>6. h.error = e
  BY <1>1
<1>7. QED
  BY <1>2, <1>3, <1>4, <1>5, <1>6, RecordIs

(* ... and an error.                                                       *)
LEMMA Fails ==
  ASSUME NEW s, NEW p, NEW d, NEW e, NEW wrong, NEW r, NEW h,
         r = [section |-> s, prev |-> p, db |-> d, error |-> e],
         h = [r EXCEPT !.error = wrong]
  PROVE  h = [section |-> s, prev |-> p, db |-> d, error |-> wrong]
<1>1. DOMAIN r = {"section", "prev", "db", "error"} /\ r.section = s /\ r.prev = p /\ r.db = d
      /\ r.error = e
  OBVIOUS
<1>2. h = [i \in DOMAIN h |-> h[i]] /\ DOMAIN h = {"section", "prev", "db", "error"}
  BY <1>1, Zenon
<1>3. h.section = s
  BY <1>1
<1>4. h.prev = p
  BY <1>1
<1>5. h.db = d
  BY <1>1
<1>6. h.error = wrong
  BY <1>1
<1>7. QED
  BY <1>2, <1>3, <1>4, <1>5, <1>6, RecordIs

(* The same of Handle, which calls parse_cb.                               *)
LEMMA HandleIs ==
  ASSUME NEW s, NEW p, NEW d, NEW e, NEW r, NEW name, NEW value,
         r = [section |-> s, prev |-> p, db |-> d, error |-> e]
  PROVE  Handle(r, name, value) =
         [section |-> s, prev |-> name, db |-> parse_cb(d, s, name, value),
          error |-> e \/ ~Accepts(name, value)]
<1> DEFINE wrong == e \/ ~Accepts(name, value)
           table == parse_cb(d, s, name, value)
           h == Handle(r, name, value)
<1>1. r.section = s /\ r.db = d /\ r.error = e /\ r.prev = p
  OBVIOUS
<1>2. h = [r EXCEPT !.prev = name, !.db = table, !.error = wrong]
  BY <1>1, Zenon DEF Handle
<1> HIDE DEF wrong, table, h
<1>3. h = [section |-> s, prev |-> name, db |-> table, error |-> wrong]
  BY <1>2, Follows
<1>5. QED
  BY <1>3, Zenon DEF wrong, table, h

(* One of the first n lines sets something of the section name.            *)
Mentioned(file, n, name) == \E i \in 1 .. n : Sets(file, i, name)

(* What one more line mentions.                                            *)
LEMMA MentionsMore ==
  ASSUME NEW file, NEW n \in Nat, NEW name
  PROVE  Mentioned(file, n + 1, name) <=> Mentioned(file, n, name) \/ Sets(file, n + 1, name)
<1>1. \A i : i \in 1 .. n + 1 <=> i \in 1 .. n \/ i = n + 1
  OBVIOUS
<1>2. QED
  BY <1>1 DEF Mentioned

(* What has been read is what the lines so far mean.                       *)
Held(s, p, d, e, file, n) ==
    /\ e \in BOOLEAN
    /\ e <=> \E i \in 1 .. n : Bad(file, i)
    /\ ~e =>
        /\ s = IF SectionAt(file, n) = 0 THEN "" ELSE file[SectionAt(file, n)].name
        /\ p = IF AttrAt(file, n) = 0 THEN "" ELSE file[AttrAt(file, n)].name
        /\ AttrAt(file, n) # 0 => p \in Known
        /\ \A name : Entry(d, name) = MeansTo(file, n, name)
        /\ \A name : name \in DOMAIN d <=> Mentioned(file, n, name)

(* ini is a state of ini_parse_file that holds what the first n lines      *)
(* mean.                                                                   *)
AsRead(ini, file, n) ==
    \E s, p, d, e : ini = [section |-> s, prev |-> p, db |-> d, error |-> e]
                    /\ Held(s, p, d, e, file, n)

(* parse_cb changes the entry of its section, and of it what the attribute *)
(* is about.                                                               *)
LEMMA Parses ==
  ASSUME NEW db, NEW section, NEW attr, NEW value, NEW name,
         Entry(db, section) = [addr |-> Entry(db, section).addr, reos |-> Entry(db, section).reos]
  PROVE  Entry(parse_cb(db, section, attr, value), name) =
            IF name # section THEN Entry(db, name)
            ELSE [addr |-> IF attr = "address" THEN value ELSE Entry(db, section).addr,
                  reos |-> IF attr = "flags" THEN Entry(db, section).reos \/ value = "reos"
                           ELSE Entry(db, section).reos]
<1> DEFINE e == Entry(db, section)
           entry == CASE attr = "address" -> [e EXCEPT !.addr = value]
                    [] attr = "flags" -> [e EXCEPT !.reos = @ \/ value = "reos"]
                    [] OTHER -> e
<1>1. parse_cb(db, section, attr, value) = Put(db, section, entry)
  BY DEF parse_cb
<1>2. Entry(Put(db, section, entry), name) = IF name = section THEN entry ELSE Entry(db, name)
  <2> HIDE DEF entry
  <2>1. QED
    BY DEF Put, Entry
<1>3. entry = [addr |-> IF attr = "address" THEN value ELSE e.addr,
             reos |-> IF attr = "flags" THEN e.reos \/ value = "reos" ELSE e.reos]
  <2> HIDE DEF e
  <2>1. e = [addr |-> e.addr, reos |-> e.reos]
    BY DEF e
  <2>2. CASE attr = "address"
    BY <2>1, <2>2
  <2>3. CASE attr = "flags"
    BY <2>1, <2>3
  <2>4. CASE attr \notin {"address", "flags"}
    BY <2>1, <2>4
  <2>5. QED
    BY <2>2, <2>3, <2>4
<1>4. QED
  <2> HIDE DEF entry
  <2>1. QED
    BY <1>1, <1>2, <1>3

(* The names it knows are then one more.                                   *)
LEMMA ParsesName ==
  ASSUME NEW db, NEW section, NEW attr, NEW value, NEW name
  PROVE  name \in DOMAIN parse_cb(db, section, attr, value) <=> name \in DOMAIN db \/ name = section
<1> DEFINE entry == CASE attr = "address" -> [Entry(db, section) EXCEPT !.addr = value]
                      [] attr = "flags" -> [Entry(db, section) EXCEPT !.reos = @ \/ value = "reos"]
                      [] OTHER -> Entry(db, section)
<1>1. parse_cb(db, section, attr, value) = Put(db, section, entry)
  BY DEF parse_cb
<1> HIDE DEF entry
<1>2. QED
  BY <1>1 DEF Put

(* The lines that set an attribute, with one more line.                    *)
LEMMA LinesGrow ==
  ASSUME NEW file, NEW n \in Nat, NEW name, NEW attr
  PROVE  LinesTo(file, n + 1, name, attr) =
            LinesTo(file, n, name, attr)
            \cup IF Sets(file, n + 1, name) /\ file[AttrAt(file, n + 1)].name = attr
                 THEN {n + 1} ELSE {}
<1>1. \A i : i \in 1 .. n + 1 <=> i \in 1 .. n \/ i = n + 1
  OBVIOUS
<1>2. QED
  BY <1>1 DEF LinesTo

(* What one more line means.                                               *)
LEMMA MeansMore ==
  ASSUME NEW file, NEW n \in Nat, NEW name
  PROVE  LET attr == file[AttrAt(file, n + 1)].name
             value == file[n + 1].value IN
         MeansTo(file, n + 1, name) =
            IF ~Sets(file, n + 1, name) THEN MeansTo(file, n, name)
            ELSE [addr |-> IF attr = "address" THEN value ELSE MeansTo(file, n, name).addr,
                  reos |-> IF attr = "flags" THEN MeansTo(file, n, name).reos \/ value = "reos"
                           ELSE MeansTo(file, n, name).reos]
<1> DEFINE attr == file[AttrAt(file, n + 1)].name
           value == file[n + 1].value
           a == LinesTo(file, n, name, "address")
           b == LinesTo(file, n + 1, name, "address")
           f == LinesTo(file, n, name, "flags")
           g == LinesTo(file, n + 1, name, "flags")
           top(T) == CHOOSE i \in T : \A j \in T : j <= i
           last(T) == IF T = {} THEN "" ELSE file[top(T)].value
           set(T) == \E i \in T : file[i].value = "reos"
<1>1. MeansTo(file, n, name) = [addr |-> last(a), reos |-> set(f)]
  BY DEF MeansTo
<1>2. MeansTo(file, n + 1, name) = [addr |-> last(b), reos |-> set(g)]
  BY DEF MeansTo
<1>3. /\ b = a \cup IF Sets(file, n + 1, name) /\ attr = "address" THEN {n + 1} ELSE {}
      /\ g = f \cup IF Sets(file, n + 1, name) /\ attr = "flags" THEN {n + 1} ELSE {}
  <2>1. \A x : LinesTo(file, n + 1, name, x) =
                 LinesTo(file, n, name, x)
                 \cup IF Sets(file, n + 1, name) /\ attr = x THEN {n + 1} ELSE {}
    BY LinesGrow
  <2>2. QED
    BY <2>1
<1>4. a \subseteq 1 .. n
  BY DEF LinesTo
<1> HIDE DEF a, b, f, g
<1>5. last(b) = IF Sets(file, n + 1, name) /\ attr = "address" THEN value ELSE last(a)
  <2>1. CASE Sets(file, n + 1, name) /\ attr = "address"
    <3>1. b = a \cup {n + 1}
      BY <1>3, <2>1
    <3>2. \A i \in b : (\A j \in b : j <= i) <=> i = n + 1
      BY <1>4, <3>1
    <3>3. top(b) = n + 1
      BY <3>1, <3>2
    <3> HIDE DEF top
    <3>4. QED
      BY <2>1, <3>1, <3>3
  <2>2. CASE ~(Sets(file, n + 1, name) /\ attr = "address")
    <3>1. b = a
      BY <1>3, <2>2
    <3> HIDE DEF last
    <3>2. QED
      BY <2>2, <3>1
  <2>3. QED
    BY <2>1, <2>2
<1>6. set(g) <=> IF Sets(file, n + 1, name) /\ attr = "flags" THEN set(f) \/ value = "reos"
                 ELSE set(f)
  BY <1>3
<1> HIDE DEF last, set
<1>7. set(f) \in BOOLEAN /\ set(g) \in BOOLEAN
  BY DEF set
<1>8. QED
  BY <1>1, <1>2, <1>5, <1>6, <1>7

(* A line that Handle reads, of an attribute that Handle is given: in a    *)
(* file without an error so far it is the attribute the line belongs to.   *)
LEMMA Handled ==
  ASSUME NEW file, NEW n \in Nat, NEW s, NEW p, NEW d, NEW e, Held(s, p, d, e, file, n),
         file[n + 1].kind \in {"attr", "indented"}, AttrAt(file, n + 1) # 0,
         NEW name, ~e => name = file[AttrAt(file, n + 1)].name,
         NEW value, value = file[n + 1].value
  PROVE  Held(s, name, parse_cb(d, s, name, value), e \/ ~Accepts(name, value), file, n + 1)
<1> DEFINE db == parse_cb(d, s, name, value)
           bad == e \/ ~Accepts(name, value)
<1>1. SectionAt(file, n + 1) = SectionAt(file, n)
  BY HeadsAt
<1>2. bad <=> \E i \in 1 .. n + 1 : Bad(file, i)
  <2>1. \A i : i \in 1 .. n + 1 <=> i \in 1 .. n \/ i = n + 1
    OBVIOUS
  <2>2. e <=> \E i \in 1 .. n : Bad(file, i)
    BY DEF Held
  <2>3. Bad(file, n + 1) <=> ~Accepts(file[AttrAt(file, n + 1)].name, value)
    BY DEF Bad
  <2>4. CASE e
    BY <2>1, <2>2, <2>4
  <2>5. CASE ~e
    BY <2>1, <2>2, <2>3, <2>5
  <2>6. QED
    BY <2>4, <2>5
<1>3. ASSUME ~bad
      PROVE  /\ name \in Known
             /\ s = IF SectionAt(file, n) = 0 THEN "" ELSE file[SectionAt(file, n)].name
             /\ \A nm : Entry(d, nm) = MeansTo(file, n, nm)
             /\ \A nm : nm \in DOMAIN d <=> Mentioned(file, n, nm)
  BY <1>3 DEF Held, Accepts
<1>4. ASSUME ~bad, NEW nm
      PROVE  /\ Entry(db, nm) = MeansTo(file, n + 1, nm)
             /\ nm \in DOMAIN db <=> Mentioned(file, n + 1, nm)
  <2>1. name = file[AttrAt(file, n + 1)].name
    BY <1>4
  <2>2. Sets(file, n + 1, nm) <=> nm = s
    <3>1. s = IF SectionAt(file, n + 1) = 0 THEN "" ELSE file[SectionAt(file, n + 1)].name
      BY <1>1, <1>3, <1>4
    <3>2. CASE SectionAt(file, n + 1) = 0
      BY <3>1, <3>2 DEF Sets
    <3>3. CASE SectionAt(file, n + 1) # 0
      BY <3>1, <3>3 DEF Sets
    <3>4. QED
      BY <3>2, <3>3
  <2>3. Entry(d, nm) = MeansTo(file, n, nm) /\ Entry(d, s) = MeansTo(file, n, s)
    BY <1>3, <1>4
  <2>4. MeansTo(file, n, s) = [addr |-> MeansTo(file, n, s).addr, reos |-> MeansTo(file, n, s).reos]
    BY DEF MeansTo
  <2>5. Entry(db, nm) =
            IF nm # s THEN Entry(d, nm)
            ELSE [addr |-> IF name = "address" THEN value ELSE Entry(d, s).addr,
                  reos |-> IF name = "flags" THEN Entry(d, s).reos \/ value = "reos"
                           ELSE Entry(d, s).reos]
    <3>1. Entry(d, s) = [addr |-> Entry(d, s).addr, reos |-> Entry(d, s).reos]
      BY <2>3, <2>4, Zenon
    <3> HIDE DEF db
    <3>2. QED
      BY <3>1, Parses DEF db
  <2>6. MeansTo(file, n + 1, nm) =
            IF ~Sets(file, n + 1, nm) THEN MeansTo(file, n, nm)
            ELSE [addr |-> IF name = "address" THEN value ELSE MeansTo(file, n, nm).addr,
                  reos |-> IF name = "flags" THEN MeansTo(file, n, nm).reos \/ value = "reos"
                           ELSE MeansTo(file, n, nm).reos]
    BY <2>1, MeansMore, Zenon
  <2>7. nm \in DOMAIN db <=> nm \in DOMAIN d \/ nm = s
    BY ParsesName
  <2> HIDE DEF db
  <2>8. nm \in DOMAIN db <=> Mentioned(file, n + 1, nm)
    BY <1>3, <1>4, <2>2, <2>7, MentionsMore
  <2>9. Entry(db, nm) = MeansTo(file, n + 1, nm)
    <3>1. CASE nm # s
      BY <2>2, <2>3, <2>5, <2>6, <3>1, Zenon
    <3>2. CASE nm = s
      BY <2>2, <2>3, <2>5, <2>6, <3>2, Zenon
    <3>3. QED
      BY <3>1, <3>2
  <2>10. QED
    BY <2>8, <2>9
<1> HIDE DEF db
<1>5. bad \in BOOLEAN
  BY DEF Held, Accepts
<1> HIDE DEF bad
<1>6. Held(s, name, db, bad, file, n + 1)
  BY <1>1, <1>2, <1>3, <1>4, <1>5 DEF Held, bad
<1>7. QED
  BY <1>6, Zenon DEF bad, db

(* ReadLine keeps it, whatever kind of line it reads.                      *)
LEMMA LineRead ==
  ASSUME NEW file, NEW n \in Nat, NEW ini, AsRead(ini, file, n)
  PROVE  AsRead(ReadLine(ini, file[n + 1]), file, n + 1)
<1> DEFINE line == file[n + 1]
           value == line.value
<1>1. PICK s, p, d, e : ini = [section |-> s, prev |-> p, db |-> d, error |-> e]
                        /\ Held(s, p, d, e, file, n)
  BY DEF AsRead
<1>2. ini.section = s /\ ini.prev = p /\ ini.db = d /\ ini.error = e
  BY <1>1
<1>3. \A i : i \in 1 .. n + 1 <=> i \in 1 .. n \/ i = n + 1
  OBVIOUS
<1>4. CASE line.kind = "section"
  <2> DEFINE new == ReadLine(ini, line)
  <2>1. new = [ini EXCEPT !.section = line.name, !.prev = ""]
    BY <1>4, Zenon DEF ReadLine
  <2> HIDE DEF new
  <2>2. new = [section |-> line.name, prev |-> "", db |-> d, error |-> e]
    BY <1>1, <2>1, Begins
  <2>3. ~Bad(file, n + 1) /\ \A nm : ~Sets(file, n + 1, nm)
    BY <1>4 DEF Bad, Sets
  <2>4. \A nm : MeansTo(file, n + 1, nm) = MeansTo(file, n, nm)
    BY <2>3, MeansMore, Zenon
  <2>5. SectionAt(file, n + 1) = n + 1 /\ AttrAt(file, n + 1) = 0
    BY <1>4, HeadsAt
  <2>6. Held(line.name, "", d, e, file, n + 1)
    <3>1. e \in BOOLEAN /\ (e <=> \E i \in 1 .. n : Bad(file, i))
      BY <1>1 DEF Held
    <3>2. e <=> \E i \in 1 .. n + 1 : Bad(file, i)
      BY <1>3, <2>3, <3>1
    <3>3. ~e => \A nm : Entry(d, nm) = MeansTo(file, n + 1, nm)
      BY <1>1, <2>4 DEF Held
    <3>4. /\ SectionAt(file, n + 1) # 0 /\ line.name = file[SectionAt(file, n + 1)].name
          /\ AttrAt(file, n + 1) = 0
      BY <2>5
    <3>5. ~e => \A nm : nm \in DOMAIN d <=> Mentioned(file, n + 1, nm)
      BY <1>1, <2>3, MentionsMore DEF Held
    <3>6. QED
      BY <3>1, <3>2, <3>3, <3>4, <3>5, Zenon DEF Held
  <2>7. QED
    BY <2>2, <2>6, Zenon DEF AsRead, new
<1>5. ASSUME NEW name, ReadLine(ini, line) = Handle(ini, name, value),
             line.kind \in {"attr", "indented"}, AttrAt(file, n + 1) # 0,
             ~e => name = file[AttrAt(file, n + 1)].name
      PROVE  AsRead(ReadLine(ini, line), file, n + 1)
  <2>1. Held(s, name, parse_cb(d, s, name, value), e \/ ~Accepts(name, value), file, n + 1)
    BY <1>1, <1>5, Handled
  <2>2. Handle(ini, name, value) =
           [section |-> s, prev |-> name, db |-> parse_cb(d, s, name, value),
            error |-> e \/ ~Accepts(name, value)]
    BY <1>1, HandleIs
  <2>3. QED
    BY <1>5, <2>1, <2>2, Zenon DEF AsRead
<1>6. CASE line.kind = "attr"
  <2>1. ReadLine(ini, line) = Handle(ini, line.name, value)
    BY <1>6, Zenon DEF ReadLine
  <2>2. AttrAt(file, n + 1) = n + 1
    BY <1>6, HeadsAt
  <2>3. QED
    BY <1>5, <1>6, <2>1, <2>2
<1>7. CASE line.kind = "indented" /\ p # ""
  <2>1. ReadLine(ini, line) = Handle(ini, p, value)
    BY <1>2, <1>7, Zenon DEF ReadLine
  <2>2. AttrAt(file, n + 1) = AttrAt(file, n)
    BY <1>7, HeadsAt
  <2>3. CASE AttrAt(file, n + 1) # 0
    <3>1. ~e => p = file[AttrAt(file, n + 1)].name
      BY <1>1, <2>2, <2>3 DEF Held
    <3>2. QED
      BY <1>5, <1>7, <2>1, <2>3, <3>1
  <2>4. CASE AttrAt(file, n + 1) = 0
    <3>1. e = TRUE
      BY <1>1, <1>7, <2>2, <2>4 DEF Held
    <3>2. Handle(ini, p, value) =
           [section |-> s, prev |-> p, db |-> parse_cb(d, s, p, value),
            error |-> e \/ ~Accepts(p, value)]
      BY <1>1, HandleIs
    <3>3. (e \/ ~Accepts(p, value)) = TRUE
      BY <3>1
    <3>4. Held(s, p, parse_cb(d, s, p, value), TRUE, file, n + 1)
      BY <1>1, <1>3, <3>1 DEF Held
    <3>5. QED
      BY <2>1, <3>2, <3>3, <3>4, Zenon DEF AsRead
  <2>5. QED
    BY <2>3, <2>4
<1>8. CASE \/ line.kind \notin {"section", "attr", "indented"}
           \/ line.kind = "indented" /\ p = ""
  <2> DEFINE new == ReadLine(ini, line)
  <2>1. new = [ini EXCEPT !.error = TRUE]
    BY <1>2, <1>8 DEF ReadLine
  <2> HIDE DEF new
  <2>2. new = [section |-> s, prev |-> p, db |-> d, error |-> TRUE]
    BY <1>1, <2>1, Fails
  <2>3. e = TRUE \/ Bad(file, n + 1)
    <3>1. CASE line.kind \notin {"section", "attr", "indented"}
      BY <3>1 DEF Bad
    <3>2. CASE line.kind = "indented" /\ p = "" /\ ~e
      <4>1. AttrAt(file, n) = 0 /\ AttrAt(file, n + 1) = AttrAt(file, n)
        BY <1>1, <3>2, HeadsAt DEF Held, Known
      <4>2. QED
        BY <3>2, <4>1 DEF Bad
    <3>3. QED
      BY <1>1, <1>8, <3>1, <3>2 DEF Held
  <2>4. Held(s, p, d, TRUE, file, n + 1)
    BY <1>1, <1>3, <2>3 DEF Held
  <2>5. QED
    BY <2>2, <2>4, Zenon DEF AsRead, new
<1>9. QED
  BY <1>4, <1>6, <1>7, <1>8

(* The induction: after all lines, what was read is what they mean.        *)
LEMMA FileRead ==
  ASSUME NEW file, Len(file) \in Nat
  PROVE  AsRead(ini_parse_file(file), file, Len(file))
<1>1. PICK g : Reading(g, file, Len(file)) /\ ini_parse_file(file) = g[Len(file)]
  BY Unfold
<1> DEFINE S == {n \in Nat : n <= Len(file) => AsRead(g[n], file, n)}
<1>2. 0 \in S
  <2>1. g[0] = Begun
    BY <1>1 DEF Reading
  <2> DEFINE d == [x \in {} |-> New]
  <2>2. ASSUME NEW name PROVE Entry(d, name) = MeansTo(file, 0, name)
    <3>1. \A attr : LinesTo(file, 0, name, attr) = {}
      BY DEF LinesTo
    <3>2. MeansTo(file, 0, name) = New
      BY <3>1 DEF MeansTo, New
    <3>3. Entry(d, name) = New
      BY DEF Entry
    <3>4. QED
      BY <3>2, <3>3
  <2> HIDE DEF d
  <2>3. Held("", "", d, FALSE, file, 0)
    <3>1. ~ \E i \in 1 .. 0 : Bad(file, i)
      OBVIOUS
    <3>2. SectionAt(file, 0) = 0 /\ AttrAt(file, 0) = 0
      BY HeadsAt
    <3>3. \A name : name \notin DOMAIN d /\ ~Mentioned(file, 0, name)
      BY DEF d, Mentioned
    <3>4. QED
      BY <2>2, <3>1, <3>2, <3>3 DEF Held
  <2>4. AsRead(Begun, file, 0)
    BY <2>3, Zenon DEF AsRead, Begun, d
  <2>5. QED
    BY <2>1, <2>4
<1>3. ASSUME NEW n \in Nat, n \in S PROVE n + 1 \in S
  <2>1. CASE n + 1 <= Len(file)
    <3>1. g[n + 1] = ReadLine(g[n], file[n + 1])
      BY <1>1, <2>1 DEF Reading
    <3>2. AsRead(g[n], file, n)
      BY <1>3, <2>1
    <3>3. QED
      BY <3>1, <3>2, LineRead
  <2>2. QED
    BY <2>1
<1>4. Len(file) \in S
  <2> HIDE DEF S
  <2>1. QED
    BY <1>2, <1>3, Induction
<1>5. QED
  BY <1>1, <1>4

(* ini.c:ini_parse_file with configfile.c:parse_cb: a file is refused      *)
(* exactly if one of its lines is wrong; otherwise the instruments it      *)
(* knows are those it says something of, and what it says of one is the    *)
(* last address of all its sections of that name, and reos if any of their *)
(* flags says so.                                                          *)
THEOREM FileMeans ==
  ASSUME NEW S, NEW file \in Seq(S), file \notin {NoFile, Unset}
  PROVE  LET ini == ini_parse(file) IN
         /\ ini.error <=> ~Good(file)
         /\ ~ini.error =>
              /\ \A name : name \in DOMAIN ini.db <=> \E i \in DOMAIN file : Sets(file, i, name)
              /\ \A name \in DOMAIN ini.db : ini.db[name] = Means(file, name)
<1> DEFINE ini == ini_parse_file(file)
<1>1. ini_parse(file) = ini /\ AsRead(ini, file, Len(file)) /\ DOMAIN file = 1 .. Len(file)
  BY FileRead DEF ini_parse
<1>2. Good(file) <=> ~ \E i \in 1 .. Len(file) : Bad(file, i)
  BY <1>1 DEF Good, Bad
<1>3. \A name : MeansTo(file, Len(file), name) = Means(file, name)
  BY <1>1 DEF MeansTo, Means, LinesTo, Lines
<1> HIDE DEF ini
<1>4. PICK s, p, d, e : ini = [section |-> s, prev |-> p, db |-> d, error |-> e]
                        /\ Held(s, p, d, e, file, Len(file))
  BY <1>1 DEF AsRead
<1>5. ini.error = e /\ ini.db = d
  BY <1>4
<1>6. QED
  BY <1>1, <1>2, <1>3, <1>4, <1>5 DEF Held, Entry, Mentioned

-----------------------------------------------------------------------------
(* IbQuery and InstInit.                                                   *)

Function(f, S) == f = [x \in S |-> f[x]]
Termios(t) == t \in [line : {t.line}, xonxoff : {t.xonxoff}, rtscts : {t.rtscts},
                      canon : {t.canon}]

IbType ==
    /\ at \in [Proc -> {"exited", "open", "ready", "args", "shell"}]
    /\ code \in [Proc -> {0, 1, 128}]
    /\ Function(cfi, Proc) /\ Function(gd, Proc) /\ Function(open, Proc)
    /\ opening \in [Proc -> {"no", "lock", "set"}]
    /\ locker \in [Tty -> Proc \cup {NoProc}]
    /\ Function(tio, Tty)
    /\ \A dev \in Tty : Termios(tio[dev])

(* A program has an instrument from where inst_init returned it.           *)
Stage(p) ==
    /\ at[p] \in {"exited", "open"} <=> gd[p] = NoInst
    /\ at[p] # "open" => opening[p] = "no"
    /\ at[p] # "exited" => cfi[p].addr \in DOMAIN Fields

(* _init_serial: the lock is its own before it reads the settings.         *)
Locking(p) ==
    LET a == cfi[p].addr IN
    /\ opening[p] \in {"lock", "set"} =>
        IsSerial(a) /\ Fields[a].dev \in Tty /\ open[p] = {Serial(Fields[a].dev)}
    /\ opening[p] = "set" => locker[Fields[a].dev] = p

(* A serial line in use is locked and set as its user wants it.            *)
Line(p) ==
    LET a == cfi[p].addr  f == Flags(Fields[a].sfx)  t == tio[Fields[a].dev] IN
    gd[p].contype = "SERIAL" =>
        /\ IsSerial(a) /\ Fields[a].dev \in Tty
        /\ gd[p] = Serial(Fields[a].dev) /\ open[p] = {gd[p]}
        /\ locker[Fields[a].dev] = p
        /\ t.line = SubSeq(f, 1, 4)
        /\ f[5] = "X" => t.xonxoff
        /\ f[5] = "H" => t.rtscts
        /\ f[5] = "N" => ~t.xonxoff /\ ~t.rtscts
        /\ t.canon <=> (at[p] \in {"args", "shell"} /\ cfi[p].reos)

IbInv == IbType /\ \A p \in Proc : Stage(p) /\ Locking(p) /\ Line(p)

(* What p has open: its instrument, which is the one its address names, and *)
(* the handle that inst_init forgot.                                       *)
Names(f, inst) == Forgotten(f) = {} /\ ~(f.pad = None /\ f.dev = NoDev) => inst = Documented(f)

Owns(p) ==
    LET f == Fields[cfi[p].addr] IN
    /\ gd[p] # NoInst =>
        gd[p] \in open[p] /\ open[p] \subseteq {gd[p]} \cup Forgotten(f) /\ Names(f, gd[p])
    /\ at[p] = "exited" /\ code[p] = 0 => open[p] = {}

-----------------------------------------------------------------------------
(* A step of p changes nothing of the other programs, and no line that one *)
(* of them has the lock of.                                                *)
OnlyOwn(p) ==
    /\ \A q \in Proc \ {p} :
        /\ at'[q] = at[q] /\ code'[q] = code[q] /\ cfi'[q] = cfi[q]
        /\ gd'[q] = gd[q] /\ opening'[q] = opening[q] /\ open'[q] = open[q]
    /\ \A dev \in Tty : locker[dev] \in Proc \ {p} =>
        locker'[dev] = locker[dev] /\ tio'[dev] = tio[dev]

(* Such a step keeps their part of the invariant.                          *)
LEMMA OthersKeep ==
  ASSUME IbInv, NEW p \in Proc, OnlyOwn(p), NEW q \in Proc \ {p}
  PROVE  Stage(q)' /\ Locking(q)' /\ Line(q)' /\ (Owns(q) => Owns(q)')
<1>1. Stage(q) /\ Locking(q) /\ Line(q)
  BY DEF IbInv
<1>2. /\ at'[q] = at[q] /\ code'[q] = code[q] /\ cfi'[q] = cfi[q]
      /\ gd'[q] = gd[q] /\ opening'[q] = opening[q] /\ open'[q] = open[q]
  BY DEF OnlyOwn
<1>3. Stage(q)' /\ (Owns(q) => Owns(q)')
  BY <1>1, <1>2 DEF Stage, Owns
<1>4. Locking(q)'
  BY <1>1, <1>2 DEF Locking, OnlyOwn
<1>5. Line(q)'
  <2>1. SUFFICES ASSUME gd[q].contype = "SERIAL" PROVE Line(q)'
    BY <1>2 DEF Line
  <2> DEFINE dev == Fields[cfi[q].addr].dev
  <2>2. dev \in Tty /\ locker[dev] = q
    BY <1>1, <2>1 DEF Line
  <2>3. locker'[dev] = locker[dev] /\ tio'[dev] = tio[dev]
    BY <2>2 DEF OnlyOwn
  <2>4. QED
    BY <1>1, <1>2, <2>1, <2>3 DEF Line
<1>6. QED
  BY <1>3, <1>4, <1>5
-----------------------------------------------------------------------------
(* What each step of a program p has to do.                                *)
Keeps(p) ==
    /\ IbType' /\ OnlyOwn(p) /\ Stage(p)' /\ Locking(p)' /\ Line(p)'
    /\ Owns(p) => Owns(p)'

(* The end of a program, as ibquery.c has it.                              *)
LEMMA Exits ==
  ASSUME IbType, NEW p \in Proc, NEW n \in {0, 1, 128}, Exit(p, n)
  PROVE  /\ at' \in [Proc -> {"exited", "open", "ready", "args", "shell"}]
         /\ code' \in [Proc -> {0, 1, 128}] /\ Function(cfi', Proc)
         /\ at'[p] = "exited" /\ code'[p] = n
         /\ \A q \in Proc \ {p} : at'[q] = at[q] /\ code'[q] = code[q] /\ cfi'[q] = cfi[q]
<1>1. Function(cfi', Proc) /\ \A q \in Proc \ {p} : cfi'[q] = cfi[q]
  <2>1. cfi' = [cfi EXCEPT ![p] = New] /\ Function(cfi, Proc)
    BY DEF Exit, Set, IbType
  <2>2. QED
    BY <2>1 DEF Function
<1>2. QED
  BY <1>1 DEF IbType, Exit, Set

(* The instrument of a program that ends is no longer its own.             *)
LEMMA Forgets ==
  ASSUME IbType, NEW p \in Proc, Dies(p) \/ inst_fini(p)
  PROVE  /\ Function(gd', Proc) /\ Function(open', Proc) /\ tio' = tio
         /\ opening' \in [Proc -> {"no", "lock", "set"}]
         /\ locker' \in [Tty -> Proc \cup {NoProc}]
         /\ gd'[p] = NoInst /\ opening'[p] = "no"
         /\ inst_fini(p) => open'[p] \subseteq {i \in open[p] \ {gd[p]} : i.contype = "VXI11"}
         /\ \A q \in Proc \ {p} : gd'[q] = gd[q] /\ opening'[q] = opening[q] /\ open'[q] = open[q]
         /\ \A dev \in Tty : locker[dev] # p => locker'[dev] = locker[dev]
<1>1. PICK left : /\ open' = [open EXCEPT ![p] = left]
                  /\ inst_fini(p) =>
                       left \subseteq {i \in open[p] \ {gd[p]} : i.contype = "VXI11"}
  <2>1. CASE inst_fini(p)
    <3>1. {i \in Closed(p, gd[p]) : i.contype = "VXI11"}
              \subseteq {i \in open[p] \ {gd[p]} : i.contype = "VXI11"}
      BY DEF Closed
    <3>2. QED
      BY <2>1, <3>1 DEF inst_fini
  <2>2. CASE ~inst_fini(p)
    BY <2>2 DEF Dies
  <2>3. QED
    BY <2>1, <2>2
<1>2. Forget(p)
  BY DEF Dies, inst_fini
<1>3. /\ Function(open', Proc) /\ open'[p] = left
      /\ \A q \in Proc \ {p} : open'[q] = open[q]
  <2>1. Function(open, Proc) /\ open' = [open EXCEPT ![p] = left]
    BY <1>1 DEF IbType
  <2>2. QED
    BY <2>1 DEF Function
<1>4. /\ Function(gd', Proc) /\ gd'[p] = NoInst
      /\ \A q \in Proc \ {p} : gd'[q] = gd[q]
  <2>1. Function(gd, Proc) /\ gd' = [gd EXCEPT ![p] = NoInst]
    BY <1>2 DEF IbType, Forget, NewInst
  <2>2. QED
    BY <2>1 DEF Function
<1>5. /\ opening' \in [Proc -> {"no", "lock", "set"}] /\ opening'[p] = "no"
      /\ \A q \in Proc \ {p} : opening'[q] = opening[q]
  BY <1>2 DEF IbType, Forget
<1>6. /\ locker' \in [Tty -> Proc \cup {NoProc}] /\ tio' = tio
      /\ \A dev \in Tty : locker[dev] # p => locker'[dev] = locker[dev]
  BY <1>2 DEF IbType, Forget, Unlock
<1>7. QED
  BY <1>1, <1>3, <1>4, <1>5, <1>6

(* An end of p keeps the invariant, if beside its instrument only what the *)
(* kernel closes is open when it ends with 0.                              *)
LEMMA EndKeeps ==
  ASSUME IbInv, NEW p \in Proc, NEW n \in {0, 1, 128}, Exit(p, n),
         \/ Dies(p) \/ inst_fini(p)
         \/ gd[p] = NoInst /\ serial_fails(p, cfi[p].addr)
         \/ at[p] = "exited" /\ UNCHANGED instVars,
         n = 0 => inst_fini(p) /\ (Owns(p) => \A i \in open[p] \ {gd[p]} : i.contype = "GPIB")
  PROVE  Keeps(p)
<1>1. /\ at' \in [Proc -> {"exited", "open", "ready", "args", "shell"}]
      /\ code' \in [Proc -> {0, 1, 128}] /\ Function(cfi', Proc)
      /\ at'[p] = "exited" /\ code'[p] = n
      /\ \A q \in Proc \ {p} : at'[q] = at[q] /\ code'[q] = code[q] /\ cfi'[q] = cfi[q]
  BY Exits DEF IbInv
<1>2. /\ Function(gd', Proc) /\ Function(open', Proc) /\ tio' = tio
      /\ opening' \in [Proc -> {"no", "lock", "set"}]
      /\ locker' \in [Tty -> Proc \cup {NoProc}]
      /\ gd'[p] = NoInst /\ opening'[p] = "no"
      /\ \A q \in Proc \ {p} : gd'[q] = gd[q] /\ opening'[q] = opening[q] /\ open'[q] = open[q]
      /\ \A dev \in Tty : locker[dev] # p => locker'[dev] = locker[dev]
  <2>1. CASE Dies(p) \/ inst_fini(p)
    BY <2>1, Forgets DEF IbInv
  <2>2. CASE gd[p] = NoInst /\ serial_fails(p, cfi[p].addr)
    <3>1. /\ Function(open', Proc) /\ \A q \in Proc \ {p} : open'[q] = open[q]
      <4>1. Function(open, Proc) /\ open' = [open EXCEPT ![p] = {}]
        BY <2>2 DEF IbInv, IbType, serial_fails
      <4>2. QED
        BY <4>1 DEF Function
    <3>2. gd' = gd /\ tio' = tio
      BY <2>2 DEF serial_fails
    <3>3. /\ opening' \in [Proc -> {"no", "lock", "set"}] /\ opening'[p] = "no"
          /\ \A q \in Proc \ {p} : opening'[q] = opening[q]
      BY <2>2 DEF IbInv, IbType, serial_fails
    <3>4. /\ locker' \in [Tty -> Proc \cup {NoProc}]
          /\ \A dev \in Tty : locker[dev] # p => locker'[dev] = locker[dev]
      BY <2>2 DEF IbInv, IbType, serial_fails, Unlock
    <3>5. QED
      BY <2>2, <3>1, <3>2, <3>3, <3>4 DEF IbInv, IbType
  <2>3. CASE at[p] = "exited" /\ UNCHANGED instVars
    BY <2>3 DEF IbInv, IbType, Stage, instVars
  <2>4. QED
    BY <2>1, <2>2, <2>3
<1>3. IbType' /\ OnlyOwn(p)
  BY <1>1, <1>2 DEF IbInv, IbType, OnlyOwn
<1>4. Stage(p)' /\ Locking(p)' /\ Line(p)'
  BY <1>1, <1>2 DEF Stage, Locking, Line, NoInst, Inst
<1>5. ASSUME Owns(p) PROVE Owns(p)'
  <2>1. n = 0 => open'[p] = {}
    <3>1. n = 0 => inst_fini(p) /\ \A i \in open[p] \ {gd[p]} : i.contype = "GPIB"
      BY <1>5
    <3>2. n = 0 => open'[p] \subseteq {i \in open[p] \ {gd[p]} : i.contype = "VXI11"}
      BY <3>1, Forgets DEF IbInv
    <3>3. QED
      BY <3>1, <3>2
  <2>2. QED
    BY <1>1, <1>2, <2>1 DEF Owns
<1>6. QED
  BY <1>3, <1>4, <1>5 DEF Keeps
-----------------------------------------------------------------------------
(* A file can be read and has no error just if it is good, and then it is  *)
(* read as what it means.                                                  *)
LEMMA TableMeans ==
  ASSUME NEW S, NEW file, file = NoFile \/ file \in Seq(S), file # Unset,
         ini_parse(file).db # NULL
  PROVE  LET cf == cf_create(file) IN
         /\ cf # NULL <=> Good(file)
         /\ cf # NULL =>
              /\ \A name : name \in DOMAIN cf <=> \E j \in DOMAIN file : Sets(file, j, name)
              /\ \A name \in DOMAIN cf : cf[name] = Means(file, name)
<1> DEFINE ini == ini_parse(file)
<1>1. CASE file = NoFile
  <2>1. ini = [Begun EXCEPT !.error = TRUE]
    BY <1>1, Zenon DEF ini_parse
  <2>2. ini.error = TRUE
    BY <2>1 DEF Begun
  <2>3. ~Good(file)
    BY <1>1 DEF Good
  <2>4. cf_create(file) = NULL
    BY <2>2, Zenon DEF cf_create
  <2>5. QED
    BY <2>3, <2>4
<1>2. CASE file # NoFile
  <2>1. /\ ini.error <=> ~Good(file)
        /\ ~ini.error =>
             /\ \A name : name \in DOMAIN ini.db <=> \E j \in DOMAIN file : Sets(file, j, name)
             /\ \A name \in DOMAIN ini.db : ini.db[name] = Means(file, name)
    BY <1>2, FileMeans
  <2> HIDE DEF ini
  <2>2. cf_create(file) = IF ini.error THEN NULL ELSE ini.db
    BY Zenon DEF cf_create, ini
  <2>3. ini.db # NULL
    BY DEF ini
  <2>4. QED
    BY <2>1, <2>2, <2>3, Zenon
<1>3. QED
  BY <1>1, <1>2

(* cf_create_default: the first file that can be used.                     *)
LEMMA DefaultMeans ==
  ASSUME NEW files \in Files, NEW name,
         cf_create_default(files[1], files[2], files[3]) # NULL,
         Configured(cf_create_default(files[1], files[2], files[3]), name)
  PROVE  \E i \in 1 .. 3 :
            /\ Good(files[i]) /\ \A j \in 1 .. i - 1 : ~Good(files[j])
            /\ \E j \in DOMAIN files[i] : Sets(files[i], j, name)
            /\ cf_lookup(cf_create_default(files[1], files[2], files[3]), name)
                    = Means(files[i], name)
<1> DEFINE table(i) == IF i = 1 /\ files[i] = Unset THEN NULL ELSE cf_create(files[i])
           tables == <<IF files[1] = Unset THEN NULL ELSE cf_create(files[1]),
                       cf_create(files[2]), cf_create(files[3])>>
           good == {i \in 1 .. 3 : tables[i] # NULL}
           first == CHOOSE i \in good : \A j \in good : i <= j
           cf == cf_create_default(files[1], files[2], files[3])
<1>1. \A i \in 1 .. 3 : tables[i] = table(i)
  OBVIOUS
<1>2. ASSUME NEW i \in 1 .. 3
      PROVE  /\ table(i) # NULL <=> Good(files[i])
             /\ table(i) # NULL =>
                  /\ \A x : x \in DOMAIN table(i) <=> \E j \in DOMAIN files[i] : Sets(files[i], j, x)
                  /\ \A x \in DOMAIN table(i) : table(i)[x] = Means(files[i], x)
  <2>1. CASE i = 1 /\ files[i] = Unset
    <3>1. table(i) = NULL /\ ~Good(files[i])
      BY <2>1 DEF Good
    <3> HIDE DEF table
    <3>2. QED
      BY <3>1
  <2>2. CASE ~(i = 1 /\ files[i] = Unset)
    <3>1. /\ files[i] = NoFile \/ files[i] \in Seq([kind : STRING, name : STRING, value : STRING])
          /\ files[i] # Unset /\ ini_parse(files[i]).db # NULL
      BY <2>2, IbQueryAssumption, Zenon
    <3>2. table(i) = cf_create(files[i])
      BY <2>2
    <3> HIDE DEF table
    <3>3. QED
      BY <3>1, <3>2, TableMeans
  <2>3. QED
    BY <2>1, <2>2
<1>3. cf = IF good = {} THEN NULL ELSE tables[first]
  BY Zenon DEF cf_create_default
<1>4. cf # NULL /\ name \in DOMAIN cf /\ cf_lookup(cf, name) = cf[name]
  BY Zenon DEF Configured, cf_lookup
<1> HIDE DEF tables, cf, table
<1>5. good # {} /\ cf = tables[first]
  BY <1>3, <1>4, Zenon
<1>6. first \in good /\ \A j \in good : first <= j
  <2>1. \E i \in good : \A j \in good : i <= j
    <3>1. CASE 1 \in good
      BY <3>1
    <3>2. CASE 1 \notin good /\ 2 \in good
      BY <3>2
    <3>3. CASE 1 \notin good /\ 2 \notin good
      <4>1. 3 \in good /\ \A j \in good : j = 3
        BY <1>5, <3>3
      <4> HIDE DEF good
      <4>2. QED
        BY <4>1
    <3>4. QED
      BY <3>1, <3>2, <3>3
  <2> HIDE DEF good
  <2>2. QED
    BY <2>1, Zenon
<1> HIDE DEF first
<1>7. first \in 1 .. 3 /\ cf = table(first) /\ table(first) # NULL
  BY <1>1, <1>5, <1>6
<1>8. ASSUME NEW j \in 1 .. first - 1 PROVE ~Good(files[j])
  <2>1. j \in 1 .. 3 /\ ~(first <= j)
    BY <1>7
  <2>2. j \notin good
    BY <1>6, <2>1
  <2>3. table(j) = NULL
    BY <1>1, <2>1, <2>2
  <2>4. QED
    BY <1>2, <2>1, <2>3
<1>9. /\ Good(files[first]) /\ cf[name] = Means(files[first], name)
      /\ \E j \in DOMAIN files[first] : Sets(files[first], j, name)
  BY <1>2, <1>4, <1>7
<1>10. QED
  BY <1>4, <1>7, <1>8, <1>9 DEF cf

(* ibquery.c:main looks the instrument up.                                 *)
LEMMA MainKeeps ==
  ASSUME IbInv, NEW p \in Proc, NEW files \in Files, NEW name \in Name, main(p, files, name)
  PROVE  Keeps(p)
<1> DEFINE cf == cf_create_default(files[1], files[2], files[3])
           c == cf_lookup(cf, name)
           used == [files |-> files, name |-> name]
<1>1. c.addr \in DOMAIN Fields
  <2>1. cf # NULL /\ Configured(cf, name)
    BY DEF main
  <2>2. PICK i \in 1 .. 3 :
            /\ Good(files[i]) /\ \E j \in DOMAIN files[i] : Sets(files[i], j, name)
            /\ c = Means(files[i], name)
    BY <2>1, DefaultMeans, Zenon
  <2>3. QED
    BY <2>2, IbQueryAssumption, Zenon
<1>2. /\ at[p] = "exited" /\ at' = [at EXCEPT ![p] = "open"] /\ code' = [code EXCEPT ![p] = 0]
      /\ cfi' = [cfi EXCEPT ![p] = c] /\ open' = [open EXCEPT ![p] = {}]
      /\ UNCHANGED <<gd, opening, locker, tio>>
  BY DEF main, Set
<1> HIDE DEF c, cf
<1>3. gd[p] = NoInst /\ opening[p] = "no"
  BY <1>2 DEF IbInv, Stage
<1>4. IbType'
  BY <1>2 DEF IbInv, IbType, Function
<1>5. OnlyOwn(p)
  BY <1>2 DEF IbInv, IbType, Function, OnlyOwn
<1>6. at'[p] = "open" /\ cfi'[p] = c /\ gd'[p] = NoInst /\ opening'[p] = "no"
  BY <1>2, <1>3 DEF IbInv, IbType, Function
<1>7. Stage(p)' /\ Locking(p)' /\ Line(p)' /\ Owns(p)'
  BY <1>1, <1>6 DEF Stage, Locking, Line, Owns, NoInst, Inst
<1>8. QED
  BY <1>4, <1>5, <1>7 DEF Keeps

(* Two sequences of one.                                                   *)
LEMMA PairOf == ASSUME NEW x, NEW y PROVE <<x>> \o <<y>> = <<x, y>>
<1> DEFINE S == {x, y}
<1>1. <<x>> \in Seq(S) /\ <<y>> \in Seq(S) /\ <<x, y>> \in Seq(S)
  OBVIOUS
<1>2. /\ <<x>> \o <<y>> \in Seq(S) /\ Len(<<x>> \o <<y>>) = 2
      /\ (<<x>> \o <<y>>)[1] = x /\ (<<x>> \o <<y>>)[2] = y
  <2> HIDE DEF S
  <2>1. /\ <<x>> \o <<y>> \in Seq(S)
        /\ Len(<<x>> \o <<y>>) = Len(<<x>>) + Len(<<y>>)
        /\ \A i \in 1 .. Len(<<x>>) + Len(<<y>>) : (<<x>> \o <<y>>)[i] =
              IF i <= Len(<<x>>) THEN <<x>>[i] ELSE <<y>>[i - Len(<<x>>)]
    BY <1>1, ConcatProperties
  <2>2. Len(<<x>>) = 1 /\ Len(<<y>>) = 1
    OBVIOUS
  <2> DEFINE c == <<x>> \o <<y>>
  <2>3. c \in Seq(S) /\ Len(c) = 2 /\ c[1] = <<x>>[1] /\ c[2] = <<y>>[1]
    <3> HIDE DEF c
    <3>1. /\ c \in Seq(S) /\ Len(c) = 1 + 1
          /\ \A i \in 1 .. 1 + 1 : c[i] = IF i <= 1 THEN <<x>>[i] ELSE <<y>>[i - 1]
      BY <2>1, <2>2 DEF c
    <3>2. QED
      BY <3>1
  <2>4. QED
    BY <2>3
<1> DEFINE c == <<x>> \o <<y>>  d == <<x, y>>
<1>3. c \in Seq(S) /\ d \in Seq(S) /\ Len(c) = Len(d) /\ \A i \in 1 .. Len(c) : c[i] = d[i]
  <2> HIDE DEF S, c
  <2>1. c \in Seq(S) /\ Len(c) = 2 /\ c[1] = x /\ c[2] = y
    BY <1>2 DEF c
  <2>2. QED
    BY <1>1, <2>1
<1>4. QED
  <2> HIDE DEF S, c, d
  <2>1. c = d
    BY <1>3, SeqEqual
  <2>2. QED
    BY <2>1 DEF c, d

(* What inst_init would open: nothing, or what the address names, or the   *)
(* two that it makes of board:pad,sad.                                     *)
LEMMA OpensOne ==
  ASSUME NEW a \in DOMAIN Fields
  PROVE  LET f == Fields[a]  o == Opens(a) IN
         \/ o = <<>>
         \/ \E x : o = <<x>> /\ Names(f, x)
         \/ \E x, y : o = <<x, y>> /\ Forgotten(f) = {x}
<1> DEFINE f == Fields[a]
<1>1. NoDev \notin CharDev /\ (f.pad # None => f.dev = NoDev /\ ~f.colon)
  BY InstInitAssumption
<1>2. Opens(a) = BoardPadSad(f) \o Chain(f)
  BY DEF Opens
<1>3. CASE BoardPad(f) /\ f.sad # None
  <2> DEFINE x == Gpib(f.board, f.pad, 96 + f.sad)  y == Gpib(f.board, f.pad, 0)
  <2>1. BoardPadSad(f) = <<x>> /\ Chain(f) = <<y>> /\ Forgotten(f) = {x}
    <3>1. f.board # None /\ f.pad # None /\ f.sad # None
      BY <1>3 DEF BoardPad
    <3>2. BoardPadSad(f) = <<x>> /\ Forgotten(f) = {x}
      BY <1>3, <3>1, Zenon DEF BoardPadSad, Forgotten
    <3>3. Chain(f) = <<y>>
      BY <1>1, <1>3, <3>1 DEF Chain
    <3>4. QED
      BY <3>2, <3>3
  <2> HIDE DEF x, y
  <2>2. <<x>> \o <<y>> = <<x, y>>
    BY Zenon, PairOf
  <2>3. QED
    BY <1>2, <2>1, <2>2
<1>4. CASE ~(BoardPad(f) /\ f.sad # None)
  <2>1. BoardPadSad(f) = <<>>
    BY <1>4 DEF BoardPadSad
  <2>2. Chain(f) = <<>> \/ \E x : Chain(f) = <<x>> /\ Names(f, x)
    <3>1. CASE f.pad = None /\ f.dev = NoDev
      BY <1>1, <3>1 DEF Chain, Secondary, Names
    <3>2. CASE ~(f.pad = None /\ f.dev = NoDev)
      <4>1. Chain(f) = <<>> \/ Chain(f) = <<Documented(f)>>
        BY <1>1, <1>4, <3>2 DEF Chain, BoardPad, OnlyNumber, PadSad, Secondary, Documented, Number
      <4>2. QED
        BY <4>1 DEF Names
    <3>3. QED
      BY <3>1, <3>2
  <2>3. <<>> \o <<>> = <<>> /\ \A x : <<>> \o <<x>> = <<x>>
    <3>1. ASSUME NEW x PROVE <<>> \o <<x>> = <<x>>
      <4>1. <<x>> \in Seq({x})
        OBVIOUS
      <4>2. QED
        BY <4>1, ConcatEmptySeq
    <3>2. <<>> \in Seq({})
      OBVIOUS
    <3>3. QED
      BY <3>1, <3>2, ConcatEmptySeq
  <2>4. QED
    BY <1>2, <2>1, <2>2, <2>3
<1>5. QED
  BY <1>3, <1>4

(* What it opens is a sequence.                                            *)
LEMMA OpensSeq == \A a : Opens(a) # <<>> => Len(Opens(a)) \in DOMAIN Opens(a)
<1> SUFFICES ASSUME NEW a, Opens(a) # <<>> PROVE Len(Opens(a)) \in DOMAIN Opens(a)
  OBVIOUS
<1> DEFINE f == Fields[a]
           S == {Gpib(f.board, f.pad, 96 + f.sad), Gpib(f.board, f.pad, 0),
                 Gpib(0, Number(f.pad), 0), Gpib(0, f.pad, 96 + f.sad), Serial(f.dev),
                 Vxi(f.dev)}
<1>1. /\ Gpib(f.board, f.pad, 96 + f.sad) \in S /\ Gpib(f.board, f.pad, 0) \in S
      /\ Gpib(0, Number(f.pad), 0) \in S /\ Gpib(0, f.pad, 96 + f.sad) \in S
      /\ Serial(f.dev) \in S /\ Vxi(f.dev) \in S
  OBVIOUS
<1> HIDE DEF S
<1>2. <<>> \in Seq(S) /\ \A x \in S : <<x>> \in Seq(S)
  OBVIOUS
<1>3. BoardPadSad(f) = <<>> \/ \E x \in S : BoardPadSad(f) = <<x>>
  BY <1>1 DEF BoardPadSad
<1>4. Chain(f) = <<>> \/ \E x \in S : Chain(f) = <<x>>
  BY <1>1 DEF Chain, Secondary
<1>5. BoardPadSad(f) \in Seq(S) /\ Chain(f) \in Seq(S)
  BY <1>2, <1>3, <1>4
<1>6. Opens(a) \in Seq(S)
  BY <1>5, ConcatProperties DEF Opens
<1>7. QED
  BY <1>6

(* inst_init of a GPIB or a VXI-11 instrument.                             *)
LEMMA InitKeeps ==
  ASSUME IbInv, NEW p \in Proc, at[p] = "open", opening[p] = "no", inst_init(p, cfi[p].addr)
  PROVE  /\ gd' = [gd EXCEPT ![p] = gd'[p]] /\ open' = [open EXCEPT ![p] = open'[p]]
         /\ gd'[p].contype # "SERIAL" /\ UNCHANGED <<opening, locker, tio>>
         /\ gd'[p] # NoInst =>
              LET f == Fields[cfi[p].addr] IN
              gd'[p] \in open'[p] /\ open'[p] \subseteq {gd'[p]} \cup Forgotten(f)
              /\ Names(f, gd'[p])
<1> DEFINE a == cfi[p].addr  o == Opens(a)
<1>1. o = <<>> \/ \A i \in DOMAIN o : o[i].contype # "SERIAL"
  BY DEF inst_init
<1>2. PICK ok \in [DOMAIN o -> BOOLEAN] :
        /\ open' = [open EXCEPT ![p] = {o[i] : i \in {j \in DOMAIN ok : ok[j]}}]
        /\ gd' = [gd EXCEPT ![p] = IF o # <<>> /\ ok[Len(o)] THEN o[Len(o)] ELSE NoInst]
  BY DEF inst_init, NewInst
<1> DEFINE left == {o[i] : i \in {j \in DOMAIN ok : ok[j]}}
           new == IF o # <<>> /\ ok[Len(o)] THEN o[Len(o)] ELSE NoInst
<1>3. /\ open' = [open EXCEPT ![p] = left] /\ gd' = [gd EXCEPT ![p] = new]
      /\ UNCHANGED <<opening, locker, tio>>
  BY <1>2 DEF inst_init
<1>4. new.contype # "SERIAL"
  <2>1. NoInst.contype # "SERIAL"
    BY DEF NoInst, Inst
  <2>2. o # <<>> => Len(o) \in DOMAIN o
    BY OpensSeq
  <2>3. QED
    BY <1>1, <2>1, <2>2
<1>5. ASSUME new # NoInst
      PROVE  LET f == Fields[a] IN
             new \in left /\ left \subseteq {new} \cup Forgotten(f) /\ Names(f, new)
  <2> DEFINE f == Fields[a]
  <2>1. a \in DOMAIN Fields /\ o # <<>> /\ ok[Len(o)] /\ new = o[Len(o)]
    BY <1>5 DEF IbInv, Stage
  <2>2. \/ \E x : o = <<x>> /\ Names(f, x)
        \/ \E x, y : o = <<x, y>> /\ Forgotten(f) = {x}
    BY <2>1, OpensOne
  <2>3. CASE \E x : o = <<x>> /\ Names(f, x)
    <3>1. PICK x : o = <<x>> /\ Names(f, x)
      BY <2>3
    <3>2. DOMAIN o = {1} /\ Len(o) = 1 /\ o[1] = x
      BY <3>1
    <3>3. new = x /\ left = {x}
      BY <2>1, <3>2
    <3> HIDE DEF left, new
    <3>4. QED
      BY <3>1, <3>3
  <2>4. CASE \E x, y : o = <<x, y>> /\ Forgotten(f) = {x}
    <3>1. PICK x, y : o = <<x, y>> /\ Forgotten(f) = {x}
      BY <2>4
    <3>2. DOMAIN o = {1, 2} /\ Len(o) = 2 /\ o[1] = x /\ o[2] = y
      BY <3>1
    <3>3. new = y /\ y \in left /\ left \subseteq {x, y}
      BY <2>1, <3>2
    <3> HIDE DEF left, new
    <3>4. QED
      BY <3>1, <3>3 DEF Names
  <2>5. QED
    BY <2>2, <2>3, <2>4
<1> HIDE DEF left, new
<1>6. gd'[p] = new /\ open'[p] = left
  BY <1>3 DEF IbInv, IbType, Function
<1>7. QED
  BY <1>3, <1>4, <1>5, <1>6 DEF IbInv, IbType, Function
(* A kind of connection for each form of address.                          *)
LEMMA Kinds ==
  /\ NoInst.contype = "none"
  /\ \A dev : Serial(dev).contype = "SERIAL" /\ Serial(dev) # NoInst /\ Serial(dev).dev = dev
  BY DEF NoInst, Serial, Inst

(* main_opens of what is not a serial line.                                *)
LEMMA OpensKeeps ==
  ASSUME IbInv, NEW p \in Proc, main_opens(p), opening[p] = "no", inst_init(p, cfi[p].addr)
  PROVE  Keeps(p)
<1>1. /\ gd' = [gd EXCEPT ![p] = gd'[p]] /\ open' = [open EXCEPT ![p] = open'[p]]
      /\ gd'[p].contype # "SERIAL" /\ UNCHANGED <<opening, locker, tio>>
      /\ gd'[p] # NoInst =>
           LET f == Fields[cfi[p].addr] IN
           gd'[p] \in open'[p] /\ open'[p] \subseteq {gd'[p]} \cup Forgotten(f)
           /\ Names(f, gd'[p])
  BY InitKeeps DEF main_opens
<1>2. at[p] = "open" /\ opening'[p] = "no" /\ cfi[p].addr \in DOMAIN Fields
  BY <1>1 DEF main_opens, IbInv, Stage
<1>3. /\ Function(gd', Proc) /\ Function(open', Proc)
      /\ \A q \in Proc \ {p} : gd'[q] = gd[q] /\ open'[q] = open[q]
  BY <1>1 DEF IbInv, IbType, Function
<1>4. CASE gd'[p] # NoInst
  <2>1. at' = [at EXCEPT ![p] = "ready"] /\ code' = code /\ cfi' = cfi
    BY <1>1, <1>2, <1>4 DEF main_opens, Set
  <2>2. IbType' /\ OnlyOwn(p)
    BY <1>1, <1>3, <2>1 DEF IbInv, IbType, OnlyOwn
  <2>3. at'[p] = "ready"
    BY <2>1 DEF IbInv, IbType
  <2>4. Stage(p)' /\ Locking(p)' /\ Line(p)'
    BY <1>1, <1>2, <1>4, <2>1, <2>3 DEF Stage, Locking, Line
  <2>5. Owns(p)'
    BY <1>1, <1>4, <2>1, <2>3 DEF Owns
  <2>6. QED
    BY <2>2, <2>4, <2>5 DEF Keeps
<1>5. CASE gd'[p] = NoInst
  <2>1. Exit(p, 1)
    BY <1>2, <1>5 DEF main_opens
  <2>2. /\ at' \in [Proc -> {"exited", "open", "ready", "args", "shell"}]
        /\ code' \in [Proc -> {0, 1, 128}] /\ Function(cfi', Proc)
        /\ at'[p] = "exited" /\ code'[p] = 1
        /\ \A q \in Proc \ {p} : at'[q] = at[q] /\ code'[q] = code[q] /\ cfi'[q] = cfi[q]
    BY <2>1, Exits DEF IbInv
  <2>3. IbType' /\ OnlyOwn(p)
    BY <1>1, <1>3, <2>2 DEF IbInv, IbType, OnlyOwn
  <2>4. Stage(p)' /\ Locking(p)' /\ Line(p)' /\ Owns(p)'
    BY <1>2, <1>5, <2>2, Kinds DEF Stage, Locking, Line, Owns
  <2>5. QED
    BY <2>3, <2>4 DEF Keeps
<1>6. QED
  BY <1>4, <1>5

(* _init_serial, up to its last step.                                      *)
LEMMA SerialKeeps ==
  ASSUME IbInv, NEW p \in Proc, main_opens(p),
         open_serial(p, cfi[p].addr) \/ lock_serial(p, cfi[p].addr)
  PROVE  Keeps(p)
<1> DEFINE a == cfi[p].addr  dev == Fields[a].dev
<1>1. at[p] = "open" /\ gd[p] = NoInst /\ a \in DOMAIN Fields
  BY DEF main_opens, IbInv, Stage
<1>2. CASE open_serial(p, a)
  <2>1. /\ IsSerial(a) /\ dev \in Tty /\ open' = [open EXCEPT ![p] = {Serial(dev)}]
        /\ opening' = [opening EXCEPT ![p] = "lock"] /\ UNCHANGED <<gd, locker, tio>>
    BY <1>2 DEF open_serial
  <2>2. opening'[p] = "lock" /\ open'[p] = {Serial(dev)}
    BY <2>1 DEF IbInv, IbType, Function
  <2>3. UNCHANGED <<at, code, cfi>>
    BY <2>2 DEF main_opens, procVars
  <2>4. IbType' /\ OnlyOwn(p)
    BY <2>1, <2>3 DEF IbInv, IbType, Function, OnlyOwn
  <2>5. Stage(p)' /\ Locking(p)' /\ Line(p)' /\ Owns(p)'
    BY <1>1, <2>1, <2>2, <2>3, Kinds DEF Stage, Locking, Line, Owns
  <2>6. QED
    BY <2>4, <2>5 DEF Keeps
<1>3. CASE lock_serial(p, a)
  <2>1. /\ opening[p] = "lock" /\ locker[dev] = NoProc
        /\ locker' = [locker EXCEPT ![dev] = p] /\ opening' = [opening EXCEPT ![p] = "set"]
        /\ UNCHANGED <<gd, open, tio>>
    BY <1>3 DEF lock_serial, MayLock
  <2>2. IsSerial(a) /\ dev \in Tty /\ open[p] = {Serial(dev)}
    BY <2>1 DEF IbInv, Locking
  <2>3. opening'[p] = "set" /\ locker'[dev] = p
    BY <2>1, <2>2 DEF IbInv, IbType
  <2>4. UNCHANGED <<at, code, cfi>>
    BY <2>3 DEF main_opens, procVars
  <2>5. NoProc \notin Proc
    BY InstInitAssumption
  <2>6. IbType'
    BY <2>1, <2>4 DEF IbInv, IbType
  <2>7. OnlyOwn(p)
    BY <2>1, <2>4, <2>5 DEF IbInv, IbType, OnlyOwn
  <2>8. Stage(p)' /\ Locking(p)' /\ Line(p)' /\ Owns(p)'
    BY <1>1, <2>1, <2>2, <2>3, <2>4, Kinds DEF Stage, Locking, Line, Owns
  <2>9. QED
    BY <2>6, <2>7, <2>8 DEF Keeps
<1>4. QED
  BY <1>2, <1>3

(* The settings of a line are what its address asks for.                   *)
LEMMA SettingsOf ==
  ASSUME NEW t, NEW f
  PROVE  LET s == Settings(t, f) IN
         /\ Termios(s)
         /\ s.line = SubSeq(f, 1, 4) /\ ~s.canon
         /\ f[5] = "X" => s.xonxoff
         /\ f[5] = "H" => s.rtscts
         /\ f[5] = "N" => ~s.xonxoff /\ ~s.rtscts
  BY DEF Settings, Termios

(* The last step of _init_serial, and of main_opens.                       *)
LEMMA SetKeeps ==
  ASSUME IbInv, NEW p \in Proc, main_opens(p), set_serial(p, cfi[p].addr)
  PROVE  Keeps(p)
<1> DEFINE a == cfi[p].addr  dev == Fields[a].dev  f == Flags(Fields[a].sfx)
           s == Settings(tio[dev], f)
<1>1. at[p] = "open" /\ gd[p] = NoInst /\ a \in DOMAIN Fields
  BY DEF main_opens, IbInv, Stage
<1>2. /\ opening[p] = "set" /\ tio' = [tio EXCEPT ![dev] = s]
      /\ gd' = [gd EXCEPT ![p] = Serial(dev)] /\ opening' = [opening EXCEPT ![p] = "no"]
      /\ UNCHANGED <<open, locker>>
  BY DEF set_serial, NewInst
<1>3. IsSerial(a) /\ dev \in Tty /\ open[p] = {Serial(dev)} /\ locker[dev] = p
  BY <1>2 DEF IbInv, Locking
<1>4. /\ Termios(s)
      /\ s.line = SubSeq(f, 1, 4) /\ ~s.canon
      /\ f[5] = "X" => s.xonxoff
      /\ f[5] = "H" => s.rtscts
      /\ f[5] = "N" => ~s.xonxoff /\ ~s.rtscts
  BY SettingsOf
<1> HIDE DEF s, f, dev, a
<1>5. gd'[p] = Serial(dev) /\ opening'[p] = "no" /\ tio'[dev] = s
  BY <1>2, <1>3 DEF IbInv, IbType, Function
<1>6. at' = [at EXCEPT ![p] = "ready"] /\ code' = code /\ cfi' = cfi
  BY <1>5, Kinds DEF main_opens, Set
<1>7. at'[p] = "ready"
  BY <1>6 DEF IbInv, IbType
<1>8. Function(gd', Proc) /\ Function(tio', Tty) /\ \A d \in Tty \ {dev} : tio'[d] = tio[d]
  BY <1>2, <1>3 DEF IbInv, IbType, Function
<1>9. IbType'
  <2>1. \A d \in Tty : Termios(tio'[d])
    BY <1>4, <1>5, <1>8 DEF IbInv, IbType
  <2>2. QED
    BY <1>2, <1>6, <1>8, <2>1 DEF IbInv, IbType
<1>10. OnlyOwn(p)
  BY <1>2, <1>3, <1>6, <1>8 DEF IbInv, IbType, Function, OnlyOwn
<1>11. Stage(p)' /\ Locking(p)'
  BY <1>1, <1>5, <1>6, <1>7, Kinds DEF Stage, Locking, a
<1>12. Line(p)'
  BY <1>2, <1>3, <1>4, <1>5, <1>6, <1>7 DEF Line, a, f, dev
<1>13. Owns(p)'
  BY <1>2, <1>3, <1>5, <1>6, <1>7 DEF Owns, Names, Documented, IsSerial, a, dev
<1>14. QED
  BY <1>9, <1>10, <1>11, <1>12, <1>13 DEF Keeps
(* A line that becomes canonical is otherwise as it was.                   *)
LEMMA Canonical ==
  ASSUME NEW s, Termios(s), NEW t, t = [s EXCEPT !.canon = TRUE]
  PROVE  Termios(t) /\ t.canon = TRUE /\ t.line = s.line /\ t.xonxoff = s.xonxoff
         /\ t.rtscts = s.rtscts
<1>1. PICK l, x, r, c : s \in [line : {l}, xonxoff : {x}, rtscts : {r}, canon : {c}]
  BY DEF Termios
<1>2. t \in [line : {l}, xonxoff : {x}, rtscts : {r}, canon : {TRUE}]
  BY <1>1
<1>3. QED
  BY <1>1, <1>2 DEF Termios

(* The flag of the configuration file is set on the instrument.            *)
LEMMA ProceedsKeeps ==
  ASSUME IbInv, NEW p \in Proc, NEW av \in Argv, Proceeds(p, av)
  PROVE  Keeps(p)
<1> DEFINE dev == gd[p].dev
           t == [tio[dev] EXCEPT !.canon = TRUE]
<1>1. /\ at[p] = "ready" /\ UNCHANGED <<code, cfi, gd, opening, open, locker>>
      /\ at' = [at EXCEPT ![p] = IF av = <<>> THEN "shell" ELSE "args"]
      /\ tio' = IF cfi[p].reos /\ gd[p].contype = "SERIAL" THEN [tio EXCEPT ![dev].canon = TRUE]
                ELSE tio
  BY DEF Proceeds, Set, inst_set_reos, instVars, _canon_serial
<1>2. at'[p] \in {"args", "shell"} /\ \A q \in Proc \ {p} : at'[q] = at[q]
  BY <1>1 DEF IbInv, IbType
<1>3. at' \in [Proc -> {"exited", "open", "ready", "args", "shell"}]
  BY <1>1 DEF IbInv, IbType
<1>4. Stage(p)' /\ Locking(p)' /\ (Owns(p) => Owns(p)')
  <2>1. Stage(p)'
    BY <1>1, <1>2 DEF IbInv, Stage
  <2>2. Locking(p)'
    BY <1>1 DEF IbInv, Locking
  <2>3. Owns(p) => Owns(p)'
    BY <1>1, <1>2 DEF Owns
  <2>4. QED
    BY <2>1, <2>2, <2>3
<1>5. CASE cfi[p].reos /\ gd[p].contype = "SERIAL"
  <2>1. dev = Fields[cfi[p].addr].dev /\ dev \in Tty /\ locker[dev] = p
    <3>1. Line(p)
      BY DEF IbInv
    <3>2. /\ Fields[cfi[p].addr].dev \in Tty /\ gd[p] = Serial(Fields[cfi[p].addr].dev)
          /\ locker[Fields[cfi[p].addr].dev] = p
      BY <1>5, <3>1 DEF Line
    <3>3. QED
      BY <3>2, Kinds
  <2>2. /\ Termios(t) /\ t.canon = TRUE
        /\ t.line = tio[dev].line /\ t.xonxoff = tio[dev].xonxoff /\ t.rtscts = tio[dev].rtscts
    <3>1. Termios(tio[dev])
      BY <2>1 DEF IbInv, IbType
    <3>2. QED
      BY <3>1, Canonical
  <2>3. tio' = [tio EXCEPT ![dev] = t]
    BY <1>1, <1>5
  <2> HIDE DEF t, dev
  <2>4. Function(tio', Tty) /\ tio'[dev] = t /\ \A d \in Tty \ {dev} : tio'[d] = tio[d]
    BY <2>1, <2>3 DEF IbInv, IbType, Function
  <2>5. \A d \in Tty : Termios(tio'[d])
    BY <2>2, <2>4 DEF IbInv, IbType
  <2>6. IbType'
    BY <1>1, <1>3, <2>4, <2>5 DEF IbInv, IbType
  <2>7. OnlyOwn(p)
    BY <1>1, <1>2, <2>1, <2>4 DEF OnlyOwn
  <2>8. Line(p)'
    <3>1. Line(p)
      BY DEF IbInv
    <3>2. tio'[Fields[cfi[p].addr].dev] = t
      BY <2>1, <2>4
    <3>3. t.canon <=> at'[p] \in {"args", "shell"} /\ cfi[p].reos
      BY <1>2, <1>5, <2>2
    <3>4. /\ cfi' = cfi /\ gd' = gd /\ open' = open /\ locker' = locker
          /\ tio[Fields[cfi[p].addr].dev] = tio[dev]
      BY <1>1, <2>1
    <3>5. QED
      BY <2>2, <3>1, <3>2, <3>3, <3>4 DEF Line
  <2>9. QED
    BY <1>4, <2>6, <2>7, <2>8 DEF Keeps
<1>6. CASE ~(cfi[p].reos /\ gd[p].contype = "SERIAL")
  <2>1. tio' = tio
    BY <1>1, <1>6
  <2>2. IbType' /\ OnlyOwn(p)
    BY <1>1, <1>2, <1>3, <2>1 DEF IbInv, IbType, OnlyOwn
  <2>3. Line(p)'
    <3>1. Line(p) /\ at[p] \notin {"args", "shell"}
      BY <1>1 DEF IbInv
    <3>2. QED
      BY <1>1, <1>2, <1>6, <2>1, <3>1 DEF Line
  <2>4. QED
    BY <1>4, <2>2, <2>3 DEF Keeps
<1>7. QED
  BY <1>5, <1>6

(* What a program does with its instrument changes none of this.           *)
LEMMA QuietKeeps ==
  ASSUME IbInv, NEW p \in Proc, UNCHANGED <<procVars, instVars>>
  PROVE  Keeps(p)
<1>1. IbType' /\ OnlyOwn(p)
  BY DEF IbInv, IbType, OnlyOwn, procVars, instVars
<1>2. Stage(p)' /\ Locking(p)' /\ Line(p)' /\ (Owns(p) => Owns(p)')
  BY DEF IbInv, Stage, Locking, Line, Owns, procVars, instVars
<1>3. QED
  BY <1>1, <1>2 DEF Keeps

(* Every step of a program.                                                *)
LEMMA ProgramKeeps ==
  ASSUME IbInv, NEW p \in Proc, Program(p)
  PROVE  Keeps(p)
<1>1. ASSUME NEW files \in Files, NEW name \in Name, main(p, files, name) PROVE Keeps(p)
  BY <1>1, MainKeeps
<1>2. ASSUME NEW files \in Files, NEW name \in Name, not_configured(p, files, name)
      PROVE  Keeps(p)
  BY <1>2, EndKeeps DEF not_configured
<1>3. CASE main_opens(p)
  <2>1. \/ opening[p] = "no" /\ inst_init(p, cfi[p].addr)
        \/ open_serial(p, cfi[p].addr) \/ lock_serial(p, cfi[p].addr)
        \/ set_serial(p, cfi[p].addr)
    BY <1>3 DEF main_opens
  <2>2. QED
    BY <1>3, <2>1, OpensKeeps, SerialKeeps, SetKeeps
<1>4. CASE main_opens_fails(p)
  <2>1. gd[p] = NoInst
    BY <1>4 DEF main_opens_fails, IbInv, Stage
  <2>2. QED
    BY <1>4, <2>1, EndKeeps DEF main_opens_fails
<1>5. ASSUME NEW av \in Argv, Proceeds(p, av) PROVE Keeps(p)
  BY <1>5, ProceedsKeeps
<1>6. ASSUME NEW line \in Typed, xreadline(p, line) PROVE Keeps(p)
  BY <1>6, QuietKeeps DEF xreadline
<1>7. CASE next_argument(p) \/ at_eof(p) \/ message(p) \/ message_lost(p)
  BY <1>7, QuietKeeps DEF next_argument, at_eof, message, message_lost
<1>8. CASE status_killed(p)
  BY <1>8, EndKeeps DEF status_killed
<1>9. CASE message_fails(p)
  BY <1>9, EndKeeps DEF message_fails
<1>10. CASE main_ends(p)
  <2>1. Exit(p, 0) /\ inst_fini(p) /\ at[p] \in {"args", "shell"}
    BY <1>10 DEF main_ends, Prompts
  <2>2. gd[p] # NoInst
    BY <2>1 DEF IbInv, Stage
  <2>3. Owns(p) => \A i \in open[p] \ {gd[p]} : i.contype = "GPIB"
    <3>1. \A f : \A i \in Forgotten(f) : i.contype = "GPIB"
      BY DEF Forgotten, Gpib, Inst
    <3>2. QED
      BY <2>2, <3>1 DEF Owns
  <2>4. QED
    BY <2>1, <2>3, EndKeeps
<1>11. QED
  BY <1>1, <1>2, <1>3, <1>4, <1>5, <1>6, <1>7, <1>8, <1>9, <1>10 DEF Program
-----------------------------------------------------------------------------
IbOwns == \A p \in Proc : Owns(p)

(* No program has started.                                                 *)
LEMMA InitIb == IbInit => IbInv /\ IbOwns
<1> SUFFICES ASSUME IbInit PROVE IbInv /\ IbOwns
  OBVIOUS
<1> DEFINE s == Settings([xonxoff |-> FALSE, rtscts |-> FALSE], Default)
<1>1. /\ gd = [p \in Proc |-> NoInst] /\ opening = [p \in Proc |-> "no"]
      /\ open = [p \in Proc |-> {}] /\ locker = [dev \in Tty |-> NoProc]
      /\ tio \in [Tty -> {s}]
      /\ at = [p \in Proc |-> "exited"] /\ code = [p \in Proc |-> 0]
      /\ cfi = [p \in Proc |-> New]
  BY DEF IbInit, Init
<1>2. Termios(s)
  BY SettingsOf
<1> HIDE DEF s
<1>3. IbType
  BY <1>1, <1>2 DEF IbType, Function
<1>4. \A p \in Proc : Stage(p) /\ Locking(p) /\ Line(p) /\ Owns(p)
  BY <1>1, Kinds DEF Stage, Locking, Line, Owns
<1>5. QED
  BY <1>3, <1>4 DEF IbInv, IbOwns

(* A step of one program keeps the invariant of all.                       *)
LEMMA NextIb ==
  IbInv /\ IbOwns /\ [Next]_vars => IbInv' /\ IbOwns'
<1> SUFFICES ASSUME IbInv, IbOwns, [Next]_vars PROVE IbInv' /\ IbOwns'
  OBVIOUS
<1>1. ASSUME NEW p \in Proc, Program(p) PROVE IbInv' /\ IbOwns'
  <2>1. Keeps(p)
    BY <1>1, ProgramKeeps DEF IbOwns
  <2>2. ASSUME NEW q \in Proc \ {p}
        PROVE  Stage(q)' /\ Locking(q)' /\ Line(q)' /\ (Owns(q) => Owns(q)')
    BY <2>1, OthersKeep DEF Keeps
  <2>3. \A q \in Proc : Stage(q)' /\ Locking(q)' /\ Line(q)'
    BY <2>1, <2>2 DEF Keeps
  <2>4. IbInv'
    BY <2>1, <2>3 DEF IbInv, Keeps
  <2>5. \A q \in Proc : Owns(q)'
    BY <2>1, <2>2 DEF Keeps, IbOwns
  <2>6. QED
    BY <2>4, <2>5 DEF IbOwns
<1>2. CASE UNCHANGED vars
  <2>1. UNCHANGED <<procVars, instVars>>
    BY <1>2 DEF vars
  <2>2. IbType'
    BY <2>1 DEF IbOwns, IbInv, IbType, Function, Termios, procVars, instVars
  <2>3. ASSUME NEW p \in Proc
        PROVE  Stage(p)' /\ Locking(p)' /\ Line(p)' /\ (Owns(p) => Owns(p)')
    <3>1. Stage(p) /\ Locking(p) /\ Line(p)
      BY DEF IbOwns, IbInv
    <3>2. Stage(p)' /\ Locking(p)'
      BY <2>1, <3>1 DEF Stage, Locking, procVars, instVars
    <3>3. Line(p)'
      BY <2>1, <3>1 DEF Line, procVars, instVars
    <3>4. Owns(p) => Owns(p)'
      BY <2>1 DEF Owns, procVars, instVars
    <3>5. QED
      BY <3>2, <3>3, <3>4
  <2>4. QED
    BY <2>2, <2>3 DEF IbOwns, IbInv
<1>3. QED
  BY <1>1, <1>2 DEF Next

(* IbInv is an invariant.                                                  *)
THEOREM IbInvariance == Spec => [](IbInv /\ IbOwns)
<1>1. IbInit => IbInv /\ IbOwns
  BY InitIb
<1>2. IbInv /\ IbOwns /\ [Next]_vars => (IbInv /\ IbOwns)'
  BY NextIb
<1>3. QED
  BY <1>1, <1>2, PTL DEF Spec

(* inst.c:_init_serial: two programs never use one serial line, and its    *)
(* settings are those of the address of the program that does.             *)
THEOREM SettingsAreOwn == Spec => []OwnSettings
<1>1. IbInv => OwnSettings
  <2> SUFFICES ASSUME IbInv, NEW p \in Proc, gd[p].contype = "SERIAL"
               PROVE  LET f == Flags(Fields[cfi[p].addr].sfx)  t == tio[gd[p].dev] IN
                      /\ \A q \in Proc \ {p} : gd[q] # gd[p]
                      /\ t.line = SubSeq(f, 1, 4)
                      /\ f[5] = "X" => t.xonxoff
                      /\ f[5] = "H" => t.rtscts
                      /\ f[5] = "N" => ~t.xonxoff /\ ~t.rtscts
                      /\ at[p] \in {"args", "shell"} => (t.canon <=> cfi[p].reos)
    BY DEF OwnSettings
  <2> DEFINE dev == Fields[cfi[p].addr].dev
  <2>1. Line(p) /\ gd[p] = Serial(dev) /\ gd[p].dev = dev /\ locker[dev] = p
    <3>1. Line(p)
      BY DEF IbInv
    <3>2. gd[p] = Serial(dev) /\ locker[dev] = p
      BY <3>1 DEF Line
    <3>3. QED
      BY <3>1, <3>2, Kinds
  <2>2. ASSUME NEW q \in Proc \ {p}, gd[q] = gd[p] PROVE FALSE
    <3>1. gd[q] = Serial(Fields[cfi[q].addr].dev) /\ locker[Fields[cfi[q].addr].dev] = q
      BY <2>2 DEF IbInv, Line
    <3>2. Fields[cfi[q].addr].dev = dev
      BY <2>1, <2>2, <3>1, Kinds
    <3>3. QED
      BY <2>1, <3>1, <3>2
  <2>3. QED
    BY <2>1, <2>2 DEF Line
<1>2. QED
  BY <1>1, IbInvariance, PTL

(* inst.c:inst_init opens the instrument that the address names, for every *)
(* form of address but the two of OpensAsNamed.                            *)
THEOREM NamesWhatItOpens == Spec => []OpensAsNamed
<1>1. IbOwns => OpensAsNamed
  BY DEF IbOwns, Owns, Names, OpensAsNamed
<1>2. QED
  BY <1>1, IbInvariance, PTL

(* inst.c:inst_fini: a program has open the instrument it uses, at most    *)
(* the one handle beside it that inst_init forgot, and nothing once it has *)
(* ended well.                                                             *)
THEOREM NothingStaysOpen == Spec => []Accounted
<1>1. IbOwns => Accounted
  BY DEF IbOwns, Owns, Accounted
<1>2. QED
  BY <1>1, IbInvariance, PTL
-----------------------------------------------------------------------------
(* What LookupRight says of one program.                                   *)
Looked(p) ==
    at[p] = "open" /\ (conf[p].files[1] = Unset \/ Good(conf[p].files[1])) =>
        \E i \in 1 .. 3 :
            /\ Good(conf[p].files[i]) /\ \A j \in 1 .. i - 1 : ~Good(conf[p].files[j])
            /\ cfi[p] = Means(conf[p].files[i], conf[p].name)
LookInv == Function(conf, Proc) /\ \A p \in Proc : Looked(p)

(* What a step of p does to what LookupRight is about.                     *)
LookKeeps(p) ==
    /\ Function(conf', Proc) /\ Looked(p)'
    /\ \A q \in Proc \ {p} : at'[q] = at[q] /\ cfi'[q] = cfi[q] /\ conf'[q] = conf[q]

(* The end of a program.                                                   *)
LEMMA ExitLooks ==
  ASSUME IbType, LookInv, NEW p \in Proc, NEW n, Exit(p, n)
  PROVE  LookKeeps(p)
  BY DEF IbType, LookInv, Function, Exit, Set, LookKeeps, Looked

(* Every step of a program.                                                *)
LEMMA ProgramLooks ==
  ASSUME IbType, LookInv, NEW p \in Proc, Program(p)
  PROVE  LookKeeps(p)
<1>1. ASSUME NEW files \in Files, NEW name \in Name, main(p, files, name) PROVE LookKeeps(p)
  <2> DEFINE cf == cf_create_default(files[1], files[2], files[3])
             given == [files |-> files, name |-> name]
  <2>1. cf # NULL /\ Configured(cf, name)
    BY <1>1 DEF main
  <2>2. \E i \in 1 .. 3 :
            /\ Good(files[i]) /\ \A j \in 1 .. i - 1 : ~Good(files[j])
            /\ cf_lookup(cf, name) = Means(files[i], name)
    BY <2>1, DefaultMeans
  <2>3. /\ at' = [at EXCEPT ![p] = "open"] /\ cfi' = [cfi EXCEPT ![p] = cf_lookup(cf, name)]
        /\ conf' = [conf EXCEPT ![p] = given]
    BY <1>1 DEF main, Set
  <2>4. given.files = files /\ given.name = name
    OBVIOUS
  <2> HIDE DEF cf, given
  <2>5. /\ cfi'[p] = cf_lookup(cf, name) /\ conf'[p] = given /\ Function(conf', Proc)
        /\ \A q \in Proc \ {p} : at'[q] = at[q] /\ cfi'[q] = cfi[q] /\ conf'[q] = conf[q]
    BY <2>3 DEF IbType, LookInv, Function
  <2>6. Looked(p)'
    BY <2>2, <2>4, <2>5, Zenon DEF Looked
  <2>7. QED
    BY <2>5, <2>6 DEF LookKeeps
<1>2. ASSUME NEW n, Exit(p, n) PROVE LookKeeps(p)
  BY <1>2, ExitLooks
<1>3. CASE UNCHANGED procVars
  BY <1>3 DEF procVars, LookInv, LookKeeps, Looked, Function
<1>4. CASE main_opens(p)
  <2>1. CASE at' = Set(at, p, "ready") /\ conf' = Set(conf, p, NoConf) /\ cfi' = cfi
    BY <2>1 DEF IbType, LookInv, Function, Set, LookKeeps, Looked
  <2>2. QED
    BY <1>2, <1>3, <1>4, <2>1 DEF main_opens
<1>5. ASSUME NEW av \in Argv, Proceeds(p, av) PROVE LookKeeps(p)
  <2>1. /\ at' = [at EXCEPT ![p] = IF av = <<>> THEN "shell" ELSE "args"]
        /\ cfi' = cfi /\ conf' = conf
    BY <1>5 DEF Proceeds, Set
  <2>2. QED
    BY <2>1 DEF IbType, LookInv, Function, LookKeeps, Looked
<1>6. QED
  BY <1>1, <1>2, <1>3, <1>4, <1>5 DEF Program, not_configured, main_opens_fails, xreadline,
     next_argument, at_eof, status_killed, message, message_lost, message_fails, main_ends

(* configfile.c:cf_create_default, ini.c:ini_parse_file: the address and   *)
(* the flags a program is about to use are what the first file that can be *)
(* used says of its instrument, if GPIB_UTILS_CONF is not set or names a   *)
(* file that can be used.                                                  *)
THEOREM LooksUpRight == Spec => []LookupRight
<1>1. IbInit => LookInv
  BY DEF IbInit, LookInv, Looked, Function
<1>2. ASSUME IbInv, LookInv, [Next]_vars PROVE LookInv'
  <2>1. ASSUME NEW p \in Proc, Program(p) PROVE LookInv'
    <3>1. LookKeeps(p)
      BY <1>2, <2>1, ProgramLooks DEF IbInv
    <3>2. ASSUME NEW q \in Proc \ {p} PROVE Looked(q)'
      BY <1>2, <3>1 DEF LookInv, LookKeeps, Looked
    <3>3. QED
      BY <3>1, <3>2 DEF LookInv, LookKeeps
  <2>2. CASE UNCHANGED vars
    BY <1>2, <2>2 DEF vars, procVars, LookInv, Looked, Function
  <2>3. QED
    BY <1>2, <2>1, <2>2 DEF Next
<1>3. LookInv => LookupRight
  BY DEF LookInv, Looked, LookupRight
<1>4. IbInv /\ LookInv /\ [Next]_vars => LookInv'
  BY <1>2
<1>5. Spec => []IbInv
  BY IbInvariance, PTL
<1>6. QED
  BY <1>1, <1>3, <1>4, <1>5, PTL DEF Spec
-----------------------------------------------------------------------------
(* The recursive function of IsArg exists, for each length.                *)
Marking(g, av, n) == g = [i \in 0 .. n |-> i > 1 /\ ~g[i - 1] /\ av[i - 1] \in TakesArg]

(* There is such a function.                                               *)
LEMMA Marks ==
  ASSUME NEW av, NEW n \in Nat
  PROVE  \E g : Marking(g, av, n)
<1> DEFINE S == {m \in Nat : \E g : Marking(g, av, m)}
<1>1. 0 \in S
  <2> DEFINE g == [i \in 0 .. 0 |-> FALSE]
  <2>1. Marking(g, av, 0)
    <3>1. \A i \in 0 .. 0 : (i > 1 /\ ~g[i - 1] /\ av[i - 1] \in TakesArg) = FALSE
      OBVIOUS
    <3>2. QED
      BY <3>1, Zenon DEF Marking
  <2>2. QED
    BY <2>1
<1>2. ASSUME NEW m \in Nat, m \in S PROVE m + 1 \in S
  <2>1. PICK g : Marking(g, av, m)
    BY <1>2
  <2> DEFINE h == [i \in 0 .. m + 1 |->
                     IF i = m + 1 THEN m + 1 > 1 /\ ~g[m] /\ av[m] \in TakesArg ELSE g[i]]
  <2>2. ASSUME NEW i \in 0 .. m + 1
        PROVE  h[i] = (i > 1 /\ ~h[i - 1] /\ av[i - 1] \in TakesArg)
    <3>1. CASE i = m + 1
      BY <3>1
    <3>2. CASE i # m + 1
      <4>1. i \in 0 .. m /\ h[i] = g[i] /\ (i > 1 => i - 1 \in 0 .. m + 1 /\ i - 1 # m + 1)
        BY <3>2
      <4>2. i > 1 => h[i - 1] = g[i - 1]
        BY <4>1
      <4>3. g[i] = (i > 1 /\ ~g[i - 1] /\ av[i - 1] \in TakesArg)
        BY <2>1, <4>1 DEF Marking
      <4> HIDE DEF h
      <4>4. QED
        BY <4>1, <4>2, <4>3
    <3>3. QED
      BY <3>1, <3>2
  <2>3. Marking(h, av, m + 1)
    BY <2>2 DEF Marking
  <2>4. QED
    BY <2>3
<1>3. \A m \in Nat : m \in S
  <2> HIDE DEF S
  <2>1. QED
    BY <1>1, <1>2, Induction
<1>4. QED
  BY <1>3

(* Which words are arguments, word by word.                                *)
LEMMA ArgAt ==
  ASSUME NEW av, Len(av) \in Nat, NEW i \in 0 .. Len(av)
  PROVE  IsArg(av)[i] <=> (i > 1 /\ ~IsArg(av)[i - 1] /\ av[i - 1] \in TakesArg)
<1> DEFINE arg == CHOOSE g : g = [j \in 0 .. Len(av) |->
                                    j > 1 /\ ~g[j - 1] /\ av[j - 1] \in TakesArg]
<1>1. IsArg(av) = arg
  BY DEF IsArg
<1>2. Marking(arg, av, Len(av))
  <2>1. \E g : Marking(g, av, Len(av))
    BY Marks
  <2>2. QED
    BY <2>1, Zenon DEF Marking
<1> HIDE DEF arg
<1>3. arg[i] = (i > 1 /\ ~arg[i - 1] /\ av[i - 1] \in TakesArg)
  BY <1>2 DEF Marking
<1>4. QED
  BY <1>1, <1>3

(* Concatenation, as an operator of two sequences.                         *)
Cat(s, t) == s \o t

(* Its type ...                                                            *)
LEMMA CatType ==
  ASSUME NEW S, NEW s \in Seq(S), NEW t \in Seq(S)
  PROVE  Cat(s, t) \in Seq(S)
  BY DEF Cat

(* ... and that parts may be put together in any order.                    *)
LEMMA CatAssociative ==
  ASSUME NEW S, NEW s \in Seq(S), NEW t \in Seq(S), NEW u \in Seq(S)
  PROVE  Cat(Cat(s, t), u) = Cat(s, Cat(t, u))
  BY ConcatAssociative DEF Cat

(* The same for FlattenSeq.                                                *)
Flattening(g, seqs, n) ==
    g = [i \in 1 .. n |-> IF i = 1 THEN seqs[i] ELSE Cat(g[i - 1], seqs[i])]

(* It exists for each length ...                                           *)
LEMMA Flattens ==
  ASSUME NEW seqs, NEW n \in Nat
  PROVE  \E g : Flattening(g, seqs, n)
<1> DEFINE S == {m \in Nat : \E g : Flattening(g, seqs, m)}
<1>1. 0 \in S
  <2>1. Flattening([i \in 1 .. 0 |-> <<>>], seqs, 0)
    BY DEF Flattening
  <2>2. QED
    BY <2>1
<1>2. ASSUME NEW m \in Nat, m \in S PROVE m + 1 \in S
  <2>1. PICK g : Flattening(g, seqs, m)
    BY <1>2
  <2> DEFINE h == [i \in 1 .. m + 1 |->
                     IF i = m + 1 /\ i # 1 THEN Cat(g[m], seqs[m + 1])
                     ELSE IF i = 1 THEN seqs[1] ELSE g[i]]
  <2>2. ASSUME NEW i \in 1 .. m + 1
        PROVE  h[i] = IF i = 1 THEN seqs[i] ELSE Cat(h[i - 1], seqs[i])
    <3>1. ASSUME NEW j \in 1 .. m
          PROVE  h[j] = g[j] /\ g[j] = IF j = 1 THEN seqs[j] ELSE Cat(g[j - 1], seqs[j])
      <4>1. g[j] = IF j = 1 THEN seqs[j] ELSE Cat(g[j - 1], seqs[j])
        BY <2>1, Zenon DEF Flattening
      <4>2. j \in 1 .. m + 1 /\ j # m + 1
        OBVIOUS
      <4>3. h[j] = IF j = 1 THEN seqs[1] ELSE g[j]
        BY <4>2
      <4> HIDE DEF h
      <4>4. QED
        BY <4>1, <4>3
    <3>2. CASE i = 1
      BY <3>2
    <3>3. CASE i = m + 1 /\ i # 1
      <4>1. m \in 1 .. m /\ i - 1 = m
        BY <3>3
      <4>3. h[i] = Cat(g[m], seqs[i])
        BY <3>3
      <4>2. h[m] = g[m]
        BY <3>1, <4>1
      <4> HIDE DEF h
      <4>4. QED
        BY <3>3, <4>1, <4>2, <4>3
    <3>4. CASE i # m + 1 /\ i # 1
      <4>1. i \in 1 .. m /\ i - 1 \in 1 .. m
        BY <3>4
      <4> HIDE DEF h
      <4>2. QED
        BY <3>1, <3>4, <4>1
    <3>5. QED
      BY <3>2, <3>3, <3>4
  <2>3. Flattening(h, seqs, m + 1)
    BY <2>2 DEF Flattening
  <2>4. QED
    BY <2>3
<1>3. \A m \in Nat : m \in S
  <2> HIDE DEF S
  <2>1. QED
    BY <1>1, <1>2, Induction
<1>4. QED
  BY <1>3

(* ... and FlattenSeq is its last value.                                   *)
LEMMA FlatIs ==
  ASSUME NEW seqs, Len(seqs) \in Nat
  PROVE  /\ Len(seqs) = 0 => FlattenSeq(seqs) = seqs
         /\ Len(seqs) # 0 =>
              \E g : Flattening(g, seqs, Len(seqs)) /\ FlattenSeq(seqs) = g[Len(seqs)]
<1> DEFINE flat == CHOOSE g : g = [i \in 1 .. Len(seqs) |->
                                     IF i = 1 THEN seqs[i] ELSE Cat(g[i - 1], seqs[i])]
<1>1. FlattenSeq(seqs) = IF Len(seqs) = 0 THEN seqs ELSE flat[Len(seqs)]
  BY Zenon DEF FlattenSeq, Cat
<1>2. Flattening(flat, seqs, Len(seqs))
  <2>1. \E g : Flattening(g, seqs, Len(seqs))
    BY Flattens
  <2>2. QED
    BY <2>1, Zenon DEF Flattening
<1> HIDE DEF flat
<1>3. QED
  BY <1>1, <1>2

-----------------------------------------------------------------------------
(* A string, the empty one among them.                                     *)
Word == STRING \cup {""}

(* What a command sends, and to whom it is passed.                         *)
Message == {"read", "write", "loc", "clr", "rsp"} \X Word

(* What word i of av sends: nothing if it is an argument, or lacks one.    *)
Piece(av, i) ==
    CASE IsArg(av)[i] -> <<>>
      [] ~IsArg(av)[i] /\ av[i] \notin TakesArg -> Messages(av[i], "")
      [] ~IsArg(av)[i] /\ av[i] \in TakesArg /\ i < Len(av) -> Messages(av[i], av[i + 1])
      [] OTHER -> <<>>
Pieces(av) == [i \in 1 .. Len(av) |-> Piece(av, i)]

(* What a command sends are messages ...                                   *)
LEMMA MessagesType ==
  ASSUME NEW word \in Word, NEW arg \in Word
  PROVE  Messages(word, arg) \in Seq(Message)
<1>1. \A text \in Word :
        {<<"read", "">>, <<"write", text>>, <<"loc", "">>, <<"clr", "">>, <<"rsp", "">>}
            \subseteq Message
  <2>1. "" \in Word
    BY Zenon DEF Word
  <2>2. ASSUME NEW e \in Word
        PROVE  {<<"read", e>>, <<"write", e>>, <<"loc", e>>, <<"clr", e>>, <<"rsp", e>>}
                  \subseteq Message
    BY DEF Message
  <2>3. QED
    BY <2>1, <2>2, Zenon
<1>2. \A m \in Message : <<m>> \in Seq(Message)
  OBVIOUS
<1>3. \A m, n \in Message : <<m, n>> \in Seq(Message)
  OBVIOUS
<1>4. <<>> \in Seq(Message)
  OBVIOUS
<1>5. \A text \in Word : Query(text) \in Seq(Message)
  BY <1>1, <1>3 DEF Query
<1>6. \A text \in Word : <<<<"write", text>>>> \in Seq(Message)
  BY <1>1, <1>2
<1>7. /\ <<<<"loc", "">>>> \in Seq(Message) /\ <<<<"clr", "">>>> \in Seq(Message)
      /\ <<<<"read", "">>>> \in Seq(Message) /\ <<<<"rsp", "">>>> \in Seq(Message)
  BY <1>1, <1>2
<1>8. QED
  BY <1>4, <1>5, <1>6, <1>7 DEF Messages

(* The words of an argument list.                                          *)
LEMMA InWords ==
  ASSUME NEW av \in Seq(STRING)
  PROVE  "" \in Word /\ \A i \in 1 .. Len(av) : av[i] \in Word
<1>1. \A i \in 1 .. Len(av) : av[i] \in STRING
  OBVIOUS
<1>2. QED
  BY <1>1, Zenon DEF Word

(* ... as is what any word of it sends ...                                 *)
LEMMA PieceType ==
  ASSUME NEW av \in Seq(STRING), NEW i \in 1 .. Len(av)
  PROVE  Piece(av, i) \in Seq(Message)
<1>1. av[i] \in Word /\ (i < Len(av) => av[i + 1] \in Word) /\ "" \in Word
  <2>1. i \in 1 .. Len(av) /\ (i < Len(av) => i + 1 \in 1 .. Len(av))
    OBVIOUS
  <2>2. QED
    BY <2>1, InWords, Zenon
<1>2. <<>> \in Seq(Message)
  OBVIOUS
<1>3. QED
  BY <1>1, <1>2, MessagesType DEF Piece

(* ... and what its first command does.                                    *)
LEMMA SendsType ==
  ASSUME NEW av \in Seq(STRING), av # <<>>
  PROVE  Sends(av) \in Seq(Message)
<1>1. av[1] \in Word /\ (Len(av) >= 2 => av[2] \in Word) /\ "" \in Word
  <2>1. 1 \in 1 .. Len(av) /\ (Len(av) >= 2 => 2 \in 1 .. Len(av))
    OBVIOUS
  <2>2. QED
    BY <2>1, InWords, Zenon
<1>2. <<>> \in Seq(Message)
  OBVIOUS
<1>3. QED
  BY <1>1, <1>2, MessagesType DEF Sends, Complete

(* What is asked for is what each word sends, in their order.              *)
LEMMA AskedIs ==
  ASSUME NEW av
  PROVE  Asked(av) = FlattenSeq(Pieces(av))
  BY DEF Asked, Pieces, Piece

(* rest is seqs without its first k.                                       *)
Behind(S, n, k, seqs, rest) ==
    /\ \A i \in 1 .. n + k : seqs[i] \in Seq(S)
    /\ \A i \in 1 .. n : rest[i] = seqs[i + k]

(* What is flattened is again a sequence of what the parts are made of.    *)
LEMMA FlattenType ==
  ASSUME NEW S, NEW n \in Nat, NEW seqs, \A i \in 1 .. n : seqs[i] \in Seq(S),
         NEW g, Flattening(g, seqs, n)
  PROVE  \A i \in 1 .. n : g[i] \in Seq(S)
<1>1. \A i \in 1 .. n : g[i] = IF i = 1 THEN seqs[i] ELSE Cat(g[i - 1], seqs[i])
  BY Zenon DEF Flattening
<1> DEFINE T == {i \in Nat : i + 1 \in 1 .. n => g[i + 1] \in Seq(S)}
<1>2. 0 \in T
  BY <1>1
<1>3. ASSUME NEW i \in Nat, i \in T PROVE i + 1 \in T
  <2>1. CASE (i + 1) + 1 \in 1 .. n
    <3>1. i + 1 \in 1 .. n /\ g[i + 1] \in Seq(S) /\ seqs[(i + 1) + 1] \in Seq(S)
      BY <1>3, <2>1
    <3>2. g[(i + 1) + 1] = Cat(g[i + 1], seqs[(i + 1) + 1])
      BY <1>1, <2>1
    <3>3. QED
      BY <3>1, <3>2, CatType
  <2>2. QED
    BY <2>1
<1>4. \A i \in Nat : i \in T
  <2> HIDE DEF T
  <2>1. QED
    BY <1>2, <1>3, Induction
<1>5. ASSUME NEW i \in 1 .. n PROVE g[i] \in Seq(S)
  <2>1. i - 1 \in Nat /\ (i - 1) + 1 = i
    OBVIOUS
  <2>2. i - 1 \in T
    BY <1>4, <2>1
  <2>3. QED
    BY <2>1, <2>2
<1>6. QED
  BY <1>5

(* A sequence of parts can be cut: what is flattened up to there, then     *)
(* what is flattened from there on.                                        *)
LEMMA FlattenTail ==
  ASSUME NEW S, NEW n \in Nat, NEW k \in Nat, k # 0, n # 0, NEW seqs, NEW rest,
         Behind(S, n, k, seqs, rest),
         NEW g, NEW h, Flattening(g, seqs, n + k), Flattening(h, rest, n)
  PROVE  g[k] \in Seq(S) /\ h[n] \in Seq(S) /\ g[n + k] = Cat(g[k], h[n])
<1>1. \A i \in 1 .. n + k : g[i] = IF i = 1 THEN seqs[i] ELSE Cat(g[i - 1], seqs[i])
  BY Zenon DEF Flattening
<1>2. \A i \in 1 .. n : h[i] = IF i = 1 THEN rest[i] ELSE Cat(h[i - 1], rest[i])
  BY Zenon DEF Flattening
<1>3. /\ \A i \in 1 .. n + k : seqs[i] \in Seq(S)
      /\ \A i \in 1 .. n : rest[i] = seqs[i + k] /\ rest[i] \in Seq(S)
  <2>1. \A i \in 1 .. n : i + k \in 1 .. n + k
    OBVIOUS
  <2>2. QED
    BY <2>1 DEF Behind
<1>4. g[k] \in Seq(S)
  <2>1. \A i \in 1 .. n + k : g[i] \in Seq(S)
    <3>1. n + k \in Nat
      OBVIOUS
    <3>2. QED
      BY <1>3, <3>1, FlattenType
  <2>2. QED
    BY <2>1
<1> DEFINE T == {i \in Nat : i + 1 \in 1 .. n =>
                    h[i + 1] \in Seq(S) /\ g[(i + 1) + k] = Cat(g[k], h[i + 1])}
<1>5. 0 \in T
  <2>1. h[1] = rest[1] /\ rest[1] = seqs[1 + k] /\ rest[1] \in Seq(S)
    BY <1>2, <1>3
  <2>2. g[1 + k] = Cat(g[k], seqs[1 + k])
    BY <1>1
  <2>3. QED
    BY <2>1, <2>2
<1>6. ASSUME NEW i \in Nat, i \in T PROVE i + 1 \in T
  <2>1. CASE (i + 1) + 1 \in 1 .. n
    <3> DEFINE j == i + 1
    <3>1. j \in 1 .. n /\ h[j] \in Seq(S) /\ g[j + k] = Cat(g[k], h[j])
      BY <1>6, <2>1
    <3>2. h[j + 1] = Cat(h[j], rest[j + 1])
      BY <1>2, <2>1
    <3>3. (j + 1) + k \in 1 .. n + k /\ (j + 1) + k # 1 /\ ((j + 1) + k) - 1 = j + k
      BY <2>1
    <3>4. g[(j + 1) + k] = Cat(g[j + k], seqs[(j + 1) + k])
      BY <1>1, <3>3
    <3>5. rest[j + 1] = seqs[(j + 1) + k] /\ rest[j + 1] \in Seq(S)
      BY <1>3, <2>1
    <3>6. ASSUME NEW a \in Seq(S), NEW b \in Seq(S), NEW c \in Seq(S)
          PROVE  Cat(a, b) \in Seq(S) /\ Cat(Cat(a, b), c) = Cat(a, Cat(b, c))
      BY CatType, CatAssociative
    <3> HIDE DEF j
    <3>7. h[j + 1] \in Seq(S)
      BY <3>1, <3>2, <3>5, <3>6
    <3>8. g[(j + 1) + k] = Cat(g[k], h[j + 1])
      <4>1. Cat(Cat(g[k], h[j]), rest[j + 1]) = Cat(g[k], Cat(h[j], rest[j + 1]))
        BY <1>4, <3>1, <3>5, <3>6
      <4>2. QED
        BY <3>1, <3>2, <3>4, <3>5, <4>1, Zenon
    <3>9. QED
      BY <3>7, <3>8 DEF j
  <2>2. QED
    BY <2>1
<1>7. \A i \in Nat : i \in T
  <2> HIDE DEF T
  <2>1. QED
    BY <1>5, <1>6, Induction
<1>8. n - 1 \in T /\ (n - 1) + 1 = n /\ n \in 1 .. n
  <2> HIDE DEF T
  <2>1. QED
    BY <1>7
<1>9. QED
  BY <1>4, <1>8

(* What FlattenSeq makes of a sequence, in terms of its first k and rest.  *)
LEMMA FlattenFrom ==
  ASSUME NEW n \in Nat, NEW k \in {1, 2}, NEW seqs, NEW rest,
         Behind(Message, n, k, seqs, rest), Len(seqs) = n + k, Len(rest) = n, n = 0 => rest = <<>>
  PROVE  /\ FlattenSeq(rest) \in Seq(Message)
         /\ k = 1 => FlattenSeq(seqs) = Cat(seqs[1], FlattenSeq(rest))
         /\ k = 2 => FlattenSeq(seqs) = Cat(Cat(seqs[1], seqs[2]), FlattenSeq(rest))
<1>1. PICK g : Flattening(g, seqs, n + k) /\ FlattenSeq(seqs) = g[n + k]
  BY FlatIs
<1>2. g[k] = IF k = 1 THEN seqs[1] ELSE Cat(seqs[1], seqs[2])
  <2>1. \A i \in 1 .. n + k : g[i] = IF i = 1 THEN seqs[i] ELSE Cat(g[i - 1], seqs[i])
    BY <1>1, Zenon DEF Flattening
  <2>2. QED
    BY <2>1
<1>3. g[k] \in Seq(Message)
  <2>1. n + k \in Nat /\ k \in 1 .. n + k /\ \A i \in 1 .. n + k : seqs[i] \in Seq(Message)
    BY DEF Behind
  <2>2. QED
    BY <1>1, <2>1, FlattenType
<1>4. CASE n = 0
  <2>1. FlattenSeq(rest) = <<>>
    BY <1>4, FlatIs
  <2>2. Cat(g[k], <<>>) = g[k] /\ <<>> \in Seq(Message)
    BY <1>3, ConcatEmptySeq DEF Cat
  <2>3. QED
    BY <1>1, <1>2, <1>4, <2>1, <2>2
<1>5. CASE n # 0
  <2>1. PICK h : Flattening(h, rest, n) /\ FlattenSeq(rest) = h[n]
    BY <1>5, FlatIs
  <2>2. h[n] \in Seq(Message) /\ g[n + k] = Cat(g[k], h[n])
    BY <1>1, <1>5, <2>1, FlattenTail
  <2>3. QED
    BY <1>1, <1>2, <2>1, <2>2
<1>6. QED
  BY <1>4, <1>5

(* No command asks for nothing.                                            *)
LEMMA AskedNothing == Asked(<<>>) = <<>>
<1>1. Pieces(<<>>) = <<>> /\ Len(Pieces(<<>>)) = 0
  BY DEF Pieces
<1>2. QED
  BY <1>1, FlatIs, AskedIs

(* What is behind the first c of a sequence.                               *)
LEMMA Suffix ==
  ASSUME NEW S, NEW s \in Seq(S), NEW c \in Nat, NEW n \in Nat, Len(s) = n + c
  PROVE  LET rest == SubSeq(s, c + 1, Len(s)) IN
         rest \in Seq(S) /\ Len(rest) = n /\ \A i \in 1 .. n : rest[i] = s[i + c]
<1>1. c + 1 \in Int /\ Len(s) \in Int /\ \A i \in c + 1 .. Len(s) : s[i] \in S
  OBVIOUS
<1> DEFINE rest == SubSeq(s, c + 1, Len(s))
<1>2. /\ rest \in Seq(S)
      /\ Len(rest) = IF c + 1 <= Len(s) THEN Len(s) - (c + 1) + 1 ELSE 0
      /\ \A i \in 1 .. Len(s) - (c + 1) + 1 : rest[i] = s[(c + 1) + i - 1]
  <2>1. ASSUME NEW m \in Int, NEW k \in Int, \A i \in m .. k : s[i] \in S
        PROVE  /\ SubSeq(s, m, k) \in Seq(S)
               /\ Len(SubSeq(s, m, k)) = IF m <= k THEN k - m + 1 ELSE 0
               /\ \A i \in 1 .. k - m + 1 : SubSeq(s, m, k)[i] = s[m + i - 1]
    BY <2>1, SubSeqProperties
  <2>2. QED
    BY <1>1, <2>1
<1> HIDE DEF rest
<1>3. Len(rest) = n
  BY <1>2
<1>4. ASSUME NEW i \in 1 .. n PROVE rest[i] = s[i + c]
  <2>1. (c + 1) + i - 1 = i + c /\ i \in 1 .. Len(s) - (c + 1) + 1
    OBVIOUS
  <2>2. QED
    BY <1>2, <2>1
<1>5. QED
  BY <1>2, <1>3, <1>4 DEF rest

(* Behind the words of a command, which words are arguments does not       *)
(* depend on that command.                                                 *)
LEMMA ArgsBehind ==
  ASSUME NEW av \in Seq(STRING), NEW c \in {1, 2}, c = 2 <=> av[1] \in TakesArg,
         NEW n \in Nat, Len(av) = n + c,
         NEW rest \in Seq(STRING), Len(rest) = n, \A i \in 1 .. n : rest[i] = av[i + c]
  PROVE  /\ ~IsArg(av)[1] /\ (c = 2 => IsArg(av)[2])
         /\ \A i \in 1 .. n : IsArg(rest)[i] <=> IsArg(av)[i + c]
<1>1. \A i \in 1 .. n : rest[i] = av[i + c]
  OBVIOUS
<1>2. /\ \A i \in 0 .. n + c :
            IsArg(av)[i] <=> (i > 1 /\ ~IsArg(av)[i - 1] /\ av[i - 1] \in TakesArg)
      /\ \A i \in 0 .. n :
            IsArg(rest)[i] <=> (i > 1 /\ ~IsArg(rest)[i - 1] /\ rest[i - 1] \in TakesArg)
  <2>1. Len(av) \in Nat /\ Len(rest) \in Nat
    OBVIOUS
  <2>2. QED
    BY <2>1, ArgAt, Zenon
<1>3. ~IsArg(av)[1] /\ (c = 2 <=> av[1] \in TakesArg)
  BY <1>2
<1>4. c = 2 => IsArg(av)[2]
  BY <1>2, <1>3
<1> DEFINE T == {i \in Nat : i + 1 \in 1 .. n => (IsArg(rest)[i + 1] <=> IsArg(av)[(i + 1) + c])}
<1>5. 0 \in T
  <2>1. ASSUME 1 \in 1 .. n PROVE ~IsArg(rest)[1] /\ ~IsArg(av)[1 + c]
    <3>1. ~IsArg(rest)[1]
      BY <1>2, <2>1
    <3>2. IsArg(av)[1 + c] <=> (~IsArg(av)[c] /\ av[c] \in TakesArg)
      BY <1>2, <2>1
    <3>3. c = 1 => av[c] \notin TakesArg
      BY <1>3
    <3>4. c = 2 => IsArg(av)[c]
      BY <1>4
    <3>5. QED
      BY <3>1, <3>2, <3>3, <3>4
  <2>2. QED
    BY <2>1
<1>6. ASSUME NEW i \in Nat, i \in T PROVE i + 1 \in T
  <2> DEFINE j == i + 1
  <2>1. CASE j + 1 \in 1 .. n
    <3>1. j \in 1 .. n /\ (IsArg(rest)[j] <=> IsArg(av)[j + c])
      BY <1>6, <2>1
    <3>2. IsArg(rest)[j + 1] <=> (~IsArg(rest)[j] /\ rest[j] \in TakesArg)
      BY <1>2, <2>1
    <3>3. (j + 1) + c \in 0 .. n + c /\ (j + 1) + c > 1 /\ ((j + 1) + c) - 1 = j + c
      BY <2>1
    <3>4. IsArg(av)[(j + 1) + c] <=> (~IsArg(av)[j + c] /\ av[j + c] \in TakesArg)
      BY <1>2, <3>3
    <3>5. rest[j] = av[j + c]
      BY <1>1, <3>1
    <3> HIDE DEF j
    <3>6. QED
      BY <3>1, <3>2, <3>4, <3>5 DEF j
  <2>2. QED
    BY <2>1
<1>7. \A i \in Nat : i \in T
  <2> HIDE DEF T
  <2>1. QED
    BY <1>5, <1>6, Induction
<1>8. ASSUME NEW i \in 1 .. n PROVE IsArg(rest)[i] <=> IsArg(av)[i + c]
  <2>1. i - 1 \in Nat /\ (i - 1) + 1 = i
    OBVIOUS
  <2>2. i - 1 \in T
    BY <1>7, <2>1
  <2>3. QED
    BY <2>1, <2>2
<1>9. QED
  BY <1>1, <1>3, <1>4, <1>8

(* What is asked for is what the first command sends and what the rest     *)
(* asks for, of a command whose words are the first c of av.               *)
LEMMA AskedStep ==
  ASSUME NEW av \in Seq(STRING), NEW c \in {1, 2}, c = 2 <=> av[1] \in TakesArg,
         NEW n \in Nat, Len(av) = n + c,
         NEW rest \in Seq(STRING), Len(rest) = n, \A i \in 1 .. n : rest[i] = av[i + c]
  PROVE  Asked(rest) \in Seq(Message) /\ Asked(av) = Cat(Sends(av), Asked(rest))
<1>1. n \in Nat /\ Len(av) = n + c /\ c \in Nat /\ (c = 2 <=> av[1] \in TakesArg)
  OBVIOUS
<1>2. /\ Len(rest) = n /\ \A i \in 1 .. n : rest[i] = av[i + c]
      /\ ~IsArg(av)[1] /\ (c = 2 => IsArg(av)[2])
      /\ \A i \in 1 .. n : IsArg(rest)[i] <=> IsArg(av)[i + c]
  BY ArgsBehind
<1>3. ASSUME NEW i \in 1 .. n PROVE Piece(rest, i) = Piece(av, i + c)
  <2>1. /\ IsArg(rest)[i] <=> IsArg(av)[i + c]
        /\ rest[i] = av[i + c]
        /\ i < Len(rest) <=> i + c < Len(av)
        /\ i < Len(rest) => rest[i + 1] = av[(i + c) + 1]
    BY <1>1, <1>2
  <2>2. QED
    BY <2>1, Zenon DEF Piece
<1>4. /\ \A i \in 1 .. n + c : Pieces(av)[i] = Piece(av, i) /\ Piece(av, i) \in Seq(Message)
      /\ \A i \in 1 .. n : Pieces(rest)[i] = Piece(rest, i)
      /\ Len(Pieces(av)) = n + c /\ Len(Pieces(rest)) = n
      /\ n = 0 => Pieces(rest) = <<>>
  <2>1. \A i \in 1 .. n + c : Piece(av, i) \in Seq(Message)
    BY <1>1, PieceType
  <2>2. /\ \A i \in 1 .. n + c : Pieces(av)[i] = Piece(av, i)
        /\ Len(Pieces(av)) = n + c
    BY <1>1 DEF Pieces
  <2>3. /\ \A i \in 1 .. n : Pieces(rest)[i] = Piece(rest, i)
        /\ Len(Pieces(rest)) = n
        /\ n = 0 => Pieces(rest) = <<>>
    BY <1>1, <1>2 DEF Pieces
  <2>4. QED
    BY <2>1, <2>2, <2>3
<1>5. Behind(Message, n, c, Pieces(av), Pieces(rest))
  <2>1. \A i \in 1 .. n : i + c \in 1 .. n + c
    BY <1>1
  <2>2. QED
    BY <1>3, <1>4, <2>1 DEF Behind
<1>6. /\ Asked(rest) \in Seq(Message)
      /\ c = 1 => Asked(av) = Cat(Pieces(av)[1], Asked(rest))
      /\ c = 2 => Asked(av) = Cat(Cat(Pieces(av)[1], Pieces(av)[2]), Asked(rest))
  <2>1. /\ FlattenSeq(Pieces(rest)) \in Seq(Message)
        /\ c = 1 => FlattenSeq(Pieces(av)) = Cat(Pieces(av)[1], FlattenSeq(Pieces(rest)))
        /\ c = 2 => FlattenSeq(Pieces(av)) =
                        Cat(Cat(Pieces(av)[1], Pieces(av)[2]), FlattenSeq(Pieces(rest)))
    <3>1. n \in Nat /\ c \in {1, 2} /\ Len(Pieces(av)) = n + c /\ Len(Pieces(rest)) = n
          /\ (n = 0 => Pieces(rest) = <<>>)
      BY <1>1, <1>4
    <3>2. ASSUME NEW seqs, NEW tail, Behind(Message, n, c, seqs, tail), Len(seqs) = n + c,
                 Len(tail) = n, n = 0 => tail = <<>>
          PROVE  /\ FlattenSeq(tail) \in Seq(Message)
                 /\ c = 1 => FlattenSeq(seqs) = Cat(seqs[1], FlattenSeq(tail))
                 /\ c = 2 => FlattenSeq(seqs) = Cat(Cat(seqs[1], seqs[2]), FlattenSeq(tail))
      BY <3>2, FlattenFrom
    <3>3. QED
      BY <1>5, <3>1, <3>2, Zenon
  <2>2. QED
    BY <2>1, AskedIs
<1>7. CASE c = 1
  <2>1. Pieces(av)[1] = Messages(av[1], "")
    <3>1. 1 \in 1 .. n + c
      BY <1>1, <1>7
    <3>2. QED
      BY <1>2, <1>4, <1>7, <3>1, Zenon DEF Piece
  <2>2. Sends(av) = Messages(av[1], "")
    <3>1. av[1] \notin TakesArg
      BY <1>7
    <3>2. QED
      BY <3>1, Zenon DEF Sends, Complete
  <2>3. QED
    BY <1>2, <1>6, <1>7, <2>1, <2>2
<1>8. CASE c = 2
  <2>1. 1 \in 1 .. n + c /\ 2 \in 1 .. n + c /\ 1 < Len(av) /\ Len(av) >= 2
    BY <1>1, <1>8
  <2>2. Pieces(av)[1] = Messages(av[1], av[2])
    <3>1. av[1] \in TakesArg /\ av[1 + 1] = av[2]
      BY <1>8
    <3>2. QED
      BY <1>2, <1>4, <2>1, <3>1, Zenon DEF Piece
  <2>3. Pieces(av)[2] = <<>>
    BY <1>2, <1>4, <1>8, <2>1 DEF Piece
  <2>4. Sends(av) = Messages(av[1], av[2])
    BY <1>8, <2>1 DEF Sends, Complete
  <2>5. Cat(Messages(av[1], av[2]), <<>>) = Messages(av[1], av[2])
    <3>1. Messages(av[1], av[2]) \in Seq(Message)
      BY <1>4, <2>1, <2>2
    <3>2. QED
      BY <3>1, ConcatEmptySeq DEF Cat
  <2>6. QED
    BY <1>2, <1>6, <1>8, <2>2, <2>3, <2>4, <2>5
<1>9. QED
  BY <1>7, <1>8

(* A last word that lacks the argument it takes sends nothing.             *)
LEMMA AskedShort ==
  ASSUME NEW av \in Seq(STRING), Len(av) = 1, av[1] \in TakesArg
  PROVE  Asked(av) = <<>> /\ Sends(av) = <<>>
<1>1. ~IsArg(av)[1]
  BY ArgAt
<1>2. Piece(av, 1) = <<>>
  BY <1>1 DEF Piece
<1>3. Len(Pieces(av)) = 1 /\ Pieces(av)[1] = <<>>
  BY <1>2 DEF Pieces
<1>4. PICK g : Flattening(g, Pieces(av), 1) /\ Asked(av) = g[1]
  <2>1. Len(Pieces(av)) \in Nat /\ Len(Pieces(av)) # 0
    BY <1>3
  <2>2. QED
    BY <1>3, <2>1, FlatIs, AskedIs, Zenon
<1>5. \A i \in 1 .. 1 : g[i] = IF i = 1 THEN Pieces(av)[i] ELSE Cat(g[i - 1], Pieces(av)[i])
  BY <1>4, Zenon DEF Flattening
<1>6. Asked(av) = <<>>
  BY <1>3, <1>4, <1>5
<1>7. Sends(av) = <<>>
  BY DEF Sends, Complete
<1>8. QED
  BY <1>6, <1>7

(* Both: next_argument sends what is asked for at the head, and leaves the *)
(* rest to be asked for.                                                   *)
LEMMA AskedFrom ==
  ASSUME NEW av \in Seq(STRING), av # <<>>
  PROVE  LET rest == SubSeq(av, Count(av[1]) + 1, Len(av)) IN
         /\ rest \in Seq(STRING)
         /\ Asked(rest) \in Seq(Message)
         /\ Asked(av) = Cat(Sends(av), Asked(rest))
<1>1. Len(av) \in Nat /\ Len(av) # 0
  OBVIOUS
<1>2. ASSUME NEW c \in {1, 2}, c = 2 <=> av[1] \in TakesArg, Len(av) >= c
      PROVE  LET rest == SubSeq(av, c + 1, Len(av)) IN
             /\ rest \in Seq(STRING)
             /\ Asked(rest) \in Seq(Message)
             /\ Asked(av) = Cat(Sends(av), Asked(rest))
  <2> DEFINE rest == SubSeq(av, c + 1, Len(av))
             n == Len(av) - c
  <2>1. c \in Nat /\ n \in Nat /\ Len(av) = n + c
    BY <1>1, <1>2
  <2> HIDE DEF n
  <2>2. rest \in Seq(STRING) /\ Len(rest) = n /\ \A i \in 1 .. n : rest[i] = av[i + c]
    BY <2>1, Suffix
  <2> HIDE DEF rest
  <2>3. Asked(rest) \in Seq(Message) /\ Asked(av) = Cat(Sends(av), Asked(rest))
    BY <1>2, <2>1, <2>2, AskedStep
  <2>4. QED
    BY <2>2, <2>3 DEF rest
<1>3. CASE av[1] \notin TakesArg
  <2>1. Count(av[1]) = 1
    BY <1>3 DEF Count
  <2>2. QED
    BY <1>1, <1>2, <1>3, <2>1
<1>4. CASE av[1] \in TakesArg /\ Len(av) >= 2
  <2>1. Count(av[1]) = 2
    BY <1>4 DEF Count
  <2>2. QED
    BY <1>1, <1>2, <1>4, <2>1
<1>5. CASE av[1] \in TakesArg /\ Len(av) = 1
  <2>1. Count(av[1]) = 2
    BY <1>5 DEF Count
  <2>2. SubSeq(av, 2 + 1, Len(av)) = <<>>
    BY <1>5, SubSeqEmpty
  <2>3. Asked(av) = <<>> /\ Sends(av) = <<>> /\ Asked(<<>>) = <<>>
    BY <1>5, AskedShort, AskedNothing
  <2>4. <<>> \in Seq(Message) /\ Cat(<<>>, <<>>) = <<>>
    BY ConcatEmptySeq DEF Cat
  <2>5. <<>> \in Seq(STRING)
    OBVIOUS
  <2>6. QED
    BY <2>1, <2>2, <2>3, <2>4, <2>5
<1>6. Len(av) >= 2 \/ Len(av) = 1
  <2>1. \A n \in Nat : n # 0 => n >= 2 \/ n = 1
    OBVIOUS
  <2>2. QED
    BY <1>1, <2>1, Zenon
<1>7. QED
  BY <1>3, <1>4, <1>5, <1>6, Zenon
-----------------------------------------------------------------------------
(* What is still to be sent is what was asked for and not sent yet, until  *)
(* the shell's input ends.                                                 *)
Saying(p) ==
    /\ at[p] \in {"exited", "open", "ready"} => todo[p] = <<>>
    /\ ~eof[p] =>
        /\ ~odd[p]
        /\ at[p] = "exited" => owed[p] = <<>>
        /\ at[p] = "args" => owed[p] = Cat(todo[p], Asked(argv[p]))
        /\ at[p] = "shell" => owed[p] = todo[p]
SayInv ==
    /\ todo \in [Proc -> Seq(Message)]
    /\ argv \in [Proc -> Seq(STRING)] /\ buf \in [Proc -> Seq(STRING)]
    /\ Function(owed, Proc) /\ Function(odd, Proc) /\ Function(eof, Proc)
    /\ \A p \in Proc : Saying(p)

(* What a step of p does to it.                                            *)
SayKeeps(p) ==
    /\ todo' \in [Proc -> Seq(Message)]
    /\ argv' \in [Proc -> Seq(STRING)] /\ buf' \in [Proc -> Seq(STRING)]
    /\ Function(owed', Proc) /\ Function(odd', Proc) /\ Function(eof', Proc) /\ Saying(p)'
    /\ \A q \in Proc \ {p} :
        /\ at'[q] = at[q] /\ todo'[q] = todo[q] /\ argv'[q] = argv[q]
        /\ owed'[q] = owed[q] /\ odd'[q] = odd[q] /\ eof'[q] = eof[q]

(* What is asked for are messages.                                         *)
LEMMA AskedType ==
  ASSUME NEW av \in Seq(STRING)
  PROVE  Asked(av) \in Seq(Message)
<1>1. CASE av = <<>>
  <2>1. <<>> \in Seq(Message)
    OBVIOUS
  <2>2. QED
    BY <1>1, <2>1, AskedNothing
<1>2. CASE av # <<>>
  BY <1>2, AskedFrom, SendsType, CatType
<1>3. QED
  BY <1>1, <1>2

(* The head of a concatenation.                                            *)
LEMMA CatHead ==
  ASSUME NEW S, NEW s \in Seq(S), s # <<>>, NEW t \in Seq(S)
  PROVE  /\ Cat(s, t) # <<>> /\ Head(Cat(s, t)) = Head(s)
         /\ Tail(Cat(s, t)) = Cat(Tail(s), t) /\ Tail(s) \in Seq(S)
  BY DEF Cat

(* A line of the shell asks for what its first command sends.              *)
LEMMA LineAsks ==
  ASSUME NEW line \in Seq(STRING), line # <<>>
  PROVE  Asked(SubSeq(line, 1, IF line[1] \in TakesArg /\ Len(line) > 1 THEN 2 ELSE 1))
            = Sends(line)
<1>1. Len(line) \in Nat /\ Len(line) # 0
  OBVIOUS
<1>2. ASSUME NEW k \in {1, 2}, k = IF line[1] \in TakesArg /\ Len(line) > 1 THEN 2 ELSE 1
      PROVE  Asked(SubSeq(line, 1, k)) = Sends(line)
  <2> DEFINE av == SubSeq(line, 1, k)
             c == Count(line[1])
             rest == SubSeq(av, c + 1, k)
  <2>1. k <= Len(line)
    BY <1>1, <1>2
  <2>2. av \in Seq(STRING) /\ Len(av) = k /\ \A i \in 1 .. k : av[i] = line[i]
    BY <2>1
  <2> HIDE DEF av
  <2>3. av # <<>> /\ av[1] = line[1]
    BY <1>2, <2>2
  <2>4. k <= c
    BY <1>2 DEF Count
  <2>5. rest = <<>>
    <3>1. c + 1 \in Int /\ k \in Int /\ k < c + 1
      BY <1>2, <2>4 DEF Count
    <3>2. QED
      BY <3>1, SubSeqEmpty
  <2>6. Sends(av) = Sends(line) /\ Sends(av) \in Seq(Message)
    <3>1. Complete(av) <=> Complete(line)
      BY <1>1, <1>2, <2>2, <2>3 DEF Complete
    <3>2. Complete(line) /\ line[1] \in TakesArg => av[2] = line[2]
      BY <1>1, <1>2, <2>2 DEF Complete
    <3>3. Sends(av) = Sends(line)
      BY <2>3, <3>1, <3>2, Zenon DEF Sends
    <3>4. QED
      BY <2>2, <2>3, <3>3, SendsType
  <2>7. Asked(av) = Cat(Sends(av), Asked(rest))
    <3>1. Asked(av) = Cat(Sends(av), Asked(SubSeq(av, Count(av[1]) + 1, Len(av))))
      BY <2>2, <2>3, AskedFrom
    <3>2. QED
      BY <2>2, <2>3, <3>1
  <2>8. Cat(Sends(av), <<>>) = Sends(av)
    BY <2>6, ConcatEmptySeq DEF Cat
  <2>9. QED
    BY <2>5, <2>6, <2>7, <2>8, AskedNothing DEF av
<1>3. QED
  BY <1>2

(* The end of a program, with 0 only if nothing is owed.                   *)
LEMMA ExitSays ==
  ASSUME IbType, SayInv, NEW p \in Proc, NEW n, Exit(p, n),
         n = 0 /\ ~eof[p] => owed[p] = <<>>
  PROVE  SayKeeps(p)
<1>1. /\ at' = [at EXCEPT ![p] = "exited"] /\ argv' = [argv EXCEPT ![p] = <<>>]
      /\ buf' = [buf EXCEPT ![p] = <<>>] /\ todo' = [todo EXCEPT ![p] = <<>>]
      /\ IF n = 0 THEN UNCHANGED <<owed, odd, eof>>
         ELSE /\ owed' = [owed EXCEPT ![p] = <<>>] /\ odd' = [odd EXCEPT ![p] = FALSE]
              /\ eof' = [eof EXCEPT ![p] = FALSE]
  BY DEF Exit, Set
<1>2. /\ at'[p] = "exited" /\ todo'[p] = <<>>
      /\ todo' \in [Proc -> Seq(Message)]
      /\ argv' \in [Proc -> Seq(STRING)] /\ buf' \in [Proc -> Seq(STRING)]
  <2>1. <<>> \in Seq(Message) /\ <<>> \in Seq(STRING)
    OBVIOUS
  <2>2. at'[p] = "exited" /\ todo'[p] = <<>>
    BY <1>1 DEF IbType, SayInv
  <2>3. /\ todo' \in [Proc -> Seq(Message)]
        /\ argv' \in [Proc -> Seq(STRING)] /\ buf' \in [Proc -> Seq(STRING)]
    BY <1>1, <2>1 DEF SayInv
  <2>4. QED
    BY <2>2, <2>3
<1>3. /\ Function(owed', Proc) /\ Function(odd', Proc) /\ Function(eof', Proc)
      /\ ~eof'[p] => ~odd'[p] /\ owed'[p] = <<>>
  BY <1>1 DEF SayInv, Saying, Function
<1>4. Saying(p)'
  BY <1>2, <1>3 DEF Saying
<1>5. \A q \in Proc \ {p} :
        /\ at'[q] = at[q] /\ todo'[q] = todo[q] /\ argv'[q] = argv[q]
        /\ owed'[q] = owed[q] /\ odd'[q] = odd[q] /\ eof'[q] = eof[q]
  BY <1>1 DEF IbType, SayInv, Function
<1>6. QED
  BY <1>2, <1>3, <1>4, <1>5 DEF SayKeeps

(* A message of which it is the turn is the next of those that are owed.   *)
LEMMA IsOwed ==
  ASSUME SayInv, IbType, NEW p \in Proc, todo[p] # <<>>, ~eof[p]
  PROVE  LET rest == IF at[p] = "args" THEN Asked(argv[p]) ELSE <<>> IN
         /\ at[p] \in {"args", "shell"}
         /\ owed[p] # <<>> /\ Head(owed[p]) = Head(todo[p])
         /\ Tail(owed[p]) = Cat(Tail(todo[p]), rest) /\ Tail(todo[p]) \in Seq(Message)
<1> DEFINE rest == IF at[p] = "args" THEN Asked(argv[p]) ELSE <<>>
<1>1. Saying(p) /\ todo[p] \in Seq(Message) /\ argv[p] \in Seq(STRING)
  BY DEF SayInv
<1>2. at[p] \in {"args", "shell"}
  BY <1>1 DEF IbType, Saying
<1>3. rest \in Seq(Message) /\ owed[p] = Cat(todo[p], rest)
  <2>1. CASE at[p] = "args"
    BY <1>1, <2>1, AskedType DEF Saying
  <2>2. CASE at[p] = "shell"
    <3>1. Cat(todo[p], <<>>) = todo[p] /\ <<>> \in Seq(Message)
      BY <1>1, ConcatEmptySeq DEF Cat
    <3>2. QED
      BY <1>1, <2>2, <3>1 DEF Saying
  <2>3. QED
    BY <1>2, <2>1, <2>2
<1> HIDE DEF rest
<1>4. QED
  <2>1. /\ owed[p] # <<>> /\ Head(owed[p]) = Head(todo[p])
        /\ Tail(owed[p]) = Cat(Tail(todo[p]), rest) /\ Tail(todo[p]) \in Seq(Message)
    BY <1>1, <1>3, CatHead
  <2>2. QED
    BY <1>2, <2>1 DEF rest

(* One message, sent or lost.                                              *)
LEMMA MessageSays ==
  ASSUME SayInv, IbType, NEW p \in Proc, message(p) \/ message_lost(p)
  PROVE  SayKeeps(p)
<1>1. /\ todo[p] # <<>> /\ todo' = [todo EXCEPT ![p] = Tail(todo[p])]
      /\ UNCHANGED <<at, argv, buf, eof>>
      /\ IF owed[p] # <<>> /\ Head(owed[p]) = Head(todo[p])
         THEN owed' = [owed EXCEPT ![p] = Tail(owed[p])] /\ odd' = odd
         ELSE odd' = [odd EXCEPT ![p] = TRUE] /\ owed' = owed
  BY DEF message, message_lost, Turn, Set, procVars, lineVars
<1>2. /\ todo' \in [Proc -> Seq(Message)] /\ todo'[p] = Tail(todo[p])
      /\ Function(owed', Proc) /\ Function(odd', Proc)
      /\ \A q \in Proc \ {p} : todo'[q] = todo[q] /\ owed'[q] = owed[q] /\ odd'[q] = odd[q]
  <2>1. Tail(todo[p]) \in Seq(Message)
    <3>1. \A s \in Seq(Message) : s # <<>> => Tail(s) \in Seq(Message)
      OBVIOUS
    <3>2. QED
      BY <1>1, <3>1 DEF SayInv
  <2>2. QED
    BY <1>1, <2>1 DEF SayInv, Function
<1>3. Saying(p)'
  <2>1. Saying(p) /\ at[p] \in {"args", "shell"}
    BY <1>1 DEF SayInv, IbType, Saying
  <2>2. CASE eof[p]
    BY <1>1, <2>1, <2>2 DEF Saying
  <2>3. CASE ~eof[p]
    <3> DEFINE rest == IF at[p] = "args" THEN Asked(argv[p]) ELSE <<>>
    <3>1. /\ owed[p] # <<>> /\ Head(owed[p]) = Head(todo[p])
          /\ Tail(owed[p]) = Cat(Tail(todo[p]), rest) /\ Tail(todo[p]) \in Seq(Message)
      BY <1>1, <2>3, IsOwed
    <3>2. owed'[p] = Cat(todo'[p], rest) /\ odd' = odd
      BY <1>1, <1>2, <3>1 DEF SayInv, Function
    <3>3. Cat(todo'[p], <<>>) = todo'[p]
      BY <1>2, <3>1, ConcatEmptySeq DEF Cat
    <3>4. /\ at[p] = "args" => owed'[p] = Cat(todo'[p], Asked(argv[p]))
          /\ at[p] = "shell" => owed'[p] = todo'[p]
      BY <3>2, <3>3
    <3> HIDE DEF rest
    <3>5. QED
      BY <1>1, <2>1, <2>3, <3>2, <3>4 DEF Saying
  <2>4. QED
    BY <2>2, <2>3
<1>4. QED
  BY <1>1, <1>2, <1>3 DEF SayKeeps, SayInv

(* The next command of the arguments.                                      *)
LEMMA ArgumentSays ==
  ASSUME SayInv, IbType, NEW p \in Proc, next_argument(p)
  PROVE  SayKeeps(p)
<1> DEFINE av == argv[p]
           rest == SubSeq(av, Count(av[1]) + 1, Len(av))
<1>1. Saying(p) /\ av \in Seq(STRING) /\ av # <<>> /\ at[p] = "args" /\ todo[p] = <<>>
  BY DEF SayInv, next_argument, ArgsLeft
<1>2. /\ todo' = [todo EXCEPT ![p] = Sends(av)] /\ argv' = [argv EXCEPT ![p] = rest]
      /\ UNCHANGED <<at, buf, owed, odd, eof>>
  BY DEF next_argument, command, Set, procVars
<1>3. rest \in Seq(STRING) /\ Asked(rest) \in Seq(Message) /\ Asked(av) = Cat(Sends(av), Asked(rest))
  BY <1>1, AskedFrom
<1>4. Sends(av) \in Seq(Message)
  BY <1>1, SendsType
<1>5. ~eof[p] => owed[p] = Asked(av)
  <2>1. Cat(<<>>, Asked(av)) = Asked(av)
    BY <1>1, AskedType, ConcatEmptySeq DEF Cat
  <2>2. QED
    BY <1>1, <2>1 DEF Saying
<1> HIDE DEF rest, av
<1>6. /\ todo' \in [Proc -> Seq(Message)] /\ argv' \in [Proc -> Seq(STRING)]
      /\ todo'[p] = Sends(av) /\ argv'[p] = rest
      /\ \A q \in Proc \ {p} : todo'[q] = todo[q] /\ argv'[q] = argv[q]
  BY <1>2, <1>3, <1>4 DEF SayInv
<1>7. Saying(p)'
  BY <1>1, <1>2, <1>3, <1>5, <1>6 DEF Saying
<1>8. QED
  BY <1>2, <1>6, <1>7 DEF SayKeeps, SayInv

(* A line of the shell.                                                    *)
LEMMA LineSays ==
  ASSUME SayInv, IbType, NEW p \in Proc, NEW line \in Typed, xreadline(p, line)
  PROVE  SayKeeps(p)
<1> DEFINE first == SubSeq(line, 1, IF line[1] \in TakesArg /\ Len(line) > 1 THEN 2 ELSE 1)
           new == IF line = <<>> THEN <<>> ELSE Asked(first)
<1>1. Saying(p) /\ at[p] = "shell" /\ todo[p] = <<>> /\ (~eof[p] => owed[p] = <<>>)
  BY DEF SayInv, Saying, xreadline, Prompts
<1>2. line \in Seq(STRING)
  BY IbQueryAssumption
<1>3. /\ UNCHANGED <<at, argv, odd, eof>> /\ owed' = [owed EXCEPT ![p] = owed[p] \o new]
      /\ buf' = [buf EXCEPT ![p] = line]
  BY DEF xreadline, Set, procVars
<1>4. new \in Seq(Message) /\ todo' = [todo EXCEPT ![p] = new]
  <2>1. CASE line = <<>>
    <3>1. todo' = todo /\ new = <<>>
      BY <2>1 DEF xreadline
    <3>2. [todo EXCEPT ![p] = <<>>] = todo
      BY <1>1 DEF SayInv
    <3>3. <<>> \in Seq(Message)
      OBVIOUS
    <3>4. QED
      BY <3>1, <3>2, <3>3
  <2>2. CASE line # <<>>
    <3>1. new = Sends(line)
      BY <1>2, <2>2, LineAsks
    <3>2. todo' = [todo EXCEPT ![p] = Sends(line)]
      BY <2>2 DEF xreadline, command, Set
    <3>3. Sends(line) \in Seq(Message)
      BY <1>2, <2>2, SendsType
    <3>4. QED
      BY <3>1, <3>2, <3>3
  <2>3. QED
    BY <2>1, <2>2
<1> HIDE DEF new
<1>5. /\ todo' \in [Proc -> Seq(Message)] /\ buf' \in [Proc -> Seq(STRING)]
      /\ Function(owed', Proc) /\ todo'[p] = new
      /\ \A q \in Proc \ {p} : todo'[q] = todo[q] /\ owed'[q] = owed[q]
  BY <1>2, <1>3, <1>4 DEF SayInv, Function
<1>6. ~eof[p] => owed'[p] = new
  <2>1. <<>> \o new = new
    BY <1>4, ConcatEmptySeq
  <2>2. owed'[p] = owed[p] \o new
    BY <1>3 DEF SayInv, Function
  <2>3. QED
    BY <1>1, <2>1, <2>2
<1>7. Saying(p)'
  BY <1>1, <1>3, <1>5, <1>6 DEF Saying
<1>8. QED
  BY <1>3, <1>5, <1>7 DEF SayKeeps, SayInv

(* The end of the input: the line in the buffer once more.                 *)
LEMMA EofSays ==
  ASSUME SayInv, IbType, NEW p \in Proc, at_eof(p)
  PROVE  SayKeeps(p)
<1>1. /\ at[p] = "shell" /\ buf[p] \in Seq(STRING) /\ buf[p] # <<>>
      /\ todo' = [todo EXCEPT ![p] = Sends(buf[p])] /\ owed' = [owed EXCEPT ![p] = <<>>]
      /\ eof' = [eof EXCEPT ![p] = TRUE] /\ UNCHANGED <<at, argv, buf, odd>>
  BY DEF SayInv, at_eof, command, Prompts, Set, procVars, lineVars
<1>2. Sends(buf[p]) \in Seq(Message)
  BY <1>1, SendsType
<1>3. /\ todo' \in [Proc -> Seq(Message)]
      /\ Function(owed', Proc) /\ Function(eof', Proc) /\ eof'[p] = TRUE
      /\ \A q \in Proc \ {p} : todo'[q] = todo[q] /\ owed'[q] = owed[q] /\ eof'[q] = eof[q]
  BY <1>1, <1>2 DEF SayInv, Function
<1>4. Saying(p)'
  BY <1>1, <1>3 DEF Saying
<1>5. QED
  BY <1>1, <1>3, <1>4 DEF SayKeeps, SayInv

(* Every step of a program.                                                *)
LEMMA ProgramSays ==
  ASSUME SayInv, IbType, NEW p \in Proc, Program(p)
  PROVE  SayKeeps(p)
<1>0. Saying(p)
  BY DEF SayInv
<1>1. ASSUME NEW files \in Files, NEW name \in Name, main(p, files, name) PROVE SayKeeps(p)
  <2>1. /\ at[p] = "exited" /\ at' = [at EXCEPT ![p] = "open"] /\ UNCHANGED <<argv, buf, todo>>
        /\ owed' = [owed EXCEPT ![p] = <<>>] /\ odd' = [odd EXCEPT ![p] = FALSE]
        /\ eof' = [eof EXCEPT ![p] = FALSE]
    BY <1>1 DEF main, Set, lineVars
  <2>2. at'[p] = "open" /\ odd'[p] = FALSE /\ todo[p] = <<>>
    BY <1>0, <2>1 DEF IbType, SayInv, Saying, Function
  <2>3. Saying(p)'
    BY <2>1, <2>2 DEF Saying
  <2>4. QED
    BY <2>1, <2>3 DEF IbType, SayInv, Function, SayKeeps
<1>2. ASSUME NEW n, Exit(p, n), n # 0 PROVE SayKeeps(p)
  BY <1>2, ExitSays
<1>3. CASE UNCHANGED <<at, argv, buf, todo, owed, odd, eof>>
  BY <1>3 DEF SayInv, SayKeeps, Saying, Function
<1>4. CASE main_opens(p)
  <2>1. CASE at[p] = "open" /\ at' = Set(at, p, "ready")
             /\ UNCHANGED <<argv, buf, todo, owed, odd, eof>>
    <3>1. at'[p] = "ready" /\ \A q \in Proc \ {p} : at'[q] = at[q]
      BY <2>1 DEF IbType, Set
    <3>2. QED
      BY <1>0, <2>1, <3>1 DEF SayInv, SayKeeps, Saying, Function
  <2>2. QED
    BY <1>2, <1>3, <1>4, <2>1 DEF main_opens, procVars, lineVars, logVars, turnVars
<1>5. ASSUME NEW av \in Argv, Proceeds(p, av) PROVE SayKeeps(p)
  <2>1. /\ at[p] = "ready" /\ at' = [at EXCEPT ![p] = IF av = <<>> THEN "shell" ELSE "args"]
        /\ argv' = [argv EXCEPT ![p] = av] /\ owed' = [owed EXCEPT ![p] = Asked(av)]
        /\ UNCHANGED <<buf, todo, odd, eof>>
    BY <1>5 DEF Proceeds, Set
  <2>2. av \in Seq(STRING)
    BY IbQueryAssumption
  <2>3. todo[p] = <<>> /\ Cat(<<>>, Asked(av)) = Asked(av)
    <3>1. Cat(<<>>, Asked(av)) = Asked(av)
      BY <2>2, AskedType, ConcatEmptySeq DEF Cat
    <3>2. QED
      BY <1>0, <2>1, <3>1 DEF Saying
  <2>4. /\ at'[p] = IF av = <<>> THEN "shell" ELSE "args"
        /\ argv'[p] = av /\ owed'[p] = Asked(av)
    BY <2>1 DEF IbType, SayInv, Function
  <2>5. Saying(p)'
    <3>1. CASE av = <<>>
      BY <1>0, <2>1, <2>3, <2>4, <3>1, AskedNothing DEF Saying
    <3>2. CASE av # <<>>
      BY <1>0, <2>1, <2>3, <2>4, <3>2 DEF Saying
    <3>3. QED
      BY <3>1, <3>2
  <2>6. QED
    BY <2>1, <2>2, <2>5 DEF IbType, SayInv, Function, SayKeeps
<1>6. CASE main_ends(p)
  <2>1. Exit(p, 0) /\ todo[p] = <<>> /\ ((at[p] = "args" /\ argv[p] = <<>>) \/ at[p] = "shell")
    BY <1>6 DEF main_ends, Prompts
  <2>2. ~eof[p] => owed[p] = <<>>
    <3>1. Cat(<<>>, <<>>) = <<>>
      BY ConcatEmptySeq DEF Cat
    <3>2. QED
      BY <1>0, <2>1, <3>1, AskedNothing DEF Saying
  <2>3. QED
    BY <2>1, <2>2, ExitSays
<1>7. CASE message(p) \/ message_lost(p) \/ next_argument(p) \/ at_eof(p)
  BY <1>7, MessageSays, ArgumentSays, EofSays
<1>8. ASSUME NEW line \in Typed, xreadline(p, line) PROVE SayKeeps(p)
  BY <1>8, LineSays
<1>9. CASE main_opens_fails(p) \/ status_killed(p) \/ message_fails(p)
            \/ \E files \in Files, name \in Name : not_configured(p, files, name)
  <2>1. Exit(p, 1) \/ Exit(p, 128)
    BY <1>9 DEF main_opens_fails, status_killed, message_fails, not_configured
  <2>2. QED
    BY <1>2, <2>1
<1>10. QED
  BY <1>1, <1>4, <1>5, <1>6, <1>7, <1>8, <1>9 DEF Program

(* ibquery.c:command: until a shell's input ends, every message that is    *)
(* sent was asked for, each in its turn, and when the program ends with 0  *)
(* all of them have had theirs; they were sent, but for a write that a     *)
(* serial line lost.                                                       *)
THEOREM SaysWhatItIsTold == Spec => []CommandsAsGiven
<1>1. IbInit => SayInv
  <2>1. <<>> \in Seq(Message) /\ <<>> \in Seq(STRING)
    OBVIOUS
  <2>2. QED
    BY <2>1 DEF IbInit, SayInv, Saying, Function
<1>2. ASSUME IbInv, SayInv, [Next]_vars PROVE SayInv'
  <2>1. ASSUME NEW p \in Proc, Program(p) PROVE SayInv'
    <3>1. SayKeeps(p)
      BY <1>2, <2>1, ProgramSays DEF IbInv
    <3>2. ASSUME NEW q \in Proc \ {p} PROVE Saying(q)'
      BY <1>2, <3>1 DEF SayInv, SayKeeps, Saying
    <3>3. QED
      BY <3>1, <3>2 DEF SayInv, SayKeeps
  <2>2. CASE UNCHANGED vars
    BY <1>2, <2>2 DEF vars, procVars, lineVars, logVars, turnVars, SayInv, Saying, Function
  <2>3. QED
    BY <1>2, <2>1, <2>2 DEF Next
<1>3. SayInv => CommandsAsGiven
  BY DEF SayInv, Saying, CommandsAsGiven
<1>4. IbInv /\ SayInv /\ [Next]_vars => SayInv'
  BY <1>2
<1>5. Spec => []IbInv
  BY IbInvariance, PTL
<1>6. QED
  BY <1>1, <1>3, <1>4, <1>5, PTL DEF Spec
=============================================================================
